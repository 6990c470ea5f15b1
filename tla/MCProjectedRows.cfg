CONSTANTS
    RowFields <- MCRowFields
    Projections <- MCProjections
    RowValues <- MCRowValues
    RowNames = {1, 2, 3, 9}
    MaxMembers = 2
SPECIFICATION PrSpec
INVARIANTS WritersAgree
CHECK_DEADLOCK FALSE
