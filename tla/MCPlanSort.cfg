CONSTANTS
    Columns = {"a", "b", "c"}
    Names = {"A", "B", "C"}
    Expressions <- MCExpressions
    SourceSchemas <- MCSchemas
    SourceRows <- MCSourceRows
    Repertoire <- MCRepertoire
    MaxSteps = 2
    PreviewRows = 1
    ScanCap = 2
SPECIFICATION PlSpec
INVARIANTS SortedAsPlanned
CHECK_DEADLOCK FALSE
