--------------------------- MODULE MCProjectedRows ---------------------------
(* Model-checking instance of ProjectedRows: an object, a list of objects    *)
(* and a number, and values that fit, do not fit, repeat a member, are       *)
(* spaced, or hold a number out of range.                                    *)
EXTENDS ProjectedRows

MCMember(n, t, o) == [name |-> n, type |-> t, nullable |-> o]
MCObject(ms, s) == [k |-> "object", members |-> ms, spaced |-> s]
MCList(is, s) == [k |-> "list", items |-> is, spaced |-> s]

MCRowFields ==
    <<MCMember(1, [k |-> "object", fields |-> <<MCMember(1, Kind("float"), FALSE), MCMember(2, Kind("time"), TRUE)>>], TRUE),
      MCMember(2, [k |-> "list", of |-> [k |-> "object", fields |-> <<MCMember(1, Kind("int"), TRUE)>>]], TRUE),
      MCMember(3, Kind("float"), FALSE)>>

MCRowValues ==
    {Kind(k) : k \in {"null", "int", "wide", "huge", "text", "time"}}
    \cup {MCObject(<<>>, FALSE)}
    \cup {MCObject(<<<<1, a>>>>, s) : a \in {Kind("int"), Kind("wide")}, s \in BOOLEAN}
    \cup {MCObject(<<<<1, a>>, <<2, b>>>>, FALSE) :
            a \in {Kind("int"), Kind("text")}, b \in {Kind("time"), Kind("huge"), Kind("text")}}
    \cup {MCObject(<<<<1, a>>, <<1, b>>>>, FALSE) : a, b \in {Kind("int"), Kind("text"), Kind("null")}}
    \cup {MCObject(<<<<1, Kind("text")>>, <<1, Kind("int")>>, <<2, Kind("time")>>>>, FALSE)}
    \cup {MCList(<<>>, TRUE), MCList(<<Kind("null"), MCObject(<<<<1, Kind("int")>>>>, TRUE)>>, FALSE)}
    \cup {MCList(<<MCObject(<<<<1, a>>, <<1, b>>>>, FALSE)>>, FALSE) : a, b \in {Kind("int"), Kind("text")}}

MCProjections == SUBSET {1, 2, 3}
=============================================================================
