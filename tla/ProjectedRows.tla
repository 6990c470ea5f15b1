--------------------------- MODULE ProjectedRows ---------------------------
(***************************************************************************)
(* The two ways a row of JSON becomes a projected row (local-tabular       *)
(* connector).  The generic one (read.rs, parse_projected_object) parses   *)
(* every selected value into a tree, validates it and writes it again.     *)
(* The direct one (direct_projected.rs, chosen by the connection's         *)
(* jsonDirectProjectedWriter) captures the bytes of the value, validates   *)
(* them as a stream of tokens and copies them, unless they have to be      *)
(* rewritten.  Both readers are fed the same members of a row, one at a    *)
(* time, and must not be told apart by what they write or refuse.          *)
(*                                                                         *)
(* A value is a record with a kind k: null, bool, int, float, wide (an     *)
(* integer literal no integer type holds), huge (a number out of range),   *)
(* text, time (a text that is a timestamp), epoch (the number a timestamp  *)
(* becomes), list (items), object (members <<name, value>>).  "spaced" is  *)
(* a list or object whose bytes hold a control byte.  A type is a record   *)
(* with the same kinds; a field is [name, type, nullable].                 *)
(***************************************************************************)
EXTENDS Integers, Sequences, FiniteSets, SequencesExt

CONSTANTS
    RowFields,      \* the established schema: a sequence of fields
    Projections,    \* the sets of names a request may select
    RowValues,      \* the values a row may hold
    RowNames,       \* the names a row may use, unknown ones included
    MaxMembers      \* bound: members of a row

VARIABLES
    selected,   \* the names of the projection
    fed,        \* the members both writers were given
    generic,    \* the generic writer: [status, out]
    direct,     \* the direct writer
    closed      \* whether the row is over

prVars == <<selected, fed, generic, direct, closed>>

Kind(k) == [k |-> k]
Accept == "accept"
Drift == "SchemaDrift"        \* Category::Data
Invalid == "InvalidData"      \* Category::Syntax

FieldNamed(fields, name) == CHOOSE i \in DOMAIN fields : fields[i].name = name
HasField(fields, name) == \E i \in DOMAIN fields : fields[i].name = name

-----------------------------------------------------------------------------
(* The tree of a value: serde_json::Value.  Of a repeated key the last     *)
(* value counts, at the first one's place; a wide integer is a float; a    *)
(* number out of range fails the parse.                                    *)

RECURSIVE HasHuge(_)
HasHuge(v) ==
    \/ v.k = "huge"
    \/ v.k = "list" /\ \E i \in DOMAIN v.items : HasHuge(v.items[i])
    \/ v.k = "object" /\ \E i \in DOMAIN v.members : HasHuge(v.members[i][2])

LastOf(members, name) ==
    members[CHOOSE i \in DOMAIN members :
               members[i][1] = name /\ \A j \in DOMAIN members : j > i => members[j][1] # name][2]

UniqueNames(members) ==
    FoldLeft(LAMBDA kept, m: IF Contains(kept, m[1]) THEN kept ELSE Append(kept, m[1]),
             <<>>, members)

RECURSIVE Tree(_)
Tree(v) ==
    CASE v.k = "wide" -> Kind("float")
      [] v.k = "list" -> [k |-> "list", spaced |-> FALSE,
                          items |-> [i \in DOMAIN v.items |-> Tree(v.items[i])]]
      [] v.k = "object" ->
            LET names == UniqueNames(v.members) IN
            [k |-> "object", spaced |-> FALSE,
             members |-> [i \in DOMAIN names |-> <<names[i], Tree(LastOf(v.members, names[i]))>>]]
      [] OTHER -> v

(* validate_json_value, validate_json_type, validate_json_struct           *)
ScalarMatches(k, t) ==
    \/ k = t
    \/ k \in {"int", "float", "wide"} /\ t = "float"
    \/ k = "time" /\ t = "text"

RECURSIVE TypeMatches(_, _)
TypeMatches(v, type) ==
    CASE type.k = "list" ->
            /\ v.k = "list"
            /\ \A i \in DOMAIN v.items :
                  v.items[i].k = "null" \/ TypeMatches(v.items[i], type.of)
      [] type.k = "object" ->
            /\ v.k = "object"
            /\ \A i \in DOMAIN v.members : HasField(type.fields, v.members[i][1])
            /\ \A i \in DOMAIN type.fields :
                  LET f == type.fields[i]
                      present == {j \in DOMAIN v.members : v.members[j][1] = f.name}
                  IN  IF present = {} THEN f.nullable
                      ELSE \A j \in present :
                              LET x == v.members[j][2] IN
                              IF x.k = "null" THEN f.nullable ELSE TypeMatches(x, f.type)
      [] OTHER -> ScalarMatches(v.k, type.k)

ValueMatches(v, field) ==
    IF v.k = "null" THEN field.nullable ELSE TypeMatches(v, field.type)

(* normalize_json_temporal_value: a timestamp becomes its epoch, wherever  *)
(* the type has one.                                                       *)
RECURSIVE Normalized(_, _)
Normalized(v, type) ==
    CASE v.k = "null" -> v
      [] v.k = "time" /\ type.k = "time" -> Kind("epoch")
      [] v.k = "list" /\ type.k = "list" ->
            [v EXCEPT !.items = [i \in DOMAIN v.items |-> Normalized(v.items[i], type.of)]]
      [] v.k = "object" /\ type.k = "object" ->
            [v EXCEPT !.members = [i \in DOMAIN v.members |->
                <<v.members[i][1],
                  IF HasField(type.fields, v.members[i][1])
                  THEN Normalized(v.members[i][2],
                                  type.fields[FieldNamed(type.fields, v.members[i][1])].type)
                  ELSE v.members[i][2]>>]]
      [] OTHER -> v

-----------------------------------------------------------------------------
(* LogicalValueVisitor: the tokens in their order, refused at the first    *)
(* that does not fit.  A repeated key of a nested object is refused, or,   *)
(* when the caller collects duplicates, only noted.                        *)

First(verdicts) ==
    LET bad == {i \in DOMAIN verdicts : verdicts[i] # Accept} IN
    IF bad = {} THEN Accept ELSE verdicts[CHOOSE i \in bad : \A j \in bad : i <= j]

RECURSIVE Streamed(_, _, _, _)
Streamed(v, type, nullable, strict) ==
    CASE v.k = "huge" -> Invalid
      [] v.k = "null" -> IF nullable THEN Accept ELSE Drift
      [] v.k = "list" ->
            IF type.k # "list" THEN Drift
            ELSE First([i \in DOMAIN v.items |-> Streamed(v.items[i], type.of, TRUE, strict)])
      [] v.k = "object" ->
            IF type.k # "object" THEN Drift
            ELSE LET Member(i) ==
                        LET name == v.members[i][1] IN
                        IF ~HasField(type.fields, name) THEN Drift
                        ELSE IF strict /\ \E j \in 1..(i - 1) : v.members[j][1] = name THEN Drift
                        ELSE LET f == type.fields[FieldNamed(type.fields, name)] IN
                             Streamed(v.members[i][2], f.type, f.nullable, strict)
                     missing == \E i \in DOMAIN type.fields :
                                   /\ ~type.fields[i].nullable
                                   /\ \A j \in DOMAIN v.members :
                                         v.members[j][1] # type.fields[i].name
                 IN  First(Append([i \in DOMAIN v.members |-> Member(i)],
                                  IF missing THEN Drift ELSE Accept))
      [] OTHER -> IF ScalarMatches(v.k, type.k) THEN Accept ELSE Drift

RECURSIVE Repeats(_)
Repeats(v) ==
    \/ v.k = "list" /\ \E i \in DOMAIN v.items : Repeats(v.items[i])
    \/ /\ v.k = "object"
       /\ \/ \E i, j \in DOMAIN v.members : i # j /\ v.members[i][1] = v.members[j][1]
          \/ \E i \in DOMAIN v.members : Repeats(v.members[i][2])

-----------------------------------------------------------------------------
(* The generic writer *)

GenericValue(v, field) ==
    CASE HasHuge(v) -> [verdict |-> Invalid]
      [] ~HasHuge(v) /\ ~ValueMatches(Tree(v), field) -> [verdict |-> Drift]
      [] OTHER -> [verdict |-> Accept, bytes |-> Normalized(Tree(v), field.type)]

-----------------------------------------------------------------------------
(* The direct writer *)

Subtree(type) == type.k \in {"list", "object"}

RECURSIVE HasWide(_)
HasWide(v) ==
    \/ v.k = "wide"
    \/ v.k = "list" /\ \E i \in DOMAIN v.items : HasWide(v.items[i])
    \/ v.k = "object" /\ \E i \in DOMAIN v.members : HasWide(v.members[i][2])

RECURSIVE HasControl(_)
HasControl(v) ==
    \/ v.k = "list" /\ (v.spaced \/ \E i \in DOMAIN v.items : HasControl(v.items[i]))
    \/ v.k = "object" /\ (v.spaced \/ \E i \in DOMAIN v.members : HasControl(v.members[i][2]))

RECURSIVE ContainsTimestamp(_)
ContainsTimestamp(type) ==
    \/ type.k = "time"
    \/ type.k = "list" /\ ContainsTimestamp(type.of)
    \/ type.k = "object" /\ \E i \in DOMAIN type.fields : ContainsTimestamp(type.fields[i].type)

NumberTokens(type) == type.k \notin {"text", "bool", "time"}

\* The rule without its first case: repeated keys are copied as they are.
NeedsCanonicalShort(v, type) ==
    \/ Subtree(type) /\ HasControl(v)
    \/ NumberTokens(type) /\ HasWide(v)
    \/ ContainsTimestamp(type)

NeedsCanonical(v, type) ==
    \/ Repeats(v)
    \/ Subtree(type) /\ HasControl(v)
    \/ NumberTokens(type) /\ HasWide(v)
    \/ ContainsTimestamp(type)

(* canonical_captured_value *)
Canonical(v, field) == Normalized(Tree(v), field.type)

(* A subtree the stream refuses is parsed after all, and the tree decides. *)
Recovers(v, field) == Subtree(field.type) /\ ~HasHuge(v) /\ ValueMatches(Tree(v), field)

Recovered(v, field) == Tree(v)

DirectValue(v, field) ==
    LET verdict == Streamed(v, field.type, field.nullable, FALSE) IN
    CASE verdict = Accept /\ NeedsCanonical(v, field.type) ->
            [verdict |-> Accept, bytes |-> Canonical(v, field)]
      [] verdict = Accept /\ ~NeedsCanonical(v, field.type) -> [verdict |-> Accept, bytes |-> v]
      [] verdict # Accept /\ Recovers(v, field) ->
            [verdict |-> Accept, bytes |-> Recovered(v, field)]
      [] OTHER -> [verdict |-> verdict]

-----------------------------------------------------------------------------
(* The loop both visit_map functions run: an unknown or a repeated key, a  *)
(* value validated where it stands, then the fields that are missing.      *)

Taken(writer, answer, name) ==
    IF answer.verdict = Accept
    THEN [writer EXCEPT !.out = [n \in DOMAIN @ \cup {name} |->
                                    IF n = name THEN answer.bytes ELSE @[n]]]
    ELSE [writer EXCEPT !.status = answer.verdict]

SelectedValue(path, v, field) ==
    IF path = "generic" THEN GenericValue(v, field) ELSE DirectValue(v, field)

Feed(writer, name, v, path) ==
    IF ~HasField(RowFields, name) \/ \E i \in DOMAIN fed : fed[i][1] = name
    THEN [writer EXCEPT !.status = Drift]
    ELSE LET field == RowFields[FieldNamed(RowFields, name)] IN
         IF name \in selected THEN Taken(writer, SelectedValue(path, v, field), name)
         ELSE LET verdict == Streamed(v, field.type, field.nullable, TRUE) IN
              IF verdict = Accept THEN writer ELSE [writer EXCEPT !.status = verdict]

NextMember(name, v) ==
    /\ ~closed /\ Len(fed) < MaxMembers
    /\ generic.status = Accept \/ direct.status = Accept
    /\ fed' = Append(fed, <<name, v>>)
    /\ generic' = IF generic.status = Accept THEN Feed(generic, name, v, "generic") ELSE generic
    /\ direct' = IF direct.status = Accept THEN Feed(direct, name, v, "direct") ELSE direct
    /\ UNCHANGED <<selected, closed>>

(* The end of the row: missing fields, and null for a selected name that   *)
(* has no value.                                                           *)
Assembled(writer) ==
    IF writer.status # Accept THEN writer
    ELSE IF \E i \in DOMAIN RowFields :
               /\ ~RowFields[i].nullable
               /\ \A j \in DOMAIN fed : fed[j][1] # RowFields[i].name
    THEN [writer EXCEPT !.status = Drift]
    ELSE [writer EXCEPT !.out = [n \in selected |->
                                    IF n \in DOMAIN @ THEN @[n] ELSE Kind("null")]]

EndRow ==
    /\ ~closed /\ closed' = TRUE
    /\ generic' = Assembled(generic) /\ direct' = Assembled(direct)
    /\ UNCHANGED <<selected, fed>>

NewWriter == [status |-> Accept, out |-> [n \in {} |-> Kind("null")]]

PrInit ==
    /\ selected \in Projections /\ fed = <<>> /\ closed = FALSE
    /\ generic = NewWriter /\ direct = NewWriter

PrNext == (\E name \in RowNames, v \in RowValues : NextMember(name, v)) \/ EndRow

PrSpec == PrInit /\ [][PrNext]_prVars

-----------------------------------------------------------------------------
(* The two writers cannot be told apart: they stop at the same member with *)
(* the same category of error, and write the same bytes.                   *)
WritersAgree == generic = direct

\* A member the stream refused and the tree accepted, with a timestamp in it.
TimestampRecovered ==
    \E i \in DOMAIN fed :
        /\ fed[i][1] \in selected /\ HasField(RowFields, fed[i][1])
        /\ LET field == RowFields[FieldNamed(RowFields, fed[i][1])] IN
           /\ ContainsTimestamp(field.type) /\ Recovers(fed[i][2], field)
           /\ Streamed(fed[i][2], field.type, field.nullable, FALSE) # Accept

(* They accept and refuse the same rows at the same member; a row both     *)
(* accept is written alike, unless a timestamp was recovered, and refused  *)
(* with the same category, unless a number out of range follows the token  *)
(* that does not fit.                                                      *)
WritersAccept ==
    /\ (generic.status = Accept) = (direct.status = Accept)
    /\ generic.status = Accept /\ ~TimestampRecovered => generic.out = direct.out
    /\ generic.status # direct.status => HasHuge(fed[Len(fed)][2])
=============================================================================
