---------------------------- MODULE ObjectAccess ----------------------------
(***************************************************************************)
(* Tables kept in an object store (stillflow-connector-object-store:       *)
(* access.rs, staged.rs, parquet.rs, lib.rs).  A request asks for the head *)
(* of an object and then for its bytes, in one stream or in ranges, each   *)
(* call bound to what the head said; text is staged in a temporary         *)
(* directory first, a preview only its beginning.  An upload sends parts   *)
(* and completes them.  Other clients overwrite the object in between, and *)
(* any call may be cut off by the deadline or the cancellation of the      *)
(* request, before or after the store has done its part.                   *)
(*                                                                         *)
(* The bytes of an object are tokens, so that the cuts of staged.rs can be *)
(* told: "quote", "newline", "escape", "comma", "open" and "close" for the *)
(* square brackets, "brace" and "unbrace" for the curly ones, "other".     *)
(***************************************************************************)
EXTENDS Integers, Sequences, FiniteSets, SequencesExt, FiniteSetsExt

CONSTANTS
    TextRecords,    \* the records of a text object: sequences of tokens
    MaxRecords,     \* bound: records of an object
    TextKinds,      \* a subset of {"delimited", "lines", "array"}
    IdentityKinds,  \* a subset of {"version", "etag", "mtime"}: what the store tells
    ObjectLimit,    \* maxObjectBytes
    PreviewBytes,   \* maxPreviewSourceBytes
    PartBytes,      \* MULTIPART_CHUNK_BYTES
    Bodies,         \* the bodies an upload may send: sequences of chunks
    MaxOverwrites   \* bound: writes by other clients

Tokens == {"quote", "newline", "escape", "comma", "open", "close", "brace", "unbrace", "other"}

ASSUME ObjectAssumption ==
    /\ TextRecords \subseteq Seq(Tokens) /\ Bodies \subseteq Seq(Seq(Tokens))
    /\ {MaxRecords, PreviewBytes} \subseteq Nat
    /\ IdentityKinds \subseteq {"version", "etag", "mtime"}

VARIABLES
    object,      \* the object under the key: [id, stamp, bytes, records], or [id |-> 0]
    identity,    \* what identifies an object of this store
    objectKind,  \* the text format of the object
    clock,       \* the store's modification time
    writes,      \* how often the object was written
    session,     \* the multipart upload: "none", "open", "completed", "aborted"
    ask,         \* the request under way
    staged       \* the temporary directory: "none" or "present"

oaVars == <<object, identity, objectKind, clock, writes, session, ask, staged>>

NoObject == [id |-> 0, stamp |-> 0, bytes |-> <<>>, records |-> <<>>]
NoAsk == [op |-> "none", phase |-> "idle"]

(* The text of a list of records.                                          *)
Text(format, records) ==
    IF format # "array" THEN FlattenSeq(records)
    ELSE <<"open">> \o FlattenSeq([i \in DOMAIN records |->
             IF i = 1 THEN records[i] ELSE <<"comma">> \o records[i]]) \o <<"close">>

-----------------------------------------------------------------------------
(* staged.rs: closing a text that was cut.                                 *)

(* close_line_prefix *)
LinePrefix(bytes) ==
    LET ends == {i \in DOMAIN bytes : bytes[i] = "newline"} IN
    IF ends = {} THEN <<>> ELSE SubSeq(bytes, 1, Max(ends))

(* close_delimited_prefix: a newline inside quotes ends no record; a       *)
(* doubled quote inside quotes is skipped.                                 *)
DelimitedStep(s, i, bytes) ==
    CASE s.skip -> [s EXCEPT !.skip = FALSE]
      [] ~s.skip /\ bytes[i] = "quote" ->
            IF s.quoted /\ i < Len(bytes) /\ bytes[i + 1] = "quote"
            THEN [s EXCEPT !.skip = TRUE] ELSE [s EXCEPT !.quoted = ~@]
      [] ~s.skip /\ bytes[i] = "newline" /\ ~s.quoted -> [s EXCEPT !.boundary = i]
      [] OTHER -> s

DelimitedPrefix(bytes) ==
    LET run == FoldLeft(LAMBDA s, i: DelimitedStep(s, i, bytes),
                        [quoted |-> FALSE, skip |-> FALSE, boundary |-> 0],
                        [i \in DOMAIN bytes |-> i])
    IN  SubSeq(bytes, 1, run.boundary)

(* close_json_array_prefix: the objects that closed, in a new array.       *)
ArrayStep(s, i, bytes) ==
    CASE s.string -> IF s.escaped THEN [s EXCEPT !.escaped = FALSE]
                     ELSE IF bytes[i] = "escape" THEN [s EXCEPT !.escaped = TRUE]
                     ELSE IF bytes[i] = "quote" THEN [s EXCEPT !.string = FALSE] ELSE s
      [] ~s.string /\ bytes[i] = "quote" -> [s EXCEPT !.string = TRUE]
      [] ~s.string /\ bytes[i] = "brace" ->
            [s EXCEPT !.start = IF s.depth = 0 /\ s.square = 0 THEN i ELSE @, !.depth = @ + 1]
      [] ~s.string /\ bytes[i] = "unbrace" /\ s.depth > 0 ->
            IF s.depth = 1 /\ s.square = 0 /\ s.start > 0
            THEN [s EXCEPT !.depth = 0, !.start = 0,
                           !.objects = Append(@, SubSeq(bytes, s.start, i))]
            ELSE [s EXCEPT !.depth = @ - 1]
      [] ~s.string /\ bytes[i] = "open" /\ s.depth > 0 -> [s EXCEPT !.square = @ + 1]
      [] ~s.string /\ bytes[i] = "close" /\ s.square > 0 -> [s EXCEPT !.square = @ - 1]
      [] OTHER -> s

ArrayObjects(bytes) ==
    FoldLeft(LAMBDA s, i: IF i = 1 THEN s ELSE ArrayStep(s, i, bytes),
             [string |-> FALSE, escaped |-> FALSE, depth |-> 0, square |-> 0,
              start |-> 0, objects |-> <<>>],
             [i \in DOMAIN bytes |-> i]).objects

\* Every format is cut at its last line.
ClosedTextAtLine(format, bytes) == LinePrefix(bytes)

(* close_truncated_text: <<>> when not even one record is whole.           *)
ClosedText(format, bytes) ==
    CASE format = "lines" -> LinePrefix(bytes)
      [] format = "delimited" -> DelimitedPrefix(bytes)
      [] format = "array" ->
            IF ArrayObjects(bytes) = <<>> THEN <<>> ELSE Text("array", ArrayObjects(bytes))

-----------------------------------------------------------------------------
(* json_stream.rs of the local connector, which then reads what was        *)
(* staged: the raw objects of an array, or the lines of a text.            *)

NewFraming == [mode |-> "start", comma |-> FALSE, depth |-> 0, string |-> FALSE,
               escaped |-> FALSE, raw |-> <<>>, rows |-> <<>>]

(* read_balanced_object: brackets of both kinds count alike.               *)
BalancedStep(s, token) ==
    LET depth == CASE token \in {"brace", "open"} -> s.depth + 1
                   [] token \in {"unbrace", "close"} -> s.depth - 1
                   [] OTHER -> s.depth
        raw == Append(s.raw, token)
    IN  CASE s.string -> [s EXCEPT !.raw = raw,
                !.escaped = ~@ /\ token = "escape",
                !.string = s.escaped \/ token # "quote"]
          [] ~s.string /\ depth = 0 ->
                [s EXCEPT !.mode = "after", !.comma = FALSE, !.rows = Append(@, raw), !.raw = <<>>,
                          !.depth = 0]
          [] OTHER -> [s EXCEPT !.raw = raw, !.depth = depth, !.string = token = "quote"]

(* next_array_object and finish_array, token by token.                     *)
FramingStep(s, token) ==
    CASE s.mode = "object" -> BalancedStep(s, token)
      [] s.mode # "object" /\ token = "newline" -> s
      [] s.mode = "start" /\ token = "open" -> [s EXCEPT !.mode = "element"]
      [] s.mode = "element" /\ token = "close" /\ ~s.comma -> [s EXCEPT !.mode = "finished"]
      [] s.mode = "element" /\ token = "brace" ->
            [s EXCEPT !.mode = "object", !.depth = 1, !.raw = <<"brace">>]
      [] s.mode = "after" /\ token = "comma" -> [s EXCEPT !.mode = "element", !.comma = TRUE]
      [] s.mode = "after" /\ token = "close" -> [s EXCEPT !.mode = "finished"]
      [] OTHER -> [s EXCEPT !.mode = "error"]

ArrayRows(bytes) ==
    LET end == FoldLeft(FramingStep, NewFraming, bytes) IN
    [rows |-> end.rows, whole |-> end.mode = "finished"]

(* next_line_object: blank lines are passed over, a last line needs no end.*)
LineRows(bytes) ==
    LET end == FoldLeft(LAMBDA s, token:
                  IF token # "newline" THEN [s EXCEPT !.raw = Append(@, token)]
                  ELSE [rows |-> IF s.raw = <<>> THEN s.rows ELSE Append(s.rows, s.raw), raw |-> <<>>],
                  [rows |-> <<>>, raw |-> <<>>], bytes)
    IN  [rows |-> IF end.raw = <<>> THEN end.rows ELSE Append(end.rows, end.raw), whole |-> TRUE]

(* next_raw_object, called until the end.                                  *)
FramedRows(format, bytes) ==
    IF format = "array" THEN ArrayRows(bytes) ELSE LineRows(bytes)

-----------------------------------------------------------------------------
(* Identity of an object *)

Info(o) == [id |-> o.id, stamp |-> o.stamp, size |-> Len(o.bytes)]

(* if_match and version make the store refuse another object; without them *)
(* the answer is compared by size and time.                                *)
SameBySize(expected, o) == Len(o.bytes) = expected.size

SameObject(expected, o) ==
    IF identity \in {"version", "etag"} THEN o.id = expected.id
    ELSE Len(o.bytes) = expected.size /\ o.stamp = expected.stamp

-----------------------------------------------------------------------------
(* Requests.  Every failure drops the request, and with it the temporary   *)
(* directory.                                                              *)

Keep == UNCHANGED <<identity, objectKind>>
Store == <<object, clock, writes, session>>

End(result) ==
    /\ ask' = [ask EXCEPT !.phase = result]
    /\ staged' = "none"

Begin(op) ==
    /\ ask.phase = "idle"
    /\ ask' = [op |-> op, phase |-> "head", expected |-> Info(NoObject), got |-> <<>>,
               from |-> {}, body |-> NoObject, left |-> <<>>, cut |-> FALSE]
    \* stage_complete makes the directory before it asks for the object
    /\ staged' = IF op = "read" THEN "present" ELSE staged
    /\ Keep /\ UNCHANGED Store

(* head: a missing or oversized object is refused.                         *)
Head_ ==
    /\ ask.phase = "head" /\ ask.op # "upload"
    /\ IF object.id = 0 \/ Len(object.bytes) > ObjectLimit THEN End("failed")
       ELSE /\ ask' = [ask EXCEPT !.expected = Info(object),
                          !.phase = IF ask.op = "read" THEN "get" ELSE "ranges",
                          !.left = CASE ask.op = "preview" /\ object.bytes # <<>> -> <<PreviewBytes>>
                                     [] ask.op = "parquet" -> <<2, Len(object.bytes)>>
                                     [] OTHER -> <<>>]
            /\ UNCHANGED staged
    /\ Keep /\ UNCHANGED Store

(* stream: a conditional get; what it returns is the object as it was.     *)
Get ==
    /\ ask.phase = "get"
    /\ IF object.id = 0 \/ ~SameObject(ask.expected, object) THEN End("failed")
       ELSE ask' = [ask EXCEPT !.phase = "stream", !.body = object] /\ UNCHANGED staged
    /\ Keep /\ UNCHANGED Store

(* A chunk of the body; the store may break off.                           *)
StreamChunk(n) ==
    /\ ask.phase = "stream" /\ Len(ask.got) + n <= Len(ask.body.bytes) /\ n > 0
    /\ IF Len(ask.got) + n > ask.expected.size THEN End("failed")
       ELSE /\ ask' = [ask EXCEPT !.got = SubSeq(ask.body.bytes, 1, Len(ask.got) + n),
                                  !.from = @ \cup {ask.body.id}]
            /\ UNCHANGED staged
    /\ Keep /\ UNCHANGED Store

StreamWhole == Len(ask.got) = ask.expected.size

StreamEnd ==
    /\ ask.phase = "stream"
    /\ IF StreamWhole THEN ask' = [ask EXCEPT !.phase = "reading"] /\ UNCHANGED staged
       ELSE End("failed")
    /\ Keep /\ UNCHANGED Store

(* validate_range *)
RangeValid(from, until) == until > from /\ until - from <= PreviewBytes

(* get_range_versioned, for a preview or one of the ranges of a Parquet    *)
(* file: the answer must be of the expected object and length.  Each range *)
(* ends where the next one begins.                                         *)
GetRange ==
    /\ ask.phase = "ranges" /\ ask.left # <<>>
    /\ LET until == Min({Head(ask.left), ask.expected.size}) IN
       IF \/ ~RangeValid(Len(ask.got), until)
          \/ object.id = 0 \/ ~SameObject(ask.expected, object) \/ until > Len(object.bytes)
       THEN End("failed")
       ELSE /\ ask' = [ask EXCEPT
                         !.got = @ \o SubSeq(object.bytes, Len(ask.got) + 1, until),
                         !.from = @ \cup {object.id}, !.left = Tail(@)]
            /\ UNCHANGED staged
    /\ Keep /\ UNCHANGED Store

RangesDone ==
    /\ ask.phase = "ranges" /\ ask.left = <<>> /\ ask.op = "parquet"
    /\ ask' = [ask EXCEPT !.phase = "reading"]
    /\ Keep /\ UNCHANGED <<object, clock, writes, session, staged>>

(* stage_preview: a range that is not the whole object is closed after its *)
(* last whole record, and refused when it has none.                        *)
StagePreview ==
    /\ ask.phase = "ranges" /\ ask.left = <<>> /\ ask.op = "preview"
    /\ LET cut == ask.expected.size > PreviewBytes
           text == IF cut THEN ClosedText(objectKind, ask.got) ELSE ask.got
       IN  IF cut /\ text = <<>> THEN End("failed")
           ELSE /\ ask' = [ask EXCEPT !.phase = "reading", !.got = text, !.cut = cut]
                /\ staged' = "present"
    /\ Keep /\ UNCHANGED Store

(* The consumer has read the staged copy to its end, or lets the stream go.*)
Finish ==
    /\ ask.phase = "reading" /\ End("done")
    /\ Keep /\ UNCHANGED Store

Drop ==
    /\ ask.phase \in {"head", "get", "stream", "ranges", "reading"} /\ ask.op # "upload"
    /\ End("dropped")
    /\ Keep /\ UNCHANGED Store

-----------------------------------------------------------------------------
(* upload.  The store may have done its part of a call that is cut off.    *)

BeginUpload(body) ==
    /\ ask.phase = "idle" /\ session = "none"
    /\ ask' = [op |-> "upload", phase |-> "create", body |-> body, left |-> body, sent |-> <<>>,
               buffered |-> 0, aborts |-> 0, installed |-> 0, info |-> Info(NoObject)]
    /\ Keep /\ UNCHANGED <<object, clock, writes, session, staged>>

UploadFails == ask' = [ask EXCEPT !.phase = "failed"]
AbortFirst(then) == ask' = [ask EXCEPT !.phase = then, !.aborts = @ + 1]

CreateUpload ==
    /\ ask.phase = "create"
    /\ \/ session' = "open" /\ ask' = [ask EXCEPT !.phase = "body"]
       \/ session' \in {"none", "open"} /\ UploadFails
    /\ Keep /\ UNCHANGED <<object, clock, writes, staged>>

(* One chunk of the body, and the parts it fills.                          *)
SendChunk ==
    /\ ask.phase = "body" /\ ask.left # <<>>
    /\ LET sent == ask.sent \o Head(ask.left) IN
       \/ /\ Len(sent) <= ObjectLimit
          /\ ask' = [ask EXCEPT !.left = Tail(@), !.sent = sent,
                        !.buffered = (@ + Len(Head(ask.left))) % PartBytes]
       \/ AbortFirst("abort")
    /\ Keep /\ UNCHANGED <<object, clock, writes, session, staged>>

(* abort_upload: its own outcome is not looked at.                         *)
Abort ==
    /\ ask.phase \in {"abort", "abortEmpty"}
    /\ session' \in {session, IF session = "open" THEN "aborted" ELSE session}
    /\ ask' = [ask EXCEPT !.phase = IF ask.phase = "abort" THEN "failed" ELSE "putEmpty"]
    /\ Keep /\ UNCHANGED <<object, clock, writes, staged>>

Install(bytes) ==
    /\ object' = [id |-> writes + 1, stamp |-> clock + 1, bytes |-> bytes, records |-> <<>>]
    /\ writes' = writes + 1 /\ clock' = clock + 1

(* The body has ended: nothing at all is put as an empty object, anything  *)
(* else is completed, its last part first.                                 *)
EndBody ==
    /\ ask.phase = "body" /\ ask.left = <<>>
    /\ \/ ask.sent = <<>> /\ AbortFirst("abortEmpty")
       \/ /\ ask.sent # <<>>
          /\ \/ ask' = [ask EXCEPT !.phase = "complete", !.buffered = 0]
             \/ ask.buffered > 0 /\ AbortFirst("abort")
    /\ Keep /\ UNCHANGED <<object, clock, writes, session, staged>>

Complete ==
    /\ ask.phase = "complete"
    /\ \/ /\ Install(ask.sent) /\ session' = "completed"
          /\ \/ ask' = [ask EXCEPT !.phase = "check", !.installed = writes + 1]
             \/ ask' = [ask EXCEPT !.phase = "abort", !.aborts = @ + 1, !.installed = writes + 1]
       \/ AbortFirst("abort") /\ UNCHANGED <<object, clock, writes, session>>
    /\ Keep /\ UNCHANGED staged

PutEmpty ==
    /\ ask.phase = "putEmpty"
    /\ \/ /\ Install(<<>>)
          /\ \/ ask' = [ask EXCEPT !.phase = "check", !.installed = writes + 1]
             \/ ask' = [ask EXCEPT !.phase = "failed", !.installed = writes + 1]
       \/ UploadFails /\ UNCHANGED <<object, clock, writes>>
    /\ Keep /\ UNCHANGED <<session, staged>>

\* The head after the upload is believed as it is.
SizeUnchecked(n) == TRUE

SizeChecked(n) == n = Len(ask.sent)

CheckUpload ==
    /\ ask.phase = "check"
    /\ \/ UploadFails
       \/ /\ SizeChecked(Len(object.bytes))
          /\ ask' = [ask EXCEPT !.phase = "done", !.info = Info(object)]
    /\ Keep /\ UNCHANGED <<object, clock, writes, session, staged>>

-----------------------------------------------------------------------------
(* Another client writes the object, perhaps within the same tick of the   *)
(* store's clock.                                                          *)
Overwrite(records, tick) ==
    /\ writes < MaxOverwrites + 1 /\ ask.phase # "idle"
    /\ object' = [id |-> writes + 1, stamp |-> clock + tick,
                  bytes |-> Text(objectKind, records), records |-> records]
    /\ writes' = writes + 1 /\ clock' = clock + tick
    /\ Keep /\ UNCHANGED <<session, ask, staged>>

RecordLists == UNION {[1..n -> TextRecords] : n \in 0..MaxRecords}

(* Records of a line or an array of objects do not hold what ends them.    *)
Fits(format, records) ==
    \A i \in DOMAIN records :
        /\ (format = "array") = (records[i][1] = "brace")
        /\ format = "lines" =>
              \A j \in 1..(Len(records[i]) - 1) : records[i][j] # "newline"

OaInit ==
    /\ identity \in IdentityKinds /\ objectKind \in TextKinds
    /\ clock = 1 /\ writes = 1 /\ session = "none" /\ ask = NoAsk /\ staged = "none"
    /\ \E records \in RecordLists :
          /\ Fits(objectKind, records)
          /\ object = [id |-> 1, stamp |-> 1, bytes |-> Text(objectKind, records), records |-> records]

OaNext ==
    \/ \E op \in {"read", "preview", "parquet"} : Begin(op)
    \/ Head_ \/ Get \/ StreamEnd \/ GetRange \/ RangesDone \/ StagePreview \/ Finish \/ Drop
    \/ \E n \in 1..2 : StreamChunk(n)
    \/ \E body \in Bodies : BeginUpload(body)
    \/ CreateUpload \/ SendChunk \/ Abort \/ EndBody \/ Complete \/ PutEmpty \/ CheckUpload
    \/ \E records \in RecordLists, tick \in 0..1 :
          Len(records) <= 1 /\ Fits(objectKind, records) /\ Overwrite(records, tick)

OaSpec == OaInit /\ [][OaNext]_oaVars

-----------------------------------------------------------------------------
Answered == ask.op \in {"read", "parquet", "preview"} /\ ask.phase \in {"reading", "done"}

(* Bytes that are handed on were read whole and all from one object, the   *)
(* one the head described, however often it was overwritten meanwhile; a   *)
(* store that only tells size and time is believed within one tick.        *)
OneObject ==
    Answered =>
        /\ identity # "mtime" => ask.from \subseteq {ask.expected.id}
        /\ ~ask.cut => Len(ask.got) = ask.expected.size

(* The staged part of a larger object is a whole number of its records,    *)
(* the first ones, and as many as the range held (close_truncated_text).   *)
PreviewWholeRecords ==
    Answered /\ ask.cut /\ object.id = ask.expected.id /\ ask.from = {object.id} =>
        \E n \in 1..Len(object.records) :
            LET Begins(k) == Len(Text(objectKind, SubSeq(object.records, 1, k)))
                                - (IF objectKind = "array" THEN 1 ELSE 0)
            IN  /\ ask.got = Text(objectKind, SubSeq(object.records, 1, n))
                /\ Begins(n) <= PreviewBytes
                /\ n < Len(object.records) => Begins(n + 1) > PreviewBytes

(* The reader of JSON finds in the staged copy, cut or whole, exactly the  *)
(* records the object starts with: no error, none split and none joined.   *)
StagedRecordsRead ==
    /\ Answered /\ ask.op # "parquet" /\ objectKind # "delimited"
    /\ object.id = ask.expected.id /\ ask.from \subseteq {object.id}
    => LET read == FramedRows(objectKind, ask.got) IN
       /\ read.whole
       /\ Len(read.rows) <= Len(object.records)
       /\ ~ask.cut => Len(read.rows) = Len(object.records)
       /\ \A i \in DOMAIN read.rows :
             read.rows[i] = IF objectKind = "array" THEN object.records[i]
                            ELSE SubSeq(object.records[i], 1, Len(object.records[i]) - 1)

(* The temporary directory is gone when the request is, whichever way it   *)
(* ended.                                                                  *)
StagingRemoved == ask.phase \in {"idle", "failed", "done", "dropped"} => staged = "none"

(* An upload that answers success has installed its whole body and reports *)
(* that size; one that failed has asked the store to abort whatever parts  *)
(* it could have left, unless it never learned that the session existed.   *)
UploadHonest ==
    ask.op = "upload" =>
        /\ ask.phase = "done" => ask.installed > 0 /\ ask.info.size = Len(ask.sent)
        /\ ask.phase = "done" => ask.sent = FlattenSeq(ask.body)
        /\ ask.phase = "failed" /\ session = "open" => ask.aborts = 1 \/ ask.sent = <<>>
=============================================================================
