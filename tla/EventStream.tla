----------------------------- MODULE EventStream -----------------------------
(***************************************************************************)
(* One event stream of a Job and a client that follows it                  *)
(* (stillflow-api/src/event_stream.rs over list_events of                  *)
(* stillflow-storage/src/control_plane.rs, framed by                       *)
(* stillflow-service/src/sse.rs).  A subscription replays one page and     *)
(* then polls the store from a task of its own, which offers each frame to *)
(* a bounded channel and gives up when the channel is full; the client     *)
(* resumes from the cursor of the last frame it took.                      *)
(***************************************************************************)
EXTENDS Integers, Sequences, SequencesExt

CONSTANTS
    MaxEvents,        \* bound: events of the stream, the last one terminal
    ReplayLimit,      \* page limit of a subscription
    PumpPage,         \* PUMP_PAGE_SIZE
    StreamBuffer,     \* buffer_capacity of the channel
    MaxSubscriptions  \* bound: subscriptions the client opens

ASSUME EventStreamAssumption ==
    {MaxEvents, ReplayLimit, PumpPage, StreamBuffer, MaxSubscriptions} \subseteq Nat \ {0}

VARIABLES
    evLog,      \* cp_events of the stream: event types, the index is the sequence
    evJob,      \* cp_jobs.state
    evReplay,   \* EventSubscription.replay: sequences
    evChannel,  \* the channel: sequences
    evPump,     \* the pump: its program counter, its cursor, the rest of its page
    evError,    \* worker_error
    evCursor,   \* EventSubscription.cursor, kept by the client across subscriptions
    evTaken,    \* history: the sequences the client was given
    evOpened    \* subscriptions so far

evVars == <<evLog, evJob, evReplay, evChannel, evPump, evError, evCursor, evTaken, evOpened>>

StreamEnded == {"succeeded", "failed", "cancelled"}
NoPump == [pc |-> "none", cursor |-> 0, page |-> <<>>]

EvInit ==
    /\ evLog = <<"accepted">> /\ evJob = "queued"
    /\ evReplay = <<>> /\ evChannel = <<>> /\ evPump = NoPump /\ evError = "none"
    /\ evCursor = 0 /\ evTaken = <<>> /\ evOpened = 0

\* append_event_tx: the state and its event are one transaction.
AppendEvent(type) ==
    /\ Len(evLog) < MaxEvents /\ evJob \notin StreamEnded
    /\ evLog' = Append(evLog, type)
    /\ evJob' = IF type \in StreamEnded THEN type ELSE evJob
    /\ UNCHANGED <<evReplay, evChannel, evPump, evError, evCursor, evTaken, evOpened>>

\* list_events: the sequences after the cursor, limit + 1 read, limit returned.
ListEvents(after, limit) ==
    LET found == [i \in 1..(Len(evLog) - after) |-> after + i] IN
    SubSeq(found, 1, IF Len(found) < limit THEN Len(found) ELSE limit)

\* frame_from_store: a terminal event is shown only if the row is in that state.
FrameOk(sequence) == evLog[sequence] \in StreamEnded => evJob = evLog[sequence]

\* replay: the page after the client's cursor, refused if one frame of it is.
Replay == ListEvents(evCursor, ReplayLimit)

\* subscribe: replay a page; the pump starts after its last event, or at the
\* cursor when the page is empty.  The mutant starts at the cursor observed.
ObservedCursor(page) == evCursor
StartCursor(page) == IF page = <<>> THEN evCursor ELSE Last(page)
Subscribe ==
    LET page == Replay IN
    /\ evPump.pc = "none" /\ evOpened < MaxSubscriptions
    /\ evOpened' = evOpened + 1
    /\ \A i \in DOMAIN page : FrameOk(page[i])
    /\ evReplay' = page /\ evChannel' = <<>> /\ evError' = "none"
    /\ evPump' = [pc |-> "poll", cursor |-> StartCursor(page), page |-> <<>>]
    /\ UNCHANGED <<evLog, evJob, evCursor, evTaken>>

\* pump_events: read a page, then send its frames one by one.
PumpPoll ==
    /\ evPump.pc = "poll"
    /\ ListEvents(evPump.cursor, PumpPage) # <<>>
    /\ evPump' = [evPump EXCEPT !.pc = "send", !.page = ListEvents(evPump.cursor, PumpPage)]
    /\ UNCHANGED <<evLog, evJob, evReplay, evChannel, evError, evCursor, evTaken, evOpened>>
PumpSend ==
    /\ evPump.pc = "send"
    /\ LET next == Head(evPump.page)
           rest == Tail(evPump.page) IN
       IF ~FrameOk(next) \/ Len(evChannel) = StreamBuffer
       THEN /\ evError' = IF FrameOk(next) THEN "slow_consumer" ELSE "terminal_state_mismatch"
            /\ evPump' = [evPump EXCEPT !.pc = "stopped"] /\ UNCHANGED evChannel
       ELSE /\ evChannel' = Append(evChannel, next)
            /\ evPump' = [pc |-> IF rest = <<>> THEN "poll" ELSE "send", cursor |-> next, page |-> rest]
            /\ UNCHANGED evError
    /\ UNCHANGED <<evLog, evJob, evReplay, evCursor, evTaken, evOpened>>

\* next_event: the replay first, then the channel, and when the pump has
\* stopped and the channel is empty its error ends the subscription.
NextEvent ==
    LET queue == IF evReplay # <<>> THEN evReplay ELSE evChannel IN
    /\ evPump.pc # "none" /\ queue # <<>>
    /\ evTaken' = Append(evTaken, Head(queue)) /\ evCursor' = Head(queue)
    /\ IF evReplay # <<>> THEN evReplay' = Tail(evReplay) /\ UNCHANGED evChannel
                          ELSE evChannel' = Tail(evChannel) /\ UNCHANGED evReplay
    /\ UNCHANGED <<evLog, evJob, evPump, evError, evOpened>>

\* Drop: by the client at any time, or after the error was taken.
DropSubscription ==
    /\ evPump.pc # "none"
    /\ evPump' = NoPump /\ evReplay' = <<>> /\ evChannel' = <<>>
    /\ UNCHANGED <<evLog, evJob, evError, evCursor, evTaken, evOpened>>

EvNext ==
    \/ \E type \in {"progress"} \cup StreamEnded : AppendEvent(type)
    \/ Subscribe \/ PumpPoll \/ PumpSend \/ NextEvent \/ DropSubscription
EvSpec == EvInit /\ [][EvNext]_evVars

-----------------------------------------------------------------------------
\* subscribe, pump_events, next_event: across replay, live frames, a slow
\* consumer and resumed subscriptions the client is given every event of the
\* stream in order, once, with no gap; and no frame is refused because its
\* event and its Job disagree.
DeliveredInOrder ==
    /\ evTaken = [i \in DOMAIN evTaken |-> i] /\ evCursor = Len(evTaken)
    /\ evError # "terminal_state_mismatch"
    /\ evPump.pc # "none" =>
         LET due == evReplay \o evChannel IN due = [i \in DOMAIN due |-> evCursor + i]
=============================================================================
