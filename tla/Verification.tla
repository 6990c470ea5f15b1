---------------------------- MODULE Verification ----------------------------
(***************************************************************************)
(* The verification engine, stillflow-engine/src/verification.rs: a plan   *)
(* is turned into a list of steps, a stream of envelopes is run through    *)
(* the steps one envelope at a time, and what comes out is the accepted    *)
(* rows in packs of the batch size, the rejected rows with their original  *)
(* payload, one tally for every rule and one finding for every failure.    *)
(*                                                                         *)
(* The engine works step by step over an envelope, with a sidecar that     *)
(* carries each row's ordinal along.  The reference at the end of the      *)
(* module works row by row over the whole input and knows no envelopes,    *)
(* packs or sidecars.                                                      *)
(***************************************************************************)
EXTENDS Integers, Sequences, FiniteSets, SequencesExt

CONSTANTS
    VerPlans,          \* the plans that are run
    VerRows,           \* the rows a source can hold: functions from columns to cells
    MaxVerRows,        \* bound: rows of the source
    AcceptedBatch,     \* batch_size: rows of an accepted pack
    ReportPackRows,    \* REPORT_PACK_ROWS
    ReportSlotRows,    \* findings that fit the report slot, REPORT_PACK_BYTES / estimate
    MaxKeyColumns,     \* MAX_DEDUP_KEY_COLUMNS
    MaxKeyBytes        \* MAX_DEDUP_KEY_BYTES

VARIABLES
    vfPlan,      \* the plan of this run
    vfSource,    \* the rows of the source
    vfRead,      \* rows taken from the stream so far
    vfRun,       \* VerificationRun and the dedup index
    vfEnd        \* "new", "streaming", "committed" or the error

vfVars == <<vfPlan, vfSource, vfRead, vfRun, vfEnd>>

-----------------------------------------------------------------------------
(* Building the steps.                                                     *)

\* flush_transform: the rules gathered so far become one step.
FlushTransform(acc) ==
    IF acc.group = <<>> THEN acc
    ELSE [steps |-> Append(acc.steps, [op |-> "transform", rules |-> acc.group]), group |-> <<>>]

\* The rule arm of build_verification_plan: what is not a transformation closes
\* the group in front of it.  The mutant leaves the group open.
AddRuleLate(acc, step) ==
    IF step.op = "replace" THEN [acc EXCEPT !.group = Append(@, step)]
    ELSE [acc EXCEPT !.steps = Append(@, step)]
AddRule(acc, step) ==
    IF step.op = "replace" THEN [acc EXCEPT !.group = Append(@, step)]
    ELSE LET flushed == FlushTransform(acc) IN [flushed EXCEPT !.steps = Append(@, step)]

\* One plan node; every rule keeps its node and its ordinal in the node.
NodeSteps(node, n) ==
    IF node.op # "rules" THEN <<node>>
    ELSE FlushTransform(FoldLeft(AddRule, [steps |-> <<>>, group |-> <<>>],
            [i \in 1..Len(node.rules) |-> node.rules[i] @@ [id |-> <<n, i>>]])).steps

\* The steps before scan_boundary: the projection the connector did not take and
\* the Scan's predicate.
ScanSteps(plan) == plan.scan

\* The steps after scan_boundary.
RuleSteps(plan) == FlattenSeq([n \in 1..Len(plan.nodes) |-> NodeSteps(plan.nodes[n], n)])

\* The types a key may not have, reject_paused_key_type.
PausedTypes == {"List", "Struct", "TimestampSecond"}

\* static_component_max: what a component of the type takes, {} where it varies.
StaticWidth(type) == IF type = "Utf8" THEN {} ELSE {2}

\* The refusals of build_verification_plan, before anything is written: reserved
\* control columns, too many key columns, a paused key type, a fixed-width key that
\* cannot fit, a message that is empty.
PlanAdmitted(plan) ==
    /\ ~plan.reserved
    /\ \A rule \in ToSet(RuleSteps(plan)) :
         /\ rule.op = "validate" => rule.message
         /\ rule.op = "dedup" =>
              LET types == [k \in 1..Len(rule.keys) |-> plan.types[rule.keys[k]]]
              IN /\ Len(types) <= MaxKeyColumns /\ ToSet(types) \cap PausedTypes = {}
                 /\ (\A t \in ToSet(types) : StaticWidth(t) # {}) => 2 * Len(types) <= MaxKeyBytes

-----------------------------------------------------------------------------
(* Rows, predicates and keys.                                              *)

\* evaluate_predicate: three-valued.
Evaluate(p, row) == IF row[p.column] \in p.yes THEN "true"
                    ELSE IF row[p.column] \in p.unknown THEN "null" ELSE "false"

\* boolean_keep_mask: only true keeps a row.
KeepMask(p, row) == Evaluate(p, row) = "true"

\* canonical_float64_bits: one NaN and one zero.
CanonicalFloat(f) == CASE f \in {"nan", "signallingNan"} -> "nan" [] f = "-0" -> "0" [] OTHER -> f

\* encode_component: a tag, for text its length, then the value.  A cell is
\* <<type>> for null or <<type, value>>; the tags of two types differ, so the
\* type stands for its tag.
EncodeComponent(cell) ==
    CASE Len(cell) = 1 -> <<"null">>
      [] cell[1] = "Utf8" -> <<"Utf8", Len(cell[2])>> \o cell[2]
      [] cell[1] = "Float64" -> <<"Float64", CanonicalFloat(cell[2])>>
      [] OTHER -> cell

\* The key of a row: the components in the order of the rule's columns.
KeyBytes(keys, row) == FlattenSeq([k \in 1..Len(keys) |-> EncodeComponent(row[keys[k]])])

\* One rule of a transform step, and lower::transform for the whole step.
Replace(row, rule) == IF row[rule.column] = rule.from
                      THEN [row EXCEPT ![rule.column] = rule.to] ELSE row
Transform(rules, row) == FoldLeft(Replace, row, rules)
Project(columns, row) == [c \in columns |-> row[c]]

-----------------------------------------------------------------------------
(* One envelope.                                                           *)

\* An alive row: its value now, the origin row and the ordinal of its sidecar entry.
\* compact_alive keeps value and sidecar in step.  The mutant keeps the front of
\* the sidecar.
CompactFrameOnly(alive, dead) ==
    LET kept == SelectSeq([i \in 1..Len(alive) |-> i], LAMBDA i : i \notin dead)
    IN [i \in 1..Len(kept) |-> [alive[i] EXCEPT !.value = alive[kept[i]].value]]
CompactAlive(alive, dead) ==
    LET kept == SelectSeq([i \in 1..Len(alive) |-> i], LAMBDA i : i \notin dead)
    IN [i \in 1..Len(kept) |-> alive[kept[i]]]

VerFailed(run, why) == [run EXCEPT !.error = why]

\* flush_rejected_rows: packs of at most ReportPackRows.
FlushRejected(run) == [run EXCEPT !.rejectedPacks = Append(@, run.rejected), !.rejected = <<>>]

\* reject_row: the original row of the scan output, once, with the rule that ended it.
RejectRow(run, plan, entry, id, kind) ==
    IF ~plan.rejects THEN VerFailed(run, "rejected artifact not declared")
    ELSE LET next == [run EXCEPT !.rejected = Append(@,
                        [ordinal |-> entry.ordinal, row |-> entry.origin, rule |-> id, kind |-> kind])]
         IN IF Len(next.rejected) >= ReportPackRows THEN FlushRejected(next) ELSE next

RejectAll(run, plan, alive, dead, id, kind) ==
    FoldLeft(LAMBDA r, i : IF r.error # "" \/ i \notin dead THEN r
                           ELSE RejectRow(r, plan, alive[i], id, kind),
             run, [i \in 1..Len(alive) |-> i])

\* The literal a finding carries for an outcome (2514-2519): unwrap_or(false) is
\* only true for the outcome that never fails.
OutcomeLiteral(outcome) == IF outcome = "true" THEN "false" ELSE "null"

Bump(tally, field) == [tally EXCEPT ![field] = @ + 1]

\* One row of a Validate step: the tally, and a finding while the slot has room.
ValidateRow(run, step, entry) ==
    LET outcome == Evaluate(step.predicate, entry.value)
        counted(t) == IF outcome = "true" THEN Bump(Bump(t, "evaluated"), "pass")
                      ELSE Bump(Bump(Bump(Bump(t, "evaluated"), "fail"), step.severity), outcome)
        next == [run EXCEPT !.tallies[step.id] = counted(@)]
    IN IF outcome = "true" THEN next
       ELSE IF Len(run.findings) >= ReportSlotRows THEN VerFailed(next, "bound")
       ELSE [next EXCEPT !.findings = Append(@, [ordinal |-> entry.ordinal, rule |-> step.id,
                severity |-> step.severity, outcome |-> OutcomeLiteral(outcome)])]

\* One row of a Deduplicate step: insert_first, and the finding of a duplicate.
DeduplicateRow(run, step, entry) ==
    LET key == KeyBytes(step.keys, entry.value)
        seen == {d \in run.index : d.rule = step.id /\ d.key = key}
        bump(field) == [run EXCEPT !.tallies[step.id] = Bump(Bump(@, "evaluated"), field)]
    IN IF Len(key) > MaxKeyBytes THEN VerFailed(run, "bound")
       ELSE IF seen = {}
            THEN [bump("unique") EXCEPT
                    !.index = @ \cup {[rule |-> step.id, key |-> key, first |-> entry.ordinal]}]
       ELSE IF Len(run.duplicates) >= ReportSlotRows THEN VerFailed(run, "bound")
       ELSE [bump("duplicate") EXCEPT !.duplicates = Append(@,
                [ordinal |-> entry.ordinal, rule |-> step.id,
                 first |-> (CHOOSE d \in seen : TRUE).first])]

RowByRow(Op(_, _, _), run, step, alive) ==
    FoldLeft(LAMBDA r, entry : IF r.error # "" THEN r ELSE Op(r, step, entry), run, alive)

\* The rows a Validate or a Deduplicate step ends.
DeadByValidate(step, alive) ==
    {i \in 1..Len(alive) : step.severity = "error" /\ ~KeepMask(step.predicate, alive[i].value)}
DeadByDeduplicate(before, after, alive) ==
    {i \in 1..Len(alive) : \E n \in (Len(before.duplicates) + 1)..Len(after.duplicates) :
                                after.duplicates[n].ordinal = alive[i].ordinal}

\* One step of the envelope: acc is [run, alive].
ApplyVerStep(plan, acc, step) ==
    LET run == acc.run
        alive == acc.alive
        mapped(Op(_)) == [acc EXCEPT !.alive =
                            [i \in 1..Len(alive) |-> [alive[i] EXCEPT !.value = Op(@)]]]
        ended(next, dead, kind) ==
            [run |-> IF next.error # "" THEN next ELSE RejectAll(next, plan, alive, dead, step.id, kind),
             alive |-> CompactAlive(alive, dead)]
    IN CASE run.error # "" -> acc
         [] step.op = "project" -> mapped(LAMBDA row : Project(step.columns, row))
         [] step.op = "transform" -> mapped(LAMBDA row : Transform(step.rules, row))
         [] step.op = "filter" -> [acc EXCEPT !.alive = CompactAlive(alive,
                {i \in 1..Len(alive) : ~KeepMask(step.predicate, alive[i].value)})]
         [] step.op = "validate" -> ended(RowByRow(ValidateRow, run, step, alive),
                                          DeadByValidate(step, alive), "validation_error")
         [] OTHER -> LET next == RowByRow(DeduplicateRow, run, step, alive)
                     IN ended(next, DeadByDeduplicate(run, next, alive), "duplicate")

\* The scan output of an envelope: scan steps first, ordinals for what they leave.
ScanOutput(plan, rows) ==
    FoldLeft(LAMBDA out, step :
                IF step.op = "project" THEN [i \in 1..Len(out) |-> Project(step.columns, out[i])]
                ELSE SelectSeq(out, LAMBDA row : KeepMask(step.predicate, row)),
             rows, ScanSteps(plan))

\* next_ordinal, counted through the whole run.
ReportEntries(run, rows) == [i \in 1..Len(rows) |->
                         [value |-> rows[i], origin |-> rows[i], ordinal |-> run.nextOrdinal + i - 1]]

\* flush_accepted_packs: full packs while enough rows wait; finish_accepted the rest.
FlushAccepted(run) ==
    LET full == Len(run.pending) \div AcceptedBatch
    IN [run EXCEPT
          !.packs = @ \o [p \in 1..full |->
                SubSeq(run.pending, (p - 1) * AcceptedBatch + 1, p * AcceptedBatch)],
          !.pending = SubSeq(@, full * AcceptedBatch + 1, Len(@))]

\* finish_accepted: the rows short of a pack are the last pack.
FinishAccepted(run) ==
    LET flushed == FlushAccepted(run)
    IN IF flushed.pending = <<>> THEN flushed
       ELSE [flushed EXCEPT !.packs = Append(@, flushed.pending), !.pending = <<>>]

ProcessEnvelope(plan, run, rows) ==
    LET scanned == ScanOutput(plan, rows)
        started == [run EXCEPT !.nextOrdinal = @ + Len(scanned)]
        done == FoldLeft(LAMBDA acc, step : ApplyVerStep(plan, acc, step),
                         [run |-> started, alive |-> ReportEntries(run, scanned)], RuleSteps(plan))
    IN IF done.run.error # "" THEN done.run
       ELSE FlushAccepted([done.run EXCEPT !.pending = @ \o
                [i \in 1..Len(done.alive) |-> [ordinal |-> done.alive[i].ordinal,
                                               row |-> done.alive[i].value]]])

-----------------------------------------------------------------------------
(* A run.                                                                  *)

Reporting(plan) == SelectSeq(RuleSteps(plan), LAMBDA s : s.op \in {"validate", "dedup"})
NoTally == [evaluated |-> 0, pass |-> 0, fail |-> 0, warning |-> 0, error |-> 0,
            null |-> 0, false |-> 0, unique |-> 0, duplicate |-> 0]

\* materialize_verification_prepared up to the stream: one empty tally a rule.
NewRun(plan) ==
    [nextOrdinal |-> 0, index |-> {}, findings |-> <<>>, duplicates |-> <<>>,
     tallies |-> [id \in {s.id : s \in ToSet(Reporting(plan))} |-> NoTally],
     rejected |-> <<>>, rejectedPacks |-> <<>>, pending |-> <<>>, packs |-> <<>>, error |-> "",
     report |-> [rules |-> <<>>, keys |-> <<>>, findings |-> <<>>, duplicates |-> <<>>]]

VerInit ==
    /\ vfPlan \in VerPlans /\ vfSource \in BoundedSeq(VerRows, MaxVerRows)
    /\ vfRead = 0 /\ vfRun = NewRun(vfPlan) /\ vfEnd = "new"

\* materialize_verification and its Snapshot form: the plan is built and refused,
\* or the writer and the dedup index are opened.
StartVerification ==
    /\ vfEnd = "new"
    /\ vfEnd' = IF PlanAdmitted(vfPlan) THEN "streaming" ELSE "invalid plan"
    /\ UNCHANGED <<vfPlan, vfSource, vfRead, vfRun>>

\* stream_verification: the connector decides how the rows are cut into envelopes.
NextEnvelope ==
    /\ vfEnd = "streaming" /\ vfRead < Len(vfSource)
    /\ \E n \in (vfRead + 1)..Len(vfSource) :
         /\ vfRun' = ProcessEnvelope(vfPlan, vfRun, SubSeq(vfSource, vfRead + 1, n))
         /\ vfRead' = n
    /\ vfEnd' = IF vfRun'.error # "" THEN vfRun'.error ELSE "streaming"
    /\ UNCHANGED <<vfPlan, vfSource>>

\* A section written in packs of at most ReportPackRows: the rule summaries.
Chunked(rows) ==
    [p \in 1..((Len(rows) + ReportPackRows - 1) \div ReportPackRows) |->
        SubSeq(rows, (p - 1) * ReportPackRows + 1,
               IF p * ReportPackRows < Len(rows) THEN p * ReportPackRows ELSE Len(rows))]

\* flush_validation_rule_summaries and flush_dedup_rule_summaries: one row a rule,
\* in plan order, with its tally.
FlushSummaries(run, op) ==
    Chunked([i \in 1..Len(SelectSeq(Reporting(vfPlan), LAMBDA s : s.op = op)) |->
        LET rule == SelectSeq(Reporting(vfPlan), LAMBDA s : s.op = op)[i].id
        IN [rule |-> rule, tally |-> run.tallies[rule]]])

\* flush_validation_findings and flush_duplicate_findings: one pack, none when empty.
FlushValidationFindings(run) == IF run.findings = <<>> THEN <<>> ELSE <<run.findings>>
FlushDuplicateFindings(run) == IF run.duplicates = <<>> THEN <<>> ELSE <<run.duplicates>>

\* The end of the stream: the accepted remainder, the reports, the commit.
FinishVerification ==
    /\ vfEnd = "streaming" /\ vfRead = Len(vfSource)
    /\ LET rest == FinishAccepted(vfRun)
           done == IF rest.rejected = <<>> THEN rest ELSE FlushRejected(rest)
       IN vfRun' = [done EXCEPT !.report =
                     [rules |-> FlushSummaries(done, "validate"), keys |-> FlushSummaries(done, "dedup"),
                      findings |-> FlushValidationFindings(done),
                      duplicates |-> FlushDuplicateFindings(done)]]
    /\ vfEnd' = "committed"
    /\ UNCHANGED <<vfPlan, vfSource, vfRead>>

\* Cancellation, the deadline or a stream error: the writer and the index are dropped.
StopVerification ==
    /\ vfEnd = "streaming"
    /\ vfEnd' = "stopped"
    /\ UNCHANGED <<vfPlan, vfSource, vfRead, vfRun>>

VerNext == StartVerification \/ NextEnvelope \/ FinishVerification \/ StopVerification
VerSpec == VerInit /\ [][VerNext]_vfVars

-----------------------------------------------------------------------------
(* The reference: rule by rule, row by row.                                *)

\* The rules of the plan in order, each on its own.
PlanRules(plan) == FlattenSeq([n \in 1..Len(plan.nodes) |->
    IF plan.nodes[n].op # "rules" THEN <<plan.nodes[n]>>
    ELSE [i \in 1..Len(plan.nodes[n].rules) |-> plan.nodes[n].rules[i] @@ [id |-> <<n, i>>]]])

\* Two cells are the same key value: both null, or equal with one NaN and one zero.
SameCell(a, b) == \/ Len(a) = 1 /\ Len(b) = 1
                  \/ /\ Len(a) = 2 /\ Len(b) = 2 /\ a[1] = b[1]
                     /\ IF a[1] = "Float64" THEN CanonicalFloat(a[2]) = CanonicalFloat(b[2])
                        ELSE a[2] = b[2]

\* The value row i has in front of rule s, as a set: empty when it was filtered or
\* rejected before.
VerReference(plan, rows) ==
    LET rules == PlanRules(plan)
        ends(value, s, earlier) ==
            LET rule == rules[s]
            IN CASE rule.op = "filter" -> ~KeepMask(rule.predicate, value)
                 [] rule.op = "validate" -> rule.severity = "error" /\ ~KeepMask(rule.predicate, value)
                 [] rule.op = "dedup" -> \E other \in earlier : \A k \in 1..Len(rule.keys) :
                                            SameCell(value[rule.keys[k]], other[rule.keys[k]])
                 [] OTHER -> FALSE
        turned(value, rule) == CASE rule.op = "project" -> Project(rule.columns, value)
                                 [] rule.op = "replace" -> Replace(value, rule)
                                 [] OTHER -> value
        reach[i \in 1..Len(rows), s \in 1..(Len(rules) + 1)] ==
            IF s = 1 THEN {rows[i]}
            ELSE {turned(v, rules[s - 1]) : v \in
                    {v \in reach[i, s - 1] : ~ends(v, s - 1, UNION {reach[j, s - 1] : j \in 1..(i - 1)})}}
    IN reach

\* The property below as an operator of a finished run.
Exact(plan, source, run) ==
    LET rows == ScanOutput(plan, source)
        rules == PlanRules(plan)
        reach == VerReference(plan, rows)
        N == 1..Len(rows)
        survives(i) == reach[i, Len(rules) + 1] # {}
        endedAt(i, s) == reach[i, s] # {} /\ reach[i, s + 1] = {}
        accepted == FlattenSeq(run.packs)
        rejected == FlattenSeq(run.rejectedPacks)
        at(s, Test(_)) == Cardinality({i \in N : \E v \in reach[i, s] : Test(v)})
    IN /\ [p \in 1..Len(accepted) |-> accepted[p].ordinal]
            = SetToSortSeq({i - 1 : i \in {i \in N : survives(i)}}, <)
       /\ \A p \in 1..Len(accepted) : {accepted[p].row} = reach[accepted[p].ordinal + 1, Len(rules) + 1]
       /\ \A p \in 1..Len(run.packs) :
            IF p < Len(run.packs) THEN Len(run.packs[p]) = AcceptedBatch
            ELSE Len(run.packs[p]) \in 1..AcceptedBatch
       /\ {<<r.ordinal, r.row, r.rule>> : r \in ToSet(rejected)}
            = {<<i - 1, rows[i], rules[s].id>> : <<i, s>> \in
                {x \in N \X (1..Len(rules)) : rules[x[2]].op \in {"validate", "dedup"} /\ endedAt(x[1], x[2])}}
       /\ Len(rejected) = Cardinality({r.ordinal : r \in ToSet(rejected)})
       /\ \A s \in 1..Len(rules) : rules[s].op \in {"validate", "dedup"} =>
            LET section == FlattenSeq(IF rules[s].op = "dedup" THEN run.report.keys ELSE run.report.rules)
                tally == (CHOOSE t \in ToSet(section) : t.rule = rules[s].id).tally
            IN /\ tally.evaluated = at(s, LAMBDA v : TRUE)
               /\ rules[s].op = "validate" =>
                    /\ tally.pass = at(s, LAMBDA v : KeepMask(rules[s].predicate, v))
                    /\ tally.null = at(s, LAMBDA v : Evaluate(rules[s].predicate, v) = "null")
                    /\ tally.false = at(s, LAMBDA v : Evaluate(rules[s].predicate, v) = "false")
                    /\ tally.fail = Len(SelectSeq(FlattenSeq(run.report.findings),
                                              LAMBDA f : f.rule = rules[s].id))
               /\ rules[s].op = "dedup" =>
                    /\ tally.duplicate = Cardinality({i \in N : endedAt(i, s)})
                    /\ tally.unique + tally.duplicate = tally.evaluated
       /\ \A d \in ToSet(FlattenSeq(run.report.duplicates)) : d.first < d.ordinal /\ \E s \in 1..Len(rules) :
            rules[s].op = "dedup" /\ rules[s].id = d.rule /\ ~endedAt(d.first + 1, s) /\ endedAt(d.ordinal + 1, s)

(* However the source is cut into envelopes, a committed verification      *)
(* conserves rows: every row of the scan output is filtered, accepted once *)
(* in order with its final value, or rejected once with its original       *)
(* value and the first rule that ended it; packs are full but the last,    *)
(* tallies and findings agree, and a duplicate names a kept earlier row    *)
(* (process_envelope, compact_alive, flush_accepted_packs, reject_row).    *)
VerificationExact == vfEnd = "committed" => Exact(vfPlan, vfSource, vfRun)

(* A finding says which outcome failed: predicate_outcome is "false" for a *)
(* predicate that was false and "null" for one that was null, as many of   *)
(* each as the rule's tally counts (verification.rs:2514).                 *)
OutcomeRecorded ==
    vfEnd = "committed" =>
        \A id \in DOMAIN vfRun.tallies : \A o \in {"false", "null"} :
            vfRun.tallies[id][o]
                = Len(SelectSeq(vfRun.findings, LAMBDA f : f.rule = id /\ f.outcome = o))
=============================================================================
