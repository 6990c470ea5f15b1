----------------------------- MODULE Profiling ------------------------------
(***************************************************************************)
(* Profiles, quality reports and drift reports: profile.rs, quality.rs and *)
(* drift.rs of stillflow-engine.  A profile is gathered envelope by        *)
(* envelope under a row limit, a byte limit and a limit on the distinct    *)
(* values kept for a column; the quality report and the drift report are   *)
(* computed from profiles alone.                                           *)
(*                                                                         *)
(* A row has one integer column, one text column; a cell is a value or     *)
(* Null.  A text is a natural number, ordered as its bytes, and            *)
(* TextLength gives its length.                                            *)
(***************************************************************************)
EXTENDS Integers, Sequences, FiniteSets, SequencesExt, FiniteSetsExt

CONSTANTS
    Null,             \* an absent cell or metric
    ProfRows,         \* the rows a source can hold: [n, t]
    TextLength,       \* [texts -> Nat]
    MaxProfRows,      \* bound: rows of the source
    ProfRowLimit,     \* PROFILE_MAX_ROWS
    ProfByteLimit,    \* PROFILE_MAX_SCAN_BYTES, a row is one byte
    DistinctLimit,    \* PROFILE_MAX_DISTINCT_ENTRIES_PER_COLUMN
    RowKeyLimit,      \* PROFILE_MAX_FULL_ROW_DISTINCT_ENTRIES
    RetainedLength,   \* PROFILE_MAX_RETAINED_VALUE_BYTES
    TopK,             \* top_k
    Buckets,          \* histogram_buckets
    MetricRows,       \* DRIFT_MINIMUM_METRIC_ROWS
    Baselines         \* sources whose profiles are the baselines of comparisons

ASSUME ProfilingAssumption ==
    /\ {MaxProfRows, ProfRowLimit, ProfByteLimit, DistinctLimit, RowKeyLimit, TopK} \subseteq Nat
    /\ Buckets \in Nat \ {0}

VARIABLES
    pfSource,    \* the rows of the source
    pfBase,      \* the baseline's source
    pfRead,      \* rows taken from the stream
    pfScan,      \* ProfileRun
    pfPhase,     \* "scanning", "profiled"
    pfQuality,   \* the quality report, or Null
    pfDrift      \* the drift report, or Null

pfVars == <<pfSource, pfBase, pfRead, pfScan, pfPhase, pfQuality, pfDrift>>

Total(f) == FoldFunction(+, 0, f)
Values(rows, c) == [i \in {i \in 1..Len(rows) : rows[i][c] # Null} |-> rows[i][c]]

-----------------------------------------------------------------------------
(* The scan.                                                               *)

\* column_state_for: an empty state of each column.
EmptyScan ==
    [rows |-> 0, bytes |-> 0, truncated |-> FALSE, keys |-> {}, keysOverflow |-> FALSE,
     n |-> [nulls |-> 0, min |-> Null, max |-> Null, sum |-> 0, distinct |-> <<>>, overflow |-> FALSE],
     t |-> [nulls |-> 0, empty |-> 0, lengths |-> 0, minLength |-> Null, maxLength |-> Null,
            long |-> 0, distinct |-> <<>>, overflow |-> FALSE]]

Lower(a, b) == IF a = Null \/ b < a THEN b ELSE a
Higher(a, b) == IF a = Null \/ b > a THEN b ELSE a
Counted(distinct, v) == [k \in DOMAIN distinct \cup {v} |->
                            (IF k \in DOMAIN distinct THEN distinct[k] ELSE 0) + IF k = v THEN 1 ELSE 0]

\* ColumnRuntime::observe, integer arm, for one value.
ObserveInteger(state, v) ==
    IF v = Null THEN [state EXCEPT !.nulls = @ + 1]
    ELSE [state EXCEPT !.min = Lower(@, v), !.max = Higher(@, v), !.sum = @ + v,
                       !.distinct = Counted(@, v)]

\* ColumnRuntime::observe, text arm.
ObserveText(state, v) ==
    IF v = Null THEN [state EXCEPT !.nulls = @ + 1]
    ELSE [state EXCEPT !.empty = @ + (IF TextLength[v] = 0 THEN 1 ELSE 0),
            !.lengths = @ + TextLength[v],
            !.minLength = Lower(@, TextLength[v]), !.maxLength = Higher(@, TextLength[v]),
            !.long = @ + (IF TextLength[v] > RetainedLength THEN 1 ELSE 0),
            !.distinct = Counted(@, v)]

\* The end of observe: too many distinct values empty the map and set the flag; the
\* map then fills again with what the later batches hold.  The mutant forgets the flag.
DistinctCleared(state) ==
    IF Cardinality(DOMAIN state.distinct) > DistinctLimit THEN [state EXCEPT !.distinct = <<>>] ELSE state
DistinctBounded(state) ==
    IF Cardinality(DOMAIN state.distinct) > DistinctLimit
    THEN [state EXCEPT !.distinct = <<>>, !.overflow = TRUE] ELSE state

\* FullRowState::observe: one row; past the limit nothing is kept any more.
ObserveRow(scan, row) ==
    LET keys == scan.keys \cup {row}
    IN IF scan.keysOverflow THEN scan
       ELSE IF Cardinality(keys) > RowKeyLimit THEN [scan EXCEPT !.keys = {}, !.keysOverflow = TRUE]
       ELSE [scan EXCEPT !.keys = keys]

\* A batch: every column, then the full-row keys.
ObserveBatch(scan, rows) ==
    LET n == FoldLeft(LAMBDA s, r : ObserveInteger(s, r.n), scan.n, rows)
        t == FoldLeft(LAMBDA s, r : ObserveText(s, r.t), scan.t, rows)
    IN FoldLeft(ObserveRow, [scan EXCEPT !.n = DistinctBounded(n), !.t = DistinctBounded(t)], rows)

\* profile_batches, one envelope: past the byte limit it is left out and the scan
\* stops; past the row limit its front is taken and the scan stops.
AdmitEnvelope(scan, rows) ==
    IF scan.bytes + Len(rows) > ProfByteLimit THEN [scan EXCEPT !.truncated = TRUE]
    ELSE LET room == ProfRowLimit - scan.rows
             view == IF Len(rows) > room THEN SubSeq(rows, 1, room) ELSE rows
         IN [ObserveBatch(scan, view) EXCEPT !.rows = @ + Len(view), !.bytes = @ + Len(rows),
                                            !.truncated = Len(view) < Len(rows)]

-----------------------------------------------------------------------------
(* ProfileRun::finish.                                                     *)

\* integer_histogram, over the distinct values the state still holds.
Histogram(state) ==
    [b \in 1..Buckets |-> LET span == state.max - state.min
        bucket(v) == IF span = 0 THEN 1
                     ELSE Min({Buckets, ((v - state.min) * Buckets) \div span + 1})
        IN Total([v \in {v \in DOMAIN state.distinct : bucket(v) = b} |-> state.distinct[v]])]

\* The retained values, the most frequent first, ties in byte order.
TopValues(distinct) ==
    LET kept == {v \in DOMAIN distinct : TextLength[v] <= RetainedLength}
        order == SetToSortSeq(kept, LAMBDA a, b : distinct[a] > distinct[b]
                                                   \/ (distinct[a] = distinct[b] /\ a < b))
    IN [i \in 1..Min({TopK, Len(order)}) |-> [value |-> order[i], count |-> distinct[order[i]]]]

IntegerProfile(scan) ==
    LET s == scan.n IN
    [nulls |-> s.nulls, nonNull |-> scan.rows - s.nulls, min |-> s.min, max |-> s.max,
     sum |-> IF s.nulls < scan.rows THEN s.sum ELSE Null,
     unique |-> IF s.overflow THEN Null ELSE Cardinality(DOMAIN s.distinct),
     histogram |-> IF s.min = Null THEN Null ELSE Histogram(s)]

TextProfile(scan) ==
    LET s == scan.t IN
    [nulls |-> s.nulls, nonNull |-> scan.rows - s.nulls, empty |-> s.empty, lengths |-> s.lengths,
     minLength |-> s.minLength, maxLength |-> s.maxLength, long |-> s.long,
     unique |-> IF s.overflow THEN Null ELSE Cardinality(DOMAIN s.distinct),
     top |-> IF s.overflow THEN Null ELSE TopValues(s.distinct)]

ProfileOf(scan) ==
    LET distinct == IF scan.keysOverflow THEN Null ELSE Cardinality(scan.keys)
    IN [rows |-> scan.rows, truncated |-> scan.truncated, distinctRows |-> distinct,
        duplicates |-> IF distinct = Null THEN Null ELSE scan.rows - distinct,
        n |-> IntegerProfile(scan), t |-> TextProfile(scan)]

-----------------------------------------------------------------------------
(* The quality report.                                                     *)

\* round_half_even.
RoundHalfEven(num, den) ==
    LET q == num \div den
        r == num % den
    IN IF 2 * r > den \/ (2 * r = den /\ q % 2 = 1) THEN q + 1 ELSE q

\* quality_score: 40 for nulls, 30 for duplicate rows, 10 for a truncated scan.
\* Both columns of the model are profiled, so the null evidence is always there.
QualityScore(p) ==
    IF p.rows = 0 THEN [value |-> Null, missing |-> {}, complete |-> FALSE]
    ELSE LET den == 2 * p.rows
             penalty == 40 * (p.n.nulls + p.t.nulls)
                        + (IF p.duplicates = Null THEN 0 ELSE 60 * p.duplicates)
                        + (IF p.truncated THEN 10 * den ELSE 0)
         IN [value |-> RoundHalfEven(100 * den - penalty, den),
             missing |-> IF p.duplicates = Null THEN {"duplicate"} ELSE {},
             complete |-> p.duplicates # Null]

\* The bucket a distribution is concentrated in: the fullest, the first of several.
Dominant(h) == CHOOSE b \in 1..Buckets : \A c \in 1..Buckets : h[c] < h[b] \/ (h[c] = h[b] /\ b <= c)

\* run_detectors, each detector with its evidence.
NullFinding(p) ==
    IF p.n.nulls + p.t.nulls = 0 THEN {}
    ELSE {[id |-> "schema.null-observations", count |-> p.n.nulls + p.t.nulls, of |-> 2 * p.rows]}
LowUniqueness(p) ==
    IF p.t.nonNull <= 1 \/ p.t.unique = Null \/ p.t.top = Null \/ p.t.top = <<>> THEN {}
    ELSE IF p.t.unique * 10 > p.t.nonNull THEN {}
    ELSE {[id |-> "text.low-uniqueness", value |-> Head(p.t.top).value, count |-> Head(p.t.top).count]}
TopConcentration(p) ==
    IF p.t.nonNull = 0 \/ p.t.top = Null \/ p.t.top = <<>> THEN {}
    ELSE IF Head(p.t.top).count * 2 < p.t.nonNull THEN {}
    ELSE {[id |-> "text.top-concentration", value |-> Head(p.t.top).value, count |-> Head(p.t.top).count]}
DuplicateFinding(p) ==
    IF p.duplicates = Null \/ p.duplicates = 0 THEN {}
    ELSE {[id |-> "duplicate.rows-present", from |-> 0, to |-> p.rows]}
DominantBucket(p) ==
    LET h == p.n.histogram IN
    IF h = Null \/ Total(h) = 0 \/ h[Dominant(h)] * 10 < Total(h) * 9 THEN {}
    ELSE {[id |-> "distribution.dominant-bucket", bucket |-> Dominant(h), count |-> h[Dominant(h)]]}

\* validate_evidence: what the report cites is recomputed from the profile.
EvidenceHolds(p, f) ==
    CASE f.id = "schema.null-observations" -> f.of > 0 /\ f.count = p.n.nulls + p.t.nulls
      [] f.id \in {"text.low-uniqueness", "text.top-concentration"} ->
            f.count <= p.t.nonNull /\ \E i \in DOMAIN p.t.top :
                p.t.top[i] = [value |-> f.value, count |-> f.count]
      [] f.id = "duplicate.rows-present" -> p.duplicates # Null /\ f.from <= f.to /\ f.to <= p.rows
      [] OTHER -> f.bucket \in DOMAIN p.n.histogram /\ p.n.histogram[f.bucket] = f.count

\* quality_inner: the score and the findings, or a refusal when an evidence fails.
QualityOf(p) ==
    LET findings == NullFinding(p) \cup LowUniqueness(p) \cup TopConcentration(p)
                    \cup DuplicateFinding(p) \cup DominantBucket(p)
    IN IF \E f \in findings : ~EvidenceHolds(p, f) THEN [refused |-> TRUE]
       ELSE [refused |-> FALSE, score |-> QualityScore(p), findings |-> findings]

-----------------------------------------------------------------------------
(* The drift report.  A rational is <<numerator, denominator>>.            *)

\* DriftRational::cmp_value.
Exceeds(a, b) == a[1] * b[2] > b[1] * a[2]
AbsDelta(a, b) == LET d == a[1] * b[2] - b[1] * a[2] IN <<IF d < 0 THEN -d ELSE d, a[2] * b[2]>>

\* histogram_l1: half the sum of the bucketwise differences of the shares.
HistogramL1(l, r) ==
    LET L == Total(l)
        R == Total(r)
        gap(b) == LET d == l[b] * R - r[b] * L IN IF d < 0 THEN -d ELSE d
    IN <<Total([b \in DOMAIN l |-> gap(b)]), 2 * L * R>>

\* Why a null rate cannot be compared, the baseline first.
Unavailable(p) == IF p.truncated THEN {"truncated_scan"} ELSE IF p.rows = 0 THEN {"no_rows"} ELSE {}

\* compare_metrics, the null rate: over a tenth is drift.
NullRate(base, cand, c) ==
    LET why == IF Unavailable(base) # {} THEN Unavailable(base) ELSE Unavailable(cand)
        delta == AbsDelta(<<base[c].nulls, base.rows>>, <<cand[c].nulls, cand.rows>>)
    IN IF why # {} THEN [missing |-> why, found |-> {}]
       ELSE [missing |-> {}, found |-> IF Exceeds(delta, <<1, 10>>) THEN {<<"null_rate", c, delta>>} ELSE {}]

\* compare_metrics, the histogram: over a fifth is drift.
HistogramDrift(base, cand) ==
    LET l == base.n.histogram
        r == cand.n.histogram
        missing(why) == [missing |-> {why}, found |-> {}]
    IN CASE l = Null \/ r = Null -> missing("metric_absent")
         [] OTHER ->
            IF Total(l) = 0 \/ Total(r) = 0 THEN missing("metric_absent")
            ELSE IF base.n.nonNull < MetricRows \/ cand.n.nonNull < MetricRows THEN missing("too_few_rows")
            ELSE [missing |-> {}, found |-> IF Exceeds(HistogramL1(l, r), <<1, 5>>)
                                            THEN {<<"histogram_l1", "n", HistogramL1(l, r)>>} ELSE {}]

\* validate_profile_column_metrics: a profile read back is refused when its counts
\* cannot be.
ProfileReadable(p) ==
    /\ \A c \in {"n", "t"} : p[c].nulls <= p.rows /\ p[c].nonNull <= p.rows
    /\ p.n.histogram # Null => Total(p.n.histogram) <= p.n.nonNull

\* compare.
DriftOf(base, cand) ==
    IF ~ProfileReadable(base) \/ ~ProfileReadable(cand) THEN [refused |-> TRUE]
    ELSE LET parts == {NullRate(base, cand, "n"), NullRate(base, cand, "t"), HistogramDrift(base, cand)}
             gaps == UNION {x.missing : x \in parts}
         IN [refused |-> FALSE, outcome |-> IF gaps = {} THEN "complete" ELSE "partial",
             missing |-> gaps, found |-> UNION {x.found : x \in parts}]

-----------------------------------------------------------------------------
(* Behaviour.                                                              *)

ProfInit ==
    /\ pfSource \in BoundedSeq(ProfRows, MaxProfRows) /\ pfBase \in Baselines
    /\ pfRead = 0 /\ pfScan = EmptyScan /\ pfPhase = "scanning" /\ pfQuality = Null /\ pfDrift = Null

\* profile_batches: the next envelope, as large as the connector makes it.
ScanEnvelope ==
    /\ pfPhase = "scanning" /\ pfRead < Len(pfSource) /\ ~pfScan.truncated
    /\ \E n \in (pfRead + 1)..Len(pfSource) :
         pfScan' = AdmitEnvelope(pfScan, SubSeq(pfSource, pfRead + 1, n)) /\ pfRead' = n
    /\ UNCHANGED <<pfSource, pfBase, pfPhase, pfQuality, pfDrift>>

\* The end of the stream, or of the scan: finish.
FinishProfile ==
    /\ pfPhase = "scanning" /\ (pfRead = Len(pfSource) \/ pfScan.truncated)
    /\ pfPhase' = "profiled"
    /\ UNCHANGED <<pfSource, pfBase, pfRead, pfScan, pfQuality, pfDrift>>

\* quality: a report from the profile.
ReportQuality ==
    /\ pfPhase = "profiled" /\ pfQuality = Null
    /\ pfQuality' = QualityOf(ProfileOf(pfScan))
    /\ UNCHANGED <<pfSource, pfBase, pfRead, pfScan, pfPhase, pfDrift>>

\* drift: the profile against a baseline read in one envelope.
BaseProfile == ProfileOf(AdmitEnvelope(EmptyScan, pfBase))
ReportDrift ==
    /\ pfPhase = "profiled" /\ pfDrift = Null
    /\ pfDrift' = DriftOf(BaseProfile, ProfileOf(pfScan))
    /\ UNCHANGED <<pfSource, pfBase, pfRead, pfScan, pfPhase, pfQuality>>

ProfNext == ScanEnvelope \/ FinishProfile \/ ReportQuality \/ ReportDrift
ProfSpec == ProfInit /\ [][ProfNext]_pfVars

-----------------------------------------------------------------------------
(* Properties.                                                             *)

Occurs(rows, c, v) == Cardinality({i \in 1..Len(rows) : rows[i][c] = v})
Held(rows, c) == {rows[i][c] : i \in 1..Len(rows)} \ {Null}

(* A profile says of the rows scanned exactly what a count over them says, *)
(* however they came in envelopes: presence, extremes, sums, distinct      *)
(* values when they are within the limit and no number otherwise, the top  *)
(* values in order, duplicate rows; without an overflow the histogram      *)
(* holds every value (ColumnRuntime::observe, ProfileRun::finish).         *)
ProfileExact ==
    pfPhase = "profiled" =>
        LET p == ProfileOf(pfScan)
            rows == SubSeq(pfSource, 1, p.rows)
            all == {rows[i] : i \in 1..Len(rows)}
        IN /\ p.truncated <=> p.rows < Len(pfSource)
           /\ \A c \in {"n", "t"} :
                /\ p[c].nulls = Occurs(rows, c, Null) /\ p[c].nonNull = p.rows - p[c].nulls
                /\ p[c].unique = IF Cardinality(Held(rows, c)) > DistinctLimit THEN Null
                                 ELSE Cardinality(Held(rows, c))
           /\ IF Held(rows, "n") = {} THEN p.n.min = Null /\ p.n.sum = Null
              ELSE /\ p.n.min = Min(Held(rows, "n")) /\ p.n.max = Max(Held(rows, "n"))
                   /\ p.n.sum = Total(Values(rows, "n"))
           /\ p.t.top # Null =>
                /\ \A i \in DOMAIN p.t.top : p.t.top[i].count = Occurs(rows, "t", p.t.top[i].value)
                /\ \A v \in Held(rows, "t") : TextLength[v] <= RetainedLength =>
                     \/ \E i \in DOMAIN p.t.top : p.t.top[i].value = v
                     \/ Len(p.t.top) = TopK /\ Occurs(rows, "t", v) <= p.t.top[TopK].count
           /\ p.duplicates = IF Cardinality(all) > RowKeyLimit THEN Null ELSE p.rows - Cardinality(all)
           /\ p.n.unique # Null /\ p.n.histogram # Null => Total(p.n.histogram) = p.n.nonNull

(* A quality report can always be made of a profile of this engine, every  *)
(* evidence it cites being recomputable, its score is the nearest integer  *)
(* to the exact one and 100 only when less than half a point is lost; a    *)
(* drift report can always be made too, of identical profiles it finds     *)
(* nothing, and neither measure depends on which side is the baseline      *)
(* (quality_inner, validate_evidence, compare, histogram_l1).              *)
ReportsSound ==
    LET p == ProfileOf(pfScan) IN
    /\ pfQuality # Null =>
         /\ ~pfQuality.refused
         /\ p.rows > 0 =>
              LET lost == 40 * (p.n.nulls + p.t.nulls) + 20 * (IF p.truncated THEN p.rows ELSE 0)
                          + (IF p.duplicates = Null THEN 0 ELSE 60 * p.duplicates)
                  off == (100 - pfQuality.score.value) * 2 * p.rows - lost
              IN pfQuality.score.value \in 20..100 /\ off <= p.rows /\ -off <= p.rows
    /\ pfDrift # Null =>
         /\ ~pfDrift.refused
         /\ DriftOf(p, p).found = {}
         /\ DriftOf(p, BaseProfile).found = pfDrift.found
         /\ \A f \in pfDrift.found : ~Exceeds(f[3], <<1, 1>>)

(* A column whose distinct values overflowed reports no metric taken from  *)
(* them, rather than one of a part of its values: a histogram, where there *)
(* is one, holds every value of the column (profile.rs:1118, 1678).        *)
HistogramWhole ==
    pfPhase = "profiled" =>
        LET p == ProfileOf(pfScan) IN
        p.n.histogram # Null => Total(p.n.histogram) = p.n.nonNull
=============================================================================
