---------------------------- MODULE MCJobRuntime ----------------------------
(* Model-checking instances of JobRuntime: a typed Job and a legacy one, two *)
(* workers racing for them and one caller of cancel.                        *)
EXTENDS JobRuntime, TLC

CONSTANTS j1, j2, r1, r2, a1, k1, k2, d1, w1, w2, c1, noJob, noRun

MCJobs == {j1, j2}
MCTyped == {j1}
MCRuns == {r1, r2}
MCArtifacts == {a1}
MCReports == {a1}
MCKeys == {k1, k2}
MCDigests == {d1}
MCWorkers == {w1, w2}
MCClients == {c1}
MCNone == {}
MCOneJob == {j1}
MCOneRun == {r1}
MCOneKey == {k1}
MCOneRank == j1 :> 1
MCRank == j1 :> 1 @@ j2 :> 2

MCSymmetry == Permutations(MCWorkers) \cup Permutations(MCRuns) \cup Permutations(MCKeys)
=============================================================================
