---------------------------- MODULE SourceProofs ----------------------------
(***************************************************************************)
(* What the connectors keep whatever moves in the file system or is        *)
(* overwritten in the store while they read.                               *)
(*                                                                         *)
(* DscInv: every handle a walk or an open holds is a directory inside the  *)
(* roots (Inside), and as long as nothing has moved since a walk began,    *)
(* its frames and candidates are what their paths lead to (Trail, Leads)   *)
(* from a root that still has its index (CurrentRoot).                     *)
(*                                                                         *)
(* OaInv: the bytes of a request come from the object its head described,  *)
(* in the order and number asked for (ReadingInv), and an upload has sent  *)
(* the chunks of its body up to some point (UploadInv, SentSoFar).         *)
(*                                                                         *)
(* Recursion over paths and chunks (Descend, UniquePaths, FlattenSeq) is   *)
(* reasoned about through the least-number principle.                      *)
(***************************************************************************)
EXTENDS SourceConnectors, FiniteSetTheorems, SequenceTheorems, WellFoundedInduction, TLAPS

(* The least-number principle, and the induction over sets it gives.         *)
LEMMA LeastNatural ==
    ASSUME NEW T \in SUBSET Nat, T # {}
    PROVE  \E m \in T : \A n \in T : m <= n
<1> DEFINE R == OpToRel(<, Nat)
<1>1. IsWellFoundedOn(R, Nat)
  BY NatLessThanWellFounded
<1>2. \A x, y \in Nat : x < y => <<x, y>> \in R
  BY DEF OpToRel
<1> HIDE DEF R
<1>3. PICK x \in T : \A y \in T : ~ (<<y, x>> \in R)
  BY <1>1, WFMin
<1>4. \A y \in T : ~ (y < x)
  BY <1>2, <1>3, Zenon
<1> QED
  BY <1>4, Z3

LEMMA CountUp ==
    ASSUME NEW S \in SUBSET Nat, 0 \in S, \A n \in S : n + 1 \in S
    PROVE  S = Nat
<1> SUFFICES ASSUME Nat \ S # {} PROVE FALSE
    OBVIOUS
<1>1. PICK m \in Nat \ S : \A n \in Nat \ S : m <= n
  BY LeastNatural
<1>2. m # 0 /\ m \in Nat
  OBVIOUS
<1>3. m - 1 \in Nat /\ ~ (m <= m - 1) /\ (m - 1) + 1 = m
  BY <1>2
<1>4. m - 1 \in S
  BY <1>1, <1>3
<1> QED
  BY <1>1, <1>3, <1>4

(* A function whose value follows from the one before it stays in a set, and *)
(* exists.                                                                   *)
LEMMA StaysIn ==
    ASSUME NEW m \in Nat, NEW V, NEW g, g[0] \in V,
           \A n \in 1..m : g[n - 1] \in V => g[n] \in V
    PROVE  \A n \in 0..m : g[n] \in V
<1> DEFINE S == {n \in Nat : n <= m => g[n] \in V}
<1>1. 0 \in S
  OBVIOUS
<1>2. ASSUME NEW n \in S PROVE n + 1 \in S
  <2>1. n + 1 \in Nat /\ (n + 1) - 1 = n /\ (n + 1 <= m => n + 1 \in 1..m /\ n <= m)
    OBVIOUS
  <2>2. ASSUME n + 1 <= m PROVE g[n + 1] \in V
    <3>1. g[n] \in V
      BY <2>1, <2>2
    <3> QED BY <2>1, <2>2, <3>1
  <2> QED BY <2>1, <2>2
<1> HIDE DEF S
<1>3. S = Nat
  BY <1>1, <1>2, CountUp DEF S
<1> QED
  BY <1>3 DEF S

IsIteration(g, V, a, m, f) ==
    g \in [0..m -> V] /\ g[0] = a /\ \A n \in 1..m : g[n] = f[n][g[n - 1]]

LEMMA StepByStep ==
    ASSUME NEW V, NEW a \in V, NEW m \in Nat, NEW f \in [1..m -> [V -> V]]
    PROVE  \E g : IsIteration(g, V, a, m, f)
<1> DEFINE Up(g, k) == g \in [0..k -> V] /\ g[0] = a /\ \A n \in 1..k : g[n] = f[n][g[n - 1]]
           S == {k \in Nat : k <= m => \E g : Up(g, k)}
<1>1. 0 \in S
  <2> DEFINE g == [n \in 0..0 |-> a]
  <2>1. g \in [0..0 -> V] /\ g[0] = a /\ \A n \in 1..0 : g[n] = f[n][g[n - 1]]
    OBVIOUS
  <2> QED BY <2>1
<1>2. ASSUME NEW k \in S PROVE k + 1 \in S
  <2>0. k \in Nat /\ k + 1 \in Nat
    OBVIOUS
  <2> SUFFICES ASSUME k + 1 <= m PROVE \E g : Up(g, k + 1)
    BY <2>0
  <2>1. PICK g : Up(g, k)
    BY <2>0
  <2> DEFINE h == [n \in 0..(k + 1) |-> IF n = k + 1 THEN f[k + 1][g[k]] ELSE g[n]]
  <2>2. k \in 0..k /\ k + 1 \in 1..m
    BY <2>0
  <2>3. f[k + 1][g[k]] \in V
    BY <2>1, <2>2
  <2>4. ASSUME NEW n \in 0..(k + 1), n # k + 1 PROVE n \in 0..k /\ g[n] \in V
    BY <2>0, <2>1, <2>4
  <2>5. h \in [0..(k + 1) -> V]
    BY <2>3, <2>4
  <2>6. h[0] = a
    BY <2>0, <2>1
  <2>7. ASSUME NEW n \in 1..(k + 1) PROVE h[n] = f[n][h[n - 1]]
    <3>1. n - 1 \in 0..(k + 1) /\ n - 1 # k + 1 /\ n \in 0..(k + 1)
      BY <2>0
    <3>2. CASE n = k + 1
      <4>1. n - 1 = k
        BY <2>0, <3>2
      <4> QED BY <3>1, <3>2, <4>1
    <3>3. CASE n # k + 1
      <4>1. n \in 1..k
        BY <2>0, <3>3
      <4> QED BY <2>1, <3>1, <3>3, <4>1
    <3> QED BY <3>2, <3>3
  <2> HIDE DEF h
  <2>8. Up(h, k + 1)
    BY <2>5, <2>6, <2>7
  <2> QED BY <2>8
<1> HIDE DEF S
<1>3. S = Nat
  BY <1>1, <1>2, CountUp DEF S
<1> QED
  BY <1>3 DEF S, IsIteration

-----------------------------------------------------------------------------
(* Local files.                                                              *)

Inside == FsDirs \ (Outside \cup {Top})
Handles == FsDirs \cup {NoEntry}

(* The file system, and where the roots and the directories below them lead. *)
TreeSound ==
    /\ tree \in [FsDirs -> [EntryNames -> Inodes \cup {NoEntry}]]
    /\ \A dir \in Inside, name \in EntryNames : tree[dir][name] \notin Outside \cup {Top}
    /\ \A paths \in RootLists : \A i \in DOMAIN paths :
          paths[i] # <<>> /\ tree[Top][Head(paths[i])] \notin Outside \cup {Top}
    /\ allowed \in RootLists

LEMMA EnterType ==
    ASSUME TreeSound, NEW dir \in FsDirs, NEW name \in EntryNames
    PROVE  Enter(dir, name) \in Handles
  BY DEF Enter, Handles

LEMMA EnterInside ==
    ASSUME TreeSound, NEW dir \in Inside, NEW name \in EntryNames
    PROVE  Enter(dir, name) \in Inside \cup {NoEntry}
  BY DEF Enter, Inside, TreeSound

LEMMA FileInside ==
    ASSUME TreeSound, NEW dir \in Inside, NEW name \in EntryNames
    PROVE  OpenRelativeFile(dir, name) \in (FsFiles \ Outside) \cup {NoEntry}
  BY DEF OpenRelativeFile, Inside, TreeSound

(* The handles of a descent.                                                 *)
IsDescent(at, dir, path) ==
    /\ at[0] = dir
    /\ \A n \in 1..Len(path) :
          at[n] = IF at[n - 1] = NoEntry THEN NoEntry ELSE Enter(at[n - 1], path[n])
    /\ Descend(dir, path) = at[Len(path)]

LEMMA DescendSolves ==
    ASSUME TreeSound, NEW dir \in FsDirs, NEW path \in Seq(EntryNames)
    PROVE  \E at : IsDescent(at, dir, path)
<1> DEFINE m == Len(path)
           Steps(g) == [n \in 0..m |-> IF n = 0 THEN dir
                           ELSE IF g[n - 1] = NoEntry THEN NoEntry ELSE Enter(g[n - 1], path[n])]
           f == [n \in 1..m |-> [v \in Handles |-> IF v = NoEntry THEN NoEntry ELSE Enter(v, path[n])]]
           at == CHOOSE g : g = Steps(g)
<1>1. m \in Nat /\ dir \in Handles
  BY DEF Handles
<1>2. \A n \in 1..m : path[n] \in EntryNames
  OBVIOUS
<1>3. ASSUME NEW n \in 1..m, NEW v \in Handles PROVE f[n][v] \in Handles
  <2>1. f[n][v] = IF v = NoEntry THEN NoEntry ELSE Enter(v, path[n])
    OBVIOUS
  <2> QED BY <1>2, <2>1, EnterType DEF Handles
<1>4. PICK g \in [0..m -> Handles] : g[0] = dir /\ \A n \in 1..m : g[n] = f[n][g[n - 1]]
  <2>1. PICK k \in Nat : k = m
    BY <1>1
  <2>4. PICK V, step : V = Handles /\ step = f
    OBVIOUS
  <2> HIDE DEF m, f
  <2>2. dir \in V /\ step \in [1..k -> [V -> V]]
    BY <1>1, <1>3, <2>1, <2>4 DEF f
  <2>3. PICK g : IsIteration(g, V, dir, k, step)
    BY <2>2, StepByStep
  <2> QED BY <2>1, <2>3, <2>4 DEF IsIteration
<1>5. g = Steps(g)
  <2>1. ASSUME NEW n \in 0..m, n # 0
        PROVE  g[n] = IF g[n - 1] = NoEntry THEN NoEntry ELSE Enter(g[n - 1], path[n])
    <3>1. n \in 1..m /\ n - 1 \in 0..m
      BY <1>1, <2>1
    <3>2. g[n - 1] \in Handles /\ g[n] = f[n][g[n - 1]]
      BY <1>4, <3>1
    <3> HIDE DEF m
    <3> QED BY <3>1, <3>2
  <2>2. ASSUME NEW n \in 0..m PROVE g[n] = Steps(g)[n]
    <3> HIDE DEF m
    <3> QED BY <1>4, <2>1
  <2> HIDE DEF m
  <2> QED BY <1>4, <2>2
<1>6. at = Steps(at)
  <2> HIDE DEF Steps
  <2> QED BY <1>5
<1>7. Descend(dir, path) = at[m]
  BY DEF Descend
<1> HIDE DEF at
<1>8. at[0] = dir /\ \A n \in 1..m : at[n] = IF at[n - 1] = NoEntry THEN NoEntry ELSE Enter(at[n - 1], path[n])
  <2>1. 0 \in 0..m /\ \A n \in 1..m : n \in 0..m /\ n # 0
    BY <1>1
  <2> HIDE DEF m
  <2> QED BY <1>6, <2>1
<1> QED
  BY <1>7, <1>8 DEF IsDescent

LEMMA DescendInside ==
    ASSUME TreeSound, NEW dir \in Inside, NEW path \in Seq(EntryNames)
    PROVE  Descend(dir, path) \in Inside \cup {NoEntry}
<1>1. PICK at : IsDescent(at, dir, path)
  BY DescendSolves DEF Inside
<1> DEFINE V == Inside \cup {NoEntry}
<1>2. at[0] \in V
  BY <1>1 DEF IsDescent
<1>3. ASSUME NEW n \in 1..Len(path), at[n - 1] \in V PROVE at[n] \in V
  <2>1. path[n] \in EntryNames
    OBVIOUS
  <2>2. at[n] = IF at[n - 1] = NoEntry THEN NoEntry ELSE Enter(at[n - 1], path[n])
    BY <1>1 DEF IsDescent
  <2> QED BY <1>3, <2>1, <2>2, EnterInside, Zenon
<1>4. Len(path) \in Nat
  OBVIOUS
<1> HIDE DEF V
<1>5. \A n \in 0..Len(path) : at[n] \in V
  BY <1>2, <1>3, <1>4, StaysIn
<1> QED
  BY <1>1, <1>4, <1>5 DEF IsDescent, V

(* A configured path leads below "/" and stays inside.                       *)
LEMMA RootInside ==
    ASSUME TreeSound, NEW paths \in RootLists, NEW i \in DOMAIN paths
    PROVE  Descend(Top, paths[i]) \in Inside \cup {NoEntry}
<1> DEFINE V == Inside \cup {NoEntry}
<1>1. PICK path \in Seq(EntryNames) : path = paths[i]
  BY DiscoveryAssumption
<1>2. path # <<>> /\ tree[Top][Head(path)] \notin Outside \cup {Top}
  BY <1>1 DEF TreeSound
<1>3. PICK at : IsDescent(at, Top, path)
  BY DescendSolves, DiscoveryAssumption
<1>4. Len(path) \in Nat /\ Len(path) # 0 /\ Head(path) = path[1] /\ path[1] \in EntryNames
  BY <1>2
<1>5. PICK g : g = [n \in 0..(Len(path) - 1) |-> at[n + 1]]
  OBVIOUS
<1>6. at[1] \in V
  <2>1. at[1] = IF at[0] = NoEntry THEN NoEntry ELSE Enter(at[0], path[1])
    <3>1. 1 \in 1..Len(path) /\ 1 - 1 = 0
      BY <1>4
    <3> QED BY <1>3, <3>1 DEF IsDescent
  <2>2. at[0] = Top
    BY <1>3 DEF IsDescent
  <2> QED BY <1>2, <1>4, <2>1, <2>2 DEF Enter, Inside
<1>7. g[0] \in V
  <2>1. 0 \in 0..(Len(path) - 1) /\ 0 + 1 = 1
    BY <1>4
  <2> QED BY <1>5, <1>6, <2>1
<1>8. ASSUME NEW n \in 1..(Len(path) - 1), g[n - 1] \in V PROVE g[n] \in V
  <2>1. n \in 0..(Len(path) - 1) /\ n - 1 \in 0..(Len(path) - 1) /\ (n - 1) + 1 = n /\ n + 1 \in 1..Len(path)
        /\ (n + 1) - 1 = n
    BY <1>4
  <2>2. g[n] = at[n + 1] /\ g[n - 1] = at[n]
    BY <1>5, <2>1
  <2>3. at[n + 1] = IF at[n] = NoEntry THEN NoEntry ELSE Enter(at[n], path[n + 1])
    BY <1>3, <2>1 DEF IsDescent
  <2>4. path[n + 1] \in EntryNames
    BY <2>1
  <2> QED BY <1>8, <2>2, <2>3, <2>4, EnterInside, Zenon
<1>9. Len(path) - 1 \in Nat /\ Len(path) - 1 \in 0..(Len(path) - 1) /\ (Len(path) - 1) + 1 = Len(path)
  BY <1>4
<1> HIDE DEF V
<1>10. \A n \in 0..(Len(path) - 1) : g[n] \in V
  BY <1>7, <1>8, <1>9, StaysIn
<1>11. at[Len(path)] \in V
  BY <1>5, <1>9, <1>10
<1> QED
  BY <1>1, <1>3, <1>11 DEF IsDescent, V

(* The paths a root set keeps are among those configured.                    *)
LEMMA UniqueFrom ==
    ASSUME NEW paths \in Seq(Seq(EntryNames))
    PROVE  UniquePaths(paths) \in Seq({paths[j] : j \in DOMAIN paths})
<1> DEFINE m == Len(paths)
           R == {paths[j] : j \in DOMAIN paths}
           More(v, n) == IF Contains(v, paths[n]) THEN v ELSE Append(v, paths[n])
           Steps(g) == [n \in 0..m |-> IF n = 0 THEN <<>>
                           ELSE IF Contains(g[n - 1], paths[n]) THEN g[n - 1] ELSE Append(g[n - 1], paths[n])]
           f == [n \in 1..m |-> [v \in Seq(R) |-> More(v, n)]]
           kept == CHOOSE g : g = Steps(g)
<1>1. m \in Nat /\ <<>> \in Seq(R) /\ DOMAIN paths = 1..m
  OBVIOUS
<1>2. ASSUME NEW n \in 1..m, NEW v \in Seq(R) PROVE More(v, n) \in Seq(R)
  <2>1. paths[n] \in R
    BY <1>1
  <2> HIDE DEF R, m
  <2> QED BY <2>1
<1>3. PICK g \in [0..m -> Seq(R)] : g[0] = <<>> /\ \A n \in 1..m : g[n] = f[n][g[n - 1]]
  <2>1. PICK k \in Nat : k = m
    BY <1>1
  <2>4. PICK V, step, nothing : V = Seq(R) /\ step = f /\ nothing = <<>>
    OBVIOUS
  <2>2. nothing \in V /\ step \in [1..k -> [V -> V]]
    <3> HIDE DEF m, R, More
    <3> QED BY <1>1, <1>2, <2>1, <2>4
  <2>3. PICK g : IsIteration(g, V, nothing, k, step)
    BY <2>2, StepByStep
  <2> HIDE DEF m, f
  <2> QED BY <2>1, <2>3, <2>4 DEF IsIteration
<1>5. g = Steps(g)
  <2>1. ASSUME NEW n \in 0..m, n # 0
        PROVE  g[n] = More(g[n - 1], n)
    <3>1. n \in 1..m /\ n - 1 \in 0..m
      BY <1>1, <2>1
    <3>2. g[n - 1] \in Seq(R) /\ g[n] = f[n][g[n - 1]]
      BY <1>3, <3>1
    <3> HIDE DEF m, R, More
    <3> QED BY <3>1, <3>2
  <2>2. ASSUME NEW n \in 0..m PROVE g[n] = Steps(g)[n]
    <3> HIDE DEF m
    <3> QED BY <1>3, <2>1
  <2> HIDE DEF m, R
  <2> QED BY <1>3, <2>2
<1>6. kept = Steps(kept)
  <2> HIDE DEF Steps
  <2> QED BY <1>5
<1>7. UniquePaths(paths) = kept[m]
  BY DEF UniquePaths
<1> HIDE DEF kept
<1>8. kept[0] = <<>> /\ \A n \in 1..m : kept[n] = More(kept[n - 1], n)
  <2>1. 0 \in 0..m /\ \A n \in 1..m : n \in 0..m /\ n # 0
    BY <1>1
  <2> HIDE DEF m
  <2> QED BY <1>6, <2>1
<1>9. ASSUME NEW n \in 1..m, kept[n - 1] \in Seq(R) PROVE kept[n] \in Seq(R)
  <2> HIDE DEF R, m, More
  <2>1. PICK v \in Seq(R) : v = kept[n - 1]
    BY <1>9
  <2> QED BY <1>2, <1>8, <2>1
<1>10. PICK k \in Nat : k = m
  BY <1>1
<1>12. PICK V : V = Seq(R)
  OBVIOUS
<1>11. \A n \in 0..k : kept[n] \in V
  <2> HIDE DEF m, R, More
  <2>1. kept[0] \in V /\ \A n \in 1..k : kept[n - 1] \in V => kept[n] \in V
    BY <1>1, <1>8, <1>9, <1>10, <1>12
  <2> QED BY <2>1, StaysIn
<1> QED
  <2> HIDE DEF m, R
  <2>1. k \in 0..k
    OBVIOUS
  <2>2. kept[m] \in Seq(R)
    BY <1>10, <1>11, <1>12, <2>1
  <2> QED BY <1>7, <2>2 DEF R

RootsInside == [index : Nat, key : Seq(EntryNames), dir : Inside]

LEMMA RootsAreInside ==
    ASSUME TreeSound, RootsOpen, NEW i \in DOMAIN RootSet
    PROVE  RootSet[i] \in RootsInside /\ RootSet[i].index = i
<1>1. allowed \in RootLists /\ allowed \in Seq(Seq(EntryNames))
  BY DiscoveryAssumption DEF TreeSound
<1>2. PICK paths : paths = UniquePaths(allowed)
  OBVIOUS
<1>3. paths \in Seq({allowed[j] : j \in DOMAIN allowed})
  BY <1>1, <1>2, UniqueFrom
<1>4. RootSet = [k \in DOMAIN paths |-> [index |-> k, key |-> paths[k], dir |-> Descend(Top, paths[k])]]
  BY <1>2 DEF RootSet
<1>5. i \in DOMAIN paths /\ i \in Nat
  BY <1>3, <1>4
<1>6. PICK j \in DOMAIN allowed : paths[i] = allowed[j]
  BY <1>3, <1>5
<1>7. paths[i] \in Seq(EntryNames)
  BY <1>1, <1>6
<1>8. Descend(Top, paths[i]) \in Inside \cup {NoEntry}
  BY <1>1, <1>6, RootInside
<1>9. RootSet[i] = [index |-> i, key |-> paths[i], dir |-> Descend(Top, paths[i])]
  BY <1>4, <1>5
<1>10. RootSet[i].dir # NoEntry
  BY DEF RootsOpen
<1> QED
  BY <1>5, <1>7, <1>8, <1>9, <1>10 DEF RootsInside

(* The handles from a directory down a path, and the file at its end.        *)
Trail(from, path, to) ==
    \E at : /\ at[0] = from /\ at[Len(path)] = to
            /\ \A n \in 1..Len(path) : at[n] = Enter(at[n - 1], path[n]) /\ at[n] # NoEntry
Leads(from, path, file) ==
    \E at : /\ at[0] = from /\ file = OpenRelativeFile(at[Len(path) - 1], path[Len(path)])
            /\ \A n \in 1..(Len(path) - 1) : at[n] = Enter(at[n - 1], path[n]) /\ at[n] # NoEntry

LEMMA SameTree ==
    ASSUME UNCHANGED <<tree, allowed>>
    PROVE  /\ TreeSound' = TreeSound
           /\ RootSet' = RootSet /\ RootsOpen' = RootsOpen
           /\ \A from, path, to : Trail(from, path, to)' = Trail(from, path, to)
           /\ \A from, path, file : Leads(from, path, file)' = Leads(from, path, file)
<1>1. TreeSound' = TreeSound
  BY DEF TreeSound
<1>2. \A dir, name : Enter(dir, name)' = Enter(dir, name)
  BY DEF Enter
<1>3. \A dir, name : OpenRelativeFile(dir, name)' = OpenRelativeFile(dir, name)
  BY DEF OpenRelativeFile
<1>4. \A from, path, to : Trail(from, path, to)' = Trail(from, path, to)
  BY <1>2 DEF Trail
<1>5. \A from, path, file : Leads(from, path, file)' = Leads(from, path, file)
  BY <1>2, <1>3 DEF Leads
<1>6. \A dir, path : Descend(dir, path)' = Descend(dir, path)
  BY DEF Descend, Enter
<1>7. UniquePaths(allowed)' = UniquePaths(allowed)
  BY DEF UniquePaths
<1>8. RootSet' = RootSet
  BY <1>6, <1>7 DEF RootSet
<1>9. RootsOpen' = RootsOpen
  BY <1>8 DEF RootsOpen
<1> QED
  BY <1>1, <1>4, <1>5, <1>8, <1>9

(* A descent that arrives is a trail.                                        *)
LEMMA DescendTrail ==
    ASSUME TreeSound, NEW dir \in FsDirs, NEW path \in Seq(EntryNames), Descend(dir, path) # NoEntry
    PROVE  Trail(dir, path, Descend(dir, path))
<1>1. PICK at : IsDescent(at, dir, path)
  BY DescendSolves
<1>2. PICK m \in Nat : m = Len(path)
  OBVIOUS
<1>3. PICK back : back = [n \in 0..m |-> at[m - n]]
  OBVIOUS
<1>4. PICK V : V = {x \in {at[n] : n \in 0..m} : x # NoEntry}
  OBVIOUS
<1>5. back[0] \in V
  <2>1. 0 \in 0..m /\ m - 0 = m /\ m \in 0..m
    OBVIOUS
  <2>2. at[m] # NoEntry
    BY <1>1, <1>2 DEF IsDescent
  <2> QED BY <1>3, <1>4, <2>1, <2>2
<1>6. ASSUME NEW n \in 1..m, back[n - 1] \in V PROVE back[n] \in V
  <2>1. n \in 0..m /\ n - 1 \in 0..m /\ m - n \in 0..m /\ m - (n - 1) \in 1..m /\ (m - (n - 1)) - 1 = m - n
    OBVIOUS
  <2>2. back[n] = at[m - n] /\ back[n - 1] = at[m - (n - 1)]
    BY <1>3, <2>1
  <2>3. at[m - (n - 1)] # NoEntry
    BY <1>4, <1>6, <2>2
  <2>4. at[m - n] # NoEntry
    BY <1>1, <1>2, <2>1, <2>3 DEF IsDescent
  <2> QED BY <1>4, <2>1, <2>2, <2>4
<1>7. \A n \in 0..m : back[n] \in V
  BY <1>5, <1>6, StaysIn
<1>8. ASSUME NEW n \in 0..m PROVE at[n] # NoEntry
  <2>1. m - n \in 0..m /\ m - (m - n) = n
    OBVIOUS
  <2> QED BY <1>3, <1>4, <1>7, <2>1
<1>9. ASSUME NEW n \in 1..Len(path) PROVE at[n] = Enter(at[n - 1], path[n]) /\ at[n] # NoEntry
  <2>1. n \in 0..m /\ n - 1 \in 0..m
    BY <1>2
  <2> QED BY <1>1, <1>8, <2>1 DEF IsDescent
<1>10. at[0] = dir /\ at[Len(path)] = Descend(dir, path)
  BY <1>1 DEF IsDescent
<1> QED
  BY <1>9, <1>10 DEF Trail

(* One directory further, and the file behind the last one.                  *)
LEMMA TrailOn ==
    ASSUME NEW from, NEW path \in Seq(EntryNames), NEW to, Trail(from, path, to), NEW name \in EntryNames,
           Enter(to, name) # NoEntry
    PROVE  Trail(from, Append(path, name), Enter(to, name))
<1>1. PICK at : /\ at[0] = from /\ at[Len(path)] = to
                /\ \A n \in 1..Len(path) : at[n] = Enter(at[n - 1], path[n]) /\ at[n] # NoEntry
  BY DEF Trail
<1>2. PICK m \in Nat : m = Len(path)
  OBVIOUS
<1>3. PICK next : next = Enter(to, name)
  OBVIOUS
<1>4. PICK longer : longer = Append(path, name)
  OBVIOUS
<1>5. Len(longer) = m + 1 /\ longer[m + 1] = name /\ \A n \in 1..m : longer[n] = path[n]
  BY <1>2, <1>4
<1>6. PICK on : on = [n \in 0..(m + 1) |-> IF n = m + 1 THEN next ELSE at[n]]
  OBVIOUS
<1>7. on[0] = from /\ on[m + 1] = next /\ on[m] = to
  BY <1>1, <1>2, <1>6
<1>8. ASSUME NEW n \in 1..(m + 1) PROVE on[n] = Enter(on[n - 1], longer[n]) /\ on[n] # NoEntry
  <2>1. CASE n = m + 1
    <3>1. n - 1 = m
      BY <2>1
    <3> QED BY <1>3, <1>5, <1>7, <2>1, <3>1
  <2>2. CASE n # m + 1
    <3>1. n \in 1..m /\ n \in 0..(m + 1) /\ n - 1 \in 0..(m + 1) /\ n - 1 # m + 1
      BY <2>2
    <3>2. on[n] = at[n] /\ on[n - 1] = at[n - 1] /\ longer[n] = path[n]
      BY <1>5, <1>6, <2>2, <3>1
    <3> QED BY <1>1, <1>2, <3>1, <3>2
  <2> QED BY <2>1, <2>2
<1>9. Trail(from, longer, next)
  BY <1>5, <1>7, <1>8 DEF Trail
<1> QED
  BY <1>3, <1>4, <1>9

LEMMA TrailLeads ==
    ASSUME NEW from, NEW path \in Seq(EntryNames), NEW to, Trail(from, path, to), NEW name \in EntryNames
    PROVE  Leads(from, Append(path, name), OpenRelativeFile(to, name))
<1>1. PICK at : /\ at[0] = from /\ at[Len(path)] = to
                /\ \A n \in 1..Len(path) : at[n] = Enter(at[n - 1], path[n]) /\ at[n] # NoEntry
  BY DEF Trail
<1>2. PICK m \in Nat : m = Len(path)
  OBVIOUS
<1>4. PICK longer : longer = Append(path, name)
  OBVIOUS
<1>5. Len(longer) = m + 1 /\ longer[m + 1] = name /\ \A n \in 1..m : longer[n] = path[n]
  BY <1>2, <1>4
<1>6. (m + 1) - 1 = m
  OBVIOUS
<1>7. Leads(from, longer, OpenRelativeFile(to, name))
  BY <1>1, <1>2, <1>5, <1>6 DEF Leads
<1> QED
  BY <1>4, <1>7

(* The first handle of a way to a file.                                      *)
LEMMA LeadsOn ==
    ASSUME NEW from, NEW path \in Seq(EntryNames), path # <<>>, NEW file, Leads(from, path, file)
    PROVE  /\ Len(path) = 1 => file = OpenRelativeFile(from, Head(path))
           /\ Len(path) # 1 => /\ Enter(from, Head(path)) # NoEntry /\ Tail(path) # <<>>
                               /\ Leads(Enter(from, Head(path)), Tail(path), file)
<1>1. PICK at : /\ at[0] = from /\ file = OpenRelativeFile(at[Len(path) - 1], path[Len(path)])
                /\ \A n \in 1..(Len(path) - 1) : at[n] = Enter(at[n - 1], path[n]) /\ at[n] # NoEntry
  BY DEF Leads
<1>2. PICK m \in Nat : m = Len(path) /\ m # 0
  OBVIOUS
<1>3. Head(path) = path[1]
  BY <1>2
<1>4. CASE m = 1
  <2>1. m - 1 = 0
    BY <1>4
  <2> QED BY <1>1, <1>2, <1>3, <1>4, <2>1
<1>5. CASE m # 1
  <2>1. PICK rest \in Seq(EntryNames) : rest = Tail(path)
    BY HeadTailProperties
  <2>2. Len(rest) = m - 1 /\ \A n \in 1..(m - 1) : rest[n] = path[n + 1]
    BY <1>2, <2>1
  <2>3. 1 \in 1..(m - 1) /\ 1 - 1 = 0 /\ m - 1 \in 1..(m - 1) /\ (m - 1) + 1 = m
    BY <1>2, <1>5
  <2>4. at[1] = Enter(from, Head(path)) /\ at[1] # NoEntry
    BY <1>1, <1>2, <1>3, <2>3
  <2>5. PICK next : next = [n \in 0..(m - 2) |-> at[n + 1]]
    OBVIOUS
  <2>6. m - 2 \in Nat /\ 0 \in 0..(m - 2) /\ m - 2 \in 0..(m - 2) /\ (m - 1) - 1 = m - 2 /\ (m - 2) + 1 = m - 1 /\ 0 + 1 = 1
    BY <1>2, <1>5
  <2>7. next[0] = at[1] /\ next[m - 2] = at[m - 1] /\ rest[m - 1] = path[m]
    BY <2>2, <2>3, <2>5, <2>6
  <2>8. ASSUME NEW n \in 1..(m - 2) PROVE next[n] = Enter(next[n - 1], rest[n]) /\ next[n] # NoEntry
    <3>1. n \in 0..(m - 2) /\ n - 1 \in 0..(m - 2) /\ (n - 1) + 1 = n /\ n + 1 \in 1..(m - 1) /\ (n + 1) - 1 = n
          /\ n \in 1..(m - 1)
      BY <1>2, <1>5
    <3>2. next[n] = at[n + 1] /\ next[n - 1] = at[n] /\ rest[n] = path[n + 1]
      BY <2>2, <2>5, <3>1
    <3>3. at[n + 1] = Enter(at[n], path[n + 1]) /\ at[n + 1] # NoEntry
      BY <1>1, <1>2, <3>1
    <3> QED BY <3>2, <3>3
  <2>9. file = OpenRelativeFile(next[m - 2], rest[m - 1])
    BY <1>1, <1>2, <2>7
  <2>10. Leads(at[1], rest, file)
    BY <2>2, <2>6, <2>7, <2>8, <2>9 DEF Leads
  <2>11. rest # <<>>
    BY <1>2, <1>5, <2>2
  <2> QED BY <1>2, <1>5, <2>1, <2>4, <2>10, <2>11
<1> QED
  BY <1>4, <1>5

-----------------------------------------------------------------------------
(* What a walk holds lies inside, and as long as nothing has moved it is     *)
(* what the paths lead to.                                                   *)
Jobs == [root : RootsInside, path : Seq(EntryNames)]
Listed == [name : EntryNames, inode : Inodes]
Frames == [root : RootsInside, dir : Inside, path : Seq(EntryNames), left : SUBSET Listed]
Candidates == [file : FsFiles \ Outside, root : RootsInside, path : Seq(EntryNames) \ {<<>>}]
Walks == [status : {"walking", "done", "failed"}, parent : Parents, began : Nat,
          pending : SUBSET Jobs, stack : Seq(Frames), unique : SUBSET Candidates]
Assets == [id : Seq(EntryNames) \X Seq(EntryNames), container : Nat, path : Seq(EntryNames) \ {<<>>}]
Finds == [asset : Assets, file : FsFiles \ Outside, at : Nat, roots : RootLists]

CurrentRoot(root) == root.index \in DOMAIN RootSet /\ RootSet[root.index] = root
FrameFresh(frame) == CurrentRoot(frame.root) /\ Trail(frame.root.dir, frame.path, frame.dir)
CandidateFresh(c) == CurrentRoot(c.root) /\ Leads(c.root.dir, c.path, c.file)
WalkFresh ==
    /\ RootsOpen
    /\ \A job \in walk.pending : CurrentRoot(job.root)
    /\ \A i \in DOMAIN walk.stack : FrameFresh(walk.stack[i])
    /\ \A c \in walk.unique : CandidateFresh(c)
WalkInv ==
    \/ walk.status \in {"idle", "refused"}
    \/ walk \in Walks /\ walk.began <= moves /\ (walk.began = moves => WalkFresh)

FindFresh(f) ==
    /\ RootsOpen /\ f.asset.container \in DOMAIN RootSet
    /\ Leads(RootSet[f.asset.container].dir, f.asset.path, f.file)
FoundInv == \A f \in found : f \in Finds /\ f.at <= moves /\ (f.at = moves => FindFresh(f))

OpeningInv ==
    \/ opening = NoOpening
    \/ /\ opening \in [status : {"open"}, of : Finds, dir : Inside, left : Seq(EntryNames) \ {<<>>}]
       /\ opening.of.at <= moves
       /\ opening.of.at = moves => Leads(opening.dir, opening.left, opening.of.file)
OpenedInv ==
    \/ opened = [file |-> NoEntry]
    \/ /\ opened \in [of : Finds, file : (FsFiles \ Outside) \cup {NoEntry}]
       /\ opened.of.at <= moves /\ (opened.of.at = moves => opened.file = opened.of.file)

DscInv == moves \in Nat /\ TreeSound /\ WalkInv /\ FoundInv /\ OpeningInv /\ OpenedInv

LEMMA DscStart == DscInit => DscInv
<1> SUFFICES ASSUME DscInit PROVE DscInv
  OBVIOUS
<1>1. TreeSound
  <2>1. tree \in Trees /\ allowed \in RootLists
    BY DEF DscInit
  <2> QED BY <2>1, DiscoveryAssumption, OutsideAssumption DEF TreeSound, Inside, Inodes
<1> QED
  BY <1>1 DEF DscInit, DscInv, WalkInv, FoundInv, OpeningInv, OpenedInv, NoWalk, NoOpening

(* A step that leaves the file system and the configuration alone keeps what *)
(* it does not touch.                                                        *)
LEMMA DscUntouched ==
    ASSUME DscInv, UNCHANGED <<tree, allowed, moves>>
    PROVE  /\ moves' \in Nat /\ TreeSound'
           /\ UNCHANGED walk => WalkInv'
           /\ UNCHANGED found => FoundInv'
           /\ UNCHANGED opening => OpeningInv'
           /\ UNCHANGED opened => OpenedInv'
<1>1. /\ TreeSound' = TreeSound
      /\ RootSet' = RootSet /\ RootsOpen' = RootsOpen
      /\ \A from, path, to : Trail(from, path, to)' = Trail(from, path, to)
      /\ \A from, path, file : Leads(from, path, file)' = Leads(from, path, file)
  BY SameTree
<1>2. ASSUME UNCHANGED walk PROVE WalkInv'
  BY <1>1, <1>2 DEF DscInv, WalkInv, WalkFresh, CurrentRoot, FrameFresh, CandidateFresh
<1>3. ASSUME UNCHANGED found PROVE FoundInv'
  BY <1>1, <1>3 DEF DscInv, FoundInv, FindFresh
<1>4. ASSUME UNCHANGED opening PROVE OpeningInv'
  BY <1>1, <1>4 DEF DscInv, OpeningInv
<1>5. ASSUME UNCHANGED opened PROVE OpenedInv'
  BY <1>5 DEF DscInv, OpenedInv
<1> QED
  BY <1>1, <1>2, <1>3, <1>4, <1>5 DEF DscInv

(* A change outdates everything that was found before it.                    *)
LEMMA DscOutdates ==
    ASSUME DscInv, moves' = moves + 1, UNCHANGED <<walk, found, opening, opened>>
    PROVE  moves' \in Nat /\ WalkInv' /\ FoundInv' /\ OpeningInv' /\ OpenedInv'
<1>1. moves \in Nat /\ moves' \in Nat /\ \A n \in Nat : n <= moves => n <= moves' /\ n # moves'
  BY DEF DscInv
<1>2. WalkInv'
  BY <1>1 DEF DscInv, WalkInv, Walks
<1>3. FoundInv'
  BY <1>1 DEF DscInv, FoundInv, Finds
<1>4. OpeningInv'
  <2>1. ASSUME opening \in [status : {"open"}, of : Finds, dir : Inside, left : Seq(EntryNames) \ {<<>>}]
        PROVE  opening.of.at \in Nat
    BY <2>1 DEF Finds
  <2> QED BY <1>1, <2>1 DEF DscInv, OpeningInv
<1>5. OpenedInv'
  <2>1. ASSUME opened \in [of : Finds, file : (FsFiles \ Outside) \cup {NoEntry}]
        PROVE  opened.of.at \in Nat
    BY <2>1 DEF Finds
  <2> QED BY <1>1, <2>1 DEF DscInv, OpenedInv
<1> QED
  BY <1>1, <1>2, <1>3, <1>4, <1>5

LEMMA DscMove ==
    ASSUME DscInv, NEW dir \in Inside, NEW name \in EntryNames,
           NEW x \in ({NoEntry} \cup FsLinks \cup FsFiles) \ Outside, Move(dir, name, x)
    PROVE  DscInv'
<1>1. WalkInv' /\ FoundInv' /\ OpeningInv' /\ OpenedInv' /\ moves' \in Nat
  BY DscOutdates DEF Move
<1>2. dir \in FsDirs /\ dir # Top /\ x # Top /\ x \in Inodes \cup {NoEntry}
  BY DiscoveryAssumption DEF Inside, Inodes
<1>3. tree' = [tree EXCEPT ![dir][name] = x] /\ tree \in [FsDirs -> [EntryNames -> Inodes \cup {NoEntry}]]
  BY DEF Move, DscInv, TreeSound
<1>4. tree' \in [FsDirs -> [EntryNames -> Inodes \cup {NoEntry}]]
  BY <1>2, <1>3
<1>5. tree'[Top] = tree[Top]
  BY <1>2, <1>3, DiscoveryAssumption
<1>6. ASSUME NEW d \in Inside, NEW n \in EntryNames PROVE tree'[d][n] \notin Outside \cup {Top}
  <2>1. d \in FsDirs
    BY DEF Inside
  <2>2. tree'[d][n] = IF d = dir /\ n = name THEN x ELSE tree[d][n]
    BY <1>2, <1>3, <2>1
  <2> QED BY <1>2, <2>2 DEF DscInv, TreeSound
<1>7. TreeSound'
  BY <1>4, <1>5, <1>6 DEF DscInv, TreeSound, Move
<1> QED
  BY <1>1, <1>7 DEF DscInv

LEMMA DscUpdateRoots ==
    ASSUME DscInv, NEW paths \in RootLists, UpdateRoots(paths)
    PROVE  DscInv'
<1>1. WalkInv' /\ FoundInv' /\ OpeningInv' /\ OpenedInv' /\ moves' \in Nat
  BY DscOutdates DEF UpdateRoots
<1>2. TreeSound'
  BY DEF DscInv, TreeSound, UpdateRoots
<1> QED
  BY <1>1, <1>2 DEF DscInv

(* open_asset.                                                               *)
LEMMA DscBeginOpen ==
    ASSUME DscInv, NEW f \in found, BeginOpen(f)
    PROVE  DscInv'
<1>0. UNCHANGED <<tree, allowed, moves, walk, found>>
  BY DEF BeginOpen
<1>1. /\ moves' \in Nat /\ TreeSound' /\ WalkInv' /\ FoundInv'
      /\ UNCHANGED opening => OpeningInv'
      /\ UNCHANGED opened => OpenedInv'
  BY <1>0, DscUntouched
<1>2. f \in Finds /\ f.at <= moves /\ (f.at = moves => FindFresh(f))
  BY DEF DscInv, FoundInv
<1>3. CASE RootsOpen /\ f.asset.container \in DOMAIN RootSet
  <2>1. opening' = [status |-> "open", of |-> f, dir |-> RootSet[f.asset.container].dir, left |-> f.asset.path]
        /\ UNCHANGED opened
    BY <1>3 DEF BeginOpen
  <2>2. RootSet[f.asset.container].dir \in Inside
    BY <1>3, RootsAreInside DEF DscInv, RootsInside
  <2>3. f.asset.path \in Seq(EntryNames) \ {<<>>}
    BY <1>2 DEF Finds, Assets
  <2>4. \A from, path, file : Leads(from, path, file)' = Leads(from, path, file)
    BY <1>0, SameTree
  <2>5. opening' \in [status : {"open"}, of : Finds, dir : Inside, left : Seq(EntryNames) \ {<<>>}]
    BY <1>2, <2>1, <2>2, <2>3
  <2>6. f.at = moves => Leads(RootSet[f.asset.container].dir, f.asset.path, f.file)
    BY <1>2 DEF FindFresh
  <2>7. OpeningInv'
    BY <1>0, <1>2, <2>1, <2>4, <2>5, <2>6 DEF OpeningInv
  <2> QED BY <1>1, <2>1, <2>7 DEF DscInv
<1>4. CASE ~(RootsOpen /\ f.asset.container \in DOMAIN RootSet)
  <2>1. opened' = [of |-> f, file |-> NoEntry] /\ UNCHANGED opening
    BY <1>4 DEF BeginOpen
  <2>2. f.at # moves
    BY <1>2, <1>4 DEF FindFresh
  <2>3. OpenedInv'
    BY <1>0, <1>2, <2>1, <2>2 DEF OpenedInv
  <2> QED BY <1>1, <2>1, <2>3 DEF DscInv
<1> QED
  BY <1>3, <1>4

LEMMA DscOpenStep ==
    ASSUME DscInv, OpenStep
    PROVE  DscInv'
<1>0. UNCHANGED <<tree, allowed, moves, walk, found>>
  BY DEF OpenStep
<1>1. /\ moves' \in Nat /\ TreeSound' /\ WalkInv' /\ FoundInv'
      /\ UNCHANGED opening => OpeningInv'
      /\ UNCHANGED opened => OpenedInv'
  BY <1>0, DscUntouched
<1>2. /\ opening \in [status : {"open"}, of : Finds, dir : Inside, left : Seq(EntryNames) \ {<<>>}]
      /\ opening.of.at <= moves
      /\ opening.of.at = moves => Leads(opening.dir, opening.left, opening.of.file)
  BY DEF OpenStep, DscInv, OpeningInv, NoOpening
<1>3. PICK path \in Seq(EntryNames) : path = opening.left /\ path # <<>>
  BY <1>2
<1>4. PICK from \in Inside : from = opening.dir
  BY <1>2
<1>5. PICK f \in Finds : f = opening.of
  BY <1>2
<1>6. Head(path) \in EntryNames /\ Len(path) \in Nat /\ Tail(path) \in Seq(EntryNames)
  BY <1>3, HeadTailProperties
<1>7. f.at = moves => /\ Len(path) = 1 => f.file = OpenRelativeFile(from, Head(path))
                      /\ Len(path) # 1 => /\ Enter(from, Head(path)) # NoEntry /\ Tail(path) # <<>>
                                          /\ Leads(Enter(from, Head(path)), Tail(path), f.file)
  <2>1. ASSUME f.at = moves PROVE Leads(from, path, f.file)
    BY <1>2, <1>3, <1>4, <1>5, <2>1
  <2>2. PICK file : file = f.file
    OBVIOUS
  <2> QED BY <1>3, <2>1, <2>2, LeadsOn
<1>8. CASE Len(path) = 1 \/ Enter(from, Head(path)) = NoEntry
  <2>1. opening' = NoOpening
        /\ opened' = [of |-> f, file |-> IF Len(path) = 1 THEN OpenRelativeFile(from, Head(path)) ELSE NoEntry]
    BY <1>3, <1>4, <1>5, <1>8 DEF OpenStep
  <2>2. opened'.file \in (FsFiles \ Outside) \cup {NoEntry}
    BY <1>6, <2>1, FileInside DEF DscInv
  <2>3. opened' \in [of : Finds, file : (FsFiles \ Outside) \cup {NoEntry}]
    BY <1>5, <2>1, <2>2
  <2>4. opened'.of.at <= moves' /\ (opened'.of.at = moves' => opened'.file = opened'.of.file)
    BY <1>0, <1>2, <1>5, <1>7, <1>8, <2>1
  <2>5. OpenedInv' /\ OpeningInv'
    BY <2>1, <2>3, <2>4 DEF OpenedInv, OpeningInv
  <2> QED BY <1>1, <2>5 DEF DscInv
<1>9. CASE ~(Len(path) = 1 \/ Enter(from, Head(path)) = NoEntry)
  <2>1. opening' = [opening EXCEPT !.dir = Enter(from, Head(path)), !.left = Tail(path)] /\ UNCHANGED opened
    BY <1>3, <1>4, <1>9 DEF OpenStep
  <2>2. Enter(from, Head(path)) \in Inside
    BY <1>6, <1>9, EnterInside DEF DscInv
  <2>3. Tail(path) # <<>>
    <3>1. Len(Tail(path)) = Len(path) - 1 /\ Len(path) # 1
      BY <1>3, <1>9, HeadTailProperties
    <3>2. Len(path) - 1 # 0
      BY <1>6, <3>1
    <3> QED BY <3>1, <3>2
  <2>4. opening' = [status |-> "open", of |-> f, dir |-> Enter(from, Head(path)), left |-> Tail(path)]
    BY <1>2, <1>5, <2>1
  <2>5. opening' \in [status : {"open"}, of : Finds, dir : Inside, left : Seq(EntryNames) \ {<<>>}]
    BY <1>5, <1>6, <2>2, <2>3, <2>4
  <2>6. \A a, b, c : Leads(a, b, c)' = Leads(a, b, c)
    BY <1>0, SameTree
  <2>7. OpeningInv'
    BY <1>0, <1>2, <1>5, <1>7, <1>9, <2>4, <2>5, <2>6 DEF OpeningInv
  <2> QED BY <1>1, <2>1, <2>7 DEF DscInv
<1> QED
  BY <1>8, <1>9

(* discover.                                                                 *)
LEMMA JobsOfRoots ==
    ASSUME DscInv, NEW parent \in Parents, RootsOpen, ParentAccepted(parent)
    PROVE  /\ DiscoveryRoots(parent) \subseteq Jobs
           /\ \A job \in DiscoveryRoots(parent) : CurrentRoot(job.root)
<1>1. \A i \in DOMAIN RootSet : RootSet[i] \in RootsInside /\ RootSet[i].index = i
  BY RootsAreInside DEF DscInv
<1>2. parent.path \in Seq(EntryNames)
  <2>1. parent.path = <<>> \/ \E n \in EntryNames : parent.path = <<n>>
    BY DEF Parents
  <2>2. <<>> \in Seq(EntryNames) /\ \A n \in EntryNames : <<n>> \in Seq(EntryNames)
    OBVIOUS
  <2> QED BY <2>1, <2>2
<1>3. ASSUME NEW job \in DiscoveryRoots(parent)
      PROVE  \E i \in DOMAIN RootSet : job.root = RootSet[i] /\ job \in Jobs
  <2>1. CASE parent.root = 0
    <3>1. PICK i \in DOMAIN RootSet : job = [root |-> RootSet[i], path |-> <<>>]
      BY <2>1 DEF DiscoveryRoots
    <3>2. <<>> \in Seq(EntryNames)
      OBVIOUS
    <3> QED BY <1>1, <3>1, <3>2 DEF Jobs
  <2>2. CASE parent.root # 0
    <3>1. job = [root |-> RootSet[parent.root], path |-> parent.path] /\ parent.root \in DOMAIN RootSet
      BY <2>2 DEF DiscoveryRoots, ParentAccepted
    <3> QED BY <1>1, <1>2, <3>1 DEF Jobs
  <2> QED BY <2>1, <2>2
<1> QED
  BY <1>1, <1>3 DEF CurrentRoot

LEMMA DscBeginDiscovery ==
    ASSUME DscInv, NEW parent \in Parents, BeginDiscovery(parent)
    PROVE  DscInv'
<1>0. UNCHANGED <<tree, allowed, moves, found, opening, opened>>
  BY DEF BeginDiscovery
<1>1. moves' \in Nat /\ TreeSound' /\ FoundInv' /\ OpeningInv' /\ OpenedInv'
  BY <1>0, DscUntouched
<1>2. CASE RootsOpen /\ ParentAccepted(parent)
  <2>1. walk' = [status |-> "walking", parent |-> parent, began |-> moves,
                 pending |-> DiscoveryRoots(parent), stack |-> <<>>, unique |-> {}]
    BY <1>2 DEF BeginDiscovery
  <2>2. /\ DiscoveryRoots(parent) \subseteq Jobs
        /\ \A job \in DiscoveryRoots(parent) : CurrentRoot(job.root)
    BY <1>2, JobsOfRoots
  <2>3. moves \in Nat /\ <<>> \in Seq(Frames)
    BY DEF DscInv
  <2>4. walk' \in Walks
    BY <2>1, <2>2, <2>3 DEF Walks
  <2>5. RootSet' = RootSet /\ RootsOpen' = RootsOpen
    BY <1>0, SameTree
  <2>6. DOMAIN walk'.stack = {}
    BY <2>1
  <2>7. WalkFresh'
    BY <1>2, <2>1, <2>2, <2>5, <2>6 DEF WalkFresh, CurrentRoot
  <2>8. WalkInv'
    BY <1>0, <2>1, <2>3, <2>4, <2>7 DEF WalkInv
  <2> QED BY <1>1, <2>8 DEF DscInv
<1>3. CASE ~(RootsOpen /\ ParentAccepted(parent))
  BY <1>1, <1>3 DEF DscInv, BeginDiscovery, WalkInv
<1> QED
  BY <1>2, <1>3

LEMMA PushOn ==
    ASSUME NEW S, NEW x \in S, NEW s \in Seq(S)
    PROVE  /\ <<x>> \o s \in Seq(S)
           /\ \A i \in DOMAIN (<<x>> \o s) : (<<x>> \o s)[i] = x \/ \E j \in DOMAIN s : (<<x>> \o s)[i] = s[j]
<1>0. <<x>> \in Seq(S)
  OBVIOUS
<1>1. PICK one \in Seq(S) : one = <<x>>
  BY <1>0, Zenon
<1>2. Len(one) = 1 /\ one[1] = x
  BY <1>1
<1>3. one \o s \in Seq(S) /\ Len(one \o s) = 1 + Len(s)
  BY <1>2, ConcatProperties
<1>4. ASSUME NEW i \in 1..(1 + Len(s)) PROVE (one \o s)[i] = x \/ \E j \in DOMAIN s : (one \o s)[i] = s[j]
  <2>1. (one \o s)[i] = IF i <= 1 THEN one[i] ELSE s[i - 1]
    BY <1>2, <1>3, ConcatProperties
  <2>2. Len(s) \in Nat /\ DOMAIN s = 1..Len(s)
    OBVIOUS
  <2>3. i <= 1 => i = 1
    OBVIOUS
  <2>4. ~(i <= 1) => i - 1 \in 1..Len(s)
    BY <2>2
  <2> QED BY <1>2, <2>1, <2>2, <2>3, <2>4
<1>5. DOMAIN (one \o s) = 1..(1 + Len(s))
  BY <1>3
<1>6. one \o s \in Seq(S) /\ \A i \in DOMAIN (one \o s) : (one \o s)[i] = x \/ \E j \in DOMAIN s : (one \o s)[i] = s[j]
  BY <1>3, <1>4, <1>5
<1> QED
  BY <1>1, <1>6, Zenon

LEMMA TailFrom ==
    ASSUME NEW S, NEW s \in Seq(S), s # <<>>
    PROVE  Tail(s) \in Seq(S) /\ \A i \in DOMAIN Tail(s) : i + 1 \in DOMAIN s /\ Tail(s)[i] = s[i + 1]
<1>1. Tail(s) \in Seq(S) /\ Len(Tail(s)) = Len(s) - 1 /\ \A i \in 1..Len(Tail(s)) : Tail(s)[i] = s[i + 1]
  BY HeadTailProperties
<1>2. Len(s) \in Nat /\ DOMAIN s = 1..Len(s) /\ DOMAIN Tail(s) = 1..Len(Tail(s))
  BY <1>1
<1>3. \A i \in 1..(Len(s) - 1) : i + 1 \in 1..Len(s)
  BY <1>2
<1> QED
  BY <1>1, <1>2, <1>3

(* The entry is crossed off; the frames stay where they are.                 *)
SameFrames(rest, stack) ==
    \A i \in DOMAIN rest : \E j \in DOMAIN stack :
        rest[i].root = stack[j].root /\ rest[i].path = stack[j].path /\ rest[i].dir = stack[j].dir

LEMMA RestFrames ==
    ASSUME NEW stack \in Seq(Frames), stack # <<>>, NEW e
    PROVE  /\ Rest(stack, e) \in Seq(Frames)
           /\ SameFrames(Rest(stack, e), stack)
<1>1. Len(stack) \in Nat /\ Len(stack) # 0 /\ DOMAIN stack = 1..Len(stack)
  OBVIOUS
<1>2. 1 \in DOMAIN stack /\ stack[1] \in Frames
  BY <1>1
<1>3. PICK x : x = [stack[1] EXCEPT !.left = @ \ {e}]
  OBVIOUS
<1>4. x \in Frames /\ x.root = stack[1].root /\ x.path = stack[1].path /\ x.dir = stack[1].dir
  BY <1>2, <1>3 DEF Frames
<1>5. PICK rest \in Seq(Frames) : rest = Tail(stack) /\ \A i \in DOMAIN rest : i + 1 \in DOMAIN stack /\ rest[i] = stack[i + 1]
  BY TailFrom
<1>6. PICK all : all = <<x>> \o rest
  OBVIOUS
<1>7. all \in Seq(Frames) /\ \A i \in DOMAIN all : all[i] = x \/ \E j \in DOMAIN rest : all[i] = rest[j]
  BY <1>4, <1>6, PushOn
<1>8. Rest(stack, e) = all
  BY <1>3, <1>5, <1>6 DEF Rest
<1>9. ASSUME NEW i \in DOMAIN all
      PROVE  \E j \in DOMAIN stack : all[i].root = stack[j].root /\ all[i].path = stack[j].path /\ all[i].dir = stack[j].dir
  <2>1. CASE all[i] = x
    BY <1>2, <1>4, <2>1
  <2>2. ASSUME NEW j \in DOMAIN rest, all[i] = rest[j]
        PROVE  \E k \in DOMAIN stack : all[i] = stack[k]
    BY <1>5, <2>2
  <2> QED BY <1>7, <2>1, <2>2
<1> QED
  BY <1>7, <1>8, <1>9 DEF SameFrames

LEMMA DscWalkStep ==
    ASSUME DscInv, UNCHANGED <<tree, allowed, moves, found, opening, opened>>,
           walk \in Walks, walk.began <= moves, walk.began = moves => WalkFresh,
           walk' \in Walks, walk'.began = walk.began,
           WalkFresh => /\ \A job \in walk'.pending : CurrentRoot(job.root)
                        /\ \A i \in DOMAIN walk'.stack : FrameFresh(walk'.stack[i])
                        /\ \A c \in walk'.unique : CandidateFresh(c)
    PROVE  DscInv'
<1>1. moves' \in Nat /\ TreeSound' /\ FoundInv' /\ OpeningInv' /\ OpenedInv'
  BY DscUntouched
<1>2. /\ RootSet' = RootSet /\ RootsOpen' = RootsOpen
      /\ \A from, path, to : Trail(from, path, to)' = Trail(from, path, to)
      /\ \A from, path, file : Leads(from, path, file)' = Leads(from, path, file)
  BY SameTree
<1>3. ASSUME WalkFresh PROVE WalkFresh'
  <2>1. /\ RootsOpen
        /\ \A job \in walk'.pending : CurrentRoot(job.root)
        /\ \A i \in DOMAIN walk'.stack : FrameFresh(walk'.stack[i])
        /\ \A c \in walk'.unique : CandidateFresh(c)
    BY <1>3 DEF WalkFresh
  <2> QED BY <1>2, <2>1 DEF WalkFresh, CurrentRoot, FrameFresh, CandidateFresh
<1>4. WalkInv'
  BY <1>3 DEF WalkInv
<1> QED
  BY <1>1, <1>4 DEF DscInv

LEMMA DscFails ==
    ASSUME DscInv, UNCHANGED <<tree, allowed, moves, opening, opened>>, walk.status = "walking", FailWalk
    PROVE  DscInv'
<1>1. walk \in Walks /\ walk.began <= moves /\ (walk.began = moves => WalkFresh)
  BY DEF DscInv, WalkInv
<1>2. walk' \in Walks /\ walk'.began = walk.began /\ walk'.pending = walk.pending
      /\ walk'.stack = walk.stack /\ walk'.unique = walk.unique /\ UNCHANGED found
  BY <1>1 DEF FailWalk, Walks
<1>3. WalkFresh => /\ \A job \in walk'.pending : CurrentRoot(job.root)
                   /\ \A i \in DOMAIN walk'.stack : FrameFresh(walk'.stack[i])
                   /\ \A c \in walk'.unique : CandidateFresh(c)
  BY <1>2 DEF WalkFresh
<1> QED
  BY <1>1, <1>2, <1>3, DscWalkStep

LEMMA EntriesListed ==
    ASSUME TreeSound, NEW dir \in Inside
    PROVE  Entries(dir) \subseteq Listed
<1>1. ASSUME NEW n \in EntryNames, tree[dir][n] # NoEntry PROVE tree[dir][n] \in Inodes
  BY <1>1 DEF TreeSound, Inside
<1> QED
  BY <1>1 DEF Entries, Listed

LEMMA DscNextRoot ==
    ASSUME DscInv, NextRoot
    PROVE  DscInv'
<1>0. walk.status = "walking" /\ UNCHANGED <<tree, allowed, moves, opening, opened>>
  BY DEF NextRoot
<1>1. walk \in Walks /\ walk.began <= moves /\ (walk.began = moves => WalkFresh)
  BY <1>0 DEF DscInv, WalkInv
<1>2. PICK job \in walk.pending :
          LET dir == Descend(job.root.dir, job.path) IN
             \/ dir = NoEntry /\ FailWalk
             \/ /\ dir # NoEntry
                /\ walk' = [walk EXCEPT !.pending = @ \ {job},
                                        !.stack = <<WalkFrame(job.root, dir, job.path)>>]
                /\ UNCHANGED found
  BY DEF NextRoot
<1>3. PICK dir : dir = Descend(job.root.dir, job.path)
  OBVIOUS
<1>4. CASE dir = NoEntry
  BY <1>0, <1>2, <1>3, <1>4, DscFails
<1>5. CASE dir # NoEntry
  <2>1. PICK frame : frame = WalkFrame(job.root, dir, job.path)
    OBVIOUS
  <2>2. walk' = [walk EXCEPT !.pending = @ \ {job}, !.stack = <<frame>>] /\ UNCHANGED found
    BY <1>2, <1>3, <1>5, <2>1
  <2>3. job \in Jobs /\ job.root \in RootsInside /\ job.path \in Seq(EntryNames) /\ job.root.dir \in Inside
        /\ job.root.dir \in FsDirs
    BY <1>1 DEF Walks, Jobs, RootsInside, Inside
  <2>4. dir \in Inside
    BY <1>3, <1>5, <2>3, DescendInside DEF DscInv
  <2>5. frame \in Frames /\ frame.root = job.root /\ frame.path = job.path /\ frame.dir = dir
    BY <2>1, <2>3, <2>4, EntriesListed DEF WalkFrame, Frames, DscInv
  <2>6. PICK stack : stack = <<frame>>
    OBVIOUS
  <2>10. stack \in Seq(Frames) /\ DOMAIN stack = {1} /\ stack[1] = frame
    BY <2>5, <2>6
  <2>7. walk' \in Walks /\ walk'.began = walk.began /\ walk'.pending \subseteq walk.pending
        /\ walk'.stack = stack /\ walk'.unique = walk.unique
    BY <1>1, <2>2, <2>6, <2>10 DEF Walks
  <2>8. Trail(job.root.dir, job.path, dir)
    <3>1. PICK from \in FsDirs, path \in Seq(EntryNames) : from = job.root.dir /\ path = job.path
      BY <2>3
    <3> QED BY <1>3, <1>5, <3>1, DescendTrail DEF DscInv
  <2>9. ASSUME WalkFresh
        PROVE  /\ \A j \in walk'.pending : CurrentRoot(j.root)
               /\ \A i \in DOMAIN walk'.stack : FrameFresh(walk'.stack[i])
               /\ \A c \in walk'.unique : CandidateFresh(c)
    <3>1. FrameFresh(frame)
      BY <2>5, <2>8, <2>9 DEF FrameFresh, WalkFresh
    <3> QED BY <2>7, <2>9, <2>10, <3>1 DEF WalkFresh
  <2> QED BY <1>0, <1>1, <2>2, <2>7, <2>9, DscWalkStep
<1> QED
  BY <1>4, <1>5

LEMMA LongerPath ==
    ASSUME NEW path \in Seq(EntryNames), NEW name \in EntryNames
    PROVE  Append(path, name) \in Seq(EntryNames) \ {<<>>}
<1>1. Append(path, name) \in Seq(EntryNames) /\ Len(Append(path, name)) = Len(path) + 1 /\ Len(path) \in Nat
  BY AppendProperties
<1>2. Len(path) + 1 # 0
  BY <1>1
<1> QED
  BY <1>1, <1>2

(* A frame's entry is crossed off, what it held is entered or kept.          *)
LEMMA DscCrossOff ==
    ASSUME DscInv, walk.status = "walking", walk.stack # <<>>, NEW e,
           UNCHANGED <<tree, allowed, moves, found, opening, opened>>,
           walk' = [walk EXCEPT !.stack = Rest(@, e)]
    PROVE  DscInv'
<1>1. walk \in Walks /\ walk.began <= moves /\ (walk.began = moves => WalkFresh)
  BY DEF DscInv, WalkInv
<1>2. PICK stack \in Seq(Frames) : stack = walk.stack /\ stack # <<>>
  BY <1>1 DEF Walks
<1>3. PICK rest \in Seq(Frames) : rest = Rest(stack, e) /\ SameFrames(rest, stack)
  BY <1>2, RestFrames
<1>4. walk' \in Walks /\ walk'.began = walk.began /\ walk'.pending = walk.pending
      /\ walk'.stack = rest /\ walk'.unique = walk.unique
  BY <1>1, <1>2, <1>3 DEF Walks
<1>5. WalkFresh => /\ \A job \in walk'.pending : CurrentRoot(job.root)
                   /\ \A i \in DOMAIN walk'.stack : FrameFresh(walk'.stack[i])
                   /\ \A c \in walk'.unique : CandidateFresh(c)
  BY <1>2, <1>3, <1>4 DEF WalkFresh, FrameFresh, SameFrames
<1> QED
  BY <1>1, <1>4, <1>5, DscWalkStep

LEMMA DscWalkInto ==
    ASSUME DscInv, walk.status = "walking", walk.stack # <<>>,
           NEW e \in Listed, UNCHANGED <<tree, allowed, moves, opening, opened>>,
           WalkInto(Head(walk.stack), e)
    PROVE  DscInv'
<1>1. walk \in Walks /\ walk.began <= moves /\ (walk.began = moves => WalkFresh)
  BY DEF DscInv, WalkInv
<1>2. PICK stack \in Seq(Frames) : stack = walk.stack /\ stack # <<>>
  BY <1>1 DEF Walks
<1>3. PICK frame : frame = Head(walk.stack)
  OBVIOUS
<1>4. frame = stack[1] /\ 1 \in DOMAIN stack /\ frame \in Frames
  BY <1>2, <1>3
<1>5. PICK child : child = Enter(frame.dir, e.name)
  OBVIOUS
<1>6. CASE FailWalk
  BY <1>6, DscFails
<1>7. CASE walk' = [walk EXCEPT !.stack = Rest(@, e)] /\ UNCHANGED found
  BY <1>7, DscCrossOff
<1>8. CASE /\ child # NoEntry
           /\ walk' = [walk EXCEPT !.stack =
                          <<WalkFrame(frame.root, child, Append(frame.path, e.name))>> \o Rest(@, e)]
           /\ UNCHANGED found
  <2>1. frame.root \in RootsInside /\ frame.dir \in Inside /\ frame.path \in Seq(EntryNames) /\ e.name \in EntryNames
    BY <1>4 DEF Frames, Listed
  <2>2. child \in Inside
    BY <1>5, <1>8, <2>1, EnterInside DEF DscInv
  <2>3. PICK longer \in Seq(EntryNames) : longer = Append(frame.path, e.name)
    BY <2>1, LongerPath
  <2>4. PICK next : next = WalkFrame(frame.root, child, longer)
    OBVIOUS
  <2>5. next \in Frames /\ next.root = frame.root /\ next.dir = child /\ next.path = longer
    BY <2>1, <2>2, <2>3, <2>4, EntriesListed DEF WalkFrame, Frames, DscInv
  <2>6. PICK rest \in Seq(Frames) : rest = Rest(stack, e) /\ SameFrames(rest, stack)
    BY <1>2, RestFrames
  <2>7. PICK all : all = <<next>> \o rest
    OBVIOUS
  <2>8. all \in Seq(Frames) /\ \A i \in DOMAIN all : all[i] = next \/ \E j \in DOMAIN rest : all[i] = rest[j]
    BY <2>5, <2>7, PushOn
  <2>9. walk' = [walk EXCEPT !.stack = all]
    BY <1>2, <1>8, <2>3, <2>4, <2>6, <2>7
  <2>10. walk' \in Walks /\ walk'.began = walk.began /\ walk'.pending = walk.pending
         /\ walk'.stack = all /\ walk'.unique = walk.unique
    BY <1>1, <2>8, <2>9 DEF Walks
  <2>11. ASSUME WalkFresh
         PROVE  /\ \A job \in walk'.pending : CurrentRoot(job.root)
                /\ \A i \in DOMAIN walk'.stack : FrameFresh(walk'.stack[i])
                /\ \A c \in walk'.unique : CandidateFresh(c)
    <3>1. \A i \in DOMAIN stack : FrameFresh(stack[i])
      BY <1>2, <2>11 DEF WalkFresh
    <3>2. CurrentRoot(frame.root) /\ Trail(frame.root.dir, frame.path, frame.dir)
      BY <1>4, <3>1 DEF FrameFresh
    <3>3. Trail(frame.root.dir, longer, child)
      <4>1. PICK from \in Inside, path \in Seq(EntryNames), to \in Inside, name \in EntryNames :
                from = frame.root.dir /\ path = frame.path /\ to = frame.dir /\ name = e.name
        BY <2>1 DEF RootsInside
      <4>2. Trail(from, Append(path, name), Enter(to, name))
        BY <1>5, <1>8, <3>2, <4>1, TrailOn
      <4> QED BY <1>5, <2>3, <4>1, <4>2
    <3>4. FrameFresh(next)
      BY <2>5, <3>2, <3>3 DEF FrameFresh
    <3>5. \A j \in DOMAIN rest : FrameFresh(rest[j])
      BY <2>6, <3>1 DEF FrameFresh, SameFrames
    <3> QED BY <2>8, <2>10, <2>11, <3>4, <3>5 DEF WalkFresh
  <2> QED BY <1>1, <1>8, <2>10, <2>11, DscWalkStep
<1> QED
  BY <1>3, <1>5, <1>6, <1>7, <1>8 DEF WalkInto

LEMMA DscWalkFile ==
    ASSUME DscInv, walk.status = "walking", walk.stack # <<>>,
           NEW e \in Listed, UNCHANGED <<tree, allowed, moves, opening, opened>>,
           WalkFile(Head(walk.stack), e)
    PROVE  DscInv'
<1>1. walk \in Walks /\ walk.began <= moves /\ (walk.began = moves => WalkFresh)
  BY DEF DscInv, WalkInv
<1>2. PICK stack \in Seq(Frames) : stack = walk.stack /\ stack # <<>>
  BY <1>1 DEF Walks
<1>9. PICK rest \in Seq(Frames) : rest = Rest(stack, e) /\ SameFrames(rest, stack)
  BY <1>2, RestFrames
<1>3. PICK frame : frame = Head(walk.stack)
  OBVIOUS
<1>4. frame = stack[1] /\ 1 \in DOMAIN stack /\ frame \in Frames
  BY <1>2, <1>3
<1>5. PICK file : file = OpenRelativeFile(frame.dir, e.name)
  OBVIOUS
<1>6. PICK c : c = [file |-> file, root |-> frame.root, path |-> Append(frame.path, e.name)]
  OBVIOUS
<1>7. CASE FailWalk
  BY <1>7, DscFails
<1>8. CASE /\ file # NoEntry
           /\ walk' = [walk EXCEPT !.stack = Rest(@, e), !.unique = KeepUnique(walk.unique, c)]
           /\ UNCHANGED found
  <2>1. frame.root \in RootsInside /\ frame.dir \in Inside /\ frame.path \in Seq(EntryNames) /\ e.name \in EntryNames
    BY <1>4 DEF Frames, Listed
  <2>2. file \in FsFiles \ Outside
    BY <1>5, <1>8, <2>1, FileInside DEF DscInv
  <2>3. Append(frame.path, e.name) \in Seq(EntryNames) \ {<<>>}
    BY <2>1, LongerPath
  <2>4. c \in Candidates
    BY <1>6, <2>1, <2>2, <2>3 DEF Candidates
  <2>7. PICK unique : unique = KeepUnique(walk.unique, c)
    OBVIOUS
  <2>8. unique \subseteq walk.unique \cup {c} /\ walk.unique \subseteq Candidates
    BY <1>1, <2>7 DEF KeepUnique, Walks
  <2>9. walk' = [walk EXCEPT !.stack = rest, !.unique = unique]
    BY <1>2, <1>8, <1>9, <2>7
  <2>10. walk' \in Walks /\ walk'.began = walk.began /\ walk'.pending = walk.pending
         /\ walk'.stack = rest /\ walk'.unique = unique
    BY <1>1, <2>4, <2>8, <2>9 DEF Walks
  <2>11. ASSUME WalkFresh
         PROVE  /\ \A job \in walk'.pending : CurrentRoot(job.root)
                /\ \A i \in DOMAIN walk'.stack : FrameFresh(walk'.stack[i])
                /\ \A d \in walk'.unique : CandidateFresh(d)
    <3>1. \A i \in DOMAIN stack : FrameFresh(stack[i])
      BY <1>2, <2>11 DEF WalkFresh
    <3>2. CurrentRoot(frame.root) /\ Trail(frame.root.dir, frame.path, frame.dir)
      BY <1>4, <3>1 DEF FrameFresh
    <3>3. Leads(frame.root.dir, Append(frame.path, e.name), file)
      <4>1. PICK from \in Inside, path \in Seq(EntryNames), to \in Inside, name \in EntryNames :
                from = frame.root.dir /\ path = frame.path /\ to = frame.dir /\ name = e.name
        BY <2>1 DEF RootsInside
      <4>2. Leads(from, Append(path, name), OpenRelativeFile(to, name))
        BY <3>2, <4>1, TrailLeads
      <4> QED BY <1>5, <4>1, <4>2
    <3>4. CandidateFresh(c)
      BY <1>6, <3>2, <3>3 DEF CandidateFresh
    <3>5. \A j \in DOMAIN rest : FrameFresh(rest[j])
      BY <1>9, <3>1 DEF FrameFresh, SameFrames
    <3> QED BY <2>8, <2>10, <2>11, <3>4, <3>5 DEF WalkFresh
  <2> QED BY <1>1, <1>8, <2>10, <2>11, DscWalkStep
<1> QED
  BY <1>3, <1>5, <1>6, <1>7, <1>8 DEF WalkFile

LEMMA DscWalkEntry ==
    ASSUME DscInv, WalkEntry
    PROVE  DscInv'
<1>0. walk.status = "walking" /\ walk.stack # <<>> /\ UNCHANGED <<tree, allowed, moves, opening, opened>>
  BY DEF WalkEntry
<1>1. walk \in Walks /\ walk.began <= moves /\ (walk.began = moves => WalkFresh)
  BY <1>0 DEF DscInv, WalkInv
<1>2. PICK stack \in Seq(Frames) : stack = walk.stack /\ stack # <<>>
  BY <1>0, <1>1 DEF Walks
<1>3. PICK frame : frame = Head(walk.stack)
  OBVIOUS
<1>4. frame = stack[1] /\ 1 \in DOMAIN stack /\ frame \in Frames
  BY <1>2, <1>3
<1>5. CASE walk' = [walk EXCEPT !.stack = Tail(@)] /\ UNCHANGED found
  <2>1. PICK rest \in Seq(Frames) : rest = Tail(stack) /\ \A i \in DOMAIN rest : i + 1 \in DOMAIN stack /\ rest[i] = stack[i + 1]
    BY <1>2, TailFrom
  <2>2. walk' \in Walks /\ walk'.began = walk.began /\ walk'.pending = walk.pending
        /\ walk'.stack = rest /\ walk'.unique = walk.unique
    BY <1>1, <1>2, <1>5, <2>1 DEF Walks
  <2>3. WalkFresh => /\ \A job \in walk'.pending : CurrentRoot(job.root)
                     /\ \A i \in DOMAIN walk'.stack : FrameFresh(walk'.stack[i])
                     /\ \A c \in walk'.unique : CandidateFresh(c)
    BY <1>2, <2>1, <2>2 DEF WalkFresh
  <2> QED BY <1>0, <1>1, <1>5, <2>2, <2>3, DscWalkStep
<1>6. ASSUME NEW e \in frame.left,
             \/ WalkInto(frame, e)
             \/ WalkFile(frame, e)
             \/ walk' = [walk EXCEPT !.stack = Rest(@, e)] /\ UNCHANGED found
      PROVE  DscInv'
  <2>1. e \in Listed
    BY <1>4 DEF Frames
  <2>2. CASE WalkInto(frame, e)
    BY <1>0, <1>3, <2>1, <2>2, DscWalkInto
  <2>3. CASE WalkFile(frame, e)
    BY <1>0, <1>3, <2>1, <2>3, DscWalkFile
  <2>4. CASE walk' = [walk EXCEPT !.stack = Rest(@, e)] /\ UNCHANGED found
    BY <1>0, <2>4, DscCrossOff
  <2> QED BY <1>6, <2>2, <2>3, <2>4
<1> QED
  BY <1>3, <1>5, <1>6 DEF WalkEntry

LEMMA DscEndDiscovery ==
    ASSUME DscInv, EndDiscovery
    PROVE  DscInv'
<1>0. walk.status = "walking" /\ UNCHANGED <<tree, allowed, moves, opening, opened>>
  BY DEF EndDiscovery
<1>1. walk \in Walks /\ walk.began <= moves /\ (walk.began = moves => WalkFresh)
  BY <1>0 DEF DscInv, WalkInv
<1>2. moves' \in Nat /\ TreeSound' /\ OpeningInv' /\ OpenedInv'
  BY <1>0, DscUntouched
<1>3. /\ RootSet' = RootSet /\ RootsOpen' = RootsOpen
      /\ \A from, path, to : Trail(from, path, to)' = Trail(from, path, to)
      /\ \A from, path, file : Leads(from, path, file)' = Leads(from, path, file)
  BY <1>0, SameTree
<1>4. walk' \in Walks /\ walk'.began = walk.began /\ walk'.pending = walk.pending
      /\ walk'.stack = walk.stack /\ walk'.unique = walk.unique
  BY <1>1 DEF EndDiscovery, Walks
<1>5. WalkInv'
  <2>1. WalkFresh => WalkFresh'
    BY <1>3, <1>4 DEF WalkFresh, CurrentRoot, FrameFresh, CandidateFresh
  <2> QED BY <1>0, <1>1, <1>4, <2>1 DEF WalkInv
<1>6. ASSUME NEW f \in found' PROVE f \in Finds /\ f.at <= moves /\ (f.at = moves => FindFresh(f))
  <2>1. PICK c \in walk.unique : f = [asset |-> Asset(c), file |-> c.file, at |-> walk.began, roots |-> allowed]
    BY <1>6 DEF EndDiscovery
  <2>2. c \in Candidates /\ c.root \in RootsInside
    BY <1>1 DEF Walks, Candidates
  <2>3. Asset(c) \in Assets /\ Asset(c).container = c.root.index /\ Asset(c).path = c.path
    BY <2>2 DEF Asset, Assets, Candidates, RootsInside
  <2>4. f \in Finds
    BY <1>1, <2>1, <2>2, <2>3 DEF Finds, Candidates, Walks, DscInv, TreeSound
  <2>5. ASSUME f.at = moves PROVE FindFresh(f)
    BY <1>1, <2>1, <2>3, <2>5 DEF FindFresh, WalkFresh, CandidateFresh, CurrentRoot
  <2> QED BY <1>1, <2>1, <2>4, <2>5
<1>7. FoundInv'
  BY <1>0, <1>3, <1>6 DEF FoundInv, FindFresh
<1> QED
  BY <1>2, <1>5, <1>7 DEF DscInv

LEMMA DscStep == DscInv /\ [DscNext]_dscVars => DscInv'
<1> SUFFICES ASSUME DscInv, [DscNext]_dscVars PROVE DscInv'
  OBVIOUS
<1>1. ASSUME NEW parent \in Parents, BeginDiscovery(parent) PROVE DscInv'
  BY <1>1, DscBeginDiscovery
<1>2. ASSUME NextRoot PROVE DscInv'
  BY <1>2, DscNextRoot
<1>3. ASSUME WalkEntry PROVE DscInv'
  BY <1>3, DscWalkEntry
<1>4. ASSUME EndDiscovery PROVE DscInv'
  BY <1>4, DscEndDiscovery
<1>5. ASSUME NEW f \in found, BeginOpen(f) PROVE DscInv'
  BY <1>5, DscBeginOpen
<1>6. ASSUME OpenStep PROVE DscInv'
  BY <1>6, DscOpenStep
<1>7. ASSUME NEW dir \in FsDirs \ (Outside \cup {Top}), NEW name \in EntryNames,
             NEW x \in ({NoEntry} \cup FsLinks \cup FsFiles) \ Outside, Move(dir, name, x)
      PROVE  DscInv'
  BY <1>7, DscMove DEF Inside
<1>8. ASSUME NEW paths \in RootLists, UpdateRoots(paths) PROVE DscInv'
  BY <1>8, DscUpdateRoots
<1>9. CASE UNCHANGED dscVars
  <2>1. UNCHANGED <<tree, allowed, moves, walk, found, opening, opened>>
    BY <1>9 DEF dscVars
  <2> QED BY <2>1, DscUntouched DEF DscInv
<1> QED
  BY <1>1, <1>2, <1>3, <1>4, <1>5, <1>6, <1>7, <1>8, <1>9 DEF DscNext

LEMMA DscSound == DscInv => NoLinkFollowed /\ AssetsReopen
<1> SUFFICES ASSUME DscInv PROVE NoLinkFollowed /\ AssetsReopen
  OBVIOUS
<1>1. NoLinkFollowed
  BY OutsideAssumption DEF DscInv, NoLinkFollowed, FoundInv, Finds, OpeningInv, OpenedInv, NoOpening, Inside
<1>2. AssetsReopen
  BY DEF DscInv, OpenedInv, AssetsReopen
<1> QED
  BY <1>1, <1>2

(* However entries are replaced between the enumeration, the check and the   *)
(* open, no request opens what only a link leads to; and the asset of a      *)
(* connection that was not changed since is the file that was discovered,    *)
(* through the same index of the same root set (discover, open_asset).       *)
THEOREM LocalFilesKept == DscSpec => [](NoLinkFollowed /\ AssetsReopen)
<1>1. DscSpec => []DscInv
  BY DscStart, DscStep, PTL DEF DscSpec
<1> QED
  BY <1>1, DscSound, PTL

-----------------------------------------------------------------------------
(* The object store connector.                                               *)

(* FlattenSeq, sequence by sequence.                                         *)
IsFlattening(g, s) ==
    /\ g[0] = <<>>
    /\ \A i \in 1..Len(s) : g[i] = g[i - 1] \o s[i]
    /\ \A i \in 0..Len(s) : g[i] \in Seq(Tokens)
    /\ FlattenSeq(s) = g[Len(s)]
Flattening(s) == CHOOSE g : IsFlattening(g, s)

LEMMA FlattenedUpTo ==
    ASSUME NEW s, NEW m \in Nat
    PROVE  \E g : \A i \in 1..m : g[i] = IF i = 1 THEN s[i] ELSE g[i - 1] \o s[i]
<1> DEFINE Up(g, k) == \A i \in 1..k : g[i] = IF i = 1 THEN s[i] ELSE g[i - 1] \o s[i]
           S == {n \in Nat : \E g : Up(g, n)}
<1>1. 0 \in S
  OBVIOUS
<1>2. ASSUME NEW n \in S PROVE n + 1 \in S
  <2>1. PICK g : Up(g, n)
    OBVIOUS
  <2> DEFINE h == [i \in 1..(n + 1) |-> IF i = n + 1 THEN (IF i = 1 THEN s[i] ELSE g[n] \o s[i]) ELSE g[i]]
  <2>2. ASSUME NEW i \in 1..(n + 1) PROVE h[i] = IF i = 1 THEN s[i] ELSE h[i - 1] \o s[i]
    <3>1. CASE i = n + 1
      <4>1. i # 1 => i - 1 \in 1..(n + 1) /\ i - 1 # n + 1 /\ i - 1 = n
        BY <3>1
      <4> QED BY <3>1, <4>1
    <3>2. CASE i # n + 1
      <4>1. i \in 1..n /\ (i # 1 => i - 1 \in 1..(n + 1) /\ i - 1 # n + 1)
        BY <3>2
      <4> QED BY <2>1, <3>2, <4>1
    <3> QED BY <3>1, <3>2
  <2> HIDE DEF h
  <2>3. Up(h, n + 1)
    BY <2>2
  <2> QED BY <2>3
<1> HIDE DEF S
<1>3. S = Nat
  BY <1>1, <1>2, CountUp DEF S
<1> QED
  BY <1>3 DEF S

LEMMA FlattenSolves ==
    ASSUME NEW s \in Seq(Seq(Tokens)), Len(s) # 0
    PROVE  \E g : /\ \A i \in 1..Len(s) : g[i] = IF i = 1 THEN s[i] ELSE g[i - 1] \o s[i]
                  /\ FlattenSeq(s) = g[Len(s)]
<1> DEFINE Steps(g) == [i \in 1..Len(s) |-> IF i = 1 THEN s[i] ELSE g[i - 1] \o s[i]]
           flatten == CHOOSE g : g = Steps(g)
<1>1. PICK h : \A i \in 1..Len(s) : h[i] = IF i = 1 THEN s[i] ELSE h[i - 1] \o s[i]
  <2>1. Len(s) \in Nat
    OBVIOUS
  <2> QED BY <2>1, FlattenedUpTo, Zenon
<1> DEFINE k == [i \in 1..Len(s) |-> h[i]]
<1>2. k = Steps(k)
  <2>1. ASSUME NEW i \in 1..Len(s) PROVE k[i] = Steps(k)[i]
    <3>1. i # 1 => i - 1 \in 1..Len(s)
      OBVIOUS
    <3> QED BY <1>1, <3>1
  <2> QED BY <2>1
<1>3. flatten = Steps(flatten)
  <2> HIDE DEF k, Steps
  <2> QED BY <1>2
<1>4. FlattenSeq(s) = flatten[Len(s)]
  BY DEF FlattenSeq
<1> HIDE DEF flatten
<1>5. \A i \in 1..Len(s) : flatten[i] = IF i = 1 THEN s[i] ELSE flatten[i - 1] \o s[i]
  BY <1>3
<1> QED
  BY <1>4, <1>5

LEMMA FlattenStepwise ==
    ASSUME NEW s \in Seq(Seq(Tokens))
    PROVE  IsFlattening(Flattening(s), s)
<1> SUFFICES \E g : IsFlattening(g, s)
  BY DEF Flattening
<1>1. CASE Len(s) = 0
  <2> DEFINE g == [i \in {0} |-> <<>>]
  <2>1. s = <<>> /\ FlattenSeq(s) = s
    BY <1>1 DEF FlattenSeq
  <2>2. g[0] = <<>> /\ <<>> \in Seq(Tokens)
    OBVIOUS
  <2>4. /\ \A i \in 1..Len(s) : FALSE
        /\ \A i \in 0..Len(s) : i = 0
    BY <1>1
  <2> HIDE DEF g
  <2>3. IsFlattening(g, s)
    BY <1>1, <2>1, <2>2, <2>4, Zenon DEF IsFlattening
  <2> QED BY <2>3
<1>2. CASE Len(s) # 0
  <2>1. PICK h : /\ \A i \in 1..Len(s) : h[i] = IF i = 1 THEN s[i] ELSE h[i - 1] \o s[i]
                 /\ FlattenSeq(s) = h[Len(s)]
    BY <1>2, FlattenSolves
  <2> DEFINE g == [i \in 0..Len(s) |-> IF i = 0 THEN <<>> ELSE h[i]]
  <2>2. Len(s) \in Nat /\ \A i \in 1..Len(s) : s[i] \in Seq(Tokens)
    OBVIOUS
  <2>3. g[0] = <<>> /\ FlattenSeq(s) = g[Len(s)]
    BY <1>2, <2>1, <2>2
  <2>4. ASSUME NEW i \in 1..Len(s) PROVE g[i] = g[i - 1] \o s[i]
    <3>1. CASE i = 1
      <4>1. h[i] = s[i] /\ g[i - 1] = <<>> /\ g[i] = h[i] /\ i \in 0..Len(s)
        BY <2>1, <3>1
      <4>2. <<>> \o s[i] = s[i]
        BY <2>2, ConcatEmptySeq
      <4> QED BY <4>1, <4>2
    <3>2. CASE i # 1
      <4>1. i - 1 \in 1..Len(s) /\ i - 1 \in 0..Len(s) /\ i \in 0..Len(s) /\ i - 1 # 0 /\ i # 0
        BY <3>2
      <4> QED BY <2>1, <3>2, <4>1
    <3> QED BY <3>1, <3>2
  <2> HIDE DEF g
  <2> DEFINE S == {n \in Nat : n <= Len(s) => g[n] \in Seq(Tokens)}
  <2>5. 0 \in S
    <3>1. <<>> \in Seq(Tokens)
      OBVIOUS
    <3> QED BY <2>3, <3>1
  <2>6. ASSUME NEW n \in S PROVE n + 1 \in S
    <3>1. n + 1 \in Nat /\ (n + 1) - 1 = n
      OBVIOUS
    <3>2. ASSUME n + 1 <= Len(s) PROVE g[n + 1] \in Seq(Tokens)
      <4>1. n + 1 \in 1..Len(s) /\ n <= Len(s)
        BY <2>2, <3>1, <3>2
      <4>2. g[n + 1] = g[n] \o s[n + 1]
        BY <2>4, <3>1, <4>1
      <4>3. g[n] \in Seq(Tokens) /\ s[n + 1] \in Seq(Tokens)
        BY <2>2, <4>1
      <4> QED BY <4>2, <4>3, ConcatProperties
    <3> QED BY <3>1, <3>2
  <2> HIDE DEF S
  <2>7. S = Nat
    BY <2>5, <2>6, CountUp DEF S
  <2>8. \A i \in 0..Len(s) : g[i] \in Seq(Tokens)
    BY <2>2, <2>7 DEF S
  <2>9. IsFlattening(g, s)
    BY <2>3, <2>4, <2>8 DEF IsFlattening
  <2> QED BY <2>9
<1> QED
  BY <1>1, <1>2

(* The text of records is a sequence of tokens.                              *)
LEMMA TextType ==
    ASSUME NEW format, NEW records \in RecordLists
    PROVE  Text(format, records) \in Seq(Tokens)
<1>1. records \in Seq(Seq(Tokens))
  <2>1. PICK n \in 0..MaxRecords : records \in [1..n -> TextRecords]
    BY DEF RecordLists
  <2>2. n \in Nat
    BY ObjectAssumption
  <2>3. records \in [1..n -> Seq(Tokens)]
    BY <2>1, ObjectAssumption
  <2> QED BY <2>2, <2>3
<1>6. /\ <<"open">> \in Seq(Tokens) /\ <<"close">> \in Seq(Tokens)
      /\ <<"comma">> \in Seq(Tokens)
  <2>1. \A k \in Tokens : <<k>> \in Seq(Tokens)
    OBVIOUS
  <2>2. "open" \in Tokens /\ "close" \in Tokens /\ "comma" \in Tokens
    BY DEF Tokens
  <2> QED BY <2>1, <2>2, Zenon
<1>2. ASSUME NEW s \in Seq(Seq(Tokens)) PROVE FlattenSeq(s) \in Seq(Tokens)
  <2>1. IsFlattening(Flattening(s), s)
    BY FlattenStepwise
  <2>2. Len(s) \in 0..Len(s)
    OBVIOUS
  <2> QED BY <2>1, <2>2 DEF IsFlattening
<1> DEFINE parts == [i \in DOMAIN records |-> IF i = 1 THEN records[i] ELSE <<"comma">> \o records[i]]
<1>3. parts \in Seq(Seq(Tokens))
  <2>1. DOMAIN records = 1..Len(records) /\ Len(records) \in Nat
    BY <1>1
  <2>2. ASSUME NEW i \in DOMAIN records PROVE parts[i] \in Seq(Tokens)
    <3>1. records[i] \in Seq(Tokens)
      BY <1>1
    <3> QED BY <1>6, <3>1, ConcatProperties
  <2> QED BY <2>1, <2>2
<1> HIDE DEF parts
<1>4. FlattenSeq(parts) \in Seq(Tokens) /\ FlattenSeq(records) \in Seq(Tokens)
  BY <1>1, <1>2, <1>3
<1>5. Text(format, records) = IF format # "array" THEN FlattenSeq(records)
                              ELSE <<"open">> \o FlattenSeq(parts) \o <<"close">>
  BY DEF Text, parts
<1>8. CASE format # "array"
  BY <1>4, <1>5, <1>8
<1>9. CASE format = "array"
  <2>1. Text(format, records) = <<"open">> \o FlattenSeq(parts) \o <<"close">>
    BY <1>5, <1>9
  <2>2. PICK flat \in Seq(Tokens) : flat = FlattenSeq(parts)
    BY <1>4
  <2>3. PICK opening_ \in Seq(Tokens), closing \in Seq(Tokens) : opening_ = <<"open">> /\ closing = <<"close">>
    BY <1>6
  <2>4. opening_ \o flat \o closing \in Seq(Tokens)
    OBVIOUS
  <2> QED BY <2>1, <2>2, <2>3, <2>4
<1> QED
  BY <1>8, <1>9

(* What the answers so far say of the object the head described: the bytes   *)
(* come from it, in the order and the number asked for.                      *)
ReadFields == {"op", "phase", "expected", "got", "from", "body", "left", "cut"}
FromExpected == identity # "mtime" => ask.from \subseteq {ask.expected.id}
RangesAsked ==
    \/ /\ ask.op = "parquet"
       /\ \/ ask.left = <<2, ask.expected.size>> \/ ask.left = <<ask.expected.size>>
          \/ ask.left = <<>> /\ Len(ask.got) = ask.expected.size
    \/ /\ ask.op = "preview"
       /\ \/ ask.left = <<PreviewBytes>> /\ ask.got = <<>>
          \/ ask.left = <<>> /\ (ask.expected.size <= PreviewBytes => Len(ask.got) = ask.expected.size)
ReadingInv ==
    /\ DOMAIN ask = ReadFields /\ ask.op \in {"read", "preview", "parquet"}
    /\ ask.phase \in {"head", "get", "stream", "ranges", "reading", "done", "failed", "dropped"}
    /\ ask.expected.size \in Nat
    /\ ask.phase \in {"head", "get", "stream", "ranges"} =>
          ask.got \in Seq(Tokens) /\ FromExpected /\ ask.cut = FALSE
    /\ ask.phase \in {"head", "get"} => ask.got = <<>> /\ ask.from = {}
    /\ ask.phase = "stream" =>
          ask.body.bytes \in Seq(Tokens) /\ (identity # "mtime" => ask.body.id = ask.expected.id)
    /\ ask.phase = "ranges" => RangesAsked
    /\ ask.phase \in {"reading", "done"} =>
          FromExpected /\ (~ask.cut => Len(ask.got) = ask.expected.size)

(* What an upload has sent, and what it may leave behind at each step.       *)
UploadFields == {"op", "phase", "body", "left", "sent", "buffered", "aborts", "installed", "info"}
SentSoFar ==
    \E n \in 0..Len(ask.body) :
        /\ ask.sent = Flattening(ask.body)[n]
        /\ ask.phase \in {"create", "body"} => ask.left = SubSeq(ask.body, n + 1, Len(ask.body))
        /\ ask.phase \in {"abortEmpty", "putEmpty", "complete", "check", "done"} => n = Len(ask.body)
UploadInv ==
    /\ DOMAIN ask = UploadFields /\ ask.op = "upload" /\ ask.body \in Bodies
    /\ ask.phase \in {"create", "body", "abort", "abortEmpty", "putEmpty", "complete", "check", "done", "failed"}
    /\ SentSoFar
    /\ ask.phase = "create" => session = "none" /\ ask.sent = <<>>
    /\ ask.phase \in {"create", "body", "complete"} => ask.aborts = 0
    /\ ask.phase = "abort" => ask.aborts = 1
    /\ ask.phase \in {"abortEmpty", "putEmpty"} => ask.sent = <<>>
    /\ ask.phase = "check" => ask.installed > 0 /\ (session = "completed" \/ ask.sent = <<>>)
    /\ ask.phase = "done" => ask.installed > 0 /\ ask.info.size = Len(ask.sent)
    /\ ask.phase = "failed" /\ session = "open" => ask.aborts = 1 \/ ask.sent = <<>>

OaInv ==
    /\ writes \in Nat /\ object.bytes \in Seq(Tokens) /\ identity \in IdentityKinds
    /\ ask = NoAsk \/ ReadingInv \/ UploadInv
    /\ ask.phase \in {"idle", "failed", "done", "dropped"} \/ ask.op = "upload" => staged = "none"

LEMMA OaStart == OaInit => OaInv
<1> SUFFICES ASSUME OaInit PROVE OaInv
  OBVIOUS
<1>1. PICK records \in RecordLists :
          object = [id |-> 1, stamp |-> 1, bytes |-> Text(objectKind, records), records |-> records]
  BY DEF OaInit
<1>2. object.bytes \in Seq(Tokens)
  BY <1>1, TextType
<1> QED
  BY <1>2 DEF OaInit, OaInv

(* A step that does not touch the request, of another client.                *)
LEMMA OaOverwrite ==
    ASSUME OaInv, NEW records \in RecordLists, NEW tick, Overwrite(records, tick)
    PROVE  OaInv'
<1>1. object'.bytes \in Seq(Tokens)
  BY TextType DEF Overwrite
<1>2. writes' \in Nat /\ ask' = ask /\ staged' = staged /\ session' = session /\ identity' = identity
  BY DEF Overwrite, Keep, OaInv
<1>3. ReadingInv => ReadingInv'
  BY <1>2 DEF ReadingInv, FromExpected, RangesAsked
<1>4. UploadInv => UploadInv'
  BY <1>2 DEF UploadInv, SentSoFar
<1> QED
  BY <1>1, <1>2, <1>3, <1>4 DEF OaInv

(* A request that begins, and one that ends without an answer.               *)
LEMMA OaBegin ==
    ASSUME OaInv, NEW op \in {"read", "preview", "parquet"}, Begin(op)
    PROVE  OaInv'
<1>1. DOMAIN ask' = ReadFields /\ ask'.op = op /\ ask'.phase = "head" /\ ask'.got = <<>> /\ ask'.from = {}
      /\ ask'.cut = FALSE /\ ask'.expected = Info(NoObject)
  BY DEF Begin, ReadFields
<1>2. ask'.expected.size \in Nat
  BY <1>1 DEF Info, NoObject
<1>3. <<>> \in Seq(Tokens)
  OBVIOUS
<1>4. ReadingInv'
  BY <1>1, <1>2, <1>3 DEF ReadingInv, FromExpected, RangesAsked
<1> QED
  BY <1>1, <1>4 DEF OaInv, Begin, Store, Keep

LEMMA OaEnd ==
    ASSUME OaInv, ReadingInv, NEW result \in {"failed", "dropped"}, End(result), Keep, UNCHANGED Store
    PROVE  OaInv'
<1>1. /\ DOMAIN ask' = ReadFields /\ ask'.op = ask.op /\ ask'.phase = result /\ ask'.expected = ask.expected
  BY DEF End, ReadingInv, ReadFields
<1>2. ReadingInv'
  BY <1>1 DEF ReadingInv
<1> QED
  BY <1>1, <1>2 DEF OaInv, End, Store, Keep

LEMMA OaReads ==
    ASSUME OaInv, ask.phase \in {"head", "get", "stream", "ranges", "reading"}
    PROVE  ReadingInv
  BY DEF OaInv, UploadInv, NoAsk

LEMMA OaHead ==
    ASSUME OaInv, Head_
    PROVE  OaInv'
<1>1. ReadingInv
  BY OaReads DEF Head_
<1>2. CASE object.id = 0 \/ Len(object.bytes) > ObjectLimit
  BY <1>1, <1>2, OaEnd DEF Head_
<1>3. CASE ~(object.id = 0 \/ Len(object.bytes) > ObjectLimit)
  <2>1. /\ DOMAIN ask' = ReadFields /\ ask'.op = ask.op /\ ask'.expected = Info(object) /\ ask'.got = ask.got
        /\ ask'.from = ask.from /\ ask'.cut = ask.cut /\ ask'.phase = (IF ask.op = "read" THEN "get" ELSE "ranges")
        /\ ask'.left = (CASE ask.op = "preview" /\ object.bytes # <<>> -> <<PreviewBytes>>
                          [] ask.op = "parquet" -> <<2, Len(object.bytes)>>
                          [] OTHER -> <<>>)
    BY <1>1, <1>3 DEF Head_, ReadingInv, ReadFields
  <2>2. ask'.expected.size = Len(object.bytes) /\ Len(object.bytes) \in Nat
    BY <2>1 DEF Info, OaInv
  <2>3. ask.from = {} /\ ask.got = <<>> /\ ask.cut = FALSE /\ ask.got \in Seq(Tokens)
    BY <1>1 DEF Head_, ReadingInv
  <2>4. ask'.phase = "ranges" => RangesAsked'
    <3> SUFFICES ASSUME ask.op # "read" PROVE RangesAsked'
      BY <2>1
    <3>1. CASE ask.op = "parquet"
      BY <2>1, <2>2, <3>1 DEF RangesAsked
    <3>2. CASE ask.op = "preview"
      <4>1. CASE object.bytes # <<>>
        BY <2>1, <2>3, <3>2, <4>1 DEF RangesAsked
      <4>2. CASE object.bytes = <<>>
        <5>1. ask'.left = <<>> /\ Len(ask'.got) = 0 /\ ask'.expected.size = 0
          BY <2>1, <2>2, <2>3, <3>2, <4>2
        <5> QED BY <2>1, <3>2, <5>1 DEF RangesAsked
      <4> QED BY <4>1, <4>2
    <3> QED BY <1>1, <3>1, <3>2 DEF ReadingInv
  <2>5. ReadingInv'
    BY <1>1, <2>1, <2>2, <2>3, <2>4 DEF ReadingInv, FromExpected
  <2> QED BY <1>3, <2>1, <2>5 DEF OaInv, Head_, Store, Keep
<1> QED
  BY <1>2, <1>3

(* A store that tells versions answers for the object the head described.    *)
LEMMA SameIsOne ==
    ASSUME OaInv, SameObject(ask.expected, object), identity # "mtime"
    PROVE  object.id = ask.expected.id
  BY ObjectAssumption DEF OaInv, SameObject

LEMMA OaGet ==
    ASSUME OaInv, Get
    PROVE  OaInv'
<1>1. ReadingInv
  BY OaReads DEF Get
<1>2. CASE object.id = 0 \/ ~SameObject(ask.expected, object)
  BY <1>1, <1>2, OaEnd DEF Get
<1>3. CASE ~(object.id = 0 \/ ~SameObject(ask.expected, object))
  <2>1. /\ DOMAIN ask' = ReadFields /\ ask'.op = ask.op /\ ask'.expected = ask.expected /\ ask'.got = ask.got
        /\ ask'.from = ask.from /\ ask'.cut = ask.cut /\ ask'.phase = "stream" /\ ask'.body = object
    BY <1>1, <1>3 DEF Get, ReadingInv, ReadFields
  <2>2. identity # "mtime" => object.id = ask.expected.id
    BY <1>3, SameIsOne
  <2>3. ReadingInv'
    BY <1>1, <2>1, <2>2 DEF ReadingInv, FromExpected, Get, Keep, OaInv
  <2> QED BY <1>3, <2>1, <2>3 DEF OaInv, Get, Store, Keep
<1> QED
  BY <1>2, <1>3

LEMMA OaChunk ==
    ASSUME OaInv, NEW n \in 1..2, StreamChunk(n)
    PROVE  OaInv'
<1>1. ReadingInv /\ ask.phase = "stream"
  BY OaReads DEF StreamChunk
<1>2. CASE Len(ask.got) + n > ask.expected.size
  BY <1>1, <1>2, OaEnd DEF StreamChunk
<1>3. CASE ~(Len(ask.got) + n > ask.expected.size)
  <2>1. /\ DOMAIN ask' = ReadFields /\ ask'.op = ask.op /\ ask'.expected = ask.expected
        /\ ask'.got = SubSeq(ask.body.bytes, 1, Len(ask.got) + n) /\ ask'.body = ask.body
        /\ ask'.from = ask.from \cup {ask.body.id} /\ ask'.cut = ask.cut /\ ask'.phase = "stream"
    BY <1>1, <1>3 DEF StreamChunk, ReadingInv, ReadFields
  <2>2. ask'.got \in Seq(Tokens)
    <3>1. Len(ask.got) \in Nat /\ ask.body.bytes \in Seq(Tokens)
      BY <1>1 DEF ReadingInv
    <3>2. Len(ask.got) + n \in 0..Len(ask.body.bytes)
      BY <3>1 DEF StreamChunk
    <3> QED BY <2>1, <3>1, <3>2
  <2>3. ReadingInv'
    BY <1>1, <2>1, <2>2 DEF ReadingInv, FromExpected, StreamChunk, Keep
  <2> QED BY <1>3, <2>1, <2>3 DEF OaInv, StreamChunk, Store, Keep
<1> QED
  BY <1>2, <1>3

LEMMA OaStreamEnd ==
    ASSUME OaInv, StreamEnd
    PROVE  OaInv'
<1>1. ReadingInv /\ ask.phase = "stream"
  BY OaReads DEF StreamEnd
<1>2. CASE ~StreamWhole
  BY <1>1, <1>2, OaEnd DEF StreamEnd
<1>3. CASE StreamWhole
  <2>1. /\ DOMAIN ask' = ReadFields /\ ask'.op = ask.op /\ ask'.expected = ask.expected /\ ask'.got = ask.got
        /\ ask'.from = ask.from /\ ask'.cut = ask.cut /\ ask'.phase = "reading"
    BY <1>1, <1>3 DEF StreamEnd, ReadingInv, ReadFields
  <2>2. ReadingInv'
    BY <1>1, <1>3, <2>1 DEF ReadingInv, FromExpected, StreamEnd, StreamWhole, Keep
  <2> QED BY <1>3, <2>1, <2>2 DEF OaInv, StreamEnd, Store, Keep
<1> QED
  BY <1>2, <1>3

LEMMA MinOfTwo ==
    ASSUME NEW x \in Nat, NEW y \in Nat
    PROVE  Min({x, y}) = IF x <= y THEN x ELSE y
<1>1. PICK m \in {x, y} : m = IF x <= y THEN x ELSE y
  OBVIOUS
<1>2. \A k \in {x, y} : m <= k
  BY <1>1
<1>3. \A k \in {x, y} : (\A l \in {x, y} : k <= l) => k = m
  BY <1>1
<1> QED
  BY <1>1, <1>2, <1>3 DEF Min

LEMMA OaRange ==
    ASSUME OaInv, GetRange
    PROVE  OaInv'
<1>1. ReadingInv /\ ask.phase = "ranges" /\ RangesAsked /\ ask.left # <<>>
  BY OaReads DEF GetRange, ReadingInv
<1> DEFINE until == Min({Head(ask.left), ask.expected.size})
           fails == \/ ~RangeValid(Len(ask.got), until)
                    \/ object.id = 0 \/ ~SameObject(ask.expected, object) \/ until > Len(object.bytes)
<1>2. CASE fails
  BY <1>1, <1>2, OaEnd DEF GetRange
<1>3. CASE ~fails
  <2>1. /\ DOMAIN ask' = ReadFields /\ ask'.op = ask.op /\ ask'.expected = ask.expected
        /\ ask'.got = ask.got \o SubSeq(object.bytes, Len(ask.got) + 1, until)
        /\ ask'.from = ask.from \cup {object.id} /\ ask'.cut = ask.cut /\ ask'.phase = "ranges"
        /\ ask'.left = Tail(ask.left)
    BY <1>1, <1>3 DEF GetRange, ReadingInv, ReadFields
  <2>2. identity # "mtime" => object.id = ask.expected.id
    BY <1>3, SameIsOne
  <2>3. PICK first \in Nat : Head(ask.left) = first
    BY <1>1, ObjectAssumption DEF RangesAsked, ReadingInv
  <2>4. PICK u \in Nat : u = until /\ u = IF first <= ask.expected.size THEN first ELSE ask.expected.size
    BY <1>1, <2>3, MinOfTwo DEF ReadingInv
  <2>5. object.bytes \in Seq(Tokens) /\ ask.got \in Seq(Tokens)
    BY <1>1 DEF OaInv, ReadingInv
  <2>6. Len(ask.got) < u /\ u <= Len(object.bytes)
    BY <1>3, <2>4, <2>5 DEF RangeValid
  <2> HIDE DEF until, fails
  <2>7. ask'.got \in Seq(Tokens) /\ Len(ask'.got) = u
    <3>1. PICK piece : piece = SubSeq(object.bytes, Len(ask.got) + 1, u)
      OBVIOUS
    <3>2. piece \in Seq(Tokens) /\ Len(piece) = u - Len(ask.got)
      <4>1. PICK from \in 1..(Len(object.bytes) + 1) : from = Len(ask.got) + 1
        BY <2>5, <2>6
      <4>2. PICK bytes \in Seq(Tokens) : bytes = object.bytes
        BY <2>5
      <4>3. \A i \in from..u : i \in 1..Len(bytes)
        BY <2>6, <4>1, <4>2
      <4>4. SubSeq(bytes, from, u) \in Seq(Tokens) /\ Len(SubSeq(bytes, from, u)) = u - from + 1
        <5>1. from \in 1..(u + 1) /\ u \in (from - 1)..Len(bytes)
          BY <2>5, <2>6, <4>1, <4>2
        <5> QED BY <5>1, SubSeqProperties
      <4>5. piece = SubSeq(bytes, from, u)
        BY <3>1, <4>1, <4>2, Zenon
      <4>6. u - from + 1 = u - Len(ask.got)
        BY <2>5, <4>1
      <4> QED BY <4>4, <4>5, <4>6
    <3>3. ask'.got = ask.got \o piece
      BY <2>1, <2>4, <3>1
    <3> QED BY <2>5, <2>6, <3>2, <3>3
  <2>8. RangesAsked'
    <3>1. CASE ask.op = "parquet" /\ ask.left = <<2, ask.expected.size>>
      <4>1. ask'.left = <<ask.expected.size>>
        BY <2>1, <3>1
      <4> QED BY <2>1, <3>1, <4>1 DEF RangesAsked
    <3>2. CASE ask.op = "parquet" /\ ask.left = <<ask.expected.size>>
      <4>1. ask'.left = <<>> /\ first = ask.expected.size
        BY <2>1, <2>3, <3>2
      <4>2. u = ask.expected.size
        BY <2>4, <4>1
      <4> QED BY <2>1, <2>7, <3>2, <4>1, <4>2 DEF RangesAsked
    <3>3. CASE ask.op = "preview" /\ ask.left = <<PreviewBytes>>
      <4>1. ask'.left = <<>> /\ first = PreviewBytes
        BY <2>1, <2>3, <3>3
      <4>2. ask.expected.size <= PreviewBytes => u = ask.expected.size
        BY <1>1, <2>4, <4>1 DEF ReadingInv
      <4> QED BY <2>1, <2>7, <3>3, <4>1, <4>2 DEF RangesAsked
    <3> QED BY <1>1, <3>1, <3>2, <3>3 DEF RangesAsked
  <2>9. ReadingInv'
    BY <1>1, <2>1, <2>2, <2>7, <2>8 DEF ReadingInv, FromExpected, GetRange, Keep
  <2> QED BY <1>3, <2>1, <2>9 DEF OaInv, GetRange, Store, Keep, fails, until
<1> QED
  BY <1>2, <1>3

LEMMA OaRangesDone ==
    ASSUME OaInv, RangesDone
    PROVE  OaInv'
<1>1. ReadingInv /\ ask.phase = "ranges" /\ ask.op = "parquet" /\ RangesAsked
  BY OaReads DEF RangesDone, ReadingInv
<1>2. /\ DOMAIN ask' = ReadFields /\ ask'.op = ask.op /\ ask'.expected = ask.expected /\ ask'.got = ask.got
      /\ ask'.from = ask.from /\ ask'.cut = ask.cut /\ ask'.phase = "reading"
  BY <1>1 DEF RangesDone, ReadingInv, ReadFields
<1>3. Len(ask.got) = ask.expected.size
  <2>1. ask.left = <<>> /\ <<2, ask.expected.size>> # <<>> /\ <<ask.expected.size>> # <<>>
    BY DEF RangesDone
  <2> QED BY <1>1, <2>1 DEF RangesAsked
<1>4. ReadingInv'
  BY <1>1, <1>2, <1>3 DEF ReadingInv, FromExpected, RangesDone, Keep
<1> QED
  BY <1>2, <1>4 DEF OaInv, RangesDone, Keep

LEMMA OaPreview ==
    ASSUME OaInv, StagePreview
    PROVE  OaInv'
<1>1. ReadingInv /\ ask.phase = "ranges" /\ ask.op = "preview" /\ RangesAsked /\ ask.left = <<>>
  BY OaReads DEF StagePreview, ReadingInv
<1>2. ask.expected.size <= PreviewBytes => Len(ask.got) = ask.expected.size
  <2>1. <<PreviewBytes>> # <<>>
    OBVIOUS
  <2> QED BY <1>1, <2>1 DEF RangesAsked
<1> DEFINE cut == ask.expected.size > PreviewBytes
           text == IF cut THEN ClosedText(objectKind, ask.got) ELSE ask.got
<1>3. CASE cut /\ text = <<>>
  BY <1>1, <1>3, OaEnd DEF StagePreview
<1>4. CASE ~(cut /\ text = <<>>)
  <2>1. /\ ask' = [ask EXCEPT !.phase = "reading", !.got = text, !.cut = cut]
        /\ staged' = "present" /\ Keep /\ UNCHANGED Store
    BY <1>4, Zenon DEF StagePreview
  <2> HIDE DEF text
  <2>2. /\ DOMAIN ask' = ReadFields /\ ask'.op = ask.op /\ ask'.expected = ask.expected /\ ask'.got = text
        /\ ask'.from = ask.from /\ ask'.cut = cut /\ ask'.phase = "reading"
    BY <1>1, <2>1 DEF ReadingInv, ReadFields
  <2>3. ~ask'.cut => Len(ask'.got) = ask'.expected.size
    <3> SUFFICES ASSUME ~cut PROVE Len(ask'.got) = ask'.expected.size
      BY <2>2
    <3>1. ask.expected.size <= PreviewBytes
      BY <1>1, ObjectAssumption DEF ReadingInv
    <3> QED BY <1>2, <2>2, <3>1 DEF text
  <2>4. ReadingInv'
    BY <1>1, <2>1, <2>2, <2>3 DEF ReadingInv, FromExpected, Keep
  <2> QED BY <1>1, <2>1, <2>2, <2>4 DEF OaInv, Store, Keep
<1> QED
  BY <1>3, <1>4

LEMMA OaFinish ==
    ASSUME OaInv, Finish \/ Drop
    PROVE  OaInv'
<1>1. ReadingInv
  BY OaReads DEF Finish, Drop
<1>2. CASE Drop
  BY <1>1, <1>2, OaEnd DEF Drop
<1>3. CASE Finish
  <2>1. /\ DOMAIN ask' = ReadFields /\ ask'.op = ask.op /\ ask'.expected = ask.expected /\ ask'.got = ask.got
        /\ ask'.from = ask.from /\ ask'.cut = ask.cut /\ ask'.phase = "done" /\ ask.phase = "reading"
    BY <1>1, <1>3 DEF Finish, End, ReadingInv, ReadFields
  <2>2. ReadingInv'
    BY <1>1, <1>3, <2>1 DEF ReadingInv, FromExpected, Finish, Keep
  <2> QED BY <1>3, <2>1, <2>2 DEF OaInv, Finish, End, Store, Keep
<1> QED
  BY <1>2, <1>3

-----------------------------------------------------------------------------
(* Uploads.                                                                  *)

LEMMA OaUploads ==
    ASSUME OaInv, ask.phase \in {"create", "body", "abort", "abortEmpty", "putEmpty", "complete", "check"}
    PROVE  UploadInv /\ staged = "none"
  BY DEF OaInv, ReadingInv, UploadInv, NoAsk

LEMMA OaUploadKeeps ==
    ASSUME OaInv, staged = "none", UNCHANGED <<staged, identity>>,
           writes' \in Nat, object'.bytes \in Seq(Tokens), UploadInv'
    PROVE  OaInv'
  BY DEF OaInv

Whole == {"abortEmpty", "putEmpty", "complete", "check", "done"}

(* What was sent stays sent.                                                 *)
LEMMA SentKept ==
    ASSUME SentSoFar, ask'.body = ask.body, ask'.sent = ask.sent, ask'.left = ask.left,
           ask'.phase \in {"create", "body"} => ask.phase \in {"create", "body"},
           ask'.phase \in Whole => ask.phase \in Whole
    PROVE  SentSoFar'
  BY DEF SentSoFar, Whole

LEMMA BodyType ==
    ASSUME NEW body \in Bodies
    PROVE  body \in Seq(Seq(Tokens)) /\ Len(body) \in Nat /\ IsFlattening(Flattening(body), body)
  BY ObjectAssumption, FlattenStepwise

LEMMA OaBeginUpload ==
    ASSUME OaInv, NEW body \in Bodies, BeginUpload(body)
    PROVE  OaInv'
<1>1. /\ DOMAIN ask' = UploadFields /\ ask'.op = "upload" /\ ask'.phase = "create" /\ ask'.body = body
      /\ ask'.left = body /\ ask'.sent = <<>> /\ ask'.aborts = 0
  BY DEF BeginUpload, UploadFields
<1>2. staged = "none" /\ UNCHANGED <<staged, identity, writes, object, session>> /\ session = "none"
  BY DEF OaInv, BeginUpload, Keep
<1>3. SentSoFar'
  <2>1. body \in Seq(Seq(Tokens)) /\ Len(body) \in Nat /\ IsFlattening(Flattening(body), body)
    BY BodyType
  <2>2. PICK n \in 0..Len(body) : n = 0
    BY <2>1
  <2>3. Flattening(body)[n] = <<>>
    BY <2>1, <2>2 DEF IsFlattening
  <2>4. body = SubSeq(body, n + 1, Len(body))
    BY <2>1, <2>2
  <2> QED BY <1>1, <2>3, <2>4 DEF SentSoFar
<1>4. UploadInv'
  BY <1>1, <1>2, <1>3 DEF UploadInv
<1> QED
  BY <1>2, <1>4, OaUploadKeeps DEF OaInv

LEMMA OaCreate ==
    ASSUME OaInv, CreateUpload
    PROVE  OaInv'
<1>1. UploadInv /\ staged = "none" /\ ask.phase = "create"
  BY OaUploads DEF CreateUpload
<1>2. /\ DOMAIN ask' = UploadFields /\ ask'.op = ask.op /\ ask'.body = ask.body /\ ask'.left = ask.left
      /\ ask'.sent = ask.sent /\ ask'.aborts = ask.aborts /\ ask'.phase \in {"body", "failed"}
  BY <1>1 DEF CreateUpload, UploadFails, UploadInv, UploadFields
<1>3. SentSoFar'
  BY <1>1, <1>2, SentKept DEF UploadInv, Whole
<1>4. UploadInv'
  BY <1>1, <1>2, <1>3 DEF UploadInv
<1> QED
  BY <1>1, <1>4, OaUploadKeeps DEF OaInv, CreateUpload, Keep

LEMMA SuffixOfSeq ==
    ASSUME NEW s \in Seq(Seq(Tokens)), NEW k \in 1..(Len(s) + 1)
    PROVE  /\ SubSeq(s, k, Len(s)) \in Seq(Seq(Tokens))
           /\ Len(SubSeq(s, k, Len(s))) = Len(s) - k + 1
           /\ \A i \in 1..(Len(s) - k + 1) : SubSeq(s, k, Len(s))[i] = s[k + i - 1]
<1>1. Len(s) \in Nat /\ \A i \in 1..Len(s) : s[i] \in Seq(Tokens)
  OBVIOUS
<1>2. PICK n \in Nat : n = Len(s)
  BY <1>1
<1>3. k \in Int /\ n \in Int /\ (\A i \in k..n : s[i] \in Seq(Tokens)) /\ (~(k <= n) => n - k + 1 = 0)
  BY <1>1, <1>2
<1>4. /\ SubSeq(s, k, n) \in Seq(Seq(Tokens))
      /\ Len(SubSeq(s, k, n)) = IF k <= n THEN n - k + 1 ELSE 0
      /\ \A i \in 1..n - k + 1 : SubSeq(s, k, n)[i] = s[k + i - 1]
  BY <1>3, SubSeqProperties
<1> QED
  BY <1>2, <1>3, <1>4

LEMMA RestOfSeq ==
    ASSUME NEW s \in Seq(Seq(Tokens)), NEW k \in 1..Len(s)
    PROVE  /\ Head(SubSeq(s, k, Len(s))) = s[k]
           /\ Tail(SubSeq(s, k, Len(s))) = SubSeq(s, k + 1, Len(s))
<1>1. PICK t \in Seq(Seq(Tokens)) : t = SubSeq(s, k, Len(s))
  <2>1. k \in 1..(Len(s) + 1)
    OBVIOUS
  <2> QED BY <2>1, SuffixOfSeq
<1>2. Len(t) = Len(s) - k + 1 /\ \A i \in 1..Len(t) : t[i] = s[k + i - 1]
  <2>1. k \in 1..(Len(s) + 1)
    OBVIOUS
  <2> QED BY <1>1, <2>1, SuffixOfSeq
<1>3. t # <<>> /\ Head(t) = t[1] /\ t[1] = s[k]
  BY <1>2
<1>4. Tail(t) \in Seq(Seq(Tokens)) /\ Len(Tail(t)) = Len(s) - k
      /\ \A i \in 1..(Len(s) - k) : Tail(t)[i] = s[k + i]
  BY <1>2, <1>3
<1>5. PICK j \in 1..(Len(s) + 1) : j = k + 1
  OBVIOUS
<1>8. PICK u \in Seq(Seq(Tokens)) : u = SubSeq(s, j, Len(s))
  BY SuffixOfSeq
<1>6. Len(u) = Len(s) - k /\ \A i \in 1..(Len(s) - k) : u[i] = s[k + i]
  <2>1. Len(u) = Len(s) - j + 1 /\ \A i \in 1..(Len(s) - j + 1) : u[i] = s[j + i - 1]
    BY <1>8, SuffixOfSeq
  <2>2. Len(s) - j + 1 = Len(s) - k /\ \A i \in Nat : j + i - 1 = k + i
    BY <1>5
  <2>3. ASSUME NEW i \in 1..(Len(s) - k) PROVE u[i] = s[k + i]
    <3>1. i \in 1..(Len(s) - j + 1) /\ j + i - 1 = k + i
      BY <2>2
    <3>2. u[i] = s[j + i - 1]
      BY <2>1, <3>1
    <3> QED BY <3>1, <3>2
  <2>4. Len(u) = Len(s) - k
    BY <2>1, <2>2
  <2> QED BY <2>3, <2>4
<1>7. Tail(t) = u
  BY <1>4, <1>6, SeqEqual
<1> QED
  BY <1>1, <1>3, <1>5, <1>7, <1>8

LEMMA OaSend ==
    ASSUME OaInv, SendChunk
    PROVE  OaInv'
<1>1. UploadInv /\ staged = "none" /\ ask.phase = "body" /\ ask.left # <<>>
  BY OaUploads DEF SendChunk
<1>2. UNCHANGED <<object, writes, session, staged, identity>>
  BY DEF SendChunk, Keep
<1>3. CASE AbortFirst("abort")
  <2>1. /\ DOMAIN ask' = UploadFields /\ ask'.op = ask.op /\ ask'.body = ask.body /\ ask'.left = ask.left
        /\ ask'.sent = ask.sent /\ ask'.aborts = ask.aborts + 1 /\ ask'.phase = "abort"
    BY <1>1, <1>3 DEF AbortFirst, UploadInv, UploadFields
  <2>2. SentSoFar'
    BY <1>1, <2>1, SentKept DEF UploadInv, Whole
  <2>3. UploadInv'
    BY <1>1, <2>1, <2>2 DEF UploadInv
  <2> QED BY <1>1, <1>2, <2>3, OaUploadKeeps DEF OaInv
<1>4. CASE ~AbortFirst("abort")
  <2>1. /\ DOMAIN ask' = UploadFields /\ ask'.op = ask.op /\ ask'.body = ask.body /\ ask'.left = Tail(ask.left)
        /\ ask'.sent = ask.sent \o Head(ask.left) /\ ask'.aborts = ask.aborts /\ ask'.phase = "body"
    BY <1>1, <1>4 DEF SendChunk, UploadInv, UploadFields
  <2>2. SentSoFar'
    <3>1. PICK n \in 0..Len(ask.body) : /\ ask.sent = Flattening(ask.body)[n]
                                        /\ ask.left = SubSeq(ask.body, n + 1, Len(ask.body))
      BY <1>1 DEF UploadInv, SentSoFar
    <3>2. PICK body \in Bodies : body = ask.body
      BY <1>1 DEF UploadInv
    <3>3. body \in Seq(Seq(Tokens)) /\ Len(body) \in Nat /\ IsFlattening(Flattening(body), body)
      BY BodyType
    <3>4. n # Len(body) /\ n \in Nat
      <4>1. n = Len(body) => ask.left = <<>>
        BY <3>1, <3>2, <3>3
      <4> QED BY <1>1, <3>1, <3>2, <3>3, <4>1
    <3>5. PICK k \in 1..Len(body) : k = n + 1 /\ k - 1 = n
      BY <3>1, <3>2, <3>3, <3>4
    <3>6. Head(ask.left) = body[k] /\ Tail(ask.left) = SubSeq(body, k + 1, Len(body))
      BY <3>1, <3>2, <3>3, <3>5, RestOfSeq
    <3>7. Flattening(body)[k] = ask.sent \o body[k]
      BY <3>1, <3>2, <3>3, <3>5 DEF IsFlattening
    <3>8. k \in 0..Len(body)
      BY <3>3
    <3> QED BY <2>1, <3>2, <3>6, <3>7, <3>8 DEF SentSoFar
  <2>3. UploadInv'
    BY <1>1, <1>2, <2>1, <2>2 DEF UploadInv
  <2> QED BY <1>1, <1>2, <2>3, OaUploadKeeps DEF OaInv
<1> QED
  BY <1>3, <1>4

LEMMA OaAbort ==
    ASSUME OaInv, Abort
    PROVE  OaInv'
<1>1. UploadInv /\ staged = "none" /\ ask.phase \in {"abort", "abortEmpty"}
  BY OaUploads DEF Abort
<1>2. /\ DOMAIN ask' = UploadFields /\ ask'.op = ask.op /\ ask'.body = ask.body /\ ask'.left = ask.left
      /\ ask'.sent = ask.sent /\ ask'.aborts = ask.aborts
      /\ ask'.phase = IF ask.phase = "abort" THEN "failed" ELSE "putEmpty"
  BY <1>1 DEF Abort, UploadInv, UploadFields
<1>3. SentSoFar'
  BY <1>1, <1>2, SentKept DEF UploadInv, Whole
<1>4. UploadInv'
  BY <1>1, <1>2, <1>3 DEF UploadInv
<1> QED
  BY <1>1, <1>4, OaUploadKeeps DEF OaInv, Abort, Keep

LEMMA OaEndBody ==
    ASSUME OaInv, EndBody
    PROVE  OaInv'
<1>1. UploadInv /\ staged = "none" /\ ask.phase = "body" /\ ask.left = <<>>
  BY OaUploads DEF EndBody
<1>2. UNCHANGED <<object, writes, session, staged, identity>>
  BY DEF EndBody, Keep
<1>3. /\ DOMAIN ask' = UploadFields /\ ask'.op = ask.op /\ ask'.body = ask.body /\ ask'.left = ask.left
      /\ ask'.sent = ask.sent
      /\ \/ ask'.phase = "complete" /\ ask'.aborts = ask.aborts
         \/ ask'.phase = "abort" /\ ask'.aborts = ask.aborts + 1
         \/ ask'.phase = "abortEmpty" /\ ask.sent = <<>>
  BY <1>1 DEF EndBody, AbortFirst, UploadInv, UploadFields
<1>4. SentSoFar'
  <2>1. PICK n \in 0..Len(ask.body) : /\ ask.sent = Flattening(ask.body)[n]
                                      /\ ask.left = SubSeq(ask.body, n + 1, Len(ask.body))
    BY <1>1 DEF UploadInv, SentSoFar
  <2>2. n = Len(ask.body)
    <3>1. PICK body \in Bodies : body = ask.body
      BY <1>1 DEF UploadInv
    <3>2. body \in Seq(Seq(Tokens)) /\ Len(body) \in Nat
      BY BodyType
    <3>3. ASSUME n # Len(body) PROVE FALSE
      <4>1. n + 1 \in 1..Len(body)
        BY <2>1, <3>1, <3>2, <3>3
      <4>2. PICK t \in Seq(Seq(Tokens)) : t = SubSeq(body, n + 1, Len(body)) /\ Len(t) = Len(body) - n
        <5>1. PICK j \in 1..(Len(body) + 1) : j = n + 1
          BY <3>2, <4>1
        <5>2. Len(body) - j + 1 = Len(body) - n
          BY <2>1, <3>2, <5>1
        <5> QED BY <3>2, <5>1, <5>2, SuffixOfSeq
      <4>3. Len(t) # 0 /\ t = <<>>
        BY <1>1, <2>1, <3>1, <3>2, <4>1, <4>2
      <4> QED BY <4>3
    <3> QED BY <3>1, <3>3
  <2> QED BY <1>3, <2>1, <2>2 DEF SentSoFar
<1>5. UploadInv'
  BY <1>1, <1>2, <1>3, <1>4 DEF UploadInv
<1> QED
  BY <1>1, <1>2, <1>5, OaUploadKeeps DEF OaInv

LEMMA InstallsBytes ==
    ASSUME OaInv, NEW bytes \in Seq(Tokens), Install(bytes)
    PROVE  writes' \in Nat /\ writes + 1 > 0 /\ object'.bytes \in Seq(Tokens)
  BY DEF OaInv, Install

LEMMA OaComplete ==
    ASSUME OaInv, Complete
    PROVE  OaInv'
<1>1. UploadInv /\ staged = "none" /\ ask.phase = "complete"
  BY OaUploads DEF Complete
<1>2. UNCHANGED <<staged, identity>>
  BY DEF Complete, Keep
<1>3. ask.sent \in Seq(Tokens)
  <2>1. PICK n \in 0..Len(ask.body) : ask.sent = Flattening(ask.body)[n]
    BY <1>1 DEF UploadInv, SentSoFar
  <2> QED BY <1>1, <2>1, BodyType DEF UploadInv, IsFlattening
<1>4. CASE AbortFirst("abort") /\ UNCHANGED <<object, clock, writes, session>>
  <2>1. /\ DOMAIN ask' = UploadFields /\ ask'.op = ask.op /\ ask'.body = ask.body /\ ask'.left = ask.left
        /\ ask'.sent = ask.sent /\ ask'.aborts = ask.aborts + 1 /\ ask'.phase = "abort"
    BY <1>1, <1>4 DEF AbortFirst, UploadInv, UploadFields
  <2>2. SentSoFar'
    BY <1>1, <2>1, SentKept DEF UploadInv, Whole
  <2>3. UploadInv'
    BY <1>1, <1>4, <2>1, <2>2 DEF UploadInv
  <2> QED BY <1>1, <1>2, <1>4, <2>3, OaUploadKeeps DEF OaInv
<1>5. CASE ~(AbortFirst("abort") /\ UNCHANGED <<object, clock, writes, session>>)
  <2>1. Install(ask.sent) /\ session' = "completed"
    BY <1>5 DEF Complete
  <2>2. writes' \in Nat /\ writes + 1 > 0 /\ object'.bytes \in Seq(Tokens)
    BY <1>3, <2>1, InstallsBytes
  <2>3. /\ DOMAIN ask' = UploadFields /\ ask'.op = ask.op /\ ask'.body = ask.body /\ ask'.left = ask.left
        /\ ask'.sent = ask.sent
        /\ \/ ask'.phase = "check" /\ ask'.installed = writes + 1
           \/ ask'.phase = "abort" /\ ask'.aborts = ask.aborts + 1
    BY <1>1, <1>5 DEF Complete, UploadInv, UploadFields
  <2>4. SentSoFar'
    BY <1>1, <2>3, SentKept DEF UploadInv, Whole
  <2>5. UploadInv'
    BY <1>1, <2>1, <2>2, <2>3, <2>4 DEF UploadInv
  <2> QED BY <1>1, <1>2, <2>2, <2>5, OaUploadKeeps
<1> QED
  BY <1>4, <1>5

LEMMA OaPutEmpty ==
    ASSUME OaInv, PutEmpty
    PROVE  OaInv'
<1>1. UploadInv /\ staged = "none" /\ ask.phase = "putEmpty"
  BY OaUploads DEF PutEmpty
<1>2. UNCHANGED <<staged, identity, session>>
  BY DEF PutEmpty, Keep
<1>3. writes' \in Nat /\ writes + 1 > 0 /\ object'.bytes \in Seq(Tokens)
  <2>1. <<>> \in Seq(Tokens)
    OBVIOUS
  <2>2. Install(<<>>) => writes' \in Nat /\ object'.bytes \in Seq(Tokens)
    BY <2>1, InstallsBytes
  <2>3. Install(<<>>) \/ UNCHANGED <<object, writes>>
    BY DEF PutEmpty
  <2> QED BY <2>2, <2>3 DEF OaInv
<1>4. /\ DOMAIN ask' = UploadFields /\ ask'.op = ask.op /\ ask'.body = ask.body /\ ask'.left = ask.left
      /\ ask'.sent = ask.sent
      /\ \/ ask'.phase = "check" /\ ask'.installed = writes + 1
         \/ ask'.phase = "failed"
  BY <1>1 DEF PutEmpty, UploadFails, UploadInv, UploadFields
<1>5. SentSoFar'
  BY <1>1, <1>4, SentKept DEF UploadInv, Whole
<1>6. UploadInv'
  BY <1>1, <1>3, <1>4, <1>5 DEF UploadInv
<1> QED
  BY <1>1, <1>2, <1>3, <1>6, OaUploadKeeps

LEMMA OaCheck ==
    ASSUME OaInv, CheckUpload
    PROVE  OaInv'
<1>1. UploadInv /\ staged = "none" /\ ask.phase = "check"
  BY OaUploads DEF CheckUpload
<1>2. UNCHANGED <<object, writes, session, staged, identity>>
  BY DEF CheckUpload, Keep
<1>3. /\ DOMAIN ask' = UploadFields /\ ask'.op = ask.op /\ ask'.body = ask.body /\ ask'.left = ask.left
      /\ ask'.sent = ask.sent /\ ask'.installed = ask.installed
      /\ \/ ask'.phase = "failed"
         \/ ask'.phase = "done" /\ ask'.info = Info(object) /\ SizeChecked(Len(object.bytes))
  BY <1>1 DEF CheckUpload, UploadFails, UploadInv, UploadFields
<1>4. ask'.phase = "done" => ask'.info.size = Len(ask'.sent)
  BY <1>3 DEF Info, SizeChecked
<1>5. SentSoFar'
  BY <1>1, <1>3, SentKept DEF UploadInv, Whole
<1>6. UploadInv'
  BY <1>1, <1>2, <1>3, <1>4, <1>5 DEF UploadInv
<1> QED
  BY <1>1, <1>2, <1>6, OaUploadKeeps DEF OaInv

LEMMA OaInductive == OaInv /\ [OaNext]_oaVars => OaInv'
<1> SUFFICES ASSUME OaInv, [OaNext]_oaVars PROVE OaInv'
  OBVIOUS
<1>1. CASE UNCHANGED oaVars
  <2>1. UNCHANGED <<object, identity, writes, session, ask, staged>>
    BY <1>1 DEF oaVars
  <2> QED BY <2>1 DEF OaInv, ReadingInv, FromExpected, RangesAsked, UploadInv, SentSoFar
<1>2. CASE \E op \in {"read", "preview", "parquet"} : Begin(op)
  BY <1>2, OaBegin
<1>3. CASE Head_ \/ Get \/ StreamEnd \/ GetRange \/ RangesDone \/ StagePreview \/ Finish \/ Drop
  BY <1>3, OaHead, OaGet, OaStreamEnd, OaRange, OaRangesDone, OaPreview, OaFinish
<1>4. CASE \E n \in 1..2 : StreamChunk(n)
  BY <1>4, OaChunk
<1>5. CASE \E body \in Bodies : BeginUpload(body)
  BY <1>5, OaBeginUpload
<1>6. CASE CreateUpload \/ SendChunk \/ Abort \/ EndBody \/ Complete \/ PutEmpty \/ CheckUpload
  BY <1>6, OaCreate, OaSend, OaAbort, OaEndBody, OaComplete, OaPutEmpty, OaCheck
<1>7. CASE \E records \in RecordLists, tick \in 0..1 :
               Len(records) <= 1 /\ Fits(objectKind, records) /\ Overwrite(records, tick)
  BY <1>7, OaOverwrite
<1> QED
  BY <1>1, <1>2, <1>3, <1>4, <1>5, <1>6, <1>7 DEF OaNext

(* However often the object is overwritten and wherever a call is cut off:   *)
(* bytes handed on were read whole and from the object the head described,   *)
(* the temporary directory goes with the request, and an upload answers      *)
(* success only for its whole body (access.rs, staged.rs).                   *)
THEOREM ObjectsKept == OaSpec => [](OneObject /\ StagingRemoved /\ UploadHonest)
<1>1. OaInit => OaInv
  BY OaStart
<1>2. OaInv /\ [OaNext]_oaVars => OaInv'
  BY OaInductive
<1>3. OaInv => OneObject /\ StagingRemoved /\ UploadHonest
  <2> SUFFICES ASSUME OaInv PROVE OneObject /\ StagingRemoved /\ UploadHonest
    OBVIOUS
  <2>1. OneObject
    BY DEF OaInv, ReadingInv, UploadInv, FromExpected, OneObject, Answered, NoAsk
  <2>2. StagingRemoved
    BY DEF OaInv, StagingRemoved
  <2>3. ASSUME ask.op = "upload", ask.phase = "done" PROVE ask.sent = FlattenSeq(ask.body)
    <3>1. UploadInv
      BY <2>3 DEF OaInv, ReadingInv, NoAsk
    <3>2. ask.sent = Flattening(ask.body)[Len(ask.body)]
      BY <2>3, <3>1 DEF UploadInv, SentSoFar
    <3> QED BY <3>1, <3>2, BodyType DEF UploadInv, IsFlattening
  <2>4. UploadHonest
    BY <2>3 DEF OaInv, ReadingInv, UploadInv, UploadHonest, NoAsk
  <2> QED BY <2>1, <2>2, <2>4
<1> QED
  BY <1>1, <1>2, <1>3, PTL DEF OaSpec

-----------------------------------------------------------------------------
(* Both connectors, for every file system, object and interleaving: what is  *)
(* opened lies inside the roots and is what was discovered, what is handed   *)
(* on is whole and from one object, nothing staged is left behind, and no    *)
(* upload reports what it has not stored.                                    *)
THEOREM SourcesStayKept == ConnectorSpec => []SourcesKept
<1>1. DscSpec => [](NoLinkFollowed /\ AssetsReopen)
  BY LocalFilesKept
<1>2. OaSpec => [](OneObject /\ StagingRemoved /\ UploadHonest)
  BY ObjectsKept
<1>3. (NoLinkFollowed /\ AssetsReopen) /\ (OneObject /\ StagingRemoved /\ UploadHonest) => SourcesKept
  BY DEF SourcesKept
<1> QED
  BY <1>1, <1>2, <1>3, PTL DEF ConnectorSpec
=============================================================================
