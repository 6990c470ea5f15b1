-------------------------- MODULE SourceDiscovery --------------------------
(***************************************************************************)
(* Discovery and opening of local files under the allowed roots of a       *)
(* Source connection (stillflow-connector-local-tabular, path.rs; the      *)
(* workbook connector carries the same code).  A discovery walks the roots *)
(* through directory handles, one entry at a time, while the user's file   *)
(* system goes on changing; the asset it returns names a root by its       *)
(* index and a path below it, and is opened by later requests.             *)
(*                                                                         *)
(* The file system is a graph of inodes: a directory maps names to inodes, *)
(* a handle is an inode.  Names are numbers, their order is the order the  *)
(* entries are sorted in.                                                  *)
(***************************************************************************)
EXTENDS Integers, Sequences, FiniteSets, SequencesExt

CONSTANTS
    Top,            \* the inode of "/"
    FsDirs,         \* the inodes of directories, Top included
    FsFiles,        \* the inodes of regular files
    FsLinks,        \* the inodes of symbolic links
    Target,         \* what each link points at
    NoEntry,        \* a name that is not taken
    Outside,        \* inodes that only links lead to from an allowed root
    Trees,          \* the file systems a behaviour may start from
    EntryNames,     \* a finite set of numbers
    Supported,      \* the names with the suffix of a supported format
    RootLists,      \* the values of allowedRoots: sequences of paths
    MaxDepth,       \* maxDiscoveryDepth
    MaxAssets,      \* maxDiscoveredAssets
    MaxMoves,       \* bound: changes to the file system
    MaxRequests     \* bound: discoveries and opens

ASSUME DiscoveryAssumption ==
    /\ EntryNames \subseteq Nat /\ Supported \subseteq EntryNames
    /\ Top \in FsDirs /\ Target \in [FsLinks -> FsDirs \cup FsFiles]
    /\ MaxDepth \in Nat /\ MaxAssets \in Nat
    /\ Trees \subseteq [FsDirs -> [EntryNames -> FsDirs \cup FsFiles \cup FsLinks \cup {NoEntry}]]
    /\ RootLists \subseteq Seq(Seq(EntryNames))
    /\ FsDirs \cap (FsFiles \cup FsLinks \cup {NoEntry}) = {} /\ NoEntry \notin FsFiles

(* A root is a path below "/" that does not lead outside, and no directory *)
(* inside holds an entry for what is outside, or for "/".                  *)
ASSUME OutsideAssumption ==
    /\ NoEntry \notin Outside
    /\ \A t \in Trees : \A dir \in FsDirs \ (Outside \cup {Top}), name \in EntryNames :
          t[dir][name] \notin Outside \cup {Top}
    /\ \A t \in Trees : \A paths \in RootLists : \A i \in DOMAIN paths :
          paths[i] # <<>> /\ t[Top][Head(paths[i])] \notin Outside \cup {Top}

VARIABLES
    tree,       \* [FsDirs -> [EntryNames -> inode or NoEntry]]
    allowed,    \* allowedRoots of the connection
    walk,       \* the discovery under way, or the last one
    found,      \* the assets of the last discovery that succeeded
    opening,    \* the open_asset under way
    opened,     \* what open_asset last returned
    moves, requests

dscVars == <<tree, allowed, walk, found, opening, opened, moves, requests>>

Inodes == FsDirs \cup FsFiles \cup FsLinks
NoWalk == [status |-> "idle"]
NoOpening == [status |-> "idle"]

-----------------------------------------------------------------------------
(* Handles.  open_dir_nofollow and an open with FollowSymlinks::No refuse  *)
(* a link, and answer for the directory whose handle is held, wherever it  *)
(* has been moved.                                                         *)

\* The bug NoLinkFollowed is there for: a path opened the ordinary way.
EnterFollowing(dir, name) ==
    LET x == tree[dir][name] IN
    IF x \in FsLinks /\ Target[x] \in FsDirs THEN Target[x]
    ELSE IF x \in FsDirs THEN x ELSE NoEntry

Enter(dir, name) == IF tree[dir][name] \in FsDirs THEN tree[dir][name] ELSE NoEntry

Descend(dir, path) ==
    LET at[n \in 0..Len(path)] ==
            IF n = 0 THEN dir
            ELSE IF at[n - 1] = NoEntry THEN NoEntry ELSE Enter(at[n - 1], path[n])
    IN  at[Len(path)]

OpenRelativeFile(dir, name) ==
    IF tree[dir][name] \in FsFiles THEN tree[dir][name] ELSE NoEntry

(* RootSet::open: a configured path that was seen before is dropped, and   *)
(* the index of a root is its place among those that remain.               *)
UniquePaths(paths) ==
    LET kept[n \in 0..Len(paths)] ==
            IF n = 0 THEN <<>>
            ELSE IF Contains(kept[n - 1], paths[n]) THEN kept[n - 1] ELSE Append(kept[n - 1], paths[n])
    IN  kept[Len(paths)]

RootSet ==
    LET paths == UniquePaths(allowed) IN
    [i \in DOMAIN paths |-> [index |-> i, key |-> paths[i], dir |-> Descend(Top, paths[i])]]

RootsOpen == \A i \in DOMAIN RootSet : RootSet[i].dir # NoEntry

-----------------------------------------------------------------------------
(* RootSet::discover *)

(* discovery_roots: every root, or the directory a parent path names.      *)
DiscoveryRoots(parent) ==
    IF parent.root = 0
    THEN {[root |-> RootSet[i], path |-> <<>>] : i \in DOMAIN RootSet}
    ELSE {[root |-> RootSet[parent.root], path |-> parent.path]}

ParentAccepted(parent) ==
    parent.root # 0 => parent.root \in DOMAIN RootSet /\ Len(parent.path) <= MaxDepth

(* The most specific root first, so that its candidate is the one kept.    *)
WalkedBefore(a, b) ==
    \/ Len(a.root.key) > Len(b.root.key)
    \/ Len(a.root.key) = Len(b.root.key) /\ a.root.index < b.root.index

(* The entries as they were read, walked in the order of their names.      *)
Entries(dir) ==
    {[name |-> n, inode |-> tree[dir][n]] : n \in {n \in EntryNames : tree[dir][n] # NoEntry}}

WalkFrame(root, dir, path) == [root |-> root, dir |-> dir, path |-> path, left |-> Entries(dir)]

Parents == {[root |-> 0, path |-> <<>>]}
           \cup {[root |-> i, path |-> <<n>>] : i \in 1..2, n \in EntryNames \ Supported}

BeginDiscovery(parent) ==
    /\ walk.status # "walking" /\ requests < MaxRequests
    /\ requests' = requests + 1
    /\ walk' = IF RootsOpen /\ ParentAccepted(parent)
               THEN [status |-> "walking", parent |-> parent, began |-> moves,
                     pending |-> DiscoveryRoots(parent),
                     stack |-> <<>>, unique |-> {}]
               ELSE [status |-> "refused"]
    /\ UNCHANGED <<tree, allowed, found, opening, opened, moves>>

FailWalk == walk' = [walk EXCEPT !.status = "failed"] /\ UNCHANGED found

(* The next selected root, once the one before it is walked.               *)
NextRoot ==
    /\ walk.status = "walking" /\ walk.stack = <<>>
    /\ \E job \in walk.pending :
          /\ \A other \in walk.pending \ {job} : WalkedBefore(job, other)
          /\ LET dir == Descend(job.root.dir, job.path) IN
             \/ dir = NoEntry /\ FailWalk
             \/ /\ dir # NoEntry
                /\ walk' = [walk EXCEPT !.pending = @ \ {job},
                                        !.stack = <<WalkFrame(job.root, dir, job.path)>>]
                /\ UNCHANGED found
    /\ UNCHANGED <<tree, allowed, opening, opened, moves, requests>>

MayHideSupportedAsset(dir) ==
    \E n \in EntryNames : \/ tree[dir][n] \in FsDirs
                          \/ tree[dir][n] \in FsFiles /\ n \in Supported

Rest(stack, e) == <<[stack[1] EXCEPT !.left = @ \ {e}]>> \o Tail(stack)

(* A directory: walked, unless it lies at the depth limit, where it must   *)
(* not hide anything.  What the entry was is known from the enumeration;   *)
(* what its name leads to is asked now.                                    *)
WalkInto(frame, e) ==
    LET child == Enter(frame.dir, e.name)
        deep == Len(frame.path) >= MaxDepth
    IN  \/ child = NoEntry /\ FailWalk
        \/ child # NoEntry /\ deep /\ MayHideSupportedAsset(child) /\ FailWalk
        \/ /\ child # NoEntry /\ deep /\ ~MayHideSupportedAsset(child)
           /\ walk' = [walk EXCEPT !.stack = Rest(@, e)] /\ UNCHANGED found
        \/ /\ child # NoEntry /\ ~deep
           /\ walk' = [walk EXCEPT !.stack =
                          <<WalkFrame(frame.root, child, Append(frame.path, e.name))>> \o Rest(@, e)]
           /\ UNCHANGED found

\* The candidate of a later root replaces the one of an earlier.
KeepLast(unique, candidate) ==
    {c \in unique : c.file # candidate.file} \cup {candidate}

(* unique.entry(identity).or_insert: one candidate for a device and inode. *)
KeepUnique(unique, candidate) ==
    IF \E c \in unique : c.file = candidate.file THEN unique ELSE unique \cup {candidate}

WalkFile(frame, e) ==
    LET file == OpenRelativeFile(frame.dir, e.name)
        candidate == [file |-> file, root |-> frame.root, path |-> Append(frame.path, e.name)]
        unique == KeepUnique(walk.unique, candidate)
    IN  \/ file = NoEntry /\ FailWalk
        \/ file # NoEntry /\ Cardinality(unique) > MaxAssets /\ FailWalk
        \/ /\ file # NoEntry /\ Cardinality(unique) <= MaxAssets
           /\ walk' = [walk EXCEPT !.stack = Rest(@, e), !.unique = unique]
           /\ UNCHANGED found

WalkEntry ==
    /\ walk.status = "walking" /\ walk.stack # <<>>
    /\ LET frame == Head(walk.stack) IN
       \/ /\ frame.left = {}
          /\ walk' = [walk EXCEPT !.stack = Tail(@)] /\ UNCHANGED found
       \/ \E e \in frame.left :
          /\ \A other \in frame.left : e.name <= other.name
          /\ \/ e.inode \in FsDirs /\ WalkInto(frame, e)
             \/ e.inode \in FsFiles /\ e.name \in Supported /\ WalkFile(frame, e)
             \/ /\ e.inode \in FsLinks \/ (e.inode \in FsFiles /\ e.name \notin Supported)
                /\ walk' = [walk EXCEPT !.stack = Rest(@, e)] /\ UNCHANGED found
    /\ UNCHANGED <<tree, allowed, opening, opened, moves, requests>>

(* The asset: its id is derived from the root's own path and the relative  *)
(* path, its locator holds the root's index.                               *)
Asset(c) == [id |-> <<c.root.key, c.path>>, container |-> c.root.index, path |-> c.path]

EndDiscovery ==
    /\ walk.status = "walking" /\ walk.stack = <<>> /\ walk.pending = {}
    /\ walk' = [walk EXCEPT !.status = "done"]
    /\ found' = {[asset |-> Asset(c), file |-> c.file, at |-> walk.began, roots |-> allowed]
                   : c \in walk.unique}
    /\ UNCHANGED <<tree, allowed, opening, opened, moves, requests>>

-----------------------------------------------------------------------------
(* RootSet::open_asset: the roots are opened anew, the label of the        *)
(* locator picks one by its index, and the path is followed one handle at  *)
(* a time.                                                                 *)

BeginOpen(f) ==
    /\ opening.status = "idle" /\ requests < MaxRequests
    /\ requests' = requests + 1
    /\ IF RootsOpen /\ f.asset.container \in DOMAIN RootSet
       THEN /\ opening' = [status |-> "open", of |-> f,
                           dir |-> RootSet[f.asset.container].dir, left |-> f.asset.path]
            /\ UNCHANGED opened
       ELSE opened' = [of |-> f, file |-> NoEntry] /\ UNCHANGED opening
    /\ UNCHANGED <<tree, allowed, walk, found, moves>>

OpenStep ==
    /\ opening.status = "open"
    /\ LET name == Head(opening.left)
           child == Enter(opening.dir, name)
           last == Len(opening.left) = 1
       IN  \/ /\ last \/ child = NoEntry
              /\ opened' = [of |-> opening.of,
                            file |-> IF last THEN OpenRelativeFile(opening.dir, name)
                                     ELSE NoEntry]
              /\ opening' = NoOpening
           \/ /\ ~last /\ child # NoEntry
              /\ opening' = [opening EXCEPT !.dir = child, !.left = Tail(@)]
              /\ UNCHANGED opened
    /\ UNCHANGED <<tree, allowed, walk, found, moves, requests>>

-----------------------------------------------------------------------------
(* The user's file system and the connection's configuration.              *)

(* An entry of a directory inside the roots is removed, or replaced by a   *)
(* file or by a link; nothing from outside is moved in.                    *)
Move(dir, name, x) ==
    /\ moves < MaxMoves /\ tree[dir][name] # x
    /\ tree' = [tree EXCEPT ![dir][name] = x]
    /\ moves' = moves + 1
    /\ UNCHANGED <<allowed, walk, found, opening, opened, requests>>

(* update_source_connection *)
UpdateRoots(paths) ==
    /\ allowed # paths /\ walk.status # "walking" /\ opening.status = "idle" /\ moves < MaxMoves
    /\ allowed' = paths /\ moves' = moves + 1
    /\ UNCHANGED <<tree, walk, found, opening, opened, requests>>

DscInit ==
    /\ tree \in Trees /\ allowed \in RootLists
    /\ walk = NoWalk /\ found = {} /\ opening = NoOpening
    /\ opened = [file |-> NoEntry] /\ moves = 0 /\ requests = 0

DscNext ==
    \/ \E parent \in Parents : BeginDiscovery(parent)
    \/ NextRoot \/ WalkEntry \/ EndDiscovery
    \/ \E f \in found : BeginOpen(f)
    \/ OpenStep
    \/ \E dir \in FsDirs \ (Outside \cup {Top}), name \in EntryNames,
          x \in ({NoEntry} \cup FsLinks \cup FsFiles) \ Outside : Move(dir, name, x)
    \/ \E paths \in RootLists : UpdateRoots(paths)

DscSpec == DscInit /\ [][DscNext]_dscVars

-----------------------------------------------------------------------------
(* What a discovery should answer, read off the tree.                      *)

PathsBelow == UNION {[1..k -> EntryNames] : k \in 1..(MaxDepth + 2)}

Precedes(p, q) ==
    \E k \in DOMAIN p \cap DOMAIN q : p[k] < q[k] /\ \A j \in 1..(k - 1) : p[j] = q[j]

Selected(parent) == DiscoveryRoots(parent)

FileAt(job, p) ==
    LET dir == Descend(job.root.dir, Front(p)) IN
    IF dir = NoEntry \/ ~IsPrefix(job.path, p) \/ p = job.path THEN NoEntry
    ELSE OpenRelativeFile(dir, Last(p))

VisibleAsset(parent) ==
    {[file |-> FileAt(jp[1], jp[2]), root |-> jp[1].root, path |-> jp[2]] :
        jp \in {jp \in Selected(parent) \X PathsBelow :
                   /\ FileAt(jp[1], jp[2]) # NoEntry
                   /\ Last(jp[2]) \in Supported /\ Len(jp[2]) <= MaxDepth + 1}}

Preferred(cs) ==
    {c \in cs : \A d \in cs \ {c} : d.file = c.file =>
        \/ Len(c.root.key) > Len(d.root.key)
        \/ Len(c.root.key) = Len(d.root.key) /\ c.root.index < d.root.index
        \/ c.root = d.root /\ Precedes(c.path, d.path)}

TooDeep(parent) ==
    \E job \in Selected(parent), p \in PathsBelow :
        /\ Len(p) = MaxDepth + 1 /\ IsPrefix(job.path, p)
        /\ Descend(job.root.dir, p) # NoEntry
        /\ MayHideSupportedAsset(Descend(job.root.dir, p))

(* A discovery during which nothing moved lists every supported file of    *)
(* the selected roots exactly once, under its most specific root and its   *)
(* first path, and is refused only for a directory too deep, for too many  *)
(* assets, or for a parent that is not there (discover, walk_directory).   *)
DiscoveryExact ==
    walk.status \in {"done", "failed"} /\ walk.began = moves =>
        LET files == {c.file : c \in VisibleAsset(walk.parent)}
            missing == \E job \in Selected(walk.parent) :
                           Descend(job.root.dir, job.path) = NoEntry
        IN  IF walk.status = "done"
            THEN walk.unique = Preferred(VisibleAsset(walk.parent)) /\ ~TooDeep(walk.parent)
            ELSE missing \/ TooDeep(walk.parent) \/ Cardinality(files) > MaxAssets

(* However the entries are replaced between the enumeration, the check and *)
(* the open, no request ever opens what only a link leads to.              *)
NoLinkFollowed ==
    /\ opened.file \notin Outside
    /\ \A f \in found : f.file \notin Outside
    /\ opening.status = "open" => opening.dir \notin Outside

(* An asset of a connection that was not changed since is the file that    *)
(* was discovered, whichever other roots contain it.                       *)
AssetsReopen ==
    "of" \in DOMAIN opened /\ opened.of.at = moves => opened.file = opened.of.file
=============================================================================
