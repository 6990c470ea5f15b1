--------------------------- MODULE SnapshotCatalog ---------------------------
(***************************************************************************)
(* What the Snapshot store promises its readers: a catalogue of immutable  *)
(* datasets.  Publication is one step that shows a dataset with all of its *)
(* partitions; from then on the dataset can only be retired.               *)
(***************************************************************************)
EXTENDS Integers

CONSTANTS Snapshots, MaxParts

VARIABLES
    listed,  \* the Snapshots a reader can open
    content  \* the partitions a reader finds

catalogVars == <<listed, content>>

CatalogInit == listed = {} /\ content = [s \in Snapshots |-> {}]

Publish(s, n) ==
    /\ s \notin listed
    /\ listed' = listed \cup {s}
    /\ content' = [content EXCEPT ![s] = 0..(n - 1)]

\* One by one, or a retention pass that ends several.
Retire(old) ==
    /\ old \subseteq listed
    /\ listed' = listed \ old
    /\ content' = [s \in Snapshots |-> IF s \in old THEN {} ELSE content[s]]

CatalogNext ==
    \/ \E s \in Snapshots, n \in 0..MaxParts : Publish(s, n)
    \/ \E old \in SUBSET listed : Retire(old)

CatalogSpec == CatalogInit /\ [][CatalogNext]_catalogVars
=============================================================================
