--------------------------- MODULE SourceConnectors ---------------------------
(***************************************************************************)
(* The connectors that open Source assets for the engine: files under the  *)
(* allowed roots of a local connection, and objects of a store.  Each has  *)
(* its own state, and neither is told what other programs do to the files  *)
(* or objects meanwhile.                                                   *)
(***************************************************************************)
EXTENDS SourceDiscovery, ObjectAccess

ConnectorSpec == DscSpec /\ OaSpec

\* open_asset, access.rs and staged.rs: a request opens nothing that only a link
\* leads to, an asset nobody changed is the file that was discovered, bytes
\* handed on come whole from the one object the head described, a temporary
\* directory goes with its request, and an upload reports what it has stored.
SourcesKept == NoLinkFollowed /\ AssetsReopen /\ OneObject /\ StagingRemoved /\ UploadHonest
=============================================================================
