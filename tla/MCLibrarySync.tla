--------------------------- MODULE MCLibrarySync ---------------------------
(***************************************************************************)
(* Values of LibrarySync's constants for TLC.                              *)
(***************************************************************************)
EXTENDS LibrarySync

CONSTANTS local, channel

LocalAndChannel  == {local, channel}

OneOf(es) == [e \in EventKinds |-> IF e \in es THEN 1 ELSE 0]

\* Of everything once; the target is changed and changed back.
OneOfEach == [OneOf(EventKinds) EXCEPT !["switch"] = 2]
OneCall   == OneOf({"call"})
=============================================================================
