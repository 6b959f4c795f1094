--------------------------- MODULE UploadPromise ---------------------------
(***************************************************************************)
(* What a caller may expect of an upload, however many requests, retries   *)
(* and pieces it takes: the content appears at most once, whole, under a   *)
(* name that was free; it is never replaced; and "stored" is only said of  *)
(* content that is there.  "Failed" may be said of content that is there,  *)
(* too: LibrarySync and SubmissionPipeline are written for such a caller.  *)
(***************************************************************************)
CONSTANTS Uploads, UploadNames, Nobody

VARIABLES
    kept,    \* per name, whose content it has, or Nobody
    wanted,  \* per upload, the name it is for, or Nobody before it starts
    said     \* per upload, "open", "stored" or "failed"

Promised ==
    /\ kept \in [UploadNames -> Uploads \cup {Nobody, "others"}]
    /\ wanted = [u \in Uploads |-> Nobody]
    /\ said = [u \in Uploads |-> "open"]

Starts(u, name) ==
    /\ wanted[u] = Nobody
    /\ wanted' = [wanted EXCEPT ![u] = name]
    /\ UNCHANGED <<kept, said>>

\* The content may appear in this step, and the caller may be answered.
Moves(u) ==
    /\ wanted[u] # Nobody /\ said[u] = "open"
    /\ \/ UNCHANGED kept
       \/ kept[wanted[u]] = Nobody /\ kept' = [kept EXCEPT ![wanted[u]] = u]
    /\ \/ UNCHANGED said
       \/ kept'[wanted[u]] = u /\ said' = [said EXCEPT ![u] = "stored"]
       \/ said' = [said EXCEPT ![u] = "failed"]
    /\ UNCHANGED wanted

\* Somebody else puts a file into the folder.
Others(name) ==
    /\ kept[name] = Nobody
    /\ kept' = [kept EXCEPT ![name] = "others"]
    /\ UNCHANGED <<wanted, said>>

UploadNext ==
    \/ \E u \in Uploads : Moves(u) \/ \E n \in UploadNames : Starts(u, n)
    \/ \E n \in UploadNames : Others(n)

KeepsUploadPromise == Promised /\ [][UploadNext]_<<kept, wanted, said>>
=============================================================================
