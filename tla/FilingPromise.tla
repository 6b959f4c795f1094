---------------------------- MODULE FilingPromise ----------------------------
(***************************************************************************)
(* What the server promises a submitter, without its queue, worker, disk   *)
(* or library: a submission that has been accepted is owed until it is either *)
(* filed (every file is in the document library) or short (a human has to  *)
(* act, and no file has been lost).  An owed submission does not stay owed *)
(* for ever.  Either outcome may be reopened by another attempt.           *)
(*                                                                         *)
(* This is the contract of GET /sites/:id/status and of the card and mail  *)
(* that announce the outcome.                                              *)
(***************************************************************************)
CONSTANT Submissions

VARIABLE promise

Init == promise = [s \in Submissions |-> "none"]

\* Step of one submission from one of the states in from to the state to.
Becomes(s, from, to) ==
    /\ promise[s] \in from
    /\ promise' = [promise EXCEPT ![s] = to]

Accept(s)    == Becomes(s, {"none"}, "owed")
File(s)      == Becomes(s, {"owed"}, "filed")
FallShort(s) == Becomes(s, {"owed"}, "short")
Reopen(s)    == Becomes(s, {"filed", "short"}, "owed")

Next == \E s \in Submissions : Accept(s) \/ File(s) \/ FallShort(s) \/ Reopen(s)

\* What may happen, without what must happen in the end.
SafeSpec == Init /\ [][Next]_promise

Spec ==
    /\ SafeSpec
    /\ \A s \in Submissions : WF_promise(File(s) \/ FallShort(s))
==============================================================================
