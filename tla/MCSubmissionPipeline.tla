----------------------- MODULE MCSubmissionPipeline -----------------------
(* Values for TLC of the constants of SubmissionPipeline. *)
EXTENDS SubmissionPipeline

Events(crash, store, flow, listing, reply, retry) ==
    [e \in EventKinds |-> CASE e = "crash" -> crash
                            [] e = "store" -> store
                            [] e = "flow"  -> flow
                            [] e = "listing" -> listing
                            [] e = "reply" -> reply
                            [] e = "retry" -> retry]

\* One of each rare event.
OneOfEach == Events(1, 1, 1, 1, 1, 1)

\* A crash or SIGTERM, and a manual retry.
CrashAndRetry == Events(1, 0, 0, 0, 0, 1)

OneCrash == Events(1, 0, 0, 0, 0, 0)
OneRetry == Events(0, 0, 0, 0, 0, 1)
NoEvent  == Events(0, 0, 0, 0, 0, 0)

\* A flow takes a file and the listing that would show it fails.
FlowUnseen == Events(0, 0, 1, 1, 0, 0)
===========================================================================
