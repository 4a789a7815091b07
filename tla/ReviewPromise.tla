---------------------------- MODULE ReviewPromise ----------------------------
(***************************************************************************)
(* What a review job promises to those who read the pull request and to    *)
(* those who started it: the pull request shows a review or an error, and  *)
(* never both; a job that succeeded shows a review and one that failed     *)
(* shows none, unless it was allowed to end in silence.  If its posting is *)
(* interrupted, the job fails, whatever it has shown.                      *)
(***************************************************************************)

VARIABLES
    shown,     \* what the pull request shows of the job, of {"review", "error"}
    status,    \* the job's result
    dry,       \* the job is a dry run
    silence,   \* results with which the job may end and show nothing
    interrupted  \* the posting of the review was cut short

vars == <<shown, status, dry, silence, interrupted>>

Results == {"succeeded", "failed"}

Init ==
    /\ shown = {}
    /\ status = "running"
    /\ dry \in BOOLEAN
    /\ silence \subseteq Results
    /\ interrupted = FALSE

Show ==
    /\ status = "running"
    /\ \/ /\ shown = {}
          /\ \E s \in (IF dry THEN {"error"} ELSE {"review", "error"}) : shown' = {s}
       \/ /\ interrupted
          /\ shown' = shown \cup {"error"}
    /\ UNCHANGED status

\* An interruption may itself end the job.
End ==
    /\ status = "running"
    /\ status' \in IF shown = {} THEN silence
                   ELSE {IF "error" \in shown \/ interrupted' THEN "failed" ELSE "succeeded"}
    /\ interrupted' => status' = "failed"
    /\ UNCHANGED shown

\* What excuses silence may change, and the posting be interrupted.
Excuse == UNCHANGED <<shown, status>> /\ silence' \subseteq Results

Next ==
    /\ Show \/ End \/ Excuse
    /\ interrupted => interrupted'
    /\ UNCHANGED dry

Spec == Init /\ [][Next]_vars
=============================================================================
