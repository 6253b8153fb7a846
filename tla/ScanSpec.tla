------------------------------ MODULE ScanSpec ------------------------------
(***************************************************************************)
(* What one scan call promises (spec.md 4.4, 7): it runs to completion     *)
(* without partial results and ends either with a result set or with one   *)
(* error, chosen among the ends the request allows.                       *)
(*                                                                         *)
(* `allowed` is fixed by the request: a set of ends, each [ok |-> TRUE,    *)
(* out |-> result] or [ok |-> FALSE, err |-> code].  Before the call ends  *)
(* nothing is returned.                                                   *)
(***************************************************************************)
VARIABLES
  allowed,   \* the ends the request allows (fixed for the call)
  status,    \* "running", "done", or the error code the call raised
  out        \* the result set returned, <<>> until the call ends

Init ==
  /\ status = "running"
  /\ out = <<>>

Complete ==
  /\ status = "running"
  /\ \E e \in allowed :
       IF e.ok THEN status' = "done" /\ out' = e.out
       ELSE status' = e.err /\ out' = <<>>
  /\ UNCHANGED allowed

\* A scan is a synchronous loop with no cancellation (spec.md 5): it ends.
Spec == Init /\ [][Complete]_<<allowed, status, out>> /\ WF_<<allowed, status, out>>(Complete)

=============================================================================
