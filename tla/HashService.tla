----------------------------- MODULE HashService -----------------------------
(***************************************************************************)
(* What commonHasher promises the clients of its queue: one job at a time, *)
(* and the handler of a job is called with the digest of its own piece.    *)
(* The promise is kept for the jobs of Exact; others may get any digest.   *)
(***************************************************************************)
CONSTANTS Jobs, NoJob, Exact

VARIABLES current,   \* the job under way
          result,    \* "none" until its digest is there, then "right" or "wrong"
          handled,   \* the last job whose handler was called, with what
          dead       \* the process is no more

vars == <<current, result, handled, dead>>

Init ==
  /\ current = NoJob
  /\ result = "none"
  /\ handled = [job |-> NoJob, result |-> "none"]
  /\ dead = FALSE

Submit(j) ==
  /\ current = NoJob /\ ~dead
  /\ current' = j
  /\ UNCHANGED <<result, handled, dead>>

Compute ==
  /\ current # NoJob /\ result = "none" /\ ~dead
  /\ result' \in {"right"} \cup (IF current \in Exact THEN {} ELSE {"wrong"})
  /\ UNCHANGED <<current, handled, dead>>

Deliver ==
  /\ result # "none" /\ ~dead
  /\ handled' = [job |-> current, result |-> result]
  /\ current' = NoJob /\ result' = "none"
  /\ UNCHANGED dead

Die == dead' = TRUE /\ UNCHANGED <<current, result, handled>>

Next == (\E j \in Jobs : Submit(j)) \/ Compute \/ Deliver \/ Die

Spec == Init /\ [][Next]_vars
=============================================================================
