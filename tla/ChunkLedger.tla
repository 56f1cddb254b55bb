----------------------------- MODULE ChunkLedger -----------------------------
(***************************************************************************)
(* What the verification of a swarmer promises about the chunks of its     *)
(* primary frontend, without blocks, bitmaps, counters or merges: a chunk  *)
(* is open, claimed (its bytes are all there, nobody has hashed them) or   *)
(* verified; only claimed chunks whose bytes are right become verified,    *)
(* only claimed chunks are rejected, the bytes of a verified chunk are     *)
(* never touched again, and the file is done when everything is verified.  *)
(* A restart may forget anything but invents no verified chunk.            *)
(***************************************************************************)
CONSTANT Ids   \* the chunks of the primary

VARIABLES status, right, done
vars == <<status, right, done>>

Init == /\ status = [c \in Ids |-> "open"]
        /\ right = [c \in Ids |-> FALSE]
        /\ done = FALSE

In(st) == {c \in Ids : status[c] = st}

\* Bytes are written to chunks that are not verified; some of them fill up.
Fetch == /\ right' \in [Ids -> BOOLEAN]
         /\ \A c \in In("verified") : right'[c] = right[c]
         /\ \E S \in SUBSET In("open") :
               status' = [c \in Ids |-> IF c \in S THEN "claimed" ELSE status[c]]
         /\ UNCHANGED done

\* Claimed chunks are hashed; all are right.
Certify == /\ \E S \in SUBSET {c \in In("claimed") : right[c]} :
                 status' = [c \in Ids |-> IF c \in S THEN "verified" ELSE status[c]]
           /\ UNCHANGED <<right, done>>

\* Claimed chunks are hashed; something is wrong.
Reject == /\ \E S \in SUBSET In("claimed") :
                /\ \E c \in Ids : ~ right[c]
                /\ status' = [c \in Ids |-> IF c \in S THEN "open" ELSE status[c]]
          /\ UNCHANGED <<right, done>>

Complete == /\ In("verified") = Ids
            /\ done' = TRUE
            /\ UNCHANGED <<status, right>>

Reload == /\ status' \in [Ids -> {"open", "claimed", "verified"}]
          /\ \A c \in Ids : status'[c] = "verified" => status[c] = "verified"
          /\ done' \in BOOLEAN
          /\ done' => done
          /\ UNCHANGED right

Next == Fetch \/ Certify \/ Reject \/ Complete \/ Reload

Spec == Init /\ [][Next]_vars

=============================================================================
