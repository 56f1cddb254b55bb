---------------------------- MODULE MCUploadSlots ----------------------------
(* Three clients, one of them a friend; a small file "g", and a file "f" in a  *)
(* directory that has a slot of its own.  "a" changes between the two files,   *)
(* "b" downloads one, and "c" only competes for a slot.                        *)
EXTENDS UploadSlots

MCDir == [f \in Files |-> f]
MCPrio == [d \in Files |-> IF d = "f" THEN 1 ELSE 0]
MCQueries == [c \in Clients |-> IF c = "a" THEN Files ELSE {"g"}]
MCAsks == [c \in Clients |-> CASE c = "a" -> Files [] c = "b" -> {"g"} [] OTHER -> {}]
=============================================================================
