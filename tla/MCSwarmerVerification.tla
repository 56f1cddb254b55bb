----------------------- MODULE MCSwarmerVerification -----------------------
(* Instances of SwarmerVerification for TLC.  A file of four bytes: the      *)
(* primary's chunks have two bytes, the secondary's three, so that the       *)
(* blocks [0,2) [2,3) [3,4) are cut by both and no chunking refines the      *)
(* other.                                                                    *)
EXTENDS SwarmerVerification

MCBlocks == 0 .. 2
MCSize == [b \in MCBlocks |-> IF b = 0 THEN 2 ELSE 1]
MCSecondaries == {"second"}
MCChunkOf ==
    [first  |-> [b \in MCBlocks |-> IF b = 0 THEN 0 ELSE 1],
     second |-> [b \in MCBlocks |-> IF b = 2 THEN 1 ELSE 0]]
NoSolo == [second |-> 0]

(* A smaller file for the runs with restarts: three bytes in two blocks; the *)
(* second frontend has one chunk over both.                                  *)
SmallBlocks == 0 .. 1
SmallSize == [b \in SmallBlocks |-> 2 - b]
SmallChunkOf == [first  |-> [b \in SmallBlocks |-> b],
                 second |-> [b \in SmallBlocks |-> 0]]

(* What the frontends verify with: hashes, hashes that arrive late, a single *)
(* hash for the file (gnutella), nothing (fileTP).                           *)
Hashes == [first |-> "Verification", second |-> "Verification"]
LateHashes == [first |-> "VerificationNotAvailable", second |-> "VerificationNotAvailable"]
FileHash == [first |-> "FileVerification", second |-> "ForceVerification"]
NoHash == [first |-> "NoVerification", second |-> "Verification"]
AnyScheme == {Hashes, LateHashes, FileHash, NoHash}
HashScheme == {Hashes}

=============================================================================
