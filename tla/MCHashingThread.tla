--------------------------- MODULE MCHashingThread ---------------------------
(* Two pieces, one of them hashed by Tiger, each read in one part or more.   *)
EXTENDS HashingThread

MCJobs == {"ed2k", "tiger"}
MCLen == [j \in MCJobs |-> 2]
MCTigerJobs == {"tiger"}
==============================================================================
