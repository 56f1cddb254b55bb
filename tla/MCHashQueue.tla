----------------------------- MODULE MCHashQueue -----------------------------
(* Two directories of one file each.  The file "a" is one short piece; "b" is  *)
(* one MD4 block, so donkey hashes an empty second chunk, and two tiger         *)
(* pieces.  Gnutella asks for three identifiers and G2 for four.                *)
EXTENDS HashQueue

MCDirectories == {<<"a">>, <<"b">>}
MCSize == [f \in Files |-> IF f = "a" THEN 1 ELSE 3]
MCAsks == <<"BITPRINT", "TIGER", "SHA1", "ED2K", "BITPRINT", "TIGER", "SHA1">>
=============================================================================
