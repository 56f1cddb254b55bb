--------------------- MODULE SwarmerVerification_proofs ---------------------
(***************************************************************************)
(* Proofs about SwarmerVerification, for any file, chunking, frontends and *)
(* faults: blocks and bitmaps agree, verified bytes are right, counters    *)
(* count, good data stays; and the refinement of ChunkLedger.              *)
(***************************************************************************)
EXTENDS SwarmerVerification, FiniteSetTheorems, WellFoundedInduction, TLAPS

\* Put changes nothing but the values at S.
LEMMA PutFacts ==
    ASSUME NEW D, NEW V, NEW f \in [D -> V], NEW S, NEW v \in V
    PROVE  /\ Put(f, S, v) \in [D -> V]
           /\ \A x \in D : Put(f, S, v)[x] = IF x \in S THEN v ELSE f[x]
BY DEF Put

\* The primary is a frontend apart.
LEMMA FrontendFacts ==
    /\ Primary \in Frontends
    /\ \A f \in Secondaries : f \in Frontends /\ f # Primary
    /\ \A f \in Frontends : f # Primary => f \in Secondaries
BY FrontendAssumption DEF Frontends

\* The chunks of a frontend can be counted.
LEMMA ChunkSets ==
    ASSUME NEW f \in Frontends, NEW S \in SUBSET Chunks(f)
    PROVE  Cardinality(S) \in Int
<1>1. IsFiniteSet(Chunks(f))
  <2> DEFINE g == [b \in Blocks |-> ChunkOf[f][b]]
  <2>1. g \in Surjection(Blocks, Chunks(f))
    BY DEF Surjection, Chunks
  <2> QED
    BY <2>1, BlocksAssumption, FS_Surjection
<1>2. IsFiniteSet(S)
  BY <1>1, FS_Subset
<1> QED
  BY <1>2, FS_CardinalityType

\* Every block belongs to one chunk of each frontend.
LEMMA ChunkFacts ==
    ASSUME NEW f \in Frontends
    PROVE  /\ \A b \in Blocks : ChunkOf[f][b] \in Chunks(f)
           /\ \A c \in Chunks(f) : c \in Nat /\ BlocksOf(f, c) \subseteq Blocks
           /\ \A c \in Chunks(f) : \E b \in Blocks : b \in BlocksOf(f, c)
           /\ \A c, b : b \in BlocksOf(f, c) <=> b \in Blocks /\ ChunkOf[f][b] = c
BY ChunkAssumption DEF Chunks, BlocksOf

\* A bitmap stays one when chunks are retagged.
LEMMA BitmapPut ==
    ASSUME NEW bm, IsBitmap(bm), NEW bn, bn = [f \in Frontends |-> bn[f]],
           \A f \in Frontends : \E S : \E v \in VBStates : bn[f] = Put(bm[f], S, v)
    PROVE  IsBitmap(bn)
<1>1. ASSUME NEW f \in Frontends
      PROVE  bn[f] \in [Chunks(f) -> VBStates]
  <2>1. bm[f] \in [Chunks(f) -> VBStates]
    BY DEF IsBitmap
  <2>2. PICK S : \E v \in VBStates : bn[f] = Put(bm[f], S, v)
    OBVIOUS
  <2>3. PICK v \in VBStates : bn[f] = Put(bm[f], S, v)
    BY <2>2
  <2> QED
    BY <2>1, <2>3 DEF Put
<1> QED
  BY <1>1 DEF IsBitmap

-----------------------------------------------------------------------------
\* set_swarmer_state_missing.
LEMMA MissingFacts ==
    ASSUME NEW s, IsSwarmer(s), NEW B \in SUBSET Blocks
    PROVE  LET r == SetSwarmerStateMissing(s, B) IN
           /\ IsSwarmer(r)
           /\ r.blocks = s.blocks /\ r.networks = s.networks /\ r.verifier = s.verifier /\ r.asserts = s.asserts
           /\ \A b \in Blocks : r.vbitmap[b] = IF b \in B /\ s.vbitmap[b] \in Finished
                                               THEN "missing" ELSE s.vbitmap[b]
           /\ \A f \in Frontends : \A c \in Chunks(f) :
                 r.bitmap[f][c] = IF c \in Voided(s, B, f) THEN "missing" ELSE s.bitmap[f][c]
<1> DEFINE r == SetSwarmerStateMissing(s, B)
<1>1. /\ DOMAIN r = DOMAIN s
      /\ r.vbitmap = Cleared(s, B)
      /\ r.bitmap = [f \in Frontends |-> Put(s.bitmap[f], Voided(s, B, f), "missing")]
      /\ r.blocks = s.blocks /\ r.remaining = s.remaining /\ r.networks = s.networks
      /\ r.ncomplete = s.ncomplete /\ r.nverified = s.nverified /\ r.verifier = s.verifier
      /\ r.asserts = s.asserts
  BY DEF IsSwarmer, SetSwarmerStateMissing
<1> HIDE DEF r
<1>2. /\ r.vbitmap \in [Blocks -> VBStates]
      /\ \A b \in Blocks : r.vbitmap[b] = IF b \in B /\ s.vbitmap[b] \in Finished
                                          THEN "missing" ELSE s.vbitmap[b]
  BY <1>1 DEF IsSwarmer, Cleared, Put, VBStates
<1>3. /\ IsBitmap(r.bitmap)
      /\ \A f \in Frontends : \A c \in Chunks(f) :
            r.bitmap[f][c] = IF c \in Voided(s, B, f) THEN "missing" ELSE s.bitmap[f][c]
  <2>1. IsBitmap(s.bitmap) /\ "missing" \in VBStates
    BY DEF IsSwarmer, VBStates
  <2>2. \A f \in Frontends : r.bitmap[f] = Put(s.bitmap[f], Voided(s, B, f), "missing")
    BY <1>1
  <2>3. IsBitmap(r.bitmap)
    BY <1>1, <2>1, <2>2, BitmapPut
  <2> QED
    BY <2>1, <2>2, <2>3 DEF IsBitmap, Put
<1>4. IsSwarmer(r)
  BY <1>1, <1>2, <1>3 DEF IsSwarmer
<1> QED
  BY <1>1, <1>2, <1>3, <1>4 DEF r
\* set_swarmer_state_partial.
LEMMA PartialFacts ==
    ASSUME NEW s, IsSwarmer(s), NEW b \in Blocks
    PROVE  LET r == SetSwarmerStatePartial(s, b) IN
           /\ IsSwarmer(r)
           /\ r.blocks = s.blocks /\ r.networks = s.networks /\ r.verifier = s.verifier /\ r.asserts = s.asserts
           /\ \A k \in Blocks : r.vbitmap[k] = IF k = b /\ s.vbitmap[b] = "missing"
                                               THEN "partial" ELSE s.vbitmap[k]
           /\ \A f \in Frontends : \A c \in Chunks(f) :
                 \/ r.bitmap[f][c] = s.bitmap[f][c]
                 \/ s.bitmap[f][c] = "missing" /\ r.bitmap[f][c] = "partial"
<1> DEFINE r == SetSwarmerStatePartial(s, b)
<1>1. CASE s.vbitmap[b] # "missing"
  BY <1>1 DEF SetSwarmerStatePartial
<1>2. CASE s.vbitmap[b] = "missing"
  <2> DEFINE hit(f) == f \in s.networks /\ s.bitmap[f][ChunkOf[f][b]] = "missing"
  <2>1. /\ DOMAIN r = DOMAIN s
        /\ r.vbitmap = [s.vbitmap EXCEPT ![b] = "partial"]
        /\ r.bitmap = [f \in Frontends |->
              IF hit(f) THEN [s.bitmap[f] EXCEPT ![ChunkOf[f][b]] = "partial"] ELSE s.bitmap[f]]
        /\ r.blocks = s.blocks /\ r.remaining = s.remaining /\ r.networks = s.networks
        /\ r.ncomplete = s.ncomplete /\ r.nverified = s.nverified /\ r.verifier = s.verifier
        /\ r.asserts = s.asserts
    BY <1>2 DEF IsSwarmer, SetSwarmerStatePartial
  <2> HIDE DEF r
  <2>2. /\ r.vbitmap \in [Blocks -> VBStates]
        /\ \A k \in Blocks : r.vbitmap[k] = IF k = b THEN "partial" ELSE s.vbitmap[k]
    BY <2>1 DEF IsSwarmer, VBStates
  <2>3. ASSUME NEW f \in Frontends
        PROVE  /\ r.bitmap[f] \in [Chunks(f) -> VBStates]
               /\ \A c \in Chunks(f) :
                     \/ r.bitmap[f][c] = s.bitmap[f][c]
                     \/ s.bitmap[f][c] = "missing" /\ r.bitmap[f][c] = "partial"
    <3>1. s.bitmap[f] \in [Chunks(f) -> VBStates]
      BY DEF IsSwarmer, IsBitmap
    <3>2. r.bitmap[f] = IF hit(f) THEN [s.bitmap[f] EXCEPT ![ChunkOf[f][b]] = "partial"]
                                  ELSE s.bitmap[f]
      BY <2>1
    <3> QED
      BY <3>1, <3>2 DEF VBStates
  <2>4. IsBitmap(r.bitmap)
    BY <2>1, <2>3 DEF IsBitmap
  <2>5. IsSwarmer(r)
    BY <2>1, <2>2, <2>4 DEF IsSwarmer
  <2> QED
    BY <1>2, <2>1, <2>2, <2>3, <2>5 DEF r
<1> QED
  BY <1>1, <1>2

\* set_swarmer_state_complete.
LEMMA CompleteFacts ==
    ASSUME NEW s, IsSwarmer(s), NEW B \in SUBSET Blocks
    PROVE  LET r == SetSwarmerStateComplete(s, B) IN
           /\ IsSwarmer(r)
           /\ r.blocks = s.blocks /\ r.networks = s.networks /\ r.verifier = s.verifier /\ r.asserts = s.asserts
           /\ r.remaining = s.remaining
           /\ \A b \in Blocks : r.vbitmap[b] = IF b \in B THEN "complete" ELSE s.vbitmap[b]
           /\ \A f \in Secondaries : r.bitmap[f] = s.bitmap[f]
           /\ \A c \in Chunks(Primary) :
                 r.bitmap[Primary][c] = IF c \in Escalated(s, B) \cup TakenBack(s, B)
                                        THEN "complete" ELSE s.bitmap[Primary][c]
<1> DEFINE r == SetSwarmerStateComplete(s, B)
           X == Escalated(s, B) \cup TakenBack(s, B)
<1>1. /\ DOMAIN r = DOMAIN s
      /\ r.vbitmap = Put(s.vbitmap, B, "complete")
      /\ r.bitmap = [s.bitmap EXCEPT ![Primary] = Put(s.bitmap[Primary], X, "complete")]
      /\ r.blocks = s.blocks /\ r.remaining = s.remaining /\ r.networks = s.networks
      /\ r.ncomplete = [s.ncomplete EXCEPT ![Primary] =
                           s.ncomplete[Primary] + Cardinality(Escalated(s, B))]
      /\ r.nverified = [s.nverified EXCEPT ![Primary] =
                           s.nverified[Primary] - Cardinality(TakenBack(s, B))]
      /\ r.verifier = s.verifier /\ r.asserts = s.asserts
  BY DEF IsSwarmer, SetSwarmerStateComplete
<1> HIDE DEF r
<1>2. /\ r.vbitmap \in [Blocks -> VBStates]
      /\ \A b \in Blocks : r.vbitmap[b] = IF b \in B THEN "complete" ELSE s.vbitmap[b]
  BY <1>1 DEF IsSwarmer, Put, VBStates
<1>3. /\ r.bitmap = [f \in Frontends |-> r.bitmap[f]]
      /\ \A f \in Frontends : r.bitmap[f] = IF f = Primary THEN Put(s.bitmap[f], X, "complete")
                                                           ELSE s.bitmap[f]
  <2>1. s.bitmap = [f \in Frontends |-> s.bitmap[f]]
    BY DEF IsSwarmer, IsBitmap
  <2>2. r.bitmap = [f \in Frontends |-> IF f = Primary THEN Put(s.bitmap[Primary], X, "complete")
                                                        ELSE s.bitmap[f]]
    BY <1>1, <2>1, FrontendFacts
  <2> QED
    BY <2>2
<1>4. s.bitmap[Primary] \in [Chunks(Primary) -> VBStates]
  BY FrontendFacts DEF IsSwarmer, IsBitmap
<1>5. /\ r.bitmap[Primary] \in [Chunks(Primary) -> VBStates]
      /\ \A c \in Chunks(Primary) :
            r.bitmap[Primary][c] = IF c \in X THEN "complete" ELSE s.bitmap[Primary][c]
  BY <1>3, <1>4, FrontendFacts DEF VBStates, Put
<1>6. IsBitmap(r.bitmap)
  BY <1>3, <1>5 DEF IsBitmap, IsSwarmer
<1>7. Cardinality(Escalated(s, B)) \in Int /\ Cardinality(TakenBack(s, B)) \in Int
  BY ChunkSets, FrontendFacts DEF Escalated, TakenBack, InState
<1>8. IsSwarmer(r)
  BY <1>1, <1>2, <1>6, <1>7 DEF IsSwarmer
<1>9. \A f \in Secondaries : r.bitmap[f] = s.bitmap[f]
  BY <1>3, FrontendFacts DEF Frontends
<1> QED
  BY <1>1, <1>2, <1>5, <1>8, <1>9 DEF r

\* set_swarmer_state_verified.
LEMMA VerifiedFacts ==
    ASSUME NEW s, IsSwarmer(s), NEW B \in SUBSET Blocks
    PROVE  LET r == SetSwarmerStateVerified(s, B) IN
           /\ IsSwarmer(r)
           /\ r.blocks = s.blocks /\ r.networks = s.networks /\ r.verifier = s.verifier /\ r.asserts = s.asserts
           /\ r.remaining = s.remaining
           /\ \A b \in Blocks : r.vbitmap[b] = IF b \in B THEN "verified" ELSE s.vbitmap[b]
           /\ \A c \in Chunks(Primary) : r.bitmap[Primary][c] = s.bitmap[Primary][c]
           /\ \A f \in Secondaries : \A c \in Chunks(f) :
                 \/ r.bitmap[f][c] = s.bitmap[f][c]
                 \/ \A b \in BlocksOf(f, c) : r.vbitmap[b] = "verified"
<1> DEFINE r == SetSwarmerStateVerified(s, B)
<1>1. /\ DOMAIN r = DOMAIN s
      /\ r.vbitmap = Put(s.vbitmap, B, "verified")
      /\ r.bitmap = [f \in Frontends |->
            Put(s.bitmap[f], PassedOn(s, B, f), IF Trusting(s, f) THEN "verified" ELSE "complete")]
      /\ r.blocks = s.blocks /\ r.remaining = s.remaining /\ r.networks = s.networks
      /\ r.ncomplete = [f \in Frontends |->
            s.ncomplete[f] + Cardinality(PassedOn(s, B, f) \cap InState(s, f, Unfinished))]
      /\ r.nverified = [f \in Frontends |->
            s.nverified[f] + IF Trusting(s, f) THEN Cardinality(PassedOn(s, B, f)) ELSE 0]
      /\ r.verifier = s.verifier /\ r.asserts = s.asserts
  BY DEF IsSwarmer, SetSwarmerStateVerified
<1> HIDE DEF r
<1>2. /\ r.vbitmap \in [Blocks -> VBStates]
      /\ \A b \in Blocks : r.vbitmap[b] = IF b \in B THEN "verified" ELSE s.vbitmap[b]
  BY <1>1 DEF IsSwarmer, Put, VBStates
<1>3. IsBitmap(r.bitmap)
  <2>1. \A f \in Frontends : \E S : \E v \in VBStates : r.bitmap[f] = Put(s.bitmap[f], S, v)
    BY <1>1 DEF VBStates
  <2>2. IsBitmap(s.bitmap) /\ r.bitmap = [f \in Frontends |-> r.bitmap[f]]
    BY <1>1 DEF IsSwarmer
  <2> QED
    BY <2>1, <2>2, BitmapPut
<1>4. ASSUME NEW f \in Frontends, NEW c \in Chunks(f)
      PROVE  r.bitmap[f][c] = s.bitmap[f][c] \/ c \in PassedOn(s, B, f)
  <2>1. s.bitmap[f] \in [Chunks(f) -> VBStates]
    BY DEF IsSwarmer, IsBitmap
  <2> QED
    BY <1>1, <2>1 DEF Put
<1>5. PassedOn(s, B, Primary) = {}
  BY DEF PassedOn
<1>6. ASSUME NEW f \in Frontends, NEW c \in PassedOn(s, B, f), NEW b \in BlocksOf(f, c)
      PROVE  r.vbitmap[b] = "verified"
  <2>1. Put(s.vbitmap, B, "verified")[b] = "verified"
    BY DEF PassedOn
  <2> QED
    BY <1>1, <2>1
<1>7. ASSUME NEW f \in Frontends
      PROVE  /\ s.ncomplete[f] + Cardinality(PassedOn(s, B, f) \cap InState(s, f, Unfinished)) \in Int
             /\ s.nverified[f] + (IF Trusting(s, f) THEN Cardinality(PassedOn(s, B, f)) ELSE 0) \in Int
  <2>1. /\ Cardinality(PassedOn(s, B, f)) \in Int
        /\ Cardinality(PassedOn(s, B, f) \cap InState(s, f, Unfinished)) \in Int
    BY ChunkSets DEF PassedOn, InState
  <2> QED
    BY <2>1 DEF IsSwarmer
<1>8. r.ncomplete \in [Frontends -> Int] /\ r.nverified \in [Frontends -> Int]
  BY <1>1, <1>7
<1>9. IsSwarmer(r)
  BY <1>1, <1>2, <1>3, <1>8 DEF IsSwarmer
<1>10. \A c \in Chunks(Primary) : r.bitmap[Primary][c] = s.bitmap[Primary][c]
  BY <1>4, <1>5, FrontendFacts
<1>11. \A f \in Secondaries : \A c \in Chunks(f) :
          \/ r.bitmap[f][c] = s.bitmap[f][c]
          \/ \A b \in BlocksOf(f, c) : r.vbitmap[b] = "verified"
  BY <1>4, <1>6, FrontendFacts
<1> QED
  BY <1>1, <1>2, <1>9, <1>10, <1>11 DEF r

\* set_completed_block.
LEMMA CompletedBlockFacts ==
    ASSUME NEW s, IsSwarmer(s), NEW B \in SUBSET Blocks
    PROVE  LET r == SetCompletedBlock(s, B) IN
           /\ IsSwarmer(r)
           /\ r.networks = s.networks /\ r.verifier = s.verifier /\ r.asserts = s.asserts
           /\ \A b \in Blocks : r.blocks[b] = IF b \in Open(s, B) THEN "Complete" ELSE s.blocks[b]
           /\ \A b \in Blocks : r.vbitmap[b] = IF b \in Open(s, B) THEN "complete" ELSE s.vbitmap[b]
           /\ \A f \in Secondaries : r.bitmap[f] = s.bitmap[f]
           /\ \A c \in Chunks(Primary) :
                 r.bitmap[Primary][c] =
                    IF c \in Escalated(s, Open(s, B)) \cup TakenBack(s, Open(s, B))
                    THEN "complete" ELSE s.bitmap[Primary][c]
<1> DEFINE t == SetSwarmerStateComplete(s, Open(s, B))
           r == SetCompletedBlock(s, B)
<1>1. Open(s, B) \in SUBSET Blocks
  BY DEF Open
<1>2. IsSwarmer(t) /\ t.blocks = s.blocks /\ t.remaining = s.remaining
  BY <1>1, CompleteFacts
<1>3. /\ DOMAIN r = DOMAIN t
      /\ r.blocks = Put(t.blocks, Open(s, B), "Complete")
      /\ r.remaining = Put(t.remaining, Open(s, B), 0)
      /\ r.vbitmap = t.vbitmap /\ r.bitmap = t.bitmap /\ r.networks = t.networks
      /\ r.ncomplete = t.ncomplete /\ r.nverified = t.nverified
      /\ r.verifier = t.verifier /\ r.asserts = t.asserts
  <2> HIDE DEF t
  <2> QED
    BY <1>2 DEF IsSwarmer, SetCompletedBlock, t
<1>4. /\ r.blocks \in [Blocks -> {"Empty", "Partial", "Complete", "Verified"}]
      /\ \A b \in Blocks : r.blocks[b] = IF b \in Open(s, B) THEN "Complete" ELSE s.blocks[b]
  <2> HIDE DEF r, t
  <2> QED
    BY <1>2, <1>3 DEF IsSwarmer, Put
<1>5. r.remaining \in [Blocks -> Nat] /\ \A b \in Blocks : r.remaining[b] <= Size[b]
  <2> HIDE DEF r, t
  <2> QED
    BY <1>2, <1>3, SizeAssumption DEF IsSwarmer, Put
<1>6. IsSwarmer(r)
  <2> HIDE DEF r, t
  <2> QED
    BY <1>2, <1>3, <1>4, <1>5 DEF IsSwarmer
<1> HIDE DEF r
<1> QED
  BY <1>1, <1>3, <1>4, <1>6, CompleteFacts DEF r

\* The blocks set_verified_block changes.
Fresh(s, B) == {b \in B : s.blocks[b] # "Verified"}

\* set_verified_block.
LEMMA VerifiedBlockFacts ==
    ASSUME NEW s, IsSwarmer(s), NEW B \in SUBSET Blocks
    PROVE  LET r == SetVerifiedBlock(s, B)
               O == Open(s, Fresh(s, B))
           IN
           /\ IsSwarmer(r)
           /\ r.networks = s.networks /\ r.verifier = s.verifier /\ r.asserts = s.asserts
           /\ \A b \in Blocks : r.blocks[b] = IF b \in B THEN "Verified" ELSE s.blocks[b]
           /\ \A b \in Blocks : r.vbitmap[b] = IF b \in Fresh(s, B) THEN "verified" ELSE s.vbitmap[b]
           /\ \A c \in Chunks(Primary) :
                 r.bitmap[Primary][c] = IF c \in Escalated(s, O) \cup TakenBack(s, O)
                                        THEN "complete" ELSE s.bitmap[Primary][c]
           /\ \A f \in Secondaries : \A c \in Chunks(f) :
                 \/ r.bitmap[f][c] = s.bitmap[f][c]
                 \/ \A b \in BlocksOf(f, c) : r.vbitmap[b] = "verified"
<1> DEFINE F == Fresh(s, B)
           t == SetCompletedBlock(s, F)
           u == [t EXCEPT !.blocks = Put(@, F, "Verified")]
           r == SetVerifiedBlock(s, B)
<1>1. F \in SUBSET Blocks /\ Open(s, F) \subseteq F
  BY DEF Fresh, Open
<1>2. /\ IsSwarmer(t)
      /\ t.networks = s.networks /\ t.verifier = s.verifier /\ t.asserts = s.asserts
      /\ \A b \in Blocks : t.blocks[b] = IF b \in Open(s, F) THEN "Complete" ELSE s.blocks[b]
      /\ \A b \in Blocks : t.vbitmap[b] = IF b \in Open(s, F) THEN "complete" ELSE s.vbitmap[b]
      /\ \A f \in Secondaries : t.bitmap[f] = s.bitmap[f]
      /\ \A c \in Chunks(Primary) :
            t.bitmap[Primary][c] = IF c \in Escalated(s, Open(s, F)) \cup TakenBack(s, Open(s, F))
                                   THEN "complete" ELSE s.bitmap[Primary][c]
  BY <1>1, CompletedBlockFacts
<1>3. r = SetSwarmerStateVerified(u, F)
  BY DEF SetVerifiedBlock, Fresh
<1> HIDE DEF t
<1>4. /\ DOMAIN u = DOMAIN t
      /\ u.blocks = Put(t.blocks, F, "Verified")
      /\ u.remaining = t.remaining /\ u.vbitmap = t.vbitmap /\ u.bitmap = t.bitmap
      /\ u.networks = t.networks /\ u.ncomplete = t.ncomplete /\ u.nverified = t.nverified
      /\ u.verifier = t.verifier /\ u.asserts = t.asserts
  BY <1>2 DEF IsSwarmer
<1> HIDE DEF u
<1>5. /\ u.blocks \in [Blocks -> {"Empty", "Partial", "Complete", "Verified"}]
      /\ \A b \in Blocks : u.blocks[b] = IF b \in F THEN "Verified" ELSE t.blocks[b]
  BY <1>2, <1>4 DEF IsSwarmer, Put
<1>6. IsSwarmer(u)
  BY <1>2, <1>4, <1>5 DEF IsSwarmer
<1> HIDE DEF r, F
<1>7. /\ IsSwarmer(r)
      /\ r.blocks = u.blocks /\ r.networks = u.networks /\ r.verifier = u.verifier /\ r.asserts = u.asserts
      /\ \A b \in Blocks : r.vbitmap[b] = IF b \in F THEN "verified" ELSE u.vbitmap[b]
      /\ \A c \in Chunks(Primary) : r.bitmap[Primary][c] = u.bitmap[Primary][c]
      /\ \A f \in Secondaries : \A c \in Chunks(f) :
            \/ r.bitmap[f][c] = u.bitmap[f][c]
            \/ \A b \in BlocksOf(f, c) : r.vbitmap[b] = "verified"
  BY <1>1, <1>3, <1>6, VerifiedFacts
<1>8. \A b \in Blocks : r.blocks[b] = IF b \in B THEN "Verified" ELSE s.blocks[b]
  <2> SUFFICES ASSUME NEW b \in Blocks
               PROVE  r.blocks[b] = IF b \in B THEN "Verified" ELSE s.blocks[b]
    OBVIOUS
  <2>1. b \in F <=> b \in B /\ s.blocks[b] # "Verified"
    BY DEF F, Fresh
  <2>2. b \notin F => t.blocks[b] = s.blocks[b]
    BY <1>1, <1>2
  <2>3. r.blocks[b] = IF b \in F THEN "Verified" ELSE t.blocks[b]
    BY <1>5, <1>7
  <2> QED
    BY <2>1, <2>2, <2>3
<1>9. \A b \in Blocks : r.vbitmap[b] = IF b \in F THEN "verified" ELSE s.vbitmap[b]
  BY <1>1, <1>2, <1>4, <1>7
<1>10. /\ r.networks = s.networks /\ r.verifier = s.verifier /\ r.asserts = s.asserts
       /\ \A c \in Chunks(Primary) :
             r.bitmap[Primary][c] = IF c \in Escalated(s, Open(s, F)) \cup TakenBack(s, Open(s, F))
                                    THEN "complete" ELSE s.bitmap[Primary][c]
       /\ \A f \in Secondaries : \A c \in Chunks(f) :
             \/ r.bitmap[f][c] = s.bitmap[f][c]
             \/ \A b \in BlocksOf(f, c) : r.vbitmap[b] = "verified"
  BY <1>2, <1>4, <1>7
<1> QED
  BY <1>7, <1>8, <1>9, <1>10 DEF r, F

-----------------------------------------------------------------------------
(* The invariant of a swarmer.  It is stated of a swarmer s rather than of *)
(* the variable because the handlers compose the internal functions.       *)

\* s_verified_bitmap mirrors s_blocks.
Mirrors(s) ==
    \A b \in Blocks : /\ s.blocks[b] = "Empty" <=> s.vbitmap[b] = "missing"
                      /\ s.blocks[b] = "Partial" <=> s.vbitmap[b] = "partial"
                      /\ s.blocks[b] = "Complete" <=> s.vbitmap[b] = "complete"
                      /\ s.blocks[b] = "Verified" <=> s.vbitmap[b] = "verified"

\* The bitmap of the primary follows its blocks.
PrimaryFollows(s) ==
    s.verifier[Primary] # "NoVerification" =>
    \A c \in Chunks(Primary) : \A b \in BlocksOf(Primary, c) :
        /\ s.bitmap[Primary][c] = "verified" <=> s.blocks[b] = "Verified"
        /\ s.bitmap[Primary][c] = "complete" => s.blocks[b] = "Complete"

\* No secondary, merged or not, is ahead of the blocks.
SecondariesFollow(s) ==
    \A f \in Secondaries : \A c \in Chunks(f) :
        s.bitmap[f][c] \in Finished => \A b \in BlocksOf(f, c) : s.blocks[b] = "Verified"

\* A primary that does not verify stays alone.
StaysAlone(s) == s.verifier[Primary] = "NoVerification" => s.networks = {Primary}

Good(s) == /\ IsSwarmer(s)
           /\ Mirrors(s)
           /\ PrimaryFollows(s)
           /\ SecondariesFollow(s)
           /\ StaysAlone(s)

VerifiedIn(s) == {b \in Blocks : s.blocks[b] = "Verified"}

\* Blocks that fill up keep the invariant, whichever they are.
LEMMA GoodCompletedBlock ==
    ASSUME NEW s, Good(s), NEW B \in SUBSET Blocks
    PROVE  /\ Good(SetCompletedBlock(s, B))
           /\ VerifiedIn(SetCompletedBlock(s, B)) = VerifiedIn(s)
<1> DEFINE r == SetCompletedBlock(s, B)
           O == Open(s, B)
<1>1. IsSwarmer(s) /\ Mirrors(s) /\ PrimaryFollows(s) /\ SecondariesFollow(s) /\ StaysAlone(s)
  BY DEF Good
<1>2. /\ IsSwarmer(r)
      /\ r.networks = s.networks /\ r.verifier = s.verifier /\ r.asserts = s.asserts
      /\ \A b \in Blocks : r.blocks[b] = IF b \in O THEN "Complete" ELSE s.blocks[b]
      /\ \A b \in Blocks : r.vbitmap[b] = IF b \in O THEN "complete" ELSE s.vbitmap[b]
      /\ \A f \in Secondaries : r.bitmap[f] = s.bitmap[f]
      /\ \A c \in Chunks(Primary) :
            r.bitmap[Primary][c] = IF c \in Escalated(s, O) \cup TakenBack(s, O)
                                   THEN "complete" ELSE s.bitmap[Primary][c]
  BY <1>1, CompletedBlockFacts
<1>3. \A b \in O : b \in Blocks /\ s.blocks[b] \in {"Empty", "Partial"}
  BY DEF Open
<1> HIDE DEF r, O
<1>4. TakenBack(s, O) = {}
  BY <1>1, <1>3 DEF TakenBack, Touching, Mirrors, BlocksOf
<1>5. \A c \in Escalated(s, O) : \A b \in BlocksOf(Primary, c) : r.blocks[b] = "Complete"
  <2> SUFFICES ASSUME NEW c \in Escalated(s, O), NEW b \in BlocksOf(Primary, c)
               PROVE  r.blocks[b] = "Complete"
    OBVIOUS
  <2>1. b \in Blocks /\ Put(s.vbitmap, O, "complete")[b] = "complete"
    BY DEF Escalated, BlocksOf
  <2>2. b \in O \/ s.vbitmap[b] = "complete"
    BY <1>1, <2>1 DEF Put, IsSwarmer
  <2> QED
    BY <1>1, <1>2, <2>1, <2>2 DEF Mirrors
<1>6. Mirrors(r)
  BY <1>1, <1>2 DEF Mirrors
<1>7. PrimaryFollows(r)
  <2> SUFFICES ASSUME r.verifier[Primary] # "NoVerification",
                      NEW c \in Chunks(Primary), NEW b \in BlocksOf(Primary, c)
               PROVE  /\ r.bitmap[Primary][c] = "verified" <=> r.blocks[b] = "Verified"
                      /\ r.bitmap[Primary][c] = "complete" => r.blocks[b] = "Complete"
    BY DEF PrimaryFollows
  <2>1. b \in Blocks
    BY DEF BlocksOf
  <2>2. CASE c \in Escalated(s, O)
    BY <1>2, <1>5, <2>2
  <2>3. CASE c \notin Escalated(s, O)
    <3>1. r.bitmap[Primary][c] = s.bitmap[Primary][c]
      BY <1>2, <1>4, <2>3
    <3>2. /\ s.bitmap[Primary][c] = "verified" <=> s.blocks[b] = "Verified"
          /\ s.bitmap[Primary][c] = "complete" => s.blocks[b] = "Complete"
      BY <1>1, <1>2 DEF PrimaryFollows
    <3> QED
      BY <1>2, <1>3, <2>1, <3>1, <3>2
  <2> QED
    BY <2>2, <2>3
<1>8. SecondariesFollow(r)
  BY <1>1, <1>2, <1>3 DEF SecondariesFollow, BlocksOf
<1>9. StaysAlone(r)
  BY <1>1, <1>2 DEF StaysAlone
<1>10. VerifiedIn(r) = VerifiedIn(s)
  BY <1>2, <1>3 DEF VerifiedIn
<1> QED
  BY <1>2, <1>6, <1>7, <1>8, <1>9, <1>10 DEF Good, r

\* A primary without verification tags its full blocks verified at once.
LEMMA GoodVerifiedBlock ==
    ASSUME NEW s, Good(s), s.verifier[Primary] = "NoVerification", NEW B \in SUBSET Blocks
    PROVE  LET r == SetVerifiedBlock(s, B)
           IN  /\ Good(r)
               /\ r.verifier = s.verifier /\ r.asserts = s.asserts
               /\ VerifiedIn(s) \subseteq VerifiedIn(r)
<1> DEFINE r == SetVerifiedBlock(s, B)
<1>1. IsSwarmer(s) /\ Mirrors(s) /\ SecondariesFollow(s) /\ StaysAlone(s)
  BY DEF Good
<1>2. /\ IsSwarmer(r)
      /\ r.networks = s.networks /\ r.verifier = s.verifier /\ r.asserts = s.asserts
      /\ \A b \in Blocks : r.blocks[b] = IF b \in B THEN "Verified" ELSE s.blocks[b]
      /\ \A b \in Blocks : r.vbitmap[b] = IF b \in Fresh(s, B) THEN "verified" ELSE s.vbitmap[b]
      /\ \A f \in Secondaries : \A c \in Chunks(f) :
            \/ r.bitmap[f][c] = s.bitmap[f][c]
            \/ \A b \in BlocksOf(f, c) : r.vbitmap[b] = "verified"
  BY <1>1, VerifiedBlockFacts
<1> HIDE DEF r
<1>3. Mirrors(r)
  BY <1>1, <1>2 DEF Mirrors, Fresh
<1>4. SecondariesFollow(r)
  BY <1>1, <1>2, <1>3 DEF SecondariesFollow, BlocksOf, Mirrors
<1>5. PrimaryFollows(r) /\ StaysAlone(r)
  BY <1>1, <1>2 DEF PrimaryFollows, StaysAlone
<1> QED
  BY <1>2, <1>3, <1>4, <1>5 DEF Good, VerifiedIn, r

\* set_frontend_state_verified of the primary tags its blocks, and passes them on.
LEMMA GoodVerifiedPrimary ==
    ASSUME NEW s, Good(s), NEW C \in SUBSET Chunks(Primary)
    PROVE  LET r == SetFrontendStateVerified(s, Primary, C)
           IN  /\ Good(r)
               /\ r.networks = s.networks /\ r.verifier = s.verifier /\ r.asserts = s.asserts
               /\ \A c \in Chunks(Primary) :
                     r.bitmap[Primary][c] = IF c \in C THEN "verified" ELSE s.bitmap[Primary][c]
               /\ \A b \in Blocks : r.blocks[b] = "Verified" =>
                     s.blocks[b] = "Verified" \/ ChunkOf[Primary][b] \in C
               /\ VerifiedIn(s) \subseteq VerifiedIn(r)
<1> DEFINE D == {c \in C : s.bitmap[Primary][c] # "verified"}
           t == [s EXCEPT !.bitmap[Primary] = Put(@, D, "verified"),
                          !.ncomplete[Primary] =
                              @ + Cardinality(D \cap InState(s, Primary, Unfinished)),
                          !.nverified[Primary] = @ + Cardinality(D)]
           U == UNION {BlocksOf(Primary, c) : c \in D}
           r == SetFrontendStateVerified(s, Primary, C)
<1>1. IsSwarmer(s) /\ Mirrors(s) /\ PrimaryFollows(s) /\ SecondariesFollow(s) /\ StaysAlone(s)
  BY DEF Good
<1>2. r = SetVerifiedBlock(t, U)
  BY DEF SetFrontendStateVerified
<1>3. /\ DOMAIN t = DOMAIN s
      /\ t.blocks = s.blocks /\ t.remaining = s.remaining /\ t.vbitmap = s.vbitmap
      /\ t.bitmap = [s.bitmap EXCEPT ![Primary] = Put(s.bitmap[Primary], D, "verified")]
      /\ t.ncomplete = [s.ncomplete EXCEPT ![Primary] =
             s.ncomplete[Primary] + Cardinality(D \cap InState(s, Primary, Unfinished))]
      /\ t.nverified = [s.nverified EXCEPT ![Primary] = s.nverified[Primary] + Cardinality(D)]
      /\ t.networks = s.networks /\ t.verifier = s.verifier /\ t.asserts = s.asserts
  <2> HIDE DEF D
  <2> QED
    BY <1>1 DEF IsSwarmer
<1>4. /\ D \subseteq C
      /\ \A c \in C : c \notin D => s.bitmap[Primary][c] = "verified"
  OBVIOUS
<1>5. \A b \in Blocks : b \in U <=> ChunkOf[Primary][b] \in D
  BY ChunkFacts, FrontendFacts DEF BlocksOf
<1>6. U \in SUBSET Blocks
  BY DEF BlocksOf
<1> HIDE DEF r, t, D, U
<1>7. /\ t.bitmap = [f \in Frontends |-> t.bitmap[f]]
      /\ t.bitmap[Primary] \in [Chunks(Primary) -> VBStates]
      /\ \A c \in Chunks(Primary) :
            t.bitmap[Primary][c] = IF c \in D THEN "verified" ELSE s.bitmap[Primary][c]
      /\ \A f \in Secondaries : t.bitmap[f] = s.bitmap[f]
  <2>1. /\ s.bitmap = [f \in Frontends |-> s.bitmap[f]]
        /\ s.bitmap[Primary] \in [Chunks(Primary) -> VBStates]
    BY <1>1, FrontendFacts DEF IsSwarmer, IsBitmap
  <2>2. t.bitmap = [f \in Frontends |-> IF f = Primary THEN Put(s.bitmap[Primary], D, "verified")
                                                       ELSE s.bitmap[f]]
    BY <1>3, <2>1, FrontendFacts
  <2>3. t.bitmap[Primary] = Put(s.bitmap[Primary], D, "verified")
    BY <2>2, FrontendFacts
  <2>4. /\ t.bitmap = [f \in Frontends |-> t.bitmap[f]]
        /\ \A f \in Secondaries : t.bitmap[f] = s.bitmap[f]
    BY <2>2, FrontendFacts
  <2> QED
    BY <2>1, <2>3, <2>4 DEF Put, VBStates
<1>8. IsSwarmer(t)
  <2>1. Cardinality(D) \in Int /\ Cardinality(D \cap InState(s, Primary, Unfinished)) \in Int
    BY <1>4, ChunkSets, FrontendFacts
  <2>2. t.ncomplete \in [Frontends -> Int] /\ t.nverified \in [Frontends -> Int]
    BY <1>1, <1>3, <2>1 DEF IsSwarmer
  <2>3. IsBitmap(t.bitmap)
    <3>1. \A f \in Frontends : s.bitmap[f] \in [Chunks(f) -> VBStates]
      BY <1>1 DEF IsBitmap, IsSwarmer
    <3>2. \A f \in Frontends : t.bitmap[f] \in [Chunks(f) -> VBStates]
      BY <1>7, <3>1, FrontendFacts
    <3> QED
      BY <1>7, <3>2 DEF IsBitmap
  <2> QED
    BY <1>1, <1>3, <2>2, <2>3 DEF IsSwarmer
<1>9. /\ IsSwarmer(r)
      /\ r.networks = t.networks /\ r.verifier = t.verifier /\ r.asserts = t.asserts
      /\ \A b \in Blocks : r.blocks[b] = IF b \in U THEN "Verified" ELSE t.blocks[b]
      /\ \A b \in Blocks : r.vbitmap[b] = IF b \in Fresh(t, U) THEN "verified" ELSE t.vbitmap[b]
      /\ \A c \in Chunks(Primary) :
            r.bitmap[Primary][c] =
               IF c \in Escalated(t, Open(t, Fresh(t, U))) \cup TakenBack(t, Open(t, Fresh(t, U)))
               THEN "complete" ELSE t.bitmap[Primary][c]
      /\ \A f \in Secondaries : \A c \in Chunks(f) :
            \/ r.bitmap[f][c] = t.bitmap[f][c]
            \/ \A b \in BlocksOf(f, c) : r.vbitmap[b] = "verified"
  BY <1>2, <1>6, <1>8, VerifiedBlockFacts
<1>10. \A b \in Open(t, Fresh(t, U)) : b \in Blocks /\ b \in U /\ s.blocks[b] \in {"Empty", "Partial"}
  BY <1>3, <1>6 DEF Open, Fresh
<1>11. /\ Escalated(t, Open(t, Fresh(t, U))) = {}
       /\ TakenBack(t, Open(t, Fresh(t, U))) = {}
  <2>1. ASSUME NEW c \in Chunks(Primary), NEW b \in BlocksOf(Primary, c) \cap Open(t, Fresh(t, U))
        PROVE  t.bitmap[Primary][c] = "verified" /\ t.vbitmap[b] # "verified"
    BY <1>1, <1>3, <1>5, <1>7, <1>10 DEF Mirrors, BlocksOf
  <2> QED
    BY <2>1 DEF Escalated, TakenBack, Touching, InState, Unfinished
<1>12. \A c \in Chunks(Primary) :
          r.bitmap[Primary][c] = IF c \in C THEN "verified" ELSE s.bitmap[Primary][c]
  BY <1>4, <1>7, <1>9, <1>11
<1>13. Mirrors(r)
  BY <1>1, <1>3, <1>9 DEF Mirrors, Fresh
<1>14. PrimaryFollows(r)
  <2> SUFFICES ASSUME r.verifier[Primary] # "NoVerification",
                      NEW c \in Chunks(Primary), NEW b \in BlocksOf(Primary, c)
               PROVE  /\ r.bitmap[Primary][c] = "verified" <=> r.blocks[b] = "Verified"
                      /\ r.bitmap[Primary][c] = "complete" => r.blocks[b] = "Complete"
    BY DEF PrimaryFollows
  <2>1. b \in Blocks /\ ChunkOf[Primary][b] = c
    BY DEF BlocksOf
  <2>2. /\ s.bitmap[Primary][c] = "verified" <=> s.blocks[b] = "Verified"
        /\ s.bitmap[Primary][c] = "complete" => s.blocks[b] = "Complete"
    BY <1>1, <1>3, <1>9 DEF PrimaryFollows
  <2>3. r.bitmap[Primary][c] = IF c \in D THEN "verified" ELSE s.bitmap[Primary][c]
    BY <1>7, <1>9, <1>11
  <2>4. r.blocks[b] = IF c \in D THEN "Verified" ELSE s.blocks[b]
    BY <1>3, <1>5, <1>9, <2>1
  <2> QED
    BY <2>2, <2>3, <2>4
<1>15. SecondariesFollow(r)
  BY <1>1, <1>3, <1>7, <1>9, <1>13 DEF SecondariesFollow, BlocksOf, Mirrors
<1>16. StaysAlone(r)
  BY <1>1, <1>3, <1>9 DEF StaysAlone
<1>17. /\ \A b \in Blocks : r.blocks[b] = "Verified" =>
             s.blocks[b] = "Verified" \/ ChunkOf[Primary][b] \in C
       /\ VerifiedIn(s) \subseteq VerifiedIn(r)
  BY <1>3, <1>4, <1>5, <1>9 DEF VerifiedIn
<1> QED
  BY <1>3, <1>9, <1>12, <1>13, <1>14, <1>15, <1>16, <1>17 DEF Good, r

\* set_frontend_state_verified of a secondary touches its own bitmap only.
LEMMA GoodVerifiedSecondary ==
    ASSUME NEW s, Good(s), NEW f \in Secondaries, NEW C \in SUBSET Chunks(f),
           \A c \in C : \A b \in BlocksOf(f, c) : s.blocks[b] = "Verified"
    PROVE  LET r == SetFrontendStateVerified(s, f, C)
           IN  /\ Good(r)
               /\ r.networks = s.networks /\ r.verifier = s.verifier /\ r.asserts = s.asserts
               /\ r.blocks = s.blocks
               /\ \A c \in Chunks(f) :
                     r.bitmap[f][c] = IF c \in C THEN "verified" ELSE s.bitmap[f][c]
<1> DEFINE D == {c \in C : s.bitmap[f][c] # "verified"}
           r == SetFrontendStateVerified(s, f, C)
<1>1. IsSwarmer(s) /\ Mirrors(s) /\ PrimaryFollows(s) /\ SecondariesFollow(s) /\ StaysAlone(s)
  BY DEF Good
<1>2. f \in Frontends /\ f # Primary
  BY FrontendFacts
<1>3. /\ DOMAIN r = DOMAIN s
      /\ r.blocks = s.blocks /\ r.remaining = s.remaining /\ r.vbitmap = s.vbitmap
      /\ r.bitmap = [s.bitmap EXCEPT ![f] = Put(s.bitmap[f], D, "verified")]
      /\ r.ncomplete = [s.ncomplete EXCEPT ![f] =
             s.ncomplete[f] + Cardinality(D \cap InState(s, f, Unfinished))]
      /\ r.nverified = [s.nverified EXCEPT ![f] = s.nverified[f] + Cardinality(D)]
      /\ r.networks = s.networks /\ r.verifier = s.verifier /\ r.asserts = s.asserts
  BY <1>1, <1>2 DEF IsSwarmer, SetFrontendStateVerified
<1>4. /\ D \subseteq C
      /\ \A c \in C : c \notin D => s.bitmap[f][c] = "verified"
  OBVIOUS
<1> HIDE DEF r, D
<1>5. \A g \in Frontends : s.bitmap[g] \in [Chunks(g) -> VBStates]
  BY <1>1 DEF IsBitmap, IsSwarmer
<1>6. r.bitmap = [g \in Frontends |-> IF g = f THEN Put(s.bitmap[f], D, "verified") ELSE s.bitmap[g]]
  <2>1. s.bitmap = [g \in Frontends |-> s.bitmap[g]]
    BY <1>1 DEF IsSwarmer, IsBitmap
  <2> QED
    BY <1>2, <1>3, <2>1
<1>7. /\ r.bitmap[f] \in [Chunks(f) -> VBStates]
      /\ \A c \in Chunks(f) : r.bitmap[f][c] = IF c \in D THEN "verified" ELSE s.bitmap[f][c]
  <2>1. r.bitmap[f] = Put(s.bitmap[f], D, "verified")
    BY <1>2, <1>6
  <2> QED
    BY <1>2, <1>5, <2>1 DEF Put, VBStates
<1>8. /\ r.bitmap = [g \in Frontends |-> r.bitmap[g]]
      /\ \A g \in Frontends : g # f => r.bitmap[g] = s.bitmap[g]
  BY <1>6
<1>9. IsSwarmer(r)
  <2>1. Cardinality(D) \in Int /\ Cardinality(D \cap InState(s, f, Unfinished)) \in Int
    BY <1>2, <1>4, ChunkSets
  <2>2. r.ncomplete \in [Frontends -> Int] /\ r.nverified \in [Frontends -> Int]
    BY <1>1, <1>2, <1>3, <2>1 DEF IsSwarmer
  <2>3. IsBitmap(r.bitmap)
    <3>1. \A g \in Frontends : r.bitmap[g] \in [Chunks(g) -> VBStates]
      BY <1>5, <1>7, <1>8
    <3> QED
      BY <1>8, <3>1 DEF IsBitmap
  <2> QED
    BY <1>1, <1>3, <2>2, <2>3 DEF IsSwarmer
<1>10. Mirrors(r) /\ StaysAlone(r)
  BY <1>1, <1>3 DEF Mirrors, StaysAlone
<1>11. PrimaryFollows(r)
  <2>1. r.bitmap[Primary] = s.bitmap[Primary]
    BY <1>2, <1>8, FrontendFacts
  <2> QED
    BY <1>1, <1>3, <2>1 DEF PrimaryFollows
<1>12. SecondariesFollow(r)
  <2> SUFFICES ASSUME NEW g \in Secondaries, NEW c \in Chunks(g), r.bitmap[g][c] \in Finished,
                      NEW b \in BlocksOf(g, c)
               PROVE  r.blocks[b] = "Verified"
    BY DEF SecondariesFollow
  <2>1. CASE g = f /\ c \in D
    BY <1>3, <1>4, <2>1
  <2>2. CASE ~ (g = f /\ c \in D)
    <3>1. r.bitmap[g][c] = s.bitmap[g][c]
      BY <1>7, <1>8, <2>2, FrontendFacts
    <3> QED
      BY <1>1, <1>3, <3>1 DEF SecondariesFollow
  <2> QED
    BY <2>1, <2>2
<1> QED
  BY <1>3, <1>4, <1>7, <1>9, <1>10, <1>11, <1>12 DEF Good, r

-----------------------------------------------------------------------------
\* The first half of set_frontend_state_missing.
LEMMA RejectedFacts ==
    ASSUME NEW s, IsSwarmer(s), NEW f \in Frontends, NEW C \in SUBSET Chunks(f)
    PROVE  LET r == Rejected(s, f, C) IN
           /\ IsSwarmer(r)
           /\ r.networks = s.networks /\ r.verifier = s.verifier /\ r.vbitmap = s.vbitmap
           /\ r.asserts = s.asserts \cup {n \in Assertions : \E c \in Reached(s, f, C) :
                                    IF n = 1288 THEN Refuses(s, f, c) ELSE Aborts(s, f, c)}
           /\ \A b \in Blocks : r.blocks[b] = IF b \in Lost(s, f, C) THEN "Empty" ELSE s.blocks[b]
           /\ \A c \in Chunks(f) : r.bitmap[f][c] = CASE c \in Failed(s, f, C) -> "missing"
                                                      [] c \in Tagged(s, f, C) \ Failed(s, f, C) -> "partial"
                                                      [] OTHER -> s.bitmap[f][c]
           /\ \A g \in Frontends : g # f => r.bitmap[g] = s.bitmap[g]
<1> DEFINE r == Rejected(s, f, C)
           T == Tagged(s, f, C)
           F == Failed(s, f, C)
           L == Lost(s, f, C)
           A == {n \in Assertions : \E c \in Reached(s, f, C) :
                    IF n = 1288 THEN Refuses(s, f, c) ELSE Aborts(s, f, c)}
<1>1. /\ DOMAIN r = DOMAIN s
      /\ r.blocks = Put(s.blocks, L, "Empty")
      /\ r.remaining = [b \in Blocks |-> IF b \in L THEN Size[b] ELSE s.remaining[b]]
      /\ r.vbitmap = s.vbitmap
      /\ r.bitmap = [s.bitmap EXCEPT ![f] = Put(Put(s.bitmap[f], T, "partial"), F, "missing")]
      /\ r.ncomplete = [s.ncomplete EXCEPT ![f] = s.ncomplete[f] - Cardinality(T)]
      /\ r.nverified = s.nverified
      /\ r.networks = s.networks /\ r.verifier = s.verifier
      /\ r.asserts = s.asserts \cup A
  <2> HIDE DEF A, T, F, L
  <2> QED
    BY DEF IsSwarmer, Rejected, A, T, F, L
<1>2. F \subseteq T /\ T \subseteq C
  BY DEF Failed, Tagged, Reached
<1>3. L \subseteq Blocks
  BY DEF Lost, Walked
<1>4. A \subseteq Assertions
  OBVIOUS
<1> HIDE DEF r, T, F, L, A
<1>5. \A g \in Frontends : s.bitmap[g] \in [Chunks(g) -> VBStates]
  BY DEF IsBitmap, IsSwarmer
<1>6. r.bitmap = [g \in Frontends |-> IF g = f THEN Put(Put(s.bitmap[f], T, "partial"), F, "missing")
                                               ELSE s.bitmap[g]]
  <2>1. s.bitmap = [g \in Frontends |-> s.bitmap[g]]
    BY DEF IsSwarmer, IsBitmap
  <2> QED
    BY <1>1, <2>1
<1>7. /\ r.bitmap[f] \in [Chunks(f) -> VBStates]
      /\ \A c \in Chunks(f) : r.bitmap[f][c] = CASE c \in F -> "missing"
                                                 [] c \in T \ F -> "partial"
                                                 [] OTHER -> s.bitmap[f][c]
  <2>1. r.bitmap[f] = Put(Put(s.bitmap[f], T, "partial"), F, "missing")
    BY <1>6
  <2> QED
    BY <1>5, <2>1 DEF Put, VBStates
<1>8. /\ r.bitmap = [g \in Frontends |-> r.bitmap[g]]
      /\ \A g \in Frontends : g # f => r.bitmap[g] = s.bitmap[g]
  BY <1>6
<1>9. /\ r.blocks \in [Blocks -> {"Empty", "Partial", "Complete", "Verified"}]
      /\ \A b \in Blocks : r.blocks[b] = IF b \in L THEN "Empty" ELSE s.blocks[b]
  BY <1>1 DEF IsSwarmer, Put
<1>10. r.remaining \in [Blocks -> Nat] /\ \A b \in Blocks : r.remaining[b] <= Size[b]
  BY <1>1, SizeAssumption DEF IsSwarmer
<1>11. r.ncomplete \in [Frontends -> Int]
  BY <1>1, <1>2, ChunkSets DEF IsSwarmer
<1>12. IsBitmap(r.bitmap)
  <2>1. \A g \in Frontends : r.bitmap[g] \in [Chunks(g) -> VBStates]
    BY <1>5, <1>7, <1>8
  <2> QED
    BY <1>8, <2>1 DEF IsBitmap
<1>13. IsSwarmer(r)
  <2>1. r.asserts \subseteq Assertions
    <3>1. s.asserts \subseteq Assertions
      BY DEF IsSwarmer
    <3>2. r.asserts = s.asserts \cup A
      BY <1>1
    <3> QED
      BY <1>4, <3>1, <3>2
  <2> QED
    BY <1>1, <1>9, <1>10, <1>11, <1>12, <2>1 DEF IsSwarmer
<1> QED
  BY <1>1, <1>7, <1>8, <1>9, <1>13 DEF r, T, F, L, A

\* Complete chunks of the primary that fail lose their data, and nothing else.
LEMMA GoodMissingPrimary ==
    ASSUME NEW s, Good(s), s.verifier[Primary] # "NoVerification",
           NEW C \in SUBSET Chunks(Primary),
           \A c \in C : s.bitmap[Primary][c] = "complete"
    PROVE  LET r == SetFrontendStateMissing(s, Primary, C)
           IN  /\ Good(r)
               /\ r.networks = s.networks /\ r.verifier = s.verifier /\ r.asserts = s.asserts
               /\ VerifiedIn(r) = VerifiedIn(s)
<1> DEFINE u == Rejected(s, Primary, C)
           W == {b \in Walked(s, Primary, C) : s.blocks[b] \in {"Empty", "Complete"}}
           r == SetFrontendStateMissing(s, Primary, C)
           T == Tagged(s, Primary, C)
           F == Failed(s, Primary, C)
           L == Lost(s, Primary, C)
<1>1. IsSwarmer(s) /\ Mirrors(s) /\ PrimaryFollows(s) /\ SecondariesFollow(s) /\ StaysAlone(s)
  BY DEF Good
<1>2. \A c \in C : \A b \in BlocksOf(Primary, c) :
         b \in Blocks /\ s.blocks[b] = "Complete" /\ s.vbitmap[b] = "complete"
  BY <1>1 DEF PrimaryFollows, Mirrors, BlocksOf
<1>3. /\ F = C /\ T = C
      /\ \A c \in Reached(s, Primary, C) : ~ Refuses(s, Primary, c) /\ ~ Aborts(s, Primary, c)
  <2>1. \A c \in C : ~ Refuses(s, Primary, c) /\ ~ Aborts(s, Primary, c)
    BY <1>2, ChunkFacts, FrontendFacts DEF Refuses, Aborts
  <2>2. Reached(s, Primary, C) = C
    BY <2>1 DEF Reached
  <2>3. T = C
    BY <2>1, <2>2 DEF Tagged
  <2> QED
    BY <1>2, <2>1, <2>2, <2>3 DEF Failed
<1>4. \A b \in Blocks : b \in Walked(s, Primary, C) <=> ChunkOf[Primary][b] \in C
  <2> SUFFICES ASSUME NEW b \in Blocks, ChunkOf[Primary][b] \in C
               PROVE  b \in Walked(s, Primary, C)
    BY <1>3 DEF Walked
  <2>1. \A k \in BlocksOf(Primary, ChunkOf[Primary][b]) : s.blocks[k] # "Verified"
    BY <1>2
  <2> QED
    BY <1>3, <2>1 DEF Walked
<1>5. /\ \A b \in Blocks : b \in L <=> ChunkOf[Primary][b] \in C
      /\ \A b \in Blocks : b \in W <=> ChunkOf[Primary][b] \in C
      /\ W \in SUBSET Blocks
  <2>1. \A b \in Blocks : ChunkOf[Primary][b] \in C => s.blocks[b] = "Complete"
    BY <1>2 DEF BlocksOf
  <2> QED
    BY <1>4, <2>1 DEF Lost, Walked
<1> HIDE DEF W, T, F, L
<1>6. /\ IsSwarmer(u)
      /\ u.networks = s.networks /\ u.verifier = s.verifier /\ u.vbitmap = s.vbitmap
      /\ u.asserts = s.asserts \cup {n \in Assertions : \E c \in Reached(s, Primary, C) :
                               IF n = 1288 THEN Refuses(s, Primary, c) ELSE Aborts(s, Primary, c)}
      /\ \A b \in Blocks : u.blocks[b] = IF b \in L THEN "Empty" ELSE s.blocks[b]
      /\ \A c \in Chunks(Primary) : u.bitmap[Primary][c] = CASE c \in F -> "missing"
                                                 [] c \in T \ F -> "partial"
                                                 [] OTHER -> s.bitmap[Primary][c]
      /\ \A g \in Frontends : g # Primary => u.bitmap[g] = s.bitmap[g]
  BY <1>1, FrontendFacts, RejectedFacts DEF T, F, L
<1>7. r = SetSwarmerStateMissing(u, W)
  BY DEF SetFrontendStateMissing, W
<1> HIDE DEF r, u
<1>8. /\ IsSwarmer(r)
      /\ r.blocks = u.blocks /\ r.networks = u.networks /\ r.verifier = u.verifier /\ r.asserts = u.asserts
      /\ \A b \in Blocks : r.vbitmap[b] = IF b \in W /\ u.vbitmap[b] \in Finished
                                          THEN "missing" ELSE u.vbitmap[b]
      /\ \A f \in Frontends : \A c \in Chunks(f) :
            r.bitmap[f][c] = IF c \in Voided(u, W, f) THEN "missing" ELSE u.bitmap[f][c]
  BY <1>5, <1>6, <1>7, MissingFacts
<1>9. \A b \in Blocks : r.blocks[b] = IF ChunkOf[Primary][b] \in C THEN "Empty" ELSE s.blocks[b]
  BY <1>5, <1>6, <1>8
<1>10. \A b \in Blocks : r.vbitmap[b] = IF ChunkOf[Primary][b] \in C THEN "missing" ELSE s.vbitmap[b]
  <2>1. \A b \in Blocks : ChunkOf[Primary][b] \in C => s.vbitmap[b] = "complete"
    BY <1>2 DEF BlocksOf
  <2> QED
    BY <1>5, <1>6, <1>8, <2>1 DEF Finished
<1>11. ASSUME NEW f \in Frontends, NEW c \in Chunks(f), r.bitmap[f][c] # u.bitmap[f][c]
       PROVE  u.bitmap[f][c] = "partial" /\ r.bitmap[f][c] = "missing"
  BY <1>8, <1>11 DEF Voided, InState
<1>12. Mirrors(r)
  BY <1>1, <1>9, <1>10 DEF Mirrors
<1>13. PrimaryFollows(r)
  <2> SUFFICES ASSUME NEW c \in Chunks(Primary), NEW b \in BlocksOf(Primary, c)
               PROVE  /\ r.bitmap[Primary][c] = "verified" <=> r.blocks[b] = "Verified"
                      /\ r.bitmap[Primary][c] = "complete" => r.blocks[b] = "Complete"
    BY DEF PrimaryFollows
  <2>1. b \in Blocks /\ ChunkOf[Primary][b] = c
    BY DEF BlocksOf
  <2>2. /\ s.bitmap[Primary][c] = "verified" <=> s.blocks[b] = "Verified"
        /\ s.bitmap[Primary][c] = "complete" => s.blocks[b] = "Complete"
    BY <1>1 DEF PrimaryFollows
  <2>3. u.bitmap[Primary][c] = IF c \in C THEN "missing" ELSE s.bitmap[Primary][c]
    BY <1>3, <1>6
  <2>4. CASE c \in C
    BY <1>9, <1>11, <2>1, <2>3, <2>4, FrontendFacts
  <2>5. CASE c \notin C
    BY <1>9, <1>11, <2>1, <2>2, <2>3, <2>5, FrontendFacts
  <2> QED
    BY <2>4, <2>5
<1>14. SecondariesFollow(r)
  <2> SUFFICES ASSUME NEW g \in Secondaries, NEW c \in Chunks(g), r.bitmap[g][c] \in Finished,
                      NEW b \in BlocksOf(g, c)
               PROVE  r.blocks[b] = "Verified"
    BY DEF SecondariesFollow
  <2>1. s.bitmap[g][c] \in Finished
    BY <1>6, <1>11, FrontendFacts DEF Finished
  <2>2. b \in Blocks /\ s.blocks[b] = "Verified"
    BY <1>1, <2>1 DEF SecondariesFollow, BlocksOf
  <2>3. ChunkOf[Primary][b] \notin C
    BY <1>2, <2>2 DEF BlocksOf
  <2> QED
    BY <1>9, <2>2, <2>3
<1>15. StaysAlone(r)
  BY <1>1, <1>6, <1>8 DEF StaysAlone
<1>16. r.asserts = s.asserts
  <2>1. u.asserts = s.asserts
    BY <1>3, <1>6
  <2> QED
    BY <1>8, <2>1
<1>17. VerifiedIn(r) = VerifiedIn(s)
  BY <1>2, <1>9 DEF VerifiedIn, BlocksOf
<1> QED
  BY <1>6, <1>8, <1>12, <1>13, <1>14, <1>15, <1>16, <1>17 DEF Good, r

\* Complete chunks of a secondary that fail change nothing: an assertion stops them.
LEMMA GoodMissingSecondary ==
    ASSUME NEW s, Good(s), NEW f \in Secondaries, NEW C \in SUBSET Chunks(f),
           \A c \in C : s.bitmap[f][c] = "complete"
    PROVE  LET r == SetFrontendStateMissing(s, f, C)
           IN  /\ Good(r)
               /\ r.networks = s.networks /\ r.verifier = s.verifier
               /\ VerifiedIn(r) = VerifiedIn(s)
               /\ C = {} => r.asserts = s.asserts
<1> DEFINE u == Rejected(s, f, C)
           W == {b \in Walked(s, f, C) : s.blocks[b] \in {"Empty", "Complete"}}
           r == SetFrontendStateMissing(s, f, C)
           T == Tagged(s, f, C)
           F == Failed(s, f, C)
           L == Lost(s, f, C)
<1>1. IsSwarmer(s) /\ Mirrors(s) /\ PrimaryFollows(s) /\ SecondariesFollow(s) /\ StaysAlone(s)
  BY DEF Good
<1>2. f \in Frontends /\ f # Primary
  BY FrontendFacts
<1>3. \A c \in C : Refuses(s, f, c)
  <2> SUFFICES ASSUME NEW c \in C
               PROVE  Refuses(s, f, c)
    OBVIOUS
  <2>1. PICK b \in Blocks : b \in BlocksOf(f, c)
    BY <1>2, ChunkFacts
  <2>2. s.blocks[b] = "Verified"
    BY <1>1, <2>1 DEF SecondariesFollow, Finished
  <2> QED
    BY <1>1, <2>1, <2>2 DEF Refuses, Mirrors
<1>4. T = {} /\ F = {}
  BY <1>3 DEF Tagged, Reached, Failed
<1>5. L = {} /\ W = {} 
  BY <1>4 DEF Lost, Walked
<1> HIDE DEF W, T, F, L
<1>6. /\ IsSwarmer(u)
      /\ u.networks = s.networks /\ u.verifier = s.verifier /\ u.vbitmap = s.vbitmap
      /\ u.asserts = s.asserts \cup {n \in Assertions : \E c \in Reached(s, f, C) :
                               IF n = 1288 THEN Refuses(s, f, c) ELSE Aborts(s, f, c)}
      /\ \A b \in Blocks : u.blocks[b] = IF b \in L THEN "Empty" ELSE s.blocks[b]
      /\ \A c \in Chunks(f) : u.bitmap[f][c] = CASE c \in F -> "missing"
                                                 [] c \in T \ F -> "partial"
                                                 [] OTHER -> s.bitmap[f][c]
      /\ \A g \in Frontends : g # f => u.bitmap[g] = s.bitmap[g]
  BY <1>1, <1>2, RejectedFacts DEF T, F, L
<1>7. r = SetSwarmerStateMissing(u, W)
  BY DEF SetFrontendStateMissing, W
<1> HIDE DEF r, u
<1>8. /\ IsSwarmer(r)
      /\ r.blocks = u.blocks /\ r.networks = u.networks /\ r.verifier = u.verifier /\ r.asserts = u.asserts
      /\ \A b \in Blocks : r.vbitmap[b] = IF b \in W /\ u.vbitmap[b] \in Finished
                                          THEN "missing" ELSE u.vbitmap[b]
      /\ \A g \in Frontends : \A c \in Chunks(g) :
            r.bitmap[g][c] = IF c \in Voided(u, W, g) THEN "missing" ELSE u.bitmap[g][c]
  BY <1>5, <1>6, <1>7, MissingFacts
<1>9. \A g \in Frontends : \A c \in Chunks(g) : r.bitmap[g][c] = s.bitmap[g][c]
  <2>1. \A g \in Frontends : Voided(u, W, g) = {}
    BY <1>5 DEF Voided
  <2>2. \A g \in Frontends : \A c \in Chunks(g) : u.bitmap[g][c] = s.bitmap[g][c]
    BY <1>4, <1>6
  <2> QED
    BY <1>8, <2>1, <2>2
<1>10. \A b \in Blocks : r.blocks[b] = s.blocks[b] /\ r.vbitmap[b] = s.vbitmap[b]
  BY <1>5, <1>6, <1>8
<1>11. Mirrors(r) /\ StaysAlone(r)
  BY <1>1, <1>6, <1>8, <1>10 DEF Mirrors, StaysAlone
<1>12. PrimaryFollows(r)
  BY <1>1, <1>6, <1>8, <1>9, <1>10, FrontendFacts DEF PrimaryFollows, BlocksOf
<1>13. SecondariesFollow(r)
  BY <1>1, <1>9, <1>10, FrontendFacts DEF SecondariesFollow, BlocksOf
<1>14. C = {} => r.asserts = s.asserts
  <2> SUFFICES ASSUME C = {} PROVE u.asserts = s.asserts
    BY <1>8
  <2>1. Reached(s, f, C) = {}
    BY DEF Reached
  <2> QED
    BY <1>6, <2>1
<1>15. VerifiedIn(r) = VerifiedIn(s)
  BY <1>10 DEF VerifiedIn
<1> QED
  BY <1>6, <1>8, <1>11, <1>12, <1>13, <1>14, <1>15 DEF Good, r

\* Chunks that are complete or verified may become verified, in any frontend.
LEMMA GoodVerified ==
    ASSUME NEW s, Good(s), NEW f \in Frontends, NEW C \in SUBSET Chunks(f),
           \A c \in C : s.bitmap[f][c] \in Finished
    PROVE  LET r == SetFrontendStateVerified(s, f, C)
           IN  /\ Good(r)
               /\ r.networks = s.networks /\ r.verifier = s.verifier /\ r.asserts = s.asserts
               /\ \A c \in Chunks(f) :
                     r.bitmap[f][c] = IF c \in C THEN "verified" ELSE s.bitmap[f][c]
               /\ \A b \in VerifiedIn(r) :
                     b \in VerifiedIn(s) \/ (f = Primary /\ ChunkOf[Primary][b] \in C)
               /\ VerifiedIn(s) \subseteq VerifiedIn(r)
<1>1. CASE f = Primary
  BY <1>1, GoodVerifiedPrimary DEF VerifiedIn
<1>2. CASE f # Primary
  <2>1. f \in Secondaries
    BY <1>2, FrontendFacts
  <2>2. \A c \in C : \A b \in BlocksOf(f, c) : s.blocks[b] = "Verified"
    BY <2>1 DEF Good, SecondariesFollow
  <2> QED
    BY <2>1, <2>2, GoodVerifiedSecondary DEF VerifiedIn
<1> QED
  BY <1>1, <1>2

\* Complete chunks may fail, in any frontend that verifies.
LEMMA GoodMissing ==
    ASSUME NEW s, Good(s), NEW f \in Frontends, s.verifier[f] # "NoVerification",
           NEW C \in SUBSET Chunks(f), \A c \in C : s.bitmap[f][c] = "complete"
    PROVE  LET r == SetFrontendStateMissing(s, f, C)
           IN  /\ Good(r)
               /\ r.networks = s.networks /\ r.verifier = s.verifier
               /\ VerifiedIn(r) = VerifiedIn(s)
               /\ f = Primary \/ C = {} => r.asserts = s.asserts
<1>1. CASE f = Primary
  BY <1>1, GoodMissingPrimary
<1>2. CASE f # Primary
  BY <1>2, FrontendFacts, GoodMissingSecondary
<1> QED
  BY <1>1, <1>2

\* The blocks that are verified are right.
Sound(s) == \A b \in VerifiedIn(s) : good[b] = Bytes(b)

\* verify_chunk keeps the invariant; it verifies nothing wrong unless it is
\* forced to, and a sound secondary does not fail.
LEMMA GoodVerifyChunks ==
    ASSUME NEW s, Good(s), NEW f \in Frontends, NEW C
    PROVE  LET r == VerifyChunks(s, f, C)
           IN  /\ Good(r)
               /\ r.networks = s.networks /\ r.verifier = s.verifier
               /\ VerifiedIn(s) \subseteq VerifiedIn(r)
               /\ \A b \in VerifiedIn(r) : \/ b \in VerifiedIn(s) \/ good[b] = Bytes(b)
                                           \/ s.verifier[Primary] = "ForceVerification"
               /\ f = Primary \/ Sound(s) => r.asserts = s.asserts
<1> DEFINE todo == C \cap InState(s, f, {"complete"})
           raising == {c \in todo : ~ HashOk(f, c) /\ (Refuses(s, f, c) \/ Aborts(s, f, c))}
           right == {c \in todo : HashOk(f, c) /\ \A d \in raising : c < d}
           wrong == {c \in todo : ~ HashOk(f, c)}
           all == InState(s, f, {"complete"})
           r == VerifyChunks(s, f, C)
           P(t) == /\ Good(t)
                   /\ t.networks = s.networks /\ t.verifier = s.verifier
                   /\ VerifiedIn(s) \subseteq VerifiedIn(t)
                   /\ \A b \in VerifiedIn(t) : \/ b \in VerifiedIn(s) \/ good[b] = Bytes(b)
                                               \/ s.verifier[Primary] = "ForceVerification"
                   /\ f = Primary \/ Sound(s) => t.asserts = s.asserts
<1>1. r = CASE Trusting(s, f) -> s
            [] s.verifier[f] = "ForceVerification" -> SetFrontendStateVerified(s, f, todo)
            [] s.verifier[f] = "Verification" ->
                  SetFrontendStateMissing(SetFrontendStateVerified(s, f, right), f, wrong)
            [] s.verifier[f] = "FileVerification" ->
                  IF todo = {} \/ InState(s, f, Unfinished) # {} THEN s
                  ELSE IF \A c \in Chunks(f) : HashOk(f, c)
                  THEN SetFrontendStateVerified(s, f, Chunks(f))
                  ELSE SetFrontendStateMissing(s, f, all)
  BY DEF VerifyChunks
<1>2. /\ \A c \in todo : c \in Chunks(f) /\ s.bitmap[f][c] = "complete"
      /\ \A c \in all : c \in Chunks(f) /\ s.bitmap[f][c] = "complete"
      /\ right \subseteq todo /\ wrong \subseteq todo /\ right \cap wrong = {}
      /\ \A c \in right : HashOk(f, c)
      /\ \A c \in wrong : ~ HashOk(f, c)
  BY DEF InState
<1>3. /\ s.verifier[f] \in Verifiers
      /\ \A c \in Chunks(f) : s.bitmap[f][c] \in VBStates
  BY DEF Good, IsSwarmer, IsBitmap
<1>4. \A b \in Blocks : HashOk(f, ChunkOf[f][b]) => good[b] = Bytes(b)
  BY DEF HashOk, BlocksOf
<1>5. ASSUME f # Primary, Sound(s)
      PROVE  \A c \in Chunks(f) : s.bitmap[f][c] \in Finished => HashOk(f, c)
  <2>1. f \in Secondaries
    BY <1>5, FrontendFacts
  <2>2. \A c \in Chunks(f) : s.bitmap[f][c] \in Finished =>
           \A b \in BlocksOf(f, c) : b \in Blocks /\ s.blocks[b] = "Verified"
    BY <2>1 DEF Good, SecondariesFollow, BlocksOf
  <2> QED
    BY <1>5, <2>2 DEF HashOk, Sound, VerifiedIn
<1> HIDE DEF todo, raising, right, wrong, all, r
<1>6. P(s)
  OBVIOUS
<1>7. P(r)
  <2>1. CASE Trusting(s, f)
    <3>1. r = s
      BY <1>1, <2>1 DEF Trusting
    <3> QED
      BY <1>6, <3>1
  <2>2. CASE s.verifier[f] = "ForceVerification"
    <3>1. r = SetFrontendStateVerified(s, f, todo)
      BY <1>1, <2>2 DEF Trusting
    <3>2. todo \in SUBSET Chunks(f) /\ \A c \in todo : s.bitmap[f][c] \in Finished
      BY <1>2 DEF Finished
    <3>3. /\ Good(r)
          /\ r.networks = s.networks /\ r.verifier = s.verifier /\ r.asserts = s.asserts
          /\ \A b \in VerifiedIn(r) :
                b \in VerifiedIn(s) \/ (f = Primary /\ ChunkOf[Primary][b] \in todo)
          /\ VerifiedIn(s) \subseteq VerifiedIn(r)
      BY <3>1, <3>2, GoodVerified
    <3> QED
      BY <2>2, <3>3
  <2>3. CASE s.verifier[f] = "Verification"
    <3> DEFINE t == SetFrontendStateVerified(s, f, right)
    <3>1. r = SetFrontendStateMissing(t, f, wrong)
      BY <1>1, <2>3 DEF Trusting
    <3>2. right \in SUBSET Chunks(f) /\ \A c \in right : s.bitmap[f][c] \in Finished
      BY <1>2 DEF Finished
    <3>3. /\ Good(t)
          /\ t.networks = s.networks /\ t.verifier = s.verifier /\ t.asserts = s.asserts
          /\ \A c \in Chunks(f) : t.bitmap[f][c] = IF c \in right THEN "verified" ELSE s.bitmap[f][c]
          /\ \A b \in VerifiedIn(t) :
                b \in VerifiedIn(s) \/ (f = Primary /\ ChunkOf[Primary][b] \in right)
          /\ VerifiedIn(s) \subseteq VerifiedIn(t)
      BY <3>2, GoodVerified
    <3> HIDE DEF t
    <3>4. wrong \in SUBSET Chunks(f) /\ \A c \in wrong : t.bitmap[f][c] = "complete"
      BY <1>2, <3>3
    <3>5. /\ Good(r)
          /\ r.networks = t.networks /\ r.verifier = t.verifier
          /\ VerifiedIn(r) = VerifiedIn(t)
          /\ f = Primary \/ wrong = {} => r.asserts = t.asserts
      BY <2>3, <3>1, <3>3, <3>4, GoodMissing
    <3>6. f # Primary /\ Sound(s) => wrong = {}
      BY <1>2, <1>5 DEF Finished
    <3>7. \A b \in VerifiedIn(r) : b \in VerifiedIn(s) \/ good[b] = Bytes(b)
      BY <1>2, <1>4, <3>3, <3>5 DEF VerifiedIn
    <3> QED
      BY <3>3, <3>5, <3>6, <3>7
  <2>4. CASE s.verifier[f] = "FileVerification"
    <3>1. CASE todo = {} \/ InState(s, f, Unfinished) # {}
      <4>1. r = s
        BY <1>1, <2>4, <3>1 DEF Trusting
      <4> QED
        BY <1>6, <4>1
    <3>2. CASE ~ (todo = {} \/ InState(s, f, Unfinished) # {})
      <4>1. \A c \in Chunks(f) : s.bitmap[f][c] \in Finished
        BY <1>3, <3>2 DEF InState, Unfinished, Finished, VBStates
      <4>2. CASE \A c \in Chunks(f) : HashOk(f, c)
        <5>1. r = SetFrontendStateVerified(s, f, Chunks(f))
          BY <1>1, <2>4, <3>2, <4>2 DEF Trusting
        <5>2. /\ Good(r)
              /\ r.networks = s.networks /\ r.verifier = s.verifier /\ r.asserts = s.asserts
              /\ VerifiedIn(s) \subseteq VerifiedIn(r)
          BY <4>1, <5>1, GoodVerified
        <5>3. \A b \in VerifiedIn(r) : good[b] = Bytes(b)
          BY <1>4, <4>2, ChunkFacts DEF VerifiedIn
        <5> QED
          BY <5>2, <5>3
      <4>3. CASE ~ \A c \in Chunks(f) : HashOk(f, c)
        <5>1. r = SetFrontendStateMissing(s, f, all)
          BY <1>1, <2>4, <3>2, <4>3 DEF Trusting
        <5>2. all \in SUBSET Chunks(f) /\ \A c \in all : s.bitmap[f][c] = "complete"
          BY <1>2
        <5>3. /\ Good(r)
              /\ r.networks = s.networks /\ r.verifier = s.verifier
              /\ VerifiedIn(r) = VerifiedIn(s)
              /\ f = Primary => r.asserts = s.asserts
          BY <2>4, <5>1, <5>2, GoodMissing
        <5>4. f = Primary \/ ~ Sound(s)
          BY <1>5, <4>1, <4>3
        <5> QED
          BY <5>3, <5>4
      <4> QED
        BY <4>2, <4>3
    <3> QED
      BY <3>1, <3>2
  <2> QED
    BY <1>3, <2>1, <2>2, <2>3, <2>4 DEF Verifiers, Trusting
<1> QED
  BY <1>7 DEF r

\* merge.
LEMMA GoodAssociate ==
    ASSUME NEW s, Good(s), NEW f \in Secondaries, ~ Trusting(s, Primary)
    PROVE  LET r == Associate(s, f)
           IN  /\ Good(r)
               /\ r.verifier = s.verifier /\ r.asserts = s.asserts /\ r.blocks = s.blocks
<1> DEFINE r == Associate(s, f)
           void == [c \in Chunks(f) |-> "missing"]
<1>1. IsSwarmer(s) /\ Mirrors(s) /\ PrimaryFollows(s) /\ SecondariesFollow(s) /\ StaysAlone(s)
  BY DEF Good
<1>2. /\ DOMAIN r = DOMAIN s
      /\ r.blocks = s.blocks /\ r.remaining = s.remaining /\ r.vbitmap = s.vbitmap
      /\ r.bitmap = [s.bitmap EXCEPT ![f] = void]
      /\ r.ncomplete = s.ncomplete /\ r.nverified = s.nverified
      /\ r.networks = s.networks \cup {f} /\ r.verifier = s.verifier /\ r.asserts = s.asserts
  BY <1>1 DEF IsSwarmer, Associate
<1> HIDE DEF r
<1>3. r.bitmap = [g \in Frontends |-> IF g = f THEN void ELSE s.bitmap[g]]
  <2>1. s.bitmap = [g \in Frontends |-> s.bitmap[g]]
    BY <1>1 DEF IsSwarmer, IsBitmap
  <2> QED
    BY <1>2, <2>1
<1>4. void \in [Chunks(f) -> VBStates] /\ \A c \in Chunks(f) : void[c] = "missing"
  BY DEF VBStates
<1> HIDE DEF void
<1>5. IsBitmap(r.bitmap)
  <2>1. \A g \in Frontends : s.bitmap[g] \in [Chunks(g) -> VBStates]
    BY <1>1 DEF IsSwarmer, IsBitmap
  <2>2. \A g \in Frontends : r.bitmap[g] \in [Chunks(g) -> VBStates]
    BY <1>3, <1>4, <2>1
  <2>3. r.bitmap = [g \in Frontends |-> r.bitmap[g]]
    BY <1>3
  <2> QED
    BY <2>2, <2>3 DEF IsBitmap
<1>6. IsSwarmer(r)
  BY <1>1, <1>2, <1>5, FrontendFacts DEF IsSwarmer
<1>7. Mirrors(r) /\ StaysAlone(r)
  BY <1>1, <1>2 DEF Mirrors, StaysAlone, Trusting
<1>8. PrimaryFollows(r)
  <2>1. r.bitmap[Primary] = s.bitmap[Primary]
    BY <1>3, FrontendFacts
  <2> QED
    BY <1>1, <1>2, <2>1 DEF PrimaryFollows
<1>9. SecondariesFollow(r)
  <2> SUFFICES ASSUME NEW g \in Secondaries, NEW c \in Chunks(g), r.bitmap[g][c] \in Finished,
                      NEW b \in BlocksOf(g, c)
               PROVE  r.blocks[b] = "Verified"
    BY DEF SecondariesFollow
  <2>1. g # f
    BY <1>3, <1>4, FrontendFacts DEF Finished
  <2>2. r.bitmap[g][c] = s.bitmap[g][c]
    BY <1>3, <2>1, FrontendFacts
  <2> QED
    BY <1>1, <1>2, <2>2 DEF SecondariesFollow
<1> QED
  BY <1>2, <1>6, <1>7, <1>8, <1>9 DEF Good, r

-----------------------------------------------------------------------------
\* The swarmer that create leaves.
LEMMA GoodEmptySwarmer ==
    ASSUME NEW solo \in [Secondaries -> Nat], NEW v \in [Frontends -> Verifiers]
    PROVE  LET r == EmptySwarmer(solo, v)
           IN  /\ Good(r)
               /\ r.networks = {Primary} /\ r.verifier = v /\ r.asserts = {}
               /\ VerifiedIn(r) = {}
               /\ r.remaining = Size
               /\ \A f \in Frontends : \A c \in Chunks(f) : r.bitmap[f][c] = "missing"
<1> DEFINE r == EmptySwarmer(solo, v)
           count == [f \in Frontends |-> IF f \in Secondaries THEN solo[f] ELSE 0]
           void == [f \in Frontends |-> [c \in Chunks(f) |-> "missing"]]
<1>1. /\ DOMAIN r = {"blocks", "remaining", "vbitmap", "downloaded", "networks", "bitmap",
                     "ncomplete", "nverified", "verifier", "asserts"}
      /\ r.blocks = [b \in Blocks |-> "Empty"] /\ r.remaining = Size
      /\ r.vbitmap = [b \in Blocks |-> "missing"] /\ r.networks = {Primary}
      /\ r.bitmap = void /\ r.ncomplete = count /\ r.nverified = count
      /\ r.verifier = v /\ r.asserts = {}
  BY DEF EmptySwarmer
<1>2. count \in [Frontends -> Int]
  OBVIOUS
<1>3. /\ \A f \in Frontends : void[f] \in [Chunks(f) -> VBStates]
      /\ \A f \in Frontends : \A c \in Chunks(f) : void[f][c] = "missing"
      /\ void = [f \in Frontends |-> void[f]]
  BY DEF VBStates
<1> HIDE DEF r, count, void
<1>4. IsBitmap(r.bitmap)
  BY <1>1, <1>3 DEF IsBitmap
<1>5. /\ r.blocks \in [Blocks -> {"Empty", "Partial", "Complete", "Verified"}]
      /\ r.vbitmap \in [Blocks -> VBStates]
      /\ r.remaining \in [Blocks -> Nat] /\ \A b \in Blocks : r.remaining[b] <= Size[b]
  BY <1>1, SizeAssumption DEF VBStates
<1>6. IsSwarmer(r)
  BY <1>1, <1>2, <1>4, <1>5, FrontendFacts DEF IsSwarmer
<1>7. Mirrors(r) /\ StaysAlone(r)
  BY <1>1 DEF Mirrors, StaysAlone
<1>8. PrimaryFollows(r)
  BY <1>1, <1>3, FrontendFacts DEF PrimaryFollows, BlocksOf
<1>9. SecondariesFollow(r)
  BY <1>1, <1>3, FrontendFacts DEF SecondariesFollow, Finished
<1> QED
  BY <1>1, <1>3, <1>6, <1>7, <1>8, <1>9 DEF Good, VerifiedIn, r

\* set_chunks_verified_bitmap of the primary, with any bitmap.
LEMMA GoodVerifiedBitmap ==
    ASSUME NEW s, Good(s), NEW bm
    PROVE  LET r == SetChunksVerifiedBitmap(s, Primary, bm)
           IN  /\ Good(r)
               /\ r.networks = s.networks /\ r.verifier = s.verifier /\ r.asserts = s.asserts
               /\ \A c \in Chunks(Primary) : bm[c] = "verified" => r.bitmap[Primary][c] = "verified"
               /\ \A b \in VerifiedIn(r) : b \in VerifiedIn(s) \/ bm[ChunkOf[Primary][b]] = "verified"
               /\ VerifiedIn(s) \subseteq VerifiedIn(r)
<1> DEFINE U == {c \in Chunks(Primary) : bm[c] = "complete"} \cap InState(s, Primary, Unfinished)
           B == UNION {BlocksOf(Primary, c) : c \in U}
           t == SetCompletedBlock(s, B)
           V == {c \in Chunks(Primary) : bm[c] = "verified"}
           r == SetChunksVerifiedBitmap(s, Primary, bm)
<1>1. B \in SUBSET Blocks /\ V \in SUBSET Chunks(Primary)
  BY DEF BlocksOf
<1>2. r = SetFrontendStateVerified(t, Primary, V)
  BY DEF SetChunksVerifiedBitmap, SetFrontendStateComplete
<1>3. IsSwarmer(s)
  BY DEF Good
<1> HIDE DEF U, B, r
<1>4. VerifiedIn(t) = VerifiedIn(s) /\ Good(t) /\ t.networks = s.networks /\ t.verifier = s.verifier /\ t.asserts = s.asserts
  BY <1>1, <1>3, GoodCompletedBlock, CompletedBlockFacts
<1> HIDE DEF t
<1>5. /\ Good(r)
      /\ r.networks = t.networks /\ r.verifier = t.verifier /\ r.asserts = t.asserts
      /\ \A c \in Chunks(Primary) :
            r.bitmap[Primary][c] = IF c \in V THEN "verified" ELSE t.bitmap[Primary][c]
      /\ \A b \in Blocks : r.blocks[b] = "Verified" =>
            t.blocks[b] = "Verified" \/ ChunkOf[Primary][b] \in V
      /\ VerifiedIn(t) \subseteq VerifiedIn(r)
  BY <1>1, <1>2, <1>4, GoodVerifiedPrimary
<1> QED
  BY <1>4, <1>5 DEF r, VerifiedIn

\* set_present adds blocks and parts of blocks, and takes none away.
LEMMA GoodSetPresent ==
    ASSUME NEW s, Good(s), NEW present \in [Blocks -> Nat],
           \A b \in Blocks : present[b] <= Size[b]
    PROVE  LET r == SetPresent(s, present)
           IN  /\ Good(r)
               /\ r.networks = s.networks /\ r.verifier = s.verifier /\ r.asserts = s.asserts
               /\ VerifiedIn(r) = VerifiedIn(s)
<1> DEFINE open == {b \in Blocks : s.blocks[b] = "Empty" /\ present[b] > 0}
           full == {b \in open : present[b] = Size[b]}
           cut == open \ full
           t == SetCompletedBlock(s, full)
           X == {c \in InState(t, Primary, {"missing"}) : BlocksOf(Primary, c) \cap cut # {}}
           r == SetPresent(s, present)
<1>1. /\ full \in SUBSET Blocks /\ cut \subseteq Blocks /\ cut \cap full = {}
      /\ \A b \in cut : s.blocks[b] = "Empty"
  OBVIOUS
<1>2. Good(t)
  BY <1>1, GoodCompletedBlock
<1>3. /\ t.networks = s.networks /\ t.verifier = s.verifier /\ t.asserts = s.asserts
      /\ \A b \in Blocks : t.blocks[b] = IF b \in Open(s, full) THEN "Complete" ELSE s.blocks[b]
  BY <1>1, CompletedBlockFacts DEF Good
<1>4. \A b \in cut : b \in Blocks /\ t.blocks[b] = "Empty"
  BY <1>1, <1>3 DEF Open
<1>5. r = [t EXCEPT
            !.blocks = Put(@, cut, "Partial"),
            !.remaining = [b \in Blocks |-> IF b \in cut THEN Size[b] - present[b] ELSE @[b]],
            !.downloaded = @ + Sum(present, cut),
            !.vbitmap = Put(@, cut, "partial"),
            !.bitmap[Primary] = Put(@, X, "partial")]
  BY DEF SetPresent
<1>6. \A c \in Chunks(Primary) : c \in X => t.bitmap[Primary][c] = "missing"
  BY DEF InState
<1> HIDE DEF open, full, cut, t, X, r
<1>7. IsSwarmer(t) /\ Mirrors(t) /\ PrimaryFollows(t) /\ SecondariesFollow(t) /\ StaysAlone(t)
  BY <1>2 DEF Good
<1>8. /\ DOMAIN r = DOMAIN t
      /\ r.blocks = Put(t.blocks, cut, "Partial")
      /\ r.remaining = [b \in Blocks |-> IF b \in cut THEN Size[b] - present[b] ELSE t.remaining[b]]
      /\ r.vbitmap = Put(t.vbitmap, cut, "partial")
      /\ r.bitmap = [t.bitmap EXCEPT ![Primary] = Put(t.bitmap[Primary], X, "partial")]
      /\ r.ncomplete = t.ncomplete /\ r.nverified = t.nverified
      /\ r.networks = t.networks /\ r.verifier = t.verifier /\ r.asserts = t.asserts
  BY <1>5, <1>7 DEF IsSwarmer
<1>9. /\ r.blocks \in [Blocks -> {"Empty", "Partial", "Complete", "Verified"}]
      /\ \A b \in Blocks : r.blocks[b] = IF b \in cut THEN "Partial" ELSE t.blocks[b]
  BY <1>7, <1>8 DEF IsSwarmer, Put
<1>10. /\ r.vbitmap \in [Blocks -> VBStates]
       /\ \A b \in Blocks : r.vbitmap[b] = IF b \in cut THEN "partial" ELSE t.vbitmap[b]
  BY <1>7, <1>8 DEF IsSwarmer, Put, VBStates
<1>11. r.remaining \in [Blocks -> Nat] /\ \A b \in Blocks : r.remaining[b] <= Size[b]
  <2> SUFFICES ASSUME NEW b \in Blocks
               PROVE  r.remaining[b] \in Nat /\ r.remaining[b] <= Size[b]
    BY <1>8
  <2>1. t.remaining[b] \in Nat /\ t.remaining[b] <= Size[b] /\ Size[b] \in Nat
    BY <1>7, SizeAssumption DEF IsSwarmer
  <2>2. r.remaining[b] = IF b \in cut THEN Size[b] - present[b] ELSE t.remaining[b]
    BY <1>8
  <2>3. present[b] \in Nat /\ present[b] <= Size[b]
    OBVIOUS
  <2> QED
    BY <2>1, <2>2, <2>3
<1>12. \A f \in Frontends : t.bitmap[f] \in [Chunks(f) -> VBStates]
  BY <1>7 DEF IsSwarmer, IsBitmap
<1>13. r.bitmap = [f \in Frontends |-> IF f = Primary THEN Put(t.bitmap[Primary], X, "partial")
                                                      ELSE t.bitmap[f]]
  <2>1. t.bitmap = [f \in Frontends |-> t.bitmap[f]]
    BY <1>7 DEF IsSwarmer, IsBitmap
  <2> QED
    BY <1>8, <2>1, FrontendFacts
<1>14. /\ r.bitmap[Primary] \in [Chunks(Primary) -> VBStates]
       /\ \A c \in Chunks(Primary) :
             r.bitmap[Primary][c] = IF c \in X THEN "partial" ELSE t.bitmap[Primary][c]
  <2>1. r.bitmap[Primary] = Put(t.bitmap[Primary], X, "partial")
    BY <1>13, FrontendFacts
  <2> QED
    BY <1>12, <2>1, FrontendFacts DEF Put, VBStates
<1>15. /\ r.bitmap = [f \in Frontends |-> r.bitmap[f]]
       /\ \A f \in Secondaries : r.bitmap[f] = t.bitmap[f]
  BY <1>13, FrontendFacts
<1>16. IsBitmap(r.bitmap)
  <2>1. \A f \in Frontends : r.bitmap[f] \in [Chunks(f) -> VBStates]
    BY <1>12, <1>14, <1>15, FrontendFacts
  <2> QED
    BY <1>15, <2>1 DEF IsBitmap
<1>17. IsSwarmer(r)
  BY <1>7, <1>8, <1>9, <1>10, <1>11, <1>16 DEF IsSwarmer
<1>18. Mirrors(r) /\ StaysAlone(r)
  BY <1>7, <1>8, <1>9, <1>10 DEF Mirrors, StaysAlone
<1>19. PrimaryFollows(r)
  <2> SUFFICES ASSUME r.verifier[Primary] # "NoVerification",
                      NEW c \in Chunks(Primary), NEW b \in BlocksOf(Primary, c)
               PROVE  /\ r.bitmap[Primary][c] = "verified" <=> r.blocks[b] = "Verified"
                      /\ r.bitmap[Primary][c] = "complete" => r.blocks[b] = "Complete"
    BY DEF PrimaryFollows
  <2>1. b \in Blocks
    BY DEF BlocksOf
  <2>2. /\ t.bitmap[Primary][c] = "verified" <=> t.blocks[b] = "Verified"
        /\ t.bitmap[Primary][c] = "complete" => t.blocks[b] = "Complete"
    BY <1>7, <1>8 DEF PrimaryFollows
  <2> QED
    BY <1>4, <1>6, <1>9, <1>14, <2>1, <2>2
<1>20. SecondariesFollow(r)
  BY <1>4, <1>7, <1>9, <1>15 DEF SecondariesFollow, BlocksOf
<1>21. VerifiedIn(r) = VerifiedIn(s)
  BY <1>1, <1>3, <1>9 DEF Open, VerifiedIn
<1> QED
  BY <1>3, <1>8, <1>17, <1>18, <1>19, <1>20, <1>21 DEF Good, r

\* The hashes of a frontend arrive: its bitmap is put through once more.
LEMMA GoodNewVerifier ==
    ASSUME NEW s, Good(s), NEW f \in Frontends, s.verifier[f] = "VerificationNotAvailable"
    PROVE  LET t == [s EXCEPT !.verifier[f] = "Verification"]
               r == SetChunksVerifiedBitmap(t, f, s.bitmap[f])
           IN  /\ Good(r)
               /\ r.verifier = [s.verifier EXCEPT ![f] = "Verification"]
               /\ r.asserts = s.asserts
               /\ VerifiedIn(r) = VerifiedIn(s)
<1> DEFINE t == [s EXCEPT !.verifier[f] = "Verification"]
           r == SetChunksVerifiedBitmap(t, f, s.bitmap[f])
           U == {c \in Chunks(f) : s.bitmap[f][c] = "complete"} \cap InState(t, f, Unfinished)
           B == UNION {BlocksOf(f, c) : c \in U}
           p == SetCompletedBlock(t, B)
           V == {c \in Chunks(f) : s.bitmap[f][c] = "verified"}
<1>1. IsSwarmer(s) /\ Mirrors(s) /\ PrimaryFollows(s) /\ SecondariesFollow(s) /\ StaysAlone(s)
  BY DEF Good
<1>2. /\ DOMAIN t = DOMAIN s
      /\ t.blocks = s.blocks /\ t.remaining = s.remaining /\ t.vbitmap = s.vbitmap
      /\ t.bitmap = s.bitmap /\ t.ncomplete = s.ncomplete /\ t.nverified = s.nverified
      /\ t.networks = s.networks /\ t.asserts = s.asserts
      /\ t.verifier = [s.verifier EXCEPT ![f] = "Verification"]
  BY <1>1 DEF IsSwarmer
<1>3. r = SetFrontendStateVerified(p, f, V)
  BY DEF SetChunksVerifiedBitmap, SetFrontendStateComplete
<1>4. B \in SUBSET Blocks /\ V \in SUBSET Chunks(f)
  BY DEF BlocksOf
<1> HIDE DEF t, r, U, B, p
<1>5. t.verifier \in [Frontends -> Verifiers]
  BY <1>1, <1>2 DEF IsSwarmer, Verifiers
<1>6. t.verifier[Primary] = "NoVerification" <=> s.verifier[Primary] = "NoVerification"
  BY <1>1, <1>2, FrontendFacts DEF IsSwarmer
<1>7. IsSwarmer(t)
  BY <1>1, <1>2, <1>5 DEF IsSwarmer
<1>8. Mirrors(t) /\ PrimaryFollows(t) /\ SecondariesFollow(t) /\ StaysAlone(t)
  BY <1>1, <1>2, <1>6 DEF Mirrors, PrimaryFollows, SecondariesFollow, StaysAlone
<1>9. Good(t)
  BY <1>7, <1>8 DEF Good
<1>10. /\ Good(p) /\ VerifiedIn(p) = VerifiedIn(t)
       /\ p.verifier = t.verifier /\ p.asserts = t.asserts
       /\ \A g \in Secondaries : p.bitmap[g] = t.bitmap[g]
  BY <1>4, <1>7, <1>9, GoodCompletedBlock, CompletedBlockFacts DEF p
<1>11. CASE f = Primary
  <2>1. /\ Good(r)
        /\ r.verifier = p.verifier /\ r.asserts = p.asserts
        /\ \A b \in Blocks : r.blocks[b] = "Verified" =>
              p.blocks[b] = "Verified" \/ ChunkOf[Primary][b] \in V
        /\ VerifiedIn(p) \subseteq VerifiedIn(r)
    BY <1>3, <1>4, <1>10, <1>11, GoodVerifiedPrimary
  <2>2. \A b \in Blocks : ChunkOf[Primary][b] \in V => s.blocks[b] = "Verified"
    <3>1. s.verifier[Primary] # "NoVerification"
      BY <1>11
    <3> QED
      BY <1>1, <1>11, <3>1 DEF PrimaryFollows, BlocksOf
  <2>3. VerifiedIn(r) = VerifiedIn(s)
    BY <1>2, <1>10, <2>1, <2>2 DEF VerifiedIn
  <2> QED
    BY <1>2, <1>10, <2>1, <2>3 DEF r, t
<1>12. CASE f # Primary
  <2>1. \A c \in V : p.bitmap[f][c] \in Finished
    BY <1>2, <1>10, <1>12, FrontendFacts DEF Finished
  <2>2. /\ Good(r)
        /\ r.verifier = p.verifier /\ r.asserts = p.asserts
        /\ VerifiedIn(r) = VerifiedIn(p)
    <3>1. /\ Good(r)
          /\ r.verifier = p.verifier /\ r.asserts = p.asserts
          /\ \A b \in VerifiedIn(r) :
                b \in VerifiedIn(p) \/ (f = Primary /\ ChunkOf[Primary][b] \in V)
          /\ VerifiedIn(p) \subseteq VerifiedIn(r)
      <4> HIDE DEF V
      <4> QED
        BY <1>3, <1>4, <1>10, <2>1, GoodVerified
    <3> QED
      BY <1>12, <3>1
  <2>3. VerifiedIn(r) = VerifiedIn(s)
    BY <1>2, <1>10, <2>2 DEF VerifiedIn
  <2> QED
    BY <1>2, <1>10, <2>2, <2>3 DEF r, t
<1> QED
  BY <1>11, <1>12

\* What files.ini holds makes sense by itself.
GoodImage(old) ==
    /\ old.networks \subseteq Frontends /\ Primary \in old.networks
    /\ old.verifier \in [Frontends -> Verifiers]
    /\ old.present \in [Blocks -> Nat]
    /\ \A b \in Blocks : old.present[b] <= Size[b]
    /\ old.state \in [Frontends -> FileStates]
    /\ old.verifier[Primary] = "NoVerification" => old.networks = {Primary}
    /\ \A f \in Secondaries : \A b \in Blocks :
          f \in old.networks /\ old.bitmap[f][ChunkOf[f][b]] = "verified" =>
              old.bitmap[Primary][ChunkOf[Primary][b]] = "verified"

\* A restart brings back a swarmer that is as good, with what was verified.
LEMMA GoodLoaded ==
    ASSUME NEW old, GoodImage(old)
    PROVE  LET r == Loaded(old)
           IN  /\ Good(r)
               /\ r.verifier = old.verifier /\ r.asserts = {}
               /\ \A b \in VerifiedIn(r) : old.bitmap[Primary][ChunkOf[Primary][b]] = "verified"
               /\ old.verifier[Primary] # "NoVerification" =>
                     \A b \in Blocks : old.bitmap[Primary][ChunkOf[Primary][b]] = "verified" =>
                         b \in VerifiedIn(r)
<1> DEFINE solo == [f \in Secondaries |-> IF f \in old.networks THEN 0 ELSE Solo[f]]
           e == EmptySwarmer(solo, old.verifier)
           p == SetChunksVerifiedBitmap(e, Primary, old.bitmap[Primary])
           q == SetPresent(p, old.present)
           secs == old.networks \ {Primary}
           claimed == {b \in Blocks : \E f \in secs : old.bitmap[f][ChunkOf[f][b]] = "complete"}
           sure(f) == {c \in Chunks(f) : f \in secs /\ old.bitmap[f][c] = "verified"}
           t == SetCompletedBlock(q, claimed)
           r == Loaded(old)
<1>1. r = [t EXCEPT
            !.networks = old.networks,
            !.bitmap = [f \in Frontends |-> Put(@[f], sure(f), "verified")],
            !.ncomplete = [f \in Frontends |-> @[f] + Cardinality(sure(f))],
            !.nverified = [f \in Frontends |-> @[f] + Cardinality(sure(f))]]
  BY DEF Loaded
<1>2. solo \in [Secondaries -> Nat]
  BY SchemeAssumption
<1>3. /\ claimed \in SUBSET Blocks
      /\ \A f \in Frontends : sure(f) \in SUBSET Chunks(f)
      /\ \A f \in Frontends : \A c \in sure(f) :
            f \in Secondaries /\ f \in old.networks /\ old.bitmap[f][c] = "verified"
      /\ sure(Primary) = {}
  BY FrontendFacts
<1> HIDE DEF solo, claimed, sure, secs, r
<1>4. /\ Good(e) /\ e.networks = {Primary} /\ e.verifier = old.verifier /\ e.asserts = {}
      /\ VerifiedIn(e) = {}
  BY <1>2, GoodEmptySwarmer DEF GoodImage
<1> HIDE DEF e
<1>5. /\ Good(p) /\ p.networks = {Primary} /\ p.verifier = old.verifier /\ p.asserts = {}
      /\ \A c \in Chunks(Primary) :
            old.bitmap[Primary][c] = "verified" => p.bitmap[Primary][c] = "verified"
      /\ \A b \in VerifiedIn(p) : old.bitmap[Primary][ChunkOf[Primary][b]] = "verified"
  BY <1>4, GoodVerifiedBitmap
<1>6. old.verifier[Primary] # "NoVerification" =>
         \A b \in Blocks : old.bitmap[Primary][ChunkOf[Primary][b]] = "verified" => b \in VerifiedIn(p)
  BY <1>5, ChunkFacts, FrontendFacts DEF Good, PrimaryFollows, VerifiedIn
<1> HIDE DEF p
<1>7. /\ Good(q) /\ q.networks = {Primary} /\ q.verifier = old.verifier /\ q.asserts = {}
      /\ VerifiedIn(q) = VerifiedIn(p)
  BY <1>5, GoodSetPresent DEF GoodImage
<1> HIDE DEF q
<1>8. IsSwarmer(q)
  BY <1>7 DEF Good
<1>9. /\ Good(t) /\ t.networks = {Primary} /\ t.verifier = old.verifier /\ t.asserts = {}
      /\ VerifiedIn(t) = VerifiedIn(p)
  BY <1>3, <1>7, <1>8, GoodCompletedBlock, CompletedBlockFacts
<1> HIDE DEF t
<1>10. IsSwarmer(t) /\ Mirrors(t) /\ PrimaryFollows(t) /\ SecondariesFollow(t)
  BY <1>9 DEF Good
<1>11. /\ DOMAIN r = DOMAIN t
       /\ r.blocks = t.blocks /\ r.remaining = t.remaining /\ r.vbitmap = t.vbitmap
       /\ r.networks = old.networks
       /\ r.bitmap = [f \in Frontends |-> Put(t.bitmap[f], sure(f), "verified")]
       /\ r.ncomplete = [f \in Frontends |-> t.ncomplete[f] + Cardinality(sure(f))]
       /\ r.nverified = [f \in Frontends |-> t.nverified[f] + Cardinality(sure(f))]
       /\ r.verifier = t.verifier /\ r.asserts = t.asserts
  BY <1>1, <1>10 DEF IsSwarmer
<1>12. \A f \in Frontends : t.bitmap[f] \in [Chunks(f) -> VBStates]
  BY <1>10 DEF IsSwarmer, IsBitmap
<1>13. ASSUME NEW f \in Frontends
       PROVE  /\ r.bitmap[f] \in [Chunks(f) -> VBStates]
              /\ \A c \in Chunks(f) :
                    r.bitmap[f][c] = IF c \in sure(f) THEN "verified" ELSE t.bitmap[f][c]
  <2>1. r.bitmap[f] = Put(t.bitmap[f], sure(f), "verified")
    BY <1>11
  <2> QED
    BY <1>12, <2>1 DEF Put, VBStates
<1>14. IsBitmap(r.bitmap)
  BY <1>11, <1>13 DEF IsBitmap
<1>15. r.ncomplete \in [Frontends -> Int] /\ r.nverified \in [Frontends -> Int]
  <2>1. \A f \in Frontends : Cardinality(sure(f)) \in Int
    BY <1>3, ChunkSets
  <2> QED
    BY <1>10, <1>11, <2>1 DEF IsSwarmer
<1>16. IsSwarmer(r)
  BY <1>10, <1>11, <1>14, <1>15 DEF IsSwarmer, GoodImage
<1>17. Mirrors(r) /\ StaysAlone(r)
  BY <1>9, <1>10, <1>11 DEF Mirrors, StaysAlone, GoodImage
<1>18. PrimaryFollows(r)
  <2>1. \A c \in Chunks(Primary) : r.bitmap[Primary][c] = t.bitmap[Primary][c]
    BY <1>3, <1>13, FrontendFacts
  <2> QED
    BY <1>10, <1>11, <2>1 DEF PrimaryFollows
<1>19. SecondariesFollow(r)
  <2> SUFFICES ASSUME NEW g \in Secondaries, NEW c \in Chunks(g), r.bitmap[g][c] \in Finished,
                      NEW b \in BlocksOf(g, c)
               PROVE  r.blocks[b] = "Verified"
    BY DEF SecondariesFollow
  <2>1. b \in Blocks /\ ChunkOf[g][b] = c /\ g \in Frontends
    BY FrontendFacts DEF BlocksOf
  <2>2. CASE c \in sure(g)
    <3>1. g \in old.networks /\ old.bitmap[g][ChunkOf[g][b]] = "verified"
      BY <1>3, <2>1, <2>2
    <3>2. old.bitmap[Primary][ChunkOf[Primary][b]] = "verified"
      BY <2>1, <3>1 DEF GoodImage
    <3>3. old.verifier[Primary] # "NoVerification"
      BY <3>1, FrontendFacts DEF GoodImage
    <3>4. b \in VerifiedIn(t)
      BY <1>6, <1>9, <2>1, <3>2, <3>3
    <3> QED
      BY <1>11, <3>4 DEF VerifiedIn
  <2>3. CASE c \notin sure(g)
    BY <1>10, <1>11, <1>13, <2>1, <2>3 DEF SecondariesFollow
  <2> QED
    BY <2>2, <2>3
<1>20. VerifiedIn(r) = VerifiedIn(p)
  BY <1>9, <1>11 DEF VerifiedIn
<1> QED
  BY <1>5, <1>6, <1>9, <1>11, <1>16, <1>17, <1>18, <1>19, <1>20 DEF Good, r

-----------------------------------------------------------------------------
(* The inductive invariant: the swarmer and files.ini are good, what was    *)
(* verified when files.ini was written still is, under a primary that       *)
(* hashes only right bytes are verified and no assertion has failed, and a  *)
(* downloaded file is verified as a whole.                                  *)
TypesOK ==
    /\ state \in [Frontends -> FileStates]
    /\ good \in [Blocks -> SUBSET Nat]
    /\ corrupt \in 0 .. MaxCorrupt
    /\ crashes \in 0 .. MaxCrash

SameKind(v, w) == /\ v = "NoVerification" <=> w = "NoVerification"
                  /\ v = "ForceVerification" <=> w = "ForceVerification"

SavedStays ==
    /\ SameKind(saved.verifier[Primary], swarmer.verifier[Primary])
    /\ swarmer.verifier[Primary] # "NoVerification" =>
          \A b \in Blocks : saved.bitmap[Primary][ChunkOf[Primary][b]] = "verified" =>
              b \in VerifiedIn(swarmer)

Trusted ==
    /\ swarmer.verifier[Primary] = "ForceVerification" =>
          \E v \in Schemes : v[Primary] = "ForceVerification"
    /\ Hashing(Primary) => Sound(swarmer)
    /\ swarmer.verifier[Primary] # "ForceVerification" => swarmer.asserts = {}

\* A file that is downloaded, or was when files.ini was written, has all blocks
\* verified, and keeps them.
AllSaved(old) == \A b \in Blocks : old.bitmap[Primary][ChunkOf[Primary][b]] = "verified"

DoneStays ==
    swarmer.verifier[Primary] # "NoVerification" =>
        \A f \in Frontends :
            /\ state[f] = "FileDownloaded" => VerifiedIn(swarmer) = Blocks
            /\ saved.state[f] = "FileDownloaded" => AllSaved(saved) /\ state[f] = "FileDownloaded"

Inv == Good(swarmer) /\ GoodImage(saved) /\ SavedStays /\ Trusted /\ DoneStays /\ TypesOK

\* Hashing, said by what it is not.
LEMMA HashingKind ==
    ASSUME Good(swarmer)
    PROVE  Hashing(Primary) <=> swarmer.verifier[Primary] \notin {"NoVerification", "ForceVerification"}
BY FrontendFacts DEF Good, IsSwarmer, Verifiers, Hashing

\* What a save writes is a good image of the swarmer.
LEMMA ImageFacts ==
    ASSUME Good(swarmer), state \in [Frontends -> FileStates]
    PROVE  /\ GoodImage(Image)
           /\ Image.verifier = swarmer.verifier
           /\ swarmer.verifier[Primary] # "NoVerification" =>
                 \A b \in Blocks : Image.bitmap[Primary][ChunkOf[Primary][b]] = "verified" =>
                     b \in VerifiedIn(swarmer)
<1> DEFINE r == Image
<1>1. /\ IsSwarmer(swarmer) /\ PrimaryFollows(swarmer) /\ SecondariesFollow(swarmer)
      /\ StaysAlone(swarmer)
  BY DEF Good
<1>2. /\ r.bitmap = swarmer.bitmap /\ r.networks = swarmer.networks
      /\ r.verifier = swarmer.verifier
      /\ r.present = [b \in Blocks |-> Size[b] - swarmer.remaining[b]]
      /\ r.state = [f \in Frontends |->
                       IF state[f] = "FileQueued" THEN "FileDownloading" ELSE state[f]]
  BY DEF Image
<1> HIDE DEF r
<1>3. r.present \in [Blocks -> Nat] /\ \A b \in Blocks : r.present[b] <= Size[b]
  BY <1>1, <1>2, SizeAssumption DEF IsSwarmer
<1>4. r.state \in [Frontends -> FileStates]
  BY <1>2 DEF FileStates
<1>5. swarmer.verifier[Primary] # "NoVerification" =>
         \A b \in Blocks : r.bitmap[Primary][ChunkOf[Primary][b]] = "verified" =>
             b \in VerifiedIn(swarmer)
  BY <1>1, <1>2, ChunkFacts, FrontendFacts DEF PrimaryFollows, VerifiedIn
<1>6. ASSUME NEW f \in Secondaries, NEW b \in Blocks, f \in r.networks,
             r.bitmap[f][ChunkOf[f][b]] = "verified"
      PROVE  r.bitmap[Primary][ChunkOf[Primary][b]] = "verified"
  <2>1. f \in Frontends /\ f # Primary
    BY FrontendFacts
  <2>2. swarmer.blocks[b] = "Verified"
    BY <1>1, <1>2, <1>6, <2>1, ChunkFacts DEF SecondariesFollow, Finished
  <2>3. swarmer.verifier[Primary] # "NoVerification"
    BY <1>1, <1>2, <1>6, <2>1 DEF StaysAlone
  <2> QED
    BY <1>1, <1>2, <2>2, <2>3, ChunkFacts, FrontendFacts DEF PrimaryFollows
<1>7. GoodImage(r)
  BY <1>1, <1>2, <1>3, <1>4, <1>6 DEF GoodImage, IsSwarmer, StaysAlone
<1> QED
  BY <1>2, <1>5, <1>7 DEF r

\* How the handlers that leave files.ini alone keep the invariant.
LEMMA SwarmerStep ==
    ASSUME Inv, Good(swarmer)', TypesOK', UNCHANGED <<state, saved>>,
           SameKind(swarmer.verifier[Primary], swarmer'.verifier[Primary]),
           VerifiedIn(swarmer) \subseteq VerifiedIn(swarmer'),
           \A b \in VerifiedIn(swarmer) : good'[b] = good[b] \/ good'[b] = Bytes(b),
           \A b \in VerifiedIn(swarmer') : \/ b \in VerifiedIn(swarmer) \/ good'[b] = Bytes(b)
                                           \/ ~ Hashing(Primary),
           swarmer.verifier[Primary] # "ForceVerification" => swarmer'.asserts = swarmer.asserts
    PROVE  Inv'
<1>1. GoodImage(saved)'
  BY DEF Inv, GoodImage
<1>2. Hashing(Primary)' <=> Hashing(Primary)
  <2>1. Hashing(Primary)' <=> swarmer'.verifier[Primary] \notin {"NoVerification", "ForceVerification"}
    BY FrontendFacts DEF Good, IsSwarmer, Verifiers, Hashing
  <2> QED
    BY <2>1, HashingKind DEF Inv, SameKind
<1>3. SavedStays'
  BY DEF Inv, SavedStays, SameKind
<1>4. Trusted'
  BY <1>2 DEF Inv, Trusted, Sound, SameKind
<1>5. DoneStays'
  <2>1. VerifiedIn(swarmer') \subseteq Blocks
    BY DEF VerifiedIn
  <2>2. AllSaved(saved) => AllSaved(saved')
    BY DEF AllSaved
  <2>3. VerifiedIn(swarmer) = Blocks => VerifiedIn(swarmer)' = Blocks
    BY <2>1
  <2> QED
    BY <2>2, <2>3 DEF Inv, DoneStays, SameKind, AllSaved
<1> QED
  BY <1>1, <1>3, <1>4, <1>5 DEF Inv

\* A file's state alone has nothing to do with the swarmer, but for a file that
\* becomes downloaded.
LEMMA StateStep ==
    ASSUME Inv, UNCHANGED <<swarmer, good, saved, corrupt, crashes>>,
           state' \in [Frontends -> FileStates],
           \A f \in Frontends :
               /\ state[f] = "FileDownloaded" => state'[f] = "FileDownloaded"
               /\ state'[f] = "FileDownloaded" =>
                     \/ state[f] = "FileDownloaded" \/ VerifiedIn(swarmer) = Blocks
                     \/ swarmer.verifier[Primary] = "NoVerification"
    PROVE  Inv'
<1>1. DoneStays'
  BY DEF Inv, DoneStays, AllSaved, VerifiedIn
<1>2. /\ Good(swarmer)' /\ GoodImage(saved)' /\ SavedStays' /\ Trusted' /\ TypesOK'
  BY DEF Inv, Good, IsSwarmer, Mirrors, PrimaryFollows, SecondariesFollow, StaysAlone, GoodImage,
         SavedStays, Trusted, Sound, Hashing, TypesOK, VerifiedIn
<1> QED
  BY <1>1, <1>2 DEF Inv

\* The invariant holds at the start.
LEMMA InitInv == Init => Inv
<1> SUFFICES ASSUME Init
             PROVE  Inv
  OBVIOUS
<1>1. PICK v \in Schemes : swarmer = EmptySwarmer(Solo, v)
  BY DEF Init
<1>2. v \in [Frontends -> Verifiers] /\ Solo \in [Secondaries -> Nat]
  BY SchemeAssumption
<1>3. /\ Good(swarmer) /\ swarmer.verifier = v /\ swarmer.asserts = {}
      /\ VerifiedIn(swarmer) = {}
  BY <1>1, <1>2, GoodEmptySwarmer
<1>4. TypesOK
  BY BoundAssumption DEF Init, TypesOK, FileStates
<1>5. GoodImage(saved) /\ SavedStays
  BY <1>3, <1>4, ImageFacts DEF Init, TypesOK, SavedStays, SameKind
<1>6. Trusted
  BY <1>3 DEF Trusted, Sound
<1>7. \A f \in Frontends : state[f] # "FileDownloaded" /\ saved.state[f] # "FileDownloaded"
  BY DEF Init, Image
<1>8. DoneStays
  BY <1>7 DEF DoneStays
<1> QED
  BY <1>3, <1>4, <1>5, <1>6, <1>8 DEF Inv

-----------------------------------------------------------------------------
(* One lemma per handler.                                                   *)

\* An empty block is started.
LEMMA NewBlockStep == ASSUME Inv, NEW f \in Frontends, NEW b \in Blocks, NewBlock(f, b) PROVE Inv'
<1> DEFINE s == [swarmer EXCEPT !.blocks[b] = "Partial"]
           r == SetSwarmerStatePartial(s, b)
<1>1. /\ IsSwarmer(swarmer) /\ Mirrors(swarmer) /\ PrimaryFollows(swarmer)
      /\ SecondariesFollow(swarmer) /\ StaysAlone(swarmer)
  BY DEF Inv, Good
<1>2. swarmer' = r /\ swarmer.blocks[b] = "Empty" /\ UNCHANGED <<state, good, saved, corrupt, crashes>>
  BY DEF NewBlock
<1>3. /\ DOMAIN s = DOMAIN swarmer
      /\ s.blocks = [swarmer.blocks EXCEPT ![b] = "Partial"]
      /\ s.remaining = swarmer.remaining /\ s.vbitmap = swarmer.vbitmap
      /\ s.bitmap = swarmer.bitmap /\ s.networks = swarmer.networks
      /\ s.ncomplete = swarmer.ncomplete /\ s.nverified = swarmer.nverified
      /\ s.verifier = swarmer.verifier /\ s.asserts = swarmer.asserts
  BY <1>1 DEF IsSwarmer
<1> HIDE DEF s
<1>4. IsSwarmer(s)
  BY <1>1, <1>3 DEF IsSwarmer
<1>5. /\ IsSwarmer(r)
      /\ r.blocks = s.blocks /\ r.networks = s.networks /\ r.verifier = s.verifier
      /\ r.asserts = s.asserts
      /\ \A k \in Blocks : r.vbitmap[k] = IF k = b /\ s.vbitmap[b] = "missing"
                                          THEN "partial" ELSE s.vbitmap[k]
      /\ \A g \in Frontends : \A c \in Chunks(g) :
            \/ r.bitmap[g][c] = s.bitmap[g][c]
            \/ s.bitmap[g][c] = "missing" /\ r.bitmap[g][c] = "partial"
  BY <1>4, PartialFacts
<1> HIDE DEF r
<1>6. \A k \in Blocks : r.blocks[k] = IF k = b THEN "Partial" ELSE swarmer.blocks[k]
  BY <1>1, <1>3, <1>5 DEF IsSwarmer
<1>7. Mirrors(r) /\ StaysAlone(r)
  BY <1>1, <1>2, <1>3, <1>5, <1>6 DEF Mirrors, StaysAlone
<1>8. PrimaryFollows(r)
  BY <1>1, <1>2, <1>3, <1>5, <1>6, FrontendFacts DEF PrimaryFollows, BlocksOf
<1>9. SecondariesFollow(r)
  BY <1>1, <1>2, <1>3, <1>5, <1>6, FrontendFacts DEF SecondariesFollow, BlocksOf, Finished
<1>10. VerifiedIn(r) = VerifiedIn(swarmer)
  BY <1>2, <1>6 DEF VerifiedIn
<1>11. Good(swarmer)'
  BY <1>2, <1>5, <1>7, <1>8, <1>9 DEF Good
<1>12. TypesOK'
  BY <1>2 DEF Inv, TypesOK
<1> QED
  BY <1>2, <1>3, <1>5, <1>10, <1>11, <1>12, SwarmerStep DEF SameKind

\* Data of a block arrives.
LEMMA ReceivedStep ==
    ASSUME Inv, NEW f \in Frontends, NEW b \in Blocks, NEW n \in 1 .. Size[b], NEW ok \in BOOLEAN,
           Received(f, b, n, ok)
    PROVE  Inv'
<1> DEFINE left == swarmer.remaining[b] - n
           written == (Size[b] - swarmer.remaining[b]) .. (Size[b] - left - 1)
           s == [swarmer EXCEPT !.remaining[b] = left, !.downloaded = @ + n]
<1>1. /\ IsSwarmer(swarmer) /\ Mirrors(swarmer) /\ PrimaryFollows(swarmer)
      /\ SecondariesFollow(swarmer) /\ StaysAlone(swarmer) /\ TypesOK
  BY DEF Inv, Good
<1>2. /\ swarmer.blocks[b] = "Partial" /\ left >= 0
      /\ ok \/ corrupt < MaxCorrupt
      /\ corrupt' = IF ok THEN corrupt ELSE corrupt + 1
      /\ good' = [good EXCEPT ![b] = IF ok THEN @ \cup written ELSE @ \ written]
      /\ swarmer' = IF left > 0 THEN s
                    ELSE IF s.verifier[Primary] = "NoVerification"
                    THEN SetVerifiedBlock(s, {b})
                    ELSE SetCompletedBlock(s, {b})
      /\ UNCHANGED <<state, saved, crashes>>
  BY DEF Received
<1>3. swarmer.remaining[b] \in Nat /\ swarmer.remaining[b] <= Size[b] /\ Size[b] \in Nat
  BY <1>1, SizeAssumption DEF IsSwarmer
<1>4. /\ DOMAIN s = DOMAIN swarmer
      /\ s.remaining = [swarmer.remaining EXCEPT ![b] = left]
      /\ s.blocks = swarmer.blocks /\ s.vbitmap = swarmer.vbitmap
      /\ s.bitmap = swarmer.bitmap /\ s.networks = swarmer.networks
      /\ s.ncomplete = swarmer.ncomplete /\ s.nverified = swarmer.nverified
      /\ s.verifier = swarmer.verifier /\ s.asserts = swarmer.asserts
  BY <1>1 DEF IsSwarmer
<1>5. written \subseteq Nat
  BY <1>2, <1>3
<1>6. left \in Nat /\ left <= Size[b]
  BY <1>2, <1>3
<1> HIDE DEF s, left, written
<1>7. s.remaining \in [Blocks -> Nat] /\ \A k \in Blocks : s.remaining[k] <= Size[k]
  BY <1>1, <1>4, <1>6 DEF IsSwarmer
<1>8. IsSwarmer(s)
  BY <1>1, <1>4, <1>7 DEF IsSwarmer
<1>9. Good(s) /\ VerifiedIn(s) = VerifiedIn(swarmer)
  BY <1>1, <1>4, <1>8 DEF Good, Mirrors, PrimaryFollows, SecondariesFollow, StaysAlone, VerifiedIn
<1>10. /\ Good(swarmer)'
       /\ swarmer'.verifier = swarmer.verifier /\ swarmer'.asserts = swarmer.asserts
       /\ VerifiedIn(swarmer) \subseteq VerifiedIn(swarmer')
       /\ s.verifier[Primary] = "NoVerification" \/ VerifiedIn(swarmer') = VerifiedIn(swarmer)
  <2>1. CASE left > 0
    <3>1. swarmer' = s
      BY <1>2, <2>1
    <3>2. Good(swarmer')
      BY <1>9, <3>1
    <3> QED
      BY <1>4, <1>9, <3>1, <3>2 DEF Good
  <2>2. CASE ~ left > 0 /\ s.verifier[Primary] = "NoVerification"
    <3>1. swarmer' = SetVerifiedBlock(s, {b})
      BY <1>2, <2>2
    <3>2. /\ Good(swarmer')
          /\ swarmer'.verifier = s.verifier /\ swarmer'.asserts = s.asserts
          /\ VerifiedIn(s) \subseteq VerifiedIn(swarmer')
      BY <1>9, <2>2, <3>1, GoodVerifiedBlock
    <3> QED
      BY <1>4, <1>9, <2>2, <3>2
  <2>3. CASE ~ left > 0 /\ s.verifier[Primary] # "NoVerification"
    <3>1. swarmer' = SetCompletedBlock(s, {b})
      BY <1>2, <2>3
    <3>2. /\ Good(swarmer')
          /\ swarmer'.verifier = s.verifier /\ swarmer'.asserts = s.asserts
          /\ VerifiedIn(swarmer') = VerifiedIn(s)
      BY <1>8, <1>9, <3>1, GoodCompletedBlock, CompletedBlockFacts
    <3> QED
      BY <1>4, <1>9, <3>2
  <2> QED
    BY <2>1, <2>2, <2>3
<1>11. /\ good' \in [Blocks -> SUBSET Nat]
       /\ \A k \in Blocks : k # b => good'[k] = good[k]
  BY <1>1, <1>2, <1>5 DEF TypesOK
<1>12. TypesOK'
  BY <1>1, <1>2, <1>11, BoundAssumption DEF TypesOK
<1>13. b \notin VerifiedIn(swarmer) /\ VerifiedIn(swarmer) \subseteq Blocks
  BY <1>2 DEF VerifiedIn
<1>14. SameKind(swarmer.verifier[Primary], swarmer'.verifier[Primary])
  BY <1>10 DEF SameKind
<1>15. \A k \in VerifiedIn(swarmer) : good'[k] = good[k] \/ good'[k] = Bytes(k)
  BY <1>11, <1>13
<1>16. \A k \in VerifiedIn(swarmer') : \/ k \in VerifiedIn(swarmer) \/ good'[k] = Bytes(k)
                                       \/ ~ Hashing(Primary)
  BY <1>4, <1>10 DEF Hashing
<1> QED
  BY <1>2, <1>10, <1>12, <1>14, <1>15, <1>16, SwarmerStep

\* Both callers of verify_chunk.
LEMMA VerifyStep ==
    ASSUME Inv, NEW f \in Frontends, NEW C, f \in swarmer.networks,
           swarmer' = VerifyChunks(swarmer, f, C), UNCHANGED <<state, good, saved, corrupt, crashes>>
    PROVE  Inv'
<1>1. Good(swarmer) /\ TypesOK
  BY DEF Inv
<1>2. /\ Good(swarmer')
      /\ swarmer'.networks = swarmer.networks /\ swarmer'.verifier = swarmer.verifier
      /\ VerifiedIn(swarmer) \subseteq VerifiedIn(swarmer')
      /\ \A b \in VerifiedIn(swarmer') : \/ b \in VerifiedIn(swarmer) \/ good[b] = Bytes(b)
                                         \/ swarmer.verifier[Primary] = "ForceVerification"
      /\ f = Primary \/ Sound(swarmer) => swarmer'.asserts = swarmer.asserts
  BY <1>1, GoodVerifyChunks
<1>3. Good(swarmer)'
  BY <1>2
<1>4. swarmer.verifier[Primary] # "ForceVerification" => swarmer'.asserts = swarmer.asserts
  <2>1. CASE swarmer.verifier[Primary] = "NoVerification"
    <3>1. f = Primary
      BY <1>1, <2>1 DEF Good, StaysAlone
    <3> QED
      BY <1>2, <3>1
  <2>2. CASE swarmer.verifier[Primary] # "NoVerification"
    BY <1>1, <1>2, <2>2, HashingKind DEF Inv, Trusted
  <2> QED
    BY <2>1, <2>2
<1>5. TypesOK'
  BY <1>1 DEF TypesOK
<1>6. \A b \in VerifiedIn(swarmer') : \/ b \in VerifiedIn(swarmer) \/ good'[b] = Bytes(b)
                                      \/ ~ Hashing(Primary)
  BY <1>1, <1>2, HashingKind
<1> QED
  BY <1>2, <1>3, <1>4, <1>5, <1>6, SwarmerStep DEF SameKind

\* Chunks are copied from another file.
LEMMA PropagateStep ==
    ASSUME Inv, NEW f \in Frontends, NEW c \in Chunks(f), PropagateChunk(f, c)
    PROVE  Inv'
<1> DEFINE U == {c} \cap InState(swarmer, f, Unfinished)
           B == UNION {BlocksOf(f, k) : k \in U}
<1>1. IsSwarmer(swarmer) /\ Good(swarmer) /\ TypesOK
  BY DEF Inv, Good
<1>2. /\ good' = [b \in Blocks |-> IF b \in BlocksOf(f, c) THEN Bytes(b) ELSE good[b]]
      /\ swarmer' = SetCompletedBlock(swarmer, B)
      /\ UNCHANGED <<state, saved, corrupt, crashes>>
  BY DEF PropagateChunk, SetFrontendStateComplete
<1>3. B \in SUBSET Blocks
  BY DEF BlocksOf
<1> HIDE DEF B
<1>4. /\ Good(swarmer')
      /\ swarmer'.verifier = swarmer.verifier /\ swarmer'.asserts = swarmer.asserts
      /\ VerifiedIn(swarmer') = VerifiedIn(swarmer)
  BY <1>1, <1>2, <1>3, GoodCompletedBlock, CompletedBlockFacts
<1>5. Good(swarmer)'
  BY <1>4
<1>6. \A b \in Blocks : Bytes(b) \in SUBSET Nat
  BY SizeAssumption DEF Bytes
<1>7. TypesOK'
  BY <1>1, <1>2, <1>6 DEF TypesOK
<1>8. \A b \in VerifiedIn(swarmer) : good'[b] = good[b] \/ good'[b] = Bytes(b)
  BY <1>2 DEF VerifiedIn
<1> QED
  BY <1>2, <1>4, <1>5, <1>7, <1>8, SwarmerStep DEF SameKind

\* A frontend joins the swarmer.
LEMMA MergeStep == ASSUME Inv, NEW f \in Frontends, Merge(f) PROVE Inv'
<1>1. Good(swarmer) /\ TypesOK
  BY DEF Inv
<1>2. /\ f \in Secondaries /\ ~ Trusting(swarmer, Primary)
      /\ swarmer' = Associate(swarmer, f)
      /\ UNCHANGED <<state, good, saved, corrupt, crashes>>
  BY DEF Merge
<1>3. /\ Good(swarmer')
      /\ swarmer'.verifier = swarmer.verifier /\ swarmer'.asserts = swarmer.asserts
      /\ swarmer'.blocks = swarmer.blocks
  BY <1>1, <1>2, GoodAssociate
<1>4. Good(swarmer)' /\ TypesOK' /\ VerifiedIn(swarmer') = VerifiedIn(swarmer)
  BY <1>1, <1>2, <1>3 DEF TypesOK, VerifiedIn
<1> QED
  BY <1>2, <1>3, <1>4, SwarmerStep DEF SameKind

\* The hashes of a frontend arrive.
LEMMA SetVerifierStep == ASSUME Inv, NEW f \in Frontends, SetVerifier(f) PROVE Inv'
<1>1. Good(swarmer) /\ TypesOK
  BY DEF Inv
<1>2. /\ swarmer.verifier[f] = "VerificationNotAvailable"
      /\ swarmer' = SetChunksVerifiedBitmap([swarmer EXCEPT !.verifier[f] = "Verification"],
                                            f, swarmer.bitmap[f])
      /\ UNCHANGED <<state, good, saved, corrupt, crashes>>
  BY DEF SetVerifier
<1>3. /\ Good(swarmer')
      /\ swarmer'.verifier = [swarmer.verifier EXCEPT ![f] = "Verification"]
      /\ swarmer'.asserts = swarmer.asserts
      /\ VerifiedIn(swarmer') = VerifiedIn(swarmer)
  BY <1>1, <1>2, GoodNewVerifier
<1>4. Good(swarmer)' /\ TypesOK'
  BY <1>1, <1>2, <1>3 DEF TypesOK
<1>5. SameKind(swarmer.verifier[Primary], swarmer'.verifier[Primary])
  BY <1>1, <1>2, <1>3, FrontendFacts DEF SameKind, Good, IsSwarmer
<1> QED
  BY <1>2, <1>3, <1>4, <1>5, SwarmerStep

\* files.ini is written.
LEMMA SaveStep == ASSUME Inv, Save PROVE Inv'
<1>1. Good(swarmer) /\ TypesOK /\ state \in [Frontends -> FileStates] /\ Trusted
  BY DEF Inv, TypesOK
<1>2. saved' = Image /\ UNCHANGED <<swarmer, state, good, corrupt, crashes>>
  BY DEF Save
<1>3. GoodImage(saved)' /\ SavedStays'
  BY <1>1, <1>2, ImageFacts DEF SavedStays, SameKind
<1>4. Good(swarmer)' /\ TypesOK' /\ Trusted'
  BY <1>1, <1>2 DEF TypesOK, Trusted, Sound, Hashing
<1>5. DoneStays'
  <2> SUFFICES ASSUME swarmer.verifier[Primary] # "NoVerification", NEW f \in Frontends
               PROVE  /\ state[f] = "FileDownloaded" => VerifiedIn(swarmer) = Blocks
                      /\ saved'.state[f] = "FileDownloaded" =>
                           AllSaved(saved') /\ state[f] = "FileDownloaded"
    BY <1>2 DEF DoneStays, AllSaved, VerifiedIn
  <2>1. state[f] = "FileDownloaded" => VerifiedIn(swarmer) = Blocks
    BY DEF Inv, DoneStays
  <2>2. ASSUME saved'.state[f] = "FileDownloaded"
        PROVE  AllSaved(saved') /\ state[f] = "FileDownloaded"
    <3>1. saved'.bitmap = swarmer.bitmap /\ state[f] = "FileDownloaded"
      BY <1>2, <2>2 DEF Image
    <3>2. \A b \in Blocks : swarmer.blocks[b] = "Verified"
      BY <2>1, <3>1 DEF VerifiedIn
    <3>3. \A b \in Blocks : swarmer.bitmap[Primary][ChunkOf[Primary][b]] = "verified"
      BY <1>1, <3>2, ChunkFacts, FrontendFacts DEF Good, PrimaryFollows
    <3> QED
      BY <3>1, <3>3 DEF AllSaved
  <2> QED
    BY <2>1, <2>2
<1> QED
  BY <1>3, <1>4, <1>5 DEF Inv

\* The daemon comes back with what files.ini holds.
LEMMA RestartStep == ASSUME Inv, Restart PROVE Inv'
<1>1. /\ Good(swarmer) /\ TypesOK /\ GoodImage(saved) /\ SavedStays /\ Trusted
  BY DEF Inv
<1>2. /\ crashes < MaxCrash /\ crashes' = crashes + 1
      /\ swarmer' = Loaded(saved) /\ state' = saved.state
      /\ UNCHANGED <<good, saved, corrupt>>
  BY DEF Restart
<1>3. /\ Good(swarmer')
      /\ swarmer'.verifier = saved.verifier /\ swarmer'.asserts = {}
      /\ \A b \in VerifiedIn(swarmer') : saved.bitmap[Primary][ChunkOf[Primary][b]] = "verified"
      /\ saved.verifier[Primary] # "NoVerification" =>
            \A b \in Blocks : saved.bitmap[Primary][ChunkOf[Primary][b]] = "verified" =>
                b \in VerifiedIn(swarmer')
  BY <1>1, <1>2, GoodLoaded
<1>4. Good(swarmer)' /\ GoodImage(saved)'
  BY <1>1, <1>2, <1>3 DEF GoodImage
<1>5. TypesOK'
  BY <1>1, <1>2, BoundAssumption DEF TypesOK, GoodImage
<1>6. SavedStays'
  BY <1>2, <1>3 DEF SavedStays, SameKind
<1>7. Trusted'
  <2>1. Hashing(Primary)' => Hashing(Primary)
    <3>1. Hashing(Primary)' => swarmer'.verifier[Primary] \notin {"NoVerification", "ForceVerification"}
      BY DEF Hashing
    <3> QED
      BY <1>1, <1>3, <3>1, HashingKind DEF SavedStays, SameKind
  <2>2. ASSUME Hashing(Primary)', NEW b \in VerifiedIn(swarmer')
        PROVE  good'[b] = Bytes(b)
    <3>1. Hashing(Primary) /\ swarmer.verifier[Primary] # "NoVerification"
      BY <2>1, <2>2 DEF Hashing
    <3>2. b \in Blocks /\ saved.bitmap[Primary][ChunkOf[Primary][b]] = "verified"
      BY <1>3 DEF VerifiedIn
    <3>3. b \in VerifiedIn(swarmer)
      BY <1>1, <3>1, <3>2 DEF SavedStays
    <3> QED
      BY <1>1, <1>2, <3>1, <3>3 DEF Trusted, Sound
  <2>3. swarmer'.verifier[Primary] = "ForceVerification" =>
           \E v \in Schemes : v[Primary] = "ForceVerification"
    BY <1>1, <1>3 DEF SavedStays, SameKind, Trusted
  <2> QED
    BY <1>3, <2>2, <2>3 DEF Trusted, Sound
<1>8. DoneStays'
  <2> SUFFICES ASSUME saved.verifier[Primary] # "NoVerification", NEW f \in Frontends,
                      saved.state[f] = "FileDownloaded"
               PROVE  AllSaved(saved) /\ VerifiedIn(swarmer') = Blocks
    BY <1>2, <1>3 DEF DoneStays, AllSaved, VerifiedIn
  <2>1. AllSaved(saved)
    BY <1>1 DEF Inv, DoneStays, SavedStays, SameKind
  <2>2. VerifiedIn(swarmer') = Blocks
    BY <1>3, <2>1 DEF AllSaved, VerifiedIn
  <2> QED
    BY <2>1, <2>2
<1> QED
  BY <1>4, <1>5, <1>6, <1>7, <1>8 DEF Inv

\* A file is complete when a frontend of the swarmer has verified all chunks:
\* then the primary has.
LEMMA CheckFinishedStep == ASSUME Inv, NEW f \in Frontends, CheckFinished(f) PROVE Inv'
<1>1. /\ f \in swarmer.networks /\ InState(swarmer, f, {"verified"}) = Chunks(f)
      /\ state' = [state EXCEPT ![f] = "FileDownloaded"]
      /\ UNCHANGED <<swarmer, good, saved, corrupt, crashes>>
  BY DEF CheckFinished, Downloading
<1>2. Good(swarmer) /\ state \in [Frontends -> FileStates]
  BY DEF Inv, TypesOK
<1>3. \A b \in Blocks : swarmer.bitmap[f][ChunkOf[f][b]] = "verified"
  BY <1>1, ChunkFacts DEF InState
<1>4. swarmer.verifier[Primary] # "NoVerification" => VerifiedIn(swarmer) = Blocks
  <2>1. CASE f = Primary
    BY <1>2, <1>3, <2>1, ChunkFacts DEF Good, PrimaryFollows, VerifiedIn
  <2>2. CASE f # Primary
    BY <1>2, <1>3, <2>2, ChunkFacts, FrontendFacts DEF Good, SecondariesFollow, Finished, VerifiedIn
  <2> QED
    BY <2>1, <2>2
<1>5. state' \in [Frontends -> FileStates]
  BY <1>1, <1>2 DEF FileStates
<1> QED
  BY <1>1, <1>2, <1>4, <1>5, StateStep

\* Every step keeps the invariant.
LEMMA NextInv == Inv /\ [Next]_vars => Inv'
<1> SUFFICES ASSUME Inv, [Next]_vars
             PROVE  Inv'
  OBVIOUS
<1>1. ASSUME NEW f \in Frontends, NEW b \in Blocks, NewBlock(f, b)
      PROVE  Inv'
  BY <1>1, NewBlockStep
<1>2. ASSUME NEW f \in Frontends, NEW b \in Blocks, NEW n \in 1 .. Size[b], NEW ok \in BOOLEAN,
             Received(f, b, n, ok)
      PROVE  Inv'
  BY <1>2, ReceivedStep
<1>3. ASSUME NEW f \in Frontends, VerifyOneChunk(f)
      PROVE  Inv'
  <2>1. PICK C : /\ f \in swarmer.networks
                 /\ swarmer' = VerifyChunks(swarmer, f, C)
                 /\ UNCHANGED <<state, good, saved, corrupt, crashes>>
    BY <1>3 DEF VerifyOneChunk
  <2> QED
    BY <2>1, VerifyStep
<1>4. ASSUME NEW f \in Frontends, NEW c \in Chunks(f), PropagateChunk(f, c)
      PROVE  Inv'
  BY <1>4, PropagateStep
<1>5. ASSUME NEW f \in Frontends, Merge(f)
      PROVE  Inv'
  BY <1>5, MergeStep
<1>6. ASSUME NEW f \in Frontends, SetVerifier(f)
      PROVE  Inv'
  BY <1>6, SetVerifierStep
<1>7. ASSUME NEW f \in Frontends, ChangeState(f)
      PROVE  Inv'
  <2>1. /\ state' \in [Frontends -> FileStates]
        /\ \A g \in Frontends : state'[g] = "FileDownloaded" <=> state[g] = "FileDownloaded"
    BY <1>7 DEF ChangeState, Moves, FileStates, Inv, TypesOK
  <2> QED
    BY <1>7, <2>1, StateStep DEF ChangeState
<1>8. ASSUME NEW f \in Frontends, CheckFinished(f)
      PROVE  Inv'
  BY <1>8, CheckFinishedStep
<1>9. ASSUME NEW b \in Blocks, ShouldDownloadBlock(b)
      PROVE  Inv'
  <2>1. Primary \in swarmer.networks
    BY DEF Inv, Good, IsSwarmer
  <2> QED
    BY <1>9, <2>1, VerifyStep, FrontendFacts DEF ShouldDownloadBlock
<1>10. CASE Save
  BY <1>10, SaveStep
<1>11. CASE Restart
  BY <1>11, RestartStep
<1>12. CASE UNCHANGED vars
  BY <1>12, StateStep DEF vars, Inv, TypesOK
<1> QED
  BY <1>1, <1>2, <1>3, <1>4, <1>5, <1>6, <1>7, <1>8, <1>9, <1>10, <1>11, <1>12 DEF Next

-----------------------------------------------------------------------------
(* The theorems.                                                            *)

\* The invariant holds in every reachable state.
THEOREM Invariance == Spec => []Inv
BY InitInv, NextInv, PTL DEF Spec

\* Every variable keeps its type, whatever the handlers do in which order.
THEOREM TypeCorrectness == Spec => []TypeOK
<1>1. Inv => TypeOK
  BY DEF Inv, Good, TypesOK, TypeOK
<1> QED
  BY <1>1, Invariance, PTL

\* s_verified_bitmap mirrors s_blocks (the swarmer invariants, 262-266).
THEOREM BitmapCorrectness == Spec => []BitmapFollowsBlocks
<1>1. Inv => BitmapFollowsBlocks
  <2> SUFFICES ASSUME Inv, NEW b \in Blocks
               PROVE  swarmer.vbitmap[b] = BlockState[swarmer.blocks[b]]
    BY DEF BitmapFollowsBlocks
  <2>1. swarmer.blocks[b] \in {"Empty", "Partial", "Complete", "Verified"}
    BY DEF Inv, Good, IsSwarmer
  <2> QED
    BY <2>1 DEF Inv, Good, Mirrors, BlockState
<1> QED
  BY <1>1, Invariance, PTL

\* The bitmap of the primary agrees with its blocks (check_swarmer, 3303-3311).
THEOREM PrimaryCorrectness == Spec => []PrimaryAgrees
<1>1. Inv => PrimaryAgrees
  BY DEF Inv, Good, PrimaryFollows, PrimaryAgrees
<1> QED
  BY <1>1, Invariance, PTL

\* No secondary is ahead of the primary (check_swarmer, 3319-3331).
THEOREM SecondaryCorrectness == Spec => []SecondaryBehindPrimary
<1>1. Inv => SecondaryBehindPrimary
  <2> SUFFICES ASSUME Inv, NEW f \in swarmer.networks \ {Primary}, NEW b \in Blocks,
                      swarmer.bitmap[f][ChunkOf[f][b]] \in Finished
               PROVE  swarmer.blocks[b] = "Verified"
    BY DEF SecondaryBehindPrimary
  <2>1. f \in Frontends /\ f \in Secondaries
    BY FrontendFacts DEF Inv, Good, IsSwarmer
  <2>2. ChunkOf[f][b] \in Chunks(f) /\ b \in BlocksOf(f, ChunkOf[f][b])
    BY <2>1, ChunkFacts
  <2> QED
    BY <2>1, <2>2 DEF Inv, Good, SecondariesFollow
<1> QED
  BY <1>1, Invariance, PTL

\* Bytes that are wrong are never tagged verified, restarts included.
THEOREM VerifiedCorrectness == Spec => []VerifiedIsGood
<1>1. Inv => VerifiedIsGood
  <2> SUFFICES ASSUME Inv, Hashing(Primary), NEW f \in swarmer.networks, NEW b \in Blocks,
                      swarmer.bitmap[f][ChunkOf[f][b]] = "verified"
               PROVE  good[b] = Bytes(b)
    BY DEF VerifiedIsGood
  <2>1. f \in Frontends
    BY DEF Inv, Good, IsSwarmer
  <2>2. ChunkOf[f][b] \in Chunks(f) /\ b \in BlocksOf(f, ChunkOf[f][b])
    BY <2>1, ChunkFacts
  <2>3. swarmer.blocks[b] = "Verified"
    <3>1. CASE f = Primary
      BY <2>2, <3>1 DEF Inv, Good, PrimaryFollows, Hashing
    <3>2. CASE f # Primary
      BY <2>1, <2>2, <3>2, FrontendFacts DEF Inv, Good, SecondariesFollow, Finished
    <3> QED
      BY <3>1, <3>2
  <2> QED
    BY <2>3 DEF Inv, Trusted, Sound, VerifiedIn
<1> QED
  BY <1>1, Invariance, PTL

\* A file that is reported downloaded has right bytes only, however often the
\* daemon restarted and from which save.
THEOREM DownloadedCorrectness == Spec => []DownloadedFileIsGood
<1>1. Inv => DownloadedFileIsGood
  <2> SUFFICES ASSUME Inv, Hashing(Primary), NEW f \in Frontends, NEW b \in Blocks,
                      state[f] = "FileDownloaded"
               PROVE  good[b] = Bytes(b)
    BY DEF DownloadedFileIsGood
  <2>1. VerifiedIn(swarmer) = Blocks
    BY DEF Inv, DoneStays, Hashing
  <2> QED
    BY <2>1 DEF Inv, Trusted, Sound
<1> QED
  BY <1>1, Invariance, PTL

\* Unless a primary is forced to verify, the assertions at 1288 and 1309 hold.
THEOREM AssertionsHold ==
    ASSUME \A v \in Schemes : v[Primary] # "ForceVerification"
    PROVE  Spec => []NoAssertFails
<1>1. Inv => NoAssertFails
  BY DEF Inv, Trusted, NoAssertFails
<1> QED
  BY <1>1, Invariance, PTL

-----------------------------------------------------------------------------
(* Nothing but bad data is thrown away: only set_frontend_state_missing     *)
(* makes a block miss more bytes.                                           *)
Shaped(s) == /\ DOMAIN s = {"blocks", "remaining", "vbitmap", "downloaded", "networks", "bitmap",
                            "ncomplete", "nverified", "verifier", "asserts"}
             /\ s.remaining \in [Blocks -> Nat]

Keeps(s, r) == Shaped(r) /\ \A b \in Blocks : r.remaining[b] <= s.remaining[b]

\* set_completed_block
LEMMA CompletedKeeps ==
    ASSUME NEW s, Shaped(s), NEW B
    PROVE  Keeps(s, SetCompletedBlock(s, B))
<1> DEFINE t == SetSwarmerStateComplete(s, Open(s, B))
           r == SetCompletedBlock(s, B)
<1>1. DOMAIN t = DOMAIN s /\ t.remaining = s.remaining
  BY DEF Shaped, SetSwarmerStateComplete
<1>2. r = [t EXCEPT !.blocks = Put(@, Open(s, B), "Complete"),
                    !.remaining = Put(@, Open(s, B), 0),
                    !.downloaded = @ + Sum(s.remaining, Open(s, B))]
  BY DEF SetCompletedBlock
<1> HIDE DEF t, r
<1>3. DOMAIN r = DOMAIN s /\ r.remaining = Put(s.remaining, Open(s, B), 0)
  BY <1>1, <1>2 DEF Shaped
<1>4. /\ r.remaining \in [Blocks -> Nat]
      /\ \A b \in Blocks : r.remaining[b] <= s.remaining[b]
  BY <1>3 DEF Shaped, Put
<1> QED
  BY <1>3, <1>4 DEF Shaped, Keeps, r

\* set_verified_block
LEMMA VerifiedBlockKeeps ==
    ASSUME NEW s, Shaped(s), NEW B
    PROVE  Keeps(s, SetVerifiedBlock(s, B))
<1> DEFINE F == {b \in B : s.blocks[b] # "Verified"}
           t == SetCompletedBlock(s, F)
           u == [t EXCEPT !.blocks = Put(@, F, "Verified")]
           r == SetVerifiedBlock(s, B)
<1>1. Keeps(s, t)
  BY CompletedKeeps
<1>2. r = SetSwarmerStateVerified(u, F)
  BY DEF SetVerifiedBlock
<1> HIDE DEF t
<1>3. DOMAIN u = DOMAIN t /\ u.remaining = t.remaining
  BY <1>1 DEF Keeps, Shaped
<1> HIDE DEF u, F, r
<1>4. DOMAIN r = DOMAIN u /\ r.remaining = u.remaining
  BY <1>1, <1>2, <1>3 DEF Keeps, Shaped, SetSwarmerStateVerified
<1> QED
  BY <1>1, <1>3, <1>4 DEF Keeps, Shaped, r

\* set_frontend_state_verified
LEMMA VerifiedKeeps ==
    ASSUME NEW s, Shaped(s), NEW f, NEW C
    PROVE  Keeps(s, SetFrontendStateVerified(s, f, C))
<1> DEFINE fresh == {c \in C : s.bitmap[f][c] # "verified"}
           t == [s EXCEPT !.bitmap[f] = Put(@, fresh, "verified"),
                          !.ncomplete[f] = @ + Cardinality(fresh \cap InState(s, f, Unfinished)),
                          !.nverified[f] = @ + Cardinality(fresh)]
           r == SetFrontendStateVerified(s, f, C)
<1>1. r = IF f = Primary THEN SetVerifiedBlock(t, UNION {BlocksOf(f, c) : c \in fresh}) ELSE t
  BY DEF SetFrontendStateVerified
<1>2. DOMAIN t = DOMAIN s /\ t.remaining = s.remaining
  BY DEF Shaped
<1> HIDE DEF t, r, fresh
<1>3. Shaped(t)
  BY <1>2 DEF Shaped
<1>4. Keeps(t, SetVerifiedBlock(t, UNION {BlocksOf(f, c) : c \in fresh}))
  BY <1>3, VerifiedBlockKeeps
<1>5. Keeps(s, t)
  BY <1>2, <1>3 DEF Keeps, Shaped
<1>6. Keeps(s, r)
  BY <1>1, <1>2, <1>4, <1>5 DEF Keeps
<1> QED
  BY <1>6 DEF r

\* set_frontend_state_missing: what is lost is in the chunks that failed.
LEMMA MissingLoses ==
    ASSUME NEW s, Shaped(s), NEW f, NEW C
    PROVE  LET r == SetFrontendStateMissing(s, f, C)
           IN  \A b \in Blocks : r.remaining[b] # s.remaining[b] => ChunkOf[f][b] \in C
<1> DEFINE u == Rejected(s, f, C)
           r == SetFrontendStateMissing(s, f, C)
<1>1. /\ DOMAIN u = DOMAIN s
      /\ u.remaining = [b \in Blocks |-> IF b \in Lost(s, f, C) THEN Size[b] ELSE s.remaining[b]]
  BY DEF Shaped, Rejected
<1>2. r = SetSwarmerStateMissing(u, {b \in Walked(s, f, C) : s.blocks[b] \in {"Empty", "Complete"}})
  BY DEF SetFrontendStateMissing
<1> HIDE DEF u, r
<1>3. r.remaining = u.remaining
  BY <1>1, <1>2 DEF Shaped, SetSwarmerStateMissing
<1>4. \A b \in Lost(s, f, C) : ChunkOf[f][b] \in C
  BY DEF Lost, Walked, Failed, Tagged, Reached
<1> QED
  BY <1>1, <1>3, <1>4 DEF r

\* verify_chunk: data is lost when a complete chunk fails.
BadChunk(s, f, b) ==
    /\ s.bitmap[f][ChunkOf[f][b]] = "complete"
    /\ \E c \in Chunks(f) : /\ c = ChunkOf[f][b] \/ s.verifier[f] = "FileVerification"
                           /\ ~ HashOk(f, c)

LEMMA VerifyLoses ==
    ASSUME NEW s, Shaped(s), NEW f \in Frontends, s.verifier[f] \in Verifiers, NEW C
    PROVE  \A b \in Blocks :
              VerifyChunks(s, f, C).remaining[b] > s.remaining[b] => BadChunk(s, f, b)
<1> DEFINE todo == C \cap InState(s, f, {"complete"})
           raising == {c \in todo : ~ HashOk(f, c) /\ (Refuses(s, f, c) \/ Aborts(s, f, c))}
           right == {c \in todo : HashOk(f, c) /\ \A d \in raising : c < d}
           wrong == {c \in todo : ~ HashOk(f, c)}
           whole == SetFrontendStateVerified(s, f, Chunks(f))
           r == VerifyChunks(s, f, C)
<1> SUFFICES ASSUME NEW b \in Blocks, r.remaining[b] > s.remaining[b]
             PROVE  BadChunk(s, f, b)
  OBVIOUS
<1>1. \A c \in todo : c \in Chunks(f) /\ s.bitmap[f][c] = "complete"
  BY DEF InState
<1>2. s.remaining[b] \in Nat /\ ~ (s.remaining[b] > s.remaining[b])
  BY DEF Shaped
<1>3. ASSUME NEW t, Keeps(s, t) PROVE ~ (t.remaining[b] > s.remaining[b])
  BY <1>2, <1>3 DEF Keeps, Shaped
<1>4. CASE Trusting(s, f)
  BY <1>2, <1>4 DEF VerifyChunks, Trusting
<1>5. CASE s.verifier[f] = "ForceVerification"
  <2>1. r = SetFrontendStateVerified(s, f, todo)
    BY <1>5 DEF VerifyChunks, Trusting
  <2> HIDE DEF r, todo
  <2> QED
    BY <1>3, <2>1, VerifiedKeeps
<1>6. CASE s.verifier[f] = "Verification"
  <2> DEFINE t == SetFrontendStateVerified(s, f, right)
  <2>1. r = SetFrontendStateMissing(t, f, wrong)
    BY <1>6 DEF VerifyChunks, Trusting
  <2>2. Keeps(s, t)
    BY VerifiedKeeps
  <2> HIDE DEF t
  <2>3. r.remaining[b] # t.remaining[b]
    BY <1>3, <2>2
  <2>4. Shaped(t)
    BY <2>2 DEF Keeps
  <2>5. ChunkOf[f][b] \in wrong
    <3> HIDE DEF r, wrong
    <3> QED
      BY <2>1, <2>3, <2>4, MissingLoses
  <2> QED
    BY <1>1, <2>5 DEF BadChunk
<1>7. CASE s.verifier[f] = "FileVerification"
  <2> DEFINE D == InState(s, f, {"complete"})
  <2>1. \/ r = s
        \/ r = whole
        \/ r = SetFrontendStateMissing(s, f, D) /\ \E c \in Chunks(f) : ~ HashOk(f, c)
    BY <1>7 DEF VerifyChunks, Trusting
  <2>2. CASE r = s
    BY <1>2, <2>2
  <2>3. CASE r = whole
    <3>1. Keeps(s, whole)
      BY VerifiedKeeps
    <3> HIDE DEF r, whole
    <3> QED
      BY <1>3, <2>3, <3>1
  <2>4. CASE r = SetFrontendStateMissing(s, f, D) /\ \E c \in Chunks(f) : ~ HashOk(f, c)
    <3>1. r.remaining[b] # s.remaining[b]
      BY <1>2
    <3>2. ChunkOf[f][b] \in D
      <4> HIDE DEF r, D
      <4> QED
        BY <2>4, <3>1, MissingLoses
    <3>3. s.bitmap[f][ChunkOf[f][b]] = "complete"
      BY <3>2 DEF InState
    <3> QED
      BY <1>7, <2>4, <3>3 DEF BadChunk
  <2> QED
    BY <2>1, <2>2, <2>3, <2>4
<1> QED
  BY <1>4, <1>5, <1>6, <1>7 DEF Trusting, Verifiers

\* What a step may throw away.
OnlyBad == \A b \in Blocks :
    swarmer'.remaining[b] > swarmer.remaining[b] /\ crashes' = crashes =>
        \E f \in swarmer.networks : BadChunk(swarmer, f, b)

\* Every handler throws away bad data only.
LEMMA StepOnlyBad == Inv /\ [Next]_vars => OnlyBad
<1> SUFFICES ASSUME Inv, [Next]_vars
             PROVE  OnlyBad
  OBVIOUS
<1>1. /\ Shaped(swarmer)
      /\ swarmer.networks \subseteq Frontends /\ Primary \in swarmer.networks
      /\ \A f \in Frontends : swarmer.verifier[f] \in Verifiers
  BY DEF Inv, Good, IsSwarmer, Shaped
<1>2. \A b \in Blocks : swarmer.remaining[b] \in Nat
  BY <1>1 DEF Shaped
<1>3. ASSUME Keeps(swarmer, swarmer') PROVE OnlyBad
  BY <1>2, <1>3 DEF OnlyBad, Keeps, Shaped
<1>4. ASSUME swarmer'.remaining = swarmer.remaining PROVE OnlyBad
  BY <1>2, <1>4 DEF OnlyBad
<1>5. ASSUME NEW f \in Frontends, NEW b \in Blocks, NewBlock(f, b)
      PROVE  OnlyBad
  <2> DEFINE s == [swarmer EXCEPT !.blocks[b] = "Partial"]
  <2>1. DOMAIN s = DOMAIN swarmer /\ s.remaining = swarmer.remaining
    BY <1>1 DEF Shaped
  <2>2. swarmer' = SetSwarmerStatePartial(s, b)
    BY <1>5 DEF NewBlock
  <2> HIDE DEF s
  <2>3. SetSwarmerStatePartial(s, b).remaining = s.remaining
    BY <1>1, <2>1 DEF Shaped, SetSwarmerStatePartial
  <2> QED
    BY <1>4, <2>1, <2>2, <2>3
<1>6. ASSUME NEW f \in Frontends, NEW b \in Blocks, NEW n \in 1 .. Size[b], NEW ok \in BOOLEAN,
             Received(f, b, n, ok)
      PROVE  OnlyBad
  <2> DEFINE left == swarmer.remaining[b] - n
             s == [swarmer EXCEPT !.remaining[b] = left, !.downloaded = @ + n]
  <2>1. /\ left >= 0
        /\ swarmer' = IF left > 0 THEN s
                      ELSE IF s.verifier[Primary] = "NoVerification"
                      THEN SetVerifiedBlock(s, {b})
                      ELSE SetCompletedBlock(s, {b})
    BY <1>6 DEF Received
  <2>2. left \in Nat /\ left <= swarmer.remaining[b]
    BY <1>2, <2>1, SizeAssumption
  <2>3. DOMAIN s = DOMAIN swarmer /\ s.remaining = [swarmer.remaining EXCEPT ![b] = left]
    BY <1>1 DEF Shaped
  <2> HIDE DEF s, left
  <2>4. Shaped(s) /\ Keeps(swarmer, s)
    BY <1>1, <2>2, <2>3 DEF Shaped, Keeps
  <2>5. Keeps(s, swarmer') \/ swarmer' = s
    BY <2>1, <2>4, VerifiedBlockKeeps, CompletedKeeps
  <2>6. Keeps(swarmer, swarmer')
    <3>1. CASE swarmer' = s
      BY <2>4, <3>1 DEF Keeps, Shaped
    <3>2. CASE Keeps(s, swarmer')
      BY <1>2, <2>4, <3>2 DEF Keeps, Shaped
    <3> QED
      BY <2>5, <3>1, <3>2
  <2> QED
    BY <1>3, <2>6
<1>7. ASSUME NEW f \in swarmer.networks, NEW C, swarmer' = VerifyChunks(swarmer, f, C)
      PROVE  OnlyBad
  BY <1>1, <1>7, VerifyLoses DEF OnlyBad
<1>8. ASSUME NEW f \in Frontends, NEW c \in Chunks(f), PropagateChunk(f, c)
      PROVE  OnlyBad
  <2>1. Keeps(swarmer, swarmer')
    BY <1>1, <1>8, CompletedKeeps DEF PropagateChunk, SetFrontendStateComplete
  <2> QED
    BY <1>3, <2>1
<1>9. ASSUME NEW f \in Frontends, Merge(f)
      PROVE  OnlyBad
  <2>1. swarmer'.remaining = swarmer.remaining
    BY <1>1, <1>9 DEF Merge, Associate, Shaped
  <2> QED
    BY <1>4, <2>1
<1>10. ASSUME NEW f \in Frontends, SetVerifier(f)
       PROVE  OnlyBad
  <2> DEFINE s == [swarmer EXCEPT !.verifier[f] = "Verification"]
             bm == swarmer.bitmap[f]
             t == SetFrontendStateComplete(s, f, {c \in Chunks(f) : bm[c] = "complete"})
  <2>1. swarmer' = SetFrontendStateVerified(t, f, {c \in Chunks(f) : bm[c] = "verified"})
    BY <1>10 DEF SetVerifier, SetChunksVerifiedBitmap
  <2>2. DOMAIN s = DOMAIN swarmer /\ s.remaining = swarmer.remaining
    BY <1>1 DEF Shaped
  <2> HIDE DEF s
  <2>3. Shaped(s)
    BY <1>1, <2>2 DEF Shaped
  <2>4. Keeps(s, t)
    BY <2>3, CompletedKeeps DEF SetFrontendStateComplete
  <2> HIDE DEF t
  <2>5. Shaped(t)
    BY <2>4 DEF Keeps
  <2>6. Keeps(t, swarmer')
    BY <2>1, <2>5, VerifiedKeeps
  <2>7. Keeps(swarmer, swarmer')
    BY <1>2, <2>2, <2>4, <2>5, <2>6 DEF Keeps, Shaped
  <2> QED
    BY <1>3, <2>7
<1>11. ASSUME NEW f \in Frontends, VerifyOneChunk(f)
       PROVE  OnlyBad
  BY <1>7, <1>11 DEF VerifyOneChunk
<1>12. ASSUME NEW b \in Blocks, ShouldDownloadBlock(b)
       PROVE  OnlyBad
  BY <1>1, <1>7, <1>12 DEF ShouldDownloadBlock
<1>13. ASSUME NEW f \in Frontends, ChangeState(f) \/ CheckFinished(f)
       PROVE  OnlyBad
  BY <1>4, <1>13 DEF ChangeState, CheckFinished
<1>14. CASE Save \/ UNCHANGED vars
  BY <1>4, <1>14 DEF Save, vars
<1>15. CASE Restart
  <2>1. crashes' # crashes
    BY <1>15 DEF Restart, Inv, TypesOK
  <2> QED
    BY <2>1 DEF OnlyBad
<1> QED
  BY <1>5, <1>6, <1>8, <1>9, <1>10, <1>11, <1>12, <1>13, <1>14, <1>15 DEF Next

\* Downloaded bytes are thrown away only by a restart, or for a complete chunk
\* whose hash is wrong.
THEOREM NoGoodDataLost == Spec => OnlyBadDataIsLost
<1>1. OnlyBad => \A b \in Blocks :
          swarmer'.remaining[b] > swarmer.remaining[b] /\ crashes' = crashes =>
              \E f \in swarmer.networks :
                 /\ swarmer.bitmap[f][ChunkOf[f][b]] = "complete"
                 /\ \E c \in Chunks(f) :
                       /\ c = ChunkOf[f][b] \/ swarmer.verifier[f] = "FileVerification"
                       /\ ~ HashOk(f, c)
  BY DEF OnlyBad, BadChunk
<1>2. Inv /\ [Next]_vars => OnlyBad
  BY StepOnlyBad
<1> QED
  BY <1>1, <1>2, Invariance, PTL DEF Spec, OnlyBadDataIsLost

-----------------------------------------------------------------------------
(* Only right bytes become verified, rechecks and rotting disks included.   *)
(* The bitmaps agree no longer then, and nothing is asked of them: a        *)
(* swarmer is Formed, and a function that Certifies makes blocks verified   *)
(* over right bytes only.                                                   *)
Bitmapped(bm) == DOMAIN bm = Frontends /\ DOMAIN bm[Primary] = Chunks(Primary)

Formed(s) == /\ DOMAIN s = {"blocks", "remaining", "vbitmap", "downloaded", "networks", "bitmap",
                            "ncomplete", "nverified", "verifier", "asserts"}
             /\ s.blocks = [b \in Blocks |-> s.blocks[b]]
             /\ Bitmapped(s.bitmap)
             /\ s.verifier \in [Frontends -> Verifiers]
             /\ s.verifier[Primary] \notin {"NoVerification", "ForceVerification"}

Certifies(s, r) ==
    /\ Formed(r)
    /\ \A b \in Blocks : r.blocks[b] = "Verified" /\ s.blocks[b] # "Verified" => good[b] = Bytes(b)

LEMMA SameBlocks ==
    ASSUME NEW s, Formed(s), NEW r, DOMAIN r = DOMAIN s, r.blocks = s.blocks, r.verifier = s.verifier,
           Bitmapped(r.bitmap)
    PROVE  Certifies(s, r)
BY DEF Formed, Certifies

LEMMA CertifiesTwice ==
    ASSUME NEW s, NEW t, Certifies(s, t), NEW r, Certifies(t, r)
    PROVE  Certifies(s, r)
BY DEF Certifies

\* set_swarmer_state_complete: the blocks stay, and the bitmaps keep their shape.
LEMMA CompletedBitmap ==
    ASSUME NEW s, Formed(s), NEW B
    PROVE  LET r == SetSwarmerStateComplete(s, B) IN
           /\ DOMAIN r = DOMAIN s /\ r.blocks = s.blocks /\ r.verifier = s.verifier
           /\ Bitmapped(r.bitmap)
<1> DEFINE r == SetSwarmerStateComplete(s, B)
           X == Escalated(s, B) \cup TakenBack(s, B)
<1>1. /\ DOMAIN r = DOMAIN s /\ r.blocks = s.blocks /\ r.verifier = s.verifier
      /\ r.bitmap = [s.bitmap EXCEPT ![Primary] = Put(s.bitmap[Primary], X, "complete")]
  BY DEF Formed, SetSwarmerStateComplete
<1> HIDE DEF r, X
<1>2. Bitmapped(r.bitmap)
  BY <1>1, FrontendFacts DEF Formed, Bitmapped, Put
<1> QED
  BY <1>1, <1>2 DEF r

\* set_completed_block: nothing becomes verified.
LEMMA CompletedCertifies ==
    ASSUME NEW s, Formed(s), NEW B
    PROVE  /\ Certifies(s, SetCompletedBlock(s, B))
           /\ \A b \in Blocks : SetCompletedBlock(s, B).blocks[b] = "Verified"
                                   => s.blocks[b] = "Verified"
<1> DEFINE t == SetSwarmerStateComplete(s, Open(s, B))
           r == SetCompletedBlock(s, B)
<1>1. /\ DOMAIN t = DOMAIN s /\ t.blocks = s.blocks /\ t.verifier = s.verifier
      /\ Bitmapped(t.bitmap)
  BY CompletedBitmap
<1>2. r = [t EXCEPT !.blocks = Put(@, Open(s, B), "Complete"),
                    !.remaining = Put(@, Open(s, B), 0),
                    !.downloaded = @ + Sum(s.remaining, Open(s, B))]
  BY DEF SetCompletedBlock
<1> HIDE DEF t, r
<1>3. /\ DOMAIN r = DOMAIN s /\ r.verifier = s.verifier /\ r.blocks = Put(s.blocks, Open(s, B), "Complete")
      /\ r.bitmap = t.bitmap
  BY <1>1, <1>2 DEF Formed
<1>4. DOMAIN s.blocks = Blocks
  BY DEF Formed
<1>5. r.blocks = [b \in Blocks |-> IF b \in Open(s, B) THEN "Complete" ELSE s.blocks[b]]
  BY <1>3, <1>4 DEF Put
<1> QED
  BY <1>1, <1>3, <1>5 DEF Formed, Certifies, r

\* set_verified_block: the blocks become verified.
LEMMA VerifiedBlockCertifies ==
    ASSUME NEW s, Formed(s), NEW B
    PROVE  /\ Formed(SetVerifiedBlock(s, B))
           /\ (\A b \in B : b \in Blocks => good[b] = Bytes(b))
                 => Certifies(s, SetVerifiedBlock(s, B))
<1> DEFINE F == {b \in B : s.blocks[b] # "Verified"}
           t == SetCompletedBlock(s, F)
           u == [t EXCEPT !.blocks = Put(@, F, "Verified")]
           r == SetVerifiedBlock(s, B)
<1>1. /\ Formed(t)
      /\ \A b \in Blocks : t.blocks[b] = "Verified" => s.blocks[b] = "Verified"
  BY CompletedCertifies DEF Certifies
<1>2. r = SetSwarmerStateVerified(u, F)
  BY DEF SetVerifiedBlock
<1>3. \A b \in F : b \in B
  OBVIOUS
<1> HIDE DEF t, F
<1>4. /\ DOMAIN u = DOMAIN t /\ u.verifier = t.verifier /\ u.bitmap = t.bitmap
      /\ u.blocks = [b \in Blocks |-> IF b \in F THEN "Verified" ELSE t.blocks[b]]
  <2>1. DOMAIN t.blocks = Blocks /\ DOMAIN u = DOMAIN t /\ u.verifier = t.verifier
        /\ u.blocks = Put(t.blocks, F, "Verified") /\ u.bitmap = t.bitmap
    BY <1>1 DEF Formed
  <2> QED
    BY <2>1 DEF Put
<1> HIDE DEF u, r
<1>5. /\ DOMAIN r = DOMAIN u /\ r.blocks = u.blocks /\ r.verifier = u.verifier
      /\ r.bitmap = [f \in Frontends |->
                       Put(u.bitmap[f], PassedOn(u, F, f), IF Trusting(u, f) THEN "verified" ELSE "complete")]
  BY <1>1, <1>2, <1>4 DEF Formed, SetSwarmerStateVerified
<1>6. Bitmapped(r.bitmap)
  BY <1>1, <1>4, <1>5, FrontendFacts DEF Formed, Bitmapped, Put
<1>7. Formed(r)
  BY <1>1, <1>4, <1>5, <1>6 DEF Formed
<1> QED
  BY <1>1, <1>3, <1>4, <1>5, <1>7 DEF Certifies, r

\* No block becomes verified that was not hashed when the chunks C of f do.
Hashed(s, f, C) == \/ f # Primary
                   \/ \A c \in C : HashOk(f, c)
                   \/ \A c \in C : s.bitmap[f][c] = "verified"

\* set_frontend_state_verified: the blocks of the primary's chunks become verified.
LEMMA FrontendCertifies ==
    ASSUME NEW s, Formed(s), NEW f, NEW C
    PROVE  /\ Formed(SetFrontendStateVerified(s, f, C))
           /\ Hashed(s, f, C) => Certifies(s, SetFrontendStateVerified(s, f, C))
<1> DEFINE fresh == {c \in C : s.bitmap[f][c] # "verified"}
           t == [s EXCEPT !.bitmap[f] = Put(@, fresh, "verified"),
                          !.ncomplete[f] = @ + Cardinality(fresh \cap InState(s, f, Unfinished)),
                          !.nverified[f] = @ + Cardinality(fresh)]
           B == UNION {BlocksOf(f, c) : c \in fresh}
           r == SetFrontendStateVerified(s, f, C)
<1>1. r = IF f = Primary THEN SetVerifiedBlock(t, B) ELSE t
  BY DEF SetFrontendStateVerified
<1>2. /\ DOMAIN t = DOMAIN s /\ t.blocks = s.blocks /\ t.verifier = s.verifier
      /\ t.bitmap = [s.bitmap EXCEPT ![f] = Put(s.bitmap[f], fresh, "verified")]
  BY DEF Formed
<1>3. Hashed(s, f, C) /\ f = Primary => \A b \in B : good[b] = Bytes(b)
  BY DEF HashOk, Hashed
<1> HIDE DEF t, r, B, fresh
<1>4. Formed(t)
  BY <1>2 DEF Formed, Bitmapped, Put
<1>5. Hashed(s, f, C) /\ f = Primary => Certifies(t, SetVerifiedBlock(t, B))
  BY <1>3, <1>4, VerifiedBlockCertifies
<1>6. Formed(SetVerifiedBlock(t, B))
  BY <1>4, VerifiedBlockCertifies
<1>7. Hashed(s, f, C) => Certifies(s, r)
  BY <1>1, <1>2, <1>4, <1>5 DEF Certifies
<1> QED
  BY <1>1, <1>4, <1>6, <1>7 DEF r

\* set_frontend_state_missing: the blocks of the chunks that failed are emptied.
LEMMA MissingCertifies ==
    ASSUME NEW s, Formed(s), NEW f, NEW C
    PROVE  Certifies(s, SetFrontendStateMissing(s, f, C))
<1> DEFINE u == Rejected(s, f, C)
           r == SetFrontendStateMissing(s, f, C)
<1>1. /\ DOMAIN u = DOMAIN s /\ u.verifier = s.verifier /\ u.blocks = Put(s.blocks, Lost(s, f, C), "Empty")
      /\ u.bitmap = [s.bitmap EXCEPT ![f] =
                       Put(Put(s.bitmap[f], Tagged(s, f, C), "partial"), Failed(s, f, C), "missing")]
  BY DEF Formed, Rejected
<1>2. r = SetSwarmerStateMissing(u, {b \in Walked(s, f, C) : s.blocks[b] \in {"Empty", "Complete"}})
  BY DEF SetFrontendStateMissing
<1> DEFINE W == {b \in Walked(s, f, C) : s.blocks[b] \in {"Empty", "Complete"}}
<1> HIDE DEF u, r, W
<1>3. /\ DOMAIN r = DOMAIN u /\ r.blocks = u.blocks /\ r.verifier = u.verifier
      /\ r.bitmap = [g \in Frontends |-> Put(u.bitmap[g], Voided(u, W, g), "missing")]
  BY <1>1, <1>2 DEF Formed, SetSwarmerStateMissing, W
<1>6. Bitmapped(r.bitmap)
  <2>1. DOMAIN u.bitmap[Primary] = DOMAIN s.bitmap[Primary]
    BY <1>1 DEF Formed, Bitmapped, Put
  <2>2. r.bitmap[Primary] = Put(u.bitmap[Primary], Voided(u, W, Primary), "missing")
    BY <1>3, FrontendFacts
  <2> QED
    BY <1>3, <2>1, <2>2 DEF Formed, Bitmapped, Put
<1>4. DOMAIN s.blocks = Blocks
  BY DEF Formed
<1>5. r.blocks = [b \in Blocks |-> IF b \in Lost(s, f, C) THEN "Empty" ELSE s.blocks[b]]
  BY <1>1, <1>3, <1>4 DEF Put
<1> QED
  BY <1>1, <1>3, <1>5, <1>6 DEF Formed, Certifies, r

\* verify_chunk: what becomes verified has been hashed.
LEMMA ChunksCertify ==
    ASSUME NEW s, Formed(s), NEW f \in Frontends, NEW C
    PROVE  Certifies(s, VerifyChunks(s, f, C))
<1> DEFINE todo == C \cap InState(s, f, {"complete"})
           raising == {c \in todo : ~ HashOk(f, c) /\ (Refuses(s, f, c) \/ Aborts(s, f, c))}
           right == {c \in todo : HashOk(f, c) /\ \A d \in raising : c < d}
           wrong == {c \in todo : ~ HashOk(f, c)}
           r == VerifyChunks(s, f, C)
<1>1. Certifies(s, s)
  BY SameBlocks DEF Formed
<1>2. CASE Trusting(s, f)
  BY <1>1, <1>2 DEF VerifyChunks, Trusting
<1>3. CASE s.verifier[f] = "ForceVerification"
  <2>1. r = SetFrontendStateVerified(s, f, todo) /\ f # Primary
    BY <1>3 DEF VerifyChunks, Trusting, Formed
  <2> HIDE DEF r, todo
  <2>2. Certifies(s, r)
    BY <2>1, FrontendCertifies DEF Hashed
  <2> QED
    BY <2>2 DEF r
<1>4. CASE s.verifier[f] = "Verification"
  <2> DEFINE t == SetFrontendStateVerified(s, f, right)
  <2>1. r = SetFrontendStateMissing(t, f, wrong)
    BY <1>4 DEF VerifyChunks, Trusting
  <2>2. \A c \in right : HashOk(f, c)
    OBVIOUS
  <2> HIDE DEF right, wrong, r
  <2>3. Certifies(s, t)
    BY <2>2, FrontendCertifies DEF Hashed
  <2> HIDE DEF t
  <2>4. Certifies(t, r)
    BY <2>1, <2>3, MissingCertifies DEF Certifies
  <2>5. Certifies(s, r)
    BY <2>3, <2>4, CertifiesTwice
  <2> QED
    BY <2>5 DEF r
<1>5. CASE s.verifier[f] = "FileVerification"
  <2> DEFINE D == InState(s, f, {"complete"})
  <2>1. \/ r = s
        \/ r = SetFrontendStateVerified(s, f, Chunks(f)) /\ \A c \in Chunks(f) : HashOk(f, c)
        \/ r = SetFrontendStateMissing(s, f, D)
    BY <1>5 DEF VerifyChunks, Trusting
  <2> HIDE DEF r, D
  <2>2. Certifies(s, r)
    BY <1>1, <2>1, FrontendCertifies, MissingCertifies DEF Hashed
  <2> QED
    BY <2>2 DEF r
<1> QED
  BY <1>2, <1>3, <1>4, <1>5 DEF Trusting, Verifiers, Formed

\* verify_all_chunks: blocks stay what they are.
LEMMA AllChunksCertify ==
    ASSUME NEW s, Formed(s)
    PROVE  Certifies(s, VerifyAllChunks(s)) /\ VerifyAllChunks(s).verifier = s.verifier
<1> DEFINE t == SetSwarmerStateComplete(s, {b \in Blocks : s.vbitmap[b] \in {"missing", "verified"}})
           r == VerifyAllChunks(s)
<1>1. /\ DOMAIN t = DOMAIN s /\ t.blocks = s.blocks /\ t.verifier = s.verifier
      /\ Bitmapped(t.bitmap)
  BY CompletedBitmap
<1>2. r = [t EXCEPT !.downloaded = @ + Sum(Size, {b \in Blocks : s.vbitmap[b] = "missing"})]
  BY DEF VerifyAllChunks
<1> HIDE DEF t, r
<1>3. DOMAIN r = DOMAIN s /\ r.blocks = s.blocks /\ r.verifier = s.verifier /\ r.bitmap = t.bitmap
  BY <1>1, <1>2 DEF Formed
<1> QED
  BY <1>1, <1>3, SameBlocks DEF r

\* A restart brings back a swarmer of its shape.
LEMMA LoadedFormed ==
    ASSUME NEW old, old.verifier \in [Frontends -> Verifiers],
           old.verifier[Primary] \notin {"NoVerification", "ForceVerification"}
    PROVE  Formed(Loaded(old))
<1> DEFINE solo == [f \in Secondaries |-> IF f \in old.networks THEN 0 ELSE Solo[f]]
           empty == EmptySwarmer(solo, old.verifier)
           bm == old.bitmap[Primary]
           half == SetFrontendStateComplete(empty, Primary, {c \in Chunks(Primary) : bm[c] = "complete"})
           chunks == SetChunksVerifiedBitmap(empty, Primary, bm)
           prim == SetPresent(chunks, old.present)
           secs == old.networks \ {Primary}
           claimed == {b \in Blocks : \E f \in secs : old.bitmap[f][ChunkOf[f][b]] = "complete"}
           done == SetCompletedBlock(prim, claimed)
           r == Loaded(old)
<1>1. Formed(empty)
  BY FrontendFacts DEF Formed, EmptySwarmer, Bitmapped
<1>2. Formed(half)
  <2> HIDE DEF empty
  <2> QED
    BY <1>1, CompletedCertifies DEF Certifies, SetFrontendStateComplete
<1>3. chunks = SetFrontendStateVerified(half, Primary, {c \in Chunks(Primary) : bm[c] = "verified"})
  BY DEF SetChunksVerifiedBitmap
<1>4. Formed(chunks)
  <2> HIDE DEF half, chunks
  <2> QED
    BY <1>2, <1>3, FrontendCertifies
<1> HIDE DEF empty, half, chunks
<1>5. Formed(prim)
  <2> DEFINE open == {b \in Blocks : chunks.blocks[b] = "Empty" /\ old.present[b] > 0}
             full == {b \in open : old.present[b] = Size[b]}
             cut == open \ full
             t == SetCompletedBlock(chunks, full)
  <2>1. Formed(t)
    BY <1>4, CompletedCertifies DEF Certifies
  <2>2. prim = [t EXCEPT
                  !.blocks = Put(@, cut, "Partial"),
                  !.remaining = [b \in Blocks |-> IF b \in cut THEN Size[b] - old.present[b] ELSE @[b]],
                  !.downloaded = @ + Sum(old.present, cut),
                  !.vbitmap = Put(@, cut, "partial"),
                  !.bitmap[Primary] = Put(@, {c \in InState(t, Primary, {"missing"}) :
                                                BlocksOf(Primary, c) \cap cut # {}}, "partial")]
    BY DEF SetPresent
  <2> HIDE DEF t, cut, prim
  <2> DEFINE X == {c \in InState(t, Primary, {"missing"}) : BlocksOf(Primary, c) \cap cut # {}}
  <2> HIDE DEF X
  <2>3. /\ DOMAIN prim = DOMAIN t /\ prim.verifier = t.verifier /\ prim.blocks = Put(t.blocks, cut, "Partial")
        /\ prim.bitmap = [t.bitmap EXCEPT ![Primary] = Put(t.bitmap[Primary], X, "partial")]
    BY <2>1, <2>2 DEF Formed, X
  <2>6. Bitmapped(prim.bitmap)
    BY <2>1, <2>3, FrontendFacts DEF Formed, Bitmapped, Put
  <2>4. DOMAIN t.blocks = Blocks
    BY <2>1 DEF Formed
  <2>5. prim.blocks = [b \in Blocks |-> IF b \in cut THEN "Partial" ELSE t.blocks[b]]
    BY <2>3, <2>4 DEF Put
  <2> QED
    BY <2>1, <2>3, <2>5, <2>6 DEF Formed
<1> HIDE DEF prim
<1>6. Formed(done)
  BY <1>5, CompletedCertifies DEF Certifies
<1> DEFINE sure(f) == {c \in Chunks(f) : f \in secs /\ old.bitmap[f][c] = "verified"}
<1>7. /\ DOMAIN r = DOMAIN done /\ r.blocks = done.blocks /\ r.verifier = done.verifier
      /\ r.bitmap = [f \in Frontends |-> Put(done.bitmap[f], sure(f), "verified")]
  BY <1>6 DEF Loaded, prim, chunks, empty, Formed
<1> HIDE DEF done, r
<1>9. Bitmapped(r.bitmap)
  BY <1>6, <1>7, FrontendFacts DEF Formed, Bitmapped, Put
<1>8. Formed(r)
  BY <1>6, <1>7, <1>9 DEF Formed
<1> QED
  BY <1>8 DEF r

-----------------------------------------------------------------------------
\* What the recheck keeps: the swarmer and files.ini have their shape.
RecheckInv ==
    /\ Formed(swarmer)
    /\ saved.verifier \in [Frontends -> Verifiers]
    /\ saved.verifier[Primary] \notin {"NoVerification", "ForceVerification"}
    /\ crashes \in Nat

\* A step of the swarmer that no restart makes.
Certified ==
    \A b \in Blocks :
        swarmer'.blocks[b] = "Verified" /\ swarmer.blocks[b] # "Verified" /\ crashes' = crashes =>
            good[b] = Bytes(b)

\* Every handler makes a block verified over right bytes only.
LEMMA RecheckStep == RecheckInv /\ [NextRecheck]_vars => RecheckInv' /\ Certified
<1> SUFFICES ASSUME RecheckInv, [NextRecheck]_vars
             PROVE  RecheckInv' /\ Certified
  OBVIOUS
<1>1. ASSUME Certifies(swarmer, swarmer'), UNCHANGED <<saved, crashes>>
      PROVE  RecheckInv' /\ Certified
  BY <1>1 DEF RecheckInv, Certified, Certifies, Formed
<1>2. ASSUME UNCHANGED <<swarmer, saved, crashes>>
      PROVE  RecheckInv' /\ Certified
  BY <1>1, <1>2, SameBlocks DEF RecheckInv, Formed
<1>3. Formed(swarmer)
  BY DEF RecheckInv
<1>4. ASSUME NEW f \in Frontends, NEW b \in Blocks, NewBlock(f, b)
      PROVE  RecheckInv' /\ Certified
  <2> DEFINE s == [swarmer EXCEPT !.blocks[b] = "Partial"]
             r == SetSwarmerStatePartial(s, b)
  <2>1. /\ DOMAIN s = DOMAIN swarmer /\ s.verifier = swarmer.verifier /\ s.bitmap = swarmer.bitmap
        /\ s.blocks = [swarmer.blocks EXCEPT ![b] = "Partial"]
    BY <1>3 DEF Formed
  <2> HIDE DEF s
  <2>2. /\ DOMAIN r = DOMAIN s /\ r.verifier = s.verifier /\ r.blocks = s.blocks
        /\ Bitmapped(r.bitmap)
    <3>1. CASE s.vbitmap[b] # "missing"
      BY <1>3, <2>1, <3>1 DEF Formed, SetSwarmerStatePartial
    <3>2. CASE s.vbitmap[b] = "missing"
      <4>1. /\ DOMAIN r = DOMAIN s /\ r.verifier = s.verifier /\ r.blocks = s.blocks
            /\ r.bitmap = [g \in Frontends |->
                  IF g \in s.networks /\ s.bitmap[g][ChunkOf[g][b]] = "missing"
                  THEN [s.bitmap[g] EXCEPT ![ChunkOf[g][b]] = "partial"] ELSE s.bitmap[g]]
        BY <1>3, <2>1, <3>2 DEF Formed, SetSwarmerStatePartial
      <4> HIDE DEF r
      <4>2. DOMAIN r.bitmap[Primary] = DOMAIN s.bitmap[Primary]
        BY <4>1, FrontendFacts
      <4> QED
        BY <1>3, <2>1, <4>1, <4>2 DEF Formed, Bitmapped
    <3> QED
      BY <3>1, <3>2
  <2>3. swarmer' = r /\ UNCHANGED <<saved, crashes>>
    BY <1>4 DEF NewBlock, s
  <2> HIDE DEF r
  <2>4. Certifies(swarmer, r)
    BY <1>3, <2>1, <2>2 DEF Formed, Certifies
  <2> QED
    BY <1>1, <2>3, <2>4
<1>5. ASSUME NEW f \in Frontends, NEW b \in Blocks, NEW n \in 1 .. Size[b], NEW ok \in BOOLEAN,
             Received(f, b, n, ok)
      PROVE  RecheckInv' /\ Certified
  <2> DEFINE left == swarmer.remaining[b] - n
             s == [swarmer EXCEPT !.remaining[b] = left, !.downloaded = @ + n]
  <2>1. /\ swarmer' = IF left > 0 THEN s
                      ELSE IF s.verifier[Primary] = "NoVerification"
                      THEN SetVerifiedBlock(s, {b})
                      ELSE SetCompletedBlock(s, {b})
        /\ UNCHANGED <<saved, crashes>>
    BY <1>5 DEF Received
  <2>2. /\ DOMAIN s = DOMAIN swarmer /\ s.blocks = swarmer.blocks /\ s.verifier = swarmer.verifier
        /\ s.bitmap = swarmer.bitmap
    BY <1>3 DEF Formed
  <2> HIDE DEF s, left
  <2>3. Certifies(swarmer, s)
    BY <1>3, <2>2, SameBlocks DEF Formed
  <2>6. Formed(s) /\ s.verifier[Primary] # "NoVerification"
    BY <2>3 DEF Certifies, Formed
  <2>4. Certifies(s, SetCompletedBlock(s, {b})) /\ s.verifier[Primary] # "NoVerification"
    BY <2>6, CompletedCertifies
  <2>5. Certifies(swarmer, swarmer')
    BY <2>1, <2>3, <2>4, CertifiesTwice
  <2> QED
    BY <1>1, <2>1, <2>5
<1>6. ASSUME NEW f \in Frontends, NEW C, swarmer' = VerifyChunks(swarmer, f, C), UNCHANGED <<saved, crashes>>
      PROVE  RecheckInv' /\ Certified
  BY <1>1, <1>3, <1>6, ChunksCertify
<1>7. ASSUME NEW f \in Frontends, VerifyOneChunk(f)
      PROVE  RecheckInv' /\ Certified
  BY <1>6, <1>7 DEF VerifyOneChunk
<1>8. ASSUME NEW b \in Blocks, ShouldDownloadBlock(b)
      PROVE  RecheckInv' /\ Certified
  BY <1>6, <1>8, FrontendFacts DEF ShouldDownloadBlock
<1>9. ASSUME NEW f \in Frontends, NEW c \in Chunks(f), PropagateChunk(f, c)
      PROVE  RecheckInv' /\ Certified
  <2>1. Certifies(swarmer, swarmer')
    BY <1>3, <1>9, CompletedCertifies DEF PropagateChunk, SetFrontendStateComplete
  <2> QED
    BY <1>1, <1>9, <2>1 DEF PropagateChunk
<1>10. ASSUME NEW f \in Frontends, Merge(f)
       PROVE  RecheckInv' /\ Certified
  <2>1. /\ DOMAIN swarmer' = DOMAIN swarmer
        /\ swarmer'.blocks = swarmer.blocks /\ swarmer'.verifier = swarmer.verifier
        /\ Bitmapped(swarmer'.bitmap)
    BY <1>3, <1>10, FrontendFacts DEF Merge, Associate, Formed, Bitmapped
  <2>2. Certifies(swarmer, swarmer')
    BY <1>3, <2>1, SameBlocks
  <2> QED
    BY <1>1, <1>10, <2>2 DEF Merge
<1>11. ASSUME NEW f \in Frontends, SetVerifier(f)
       PROVE  RecheckInv' /\ Certified
  <2> DEFINE s == [swarmer EXCEPT !.verifier[f] = "Verification"]
             bm == swarmer.bitmap[f]
             t == SetFrontendStateComplete(s, f, {c \in Chunks(f) : bm[c] = "complete"})
             V == {c \in Chunks(f) : bm[c] = "verified"}
  <2>1. swarmer' = SetFrontendStateVerified(t, f, V) /\ UNCHANGED <<saved, crashes>>
    BY <1>11 DEF SetVerifier, SetChunksVerifiedBitmap
  <2>2. /\ DOMAIN s = DOMAIN swarmer /\ s.blocks = swarmer.blocks /\ s.bitmap = swarmer.bitmap
        /\ s.verifier = [swarmer.verifier EXCEPT ![f] = "Verification"]
    BY <1>3 DEF Formed
  <2> HIDE DEF s
  <2>3. Certifies(swarmer, s)
    BY <1>3, <2>2, FrontendFacts DEF Formed, Certifies, Verifiers
  <2>4. Certifies(s, t)
    BY <2>3, CompletedCertifies DEF Certifies, SetFrontendStateComplete
  <2>5. Hashed(t, f, V)
    <3> DEFINE O == UNION {BlocksOf(f, c) : c \in {c \in Chunks(f) : bm[c] = "complete"} \cap InState(s, f, Unfinished)}
               u == SetSwarmerStateComplete(s, Open(s, O))
               X == Escalated(s, Open(s, O)) \cup TakenBack(s, Open(s, O))
    <3>1. {c \in Chunks(f) : bm[c] = "complete"} \cap InState(s, f, Unfinished) = {}
      BY <2>2 DEF InState, Unfinished
    <3>2. Open(s, O) = {}
      BY <3>1 DEF Open
    <3>3. X = {}
      BY <3>2 DEF Escalated, TakenBack, Touching
    <3>4. t = SetCompletedBlock(s, O)
      BY DEF SetFrontendStateComplete
    <3> HIDE DEF O, t
    <3>5. /\ DOMAIN u = DOMAIN s
          /\ u.bitmap = [s.bitmap EXCEPT ![Primary] = Put(s.bitmap[Primary], X, "complete")]
      BY <2>3 DEF SetSwarmerStateComplete, Certifies, Formed
    <3> HIDE DEF X, u
    <3>6. t.bitmap = u.bitmap
      BY <2>3, <3>4, <3>5 DEF SetCompletedBlock, Certifies, Formed, u
    <3>7. ASSUME f = Primary, NEW c \in V
          PROVE  t.bitmap[f][c] = "verified"
      BY <1>3, <2>2, <3>3, <3>5, <3>6, <3>7 DEF Formed, Bitmapped, Put
    <3> QED
      BY <3>7 DEF Hashed
  <2> HIDE DEF t, V
  <2>6. Certifies(t, swarmer')
    BY <2>1, <2>4, <2>5, FrontendCertifies DEF Certifies
  <2>7. Certifies(swarmer, swarmer')
    BY <2>3, <2>4, <2>6, CertifiesTwice
  <2> QED
    BY <1>1, <2>1, <2>7
<1>12. ASSUME NEW f \in Frontends, ChangeState(f) \/ CheckFinished(f)
       PROVE  RecheckInv' /\ Certified
  BY <1>2, <1>12 DEF ChangeState, CheckFinished
<1>13. CASE Save
  BY <1>3, <1>13 DEF Save, Image, RecheckInv, Certified, Formed
<1>14. CASE Restart
  BY <1>14, LoadedFormed DEF Restart, RecheckInv, Certified
<1>15. ASSUME NEW f \in Frontends, RecoverMd4s(f)
       PROVE  RecheckInv' /\ Certified
  BY <1>1, <1>3, <1>15, AllChunksCertify DEF RecoverMd4s
<1>16. ASSUME NEW f \in Frontends, OpFileCheck(f)
       PROVE  RecheckInv' /\ Certified
  <2> DEFINE s == VerifyAllChunks(swarmer)
  <2>1. Certifies(swarmer, s)
    BY <1>3, AllChunksCertify
  <2>2. swarmer' = VerifyChunks(s, f, Chunks(f)) /\ UNCHANGED <<saved, crashes>>
    BY <1>16 DEF OpFileCheck
  <2> HIDE DEF s
  <2>3. Certifies(s, swarmer')
    BY <2>1, <2>2, ChunksCertify DEF Certifies
  <2> QED
    BY <1>1, <2>1, <2>2, <2>3, CertifiesTwice
<1>17. CASE UNCHANGED vars
  BY <1>2, <1>17 DEF vars
<1>18. ASSUME NEW b \in Blocks, Rot(b)
       PROVE  RecheckInv' /\ Certified
  BY <1>2, <1>18 DEF Rot
<1> QED
  BY <1>4, <1>5, <1>7, <1>8, <1>9, <1>10, <1>11, <1>12, <1>13, <1>14, <1>15, <1>16, <1>17, <1>18
  DEF NextRecheck, Next

\* Whatever users recheck and disks lose, a block becomes verified only over
\* right bytes: where the primary verifies by hash, at any time of its life.
THEOREM CertifiedByHash ==
    ASSUME \A v \in Schemes : v[Primary] \notin {"NoVerification", "ForceVerification"}
    PROVE  SpecRecheck => VerifiedByHash
<1>1. Init => RecheckInv
  <2> SUFFICES ASSUME Init
               PROVE  RecheckInv
    OBVIOUS
  <2>1. PICK v \in Schemes : swarmer = EmptySwarmer(Solo, v)
    BY DEF Init
  <2>2. v \in [Frontends -> Verifiers]
    BY SchemeAssumption
  <2>3. Formed(swarmer)
    BY <2>1, <2>2, FrontendFacts DEF Formed, EmptySwarmer, Bitmapped
  <2> QED
    BY <2>3 DEF Init, Image, RecheckInv, Formed
<1>2. RecheckInv /\ [NextRecheck]_vars => RecheckInv' /\ Certified
  BY RecheckStep
<1> QED
  BY <1>1, <1>2, PTL DEF SpecRecheck, VerifiedByHash, Certified

-----------------------------------------------------------------------------
(* Sums over blocks.  Sum folds over a set in an order that CHOOSE picks;   *)
(* induction on the number of blocks shows that the order does not matter.  *)

\* A set of natural numbers that is not empty has a least element.
LEMMA LeastElement ==
    ASSUME NEW T, T \subseteq Nat, T # {}
    PROVE  \E m \in T : \A n \in T : m <= n
<1> DEFINE R == {ss \in Nat \X Nat : ss[1] < ss[2]}
<1>1. R = OpToRel(<, Nat)
  BY Zenon DEF OpToRel
<1>2. \E x \in T : \A y \in T : ~ (<<y, x>> \in R)
  <2>1. IsWellFoundedOn(R, Nat)
    BY <1>1, NatLessThanWellFounded, Zenon
  <2> HIDE DEF R
  <2> QED
    BY <2>1, WFMin, Zenon
<1>3. \A x, y \in T : y < x => <<y, x>> \in R
  OBVIOUS
<1> HIDE DEF R
<1>4. PICK x \in T : \A y \in T : ~ (<<y, x>> \in R)
  BY <1>2
<1>5. \A y \in T : y \in Nat /\ x \in Nat /\ ~ (y < x)
  BY <1>3, <1>4
<1>6. \A y \in T : x <= y
  BY <1>5
<1> QED
  BY <1>6

\* Induction on the natural numbers, for the set P of those a fact holds of.
LEMMA Induction ==
    ASSUME NEW P, 0 \in P, \A n \in Nat : n \in P => n + 1 \in P
    PROVE  Nat \subseteq P
<1> SUFFICES ASSUME Nat \ P # {} PROVE FALSE
  OBVIOUS
<1>1. PICK n \in Nat \ P : \A k \in Nat \ P : n <= k
  BY LeastElement
<1>2. n - 1 \in Nat /\ n - 1 \notin Nat \ P
  BY <1>1
<1> QED
  BY <1>1, <1>2

\* Sets of blocks can be counted, and counted down.
LEMMA BlockSets ==
    ASSUME NEW S \in SUBSET Blocks
    PROVE  /\ IsFiniteSet(S) /\ Cardinality(S) \in Nat
           /\ Cardinality(S) = 0 <=> S = {}
           /\ \A x \in S : Cardinality(S \ {x}) = Cardinality(S) - 1
<1>1. IsFiniteSet(S)
  BY BlocksAssumption, FS_Subset
<1> QED
  BY <1>1, FS_CardinalityType, FS_EmptySet, FS_RemoveElement

\* it is the recursive function in Sum(g, S), on the subsets of S in D.
Summed(it, g, D) ==
    it = [s \in D |-> IF s = {} THEN 0 ELSE LET x == CHOOSE x \in s : TRUE IN g[x] + it[s \ {x}]]

\* The recursive function in Sum exists.
LEMMA SummedExists ==
    ASSUME NEW S \in SUBSET Blocks, NEW g
    PROVE  \E it : Summed(it, g, SUBSET S)
<1> DEFINE D(n) == {s \in SUBSET S : Cardinality(s) <= n}
           P == {n \in Nat : \E it : Summed(it, g, D(n))}
           pick(s) == CHOOSE x \in s : TRUE
<1>0. ASSUME NEW s \in SUBSET S
      PROVE  /\ Cardinality(s) \in Nat /\ (Cardinality(s) = 0 <=> s = {})
             /\ s # {} => /\ pick(s) \in s /\ s \ {pick(s)} \in SUBSET S
                          /\ Cardinality(s \ {pick(s)}) = Cardinality(s) - 1
  BY BlockSets
<1>1. 0 \in P
  <2> DEFINE it == [s \in D(0) |-> 0]
  <2>1. ASSUME NEW s \in D(0) PROVE s = {}
    <3>1. s \in SUBSET S /\ Cardinality(s) <= 0
      OBVIOUS
    <3>2. Cardinality(s) \in Nat /\ (Cardinality(s) = 0 <=> s = {})
      BY <3>1, <1>0
    <3> QED
      BY <3>1, <3>2
  <2> HIDE DEF D
  <2>2. Summed(it, g, D(0))
    BY <2>1 DEF Summed
  <2> QED
    BY <2>2
<1>2. ASSUME NEW n \in Nat, n \in P PROVE n + 1 \in P
  <2>1. PICK it : Summed(it, g, D(n))
    BY <1>2
  <2> DEFINE jt == [s \in D(n + 1) |-> IF s \in D(n) THEN it[s] ELSE g[pick(s)] + it[s \ {pick(s)}]]
             body(s) == IF s = {} THEN 0 ELSE LET x == CHOOSE x \in s : TRUE IN g[x] + jt[s \ {x}]
  <2>2. ASSUME NEW s \in D(n + 1) PROVE jt[s] = body(s)
    <3>1. /\ s # {} => s \ {pick(s)} \in D(n) /\ s \ {pick(s)} \in D(n + 1)
          /\ s \notin D(n) => s # {}
      BY <1>0
    <3>2. s # {} => jt[s \ {pick(s)}] = it[s \ {pick(s)}]
      BY <3>1
    <3>3. jt[s] = IF s \in D(n) THEN it[s] ELSE g[pick(s)] + it[s \ {pick(s)}]
      OBVIOUS
    <3>4. s \in D(n) => it[s] = IF s = {} THEN 0 ELSE g[pick(s)] + it[s \ {pick(s)}]
      BY <2>1, Zenon DEF Summed
    <3> HIDE DEF jt, D, pick
    <3>5. jt[s] = IF s = {} THEN 0 ELSE g[pick(s)] + jt[s \ {pick(s)}]
      BY <3>1, <3>2, <3>3, <3>4
    <3> QED
      BY <3>5, Zenon DEF pick
  <2>3. jt = [s \in D(n + 1) |-> body(s)]
    <3>1. jt = [s \in D(n + 1) |-> jt[s]]
      OBVIOUS
    <3> HIDE DEF jt, D
    <3> QED
      BY <2>2, <3>1
  <2> HIDE DEF jt, D
  <2>4. Summed(jt, g, D(n + 1))
    BY <2>3, Zenon DEF Summed
  <2> QED
    BY <2>4
<1>3. Cardinality(S) \in Nat /\ D(Cardinality(S)) = SUBSET S
  BY BlocksAssumption, BlockSets, FS_Subset
<1> HIDE DEF P, D
<1>4. Cardinality(S) \in P
  BY <1>1, <1>2, <1>3, Induction
<1> QED
  BY <1>3, <1>4 DEF P

\* Sum is that function.
LEMMA SumIs ==
    ASSUME NEW S \in SUBSET Blocks, NEW g
    PROVE  \E it : Summed(it, g, SUBSET S) /\ Sum(g, S) = it[S]
<1> DEFINE it == CHOOSE it : Summed(it, g, SUBSET S)
<1>1. Summed(it, g, SUBSET S)
  BY SummedExists, Zenon
<1>2. Sum(g, S) = it[S]
  BY Zenon DEF Sum, MapThenSumSet, MapThenFoldSet, Summed
<1> QED
  BY <1>1, <1>2

\* it adds up, whichever block is taken away first.
Steps(it, g, S) ==
    \A s \in SUBSET S : /\ it[s] \in Int
                        /\ s = {} => it[s] = 0
                        /\ \A x \in s : it[s] = g[x] + it[s \ {x}]

\* Whichever block is taken away first, the rest has the rest of the sum.
LEMMA SummedStep ==
    ASSUME NEW S \in SUBSET Blocks, NEW g \in [Blocks -> Int], NEW it, Summed(it, g, SUBSET S)
    PROVE  Steps(it, g, S)
<1> DEFINE good1(s) == /\ it[s] \in Int
                       /\ s = {} => it[s] = 0
                       /\ \A x \in s : it[s] = g[x] + it[s \ {x}]
           P == {n \in Nat : \A s \in SUBSET S : Cardinality(s) <= n => good1(s)}
           pick(s) == CHOOSE x \in s : TRUE
<1>0. ASSUME NEW s \in SUBSET S
      PROVE  it[s] = IF s = {} THEN 0 ELSE g[pick(s)] + it[s \ {pick(s)}]
  BY Zenon DEF Summed
<1>1. 0 \in P
  <2> SUFFICES ASSUME NEW s \in SUBSET S, Cardinality(s) <= 0
               PROVE  good1(s)
    OBVIOUS
  <2>1. s = {}
    BY BlockSets
  <2>2. it[s] = 0
    BY <1>0, <2>1
  <2> QED
    BY <2>1, <2>2
<1>2. ASSUME NEW n \in Nat, n \in P PROVE n + 1 \in P
  <2> SUFFICES ASSUME NEW s \in SUBSET S, Cardinality(s) <= n + 1
               PROVE  good1(s)
    OBVIOUS
  <2>1. \A r \in SUBSET S : Cardinality(r) <= n => good1(r)
    BY <1>2
  <2>2. CASE s = {}
    <3>1. it[s] = 0
      BY <1>0, <2>2
    <3> QED
      BY <2>2, <3>1
  <2>3. CASE s # {}
    <3> DEFINE y == pick(s)
    <3>1. y \in s
      BY <2>3
    <3>2. ASSUME NEW x \in s
          PROVE  s \ {x} \in SUBSET S /\ Cardinality(s \ {x}) <= n
      BY BlockSets
    <3>3. it[s] = g[y] + it[s \ {y}]
      BY <1>0, <2>3
    <3> HIDE DEF y, pick, P
    <3>4. \A x \in s : g[x] \in Int /\ it[s \ {x}] \in Int
      BY <2>1, <3>2
    <3>5. ASSUME NEW x \in s PROVE it[s] = g[x] + it[s \ {x}]
      <4>1. CASE x = y
        BY <3>3, <4>1
      <4>2. CASE x # y
        <5> DEFINE r == (s \ {x}) \ {y}
        <5>1. x \in s \ {y} /\ y \in s \ {x} /\ (s \ {y}) \ {x} = r
          BY <3>1, <4>2
        <5>4. good1(s \ {x}) /\ good1(s \ {y})
          BY <2>1, <3>1, <3>2
        <5>5. it[s \ {y}] = g[x] + it[(s \ {y}) \ {x}]
          BY <5>1, <5>4
        <5>6. it[s \ {x}] = g[y] + it[r]
          BY <5>1, <5>4
        <5>2. it[s \ {y}] = g[x] + it[r] /\ it[s \ {x}] = g[y] + it[r]
          BY <5>1, <5>5, <5>6
        <5>3. it[r] \in Int
          <6>1. Cardinality(s \ {x}) \in Nat /\ Cardinality(r) = Cardinality(s \ {x}) - 1
            BY <3>2, <5>1, BlockSets
          <6>2. r \in SUBSET S /\ Cardinality(r) <= n
            BY <3>2, <6>1
          <6> QED
            BY <2>1, <6>2
        <5> HIDE DEF r
        <5> QED
          BY <3>1, <3>3, <3>4, <5>2, <5>3
      <4> QED
        BY <4>1, <4>2
    <3>6. it[s] \in Int
      BY <3>1, <3>3, <3>4
    <3> QED
      BY <2>3, <3>5, <3>6
  <2> QED
    BY <2>2, <2>3
<1> HIDE DEF P
<1>3. ASSUME NEW s \in SUBSET S PROVE good1(s)
  <2>1. Cardinality(s) \in P
    BY <1>1, <1>2, BlockSets, Induction
  <2> QED
    BY <2>1 DEF P
<1> QED
  BY <1>3 DEF Steps

AgreeOn(it, jt, g, S, T) == it[T] = jt[T]

\* The recursive functions of two sums agree where both are defined.
LEMMA SummedAgree ==
    ASSUME NEW g \in [Blocks -> Int],
           NEW S \in SUBSET Blocks, NEW it, Summed(it, g, SUBSET S),
           NEW T \in SUBSET S, NEW jt, Summed(jt, g, SUBSET T)
    PROVE  AgreeOn(it, jt, g, S, T)
<1> DEFINE P == {n \in Nat : \A s \in SUBSET T : Cardinality(s) <= n => it[s] = jt[s]}
<1>1. \A s \in SUBSET S : /\ it[s] \in Int
                          /\ s = {} => it[s] = 0
                          /\ \A x \in s : it[s] = g[x] + it[s \ {x}]
  <2>1. Steps(it, g, S)
    BY SummedStep
  <2> QED
    BY <2>1 DEF Steps
<1>2. \A s \in SUBSET T : /\ jt[s] \in Int
                          /\ s = {} => jt[s] = 0
                          /\ \A x \in s : jt[s] = g[x] + jt[s \ {x}]
  <2>1. T \in SUBSET Blocks
    OBVIOUS
  <2>2. Steps(jt, g, T)
    BY <2>1, SummedStep
  <2> QED
    BY <2>2 DEF Steps
<1>3. 0 \in P
  <2> SUFFICES ASSUME NEW s \in SUBSET T, Cardinality(s) <= 0
               PROVE  it[s] = jt[s]
    OBVIOUS
  <2>1. s = {} /\ s \in SUBSET S
    BY BlockSets
  <2> QED
    BY <1>1, <1>2, <2>1
<1>4. ASSUME NEW n \in Nat, n \in P PROVE n + 1 \in P
  <2> SUFFICES ASSUME NEW s \in SUBSET T, Cardinality(s) <= n + 1
               PROVE  it[s] = jt[s]
    OBVIOUS
  <2>1. CASE s = {}
    BY <1>1, <1>2, <2>1
  <2>2. CASE s # {}
    <3>1. PICK x \in s : TRUE
      BY <2>2
    <3>2. s \ {x} \in SUBSET T /\ Cardinality(s \ {x}) <= n
      BY BlockSets
    <3>3. it[s \ {x}] = jt[s \ {x}]
      BY <1>4, <3>2
    <3>4. it[s] = g[x] + it[s \ {x}] /\ jt[s] = g[x] + jt[s \ {x}]
      BY <1>1, <1>2
    <3> QED
      BY <3>3, <3>4
  <2> QED
    BY <2>1, <2>2
<1>5. Cardinality(T) \in Nat
  BY BlockSets
<1> HIDE DEF P
<1>6. Cardinality(T) \in P
  BY <1>3, <1>4, <1>5, Induction
<1> QED
  BY <1>5, <1>6 DEF P, AgreeOn

\* A sum over a set of blocks is the value of a block and the sum of the others.
LEMMA SumStep ==
    ASSUME NEW g \in [Blocks -> Int]
    PROVE  \A S \in SUBSET Blocks :
              /\ Sum(g, S) \in Int
              /\ S = {} => Sum(g, S) = 0
              /\ \A x \in S : Sum(g, S) = g[x] + Sum(g, S \ {x})
<1> SUFFICES ASSUME NEW S \in SUBSET Blocks
             PROVE  /\ Sum(g, S) \in Int
                    /\ S = {} => Sum(g, S) = 0
                    /\ \A x \in S : Sum(g, S) = g[x] + Sum(g, S \ {x})
  OBVIOUS
<1>5. PICK it : Summed(it, g, SUBSET S) /\ Sum(g, S) = it[S]
  BY SumIs
<1>6. ASSUME NEW x \in S PROVE Sum(g, S \ {x}) = it[S \ {x}]
  <2> DEFINE T == S \ {x}
  <2>1. T \in SUBSET S /\ T \in SUBSET Blocks
    OBVIOUS
  <2> HIDE DEF T
  <2>2. PICK jt : Summed(jt, g, SUBSET T) /\ Sum(g, T) = jt[T]
    BY <2>1, SumIs
  <2>3. Summed(it, g, SUBSET S)
    BY <1>5
  <2>4. AgreeOn(it, jt, g, S, T)
    BY <2>1, <2>2, <2>3, SummedAgree
  <2> QED
    BY <2>2, <2>4 DEF T, AgreeOn
<1>7. S \in SUBSET S
  OBVIOUS
<1>8. /\ it[S] \in Int
      /\ S = {} => it[S] = 0
      /\ \A x \in S : it[S] = g[x] + it[S \ {x}]
  <2>1. Steps(it, g, S)
    BY <1>5, SummedStep
  <2> QED
    BY <1>7, <2>1 DEF Steps
<1> QED
  BY <1>5, <1>6, <1>8

\* A sum changes with its parts: by d at the blocks O, and nowhere else.
LEMMA SumChange ==
    ASSUME NEW g \in [Blocks -> Int], NEW h \in [Blocks -> Int], NEW d \in [Blocks -> Int],
           NEW O \in SUBSET Blocks,
           \A b \in Blocks : h[b] = IF b \in O THEN g[b] + d[b] ELSE g[b]
    PROVE  Sum(h, Blocks) = Sum(g, Blocks) + Sum(d, O)
<1> DEFINE P == {n \in Nat : \A S \in SUBSET Blocks :
                   Cardinality(S) <= n => Sum(h, S) = Sum(g, S) + Sum(d, O \cap S)}
<1>1. 0 \in P
  <2> SUFFICES ASSUME NEW S \in SUBSET Blocks, Cardinality(S) <= 0
               PROVE  Sum(h, S) = Sum(g, S) + Sum(d, O \cap S)
    OBVIOUS
  <2>1. S = {} /\ O \cap S = {}
    BY BlockSets
  <2>2. Sum(h, S) = 0 /\ Sum(g, S) = 0 /\ Sum(d, O \cap S) = 0
    BY <2>1, SumStep
  <2> QED
    BY <2>2
<1>2. ASSUME NEW n \in Nat, n \in P PROVE n + 1 \in P
  <2> SUFFICES ASSUME NEW S \in SUBSET Blocks, Cardinality(S) <= n + 1
               PROVE  Sum(h, S) = Sum(g, S) + Sum(d, O \cap S)
    OBVIOUS
  <2>1. CASE S = {}
    <3>1. O \cap S = {}
      BY <2>1
    <3>2. Sum(h, S) = 0 /\ Sum(g, S) = 0 /\ Sum(d, O \cap S) = 0
      BY <2>1, <3>1, SumStep
    <3> QED
      BY <3>2
  <2>2. CASE S # {}
    <3>1. PICK x \in S : TRUE
      BY <2>2
    <3> DEFINE R == S \ {x}
    <3>2. R \in SUBSET Blocks /\ Cardinality(R) <= n
      BY BlockSets
    <3>3. Sum(h, R) = Sum(g, R) + Sum(d, O \cap R)
      BY <1>2, <3>2
    <3>4. Sum(h, S) = h[x] + Sum(h, R) /\ Sum(g, S) = g[x] + Sum(g, R)
      BY SumStep
    <3>5. Sum(h, R) \in Int /\ Sum(g, R) \in Int /\ Sum(d, O \cap R) \in Int
      BY <3>2, SumStep
    <3>6. g[x] \in Int /\ d[x] \in Int /\ h[x] = IF x \in O THEN g[x] + d[x] ELSE g[x]
      OBVIOUS
    <3>7. Sum(d, O \cap S) = IF x \in O THEN d[x] + Sum(d, O \cap R) ELSE Sum(d, O \cap R)
      <4>1. CASE x \in O
        <5>1. x \in O \cap S /\ (O \cap S) \ {x} = O \cap R /\ O \cap S \in SUBSET Blocks
          BY <4>1
        <5> QED
          BY <4>1, <5>1, SumStep
      <4>2. CASE x \notin O
        <5>1. O \cap S = O \cap R
          BY <4>2
        <5> QED
          BY <4>2, <5>1
      <4> QED
        BY <4>1, <4>2
    <3> HIDE DEF R
    <3> QED
      BY <3>3, <3>4, <3>5, <3>6, <3>7
  <2> QED
    BY <2>1, <2>2
<1>3. Cardinality(Blocks) \in Nat /\ O \cap Blocks = O
  BY BlockSets
<1> HIDE DEF P
<1>4. Cardinality(Blocks) \in P
  BY <1>1, <1>2, <1>3, Induction
<1> QED
  BY <1>3, <1>4 DEF P

\* The sum over one block.
LEMMA SumOne ==
    ASSUME NEW g \in [Blocks -> Int], NEW b \in Blocks
    PROVE  Sum(g, {b}) = g[b]
<1>1. {b} \ {b} = {}
  OBVIOUS
<1>2. Sum(g, {b}) = g[b] + Sum(g, {b} \ {b}) /\ Sum(g, {}) = 0
  BY SumStep
<1>3. Sum(g, {b} \ {b}) = 0
  BY <1>1, <1>2
<1> QED
  BY <1>2, <1>3

-----------------------------------------------------------------------------
(* The counters.  A swarmer is Tallied when the counters of each frontend,  *)
(* merged or not, count its bitmap and the downloaded size is what the      *)
(* blocks hold; which takes that empty blocks miss everything, full ones    *)
(* nothing, and that a frontend that is not merged yet has nothing.         *)

CountedIn(s, f) ==
    /\ s.ncomplete[f] = Cardinality(InState(s, f, Finished))
    /\ s.nverified[f] = Cardinality(InState(s, f, {"verified"}))

Held(s) == [b \in Blocks |-> Size[b] - s.remaining[b]]

Weighed(s) == s.downloaded = Sum(Held(s), Blocks)

Filled(s) == \A b \in Blocks : /\ s.blocks[b] = "Empty" => s.remaining[b] = Size[b]
                               /\ s.blocks[b] \in {"Complete", "Verified"} => s.remaining[b] = 0

Apart(s) == \A f \in Frontends \ s.networks : \A c \in Chunks(f) : s.bitmap[f][c] = "missing"

Tallied(s) == /\ \A f \in Frontends : CountedIn(s, f)
              /\ Weighed(s)
              /\ Filled(s)
              /\ Apart(s)

\* Sets of chunks can be counted.
LEMMA ChunkCounts ==
    ASSUME NEW f \in Frontends, NEW S \in SUBSET Chunks(f)
    PROVE  IsFiniteSet(S) /\ Cardinality(S) \in Nat
<1> DEFINE g == [b \in Blocks |-> ChunkOf[f][b]]
<1>1. g \in Surjection(Blocks, Chunks(f))
  BY DEF Surjection, Chunks
<1>2. IsFiniteSet(Chunks(f))
  BY <1>1, BlocksAssumption, FS_Surjection
<1>3. IsFiniteSet(S)
  BY <1>2, FS_Subset
<1> QED
  BY <1>3, FS_CardinalityType

LEMMA CountMore ==
    ASSUME NEW f \in Frontends, NEW S \in SUBSET Chunks(f), NEW X \in SUBSET Chunks(f),
           S \cap X = {}
    PROVE  Cardinality(S \cup X) = Cardinality(S) + Cardinality(X)
<1>1. /\ IsFiniteSet(S) /\ IsFiniteSet(X) /\ Cardinality(S) \in Nat /\ Cardinality(X) \in Nat
      /\ Cardinality(S \cap X) = 0
  BY ChunkCounts, FS_EmptySet
<1>2. Cardinality(S \cup X) = Cardinality(S) + Cardinality(X) - Cardinality(S \cap X)
  BY <1>1, FS_Union
<1> QED
  BY <1>1, <1>2

LEMMA CountLess ==
    ASSUME NEW f \in Frontends, NEW S \in SUBSET Chunks(f), NEW X \in SUBSET S
    PROVE  Cardinality(S \ X) = Cardinality(S) - Cardinality(X)
<1>1. IsFiniteSet(S) /\ S \cap X = X
  BY ChunkCounts
<1> QED
  BY <1>1, FS_Difference

\* Tags that are neither given to nor taken from a finished chunk do not count.
LEMMA CountSame ==
    ASSUME NEW s, NEW r, NEW f \in Frontends, CountedIn(s, f),
           r.ncomplete[f] = s.ncomplete[f], r.nverified[f] = s.nverified[f],
           \A c \in Chunks(f) : \/ r.bitmap[f][c] = s.bitmap[f][c]
                                \/ s.bitmap[f][c] \in Unfinished /\ r.bitmap[f][c] \in Unfinished
    PROVE  CountedIn(r, f)
<1>1. InState(r, f, Finished) = InState(s, f, Finished)
  BY DEF InState, Finished, Unfinished
<1>2. InState(r, f, {"verified"}) = InState(s, f, {"verified"})
  BY DEF InState, Unfinished
<1> QED
  BY <1>1, <1>2 DEF CountedIn

\* What is downloaded follows what is missing.
LEMMA WeighMore ==
    ASSUME NEW s, NEW r, Weighed(s),
           s.remaining \in [Blocks -> Nat], r.remaining \in [Blocks -> Nat],
           NEW d \in [Blocks -> Int], NEW O \in SUBSET Blocks,
           \A b \in Blocks : r.remaining[b] = IF b \in O THEN s.remaining[b] - d[b] ELSE s.remaining[b],
           r.downloaded = s.downloaded + Sum(d, O)
    PROVE  Weighed(r)
<1>1. Held(s) \in [Blocks -> Int] /\ Held(r) \in [Blocks -> Int]
  BY SizeAssumption DEF Held
<1>2. \A b \in Blocks : Held(r)[b] = IF b \in O THEN Held(s)[b] + d[b] ELSE Held(s)[b]
  BY SizeAssumption DEF Held
<1>3. Sum(Held(r), Blocks) = Sum(Held(s), Blocks) + Sum(d, O)
  BY <1>1, <1>2, SumChange
<1> QED
  BY <1>3 DEF Weighed

LEMMA WeighLess ==
    ASSUME NEW s, NEW r, Weighed(s),
           s.remaining \in [Blocks -> Nat], r.remaining \in [Blocks -> Nat],
           NEW d \in [Blocks -> Int], NEW O \in SUBSET Blocks,
           \A b \in Blocks : r.remaining[b] = IF b \in O THEN s.remaining[b] + d[b] ELSE s.remaining[b],
           r.downloaded = s.downloaded - Sum(d, O)
    PROVE  Weighed(r)
<1>1. Held(s) \in [Blocks -> Int] /\ Held(r) \in [Blocks -> Int]
  BY SizeAssumption DEF Held
<1>2. \A b \in Blocks : Held(s)[b] = IF b \in O THEN Held(r)[b] + d[b] ELSE Held(r)[b]
  BY SizeAssumption DEF Held
<1>3. Sum(Held(s), Blocks) = Sum(Held(r), Blocks) + Sum(d, O)
  BY <1>1, <1>2, SumChange
<1>4. Sum(Held(s), Blocks) \in Int /\ Sum(Held(r), Blocks) \in Int /\ Sum(d, O) \in Int
  BY <1>1, SumStep
<1> QED
  BY <1>3, <1>4 DEF Weighed

LEMMA WeighSame ==
    ASSUME NEW s, NEW r, Weighed(s), r.remaining = s.remaining, r.downloaded = s.downloaded
    PROVE  Weighed(r)
BY DEF Weighed, Held

-----------------------------------------------------------------------------
\* set_swarmer_state_missing
LEMMA TallyMissing ==
    ASSUME NEW s, IsSwarmer(s), Tallied(s), NEW B \in SUBSET Blocks
    PROVE  Tallied(SetSwarmerStateMissing(s, B))
<1> DEFINE r == SetSwarmerStateMissing(s, B)
<1>1. /\ r.blocks = s.blocks /\ r.remaining = s.remaining /\ r.downloaded = s.downloaded
      /\ r.networks = s.networks /\ r.ncomplete = s.ncomplete /\ r.nverified = s.nverified
  BY DEF IsSwarmer, SetSwarmerStateMissing
<1>2. \A f \in Frontends : \A c \in Chunks(f) :
         r.bitmap[f][c] = IF c \in Voided(s, B, f) THEN "missing" ELSE s.bitmap[f][c]
  BY MissingFacts
<1>3. \A f \in Frontends : \A c \in Voided(s, B, f) : s.bitmap[f][c] = "partial"
  BY DEF Voided, InState
<1> HIDE DEF r
<1>4. ASSUME NEW f \in Frontends PROVE CountedIn(r, f)
  <2>1. CountedIn(s, f)
    BY DEF Tallied
  <2>2. \A c \in Chunks(f) : \/ r.bitmap[f][c] = s.bitmap[f][c]
                             \/ s.bitmap[f][c] \in Unfinished /\ r.bitmap[f][c] \in Unfinished
    BY <1>2, <1>3 DEF Unfinished
  <2> QED
    BY <1>1, <2>1, <2>2, CountSame
<1>5. Weighed(r) /\ Filled(r) /\ Apart(r)
  BY <1>1, <1>2, WeighSame DEF Tallied, Filled, Apart
<1> QED
  BY <1>4, <1>5 DEF Tallied, r

\* set_swarmer_state_partial
LEMMA TallyPartial ==
    ASSUME NEW s, IsSwarmer(s), Tallied(s), NEW b \in Blocks
    PROVE  Tallied(SetSwarmerStatePartial(s, b))
<1> DEFINE r == SetSwarmerStatePartial(s, b)
<1>1. /\ r.blocks = s.blocks /\ r.remaining = s.remaining /\ r.downloaded = s.downloaded
      /\ r.networks = s.networks /\ r.ncomplete = s.ncomplete /\ r.nverified = s.nverified
  BY DEF IsSwarmer, SetSwarmerStatePartial
<1>2. \A f \in Frontends : \A c \in Chunks(f) :
         \/ r.bitmap[f][c] = s.bitmap[f][c]
         \/ s.bitmap[f][c] = "missing" /\ r.bitmap[f][c] = "partial"
  BY PartialFacts
<1>3. \A f \in Frontends \ s.networks : r.bitmap[f] = s.bitmap[f]
  <2>1. CASE s.vbitmap[b] # "missing"
    BY <2>1 DEF SetSwarmerStatePartial
  <2>2. CASE s.vbitmap[b] = "missing"
    <3>1. r.bitmap = [f \in Frontends |->
                       IF f \in s.networks /\ s.bitmap[f][ChunkOf[f][b]] = "missing"
                       THEN [s.bitmap[f] EXCEPT ![ChunkOf[f][b]] = "partial"] ELSE s.bitmap[f]]
      BY <2>2 DEF IsSwarmer, SetSwarmerStatePartial
    <3> QED
      BY <3>1
  <2> QED
    BY <2>1, <2>2
<1> HIDE DEF r
<1>4. ASSUME NEW f \in Frontends PROVE CountedIn(r, f)
  <2>1. CountedIn(s, f)
    BY DEF Tallied
  <2>2. \A c \in Chunks(f) : \/ r.bitmap[f][c] = s.bitmap[f][c]
                             \/ s.bitmap[f][c] \in Unfinished /\ r.bitmap[f][c] \in Unfinished
    BY <1>2 DEF Unfinished
  <2> QED
    BY <1>1, <2>1, <2>2, CountSame
<1>5. Weighed(r) /\ Filled(r) /\ Apart(r)
  BY <1>1, <1>3, WeighSame DEF Tallied, Filled, Apart
<1> QED
  BY <1>4, <1>5 DEF Tallied, r

\* set_swarmer_state_complete counts the chunks it escalates and takes back.
LEMMA CountComplete ==
    ASSUME NEW s, IsSwarmer(s), \A f \in Frontends : CountedIn(s, f), NEW B \in SUBSET Blocks
    PROVE  LET r == SetSwarmerStateComplete(s, B) IN
           /\ \A f \in Frontends : CountedIn(r, f)
           /\ r.downloaded = s.downloaded
<1> DEFINE r == SetSwarmerStateComplete(s, B)
           E == Escalated(s, B)
           T == TakenBack(s, B)
<1>1. /\ r.downloaded = s.downloaded
      /\ r.ncomplete = [s.ncomplete EXCEPT ![Primary] = s.ncomplete[Primary] + Cardinality(E)]
      /\ r.nverified = [s.nverified EXCEPT ![Primary] = s.nverified[Primary] - Cardinality(T)]
  BY DEF IsSwarmer, SetSwarmerStateComplete
<1>2. /\ \A f \in Secondaries : r.bitmap[f] = s.bitmap[f]
      /\ \A c \in Chunks(Primary) :
            r.bitmap[Primary][c] = IF c \in E \cup T THEN "complete" ELSE s.bitmap[Primary][c]
  BY CompleteFacts
<1>3. /\ E \in SUBSET Chunks(Primary) /\ T \in SUBSET Chunks(Primary)
      /\ \A c \in E : s.bitmap[Primary][c] \in Unfinished
      /\ \A c \in T : s.bitmap[Primary][c] = "verified"
  BY DEF Escalated, TakenBack, InState
<1> HIDE DEF r, E, T
<1>4. s.ncomplete \in [Frontends -> Int] /\ s.nverified \in [Frontends -> Int]
  BY DEF IsSwarmer
<1>5. CountedIn(r, Primary)
  <2>1. /\ InState(r, Primary, Finished) = InState(s, Primary, Finished) \cup E
        /\ InState(s, Primary, Finished) \cap E = {}
    BY <1>2, <1>3 DEF InState, Finished, Unfinished
  <2>2. /\ InState(r, Primary, {"verified"}) = InState(s, Primary, {"verified"}) \ T
        /\ T \in SUBSET InState(s, Primary, {"verified"})
    BY <1>2, <1>3 DEF InState, Unfinished
  <2>3. /\ InState(s, Primary, Finished) \in SUBSET Chunks(Primary)
        /\ InState(s, Primary, {"verified"}) \in SUBSET Chunks(Primary)
    BY DEF InState
  <2>4. /\ Cardinality(InState(r, Primary, Finished))
             = Cardinality(InState(s, Primary, Finished)) + Cardinality(E)
        /\ Cardinality(InState(r, Primary, {"verified"}))
             = Cardinality(InState(s, Primary, {"verified"})) - Cardinality(T)
    BY <1>3, <2>1, <2>2, <2>3, CountMore, CountLess, FrontendFacts
  <2>5. /\ r.ncomplete[Primary] = s.ncomplete[Primary] + Cardinality(E)
        /\ r.nverified[Primary] = s.nverified[Primary] - Cardinality(T)
    BY <1>1, <1>4, FrontendFacts
  <2> QED
    BY <2>4, <2>5, FrontendFacts DEF CountedIn
<1>6. ASSUME NEW f \in Secondaries PROVE CountedIn(r, f)
  <2>1. r.ncomplete[f] = s.ncomplete[f] /\ r.nverified[f] = s.nverified[f] /\ f \in Frontends
    BY <1>1, <1>4, FrontendFacts
  <2> QED
    BY <1>2, <2>1, CountSame
<1> QED
  BY <1>1, <1>5, <1>6, FrontendFacts DEF r

\* set_swarmer_state_verified counts the chunks it passes on.
LEMMA CountVerified ==
    ASSUME NEW s, IsSwarmer(s), \A f \in Frontends : CountedIn(s, f), NEW B \in SUBSET Blocks
    PROVE  LET r == SetSwarmerStateVerified(s, B) IN
           /\ \A f \in Frontends : CountedIn(r, f)
           /\ r.downloaded = s.downloaded
           /\ \A f \in Frontends \ s.networks : r.bitmap[f] = s.bitmap[f]
<1> DEFINE r == SetSwarmerStateVerified(s, B)
           N(f) == PassedOn(s, B, f)
<1>1. /\ r.downloaded = s.downloaded
      /\ r.bitmap = [f \in Frontends |->
                       Put(s.bitmap[f], N(f), IF Trusting(s, f) THEN "verified" ELSE "complete")]
      /\ r.ncomplete = [f \in Frontends |->
                          s.ncomplete[f] + Cardinality(N(f) \cap InState(s, f, Unfinished))]
      /\ r.nverified = [f \in Frontends |->
                          s.nverified[f] + IF Trusting(s, f) THEN Cardinality(N(f)) ELSE 0]
  BY DEF IsSwarmer, SetSwarmerStateVerified
<1>2. /\ \A f \in Frontends : N(f) \in SUBSET Chunks(f)
      /\ \A f \in Frontends : \A c \in N(f) : s.bitmap[f][c] # "verified"
      /\ \A f \in Frontends \ s.networks : N(f) = {}
  BY DEF PassedOn, InState
<1> HIDE DEF r, N
<1>3. \A f \in Frontends : s.bitmap[f] \in [Chunks(f) -> VBStates]
  BY DEF IsSwarmer, IsBitmap
<1>4. s.ncomplete \in [Frontends -> Int] /\ s.nverified \in [Frontends -> Int]
  BY DEF IsSwarmer
<1>5. ASSUME NEW f \in Frontends PROVE CountedIn(r, f)
  <2> DEFINE X == N(f) \cap InState(s, f, Unfinished)
  <2>1. \A c \in Chunks(f) :
           r.bitmap[f][c] = IF c \in N(f) THEN IF Trusting(s, f) THEN "verified" ELSE "complete"
                            ELSE s.bitmap[f][c]
    BY <1>1, <1>3 DEF Put
  <2>2. /\ InState(r, f, Finished) = InState(s, f, Finished) \cup X
        /\ InState(s, f, Finished) \cap X = {}
    BY <1>2, <1>3, <2>1 DEF InState, Finished, Unfinished, VBStates
  <2>3. /\ InState(r, f, {"verified"}) = IF Trusting(s, f) THEN InState(s, f, {"verified"}) \cup N(f)
                                         ELSE InState(s, f, {"verified"})
        /\ InState(s, f, {"verified"}) \cap N(f) = {}
    BY <1>2, <2>1 DEF InState
  <2>4. /\ InState(s, f, Finished) \in SUBSET Chunks(f)
        /\ InState(s, f, {"verified"}) \in SUBSET Chunks(f)
        /\ X \in SUBSET Chunks(f)
    BY DEF InState
  <2> HIDE DEF X
  <2>5. Cardinality(InState(r, f, Finished)) = Cardinality(InState(s, f, Finished)) + Cardinality(X)
    BY <2>2, <2>4, CountMore
  <2>6. Cardinality(InState(r, f, {"verified"}))
          = Cardinality(InState(s, f, {"verified"})) + (IF Trusting(s, f) THEN Cardinality(N(f)) ELSE 0)
    <3>1. CASE Trusting(s, f)
      BY <1>2, <2>3, <2>4, <3>1, CountMore
    <3>2. CASE ~ Trusting(s, f)
      BY <2>3, <2>4, <3>2, ChunkCounts
    <3> QED
      BY <3>1, <3>2
  <2>7. /\ r.ncomplete[f] = s.ncomplete[f] + Cardinality(X)
        /\ r.nverified[f] = s.nverified[f] + IF Trusting(s, f) THEN Cardinality(N(f)) ELSE 0
    BY <1>1 DEF X
  <2> QED
    BY <2>5, <2>6, <2>7 DEF CountedIn
<1>6. ASSUME NEW f \in Frontends \ s.networks PROVE r.bitmap[f] = s.bitmap[f]
  <2>1. r.bitmap[f] = Put(s.bitmap[f], N(f), IF Trusting(s, f) THEN "verified" ELSE "complete")
    BY <1>1
  <2> QED
    BY <1>2, <1>3, <2>1 DEF Put
<1> QED
  BY <1>1, <1>5, <1>6 DEF r

-----------------------------------------------------------------------------
\* set_completed_block counts what was missing of its blocks as downloaded.
LEMMA TallyCompletedBlock ==
    ASSUME NEW s, IsSwarmer(s), Tallied(s), NEW B \in SUBSET Blocks
    PROVE  Tallied(SetCompletedBlock(s, B))
<1> DEFINE O == Open(s, B)
           t == SetSwarmerStateComplete(s, O)
           r == SetCompletedBlock(s, B)
<1>1. O \in SUBSET Blocks /\ \A b \in O : s.blocks[b] \in {"Empty", "Partial"}
  BY DEF Open
<1>2. \A f \in Frontends : CountedIn(s, f)
  BY DEF Tallied
<1>3. r = [t EXCEPT !.blocks = Put(@, O, "Complete"),
                    !.remaining = Put(@, O, 0),
                    !.downloaded = @ + Sum(s.remaining, O)]
  BY DEF SetCompletedBlock
<1> HIDE DEF O, r
<1>4. /\ IsSwarmer(t) /\ t.blocks = s.blocks /\ t.remaining = s.remaining
      /\ t.networks = s.networks /\ \A f \in Secondaries : t.bitmap[f] = s.bitmap[f]
  BY <1>1, CompleteFacts
<1>5. t.downloaded = s.downloaded /\ \A f \in Frontends : CountedIn(t, f)
  BY <1>1, <1>2, CountComplete
<1> HIDE DEF t
<1>6. /\ r.blocks = Put(t.blocks, O, "Complete") /\ r.remaining = Put(t.remaining, O, 0)
      /\ r.downloaded = t.downloaded + Sum(s.remaining, O)
      /\ r.bitmap = t.bitmap /\ r.networks = t.networks
      /\ r.ncomplete = t.ncomplete /\ r.nverified = t.nverified
  BY <1>3, <1>4 DEF IsSwarmer
<1>7. /\ \A b \in Blocks : r.blocks[b] = IF b \in O THEN "Complete" ELSE s.blocks[b]
      /\ \A b \in Blocks : r.remaining[b] = IF b \in O THEN 0 ELSE s.remaining[b]
      /\ r.remaining \in [Blocks -> Nat] /\ s.remaining \in [Blocks -> Nat]
  BY <1>4, <1>6 DEF IsSwarmer, Put
<1>8. Weighed(r)
  <2>1. \A b \in Blocks : r.remaining[b] = IF b \in O THEN s.remaining[b] - s.remaining[b]
                                           ELSE s.remaining[b]
    BY <1>7
  <2>2. Weighed(s) /\ s.remaining \in [Blocks -> Int]
    BY <1>7 DEF Tallied
  <2>3. r.downloaded = s.downloaded + Sum(s.remaining, O)
    BY <1>5, <1>6
  <2> QED
    BY <1>1, <1>7, <2>1, <2>2, <2>3, WeighMore
<1>9. \A f \in Frontends : CountedIn(r, f)
  BY <1>5, <1>6 DEF CountedIn, InState
<1>10. Filled(r)
  BY <1>1, <1>7 DEF Tallied, Filled
<1>11. Apart(r)
  <2>1. \A f \in Frontends \ r.networks : f \in Secondaries /\ f \notin s.networks
    BY <1>4, <1>6, FrontendFacts DEF IsSwarmer
  <2> QED
    BY <1>4, <1>6, <2>1 DEF Tallied, Apart
<1> QED
  BY <1>8, <1>9, <1>10, <1>11 DEF Tallied, r

\* set_verified_block: the blocks were full, or are now.
LEMMA TallyVerifiedBlock ==
    ASSUME NEW s, IsSwarmer(s), Tallied(s), NEW B \in SUBSET Blocks
    PROVE  Tallied(SetVerifiedBlock(s, B))
<1> DEFINE F == Fresh(s, B)
           t == SetCompletedBlock(s, F)
           u == [t EXCEPT !.blocks = Put(@, F, "Verified")]
           r == SetVerifiedBlock(s, B)
<1>1. F \in SUBSET Blocks /\ \A b \in F : s.blocks[b] # "Verified"
  BY DEF Fresh
<1>2. r = SetSwarmerStateVerified(u, F)
  BY DEF SetVerifiedBlock, Fresh
<1> HIDE DEF F, r
<1>3. /\ IsSwarmer(t) /\ t.networks = s.networks
      /\ \A b \in Blocks : t.blocks[b] = IF b \in Open(s, F) THEN "Complete" ELSE s.blocks[b]
  BY <1>1, CompletedBlockFacts
<1>4. Tallied(t)
  BY <1>1, TallyCompletedBlock
<1>5. \A b \in F : t.blocks[b] = "Complete"
  BY <1>1, <1>3 DEF Open, IsSwarmer
<1> HIDE DEF t
<1>6. /\ DOMAIN u = DOMAIN t
      /\ u.blocks = Put(t.blocks, F, "Verified")
      /\ u.remaining = t.remaining /\ u.vbitmap = t.vbitmap /\ u.bitmap = t.bitmap
      /\ u.networks = t.networks /\ u.ncomplete = t.ncomplete /\ u.nverified = t.nverified
      /\ u.verifier = t.verifier /\ u.asserts = t.asserts /\ u.downloaded = t.downloaded
  BY <1>3 DEF IsSwarmer
<1> HIDE DEF u
<1>7. /\ u.blocks \in [Blocks -> {"Empty", "Partial", "Complete", "Verified"}]
      /\ \A b \in Blocks : u.blocks[b] = IF b \in F THEN "Verified" ELSE t.blocks[b]
  BY <1>3, <1>6 DEF IsSwarmer, Put
<1>8. IsSwarmer(u)
  BY <1>3, <1>6, <1>7 DEF IsSwarmer
<1>9. \A f \in Frontends : CountedIn(u, f)
  BY <1>4, <1>6 DEF Tallied, CountedIn, InState
<1>10. Weighed(u)
  BY <1>4, <1>6, WeighSame DEF Tallied
<1>11. Filled(u)
  BY <1>4, <1>5, <1>6, <1>7 DEF Tallied, Filled
<1>12. /\ r.blocks = u.blocks /\ r.networks = u.networks /\ r.remaining = u.remaining
       /\ \A f \in Frontends : CountedIn(r, f)
       /\ r.downloaded = u.downloaded
       /\ \A f \in Frontends \ u.networks : r.bitmap[f] = u.bitmap[f]
  BY <1>1, <1>2, <1>8, <1>9, VerifiedFacts, CountVerified
<1>13. Weighed(r) /\ Filled(r) /\ Apart(r)
  BY <1>4, <1>6, <1>10, <1>11, <1>12, WeighSame DEF Tallied, Filled, Apart
<1> QED
  BY <1>12, <1>13 DEF Tallied, r

\* set_frontend_state_verified counts the chunks, whatever they were.
LEMMA TallyVerified ==
    ASSUME NEW s, IsSwarmer(s), Tallied(s), NEW f \in Frontends, NEW C \in SUBSET Chunks(f),
           f \in s.networks \/ C = {}
    PROVE  /\ Tallied(SetFrontendStateVerified(s, f, C))
           /\ IsSwarmer(SetFrontendStateVerified(s, f, C))
           /\ SetFrontendStateVerified(s, f, C).networks = s.networks
           /\ \A c \in Chunks(f) \ C :
                 s.bitmap[f][c] = "complete" => SetFrontendStateVerified(s, f, C).bitmap[f][c] = "complete"
<1> DEFINE V == {c \in C : s.bitmap[f][c] # "verified"}
           X == V \cap InState(s, f, Unfinished)
           t == [s EXCEPT !.bitmap[f] = Put(@, V, "verified"),
                          !.ncomplete[f] = @ + Cardinality(X),
                          !.nverified[f] = @ + Cardinality(V)]
           B == UNION {BlocksOf(f, c) : c \in V}
           r == SetFrontendStateVerified(s, f, C)
<1>1. r = IF f = Primary THEN SetVerifiedBlock(t, B) ELSE t
  BY DEF SetFrontendStateVerified
<1>2. /\ V \in SUBSET Chunks(f)
      /\ X \in SUBSET Chunks(f)
      /\ V \subseteq C
      /\ B \in SUBSET Blocks
      /\ \A c \in V : s.bitmap[f][c] # "verified"
  BY DEF BlocksOf, InState
<1>2a. \A c \in Chunks(f) : c \in X <=> (c \in V /\ s.bitmap[f][c] \in Unfinished)
  BY DEF InState
<1> HIDE DEF V, X, B, r
<1>3. /\ DOMAIN t = DOMAIN s
      /\ t.bitmap = [s.bitmap EXCEPT ![f] = Put(s.bitmap[f], V, "verified")]
      /\ t.ncomplete = [s.ncomplete EXCEPT ![f] = s.ncomplete[f] + Cardinality(X)]
      /\ t.nverified = [s.nverified EXCEPT ![f] = s.nverified[f] + Cardinality(V)]
      /\ t.blocks = s.blocks /\ t.remaining = s.remaining /\ t.vbitmap = s.vbitmap
      /\ t.downloaded = s.downloaded /\ t.networks = s.networks
      /\ t.verifier = s.verifier /\ t.asserts = s.asserts
  BY DEF IsSwarmer
<1> HIDE DEF t
<1>4. /\ s.bitmap = [g \in Frontends |-> s.bitmap[g]]
      /\ \A g \in Frontends : s.bitmap[g] \in [Chunks(g) -> VBStates]
  BY DEF IsSwarmer, IsBitmap
<1>5. /\ t.bitmap = [g \in Frontends |-> t.bitmap[g]]
      /\ t.bitmap[f] = Put(s.bitmap[f], V, "verified")
      /\ \A g \in Frontends : g # f => t.bitmap[g] = s.bitmap[g]
  <2>1. t.bitmap = [g \in Frontends |-> IF g = f THEN Put(s.bitmap[f], V, "verified") ELSE s.bitmap[g]]
    BY <1>3, <1>4
  <2> QED
    BY <2>1
<1>6. /\ t.bitmap[f] \in [Chunks(f) -> VBStates]
      /\ \A c \in Chunks(f) : t.bitmap[f][c] = IF c \in V THEN "verified" ELSE s.bitmap[f][c]
  BY <1>4, <1>5 DEF Put, VBStates
<1>7. IsBitmap(t.bitmap)
  BY <1>4, <1>5, <1>6 DEF IsBitmap
<1>8. /\ s.ncomplete \in [Frontends -> Int] /\ s.nverified \in [Frontends -> Int]
      /\ Cardinality(X) \in Int /\ Cardinality(V) \in Int
  BY <1>2, ChunkSets DEF IsSwarmer
<1>9. IsSwarmer(t)
  BY <1>3, <1>7, <1>8 DEF IsSwarmer
<1>10. CountedIn(t, f)
  <2>1. /\ InState(t, f, Finished) = InState(s, f, Finished) \cup X
        /\ InState(s, f, Finished) \cap X = {}
    <3>1. ASSUME NEW c \in Chunks(f)
          PROVE  t.bitmap[f][c] \in Finished <=> s.bitmap[f][c] \in Finished \/ c \in X
      <4>1. s.bitmap[f][c] \in VBStates
        BY <1>4
      <4>2. c \in X <=> (c \in V /\ s.bitmap[f][c] \in Unfinished)
        BY <1>2a
      <4>3. t.bitmap[f][c] = IF c \in V THEN "verified" ELSE s.bitmap[f][c]
        BY <1>6
      <4> QED
        BY <4>1, <4>2, <4>3 DEF Finished, Unfinished, VBStates
    <3>2. \A c \in X : s.bitmap[f][c] \notin Finished
      BY <1>2, <1>2a DEF Finished, Unfinished
    <3> QED
      BY <1>2, <3>1, <3>2 DEF InState
  <2>2. /\ InState(t, f, {"verified"}) = InState(s, f, {"verified"}) \cup V
        /\ InState(s, f, {"verified"}) \cap V = {}
    BY <1>2, <1>6 DEF InState
  <2>3. /\ InState(s, f, Finished) \in SUBSET Chunks(f)
        /\ InState(s, f, {"verified"}) \in SUBSET Chunks(f)
    BY DEF InState
  <2>4. /\ Cardinality(InState(t, f, Finished)) = Cardinality(InState(s, f, Finished)) + Cardinality(X)
        /\ Cardinality(InState(t, f, {"verified"})) = Cardinality(InState(s, f, {"verified"})) + Cardinality(V)
    BY <1>2, <2>1, <2>2, <2>3, CountMore
  <2>5. t.ncomplete[f] = s.ncomplete[f] + Cardinality(X) /\ t.nverified[f] = s.nverified[f] + Cardinality(V)
    BY <1>3, <1>8
  <2>6. CountedIn(s, f)
    BY DEF Tallied
  <2> QED
    BY <2>4, <2>5, <2>6 DEF CountedIn
<1>11. ASSUME NEW g \in Frontends, g # f PROVE CountedIn(t, g)
  <2>1. t.ncomplete[g] = s.ncomplete[g] /\ t.nverified[g] = s.nverified[g] /\ CountedIn(s, g)
    BY <1>3, <1>8, <1>11 DEF Tallied
  <2> QED
    BY <1>5, <1>11, <2>1, CountSame
<1>12. Weighed(t) /\ Filled(t)
  BY <1>3, WeighSame DEF Tallied, Filled
<1>13. Apart(t)
  BY <1>2, <1>3, <1>5, <1>6 DEF Tallied, Apart
<1>14. Tallied(t)
  BY <1>10, <1>11, <1>12, <1>13 DEF Tallied
<1>15. ASSUME NEW c \in Chunks(f) \ C, s.bitmap[f][c] = "complete"
       PROVE  t.bitmap[f][c] = "complete"
  BY <1>2, <1>6, <1>15
<1>16. CASE f # Primary
  BY <1>1, <1>3, <1>9, <1>14, <1>15, <1>16 DEF r
<1>17. CASE f = Primary
  <2>1. r = SetVerifiedBlock(t, B)
    BY <1>1, <1>17
  <2>2. Tallied(r)
    BY <1>2, <1>9, <1>14, <2>1, TallyVerifiedBlock
  <2>3. /\ IsSwarmer(r) /\ r.networks = t.networks
        /\ \A c \in Chunks(Primary) : r.bitmap[Primary][c] \in {"complete", t.bitmap[Primary][c]}
    BY <1>2, <1>9, <2>1, VerifiedBlockFacts
  <2> QED
    BY <1>3, <1>15, <1>17, <2>2, <2>3 DEF r
<1> QED
  BY <1>16, <1>17

\* set_frontend_state_missing: what the failed chunks held is not downloaded.
LEMMA TallyFailed ==
    ASSUME NEW s, IsSwarmer(s), Tallied(s), NEW f \in Frontends,
           f \in s.networks,
           NEW C \in SUBSET Chunks(f), \A c \in C : s.bitmap[f][c] = "complete"
    PROVE  Tallied(SetFrontendStateMissing(s, f, C))
<1> DEFINE u == Rejected(s, f, C)
           T == Tagged(s, f, C)
           L == Lost(s, f, C)
           W == {b \in Walked(s, f, C) : s.blocks[b] \in {"Empty", "Complete"}}
<1>1. SetFrontendStateMissing(s, f, C) = SetSwarmerStateMissing(u, W)
  BY DEF SetFrontendStateMissing
<1>2. /\ T \in SUBSET Chunks(f) /\ \A c \in T : s.bitmap[f][c] = "complete"
      /\ Failed(s, f, C) \subseteq T
      /\ L \in SUBSET Blocks /\ \A b \in L : s.blocks[b] = "Complete"
      /\ W \in SUBSET Blocks
  BY DEF Tagged, Reached, Failed, Lost, Walked
<1>3. /\ IsSwarmer(u) /\ u.networks = s.networks
      /\ \A b \in Blocks : u.blocks[b] = IF b \in L THEN "Empty" ELSE s.blocks[b]
      /\ \A c \in Chunks(f) : u.bitmap[f][c] = CASE c \in Failed(s, f, C) -> "missing"
                                                 [] c \in T \ Failed(s, f, C) -> "partial"
                                                 [] OTHER -> s.bitmap[f][c]
      /\ \A g \in Frontends : g # f => u.bitmap[g] = s.bitmap[g]
  BY RejectedFacts
<1>4. /\ u.ncomplete = [s.ncomplete EXCEPT ![f] = s.ncomplete[f] - Cardinality(T)]
      /\ u.nverified = s.nverified
      /\ u.remaining = [b \in Blocks |-> IF b \in L THEN Size[b] ELSE s.remaining[b]]
      /\ u.downloaded = s.downloaded - Sum(Size, L)
  <2> HIDE DEF T, L
  <2> QED
    BY DEF IsSwarmer, Rejected, T, L
<1> HIDE DEF u, T, L, W
<1>5. s.ncomplete \in [Frontends -> Int] /\ s.remaining \in [Blocks -> Nat] /\ u.remaining \in [Blocks -> Nat]
  BY <1>3 DEF IsSwarmer
<1>6. CountedIn(u, f)
  <2>1. \A c \in Chunks(f) : IF c \in T THEN u.bitmap[f][c] \in Unfinished
                             ELSE u.bitmap[f][c] = s.bitmap[f][c]
    BY <1>2, <1>3 DEF Unfinished
  <2>2. InState(u, f, Finished) = InState(s, f, Finished) \ T /\ T \in SUBSET InState(s, f, Finished)
    BY <1>2, <2>1 DEF InState, Finished, Unfinished
  <2>3. InState(u, f, {"verified"}) = InState(s, f, {"verified"})
    BY <1>2, <2>1 DEF InState, Unfinished
  <2>4. InState(s, f, Finished) \in SUBSET Chunks(f)
    BY DEF InState
  <2>5. Cardinality(InState(u, f, Finished)) = Cardinality(InState(s, f, Finished)) - Cardinality(T)
    BY <2>2, <2>4, CountLess
  <2>6. u.ncomplete[f] = s.ncomplete[f] - Cardinality(T) /\ CountedIn(s, f)
    BY <1>4, <1>5 DEF Tallied
  <2> QED
    BY <1>4, <2>3, <2>5, <2>6 DEF CountedIn
<1>7. ASSUME NEW g \in Frontends, g # f PROVE CountedIn(u, g)
  <2>1. u.ncomplete[g] = s.ncomplete[g] /\ u.nverified[g] = s.nverified[g] /\ CountedIn(s, g)
    BY <1>4, <1>5, <1>7 DEF Tallied
  <2> QED
    BY <1>3, <1>7, <2>1, CountSame
<1>8. Filled(u)
  BY <1>3, <1>4 DEF Tallied, Filled
<1>9. Weighed(u)
  <2>1. Size \in [Blocks -> Int]
    BY SizeAssumption
  <2>2. \A b \in L : s.remaining[b] = 0
    BY <1>2 DEF Tallied, Filled
  <2>3. \A b \in Blocks : u.remaining[b] = IF b \in L THEN s.remaining[b] + Size[b] ELSE s.remaining[b]
    BY <1>4, <1>5, <2>1, <2>2
  <2>4. Weighed(s)
    BY DEF Tallied
  <2> QED
    BY <1>2, <1>4, <1>5, <2>1, <2>3, <2>4, WeighLess
<1>10. Apart(u)
  BY <1>3 DEF Tallied, Apart
<1>11. Tallied(u)
  BY <1>6, <1>7, <1>8, <1>9, <1>10 DEF Tallied
<1> QED
  BY <1>1, <1>2, <1>3, <1>11, TallyMissing

-----------------------------------------------------------------------------
\* verify_chunk
LEMMA TallyVerify ==
    ASSUME NEW s, IsSwarmer(s), Tallied(s), NEW f \in Frontends, f \in s.networks, NEW C
    PROVE  Tallied(VerifyChunks(s, f, C))
<1> DEFINE todo == C \cap InState(s, f, {"complete"})
           raising == {c \in todo : ~ HashOk(f, c) /\ (Refuses(s, f, c) \/ Aborts(s, f, c))}
           right == {c \in todo : HashOk(f, c) /\ \A d \in raising : c < d}
           wrong == {c \in todo : ~ HashOk(f, c)}
           r == VerifyChunks(s, f, C)
<1>1. \A c \in todo : c \in Chunks(f) /\ s.bitmap[f][c] = "complete"
  BY DEF InState
<1>2. CASE Trusting(s, f)
  BY <1>2 DEF VerifyChunks, Trusting
<1>3. CASE s.verifier[f] = "ForceVerification"
  <2>1. r = SetFrontendStateVerified(s, f, todo)
    BY <1>3 DEF VerifyChunks, Trusting
  <2>2. todo \in SUBSET Chunks(f)
    BY <1>1
  <2> HIDE DEF todo, r
  <2>3. Tallied(r)
    BY <2>1, <2>2, TallyVerified
  <2> QED
    BY <2>3 DEF r
<1>4. CASE s.verifier[f] = "Verification"
  <2> DEFINE t == SetFrontendStateVerified(s, f, right)
  <2>1. r = SetFrontendStateMissing(t, f, wrong)
    BY <1>4 DEF VerifyChunks, Trusting
  <2>2. /\ right \in SUBSET Chunks(f) /\ wrong \in SUBSET Chunks(f)
        /\ \A c \in wrong : c \in Chunks(f) \ right /\ s.bitmap[f][c] = "complete"
    BY <1>1
  <2> HIDE DEF right, wrong, r
  <2>3. /\ Tallied(t) /\ IsSwarmer(t) /\ t.networks = s.networks
        /\ \A c \in Chunks(f) \ right : s.bitmap[f][c] = "complete" => t.bitmap[f][c] = "complete"
    BY <2>2, TallyVerified
  <2> HIDE DEF t
  <2>4. \A c \in wrong : t.bitmap[f][c] = "complete"
    BY <2>2, <2>3
  <2>5. Tallied(r)
    BY <2>1, <2>2, <2>3, <2>4, TallyFailed
  <2> QED
    BY <2>5 DEF r
<1>5. CASE s.verifier[f] = "FileVerification"
  <2> DEFINE D == InState(s, f, {"complete"})
  <2>1. \/ r = s
        \/ r = SetFrontendStateVerified(s, f, Chunks(f))
        \/ r = SetFrontendStateMissing(s, f, D)
    BY <1>5 DEF VerifyChunks, Trusting
  <2>2. D \in SUBSET Chunks(f) /\ \A c \in D : s.bitmap[f][c] = "complete"
    BY DEF InState
  <2> HIDE DEF r, D
  <2>3. Tallied(SetFrontendStateVerified(s, f, Chunks(f)))
    BY TallyVerified
  <2>4. Tallied(SetFrontendStateMissing(s, f, D))
    BY <2>2, TallyFailed
  <2>5. Tallied(r)
    BY <2>1, <2>3, <2>4
  <2> QED
    BY <2>5 DEF r
<1> QED
  BY <1>2, <1>3, <1>4, <1>5 DEF Trusting, Verifiers, IsSwarmer

\* set_frontend_state_complete
LEMMA TallyFrontendComplete ==
    ASSUME NEW s, IsSwarmer(s), Tallied(s), NEW f \in Frontends, NEW C
    PROVE  LET r == SetFrontendStateComplete(s, f, C) IN
           /\ Tallied(r) /\ IsSwarmer(r) /\ r.networks = s.networks /\ r.verifier = s.verifier
           /\ \A g \in Secondaries : r.bitmap[g] = s.bitmap[g]
<1> DEFINE B == UNION {BlocksOf(f, c) : c \in C \cap InState(s, f, Unfinished)}
<1>1. B \in SUBSET Blocks
  BY DEF BlocksOf
<1>2. SetFrontendStateComplete(s, f, C) = SetCompletedBlock(s, B)
  BY DEF SetFrontendStateComplete
<1> HIDE DEF B
<1> QED
  BY <1>1, <1>2, TallyCompletedBlock, CompletedBlockFacts

\* merge: a secondary that had nothing has nothing.
LEMMA TallyAssociate ==
    ASSUME NEW s, IsSwarmer(s), Tallied(s), NEW f \in Frontends \ s.networks
    PROVE  Tallied(Associate(s, f))
<1> DEFINE r == Associate(s, f)
           void == [c \in Chunks(f) |-> "missing"]
<1>1. /\ r.blocks = s.blocks /\ r.remaining = s.remaining /\ r.downloaded = s.downloaded
      /\ r.bitmap = [s.bitmap EXCEPT ![f] = void]
      /\ r.ncomplete = s.ncomplete /\ r.nverified = s.nverified
      /\ r.networks = s.networks \cup {f}
  BY DEF IsSwarmer, Associate
<1>2. /\ s.bitmap = [g \in Frontends |-> s.bitmap[g]]
      /\ \A c \in Chunks(f) : s.bitmap[f][c] = "missing" /\ void[c] = "missing"
  BY DEF IsSwarmer, IsBitmap, Tallied, Apart
<1> HIDE DEF r, void
<1>3. /\ r.bitmap[f] = void
      /\ \A g \in Frontends : g # f => r.bitmap[g] = s.bitmap[g]
  BY <1>1, <1>2
<1>4. \A g \in Frontends : \A c \in Chunks(g) : r.bitmap[g][c] = s.bitmap[g][c]
  BY <1>2, <1>3
<1>5. ASSUME NEW g \in Frontends PROVE CountedIn(r, g)
  <2>1. CountedIn(s, g)
    BY DEF Tallied
  <2> QED
    BY <1>1, <1>4, <2>1, CountSame
<1>6. Weighed(r) /\ Filled(r) /\ Apart(r)
  BY <1>1, <1>4, WeighSame DEF Tallied, Filled, Apart
<1> QED
  BY <1>5, <1>6 DEF Tallied, r

\* create: where nothing was completed elsewhere, everything counts zero.
LEMMA TallyEmpty ==
    ASSUME NEW solo \in [Secondaries -> Nat], \A f \in Secondaries : solo[f] = 0,
           NEW v \in [Frontends -> Verifiers]
    PROVE  Tallied(EmptySwarmer(solo, v))
<1> DEFINE r == EmptySwarmer(solo, v)
<1>1. /\ r.blocks = [b \in Blocks |-> "Empty"] /\ r.remaining = Size /\ r.downloaded = 0
      /\ r.networks = {Primary}
      /\ \A f \in Frontends : \A c \in Chunks(f) : r.bitmap[f][c] = "missing"
      /\ \A f \in Frontends : r.ncomplete[f] = 0 /\ r.nverified[f] = 0
  BY DEF EmptySwarmer
<1> HIDE DEF r
<1>2. ASSUME NEW f \in Frontends PROVE CountedIn(r, f)
  <2>1. InState(r, f, Finished) = {} /\ InState(r, f, {"verified"}) = {}
    BY <1>1 DEF InState, Finished
  <2> QED
    BY <1>1, <2>1, FS_EmptySet DEF CountedIn
<1>3. Weighed(r)
  <2> DEFINE zero == [b \in Blocks |-> 0]
  <2>1. Held(r) = zero /\ zero \in [Blocks -> Int]
    BY <1>1, SizeAssumption DEF Held
  <2>2. \A b \in Blocks : zero[b] = IF b \in Blocks THEN zero[b] + zero[b] ELSE zero[b]
    OBVIOUS
  <2>3. Blocks \in SUBSET Blocks
    OBVIOUS
  <2> HIDE DEF zero
  <2>4. Sum(zero, Blocks) = Sum(zero, Blocks) + Sum(zero, Blocks)
    BY <2>1, <2>2, <2>3, SumChange
  <2>5. Sum(zero, Blocks) \in Int
    BY <2>1, <2>3, SumStep
  <2> DEFINE n == Sum(zero, Blocks)
  <2> HIDE DEF n
  <2>6. n = 0
    <3>1. n = n + n /\ n \in Int
      BY <2>4, <2>5 DEF n
    <3> QED
      BY <3>1
  <2> QED
    BY <1>1, <2>1, <2>6 DEF Weighed, n
<1>4. Filled(r) /\ Apart(r)
  BY <1>1 DEF Filled, Apart
<1> QED
  BY <1>2, <1>3, <1>4 DEF Tallied, r

\* set_present: what is there is no longer missing.
LEMMA TallyPresent ==
    ASSUME NEW s, IsSwarmer(s), Tallied(s), NEW present \in [Blocks -> Nat],
           \A b \in Blocks : present[b] <= Size[b]
    PROVE  /\ Tallied(SetPresent(s, present))
           /\ \A g \in Secondaries : SetPresent(s, present).bitmap[g] = s.bitmap[g]
<1> DEFINE open == {b \in Blocks : s.blocks[b] = "Empty" /\ present[b] > 0}
           full == {b \in open : present[b] = Size[b]}
           cut == open \ full
           t == SetCompletedBlock(s, full)
           X == {c \in InState(t, Primary, {"missing"}) : BlocksOf(Primary, c) \cap cut # {}}
           r == SetPresent(s, present)
<1>1. /\ full \in SUBSET Blocks /\ cut \in SUBSET Blocks
      /\ \A b \in cut : s.blocks[b] = "Empty" /\ b \notin full
  OBVIOUS
<1>2. r = [t EXCEPT
            !.blocks = Put(@, cut, "Partial"),
            !.remaining = [b \in Blocks |-> IF b \in cut THEN Size[b] - present[b] ELSE @[b]],
            !.downloaded = @ + Sum(present, cut),
            !.vbitmap = Put(@, cut, "partial"),
            !.bitmap[Primary] = Put(@, X, "partial")]
  BY DEF SetPresent
<1>3. \A c \in Chunks(Primary) : c \in X => t.bitmap[Primary][c] = "missing"
  BY DEF InState
<1> HIDE DEF open, full, cut, X, r
<1>4. /\ IsSwarmer(t) /\ Tallied(t) /\ \A g \in Secondaries : t.bitmap[g] = s.bitmap[g]
      /\ \A b \in Blocks : t.blocks[b] = IF b \in Open(s, full) THEN "Complete" ELSE s.blocks[b]
  BY <1>1, TallyCompletedBlock, CompletedBlockFacts
<1>5. \A b \in cut : t.blocks[b] = "Empty" /\ t.remaining[b] = Size[b]
  BY <1>1, <1>4 DEF Open, Tallied, Filled
<1> HIDE DEF t
<1>6. /\ r.blocks = Put(t.blocks, cut, "Partial")
      /\ r.remaining = [b \in Blocks |-> IF b \in cut THEN Size[b] - present[b] ELSE t.remaining[b]]
      /\ r.downloaded = t.downloaded + Sum(present, cut)
      /\ r.bitmap = [t.bitmap EXCEPT ![Primary] = Put(t.bitmap[Primary], X, "partial")]
      /\ r.ncomplete = t.ncomplete /\ r.nverified = t.nverified
      /\ r.networks = t.networks
  BY <1>2, <1>4 DEF IsSwarmer
<1>7. /\ t.bitmap = [g \in Frontends |-> t.bitmap[g]]
      /\ t.bitmap[Primary] \in [Chunks(Primary) -> VBStates]
      /\ t.blocks \in [Blocks -> {"Empty", "Partial", "Complete", "Verified"}]
      /\ t.remaining \in [Blocks -> Nat]
      /\ Primary \in t.networks
  BY <1>4, FrontendFacts DEF IsSwarmer, IsBitmap
<1>8. /\ r.bitmap[Primary] = Put(t.bitmap[Primary], X, "partial")
      /\ \A g \in Secondaries : r.bitmap[g] = t.bitmap[g]
  BY <1>6, <1>7, FrontendFacts
<1>9. \A c \in Chunks(Primary) :
         r.bitmap[Primary][c] = IF c \in X THEN "partial" ELSE t.bitmap[Primary][c]
  BY <1>7, <1>8 DEF Put
<1>10. ASSUME NEW g \in Frontends PROVE CountedIn(r, g)
  <2>1. CountedIn(t, g)
    BY <1>4 DEF Tallied
  <2>2. \A c \in Chunks(g) : \/ r.bitmap[g][c] = t.bitmap[g][c]
                             \/ t.bitmap[g][c] \in Unfinished /\ r.bitmap[g][c] \in Unfinished
    <3>1. CASE g = Primary
      BY <1>3, <1>9, <3>1 DEF Unfinished
    <3>2. CASE g # Primary
      BY <1>8, <3>2, FrontendFacts
    <3> QED
      BY <3>1, <3>2
  <2> QED
    BY <1>6, <2>1, <2>2, CountSame
<1>11. r.remaining \in [Blocks -> Nat]
  <2>1. \A b \in Blocks : Size[b] - present[b] \in Nat
    BY SizeAssumption
  <2> QED
    BY <1>6, <1>7, <2>1
<1>12. Weighed(r)
  <2>1. \A b \in Blocks : r.remaining[b] = IF b \in cut THEN t.remaining[b] - present[b] ELSE t.remaining[b]
    BY <1>5, <1>6
  <2>2. Weighed(t) /\ present \in [Blocks -> Int]
    BY <1>4 DEF Tallied
  <2> QED
    BY <1>1, <1>6, <1>7, <1>11, <2>1, <2>2, WeighMore
<1>13. Filled(r)
  <2>1. \A b \in Blocks : r.blocks[b] = IF b \in cut THEN "Partial" ELSE t.blocks[b]
    BY <1>6, <1>7 DEF Put
  <2> QED
    BY <1>4, <1>6, <2>1 DEF Tallied, Filled
<1>14. Apart(r)
  <2>1. \A g \in Frontends \ r.networks : g \in Secondaries /\ g \notin t.networks
    BY <1>6, <1>7, FrontendFacts
  <2> QED
    BY <1>4, <1>8, <2>1 DEF Tallied, Apart
<1>15. Tallied(r)
  BY <1>10, <1>12, <1>13, <1>14 DEF Tallied
<1> QED
  BY <1>4, <1>8, <1>15 DEF r

-----------------------------------------------------------------------------
\* No secondary had completed a chunk before it was merged.
Unstarted == \A f \in Secondaries : Solo[f] = 0

\* set_chunks_verified_bitmap, of a frontend that is merged or has nothing.
LEMMA TallyBitmap ==
    ASSUME NEW s, IsSwarmer(s), Tallied(s), NEW f \in Frontends, NEW bm,
           f \in s.networks \/ \A c \in Chunks(f) : bm[c] = "missing"
    PROVE  /\ Tallied(SetChunksVerifiedBitmap(s, f, bm))
           /\ IsSwarmer(SetChunksVerifiedBitmap(s, f, bm))
           /\ SetChunksVerifiedBitmap(s, f, bm).networks = s.networks
<1> DEFINE t == SetFrontendStateComplete(s, f, {c \in Chunks(f) : bm[c] = "complete"})
           V == {c \in Chunks(f) : bm[c] = "verified"}
<1>1. SetChunksVerifiedBitmap(s, f, bm) = SetFrontendStateVerified(t, f, V)
  BY DEF SetChunksVerifiedBitmap
<1>2. IsSwarmer(t) /\ Tallied(t) /\ t.networks = s.networks
  BY TallyFrontendComplete
<1>3. V \in SUBSET Chunks(f) /\ (f \in s.networks \/ V = {})
  OBVIOUS
<1> HIDE DEF t, V
<1> QED
  BY <1>1, <1>2, <1>3, TallyVerified

\* A restart counts what files.ini holds.
LEMMA TallyLoaded ==
    ASSUME NEW old, GoodImage(old), Unstarted
    PROVE  Tallied(Loaded(old))
<1> DEFINE solo == [f \in Secondaries |-> IF f \in old.networks THEN 0 ELSE Solo[f]]
           e == EmptySwarmer(solo, old.verifier)
           p == SetChunksVerifiedBitmap(e, Primary, old.bitmap[Primary])
           q == SetPresent(p, old.present)
           secs == old.networks \ {Primary}
           claimed == {b \in Blocks : \E f \in secs : old.bitmap[f][ChunkOf[f][b]] = "complete"}
           sure(f) == {c \in Chunks(f) : f \in secs /\ old.bitmap[f][c] = "verified"}
           t == SetCompletedBlock(q, claimed)
           r == Loaded(old)
<1>1. r = [t EXCEPT
            !.networks = old.networks,
            !.bitmap = [f \in Frontends |-> Put(@[f], sure(f), "verified")],
            !.ncomplete = [f \in Frontends |-> @[f] + Cardinality(sure(f))],
            !.nverified = [f \in Frontends |-> @[f] + Cardinality(sure(f))]]
  BY DEF Loaded
<1>2. solo \in [Secondaries -> Nat] /\ \A f \in Secondaries : solo[f] = 0
  BY SchemeAssumption DEF Unstarted
<1>3. /\ claimed \in SUBSET Blocks
      /\ \A f \in Frontends : sure(f) \in SUBSET Chunks(f)
      /\ \A f \in Frontends : sure(f) # {} => f \in old.networks /\ f # Primary
  OBVIOUS
<1> HIDE DEF solo, claimed, sure, secs, r
<1>4. Good(e) /\ Tallied(e) /\ e.networks = {Primary}
  BY <1>2, GoodEmptySwarmer, TallyEmpty DEF GoodImage
<1> HIDE DEF e
<1>5. Good(p) /\ IsSwarmer(p) /\ Tallied(p) /\ p.networks = {Primary}
  BY <1>4, GoodVerifiedBitmap, TallyBitmap, FrontendFacts DEF Good
<1> HIDE DEF p
<1>6. Good(q) /\ IsSwarmer(q) /\ Tallied(q) /\ q.networks = {Primary}
  <2>1. old.present \in [Blocks -> Nat] /\ \A b \in Blocks : old.present[b] <= Size[b]
    BY DEF GoodImage
  <2> HIDE DEF q
  <2>2. Good(q) /\ q.networks = p.networks
    BY <1>5, <2>1, GoodSetPresent DEF q
  <2>3. Tallied(q)
    BY <1>5, <2>1, TallyPresent DEF q
  <2> QED
    BY <1>5, <2>2, <2>3 DEF Good
<1> HIDE DEF q
<1>7. IsSwarmer(t) /\ Tallied(t) /\ t.networks = {Primary}
  BY <1>3, <1>6, CompletedBlockFacts, TallyCompletedBlock
<1> HIDE DEF t
<1>8. /\ r.blocks = t.blocks /\ r.remaining = t.remaining /\ r.downloaded = t.downloaded
      /\ r.networks = old.networks
      /\ r.bitmap = [f \in Frontends |-> Put(t.bitmap[f], sure(f), "verified")]
      /\ r.ncomplete = [f \in Frontends |-> t.ncomplete[f] + Cardinality(sure(f))]
      /\ r.nverified = [f \in Frontends |-> t.nverified[f] + Cardinality(sure(f))]
  BY <1>1, <1>7 DEF IsSwarmer
<1>9. \A f \in Frontends : t.bitmap[f] \in [Chunks(f) -> VBStates]
  BY <1>7 DEF IsSwarmer, IsBitmap
<1>10. ASSUME NEW f \in Frontends, NEW c \in Chunks(f)
       PROVE  r.bitmap[f][c] = IF c \in sure(f) THEN "verified" ELSE t.bitmap[f][c]
  <2>1. r.bitmap[f] = Put(t.bitmap[f], sure(f), "verified")
    BY <1>8
  <2> QED
    BY <1>9, <2>1 DEF Put
<1>11. \A f \in Frontends : f # Primary => \A c \in Chunks(f) : t.bitmap[f][c] = "missing"
  BY <1>7 DEF Tallied, Apart
<1>12. ASSUME NEW f \in Frontends PROVE CountedIn(r, f)
  <2> DEFINE X == sure(f)
             F == InState(t, f, Finished)
             V == InState(t, f, {"verified"})
  <2>1. X \in SUBSET Chunks(f) /\ F \in SUBSET Chunks(f) /\ V \in SUBSET Chunks(f)
    BY <1>3 DEF InState
  <2>2. \A c \in X : t.bitmap[f][c] = "missing"
    BY <1>3, <1>11
  <2>3. F \cap X = {} /\ V \cap X = {}
    BY <2>2 DEF InState, Finished
  <2>4. InState(r, f, Finished) = F \cup X /\ InState(r, f, {"verified"}) = V \cup X
    <3> HIDE DEF X
    <3>1. \A c \in Chunks(f) : r.bitmap[f][c] = IF c \in X THEN "verified" ELSE t.bitmap[f][c]
      BY <1>10 DEF X
    <3> QED
      BY <2>1, <3>1 DEF InState, Finished
  <2>5. CountedIn(t, f)
    BY <1>7 DEF Tallied
  <2>6. r.ncomplete[f] = t.ncomplete[f] + Cardinality(X) /\ r.nverified[f] = t.nverified[f] + Cardinality(X)
    BY <1>8
  <2>7. t.ncomplete[f] = Cardinality(F) /\ t.nverified[f] = Cardinality(V)
    BY <2>5 DEF CountedIn
  <2> HIDE DEF X, F, V
  <2>8. Cardinality(F \cup X) = Cardinality(F) + Cardinality(X)
        /\ Cardinality(V \cup X) = Cardinality(V) + Cardinality(X)
    BY <2>1, <2>3, CountMore
  <2> QED
    BY <2>4, <2>6, <2>7, <2>8 DEF CountedIn
<1>13. Weighed(r) /\ Filled(r)
  BY <1>7, <1>8, WeighSame DEF Tallied, Filled
<1>14. Apart(r)
  <2> SUFFICES ASSUME NEW f \in Frontends \ r.networks, NEW c \in Chunks(f)
               PROVE  r.bitmap[f][c] = "missing"
    BY DEF Apart
  <2>1. sure(f) = {} /\ f # Primary
    BY <1>3, <1>8 DEF GoodImage
  <2> QED
    BY <1>10, <1>11, <2>1
<1> QED
  BY <1>12, <1>13, <1>14 DEF Tallied, r

-----------------------------------------------------------------------------
\* Starting an empty block weighs nothing.
LEMMA TallyNewBlock ==
    ASSUME IsSwarmer(swarmer), Tallied(swarmer), NEW f \in Frontends, NEW b \in Blocks, NewBlock(f, b)
    PROVE  Tallied(swarmer')
<1> DEFINE s == [swarmer EXCEPT !.blocks[b] = "Partial"]
<1>1. swarmer' = SetSwarmerStatePartial(s, b)
  BY DEF NewBlock
<1>2. /\ DOMAIN s = DOMAIN swarmer
      /\ s.blocks = [swarmer.blocks EXCEPT ![b] = "Partial"]
      /\ s.remaining = swarmer.remaining /\ s.vbitmap = swarmer.vbitmap
      /\ s.bitmap = swarmer.bitmap /\ s.networks = swarmer.networks
      /\ s.ncomplete = swarmer.ncomplete /\ s.nverified = swarmer.nverified
      /\ s.verifier = swarmer.verifier /\ s.asserts = swarmer.asserts
      /\ s.downloaded = swarmer.downloaded
  BY DEF IsSwarmer
<1> HIDE DEF s
<1>3. IsSwarmer(s)
  BY <1>2 DEF IsSwarmer
<1>4. Weighed(s)
  BY <1>2, WeighSame DEF Tallied
<1>5. Filled(s)
  BY <1>2 DEF Tallied, Filled, IsSwarmer
<1>6. \A g \in Frontends : CountedIn(s, g)
  BY <1>2 DEF Tallied, CountedIn, InState
<1>7. Apart(s)
  BY <1>2 DEF Tallied, Apart
<1> QED
  BY <1>1, <1>3, <1>4, <1>5, <1>6, <1>7, TallyPartial DEF Tallied

\* Data that arrive are weighed before they complete the block.
LEMMA TallyReceived ==
    ASSUME IsSwarmer(swarmer), Tallied(swarmer), NEW f \in Frontends, NEW b \in Blocks,
           NEW n \in 1 .. Size[b], NEW ok \in BOOLEAN, Received(f, b, n, ok)
    PROVE  Tallied(swarmer')
<1> DEFINE left == swarmer.remaining[b] - n
           s == [swarmer EXCEPT !.remaining[b] = left, !.downloaded = @ + n]
           d == [k \in Blocks |-> n]
<1>1. /\ swarmer.blocks[b] = "Partial" /\ left >= 0
      /\ \/ swarmer' = s
         \/ swarmer' = SetVerifiedBlock(s, {b})
         \/ swarmer' = SetCompletedBlock(s, {b})
  BY DEF Received
<1>2. swarmer.remaining \in [Blocks -> Nat] /\ swarmer.remaining[b] <= Size[b] /\ Size[b] \in Nat
  BY SizeAssumption DEF IsSwarmer
<1>3. /\ DOMAIN s = DOMAIN swarmer
      /\ s.remaining = [swarmer.remaining EXCEPT ![b] = left]
      /\ s.downloaded = swarmer.downloaded + n
      /\ s.blocks = swarmer.blocks /\ s.vbitmap = swarmer.vbitmap
      /\ s.bitmap = swarmer.bitmap /\ s.networks = swarmer.networks
      /\ s.ncomplete = swarmer.ncomplete /\ s.nverified = swarmer.nverified
      /\ s.verifier = swarmer.verifier /\ s.asserts = swarmer.asserts
  BY DEF IsSwarmer
<1>4. /\ left \in Nat /\ left <= Size[b] /\ n \in Int
      /\ \A k \in Blocks : [swarmer.remaining EXCEPT ![b] = left][k]
                             = IF k \in {b} THEN swarmer.remaining[k] - n ELSE swarmer.remaining[k]
  BY <1>1, <1>2
<1> HIDE DEF s, left
<1>5. s.remaining \in [Blocks -> Nat] /\ \A k \in Blocks : s.remaining[k] <= Size[k]
  BY <1>3, <1>4 DEF IsSwarmer
<1>6. IsSwarmer(s)
  BY <1>3, <1>5 DEF IsSwarmer
<1>7. Weighed(s)
  <2>1. d \in [Blocks -> Int] /\ d[b] = n /\ {b} \in SUBSET Blocks
    BY <1>4
  <2>2. \A k \in Blocks : s.remaining[k] = IF k \in {b} THEN swarmer.remaining[k] - d[k]
                                           ELSE swarmer.remaining[k]
    BY <1>3, <1>4
  <2> HIDE DEF d
  <2>3. Sum(d, {b}) = n
    BY <2>1, SumOne
  <2>4. s.downloaded = swarmer.downloaded + Sum(d, {b})
    BY <1>3, <2>3
  <2>5. Weighed(swarmer)
    BY DEF Tallied
  <2> QED
    BY <1>2, <1>5, <2>1, <2>2, <2>4, <2>5, WeighMore
<1>8. Filled(s)
  BY <1>1, <1>3 DEF Tallied, Filled, IsSwarmer
<1>9. \A g \in Frontends : CountedIn(s, g)
  BY <1>3 DEF Tallied, CountedIn, InState
<1>10. Apart(s)
  BY <1>3 DEF Tallied, Apart
<1>11. Tallied(s)
  BY <1>7, <1>8, <1>9, <1>10 DEF Tallied
<1> QED
  BY <1>1, <1>6, <1>11, TallyVerifiedBlock, TallyCompletedBlock

\* The hashes of a frontend arrive: it is merged, or has nothing.
LEMMA TallySetVerifier ==
    ASSUME IsSwarmer(swarmer), Tallied(swarmer), NEW f \in Frontends, SetVerifier(f)
    PROVE  Tallied(swarmer')
<1> DEFINE s == [swarmer EXCEPT !.verifier[f] = "Verification"]
<1>1. swarmer' = SetChunksVerifiedBitmap(s, f, swarmer.bitmap[f])
  BY DEF SetVerifier
<1>2. /\ DOMAIN s = DOMAIN swarmer
      /\ s.verifier = [swarmer.verifier EXCEPT ![f] = "Verification"]
      /\ s.remaining = swarmer.remaining /\ s.downloaded = swarmer.downloaded
      /\ s.blocks = swarmer.blocks /\ s.vbitmap = swarmer.vbitmap
      /\ s.bitmap = swarmer.bitmap /\ s.networks = swarmer.networks
      /\ s.ncomplete = swarmer.ncomplete /\ s.nverified = swarmer.nverified
      /\ s.asserts = swarmer.asserts
  BY DEF IsSwarmer
<1> HIDE DEF s
<1>3. s.verifier \in [Frontends -> Verifiers]
  BY <1>2 DEF IsSwarmer, Verifiers
<1>4. IsSwarmer(s)
  BY <1>2, <1>3 DEF IsSwarmer
<1>5. Weighed(s) /\ Filled(s) /\ Apart(s)
  BY <1>2, WeighSame DEF Tallied, Filled, Apart
<1>6. \A g \in Frontends : CountedIn(s, g)
  BY <1>2 DEF Tallied, CountedIn, InState
<1>7. f \in s.networks \/ \A c \in Chunks(f) : swarmer.bitmap[f][c] = "missing"
  BY <1>2 DEF Tallied, Apart
<1> QED
  BY <1>1, <1>4, <1>5, <1>6, <1>7, TallyBitmap DEF Tallied

\* Every step keeps the counters.
LEMMA TallyStep ==
    ASSUME Unstarted, Inv, Tallied(swarmer), [Next]_vars
    PROVE  Tallied(swarmer')
<1>1. IsSwarmer(swarmer) /\ GoodImage(saved) /\ Primary \in swarmer.networks
  BY DEF Inv, Good, IsSwarmer
<1>2. ASSUME NEW f \in Frontends, NEW b \in Blocks, NewBlock(f, b)
      PROVE  Tallied(swarmer')
  BY <1>1, <1>2, TallyNewBlock
<1>3. ASSUME NEW f \in Frontends, NEW b \in Blocks, NEW n \in 1 .. Size[b], NEW ok \in BOOLEAN,
             Received(f, b, n, ok)
      PROVE  Tallied(swarmer')
  BY <1>1, <1>3, TallyReceived
<1>4. ASSUME NEW f \in Frontends, VerifyOneChunk(f)
      PROVE  Tallied(swarmer')
  <2>1. PICK C : f \in swarmer.networks /\ swarmer' = VerifyChunks(swarmer, f, C)
    BY <1>4 DEF VerifyOneChunk
  <2> QED
    BY <1>1, <2>1, TallyVerify
<1>5. ASSUME NEW f \in Frontends, NEW c \in Chunks(f), PropagateChunk(f, c)
      PROVE  Tallied(swarmer')
  <2>1. swarmer' = SetFrontendStateComplete(swarmer, f, {c})
    BY <1>5 DEF PropagateChunk
  <2> QED
    BY <1>1, <2>1, TallyFrontendComplete
<1>6. ASSUME NEW f \in Frontends, Merge(f)
      PROVE  Tallied(swarmer')
  <2>1. f \in Frontends \ swarmer.networks /\ swarmer' = Associate(swarmer, f)
    BY <1>6 DEF Merge
  <2> QED
    BY <1>1, <2>1, TallyAssociate
<1>7. ASSUME NEW f \in Frontends, SetVerifier(f)
      PROVE  Tallied(swarmer')
  BY <1>1, <1>7, TallySetVerifier
<1>8. ASSUME NEW b \in Blocks, ShouldDownloadBlock(b)
      PROVE  Tallied(swarmer')
  <2>1. PICK C : swarmer' = VerifyChunks(swarmer, Primary, C)
    BY <1>8 DEF ShouldDownloadBlock
  <2> QED
    BY <1>1, <2>1, TallyVerify, FrontendFacts
<1>9. CASE Restart
  <2>1. swarmer' = Loaded(saved)
    BY <1>9 DEF Restart
  <2> QED
    BY <1>1, <2>1, TallyLoaded
<1>10. ASSUME UNCHANGED swarmer PROVE Tallied(swarmer')
  BY <1>10
<1>11. ASSUME NEW f \in Frontends, ChangeState(f) \/ CheckFinished(f)
       PROVE  UNCHANGED swarmer
  BY <1>11 DEF ChangeState, CheckFinished
<1>12. Save \/ UNCHANGED vars => UNCHANGED swarmer
  BY DEF Save, vars
<1> QED
  BY <1>2, <1>3, <1>4, <1>5, <1>6, <1>7, <1>8, <1>9, <1>10, <1>11, <1>12 DEF Next

\* The counters of the frontends and the downloaded size are never off, where
\* no secondary had completed a chunk before it was merged (merge forgets its
\* bitmap and not its counters, commonSwarming.ml:790).
THEOREM CountersCorrectness == ASSUME Unstarted PROVE Spec => []CountersAgree
<1>1. Init => Tallied(swarmer)
  <2> SUFFICES ASSUME Init
               PROVE  Tallied(swarmer)
    OBVIOUS
  <2>1. PICK v \in Schemes : swarmer = EmptySwarmer(Solo, v)
    BY DEF Init
  <2>2. v \in [Frontends -> Verifiers] /\ Solo \in [Secondaries -> Nat]
    BY SchemeAssumption
  <2> QED
    BY <2>1, <2>2, TallyEmpty DEF Unstarted
<1>2. Inv /\ Tallied(swarmer) /\ [Next]_vars => Tallied(swarmer)'
  BY TallyStep
<1>3. Inv /\ Tallied(swarmer) => CountersAgree
  BY DEF Inv, Good, IsSwarmer, Tallied, CountedIn, Weighed, Held, CountersAgree
<1> QED
  BY <1>1, <1>2, <1>3, Invariance, PTL DEF Spec

-----------------------------------------------------------------------------
(***************************************************************************)
(* The swarmer implements ChunkLedger: for a primary that verifies by      *)
(* hash, every handler of SwarmerVerification is a step of the ledger of   *)
(* its chunks, or changes nothing in it.                                   *)
(***************************************************************************)

\* The status of a chunk in the ledger, as the refinement mapping reads it.
Kind(s, c) ==
  IF s.bitmap[Primary][c] = "verified" THEN "verified"
  ELSE IF s.bitmap[Primary][c] = "complete" THEN "claimed" ELSE "open"

Ids == Chunks(Primary)
Done == state[Primary] = "FileDownloaded"

\* The mapping, in the words of Kind.
Status == [c \in Ids |-> Kind(swarmer, c)]
Right == [c \in Ids |-> HashOk(Primary, c)]

\* ChunkLedger sees the chunks through Status.
LEMMA Mapping ==
  /\ [c \in Chunks(Primary) |->
        CASE swarmer.bitmap[Primary][c] = "verified" -> "verified"
          [] swarmer.bitmap[Primary][c] = "complete" -> "claimed"
          [] OTHER -> "open"] = Status
  /\ [c \in Chunks(Primary) |->
        CASE swarmer'.bitmap[Primary][c] = "verified" -> "verified"
          [] swarmer'.bitmap[Primary][c] = "complete" -> "claimed"
          [] OTHER -> "open"] = Status'
BY DEF Status, Kind, Ids

\* Bytes arrive, some open chunks fill up.
LEMMA FetchMaps ==
  ASSUME NEW S \in SUBSET {c \in Ids : Kind(swarmer, c) = "open"},
         \A c \in Ids : Kind(swarmer', c) = IF c \in S THEN "claimed" ELSE Kind(swarmer, c),
         \A c \in Ids : Kind(swarmer, c) = "verified" => (HashOk(Primary, c)' <=> HashOk(Primary, c)),
         Done' <=> Done
  PROVE  Ledger!Fetch
<1>1. Status' = [c \in Ids |-> IF c \in S THEN "claimed" ELSE Status[c]]
  BY DEF Status
<1>2. S \in SUBSET {c \in Ids : Status[c] = "open"}
  BY DEF Status
<1>3. Right' \in [Ids -> BOOLEAN]
  BY DEF Right, HashOk
<1>4. \A c \in {d \in Ids : Status[d] = "verified"} : Right'[c] = Right[c]
  <2> SUFFICES ASSUME NEW c \in Ids, Kind(swarmer, c) = "verified"
               PROVE  Right'[c] = Right[c]
    BY DEF Status
  <2>1. (\A b \in BlocksOf(Primary, c) : good'[b] = Bytes(b))
          <=> (\A b \in BlocksOf(Primary, c) : good[b] = Bytes(b))
    BY DEF HashOk
  <2>2. Right[c] = (\A b \in BlocksOf(Primary, c) : good[b] = Bytes(b))
    BY DEF Right, HashOk
  <2>3. Right'[c] = (\A b \in BlocksOf(Primary, c) : good'[b] = Bytes(b))
    BY DEF Right, HashOk
  <2> QED
    BY <2>1, <2>2, <2>3
<1> QED
  BY <1>1, <1>2, <1>3, <1>4, Mapping DEF Ledger!Fetch, Ledger!In, Right, Ids, Done

\* The ledger's view of the bytes does not change when they do not.
LEMMA SameRight == good' = good => Right' = Right
BY DEF Right, HashOk

\* Claimed chunks that are right are verified.
LEMMA CertifyMaps ==
  ASSUME NEW S \in SUBSET {c \in Ids : Kind(swarmer, c) = "claimed" /\ HashOk(Primary, c)},
         \A c \in Ids : Kind(swarmer', c) = IF c \in S THEN "verified" ELSE Kind(swarmer, c),
         good' = good, Done' <=> Done
  PROVE  Ledger!Certify
<1>1. Status' = [c \in Ids |-> IF c \in S THEN "verified" ELSE Status[c]]
  BY DEF Status
<1>2. S \in SUBSET {c \in {d \in Ids : Status[d] = "claimed"} : Right[c]}
  BY DEF Status, Right
<1> QED
  BY <1>1, <1>2, SameRight, Mapping DEF Ledger!Certify, Ledger!In, Right, Ids, Done

\* Claimed chunks are open again, something being wrong.
LEMMA RejectMaps ==
  ASSUME NEW S \in SUBSET {c \in Ids : Kind(swarmer, c) = "claimed"},
         \A c \in Ids : Kind(swarmer', c) = IF c \in S THEN "open" ELSE Kind(swarmer, c),
         \E c \in Ids : ~ HashOk(Primary, c), good' = good, Done' <=> Done
  PROVE  Ledger!Reject
<1>1. Status' = [c \in Ids |-> IF c \in S THEN "open" ELSE Status[c]]
  BY DEF Status
<1>2. S \in SUBSET {c \in Ids : Status[c] = "claimed"}
  BY DEF Status
<1>3. \E c \in Ids : ~ Right[c]
  BY DEF Right
<1> QED
  BY <1>1, <1>2, <1>3, SameRight, Mapping DEF Ledger!Reject, Ledger!In, Right, Ids, Done

\* Nothing the ledger knows changes.
LEMMA StutterMaps ==
  ASSUME \A c \in Ids : Kind(swarmer', c) = Kind(swarmer, c), good' = good, Done' <=> Done
  PROVE  UNCHANGED Ledger!vars
<1>1. Status' = Status
  BY DEF Status
<1> QED
  BY <1>1, SameRight, Mapping DEF Ledger!vars, Right, Ids, Done

\* The file is complete.
LEMMA CompleteMaps ==
  ASSUME \A c \in Ids : Kind(swarmer, c) = "verified", swarmer' = swarmer, good' = good, Done'
  PROVE  Ledger!Complete
<1>1. Status' = Status /\ {c \in Ids : Status[c] = "verified"} = Ids
  BY DEF Status
<1> QED
  BY <1>1, SameRight, Mapping DEF Ledger!Complete, Ledger!In, Right, Ids, Done

\* A restart forgets.
LEMMA ReloadMaps ==
  ASSUME \A c \in Ids : Kind(swarmer', c) = "verified" => Kind(swarmer, c) = "verified",
         Done' => Done, good' = good
  PROVE  Ledger!Reload
<1>1. /\ Status' \in [Ids -> {"open", "claimed", "verified"}]
      /\ \A c \in Ids : Status'[c] = "verified" => Status[c] = "verified"
  BY DEF Status, Kind
<1>2. Done' \in BOOLEAN
  BY DEF Done
<1> QED
  BY <1>1, <1>2, SameRight, Mapping DEF Ledger!Reload, Right, Ids, Done

-----------------------------------------------------------------------------
(* What the internal functions do to the kinds.                             *)

\* set_frontend_state_missing opens the primary's chunks it tags, and no others.
LEMMA MissingKinds ==
  ASSUME NEW s, IsSwarmer(s), NEW f \in Frontends, NEW C \in SUBSET Chunks(f)
  PROVE  \A c \in Ids : Kind(SetFrontendStateMissing(s, f, C), c) =
            IF f = Primary /\ c \in Tagged(s, f, C) THEN "open" ELSE Kind(s, c)
<1> DEFINE u == Rejected(s, f, C)
           B == {b \in Walked(s, f, C) : s.blocks[b] \in {"Empty", "Complete"}}
           r == SetFrontendStateMissing(s, f, C)
<1> SUFFICES ASSUME NEW c \in Ids
             PROVE  Kind(r, c) = IF f = Primary /\ c \in Tagged(s, f, C) THEN "open" ELSE Kind(s, c)
  OBVIOUS
<1>1. /\ IsSwarmer(u)
      /\ \A d \in Chunks(f) : u.bitmap[f][d] =
            CASE d \in Failed(s, f, C) -> "missing"
              [] d \in Tagged(s, f, C) \ Failed(s, f, C) -> "partial"
              [] OTHER -> s.bitmap[f][d]
      /\ \A g \in Frontends : g # f => u.bitmap[g] = s.bitmap[g]
  BY RejectedFacts
<1>2. r = SetSwarmerStateMissing(u, B) /\ B \in SUBSET Blocks
  BY DEF SetFrontendStateMissing, Walked
<1> HIDE DEF u, B, r
<1>3. r.bitmap[Primary][c] = IF c \in Voided(u, B, Primary) THEN "missing" ELSE u.bitmap[Primary][c]
  BY <1>1, <1>2, MissingFacts, FrontendFacts DEF Ids
<1>4. c \in Voided(u, B, Primary) => u.bitmap[Primary][c] = "partial"
  BY DEF Voided, InState
<1>5. Kind(r, c) = Kind(u, c)
  BY <1>3, <1>4 DEF Kind
<1>6. Failed(s, f, C) \subseteq Tagged(s, f, C)
  BY DEF Failed
<1>7. Kind(u, c) = IF f = Primary /\ c \in Tagged(s, f, C) THEN "open" ELSE Kind(s, c)
  BY <1>1, <1>6, FrontendFacts DEF Kind, Ids
<1> QED
  BY <1>5, <1>7 DEF r

\* set_frontend_state_verified of a secondary leaves the primary alone.
LEMMA SecondaryKinds ==
  ASSUME NEW s, IsSwarmer(s), NEW f \in Frontends, f # Primary, NEW C
  PROVE  SetFrontendStateVerified(s, f, C).bitmap[Primary] = s.bitmap[Primary]
BY FrontendFacts DEF SetFrontendStateVerified, IsSwarmer, IsBitmap

\* set_completed_block claims open chunks only.
LEMMA CompletedKinds ==
  ASSUME NEW s, IsSwarmer(s), Mirrors(s), NEW B \in SUBSET Blocks
  PROVE  LET S == Escalated(s, Open(s, B))
         IN  /\ S \in SUBSET {c \in Ids : Kind(s, c) = "open"}
             /\ \A c \in Ids : Kind(SetCompletedBlock(s, B), c) =
                                 IF c \in S THEN "claimed" ELSE Kind(s, c)
<1> DEFINE S == Escalated(s, Open(s, B))
           T == TakenBack(s, Open(s, B))
           r == SetCompletedBlock(s, B)
<1>1. \A c \in Ids : r.bitmap[Primary][c] = IF c \in S \cup T THEN "complete" ELSE s.bitmap[Primary][c]
  BY CompletedBlockFacts DEF Ids
<1>2. T = {}
  BY DEF TakenBack, Touching, Open, Mirrors, BlocksOf
<1>3. S \in SUBSET {c \in Ids : Kind(s, c) = "open"}
  BY DEF Escalated, Touching, InState, Unfinished, Kind, Ids
<1> HIDE DEF S, T, r
<1>4. \A c \in Ids : Kind(r, c) = IF c \in S THEN "claimed" ELSE Kind(s, c)
  BY <1>1, <1>2 DEF Kind
<1> QED
  BY <1>3, <1>4 DEF S, r

-----------------------------------------------------------------------------
(* The handlers.  The primary verifies by hash, from the start on.          *)
HashedInv == Inv /\ Hashing(Primary)

\* The chunks of the primary that are verified, seen from the blocks.
LEMMA VerifiedKinds ==
  ASSUME NEW s, Good(s), s.verifier[Primary] # "NoVerification", NEW c \in Ids
  PROVE  Kind(s, c) = "verified" <=> BlocksOf(Primary, c) \subseteq VerifiedIn(s)
<1>1. PrimaryFollows(s) /\ \E b \in Blocks : b \in BlocksOf(Primary, c)
  BY ChunkFacts, FrontendFacts DEF Good, Ids
<1>2. \A b \in BlocksOf(Primary, c) : b \in Blocks
  BY DEF BlocksOf
<1>3. Kind(s, c) = "verified" <=> s.bitmap[Primary][c] = "verified"
  BY DEF Kind
<1> QED
  BY <1>1, <1>2, <1>3 DEF PrimaryFollows, VerifiedIn, Ids

\* Bytes that do not touch verified blocks do not change their chunks.
LEMMA TouchedFacts ==
  ASSUME HashedInv, NEW c \in Ids, Kind(swarmer, c) = "verified",
         \A b \in VerifiedIn(swarmer) : good'[b] = good[b] \/ good'[b] = Bytes(b)
  PROVE  HashOk(Primary, c) /\ HashOk(Primary, c)'
<1>1. BlocksOf(Primary, c) \subseteq VerifiedIn(swarmer)
  BY VerifiedKinds DEF HashedInv, Inv, Hashing
<1>2. \A b \in BlocksOf(Primary, c) : good[b] = Bytes(b)
  BY <1>1 DEF HashedInv, Inv, Trusted, Sound
<1>3. \A b \in BlocksOf(Primary, c) : good'[b] = Bytes(b)
  BY <1>1, <1>2
<1> QED
  BY <1>2, <1>3 DEF HashOk

\* Blocks are filled: by an uploader, or from another file.
LEMMA FillStep ==
  ASSUME HashedInv, NEW s, IsSwarmer(s), s.bitmap = swarmer.bitmap, s.vbitmap = swarmer.vbitmap,
         s.blocks = swarmer.blocks, NEW B \in SUBSET Blocks,
         swarmer' = s \/ swarmer' = SetCompletedBlock(s, B), state' = state,
         \A b \in VerifiedIn(swarmer) : good'[b] = good[b] \/ good'[b] = Bytes(b)
  PROVE  Ledger!Fetch
<1>1. Mirrors(s)
  BY DEF HashedInv, Inv, Good, Mirrors
<1>2. \A c \in Ids : Kind(s, c) = Kind(swarmer, c)
  BY DEF Kind
<1>3. \E S \in SUBSET {c \in Ids : Kind(swarmer, c) = "open"} :
         \A c \in Ids : Kind(swarmer', c) = IF c \in S THEN "claimed" ELSE Kind(swarmer, c)
  <2>1. CASE swarmer' = s
    <3> WITNESS {} \in SUBSET {c \in Ids : Kind(swarmer, c) = "open"}
    <3> QED
      BY <1>2, <2>1
  <2>2. CASE swarmer' = SetCompletedBlock(s, B)
    <3> DEFINE S == Escalated(s, Open(s, B))
    <3>1. /\ S \in SUBSET {c \in Ids : Kind(s, c) = "open"}
          /\ \A c \in Ids : Kind(swarmer', c) = IF c \in S THEN "claimed" ELSE Kind(s, c)
      BY <1>1, <2>2, CompletedKinds
    <3> HIDE DEF S
    <3> QED
      BY <1>2, <3>1
  <2> QED
    BY <2>1, <2>2
<1>4. \A c \in Ids : Kind(swarmer, c) = "verified" => (HashOk(Primary, c)' <=> HashOk(Primary, c))
  BY TouchedFacts
<1> QED
  BY <1>3, <1>4, FetchMaps DEF Done

\* A block that is started opens nothing new: its chunk was open.
LEMMA NewBlockMaps ==
  ASSUME HashedInv, NEW f \in Frontends, NEW b \in Blocks, NewBlock(f, b)
  PROVE  UNCHANGED Ledger!vars
<1> DEFINE s == [swarmer EXCEPT !.blocks[b] = "Partial"]
<1>1. IsSwarmer(swarmer)
  BY DEF HashedInv, Inv, Good
<1>2. swarmer' = SetSwarmerStatePartial(s, b) /\ UNCHANGED <<state, good>>
  BY DEF NewBlock
<1>3. IsSwarmer(s) /\ s.bitmap = swarmer.bitmap
  BY <1>1 DEF IsSwarmer
<1> HIDE DEF s
<1>4. \A c \in Ids :
         \/ swarmer'.bitmap[Primary][c] = s.bitmap[Primary][c]
         \/ s.bitmap[Primary][c] = "missing" /\ swarmer'.bitmap[Primary][c] = "partial"
  BY <1>2, <1>3, PartialFacts, FrontendFacts DEF Ids
<1>5. \A c \in Ids : Kind(swarmer', c) = Kind(swarmer, c)
  BY <1>3, <1>4 DEF Kind
<1> QED
  BY <1>2, <1>5, StutterMaps DEF Done

\* Data of a block arrives.
LEMMA ReceivedMaps ==
  ASSUME HashedInv, NEW f \in Frontends, NEW b \in Blocks, NEW n \in 1 .. Size[b],
         NEW ok \in BOOLEAN, Received(f, b, n, ok)
  PROVE  Ledger!Fetch
<1> DEFINE left == swarmer.remaining[b] - n
           s == [swarmer EXCEPT !.remaining[b] = left, !.downloaded = @ + n]
<1>1. IsSwarmer(swarmer)
  BY DEF HashedInv, Inv, Good
<1>2. /\ swarmer.blocks[b] = "Partial" /\ left >= 0
      /\ \A k \in Blocks : k # b => good'[k] = good[k]
      /\ swarmer' = IF left > 0 THEN s
                    ELSE IF s.verifier[Primary] = "NoVerification"
                    THEN SetVerifiedBlock(s, {b})
                    ELSE SetCompletedBlock(s, {b})
      /\ state' = state
  BY DEF Received, HashedInv, Inv, TypesOK
<1>3. swarmer.remaining[b] \in Nat /\ swarmer.remaining[b] <= Size[b] /\ Size[b] \in Nat
  BY <1>1, SizeAssumption DEF IsSwarmer
<1>4. left \in Nat /\ left <= Size[b]
  BY <1>2, <1>3
<1>5. /\ DOMAIN s = DOMAIN swarmer
      /\ s.remaining = [swarmer.remaining EXCEPT ![b] = left]
      /\ s.blocks = swarmer.blocks /\ s.vbitmap = swarmer.vbitmap
      /\ s.bitmap = swarmer.bitmap /\ s.networks = swarmer.networks
      /\ s.ncomplete = swarmer.ncomplete /\ s.nverified = swarmer.nverified
      /\ s.verifier = swarmer.verifier /\ s.asserts = swarmer.asserts
  BY <1>1 DEF IsSwarmer
<1> HIDE DEF s, left
<1>6. s.remaining \in [Blocks -> Nat] /\ \A k \in Blocks : s.remaining[k] <= Size[k]
  BY <1>1, <1>4, <1>5 DEF IsSwarmer
<1>7. IsSwarmer(s)
  BY <1>1, <1>5, <1>6 DEF IsSwarmer
<1>8. swarmer' = s \/ swarmer' = SetCompletedBlock(s, {b})
  BY <1>2, <1>5 DEF HashedInv, Hashing
<1>9. \A k \in VerifiedIn(swarmer) : good'[k] = good[k]
  BY <1>2 DEF VerifiedIn
<1> QED
  BY <1>2, <1>5, <1>7, <1>8, <1>9, FillStep

\* A chunk is copied from another file.
LEMMA PropagateMaps ==
  ASSUME HashedInv, NEW f \in Frontends, NEW c \in Chunks(f), PropagateChunk(f, c)
  PROVE  Ledger!Fetch
<1> DEFINE B == UNION {BlocksOf(f, k) : k \in {c} \cap InState(swarmer, f, Unfinished)}
<1>1. IsSwarmer(swarmer)
  BY DEF HashedInv, Inv, Good
<1>2. /\ good' = [b \in Blocks |-> IF b \in BlocksOf(f, c) THEN Bytes(b) ELSE good[b]]
      /\ swarmer' = SetCompletedBlock(swarmer, B) /\ state' = state
  BY DEF PropagateChunk, SetFrontendStateComplete
<1>3. B \in SUBSET Blocks
  BY DEF BlocksOf
<1> HIDE DEF B
<1>4. \A b \in VerifiedIn(swarmer) : good'[b] = good[b] \/ good'[b] = Bytes(b)
  BY <1>2 DEF VerifiedIn
<1> QED
  BY <1>1, <1>2, <1>3, <1>4, FillStep

\* verify_chunk on one chunk: a step of the ledger, or nothing to it.
LEMMA VerifyMaps ==
  ASSUME HashedInv, NEW f \in Frontends, NEW k,
         swarmer' = VerifyChunks(swarmer, f, {k}), UNCHANGED <<state, good>>
  PROVE  Ledger!Certify \/ Ledger!Reject \/ UNCHANGED Ledger!vars
<1> DEFINE todo == {k} \cap InState(swarmer, f, {"complete"})
           raising == {c \in todo : ~ HashOk(f, c) /\ (Refuses(swarmer, f, c) \/ Aborts(swarmer, f, c))}
           right == {c \in todo : HashOk(f, c) /\ \A d \in raising : c < d}
           wrong == {c \in todo : ~ HashOk(f, c)}
           t == SetFrontendStateVerified(swarmer, f, right)
           whole == SetFrontendStateVerified(swarmer, f, Chunks(f))
           rest == InState(swarmer, f, {"complete"})
<1>1. Good(swarmer) /\ IsSwarmer(swarmer) /\ swarmer.verifier[f] \in Verifiers
  BY DEF HashedInv, Inv, Good, IsSwarmer
<1>2. /\ todo \subseteq {k} /\ \A c \in todo : c \in Chunks(f) /\ swarmer.bitmap[f][c] = "complete"
      /\ rest \subseteq Chunks(f) /\ \A c \in rest : swarmer.bitmap[f][c] = "complete"
      /\ \A c \in Chunks(f) \ rest : swarmer.bitmap[f][c] # "complete"
  BY DEF InState
<1>3. /\ right \subseteq todo /\ wrong \subseteq todo
      /\ \A c \in right : HashOk(f, c)
      /\ \A c \in wrong : ~ HashOk(f, c)
      /\ right = {} \/ wrong = {}
  <2> HIDE DEF todo, raising
  <2> QED
    BY <1>2
<1>4. \/ swarmer' = swarmer
      \/ swarmer.verifier[f] = "ForceVerification" /\ swarmer' = SetFrontendStateVerified(swarmer, f, todo)
      \/ swarmer.verifier[f] = "Verification" /\ swarmer' = SetFrontendStateMissing(t, f, wrong)
      \/ /\ swarmer.verifier[f] = "FileVerification"
         /\ InState(swarmer, f, Unfinished) = {}
         /\ IF \A c \in Chunks(f) : HashOk(f, c) THEN swarmer' = whole
            ELSE swarmer' = SetFrontendStateMissing(swarmer, f, rest)
  BY <1>1 DEF VerifyChunks, Trusting, Verifiers
<1> HIDE DEF todo, raising, right, wrong, t, whole, rest
<1>5. ASSUME \A c \in Ids : Kind(swarmer', c) = Kind(swarmer, c)
      PROVE  UNCHANGED Ledger!vars
  BY <1>5, StutterMaps DEF Done
<1>6. CASE swarmer' = swarmer
  BY <1>5, <1>6
<1>7. CASE f = Primary
  <2>1. ASSUME NEW C \in SUBSET Ids, \A c \in C : HashOk(Primary, c),
               \A c \in C : Kind(swarmer, c) \in {"claimed", "verified"},
               \A c \in Ids : Kind(swarmer', c) = IF c \in C THEN "verified" ELSE Kind(swarmer, c)
        PROVE  Ledger!Certify
    <3> DEFINE S == {c \in C : Kind(swarmer, c) = "claimed"}
    <3>1. S \in SUBSET {c \in Ids : Kind(swarmer, c) = "claimed" /\ HashOk(Primary, c)}
      BY <2>1
    <3>2. \A c \in Ids : Kind(swarmer', c) = IF c \in S THEN "verified" ELSE Kind(swarmer, c)
      BY <2>1
    <3> HIDE DEF S
    <3> QED
      BY <3>1, <3>2, CertifyMaps DEF Done
  <2>2. ASSUME NEW C \in SUBSET Ids, \A c \in C : Kind(swarmer, c) = "claimed",
               \E c \in Ids : ~ HashOk(Primary, c),
               swarmer' = SetFrontendStateMissing(swarmer, Primary, C)
        PROVE  Ledger!Reject
    <3> DEFINE S == Tagged(swarmer, Primary, C)
    <3>1. S \subseteq C
      BY DEF Tagged, Reached
    <3>2. \A c \in Ids : Kind(swarmer', c) = IF c \in S THEN "open" ELSE Kind(swarmer, c)
      BY <1>1, <2>2, MissingKinds, FrontendFacts DEF Ids
    <3> HIDE DEF S
    <3>3. S \in SUBSET {c \in Ids : Kind(swarmer, c) = "claimed"}
      BY <2>2, <3>1
    <3> QED
      BY <2>2, <3>2, <3>3, RejectMaps DEF Done
  <2>3. ASSUME NEW C \in SUBSET Ids
        PROVE  /\ Good(SetFrontendStateVerified(swarmer, Primary, C))
               /\ \A c \in Ids : Kind(SetFrontendStateVerified(swarmer, Primary, C), c) =
                                   IF c \in C THEN "verified" ELSE Kind(swarmer, c)
    BY <1>1, GoodVerifiedPrimary DEF Ids, Kind
  <2>4. CASE swarmer.verifier[f] = "Verification" /\ swarmer' = SetFrontendStateMissing(t, f, wrong)
    <3>1. /\ right \in SUBSET Ids /\ wrong \in SUBSET Ids
          /\ \A c \in todo : Kind(swarmer, c) = "claimed"
      BY <1>2, <1>3, <1>7 DEF Ids, Kind
    <3>2. /\ IsSwarmer(t)
          /\ \A c \in Ids : Kind(t, c) = IF c \in right THEN "verified" ELSE Kind(swarmer, c)
      BY <1>7, <2>3, <3>1 DEF t, Good
    <3>3. \A c \in Ids : Kind(swarmer', c) = IF c \in Tagged(t, f, wrong) THEN "open" ELSE Kind(t, c)
      BY <1>7, <2>4, <3>1, <3>2, MissingKinds DEF Ids
    <3>4. Tagged(t, f, wrong) \subseteq wrong
      BY DEF Tagged, Reached
    <3>5. CASE wrong = {}
      BY <1>3, <1>7, <2>1, <3>1, <3>2, <3>3, <3>4, <3>5
    <3>6. CASE right = {} /\ wrong # {}
      <4> DEFINE S == Tagged(t, f, wrong)
      <4>1. S \in SUBSET {c \in Ids : Kind(swarmer, c) = "claimed"}
        BY <1>3, <3>1, <3>4
      <4>2. \A c \in Ids : Kind(swarmer', c) = IF c \in S THEN "open" ELSE Kind(swarmer, c)
        BY <3>2, <3>3, <3>6
      <4>3. \E c \in Ids : ~ HashOk(Primary, c)
        BY <1>3, <1>7, <3>1, <3>6
      <4> HIDE DEF S
      <4> QED
        BY <4>1, <4>2, <4>3, RejectMaps DEF Done
    <3> QED
      BY <1>3, <3>5, <3>6
  <2>5. CASE /\ swarmer.verifier[f] = "FileVerification"
             /\ InState(swarmer, f, Unfinished) = {}
             /\ \A c \in Chunks(f) : HashOk(f, c)
             /\ swarmer' = whole
    <3>1. \A c \in Ids : swarmer.bitmap[Primary][c] \in Finished
      BY <1>1, <1>7, <2>5 DEF InState, Unfinished, Finished, IsSwarmer, IsBitmap, VBStates, Ids
    <3>2. \A c \in Ids : Kind(swarmer, c) \in {"claimed", "verified"}
      BY <3>1 DEF Kind, Finished
    <3>3. Ids \in SUBSET Ids /\ Chunks(f) = Ids
      BY <1>7 DEF Ids
    <3>4. \A c \in Ids : Kind(swarmer', c) = "verified"
      BY <1>7, <2>3, <2>5, <3>3 DEF whole
    <3> QED
      BY <1>7, <2>1, <2>5, <3>2, <3>3, <3>4
  <2>6. CASE /\ swarmer.verifier[f] = "FileVerification"
             /\ ~ \A c \in Chunks(f) : HashOk(f, c)
             /\ swarmer' = SetFrontendStateMissing(swarmer, f, rest)
    <3>1. rest \in SUBSET Ids /\ \A c \in rest : Kind(swarmer, c) = "claimed"
      BY <1>2, <1>7 DEF Ids, Kind
    <3>2. \E c \in Ids : ~ HashOk(Primary, c)
      BY <1>7, <2>6 DEF Ids
    <3> QED
      BY <1>7, <2>2, <2>6, <3>1, <3>2
  <2>7. swarmer.verifier[f] # "ForceVerification"
    BY <1>7 DEF HashedInv, Hashing
  <2> QED
    BY <1>4, <1>6, <2>4, <2>5, <2>6, <2>7
<1>8. CASE f # Primary
  <2>1. ASSUME NEW C, swarmer' = SetFrontendStateVerified(swarmer, f, C)
        PROVE  UNCHANGED Ledger!vars
    <3>1. swarmer'.bitmap[Primary] = swarmer.bitmap[Primary]
      BY <1>1, <1>8, <2>1, SecondaryKinds
    <3> QED
      BY <1>5, <3>1 DEF Kind
  <2>2. CASE swarmer' = SetFrontendStateMissing(t, f, wrong)
    <3>1. /\ wrong \in SUBSET Chunks(f) /\ right \in SUBSET Chunks(f)
          /\ \A c \in right : swarmer.bitmap[f][c] \in Finished
      BY <1>2, <1>3 DEF Finished
    <3>2. IsSwarmer(t)
      BY <1>1, <3>1, GoodVerified DEF t, Good
    <3>3. \A c \in Ids : Kind(swarmer', c) = Kind(t, c)
      BY <1>8, <2>2, <3>1, <3>2, MissingKinds
    <3>4. t.bitmap[Primary] = swarmer.bitmap[Primary]
      BY <1>1, <1>8, SecondaryKinds DEF t
    <3> QED
      BY <1>5, <3>3, <3>4 DEF Kind
  <2>3. CASE swarmer' = SetFrontendStateMissing(swarmer, f, rest)
    <3>1. \A c \in Ids : Kind(swarmer', c) = Kind(swarmer, c)
      BY <1>1, <1>2, <1>8, <2>3, MissingKinds
    <3> QED
      BY <1>5, <3>1
  <2>4. CASE swarmer' = whole
    BY <2>1, <2>4 DEF whole
  <2> QED
    BY <1>4, <1>6, <2>1, <2>2, <2>3, <2>4
<1> QED
  BY <1>7, <1>8

\* A frontend that joins does not touch the primary.
LEMMA MergeMaps ==
  ASSUME HashedInv, NEW f \in Frontends, Merge(f)
  PROVE  UNCHANGED Ledger!vars
<1>1. /\ f # Primary /\ swarmer' = Associate(swarmer, f) /\ UNCHANGED <<state, good>>
  BY FrontendFacts DEF Merge
<1>2. swarmer'.bitmap[Primary] = swarmer.bitmap[Primary]
  BY <1>1, FrontendFacts DEF HashedInv, Inv, Good, IsSwarmer, IsBitmap, Associate
<1> QED
  BY <1>1, <1>2, StutterMaps DEF Kind, Done

\* The hashes of a frontend arrive: every chunk keeps its tag.
LEMMA SetVerifierMaps ==
  ASSUME HashedInv, NEW f \in Frontends, SetVerifier(f)
  PROVE  UNCHANGED Ledger!vars
<1> DEFINE t == [swarmer EXCEPT !.verifier[f] = "Verification"]
           U == {c \in Chunks(f) : swarmer.bitmap[f][c] = "complete"} \cap InState(t, f, Unfinished)
           B == UNION {BlocksOf(f, c) : c \in U}
           p == SetCompletedBlock(t, B)
           V == {c \in Chunks(f) : swarmer.bitmap[f][c] = "verified"}
<1>1. Good(swarmer) /\ IsSwarmer(swarmer) /\ Mirrors(swarmer)
  BY DEF HashedInv, Inv, Good
<1>2. /\ swarmer' = SetFrontendStateVerified(p, f, V)
      /\ swarmer.verifier[f] = "VerificationNotAvailable" /\ UNCHANGED <<state, good>>
  BY DEF SetVerifier, SetChunksVerifiedBitmap, SetFrontendStateComplete
<1>3. /\ DOMAIN t = DOMAIN swarmer
      /\ t.blocks = swarmer.blocks /\ t.remaining = swarmer.remaining /\ t.vbitmap = swarmer.vbitmap
      /\ t.bitmap = swarmer.bitmap /\ t.ncomplete = swarmer.ncomplete
      /\ t.nverified = swarmer.nverified
      /\ t.networks = swarmer.networks /\ t.asserts = swarmer.asserts
      /\ t.verifier = [swarmer.verifier EXCEPT ![f] = "Verification"]
  BY <1>1 DEF IsSwarmer
<1> HIDE DEF t
<1>4. B = {}
  BY <1>3 DEF InState, Unfinished
<1>5. V \in SUBSET Chunks(f) /\ \A c \in V : swarmer.bitmap[f][c] = "verified"
  OBVIOUS
<1> HIDE DEF U, B, V
<1>6. t.verifier \in [Frontends -> Verifiers]
  BY <1>1, <1>3 DEF IsSwarmer, Verifiers
<1>7. IsSwarmer(t)
  BY <1>1, <1>3, <1>6 DEF IsSwarmer
<1>8. Good(t) /\ Mirrors(t)
  <2>1. t.verifier[Primary] = "NoVerification" <=> swarmer.verifier[Primary] = "NoVerification"
    BY <1>1, <1>2, <1>3, FrontendFacts DEF IsSwarmer
  <2> QED
    BY <1>1, <1>3, <1>7, <2>1
    DEF Good, Mirrors, PrimaryFollows, SecondariesFollow, StaysAlone
<1>9. Good(p)
  BY <1>4, <1>8, GoodCompletedBlock
<1>10. IsSwarmer(p)
  BY <1>9 DEF Good
<1>11. \A c \in Chunks(Primary) : p.bitmap[Primary][c] = swarmer.bitmap[Primary][c]
  <2>1. Open(t, B) = {}
    BY <1>4 DEF Open
  <2>2. Escalated(t, {}) = {} /\ TakenBack(t, {}) = {}
    BY DEF Escalated, TakenBack, Touching
  <2>3. \A c \in Chunks(Primary) :
           p.bitmap[Primary][c] = IF c \in Escalated(t, Open(t, B)) \cup TakenBack(t, Open(t, B))
                                  THEN "complete" ELSE t.bitmap[Primary][c]
    BY <1>4, <1>7, CompletedBlockFacts
  <2> QED
    BY <1>3, <2>1, <2>2, <2>3
<1> HIDE DEF p
<1>12. \A c \in Chunks(Primary) : swarmer'.bitmap[Primary][c] = swarmer.bitmap[Primary][c]
  <2>1. CASE f = Primary
    <3>1. \A c \in Chunks(Primary) :
             swarmer'.bitmap[Primary][c] = IF c \in V THEN "verified" ELSE p.bitmap[Primary][c]
      BY <1>2, <1>5, <1>9, <2>1, GoodVerifiedPrimary
    <3> QED
      BY <1>5, <1>11, <2>1, <3>1
  <2>2. CASE f # Primary
    <3>1. swarmer'.bitmap[Primary] = p.bitmap[Primary]
      BY <1>2, <1>10, <2>2, SecondaryKinds
    <3> QED
      BY <1>11, <3>1
  <2> QED
    BY <2>1, <2>2
<1>13. \A c \in Ids : Kind(swarmer', c) = Kind(swarmer, c)
  BY <1>12 DEF Kind, Ids
<1> QED
  BY <1>2, <1>13, StutterMaps DEF Done

\* Only the completion of the primary is a step of the ledger.
LEMMA StateMaps ==
  ASSUME HashedInv, NEW f \in Frontends, ChangeState(f) \/ CheckFinished(f)
  PROVE  Ledger!Complete \/ UNCHANGED Ledger!vars
<1>1. state \in [Frontends -> FileStates] /\ Primary \in Frontends
  BY FrontendFacts DEF HashedInv, Inv, TypesOK
<1>2. UNCHANGED <<swarmer, good>>
  BY DEF ChangeState, CheckFinished
<1>3. ASSUME Done' <=> Done PROVE UNCHANGED Ledger!vars
  BY <1>2, <1>3, StutterMaps
<1>4. CASE ChangeState(f) \/ f # Primary
  <2>1. Done' <=> Done
    BY <1>1, <1>4 DEF ChangeState, CheckFinished, Moves, Done
  <2> QED
    BY <1>3, <2>1
<1>5. CASE CheckFinished(f) /\ f = Primary
  <2>1. Done' /\ InState(swarmer, Primary, {"verified"}) = Chunks(Primary)
    BY <1>1, <1>5 DEF CheckFinished, Done
  <2>2. \A c \in Ids : Kind(swarmer, c) = "verified"
    BY <2>1 DEF InState, Kind, Ids
  <2> QED
    BY <1>2, <2>1, <2>2, CompleteMaps
<1> QED
  BY <1>4, <1>5

\* The daemon comes back with what files.ini holds.
LEMMA RestartMaps == ASSUME HashedInv, Restart PROVE Ledger!Reload
<1>1. /\ Good(swarmer) /\ GoodImage(saved) /\ SavedStays /\ DoneStays
      /\ swarmer.verifier[Primary] # "NoVerification"
  BY DEF HashedInv, Inv, Hashing
<1>2. swarmer' = Loaded(saved) /\ state' = saved.state /\ good' = good
  BY DEF Restart
<1>3. /\ Good(swarmer') /\ swarmer'.verifier = saved.verifier
      /\ \A b \in VerifiedIn(swarmer') : saved.bitmap[Primary][ChunkOf[Primary][b]] = "verified"
  BY <1>1, <1>2, GoodLoaded
<1>4. swarmer'.verifier[Primary] # "NoVerification"
  BY <1>1, <1>3 DEF SavedStays, SameKind
<1>5. VerifiedIn(swarmer') \subseteq VerifiedIn(swarmer)
  BY <1>1, <1>3 DEF SavedStays, VerifiedIn
<1>6. \A c \in Ids : Kind(swarmer', c) = "verified" => Kind(swarmer, c) = "verified"
  BY <1>1, <1>3, <1>4, <1>5, VerifiedKinds
<1>7. Done' => Done
  BY <1>1, <1>2, FrontendFacts DEF DoneStays, Done
<1> QED
  BY <1>2, <1>6, <1>7, ReloadMaps

-----------------------------------------------------------------------------
(* The refinement.                                                          *)
HashedSchemes ==
  \A v \in Schemes :
     v[Primary] \in {"Verification", "FileVerification", "VerificationNotAvailable"}

\* At the start nothing is there.
LEMMA InitMaps == ASSUME HashedSchemes, Init PROVE Hashing(Primary) /\ Ledger!Init
<1>1. PICK v \in Schemes : swarmer = EmptySwarmer(Solo, v)
  BY DEF Init
<1>2. v \in [Frontends -> Verifiers] /\ Solo \in [Secondaries -> Nat]
  BY SchemeAssumption
<1>3. swarmer.verifier = v /\ \A c \in Chunks(Primary) : swarmer.bitmap[Primary][c] = "missing"
  BY <1>1, <1>2, GoodEmptySwarmer, FrontendFacts
<1>4. Hashing(Primary)
  BY <1>3 DEF HashedSchemes, Hashing
<1>5. Status = [c \in Ids |-> "open"]
  BY <1>3 DEF Status, Kind, Ids
<1>6. \A c \in Ids : ~ HashOk(Primary, c)
  <2> SUFFICES ASSUME NEW c \in Ids
               PROVE  ~ HashOk(Primary, c)
    OBVIOUS
  <2>1. PICK b \in Blocks : b \in BlocksOf(Primary, c)
    BY ChunkFacts, FrontendFacts DEF Ids
  <2>2. good[b] = {}
    BY DEF Init
  <2>3. 0 \in Bytes(b)
    BY SizeAssumption DEF Bytes
  <2> QED
    BY <2>1, <2>2, <2>3 DEF HashOk
<1>7. Right = [c \in Ids |-> FALSE]
  BY <1>6 DEF Right, HashOk
<1>8. ~ Done
  BY FrontendFacts DEF Init, Done
<1> QED
  BY <1>4, <1>5, <1>7, <1>8, Mapping DEF Ledger!Init, Right, Ids, Done

\* A primary that hashes goes on hashing.
LEMMA HashingStays == ASSUME HashedInv, Inv', [Next]_vars PROVE Hashing(Primary)'
<1>1. Hashing(Primary) <=> swarmer.verifier[Primary] \notin {"NoVerification", "ForceVerification"}
  BY HashingKind DEF HashedInv, Inv
<1>2. Hashing(Primary)' <=> swarmer'.verifier[Primary] \notin {"NoVerification", "ForceVerification"}
  BY FrontendFacts DEF Inv, Good, IsSwarmer, Verifiers, Hashing
<1>3. /\ SameKind(saved.verifier[Primary], swarmer.verifier[Primary])
      /\ SameKind(saved'.verifier[Primary], swarmer'.verifier[Primary])
  BY DEF HashedInv, Inv, SavedStays
<1>4. saved' = saved \/ swarmer' = swarmer
  <2>1. ASSUME NEW f \in Frontends, NEW b \in Blocks, NewBlock(f, b) PROVE saved' = saved
    BY <2>1 DEF NewBlock
  <2>2. ASSUME NEW f \in Frontends, NEW b \in Blocks, NEW n \in 1 .. Size[b], NEW ok \in BOOLEAN,
               Received(f, b, n, ok)
        PROVE  saved' = saved
    BY <2>2 DEF Received
  <2>3. ASSUME NEW f \in Frontends, VerifyOneChunk(f) PROVE saved' = saved
    BY <2>3 DEF VerifyOneChunk
  <2>4. ASSUME NEW f \in Frontends, NEW c \in Chunks(f), PropagateChunk(f, c) PROVE saved' = saved
    BY <2>4 DEF PropagateChunk
  <2>5. ASSUME NEW f \in Frontends, Merge(f) \/ SetVerifier(f) PROVE saved' = saved
    BY <2>5 DEF Merge, SetVerifier
  <2>6. ASSUME NEW f \in Frontends, ChangeState(f) \/ CheckFinished(f) PROVE saved' = saved
    BY <2>6 DEF ChangeState, CheckFinished
  <2>7. ASSUME NEW b \in Blocks, ShouldDownloadBlock(b) PROVE saved' = saved
    BY <2>7 DEF ShouldDownloadBlock
  <2>8. CASE Save
    BY <2>8 DEF Save
  <2>9. CASE Restart \/ UNCHANGED vars
    BY <2>9 DEF Restart, vars
  <2> QED
    BY <2>1, <2>2, <2>3, <2>4, <2>5, <2>6, <2>7, <2>8, <2>9 DEF Next
<1> QED
  BY <1>1, <1>2, <1>3, <1>4 DEF HashedInv, SameKind

\* Every step is one of the ledger.
LEMMA NextMaps == ASSUME HashedInv, [Next]_vars PROVE [Ledger!Next]_Ledger!vars
<1>1. ASSUME NEW f \in Frontends, NEW b \in Blocks, NewBlock(f, b)
      PROVE  UNCHANGED Ledger!vars
  BY <1>1, NewBlockMaps
<1>2. ASSUME NEW f \in Frontends, NEW b \in Blocks, NEW n \in 1 .. Size[b], NEW ok \in BOOLEAN,
             Received(f, b, n, ok)
      PROVE  Ledger!Next
  BY <1>2, ReceivedMaps DEF Ledger!Next
<1>3. ASSUME NEW f \in Frontends, VerifyOneChunk(f)
      PROVE  [Ledger!Next]_Ledger!vars
  <2>1. PICK k : swarmer' = VerifyChunks(swarmer, f, {k}) /\ UNCHANGED <<state, good>>
    BY <1>3 DEF VerifyOneChunk
  <2> QED
    BY <2>1, VerifyMaps DEF Ledger!Next
<1>4. ASSUME NEW f \in Frontends, NEW c \in Chunks(f), PropagateChunk(f, c)
      PROVE  Ledger!Next
  BY <1>4, PropagateMaps DEF Ledger!Next
<1>5. ASSUME NEW f \in Frontends, Merge(f)
      PROVE  UNCHANGED Ledger!vars
  BY <1>5, MergeMaps
<1>6. ASSUME NEW f \in Frontends, SetVerifier(f)
      PROVE  UNCHANGED Ledger!vars
  BY <1>6, SetVerifierMaps
<1>7. ASSUME NEW f \in Frontends, ChangeState(f) \/ CheckFinished(f)
      PROVE  [Ledger!Next]_Ledger!vars
  BY <1>7, StateMaps DEF Ledger!Next
<1>8. ASSUME NEW b \in Blocks, ShouldDownloadBlock(b)
      PROVE  [Ledger!Next]_Ledger!vars
  <2>1. PICK k : swarmer' = VerifyChunks(swarmer, Primary, {k}) /\ UNCHANGED <<state, good>>
    BY <1>8 DEF ShouldDownloadBlock
  <2> QED
    BY <2>1, VerifyMaps, FrontendFacts DEF Ledger!Next
<1>9. CASE Save \/ UNCHANGED vars
  <2>1. UNCHANGED <<swarmer, state, good>>
    BY <1>9 DEF Save, vars
  <2> QED
    BY <2>1, StutterMaps DEF Kind, Done
<1>10. CASE Restart
  BY <1>10, RestartMaps DEF Ledger!Next
<1> QED
  BY <1>1, <1>2, <1>3, <1>4, <1>5, <1>6, <1>7, <1>8, <1>9, <1>10 DEF Next

\* The swarmer implements the ledger of its chunks, for any file, chunking,
\* frontends and faults, when the primary verifies by hash: no chunk is
\* certified over wrong bytes, none is rejected while all bytes are right, the
\* bytes of a verified chunk stay, and no restart invents a verified chunk.
THEOREM Refinement == ASSUME HashedSchemes PROVE Spec => ImplementsLedger
<1>1. Init => Hashing(Primary) /\ Ledger!Init
  BY InitMaps
<1>2. Inv /\ Hashing(Primary) /\ [Next]_vars /\ Inv' => Hashing(Primary)'
  BY HashingStays DEF HashedInv
<1>3. Inv /\ Hashing(Primary) /\ [Next]_vars => [Ledger!Next]_Ledger!vars
  BY NextMaps DEF HashedInv
<1> QED
  BY <1>1, <1>2, <1>3, Invariance, PTL DEF Spec, ImplementsLedger, Ledger!Spec
===============================================================================
