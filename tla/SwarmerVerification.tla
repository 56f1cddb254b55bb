------------------------- MODULE SwarmerVerification -------------------------
(***************************************************************************)
(* The verification half of commonSwarming.ml: how the state of the blocks *)
(* of a swarmer and the bitmaps of the frontends that share it follow each *)
(* other while data arrives, chunks are hashed, chunks fail, frontends are *)
(* merged, files.ini is saved and the daemon restarts.                     *)
(*                                                                         *)
(* A swarmer is cut into blocks; each frontend (the view one network has   *)
(* of the file) groups the blocks in chunks of its own size.  The head of  *)
(* s_networks is the primary frontend; the others were merged later.       *)
(*                                                                         *)
(* The blocks are already cut at the chunk boundaries of all frontends, as *)
(* value_to_swarmer leaves them.  The daemon has one thread, so a handler  *)
(* is one action; the internal functions of the module are operators from  *)
(* a swarmer to a swarmer, and a function that the code calls on each      *)
(* block (chunk) of a set takes the set.                                   *)
(***************************************************************************)
EXTENDS Integers, FiniteSets, FiniteSetsExt

CONSTANTS
    Blocks,       \* indices of s_blocks
    Size,         \* Size[b]: bytes in block b
    Primary,      \* the primary frontend
    Secondaries,  \* the frontends that may be merged
    ChunkOf,      \* ChunkOf[f][b]: t_chunk_of_block
    Schemes,      \* the verifiers the frontends may start with
    Solo,         \* Solo[f]: chunks f had completed in a swarmer of its own
    Pausable,     \* bound: the frontends whose file is paused, queued and resumed
    MaxCorrupt,   \* bound on corrupted receptions and disk rot
    MaxCrash,     \* bound on restarts
    MaxRecheck    \* bound on the bytes a recheck may count

Frontends == {Primary} \cup Secondaries
VBStates == {"missing", "partial", "complete", "verified"}
Verifiers == {"NoVerification", "VerificationNotAvailable", "ForceVerification",
              "Verification", "FileVerification"}

Chunks(f) == {ChunkOf[f][b] : b \in Blocks}
BlocksOf(f, c) == {b \in Blocks : ChunkOf[f][b] = c}
Bytes(b) == 0 .. Size[b] - 1

ASSUME BlocksAssumption == IsFiniteSet(Blocks) /\ Blocks \subseteq Nat
ASSUME SizeAssumption == Size \in [Blocks -> Nat \ {0}]
ASSUME FrontendAssumption == Primary \notin Secondaries
ASSUME ChunkAssumption == ChunkOf \in [Frontends -> [Blocks -> Nat]]
ASSUME SchemeAssumption ==
    /\ Schemes \subseteq [Frontends -> Verifiers]
    /\ Solo \in [Secondaries -> Nat]
ASSUME BoundAssumption == MaxCorrupt \in Nat /\ MaxCrash \in Nat /\ MaxRecheck \in Nat

VARIABLES
    swarmer,  \* the swarmer and the frontends associated with it
    state,    \* file_state of each frontend's file
    good,     \* external: the bytes of each block that are right on the disk
    saved,    \* files.ini: what the last save wrote
    corrupt,  \* bound: corruptions so far
    crashes   \* bound: restarts so far

vars == <<swarmer, state, good, saved, corrupt, crashes>>

(* The fields of a swarmer s:                                              *)
(*   s.blocks      s_blocks: the constructor of each block                 *)
(*   s.remaining   bytes a block misses: block_remaining of a PartialBlock *)
(*   s.vbitmap     s_verified_bitmap                                       *)
(*   s.downloaded  file_downloaded of the primary's file                   *)
(*   s.networks    s_networks                                              *)
(*   s.bitmap      t_converted_verified_bitmap of each frontend            *)
(*   s.ncomplete, s.nverified   t_ncomplete_chunks, t_nverified_chunks     *)
(*   s.verifier    t_verifier of each frontend                             *)
(*   s.asserts     history: source lines of the assertions that failed     *)
FileStates == {"FileDownloading", "FileQueued", "FilePaused", "FileDownloaded"}
Assertions == {1288, 1309}

IsBitmap(bm) ==
    /\ bm = [f \in Frontends |-> bm[f]]
    /\ \A f \in Frontends : bm[f] \in [Chunks(f) -> VBStates]

IsSwarmer(s) ==
    /\ DOMAIN s = {"blocks", "remaining", "vbitmap", "downloaded", "networks", "bitmap",
                   "ncomplete", "nverified", "verifier", "asserts"}
    /\ s.blocks \in [Blocks -> {"Empty", "Partial", "Complete", "Verified"}]
    /\ s.remaining \in [Blocks -> Nat]
    /\ \A b \in Blocks : s.remaining[b] <= Size[b]
    /\ s.vbitmap \in [Blocks -> VBStates]
    /\ s.networks \subseteq Frontends /\ Primary \in s.networks
    /\ IsBitmap(s.bitmap)
    /\ s.ncomplete \in [Frontends -> Int]
    /\ s.nverified \in [Frontends -> Int]
    /\ s.verifier \in [Frontends -> Verifiers]
    /\ s.asserts \subseteq Assertions

-----------------------------------------------------------------------------
(* Helpers.                                                                *)

Sum(g, S) == MapThenSumSet(LAMBDA b : g[b], S)
Put(f, S, v) == [x \in DOMAIN f |-> IF x \in S THEN v ELSE f[x]]
InState(s, f, states) == {c \in Chunks(f) : s.bitmap[f][c] \in states}
Unfinished == {"missing", "partial"}
Finished == {"complete", "verified"}
Trusting(s, f) == s.verifier[f] \in {"NoVerification", "VerificationNotAvailable"}

\* Mutant of HashOk: the last block of the chunk is not hashed.
HashOkShort(f, c) ==
    \A b \in BlocksOf(f, c) : good[b] = Bytes(b) \/ \A k \in BlocksOf(f, c) : k <= b

HashOk(f, c) == \A b \in BlocksOf(f, c) : good[b] = Bytes(b)

-----------------------------------------------------------------------------
(* The internal functions.                                                 *)

\* Mutant of SetSwarmerStateMissing: nothing is tagged.
SetSwarmerStateMissingNot(s, B) == s

\* The blocks B lost their data: a partial chunk left without data is missing.
Cleared(s, B) == Put(s.vbitmap, {b \in B : s.vbitmap[b] \in Finished}, "missing")
Voided(s, B, f) ==
    {c \in InState(s, f, {"partial"}) :
        /\ f \in s.networks
        /\ BlocksOf(f, c) \cap B # {}
        /\ \A b \in BlocksOf(f, c) : Cleared(s, B)[b] = "missing"}
SetSwarmerStateMissing(s, B) ==
    [s EXCEPT !.vbitmap = Cleared(s, B),
              !.bitmap = [f \in Frontends |-> Put(@[f], Voided(s, B, f), "missing")]]

\* The block b is started: so are the missing chunks that hold it.
SetSwarmerStatePartial(s, b) ==
    IF s.vbitmap[b] # "missing" THEN s ELSE
    [s EXCEPT !.vbitmap[b] = "partial",
              !.bitmap = [f \in Frontends |->
                 IF f \in s.networks /\ @[f][ChunkOf[f][b]] = "missing"
                 THEN [@[f] EXCEPT ![ChunkOf[f][b]] = "partial"] ELSE @[f]]]

\* The blocks B are complete: escalate to the primary, or take its chunk back.
Touching(s, B, states) ==
    {c \in Chunks(Primary) : \E b \in BlocksOf(Primary, c) \cap B : s.vbitmap[b] \in states}
Escalated(s, B) ==
    {c \in Touching(s, B, Unfinished) \cap InState(s, Primary, Unfinished) :
        \A b \in BlocksOf(Primary, c) : Put(s.vbitmap, B, "complete")[b] = "complete"}
TakenBack(s, B) == Touching(s, B, {"verified"}) \cap InState(s, Primary, {"verified"})
SetSwarmerStateComplete(s, B) ==
    [s EXCEPT !.vbitmap = Put(@, B, "complete"),
              !.bitmap[Primary] = Put(@, Escalated(s, B) \cup TakenBack(s, B), "complete"),
              !.ncomplete[Primary] = @ + Cardinality(Escalated(s, B)),
              !.nverified[Primary] = @ - Cardinality(TakenBack(s, B))]

\* The primary has verified the blocks B: pass this on to the secondaries.
PassedOn(s, B, f) ==
    {c \in InState(s, f, VBStates \ {"verified"}) :
        /\ f \in s.networks \ {Primary}
        /\ ~ Trusting(s, Primary)
        /\ \E b \in BlocksOf(f, c) \cap B : s.vbitmap[b] # "verified"
        /\ \A b \in BlocksOf(f, c) : Put(s.vbitmap, B, "verified")[b] = "verified"}
SetSwarmerStateVerified(s, B) ==
    [s EXCEPT
        !.vbitmap = Put(@, B, "verified"),
        !.bitmap = [f \in Frontends |->
           Put(@[f], PassedOn(s, B, f), IF Trusting(s, f) THEN "verified" ELSE "complete")],
        !.ncomplete = [f \in Frontends |->
           @[f] + Cardinality(PassedOn(s, B, f) \cap InState(s, f, Unfinished))],
        !.nverified = [f \in Frontends |->
           @[f] + IF Trusting(s, f) THEN Cardinality(PassedOn(s, B, f)) ELSE 0]]

\* What is missing of the blocks B is counted as downloaded.
Open(s, B) == {b \in B : s.blocks[b] \in {"Empty", "Partial"}}
SetCompletedBlock(s, B) ==
    [SetSwarmerStateComplete(s, Open(s, B)) EXCEPT
        !.blocks = Put(@, Open(s, B), "Complete"),
        !.remaining = Put(@, Open(s, B), 0),
        !.downloaded = @ + Sum(s.remaining, Open(s, B))]

\* Mutant of SetVerifiedBlock: the constructor is left CompleteBlock.
SetVerifiedBlockComplete(s, B) ==
    LET fresh == {b \in B : s.blocks[b] # "Verified"}
    IN  SetSwarmerStateVerified(SetCompletedBlock(s, fresh), fresh)

SetVerifiedBlock(s, B) ==
    LET fresh == {b \in B : s.blocks[b] # "Verified"}
    IN  SetSwarmerStateVerified(
            [SetCompletedBlock(s, fresh) EXCEPT !.blocks = Put(@, fresh, "Verified")],
            fresh)

(* The chunks C of f have failed their verification.  Two assertions guard *)
(* this: no block may be tagged verified (line 1288), and no s_blocks may  *)
(* be VerifiedBlock (line 1309; the blocks are walked from the last one    *)
(* down, so those above it have been reset when the exception is raised).  *)
(* The exception also keeps the later chunks from being reached.           *)
Refuses(s, f, c) == \E b \in BlocksOf(f, c) : s.vbitmap[b] = "verified"
Aborts(s, f, c) == /\ \A b \in BlocksOf(f, c) : s.vbitmap[b] = "complete"
                   /\ \E b \in BlocksOf(f, c) : s.blocks[b] = "Verified"
Reached(s, f, C) == {c \in C : \A d \in C : d < c => ~ Refuses(s, f, d) /\ ~ Aborts(s, f, d)}
Tagged(s, f, C) == {c \in Reached(s, f, C) : ~ Refuses(s, f, c)}
Failed(s, f, C) == {c \in Tagged(s, f, C) : \A b \in BlocksOf(f, c) : s.vbitmap[b] = "complete"}
Walked(s, f, C) == {b \in Blocks : /\ ChunkOf[f][b] \in Failed(s, f, C)
                                   /\ \A k \in BlocksOf(f, ChunkOf[f][b]) :
                                         k >= b => s.blocks[k] # "Verified"}
Lost(s, f, C) == {b \in Walked(s, f, C) : s.blocks[b] = "Complete"}
Rejected(s, f, C) ==
    [s EXCEPT !.ncomplete[f] = @ - Cardinality(Tagged(s, f, C)),
              !.bitmap[f] = Put(Put(@, Tagged(s, f, C), "partial"), Failed(s, f, C), "missing"),
              !.blocks = Put(@, Lost(s, f, C), "Empty"),
              !.remaining = [b \in Blocks |-> IF b \in Lost(s, f, C) THEN Size[b] ELSE @[b]],
              !.downloaded = @ - Sum(Size, Lost(s, f, C)),
              !.asserts = @ \cup {n \in Assertions : \E c \in Reached(s, f, C) :
                                    IF n = 1288 THEN Refuses(s, f, c) ELSE Aborts(s, f, c)}]
SetFrontendStateMissing(s, f, C) ==
    SetSwarmerStateMissing(Rejected(s, f, C),
                           {b \in Walked(s, f, C) : s.blocks[b] \in {"Empty", "Complete"}})

\* Mutant of SetFrontendStateComplete: tag the chunk itself instead of its blocks.
SetFrontendStateCompleteChunk(s, f, C) ==
    LET open == C \cap InState(s, f, Unfinished)
    IN  [s EXCEPT !.bitmap[f] = Put(@, open, "complete"),
                  !.ncomplete[f] = @ + Cardinality(open)]

SetFrontendStateComplete(s, f, C) ==
    SetCompletedBlock(s, UNION {BlocksOf(f, c) : c \in C \cap InState(s, f, Unfinished)})

\* Mutant of SetFrontendStateVerified: the chunk was complete before, so only
\* t_nverified_chunks is counted.
SetFrontendStateVerifiedCount(s, f, C) ==
    LET fresh == {c \in C : s.bitmap[f][c] # "verified"}
        t == [s EXCEPT !.bitmap[f] = Put(@, fresh, "verified"),
                       !.nverified[f] = @ + Cardinality(fresh)]
    IN  IF f = Primary THEN SetVerifiedBlock(t, UNION {BlocksOf(f, c) : c \in fresh}) ELSE t

SetFrontendStateVerified(s, f, C) ==
    LET fresh == {c \in C : s.bitmap[f][c] # "verified"}
        t == [s EXCEPT !.bitmap[f] = Put(@, fresh, "verified"),
                       !.ncomplete[f] = @ + Cardinality(fresh \cap InState(s, f, Unfinished)),
                       !.nverified[f] = @ + Cardinality(fresh)]
    IN  IF f = Primary THEN SetVerifiedBlock(t, UNION {BlocksOf(f, c) : c \in fresh}) ELSE t

\* Every block not being downloaded is queued for verification.
VerifyAllChunks(s) ==
    LET absent == {b \in Blocks : s.vbitmap[b] = "missing"}
    IN  [SetSwarmerStateComplete(s, {b \in Blocks : s.vbitmap[b] \in {"missing", "verified"}})
            EXCEPT !.downloaded = @ + Sum(Size, absent)]

(* verify_chunk on the chunks C of f that are complete.  Only the hashes   *)
(* of the primary's own contents are modelled, so a chunk verifies when    *)
(* all its bytes on the disk are right.                                    *)
VerifyChunks(s, f, C) ==
    LET todo == C \cap InState(s, f, {"complete"})
        raising == {c \in todo : ~ HashOk(f, c) /\ (Refuses(s, f, c) \/ Aborts(s, f, c))}
        right == {c \in todo : HashOk(f, c) /\ \A d \in raising : c < d}
        wrong == {c \in todo : ~ HashOk(f, c)}
    IN  CASE Trusting(s, f) -> s
          [] s.verifier[f] = "ForceVerification" -> SetFrontendStateVerified(s, f, todo)
          [] s.verifier[f] = "Verification" ->
                SetFrontendStateMissing(SetFrontendStateVerified(s, f, right), f, wrong)
          [] s.verifier[f] = "FileVerification" ->
                IF todo = {} \/ InState(s, f, Unfinished) # {} THEN s
                ELSE IF \A c \in Chunks(f) : HashOk(f, c)
                THEN SetFrontendStateVerified(s, f, Chunks(f))
                ELSE SetFrontendStateMissing(s, f, InState(s, f, {"complete"}))

\* merge: f shares the swarmer from now on; its bitmap is void, its counters stay.
Associate(s, f) ==
    [s EXCEPT !.networks = @ \cup {f},
              !.bitmap[f] = [c \in Chunks(f) |-> "missing"]]

-----------------------------------------------------------------------------
(* A swarmer as create leaves it, and as files.ini brings it back.         *)

EmptySwarmer(solo, v) ==
    [blocks |-> [b \in Blocks |-> "Empty"],
     remaining |-> Size,
     vbitmap |-> [b \in Blocks |-> "missing"],
     downloaded |-> 0,
     networks |-> {Primary},
     bitmap |-> [f \in Frontends |-> [c \in Chunks(f) |-> "missing"]],
     ncomplete |-> [f \in Frontends |-> IF f \in Secondaries THEN solo[f] ELSE 0],
     nverified |-> [f \in Frontends |-> IF f \in Secondaries THEN solo[f] ELSE 0],
     verifier |-> v,
     asserts |-> {}]

\* set_chunks_verified_bitmap t bitmap
SetChunksVerifiedBitmap(s, f, bm) ==
    SetFrontendStateVerified(
        SetFrontendStateComplete(s, f, {c \in Chunks(f) : bm[c] = "complete"}),
        f, {c \in Chunks(f) : bm[c] = "verified"})

\* set_present: present[b] bytes of block b are there.
SetPresent(s, present) ==
    LET open == {b \in Blocks : s.blocks[b] = "Empty" /\ present[b] > 0}
        full == {b \in open : present[b] = Size[b]}
        cut == open \ full
        t == SetCompletedBlock(s, full)
    IN  [t EXCEPT
            !.blocks = Put(@, cut, "Partial"),
            !.remaining = [b \in Blocks |-> IF b \in cut THEN Size[b] - present[b] ELSE @[b]],
            !.downloaded = @ + Sum(present, cut),
            !.vbitmap = Put(@, cut, "partial"),
            !.bitmap[Primary] = Put(@, {c \in InState(t, Primary, {"missing"}) :
                                          BlocksOf(Primary, c) \cap cut # {}}, "partial")]

(* value_to_frontend of the primary, then of the secondaries: a bitmap that  *)
(* says verified is taken over as it is; one that says complete completes    *)
(* the blocks, which reaches the bitmap of the primary only.                 *)
Loaded(old) ==
    LET solo == [f \in Secondaries |-> IF f \in old.networks THEN 0 ELSE Solo[f]]
        prim == SetPresent(SetChunksVerifiedBitmap(EmptySwarmer(solo, old.verifier),
                                                   Primary, old.bitmap[Primary]),
                           old.present)
        secs == old.networks \ {Primary}
        claimed == {b \in Blocks : \E f \in secs : old.bitmap[f][ChunkOf[f][b]] = "complete"}
        sure(f) == {c \in Chunks(f) : f \in secs /\ old.bitmap[f][c] = "verified"}
    IN  [SetCompletedBlock(prim, claimed) EXCEPT
            !.networks = old.networks,
            !.bitmap = [f \in Frontends |-> Put(@[f], sure(f), "verified")],
            !.ncomplete = [f \in Frontends |-> @[f] + Cardinality(sure(f))],
            !.nverified = [f \in Frontends |-> @[f] + Cardinality(sure(f))]]

-----------------------------------------------------------------------------
(* The handlers.                                                           *)

Image == [bitmap |-> swarmer.bitmap,
          networks |-> swarmer.networks,
          verifier |-> swarmer.verifier,
          present |-> [b \in Blocks |-> Size[b] - swarmer.remaining[b]],
          state |-> [f \in Frontends |->
                       IF state[f] = "FileQueued" THEN "FileDownloading" ELSE state[f]]]

Init ==
    /\ \E v \in Schemes : swarmer = EmptySwarmer(Solo, v)
    /\ state = [f \in Frontends |-> "FileDownloading"]
    /\ good = [b \in Blocks |-> {}]
    /\ saved = Image
    /\ corrupt = 0
    /\ crashes = 0

Downloading(f) == f \in swarmer.networks /\ state[f] = "FileDownloading"

\* Mutant of NewBlock: should_download_block is not asked.
NewBlockAny(f, b) ==
    /\ Downloading(f)
    /\ swarmer.blocks[b] # "Partial"
    /\ swarmer' = SetSwarmerStatePartial([swarmer EXCEPT !.blocks[b] = "Partial",
                                                         !.remaining[b] = Size[b]], b)
    /\ UNCHANGED <<state, good, saved, corrupt, crashes>>

\* find_blocks selects an empty block for an uploader of f.
NewBlock(f, b) ==
    /\ f \in swarmer.networks
    /\ state[f] \in {"FileDownloading", "FileQueued"}
    /\ swarmer.blocks[b] = "Empty"
    /\ swarmer.vbitmap[b] \in Unfinished
    /\ swarmer' = SetSwarmerStatePartial([swarmer EXCEPT !.blocks[b] = "Partial"], b)
    /\ UNCHANGED <<state, good, saved, corrupt, crashes>>

\* Mutant of Received: data past the end of the range is not clipped.
ReceivedUnclipped(f, b, n, ok) ==
    /\ Downloading(f) /\ ok
    /\ swarmer.blocks[b] = "Partial"
    /\ swarmer' = [swarmer EXCEPT !.remaining[b] = @ - n, !.downloaded = @ + n]
    /\ UNCHANGED <<state, good, saved, corrupt, crashes>>

\* n more bytes of block b arrive from an uploader of f and are written to the
\* disk; ok tells whether they are the right ones.
Received(f, b, n, ok) ==
    LET left == swarmer.remaining[b] - n
        written == (Size[b] - swarmer.remaining[b]) .. (Size[b] - left - 1)
        s == [swarmer EXCEPT !.remaining[b] = left, !.downloaded = @ + n]
    IN  /\ Downloading(f)
        /\ swarmer.blocks[b] = "Partial"
        /\ left >= 0
        /\ ok \/ corrupt < MaxCorrupt
        /\ corrupt' = IF ok THEN corrupt ELSE corrupt + 1
        /\ good' = [good EXCEPT ![b] = IF ok THEN @ \cup written ELSE @ \ written]
        /\ swarmer' = IF left > 0 THEN s
                      ELSE IF s.verifier[Primary] = "NoVerification"
                      THEN SetVerifiedBlock(s, {b})
                      ELSE SetCompletedBlock(s, {b})
        /\ UNCHANGED <<state, saved, crashes>>

\* verify_some_chunks: the first complete chunk of the first frontend that has one.
VerifyOneChunk(f) ==
    LET waiting(g) == InState(swarmer, g, {"complete"})
    IN  /\ f \in swarmer.networks
        /\ f # Primary => waiting(Primary) = {}
        /\ waiting(f) # {}
        /\ swarmer' = VerifyChunks(swarmer, f, {Min(waiting(f))})
        /\ UNCHANGED <<state, good, saved, corrupt, crashes>>

\* should_download_block: block b is complete, so its chunk of the primary is
\* verified before an uploader is refused the block.
ShouldDownloadBlock(b) ==
    /\ swarmer.vbitmap[b] = "complete"
    /\ swarmer.bitmap[Primary][ChunkOf[Primary][b]] = "complete"
    /\ swarmer' = VerifyChunks(swarmer, Primary, {ChunkOf[Primary][b]})
    /\ UNCHANGED <<state, good, saved, corrupt, crashes>>

\* duplicate_chunks has found a verified chunk with the hash of chunk c of f.
PropagateChunk(f, c) ==
    /\ f \in swarmer.networks
    /\ swarmer.verifier[f] = "Verification"
    /\ swarmer.bitmap[f][c] \in Unfinished
    /\ good' = [b \in Blocks |-> IF b \in BlocksOf(f, c) THEN Bytes(b) ELSE good[b]]
    /\ swarmer' = SetFrontendStateComplete(swarmer, f, {c})
    /\ UNCHANGED <<state, saved, corrupt, crashes>>

\* merge: the primary must verify, and the secondary be alone.
Merge(f) ==
    /\ f \in Secondaries \ swarmer.networks
    /\ ~ Trusting(swarmer, Primary)
    /\ swarmer' = Associate(swarmer, f)
    /\ UNCHANGED <<state, good, saved, corrupt, crashes>>

\* The hashes of f arrive.
SetVerifier(f) ==
    /\ swarmer.verifier[f] = "VerificationNotAvailable"
    /\ swarmer' = SetChunksVerifiedBitmap([swarmer EXCEPT !.verifier[f] = "Verification"],
                                          f, swarmer.bitmap[f])
    /\ UNCHANGED <<state, good, saved, corrupt, crashes>>

\* file_pause, file_queue and file_resume: the user, or force_download_quotas.
Moves == {<<"FileDownloading", "FilePaused">>, <<"FileQueued", "FilePaused">>,
          <<"FileDownloading", "FileQueued">>,
          <<"FileQueued", "FileDownloading">>, <<"FilePaused", "FileDownloading">>}
ChangeState(f) ==
    /\ f \in Pausable
    /\ \E m \in Moves : m[1] = state[f] /\ state' = [state EXCEPT ![f] = m[2]]
    /\ UNCHANGED <<swarmer, good, saved, corrupt, crashes>>

\* Mutant of CheckFinished: chunks that wait for their verification count.
CheckFinishedComplete(f) ==
    /\ Downloading(f)
    /\ InState(swarmer, f, Finished) = Chunks(f)
    /\ state' = [state EXCEPT ![f] = "FileDownloaded"]
    /\ UNCHANGED <<swarmer, good, saved, corrupt, crashes>>

\* The network finds check_finished true and completes the file (file_completed
\* also calls duplicate_chunks, which finds nothing to do in this swarmer).
CheckFinished(f) ==
    /\ Downloading(f)
    /\ InState(swarmer, f, {"verified"}) = Chunks(f)
    /\ state' = [state EXCEPT ![f] = "FileDownloaded"]
    /\ UNCHANGED <<swarmer, good, saved, corrupt, crashes>>

Save ==
    /\ crashes < MaxCrash
    /\ saved' = Image
    /\ UNCHANGED <<swarmer, state, good, corrupt, crashes>>

Restart ==
    /\ crashes < MaxCrash
    /\ crashes' = crashes + 1
    /\ swarmer' = Loaded(saved)
    /\ state' = saved.state
    /\ UNCHANGED <<good, saved, corrupt>>

Next ==
    \/ \E f \in Frontends : \/ \E b \in Blocks : NewBlock(f, b)
                            \/ \E b \in Blocks : \E n \in 1 .. Size[b], ok \in BOOLEAN :
                                  Received(f, b, n, ok)
                            \/ VerifyOneChunk(f)
                            \/ \E c \in Chunks(f) : PropagateChunk(f, c)
                            \/ Merge(f)
                            \/ SetVerifier(f)
                            \/ ChangeState(f)
                            \/ CheckFinished(f)
    \/ \E b \in Blocks : ShouldDownloadBlock(b)
    \/ Save
    \/ Restart

Spec == Init /\ [][Next]_vars

(* The user's recheck of a file: recover_md4s queues everything for the    *)
(* timer, op_file_check verifies at once.  Nothing else in the code takes  *)
(* a verified chunk back, so these steps have a specification of their own.*)
CanRecheck(f) == /\ f \in swarmer.networks
                 /\ swarmer.verifier[Primary] # "NoVerification"
                 /\ swarmer.downloaded <= MaxRecheck

RecoverMd4s(f) ==
    /\ CanRecheck(f)
    /\ swarmer' = VerifyAllChunks(swarmer)
    /\ UNCHANGED <<state, good, saved, corrupt, crashes>>

OpFileCheck(f) ==
    /\ CanRecheck(f)
    /\ swarmer' = VerifyChunks(VerifyAllChunks(swarmer), f, Chunks(f))
    /\ UNCHANGED <<state, good, saved, corrupt, crashes>>

\* The disk loses a byte.
Rot(b) ==
    /\ corrupt < MaxCorrupt
    /\ corrupt' = corrupt + 1
    /\ \E i \in good[b] : good' = [good EXCEPT ![b] = @ \ {i}]
    /\ UNCHANGED <<swarmer, state, saved, crashes>>

NextRecheck ==
    \/ Next
    \/ \E f \in Frontends : RecoverMd4s(f) \/ OpFileCheck(f)
    \/ \E b \in Blocks : Rot(b)

SpecRecheck == Init /\ [][NextRecheck]_vars

-----------------------------------------------------------------------------
(* Properties.                                                             *)

\* Every variable has its type.
TypeOK ==
    /\ IsSwarmer(swarmer)
    /\ state \in [Frontends -> FileStates]
    /\ good \in [Blocks -> SUBSET Nat]
    /\ corrupt \in 0 .. MaxCorrupt
    /\ crashes \in 0 .. MaxCrash

BlockState == [Empty |-> "missing", Partial |-> "partial",
               Complete |-> "complete", Verified |-> "verified"]

\* The swarmer invariants of commonSwarming.ml:262-266: s_verified_bitmap
\* mirrors the constructors of s_blocks.
BitmapFollowsBlocks ==
    \A b \in Blocks : swarmer.vbitmap[b] = BlockState[swarmer.blocks[b]]

\* The counters kept beside the bitmaps are never off, whatever was completed,
\* propagated, thrown away, merged or reloaded: the frontend invariants of
\* commonSwarming.ml:271-277 (chunks that are complete or verified, and verified),
\* and the size that is reported as downloaded is what the blocks hold (965).
CountersAgree ==
    /\ \A f \in swarmer.networks :
          /\ swarmer.ncomplete[f] = Cardinality(InState(swarmer, f, Finished))
          /\ swarmer.nverified[f] = Cardinality(InState(swarmer, f, {"verified"}))
    /\ swarmer.downloaded = Sum([b \in Blocks |-> Size[b] - swarmer.remaining[b]], Blocks)

\* check_swarmer 3303-3311, and what verify_chunk relies on: the chunks of the
\* primary are verified when their blocks are, and complete only over complete
\* blocks.
PrimaryAgrees ==
    swarmer.verifier[Primary] # "NoVerification" =>
    \A c \in Chunks(Primary), b \in Blocks :
        b \in BlocksOf(Primary, c) =>
            /\ swarmer.bitmap[Primary][c] = "verified" <=> swarmer.blocks[b] = "Verified"
            /\ swarmer.bitmap[Primary][c] = "complete" => swarmer.blocks[b] = "Complete"

\* check_swarmer 3319-3331: a secondary has nothing complete or verified that
\* the primary has not verified.
SecondaryBehindPrimary ==
    \A f \in swarmer.networks \ {Primary}, b \in Blocks :
        swarmer.bitmap[f][ChunkOf[f][b]] \in Finished => swarmer.blocks[b] = "Verified"

\* The assertions of set_frontend_state_missing never fail.
NoAssertFails == swarmer.asserts = {}

Hashing(f) ==
    swarmer.verifier[f] \in {"Verification", "FileVerification", "VerificationNotAvailable"}

\* Bytes that are wrong are never tagged verified, in any frontend, before or
\* after a restart (the disk itself does not rot here).
VerifiedIsGood ==
    Hashing(Primary) =>
        \A f \in swarmer.networks, b \in Blocks :
            swarmer.bitmap[f][ChunkOf[f][b]] = "verified" => good[b] = Bytes(b)

\* A file is reported downloaded only when every byte of it is right.
DownloadedFileIsGood ==
    Hashing(Primary) =>
        \A f \in Frontends, b \in Blocks : state[f] = "FileDownloaded" => good[b] = Bytes(b)

\* Even when the user rechecks files and the disk rots, a block becomes verified
\* only over right bytes (restarts bring back what was saved).
VerifiedByHash ==
    [][\A b \in Blocks :
          swarmer'.blocks[b] = "Verified" /\ swarmer.blocks[b] # "Verified" /\ crashes' = crashes =>
              good[b] = Bytes(b)]_vars

\* Bytes that were downloaded are thrown away only by a restart, or because a
\* chunk that holds them was complete and its hash (the only one of the file
\* for FileVerification) was wrong.
OnlyBadDataIsLost ==
    [][\A b \in Blocks :
          swarmer'.remaining[b] > swarmer.remaining[b] /\ crashes' = crashes =>
              \E f \in swarmer.networks :
                 /\ swarmer.bitmap[f][ChunkOf[f][b]] = "complete"
                 /\ \E c \in Chunks(f) :
                       /\ c = ChunkOf[f][b] \/ swarmer.verifier[f] = "FileVerification"
                       /\ ~ HashOk(f, c)]_vars

Ledger == INSTANCE ChunkLedger WITH
    Ids <- Chunks(Primary),
    status <- [c \in Chunks(Primary) |->
                 CASE swarmer.bitmap[Primary][c] = "verified" -> "verified"
                   [] swarmer.bitmap[Primary][c] = "complete" -> "claimed"
                   [] OTHER -> "open"],
    right <- [c \in Chunks(Primary) |-> HashOk(Primary, c)],
    done <- (state[Primary] = "FileDownloaded")

\* The swarmer implements the ledger, for a primary that verifies by hash.
ImplementsLedger == Ledger!Spec

-----------------------------------------------------------------------------
(* Progress.  The environment is fair: uploaders deliver right bytes again  *)
(* and again, the user resumes a paused file.  The timer and the network    *)
(* call verify_one_chunk and check_finished again and again.                *)

(* Weak and strong fairness are spelled out with the guard of the action in *)
(* place of ENABLED, which TLC would take minutes to evaluate here: every   *)
(* action below changes the state whenever its guard holds.                 *)
Fairness ==
    /\ \A b \in Blocks :
          /\ \/ <>[] ~ (/\ Downloading(Primary) /\ swarmer.blocks[b] = "Empty"
                       /\ swarmer.vbitmap[b] \in Unfinished)
             \/ []<><<NewBlock(Primary, b)>>_vars
          /\ \/ <>[] ~ (Downloading(Primary) /\ swarmer.blocks[b] = "Partial")
             \/ []<><<\E n \in 1 .. Size[b] : Received(Primary, b, n, TRUE)>>_vars
    /\ \/ []<> (InState(swarmer, Primary, {"complete"}) = {})
       \/ []<><<VerifyOneChunk(Primary)>>_vars
    /\ []<> (state[Primary] \notin {"FilePaused", "FileQueued"})
    /\ \/ <>[] ~ (Downloading(Primary) /\ InState(swarmer, Primary, {"verified"}) = Chunks(Primary))
       \/ []<><<CheckFinished(Primary)>>_vars

FairSpec == Spec /\ Fairness

\* However often blocks arrive damaged, chunks fail and are fetched again, or
\* the daemon restarts, the file of the primary is completed in the end.
EventuallyDownloaded == <>(state[Primary] = "FileDownloaded")

=============================================================================
