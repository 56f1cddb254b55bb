--------------------------- MODULE SwarmerRanges ---------------------------
(***************************************************************************)
(* The transfer half of commonSwarming.ml: how the missing bytes of a file *)
(* are handed out to uploaders and filled in.                              *)
(*                                                                         *)
(* A PartialBlock owns a list of ranges, its holes.  An uploader selects   *)
(* blocks (find_blocks), then ranges in them (find_range, which merges and *)
(* splits ranges), and the data it sends removes bytes from the beginning  *)
(* of the ranges it holds.  Several uploaders may hold one range; a block  *)
(* may be completed under them (propagate_chunk), fail its verification,   *)
(* and be started again while they still hold its old block and ranges.    *)
(* Blocks and ranges are mutable, shared and compared by identity in the   *)
(* code, so they are objects of a heap here: s.obj and s.range.            *)
(*                                                                         *)
(* Verification is reduced to its outcome (SwarmerVerification has the     *)
(* rest); the ranking of blocks in select_blocks to any choice it can make.*)
(* file_state decides only whether these calls do anything; as no call is  *)
(* ever bound to happen, it is left out.                                   *)
(***************************************************************************)
EXTENDS Integers, Sequences, FiniteSets, SequencesExt, FiniteSetsExt

CONSTANTS
    FileSize,     \* s_size
    InitPos,      \* s_block_pos before a merge
    Uploaders,    \* the uploaders (up_client)
    ChunkSize,    \* t_chunk_size of the frontend that verifies, the uploaders' one
    RangeSize,    \* RangeSize[u]: the range_size its network asks for
    Offers,       \* Offers[u]: what an uploader may declare to have
    MergeSize,    \* t_chunk_size of a frontend to merge
    ObjIds,       \* identities for block objects
    RangeIds,     \* identities for ranges
    MaxFail       \* bound on the chunks that fail their verification

ASSUME SizesAssumption ==
    /\ FileSize \in Nat \ {0} /\ MergeSize \in Nat \ {0}
    /\ RangeSize \in [Uploaders -> Nat \ {0}] /\ ChunkSize \in Nat \ {0}

\* The blocks of a file that is not empty begin one after the other, from 0.
ASSUME PosAssumption ==
    /\ InitPos \in Seq(0 .. FileSize - 1) /\ Len(InitPos) > 0 /\ InitPos[1] = 0
    /\ \A i, j \in DOMAIN InitPos : i < j => InitPos[i] < InitPos[j]

ASSUME OffersAssumption ==
    \A u \in Uploaders : Offers[u] \subseteq [bitv : BOOLEAN, from : Nat, to : Nat]

\* 0 is the identity of no object.
ASSUME IdsAssumption == ObjIds \subseteq Nat \ {0} /\ RangeIds \subseteq Nat \ {0}

ASSUME UploadersAssumption == IsFiniteSet(Uploaders)

ASSUME BoundAssumption == MaxFail \in Nat

VARIABLES
    swarmer,  \* blocks, ranges and counters of the swarmer
    up,       \* the uploaders
    disk,     \* external: the bytes written and not thrown away since
    fails     \* bound: chunks that failed so far

vars == <<swarmer, up, disk, fails>>

(* The fields of a swarmer s:                                              *)
(*   s.pos         s_block_pos                                             *)
(*   s.blocks      s_blocks: kind, and the object of a PartialBlock        *)
(*   s.obj         the block objects; chain lists block_ranges             *)
(*   s.remaining, s.unselected    their block_remaining and                *)
(*                 block_unselected_remaining                              *)
(*   s.range       the ranges; nup is range_nuploading                     *)
(*   s.nuploading  s_nuploading                                            *)
NoObj == [num |-> 0, from |-> 0, to |-> 0, chain |-> <<>>]
NoRange == [from |-> 0, to |-> 0, nup |-> 0, owner |-> 0]
Kinds == {"Empty", "Partial", "Complete", "Verified"}

Block(kind, o) == [kind |-> kind, obj |-> o]
BlockEnd(s, b) == IF b = Len(s.pos) THEN FileSize ELSE s.pos[b + 1]
BytesOf(s, b) == s.pos[b] .. BlockEnd(s, b) - 1
ChunkOf(s, b) == s.pos[b] \div ChunkSize
Length(s, r) == s.range[r].to - s.range[r].from
Bytes(s, R) == UNION {s.range[r].from .. s.range[r].to - 1 : r \in R}
Size(s, R) == Cardinality(Bytes(s, R))  \* the sum of their sizes: they do not overlap
Held(u) == ToSet(up[u].ranges)
Downloadable(s, b) == s.blocks[b].kind \in {"Empty", "Partial"}

\* Objects that nothing points to any more are reclaimed.
Collect(s, ups) ==
    LET held == UNION {ToSet(ups[u].ranges) : u \in Uploaders}
        objs == {s.blocks[b].obj : b \in DOMAIN s.blocks} \cup {s.range[r].owner : r \in held}
                \cup UNION {{e.obj : e \in ToSet(ups[u].blocks)} : u \in Uploaders}
        used == held \cup UNION {ToSet(s.obj[o].chain) : o \in objs \ {0}}
    IN  [s EXCEPT !.obj = [o \in ObjIds |-> IF o \in objs THEN @[o] ELSE NoObj],
                  !.remaining = [o \in ObjIds |-> IF o \in objs THEN @[o] ELSE 0],
                  !.unselected = [o \in ObjIds |-> IF o \in objs THEN @[o] ELSE 0],
                  !.range = [r \in RangeIds |-> IF r \in used THEN @[r] ELSE NoRange]]

\* Any identity that is not in use would do for a new object; the offset where it
\* begins tells which one is taken.  Bound: what would begin at an offset for which
\* no identity is left does not happen.
FreeObjs(s, from) == {o \in ObjIds : s.obj[o] = NoObj /\ o % FileSize = from}
FreeRanges(s, from) == {r \in RangeIds : s.range[r] = NoRange /\ r % FileSize = from}
FreshObj(s, from) == CHOOSE o \in ObjIds : o \in FreeObjs(s, from)
FreshRange(s, from) == CHOOSE r \in RangeIds : r \in FreeRanges(s, from)

\* The list without the ranges of S.
Without(list, S) ==
    LET kept[i \in 0 .. Len(list)] ==
          IF i = 0 THEN <<>>
          ELSE IF list[i] \in S THEN kept[i - 1] ELSE Append(kept[i - 1], list[i])
    IN  kept[Len(list)]

-----------------------------------------------------------------------------
(* Blocks and ranges.                                                      *)

\* new_block, for empty blocks B: one hole, the whole block.
Started(s, B) ==
    LET obj(b) == FreshObj(s, s.pos[b])
        hole(b) == FreshRange(s, s.pos[b])
        objOf(o) == CHOOSE b \in B : obj(b) = o
        holeOf(r) == CHOOSE b \in B : hole(b) = r
        objs == {obj(b) : b \in B}
        size(b) == BlockEnd(s, b) - s.pos[b]
    IN  [s EXCEPT
           !.blocks = [b \in DOMAIN s.pos |-> IF b \in B THEN Block("Partial", obj(b))
                                              ELSE s.blocks[b]],
           !.obj = [o \in ObjIds |->
                      IF o \in objs
                      THEN [num |-> objOf(o), from |-> s.pos[objOf(o)],
                            to |-> BlockEnd(s, objOf(o)), chain |-> <<hole(objOf(o))>>]
                      ELSE s.obj[o]],
           !.remaining = [o \in ObjIds |-> IF o \in objs THEN size(objOf(o)) ELSE @[o]],
           !.unselected = [o \in ObjIds |-> IF o \in objs THEN size(objOf(o)) ELSE @[o]],
           !.range = [r \in RangeIds |->
                        IF r \in {hole(b) : b \in B}
                        THEN [from |-> s.pos[holeOf(r)], to |-> BlockEnd(s, holeOf(r)),
                              nup |-> 0, owner |-> obj(holeOf(r))]
                        ELSE s.range[r]]]

\* Mutant of Completed: the ranges are unlinked but left open.
CompletedOpen(s, B) ==
    [s EXCEPT !.blocks = [b \in DOMAIN s.pos |->
                            IF b \in B /\ Downloadable(s, b) THEN Block("Complete", 0) ELSE @[b]]]

\* set_completed_block, for the blocks B, with close_block_ranges.
Completed(s, B) ==
    LET objs == {s.blocks[b].obj : b \in B} \ {0}
        closed == UNION {ToSet(s.obj[o].chain) : o \in objs}
    IN  [s EXCEPT
           !.blocks = [b \in DOMAIN s.pos |->
                         IF b \in B /\ Downloadable(s, b) THEN Block("Complete", 0) ELSE s.blocks[b]],
           !.range = [r \in RangeIds |-> IF r \in closed
                                         THEN [s.range[r] EXCEPT !.from = s.range[r].to]
                                         ELSE s.range[r]],
           !.obj = [o \in ObjIds |-> IF o \in objs THEN [s.obj[o] EXCEPT !.chain = <<>>]
                                     ELSE s.obj[o]],
           !.remaining = [o \in ObjIds |-> IF o \in objs THEN 0 ELSE @[o]],
           !.unselected = [o \in ObjIds |-> IF o \in objs THEN 0 ELSE @[o]]]

\* The data before the offset to arrives in the ranges R; those that are over are
\* unlinked.
Filled(s, R, to) ==
    LET over == {r \in R : s.range[r].to <= to}
        got(o, Q) == Cardinality(Bytes(s, {r \in Q : s.range[r].owner = o}) \cap (0 .. to - 1))
    IN  [s EXCEPT
           !.range = [r \in RangeIds |->
                        IF r \in R THEN [s.range[r] EXCEPT !.from = Min({to, s.range[r].to})]
                        ELSE s.range[r]],
           !.obj = [o \in ObjIds |-> [s.obj[o] EXCEPT !.chain = Without(s.obj[o].chain, over)]],
           !.remaining = [o \in ObjIds |-> @[o] - got(o, R)],
           !.unselected = [o \in ObjIds |-> @[o] - got(o, {r \in R : s.range[r].nup = 0})]]

\* range_received: with its last range a block is complete.
RangesReceived(s, R, to) ==
    LET t == Filled(s, R, to)
        last == {r \in R : s.range[r].to <= to /\ t.obj[s.range[r].owner].chain = <<>>}
    IN  Completed(t, {s.obj[s.range[r].owner].num : r \in last})

\* merge_ranges: the range at place i of o grows over those that follow it up to
\* place m, which disappear.
MergeRanges(s, o, i, m) ==
    LET chain == s.obj[o].chain
    IN  [s EXCEPT !.range[chain[i]].to = s.range[chain[m]].to,
                  !.obj[o].chain = SubSeq(chain, 1, i) \o SubSeq(chain, m + 1, Len(chain))]

Splits(s, r, cut) == s.range[r].from < cut /\ cut < s.range[r].to

\* split_range, of the range at place i of o: the right half is nobody's.
SplitRange(s, o, i, cut) ==
    LET chain == s.obj[o].chain
        right == FreshRange(s, cut)
    IN  IF Splits(s, chain[i], cut)
        THEN [s EXCEPT !.range = [s.range EXCEPT
                                     ![chain[i]].to = cut,
                                     ![right] = [s.range[chain[i]] EXCEPT !.from = cut, !.nup = 0]],
                       !.obj[o].chain = InsertAt(chain, i + 1, right)]
        ELSE s

LessOne(s, R) ==
    [r \in RangeIds |-> IF r \in R /\ s.range[r].nup > 0
                        THEN [s.range[r] EXCEPT !.nup = @ - 1] ELSE s.range[r]]

\* Mutant of Release: what is left of the ranges is not unselected.
ReleaseLost(s, R) == [s EXCEPT !.range = LessOne(s, R)]

\* The uploader releases the ranges R: those nobody holds now are unselected.
Release(s, R) ==
    LET free == {r \in R : s.range[r].nup <= 1}
    IN  [s EXCEPT !.range = LessOne(s, R),
                  !.unselected = [o \in ObjIds |-> @[o] + Size(s, {r \in free : s.range[r].owner = o})]]

Over(s, R) == {r \in R : s.range[r].from >= s.range[r].to}
Opened(s, list) == Without(list, Over(s, ToSet(list)))

\* s_nuploading loses one for each block that u has selected.
Unselect(s, u) ==
    LET n(b) == Cardinality({i \in DOMAIN up[u].blocks : s.obj[up[u].blocks[i].obj].num = b})
    IN  [s EXCEPT !.nuploading = [b \in DOMAIN s.pos |-> Max({0, s.nuploading[b] - n(b)})]]

-----------------------------------------------------------------------------
(* Uploaders.                                                              *)

NoUploader == [declared |-> FALSE, complete |-> <<>>, partial |-> <<>>,
               blocks |-> <<>>, ranges |-> <<>>]

Within(s, b, o) == s.pos[b] >= o.from /\ BlockEnd(s, b) <= o.to
Meets(s, b, o) == s.pos[b] < o.to /\ o.from < BlockEnd(s, b)

\* The lists of the elements of S in the order "before".
Sorted(S, before(_, _)) ==
    {list \in [1 .. Cardinality(S) -> S] : \A i, j \in DOMAIN list : i < j => before(list[i], list[j])}

(* The array of the blocks an uploader has.  From intervals (AvailableInt- *)
(* ervals) it is in reverse order, without the blocks that are complete;   *)
(* from a bitmap (AvailableBitv), chunks are in reverse order but the      *)
(* blocks inside a chunk are not.                                          *)
CompleteBlocks(s, o) ==
    LET before(a, b) == IF o.bitv /\ ChunkOf(s, a) = ChunkOf(s, b) THEN a < b ELSE a > b
    IN  Sorted({b \in DOMAIN s.pos : Within(s, b, o) /\ (o.bitv \/ Downloadable(s, b))}, before)

PartialBlocks(s, o) ==
    LET part == {b \in DOMAIN s.pos :
                   ~ o.bitv /\ Downloadable(s, b) /\ Meets(s, b, o) /\ ~ Within(s, b, o)}
        entry(b) == [num |-> b, from |-> Max({s.pos[b], o.from}), to |-> Min({BlockEnd(s, b), o.to})]
    IN  Sorted({entry(b) : b \in part}, LAMBDA e, f : e.num > f.num)

\* register_uploader, and update_uploader_intervals after clear_uploader_intervals.
Declare(u, o) ==
    /\ ~ up[u].declared
    /\ \E complete \in CompleteBlocks(swarmer, o), partial \in PartialBlocks(swarmer, o) :
          up' = [up EXCEPT ![u] = [@ EXCEPT !.declared = TRUE, !.blocks = <<>>,
                                            !.complete = complete, !.partial = partial]]
    /\ UNCHANGED <<swarmer, disk, fails>>

\* clear_uploader_intervals: a peer chokes us, or declares other blocks.  The
\* ranges stay selected.
ClearUploaderIntervals(u) ==
    /\ up[u].declared
    /\ up' = [up EXCEPT ![u] = [NoUploader EXCEPT !.ranges = up[u].ranges]]
    /\ swarmer' = Collect(Unselect(swarmer, u), up')
    /\ UNCHANGED <<disk, fails>>

\* clear_uploader_ranges: the peer closes our slot.
ClearUploaderRanges(u) ==
    /\ up[u].ranges # <<>>
    /\ up' = [up EXCEPT ![u].ranges = <<>>]
    /\ swarmer' = Collect(Release(swarmer, Held(u)), up')
    /\ UNCHANGED <<disk, fails>>

\* unregister_uploader: the peer disconnects.
UnregisterUploader(u) ==
    /\ up[u] # NoUploader
    /\ up' = [up EXCEPT ![u] = NoUploader]
    /\ swarmer' = Collect(Release(IF up[u].declared THEN Unselect(swarmer, u) ELSE swarmer,
                                  Held(u)), up')
    /\ UNCHANGED <<disk, fails>>

-----------------------------------------------------------------------------
(* find_blocks.                                                            *)

\* The indices of up_complete_blocks that select_blocks may return: blocks of one
\* chunk with only blocks to skip between them, the last first.
BlockChoices(s, u) ==
    LET list == up[u].complete
        idx == {i \in DOMAIN list : Downloadable(s, list[i])}
        run(i) == {k \in idx : \A j \in idx : (j \in i .. k \/ j \in k .. i) =>
                       ChunkOf(s, list[j]) = ChunkOf(s, list[i])}
    IN  UNION {Sorted(run(i), >) : i \in idx}

\* permute_and_return: element i leaves the array, the last one takes its place.
Permute(list, i) == SubSeq([list EXCEPT ![i] = list[Len(list)]], 1, Len(list) - 1)

Permuted(list, choice) ==
    LET left[k \in 0 .. Len(choice)] == IF k = 0 THEN list ELSE Permute(left[k - 1], choice[k])
    IN  left[Len(choice)]

WholeBlock(s, b) == [num |-> b, from |-> s.pos[b], to |-> BlockEnd(s, b)]

\* u selects the given parts of blocks, of which the empty ones become partial, and
\* goes on with the blocks of complete and partial.
Select(u, parts, complete, partial) ==
    LET nums == {parts[i].num : i \in DOMAIN parts}
        s == Unselect(swarmer, u)
        new == {b \in nums : s.blocks[b].kind = "Empty"}
        t == Started(s, new)
        entries == [i \in DOMAIN parts |-> [obj |-> t.blocks[parts[i].num].obj,
                                            from |-> parts[i].from, to |-> parts[i].to]]
    IN  /\ \A b \in new : FreeObjs(s, s.pos[b]) # {} /\ FreeRanges(s, s.pos[b]) # {}
        /\ up' = [up EXCEPT ![u].blocks = entries, ![u].complete = complete, ![u].partial = partial]
        /\ swarmer' = Collect([t EXCEPT !.nuploading = [b \in DOMAIN s.pos |->
                                            IF b \in nums THEN @[b] + 1 ELSE @[b]]], up')

FindBlocks(u) ==
    /\ up[u].declared
    /\ \E choice \in BlockChoices(swarmer, u) :
          Select(u, [i \in DOMAIN choice |-> WholeBlock(swarmer, up[u].complete[choice[i]])],
                 Permuted(up[u].complete, choice), up[u].partial)
    /\ UNCHANGED <<disk, fails>>

\* Place i has the last block of the list that is to be downloaded; 0: none is.
LastToDo(s, nums, i) ==
    /\ i > 0 => Downloadable(s, nums[i])
    /\ \A k \in i + 1 .. Len(nums) : ~ Downloadable(s, nums[k])

\* linear_select_blocks takes the last block to download, and forgets those it
\* skips; the blocks the uploader has only in part come after the others.
FindBlocksLinear(u) ==
    LET list == up[u].complete
        part == up[u].partial
    IN  /\ up[u].declared
        /\ \E i \in 0 .. Len(list), j \in 0 .. Len(part) :
              /\ LastToDo(swarmer, list, i)
              /\ LastToDo(swarmer, [k \in DOMAIN part |-> part[k].num], j)
              /\ \/ i > 0 /\ Select(u, <<WholeBlock(swarmer, list[i])>>, SubSeq(list, 1, i - 1), part)
                 \/ i = 0 /\ j > 0 /\ Select(u, <<part[j]>>, <<>>, SubSeq(part, 1, j - 1))
                 \/ i = 0 /\ j = 0 /\ Select(u, <<>>, <<>>, <<>>)
        /\ UNCHANGED <<disk, fails>>

-----------------------------------------------------------------------------
(* find_range.                                                             *)

\* Mutant of Open: ranges the uploader already holds are not excluded.
OpenAny(s, u, e, r) ==
    /\ s.range[r].from < s.range[r].to
    /\ s.range[r].from >= e.from /\ s.range[r].from < e.to

\* correct_range: range r can be asked from u, which has selected [e.from, e.to).
Open(s, u, e, r) ==
    /\ r \notin Held(u)
    /\ s.range[r].from < s.range[r].to
    /\ s.range[r].from >= e.from /\ s.range[r].from < e.to

\* The open ranges of the selected blocks: [entry of up_blocks, place in its chain].
Chain(s, u, k) == s.obj[up[u].blocks[k].obj].chain
Places(s, u) ==
    UNION {{<<k, i>> : i \in {j \in DOMAIN Chain(s, u, k) :
                                Open(s, u, up[u].blocks[k], Chain(s, u, k)[j])}} :
             k \in DOMAIN up[u].blocks}
RangeAt(s, u, p) == Chain(s, u, p[1])[p[2]]
Earlier(p, q) == p[1] < q[1] \/ (p[1] = q[1] /\ p[2] < q[2])

\* find_range settles for place p: the first free range, or else the last
\* among those with the fewest uploaders.
Best(s, u, p) ==
    LET nup(q) == s.range[RangeAt(s, u, q)].nup
        others == Places(s, u) \ {p}
    IN  IF nup(p) = 0 THEN \A q \in others : nup(q) = 0 => Earlier(p, q)
        ELSE \A q \in others : nup(p) < nup(q) \/ (nup(p) = nup(q) /\ Earlier(q, p))

\* The range at place j of the chain goes on with the cluster that begins at p.
Joins(s, u, p, j) ==
    LET r == s.range[Chain(s, u, p[1])[j]]
    IN  /\ Open(s, u, up[u].blocks[p[1]], Chain(s, u, p[1])[j])
        /\ r.nup = 0
        /\ r.from = s.range[Chain(s, u, p[1])[j - 1]].to
        /\ r.from - s.range[RangeAt(s, u, p)].from < RangeSize[u]

\* The cluster is the places from p to m.
ClusterEnd(s, u, p, m) ==
    /\ m >= p[2]
    /\ \A j \in p[2] + 1 .. m : Joins(s, u, p, j)
    /\ m < Len(Chain(s, u, p[1])) => ~ Joins(s, u, p, m + 1)

\* Only ranges that others download are left in the selected blocks, and there is
\* a better block: find_range gives up.
BetterElsewhere(s, u) ==
    /\ 100 * Cardinality(disk) < 98 * FileSize
    /\ \E b \in ToSet(up[u].complete) :
          /\ \A e \in ToSet(up[u].blocks) : s.obj[e.obj].num # b
          /\ \/ s.blocks[b].kind = "Empty"
             \/ s.blocks[b].kind = "Partial" /\ s.unselected[s.blocks[b].obj] > 0

\* find_range gives up on place p: it has only a bad choice.
GivesUp(s, u, p) == s.range[RangeAt(s, u, p)].nup > 0 /\ BetterElsewhere(s, u)

\* remove_completed_uploader_ranges
Cleaned(s, u) == Release(s, Over(s, Held(u)))

\* Mutant of FindRange: a range that is already selected is counted again.
FindRangeTwice(u) ==
    LET s == Cleaned(swarmer, u)
    IN  /\ \E p \in Places(s, u) : \E m \in DOMAIN Chain(s, u, p[1]) :
              LET o == up[u].blocks[p[1]].obj
                  r == RangeAt(s, u, p)
                  stop == IF s.range[r].nup = 0 THEN up[u].blocks[p[1]]
                          ELSE up[u].blocks[Len(up[u].blocks)]
                  cut == Min({s.range[r].from + RangeSize[u], stop.to})
                  merged == MergeRanges(s, o, p[2], m)
                  t == SplitRange(merged, o, p[2], cut)
                  n == Length(t, r)
              IN  /\ Best(s, u, p)
                  /\ ~ GivesUp(s, u, p)
                  /\ ClusterEnd(s, u, p, m)
                  /\ Splits(merged, r, cut) => FreeRanges(merged, cut) # {}
                  /\ up' = [up EXCEPT ![u].ranges = Append(Opened(s, @), r)]
                  /\ swarmer' = Collect([t EXCEPT !.range[r].nup = @ + 1,
                                                  !.unselected[t.range[r].owner] = @ - n], up')
        /\ UNCHANGED <<disk, fails>>

\* find_range: merge, split and select a range.  The end of the block bounds it:
\* of the block where the search has stopped.
FindRange(u) ==
    LET s == Cleaned(swarmer, u)
    IN  /\ \E p \in Places(s, u) : \E m \in DOMAIN Chain(s, u, p[1]) :
              LET o == up[u].blocks[p[1]].obj
                  r == RangeAt(s, u, p)
                  stop == IF s.range[r].nup = 0 THEN up[u].blocks[p[1]]
                          ELSE up[u].blocks[Len(up[u].blocks)]
                  cut == Min({s.range[r].from + RangeSize[u], stop.to})
                  merged == MergeRanges(s, o, p[2], m)
                  t == SplitRange(merged, o, p[2], cut)
                  n == IF t.range[r].nup = 0 THEN Length(t, r) ELSE 0
              IN  /\ Best(s, u, p)
                  /\ ~ GivesUp(s, u, p)
                  /\ ClusterEnd(s, u, p, m)
                  /\ Splits(merged, r, cut) => FreeRanges(merged, cut) # {}
                  /\ up' = [up EXCEPT ![u].ranges = Append(Opened(s, @), r)]
                  /\ swarmer' = Collect([t EXCEPT !.range[r].nup = @ + 1,
                                                  !.unselected[t.range[r].owner] = @ - n], up')
        /\ UNCHANGED <<disk, fails>>

\* find_range finds nothing.
FindNoRange(u) ==
    LET s == Cleaned(swarmer, u)
    IN  /\ \A p \in Places(s, u) : Best(s, u, p) => GivesUp(s, u, p)
        /\ up' = [up EXCEPT ![u].ranges = Opened(s, @)]
        /\ swarmer' = Collect(s, up')
        /\ UNCHANGED <<disk, fails>>

-----------------------------------------------------------------------------
(* received.                                                               *)

\* Mutant of Takers: data that begins inside a range is taken for its beginning.
TakersOverlap(s, R, from, to) ==
    {r \in R : from < s.range[r].to /\ s.range[r].from < Min({to, s.range[r].to})}

\* The ranges of R that take some of the data [from, to): it has their beginning.
Takers(s, R, from, to) ==
    {r \in R : from <= s.range[r].from /\ s.range[r].from < Min({to, s.range[r].to})}

\* The bytes that u is to send; what else it sends is dismissed.
HeldBytes(u) == Bytes(swarmer, Held(u))

\* u sends the bytes [from, to); writing them fails after k of its ranges.
Received(u, from, to, k) ==
    LET R == Takers(swarmer, {up[u].ranges[i] : i \in 1 .. k}, from, to)
        s == RangesReceived(swarmer, R, to)
    IN  /\ disk' = disk \cup (Bytes(swarmer, R) \cap (from .. to - 1))
        /\ up' = [up EXCEPT ![u].ranges = Opened(s, @)]
        /\ swarmer' = Collect(Release(s, Over(s, Held(u))), up')
        /\ UNCHANGED fails

-----------------------------------------------------------------------------
(* The rest of the swarmer, as far as it touches blocks and ranges.        *)

PrimaryChunk(s, c) == {b \in DOMAIN s.pos : ChunkOf(s, b) = c}
PrimaryChunks == {ChunkOf(swarmer, b) : b \in DOMAIN swarmer.blocks}

\* verify_chunk: the chunk is right, or all its blocks are empty again.
VerifyChunk(c, ok) ==
    /\ \A b \in PrimaryChunk(swarmer, c) : swarmer.blocks[b].kind = "Complete"
    /\ ok \/ fails < MaxFail
    /\ fails' = IF ok THEN fails ELSE fails + 1
    /\ swarmer' = [swarmer EXCEPT !.blocks = [b \in DOMAIN @ |->
                     IF b \in PrimaryChunk(swarmer, c)
                     THEN Block(IF ok THEN "Verified" ELSE "Empty", 0) ELSE @[b]]]
    /\ disk' = IF ok THEN disk
               ELSE disk \ UNION {BytesOf(swarmer, b) : b \in PrimaryChunk(swarmer, c)}
    /\ UNCHANGED up

\* propagate_chunk has copied the chunk from elsewhere.
PropagateChunk(c) ==
    LET todo == {b \in PrimaryChunk(swarmer, c) : Downloadable(swarmer, b)}
    IN  /\ todo # {}
        /\ swarmer' = Collect(Completed(swarmer, todo), up)
        /\ disk' = disk \cup UNION {BytesOf(swarmer, b) : b \in todo}
        /\ UNCHANGED <<up, fails>>

Init ==
    /\ swarmer = [pos |-> InitPos, blocks |-> [b \in DOMAIN InitPos |-> Block("Empty", 0)],
                  obj |-> [o \in ObjIds |-> NoObj], remaining |-> [o \in ObjIds |-> 0],
                  unselected |-> [o \in ObjIds |-> 0], range |-> [r \in RangeIds |-> NoRange],
                  nuploading |-> [b \in DOMAIN InitPos |-> 0]]
    /\ up = [u \in Uploaders |-> NoUploader]
    /\ disk = {}
    /\ fails = 0

Next ==
    \/ \E u \in Uploaders :
          \/ \E o \in Offers[u] : Declare(u, o)
          \/ ClearUploaderIntervals(u)
          \/ ClearUploaderRanges(u)
          \/ UnregisterUploader(u)
          \/ FindBlocks(u)
          \/ FindBlocksLinear(u)
          \/ FindRange(u)
          \/ FindNoRange(u)
          \/ \E from, last \in HeldBytes(u), k \in DOMAIN up[u].ranges :
                from <= last /\ Received(u, from, last + 1, k)
    \/ \E c \in PrimaryChunks : \/ \E ok \in BOOLEAN : VerifyChunk(c, ok)
                                \/ PropagateChunk(c)

Spec == Init /\ [][Next]_vars

-----------------------------------------------------------------------------
(* merge of a frontend with chunks of MergeSize: split_blocks.             *)

\* The kind of a partial block that was cut, by the ranges it is left with.
CutKind(s, o) ==
    CASE s.obj[o].chain = <<>> -> Block("Complete", 0)
      [] s.obj[o].chain # <<>> /\ Size(s, ToSet(s.obj[o].chain)) = s.obj[o].to - s.obj[o].from ->
            Block("Empty", 0)
      [] OTHER -> Block("Partial", o)

\* cut_ranges_after: object o keeps the ranges before cut, a new one gets the rest;
\* a range across the cut becomes two, both with its range_nuploading.
CutObject(s, o, cut) ==
    LET chain == s.obj[o].chain
        right == SelectSeq(chain, LAMBDA r : s.range[r].from >= cut)
        across == {r \in ToSet(chain) : s.range[r].from < cut /\ cut < s.range[r].to}
        new == FreshRange(s, cut)
        o2 == FreshObj(s, cut)
        after == (IF across = {} THEN <<>> ELSE <<new>>) \o right
    IN  [s EXCEPT
           !.range = [r \in RangeIds |->
              CASE r \in across -> [@[r] EXCEPT !.to = cut]
                [] r \in ToSet(right) -> [@[r] EXCEPT !.owner = o2]
                [] r = new /\ across # {} -> [s.range[CHOOSE x \in across : TRUE]
                                                 EXCEPT !.from = cut, !.owner = o2]
                [] OTHER -> @[r]],
           !.obj[o] = [@ EXCEPT !.to = cut,
                                !.chain = SelectSeq(@, LAMBDA r : s.range[r].from < cut)],
           !.obj[o2] = [num |-> 1, from |-> cut, to |-> s.obj[o].to, chain |-> after]]

\* One block is cut in two at the offset cut.
SplitAt(s, cut) ==
    IF \E b \in DOMAIN s.pos : s.pos[b] = cut THEN s ELSE
    LET b == CHOOSE k \in DOMAIN s.blocks : s.pos[k] < cut /\ cut < BlockEnd(s, k)
        o == s.blocks[b].obj
        o2 == FreshObj(s, cut)
        t == IF s.blocks[b].kind = "Partial" THEN CutObject(s, o, cut) ELSE s
        left == IF s.blocks[b].kind = "Partial" THEN CutKind(t, o) ELSE s.blocks[b]
        right == IF s.blocks[b].kind = "Partial" THEN CutKind(t, o2) ELSE s.blocks[b]
    IN  [t EXCEPT !.pos = InsertAt(@, b + 1, cut),
                  !.blocks = InsertAt([@ EXCEPT ![b] = left], b + 1, right)]

\* The partial blocks are numbered and their counters computed again: as the block
\* size less the sizes of the ranges.
Renumbered(s) ==
    LET partial == {b \in DOMAIN s.blocks : s.blocks[b].kind = "Partial"}
        of(o) == CHOOSE b \in partial : s.blocks[b].obj = o
        left(o, R) == BlockEnd(s, of(o)) - s.pos[of(o)] - Size(s, R)
        is(o) == \E b \in partial : s.blocks[b].obj = o
    IN  [s EXCEPT
           !.nuploading = [b \in DOMAIN s.blocks |-> 0],
           !.obj = [o \in ObjIds |-> IF is(o) THEN [@[o] EXCEPT !.num = of(o)] ELSE @[o]],
           !.remaining = [o \in ObjIds |-> IF is(o) THEN left(o, ToSet(s.obj[o].chain)) ELSE @[o]],
           !.unselected = [o \in ObjIds |->
              IF is(o) THEN left(o, {r \in ToSet(s.obj[o].chain) : s.range[r].nup = 0}) ELSE @[o]]]

Cuts == {x \in 1 .. FileSize - 1 : x % MergeSize = 0}

\* merge: it is refused while a block is selected.
Merge ==
    /\ \A b \in DOMAIN swarmer.nuploading : swarmer.nuploading[b] = 0
    /\ \E cut \in Cuts : cut \notin ToSet(swarmer.pos)
    /\ swarmer' = Collect(Renumbered(FoldLeft(SplitAt, swarmer, SetToSortSeq(Cuts, <))), up)
    /\ UNCHANGED <<up, disk, fails>>

SpecMerge == Init /\ [][Next \/ Merge]_vars

-----------------------------------------------------------------------------
(* Properties.                                                             *)

\* Every variable has its type; the counters are in the bounds whose violation the
\* code logs (1812, 1818, 2458, 2464, 2685).
TypeOK ==
    /\ \A b \in DOMAIN swarmer.blocks : swarmer.blocks[b].kind \in Kinds
    /\ \A b \in DOMAIN swarmer.blocks :
          IF swarmer.blocks[b].kind = "Partial" THEN swarmer.blocks[b].obj \in ObjIds
          ELSE swarmer.blocks[b].obj = 0
    /\ \A b \in DOMAIN swarmer.blocks : swarmer.nuploading[b] \in 0 .. Cardinality(Uploaders)
    /\ \A o \in ObjIds : swarmer.remaining[o] \in 0 .. FileSize
    /\ \A o \in ObjIds : swarmer.unselected[o] \in 0 .. swarmer.remaining[o]
    /\ \A u \in Uploaders : Held(u) \subseteq RangeIds
    /\ \A u \in Uploaders : ToSet(up[u].complete) \subseteq DOMAIN swarmer.blocks
    /\ disk \subseteq 0 .. FileSize - 1
    /\ fails \in 0 .. MaxFail

PartialBlockNums == {b \in DOMAIN swarmer.blocks : swarmer.blocks[b].kind = "Partial"}
ObjOf(b) == swarmer.obj[swarmer.blocks[b].obj]
Holes(b) == CASE swarmer.blocks[b].kind = "Empty" -> BytesOf(swarmer, b)
              [] swarmer.blocks[b].kind = "Partial" ->
                    Bytes(swarmer, ToSet(ObjOf(b).chain))
              [] OTHER -> {}

\* The range invariants of commonSwarming.ml:214-230: the ranges of a block are
\* its own, lie inside it, do not overlap and are sorted; none of them is void.
RangesOrdered ==
    \A b \in PartialBlockNums :
        LET chain == ObjOf(b).chain IN
        /\ ObjOf(b).num = b /\ ObjOf(b).from = swarmer.pos[b] /\ ObjOf(b).to = BlockEnd(swarmer, b)
        /\ \A i \in DOMAIN chain :
              LET r == swarmer.range[chain[i]] IN
              /\ r.owner = swarmer.blocks[b].obj
              /\ ObjOf(b).from <= r.from /\ r.from < r.to /\ r.to <= ObjOf(b).to
              /\ i < Len(chain) => r.to <= swarmer.range[chain[i + 1]].from

\* A byte is missing from the disk exactly when it is in a hole: a block is never
\* complete over missing data, and data that is there is never asked for again.
HolesAreMissing ==
    \A b \in DOMAIN swarmer.blocks : disk \cap BytesOf(swarmer, b) = BytesOf(swarmer, b) \ Holes(b)

\* The block invariant of commonSwarming.ml:256-260: block_remaining is the sum of
\* the sizes of the ranges.
RemainingAgrees ==
    \A b \in PartialBlockNums : swarmer.remaining[swarmer.blocks[b].obj] = Cardinality(Holes(b))

\* commonSwarming.ml:173-175: block_unselected_remaining is the "same, less ranges
\* selected for uploaders".
UnselectedAgrees ==
    \A b \in PartialBlockNums :
        swarmer.unselected[swarmer.blocks[b].obj] =
            Size(swarmer, {r \in ToSet(ObjOf(b).chain) : swarmer.range[r].nup = 0})

\* The ranges of a block and its two counters stay in step while uploaders select,
\* merge, split, fill and drop ranges of it.
BlockInvariant == RangesOrdered /\ RemainingAgrees /\ UnselectedAgrees

\* The reference counts, whose loss would refuse every later merge or let one in
\* too early: range_nuploading is the "number of uploaders currently referencing
\* that range" (184-185), nobody holds a range twice, and s_nuploading counts the
\* uploaders that have selected a block.
ReferencesAgree ==
    /\ \A r \in RangeIds : swarmer.range[r].nup = Cardinality({u \in Uploaders : r \in Held(u)})
    /\ \A u \in Uploaders : Len(up[u].ranges) = Cardinality(Held(u))
    /\ \A b \in DOMAIN swarmer.blocks :
          swarmer.nuploading[b] =
              Cardinality({u \in Uploaders : \E e \in ToSet(up[u].blocks) : swarmer.obj[e.obj].num = b})

\* A range that is held and still open is a hole of the block that is being
\* downloaded now, never of one that was completed, failed or started again since,
\* and is short enough to be asked for ("at most [range_size] bytes long", 2498).
HeldRangesAreLive ==
    \A u \in Uploaders : \A r \in Held(u) :
        /\ Length(swarmer, r) <= RangeSize[u]
        /\ swarmer.range[r].from < swarmer.range[r].to =>
              \E b \in PartialBlockNums : r \in ToSet(ObjOf(b).chain)

=============================================================================
