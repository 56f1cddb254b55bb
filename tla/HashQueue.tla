------------------------------ MODULE HashQueue ------------------------------
(***************************************************************************)
(* The hashing of shared files: the fifo of daemon/common/commonHasher.ml, *)
(* the thread that runs one job at a time, and the three clients that put  *)
(* jobs in it.                                                             *)
(*                                                                         *)
(*   - "uploads", daemon/common/commonUploads.ml: the identifiers that     *)
(*     Gnutella and G2 ask for, one request after the other;               *)
(*   - "donkey", networks/donkey/donkeyShare.ml: the MD4 of every chunk;   *)
(*   - "dc", networks/direct_connect/dcShared.ml: the leaves of the tiger  *)
(*     tree.                                                               *)
(*                                                                         *)
(* Each client cuts a file in pieces, queues a job for one piece and       *)
(* continues in the handler of the job, which runs much later with what    *)
(* it captured when the job was queued.  Shared files are found by scans   *)
(* of the directories, which go on meanwhile, and may vanish at any time.  *)
(*                                                                         *)
(* A hash is the piece it is computed from.  Built with threads            *)
(* (HAVE_LIBPTHREAD), where BasicSocket.has_threads holds.                 *)
(***************************************************************************)
EXTENDS Integers, Sequences, SequencesExt, FiniteSets

CONSTANTS
  Directories,  \* the shared directories: sequences of distinct files
  Size,         \* Size[f]: the size of the file f
  Md4Block,     \* block_size of donkey, ed2k_block_size
  TigerBlock,   \* tiger_block_size
  Asks,         \* what the networks' ask_for_uids ask for each file, in order
  MaxShares,    \* max_shared_files: how often each network asks
  MaxGone,      \* bound: how many files vanish
  None

Files == UNION {ToSet(dir) : dir \in Directories}

Ids == {"ED2K", "BITPRINT", "TIGER", "SHA1"}

ASSUME SizeAssumption ==
  /\ Size \in [Files -> Nat \ {0}]
  /\ Md4Block \in Nat \ {0}
  /\ TigerBlock \in Nat \ {0}

\* A BITPRINT is asked for before the TIGER and the SHA1 it is made of: the last
\* request is the first to be served.
ASSUME AsksAssumption ==
  /\ Asks \in Seq(Ids)
  /\ \A i \in DOMAIN Asks :
       Asks[i] = "BITPRINT" => \A id \in {"TIGER", "SHA1"} :
                                 \E j \in DOMAIN Asks : i < j /\ Asks[j] = id

\* A directory lists each of its files once.
ASSUME DirectoriesAssumption ==
  \A dir \in Directories : dir \in Seq(Files) /\ IsInjective(dir)

ASSUME BoundsAssumption == MaxShares \in Nat /\ MaxGone \in Nat

VARIABLES
  daemon,  \* the OCaml state, changed by one handler at a time
  done,    \* job_done of commonHasher_c.c
  gone     \* the files that have been deleted from the disk

vars == <<daemon, done, gone>>

-----------------------------------------------------------------------------
(* Pieces and jobs *)

Clients == {"uploads", "donkey", "dc"}

Pieces == [begin : Nat, len : Nat]

Jobs == [by : Clients, file : Files, id : Ids, piece : Pieces,
         hashes : Seq(Pieces), rest : Seq(Files)]

\* The state of the donkey plugin and of the Direct Connect plugin.
Donkeys == [queue : Seq(Files), computing : BOOLEAN, hashed : SUBSET Files,
            list : [Files -> Seq(Pieces)]]

Dcs == [queue : Seq(Files), computing : BOOLEAN, hashed : SUBSET Files,
        known : SUBSET Files, list : [Files -> Seq(Pieces)]]

Daemons ==
  [fifo : Seq(Jobs), current : Jobs \union {None},
   wanted : [Files -> Seq(Ids)], waiting : Seq(Files),
   current_job : Files \union {None},
   uids : [Files -> [Ids -> Seq(Pieces) \union {None}]],
   shares : 0..MaxShares,
   asked : [Files -> Nat], answered : [Files -> Nat],
   donkey : Donkeys, dc : Dcs]

ASSUME NoneAssumption == None \notin Files \union Seq(Pieces) \union Jobs

\* The part of f that begins at begin and ends with the block or the file.
Piece(f, begin, block) ==
  [begin |-> begin,
   len |-> IF begin + block < Size[f] THEN block ELSE Size[f] - begin]

\* The end of the pieces hashed so far (shared_pos, dc_shared_pos).
EndPos(pieces) ==
  IF pieces = <<>> THEN 0 ELSE Last(pieces).begin + Last(pieces).len

\* A file of a multiple of the block has an empty last chunk.
get_nchunks(f, block) == Size[f] \div block + 1

\* What one job of commonUploads hashes: the whole file for a SHA1.
UidBlock(f, id) ==
  CASE id = "ED2K" -> Md4Block
    [] id = "TIGER" -> TigerBlock
    [] OTHER -> Size[f]

\* A job with what its handler captured: hashes, the pieces before it, in
\* commonUploads; rest, the tail of the queue, in the other two.
Job(by, f, id, piece, hashes, rest) ==
  [by |-> by, file |-> f, id |-> id, piece |-> piece,
   hashes |-> hashes, rest |-> rest]

\* compute_md4, compute_sha1, compute_tiger
Compute(d, job) == [d EXCEPT !.fifo = Append(@, job)]

-----------------------------------------------------------------------------
(* commonUploads: the requests for identifiers *)

\* Mutant of Answer: current_job is not reset.
AnswerBusy(d, f) == [d EXCEPT !.answered[f] = @ + 1]

\* The handler of the request is called and the next request may start.
Answer(d, f) == [d EXCEPT !.answered[f] = @ + 1, !.current_job = None]

\* The new identifier is recorded, and start_job_for, called again, finds it.
AddUid(d, f, id, pieces) == Answer([d EXCEPT !.uids[f][id] = pieces], f)

UploadsPiece(d, f, id, begin, hashes) ==
  Compute(d, Job("uploads", f, id, Piece(f, begin, UidBlock(f, id)), hashes, <<>>))

\* A BITPRINT is made of a SHA1 and a TIGER, and waits for ever without them.
start_job_for(d, f, id) ==
  IF d.uids[f][id] # None
  THEN Answer(d, f)
  ELSE IF id # "BITPRINT"
       THEN UploadsPiece(d, f, id, 0, <<>>)
       ELSE IF d.uids[f]["SHA1"] # None /\ d.uids[f]["TIGER"] # None
            THEN AddUid(d, f, id, d.uids[f]["TIGER"])
            ELSE d

\* Mutant of UploadsHandler: it queues its own piece again.
UploadsHandlerAgain(d, job) ==
  IF job.piece.begin + job.piece.len < Size[job.file]
  THEN UploadsPiece(d, job.file, job.id, job.piece.begin, job.hashes)
  ELSE AddUid(d, job.file, job.id, Append(job.hashes, job.piece))

\* The handler of a job: the next piece, or the identifier.
UploadsHandler(d, job) ==
  LET f == job.file
      hashes == Append(job.hashes, job.piece)
  IN  IF EndPos(hashes) < Size[f]
      THEN UploadsPiece(d, f, job.id, EndPos(hashes), hashes)
      ELSE AddUid(d, f, job.id, hashes)

-----------------------------------------------------------------------------
(* donkeyShare: the chunks of the files in shared_files *)

\* job_creater, called on a file that was at the head of shared_files, the
\* rest of which was captured then.
job_creater(d, f, rest) ==
  IF f \in gone
  THEN [d EXCEPT !.donkey.queue = rest]
  ELSE Compute([d EXCEPT !.donkey.computing = TRUE],
               Job("donkey", f, "ED2K",
                   Piece(f, EndPos(d.donkey.list[f]), Md4Block), <<>>, rest))

check_shared_files(d) ==
  IF d.donkey.computing \/ d.donkey.queue = <<>>
  THEN d
  ELSE job_creater(d, Head(d.donkey.queue), Tail(d.donkey.queue))

\* The file f is hashed, and the tail captured before its last piece restored.
DonkeyDone(d, f, rest) ==
  [d EXCEPT !.donkey.hashed = @ \union {f}, !.donkey.queue = rest]

\* The handler.  A complete file that has vanished has no mtime: the exception
\* ends the handler before the file leaves the queue.
DonkeyHandler(d, job) ==
  LET f == job.file
      hashed == [d EXCEPT !.donkey.computing = FALSE,
                          !.donkey.list[f] = Append(@, job.piece)]
  IN  IF Len(hashed.donkey.list[f]) # get_nchunks(f, Md4Block)
      THEN check_shared_files(job_creater(hashed, f, job.rest))
      ELSE IF f \in gone
           THEN hashed
           ELSE check_shared_files(DonkeyDone(hashed, f, job.rest))

-----------------------------------------------------------------------------
(* dcShared: the leaves of the files in dc_files_to_hash *)

dc_check_hashed_files(d) ==
  IF d.dc.computing \/ d.dc.queue = <<>>
  THEN d
  ELSE LET f == Head(d.dc.queue)
           rest == Tail(d.dc.queue)
       IN  IF f \in gone
           THEN [d EXCEPT !.dc.queue = rest]
           ELSE Compute([d EXCEPT !.dc.computing = TRUE],
                        Job("dc", f, "TIGER",
                            Piece(f, EndPos(d.dc.list[f]), TigerBlock), <<>>, rest))

\* Mutant of DcHandler: a hashed file stays in dc_files_to_hash.
DcHandlerKeep(d, job) ==
  LET list == Append(d.dc.list[job.file], job.piece)
      complete == Len(list) = get_nchunks(job.file, TigerBlock)
  IN  [d EXCEPT !.dc.computing = FALSE, !.dc.list[job.file] = list,
                !.dc.hashed = IF complete THEN @ \union {job.file} ELSE @]

\* The handler.  The list of a hashed file stands for its root.
DcHandler(d, job) ==
  LET f == job.file
      hashed == [d EXCEPT !.dc.computing = FALSE,
                          !.dc.list[f] = Append(@, job.piece)]
  IN  IF Len(hashed.dc.list[f]) = get_nchunks(f, TigerBlock)
      THEN [hashed EXCEPT !.dc.hashed = @ \union {f}, !.dc.queue = job.rest]
      ELSE hashed

-----------------------------------------------------------------------------
(* commonHasher: the timer and the thread *)

Handle(d, job) ==
  CASE job.by = "uploads" -> UploadsHandler(d, job)
    [] job.by = "donkey" -> DonkeyHandler(d, job)
    [] job.by = "dc" -> DcHandler(d, job)

\* The current job, when there is one, is over: its handler is called.
FinishJob(d) ==
  IF d.current = None THEN d ELSE Handle([d EXCEPT !.current = None], d.current)

\* The next job is taken.  It is dropped when its file cannot be opened; no
\* handler is called then.
TakeJob(d) ==
  IF d.fifo = <<>>
  THEN d
  ELSE [d EXCEPT !.fifo = Tail(@),
                 !.current = IF Head(d.fifo).file \in gone THEN None ELSE Head(d.fifo)]

-----------------------------------------------------------------------------
(* A scan shares the files of a directory with every network *)

\* The files that are not in S, in order.
Without(files, S) ==
  LET kept[i \in 0..Len(files)] ==
        IF i = 0 THEN <<>>
        ELSE IF files[i] \in S THEN kept[i - 1] ELSE Append(kept[i - 1], files[i])
  IN  kept[Len(files)]

\* Mutant of DonkeyKnows: shared_files is not searched.
DonkeyKnowsHashed(donkey) == donkey.hashed

DonkeyKnows(donkey) == donkey.hashed \union ToSet(donkey.queue)

\* op_network_share of donkey: a file not hashed and not in shared_files.
\* New records go in front.
DonkeyShare(donkey, files) ==
  LET found == Without(files, DonkeyKnows(donkey))
  IN  [donkey EXCEPT !.queue = Reverse(found) \o @,
                     !.list = [f \in Files |-> IF f \in ToSet(found) THEN <<>> ELSE @[f]]]

\* op_network_share of Direct Connect: a file never seen.
DcShare(dc, files) ==
  LET found == Without(files, dc.known)
  IN  [dc EXCEPT !.queue = Reverse(found) \o @,
                 !.known = @ \union ToSet(found)]

\* Mutant of Admitted: no limit.
AdmittedAll(d, files) == files

\* The files that max_shared_files still admits; shared_files_counter is never
\* reset, and counts a file again at every scan.
Admitted(d, files) ==
  SubSeq(files, 1, IF d.shares + Len(files) <= MaxShares THEN Len(files)
                   ELSE MaxShares - d.shares)

\* op_network_share of Gnutella and G2, with ask_for_uids: each ask_for_uid pushes
\* the identifier on the file's stack, and the file on waiting_shared_files.
AskForUids(d, files) ==
  LET asked == Admitted(d, files)
      pushes == FlattenSeq([i \in 1..Len(asked) |-> [j \in 1..Len(Asks) |-> asked[i]]])
  IN  [d EXCEPT
         !.shares = @ + Len(asked),
         !.asked = [f \in Files |-> IF f \in ToSet(asked) THEN @[f] + Len(Asks) ELSE @[f]],
         !.wanted = [f \in Files |->
                       IF f \in ToSet(asked) THEN Reverse(Asks) \o @[f] ELSE @[f]],
         !.waiting = Reverse(pushes) \o @]

-----------------------------------------------------------------------------
(* The specification *)

Init ==
  /\ daemon =
       [fifo |-> <<>>, current |-> None,
        wanted |-> [f \in Files |-> <<>>], waiting |-> <<>>, current_job |-> None,
        uids |-> [f \in Files |-> [id \in Ids |-> None]],
        shares |-> 0,
        asked |-> [f \in Files |-> 0], answered |-> [f \in Files |-> 0],
        donkey |-> [queue |-> <<>>, computing |-> FALSE, hashed |-> {},
                    list |-> [f \in Files |-> <<>>]],
        dc |-> [queue |-> <<>>, computing |-> FALSE, hashed |-> {}, known |-> {},
                list |-> [f \in Files |-> <<>>]]]
  /\ done = TRUE
  /\ gone = {}

\* shared_scan_directory: the files listed in dir are shared.
ScanDirectory(dir) ==
  LET present == Without(dir, gone)
  IN  /\ daemon' = [AskForUids(daemon, present) EXCEPT
                      !.donkey = DonkeyShare(@, present),
                      !.dc = DcShare(@, present)]
      /\ UNCHANGED <<done, gone>>

\* shared_files_timer: the next request of the file on top of
\* waiting_shared_files starts, or the file is popped when it has none.
SharedFilesTimer ==
  /\ daemon.current_job = None
  /\ daemon.waiting # <<>>
  /\ LET f == Head(daemon.waiting)
         wanted == daemon.wanted[f]
     IN  daemon' =
           IF wanted = <<>>
           THEN [daemon EXCEPT !.waiting = Tail(@)]
           ELSE start_job_for([daemon EXCEPT !.wanted[f] = Tail(@), !.current_job = f],
                              f, Head(wanted))
  /\ UNCHANGED <<done, gone>>

\* five_second_timer of donkey
DonkeyTimer ==
  /\ daemon' = check_shared_files(daemon)
  /\ UNCHANGED <<done, gone>>

\* hash_timer of Direct Connect
DcTimer ==
  /\ daemon' = dc_check_hashed_files(daemon)
  /\ UNCHANGED <<done, gone>>

\* The timer of commonHasher: when no job runs, the last one is handled and the
\* next one started.
HasherTimer ==
  /\ daemon.current # None => done
  /\ daemon' = TakeJob(FinishJob(daemon))
  /\ done' = (daemon'.current = None)
  /\ UNCHANGED gone

\* hasher_thread: the current job is computed.
HasherThread ==
  /\ ~done
  /\ done' = TRUE
  /\ UNCHANGED <<daemon, gone>>

\* A file is deleted or moved away.
Vanish(f) ==
  /\ f \notin gone
  /\ Cardinality(gone) < MaxGone
  /\ gone' = gone \union {f}
  /\ UNCHANGED <<daemon, done>>

Next ==
  \/ \E dir \in Directories : ScanDirectory(dir)
  \/ SharedFilesTimer
  \/ DonkeyTimer
  \/ DcTimer
  \/ HasherTimer
  \/ HasherThread
  \/ \E f \in Files : Vanish(f)

\* Timers are called for ever, directories are scanned again and again
\* (share_scan_interval), and a hash is computed in the end.
Fairness ==
  /\ \A dir \in Directories : WF_vars(ScanDirectory(dir))
  /\ WF_vars(SharedFilesTimer)
  /\ WF_vars(DonkeyTimer)
  /\ WF_vars(DcTimer)
  /\ WF_vars(HasherTimer)
  /\ WF_vars(HasherThread)

Spec == Init /\ [][Next]_vars /\ Fairness

-----------------------------------------------------------------------------
(* Properties *)

\* Every variable has its type; shared_files_counter obeys its limit.
TypeOK ==
  /\ daemon \in Daemons
  /\ done \in BOOLEAN
  /\ gone \in SUBSET Files

\* The jobs of d, the running one first.
Queued(d) == (IF d.current = None THEN <<>> ELSE <<d.current>>) \o d.fifo

\* The places of a client's jobs among them.
JobsOf(d, client) == {i \in DOMAIN Queued(d) : Queued(d)[i].by = client}

Busy(d, client) ==
  CASE client = "uploads" -> d.current_job # None
    [] client = "donkey" -> d.donkey.computing
    [] client = "dc" -> d.dc.computing

\* A client never has two jobs queued, and only a client that knows it is busy
\* has one: two jobs of one file would hash a piece twice (the flags computing,
\* dc_tiger_computing and current_job, across timers, handlers and scans).  As
\* long as no file vanished a busy client does have its job, so that it will be
\* called back: a job whose file cannot be opened is dropped without a word.
\* Nor is a hashed file queued again or a file queued twice, although handlers
\* put back a tail of the queue captured long before.
HashedOnce ==
  /\ \A client \in Clients :
       /\ \A i, j \in JobsOf(daemon, client) : i = j
       /\ JobsOf(daemon, client) # {} => Busy(daemon, client)
       /\ Busy(daemon, client) /\ gone = {} => JobsOf(daemon, client) # {}
  /\ \A net \in {daemon.donkey, daemon.dc} :
       /\ ToSet(net.queue) \intersect net.hashed = {}
       /\ IsInjective(net.queue)

\* pieces follow each other from the beginning of f.
Contiguous(f, pieces) ==
  \A i \in 1..Len(pieces) :
    /\ pieces[i].begin = EndPos(SubSeq(pieces, 1, i - 1))
    /\ EndPos(pieces) <= Size[f]

\* Whatever was shared, dropped and shared again between the jobs of a file,
\* its hashes are those of its pieces in order, none twice and none left out,
\* and a file or an identifier is hashed only when the whole file was.
HashesCoverFile ==
  \A f \in Files :
    /\ Contiguous(f, daemon.donkey.list[f])
    /\ Contiguous(f, daemon.dc.list[f])
    /\ f \in daemon.donkey.hashed => EndPos(daemon.donkey.list[f]) = Size[f]
    /\ f \in daemon.dc.hashed => EndPos(daemon.dc.list[f]) = Size[f]
    /\ \A id \in Ids : daemon.uids[f][id] # None =>
         /\ Contiguous(f, daemon.uids[f][id])
         /\ EndPos(daemon.uids[f][id]) = Size[f]

\* Every identifier asked for is answered, wanted, or being computed, and a
\* file that wants one is on waiting_shared_files (ask_for_uid pushes on two
\* stacks that shared_files_timer and the handlers take from).
NoAskForgotten ==
  \A f \in Files :
    /\ daemon.asked[f] = daemon.answered[f] + Len(daemon.wanted[f])
                         + (IF daemon.current_job = f THEN 1 ELSE 0)
    /\ daemon.wanted[f] # <<>> => f \in ToSet(daemon.waiting)

\* If no file vanishes, the queue does its work in the end, although its clients
\* share one thread: donkey hashes every file (a file that a handler drops from
\* shared_files is shared again by the next scan), and every request is answered,
\* a BITPRINT too, which needs the two requests that were pushed after it.
HashingEnds ==
  [](gone = {}) => /\ <>(daemon.donkey.hashed = Files)
                   /\ <>[](daemon.answered = daemon.asked)
=============================================================================
