---------------------------- MODULE HashingThread ----------------------------
(***************************************************************************)
(* The thread that hashes for commonHasher, daemon/common/commonHasher_c.c,*)
(* and the main program's side of it: the timer of commonHasher.ml and     *)
(* ml_job_start.  They share variables without a lock; the mutex and the   *)
(* condition only wake the thread.                                         *)
(*                                                                         *)
(* A digest is how many bytes went into it, in order, and whether it is    *)
(* clean: made of its own data only.  MD4, MD5 and SHA1 keep their context *)
(* on the stack of the thread; Tiger copies each node of its tree into a   *)
(* static buffer of utils/lib/tiger.c, which the main program uses too     *)
(* when it verifies a chunk by its Tiger tree.                             *)
(***************************************************************************)
EXTENDS Naturals

CONSTANTS Jobs,        \* the pieces that are asked for, with their
          Len,         \* number of bytes (in read units)
          TigerJobs,   \* and method: Tiger, or one of the others
          NoJob,
          MainTiger    \* does the main program hash Tiger trees itself?

ASSUME HashingAssumption ==
  /\ NoJob \notin Jobs
  /\ Len \in [Jobs -> Nat]
  /\ TigerJobs \subseteq Jobs
  /\ MainTiger \in BOOLEAN

VARIABLES
  job_done,        \* the flag both sides poll
  job,             \* job_fd, job_begin_pos, job_len, job_method
  job_result,      \* what the thread computed last
  thread_started, mutex, signalled,
  tiger_buffer,    \* whose data is in the static buffer of tiger.c
  thread,          \* where the thread is
  left, digest,    \* its local len, and its context
  current_job,     \* of commonHasher.ml
  main,            \* where the main program is
  handled,         \* the last job whose handler was called, and the digest
  shrunk,          \* jobs whose file has become too short
  crashed          \* the process is no more

toThread == <<job, thread_started>>
ofThread == <<thread, left, digest, job_result>>
ofMain == <<current_job, main, handled>>
sync == <<job_done, mutex, signalled>>
vars == <<toThread, ofThread, ofMain, sync, tiger_buffer, shrunk, crashed>>

Digests == [bytes : Nat, clean : BOOLEAN]
Empty == [bytes |-> 0, clean |-> TRUE]

Init ==
  /\ job_done = TRUE
  /\ job = NoJob
  /\ job_result = Empty
  /\ thread_started = FALSE
  /\ mutex = "free" /\ signalled = FALSE
  /\ tiger_buffer = "nobody"
  /\ thread = "none"
  /\ left = 0 /\ digest = Empty
  /\ current_job = NoJob
  /\ main = "idle"
  /\ handled = [job |-> NoJob, digest |-> Empty]
  /\ shrunk = {}
  /\ crashed = FALSE

-----------------------------------------------------------------------------
(* The main program: the timer of commonHasher.ml, every 0.1 second.       *)

MainOnly == UNCHANGED <<ofThread, tiger_buffer, shrunk, crashed>>

\* mutant: the result is taken without asking job_done
DeliverEarly ==
  /\ main = "idle" /\ current_job # NoJob
  /\ handled' = [job |-> current_job, digest |-> job_result]
  /\ current_job' = NoJob
  /\ main' = "take"
  /\ UNCHANGED <<toThread, sync>> /\ MainOnly

\* job_done: the result is copied, the handler called, the next job taken.
Deliver ==
  /\ main = "idle" /\ current_job # NoJob /\ job_done
  /\ handled' = [job |-> current_job, digest |-> job_result]
  /\ current_job' = NoJob
  /\ main' = "take"
  /\ UNCHANGED <<toThread, sync>> /\ MainOnly

\* A job of the fifo whose file can be opened.
TakeJob(j) ==
  /\ main \in {"idle", "take"} /\ current_job = NoJob
  /\ current_job' = j
  /\ main' = "write"
  /\ UNCHANGED <<toThread, sync, handled>> /\ MainOnly

\* The fifo is empty, or the file cannot be opened and the job is dropped.
NoTake ==
  /\ main = "take"
  /\ main' = "idle"
  /\ UNCHANGED <<toThread, sync, current_job, handled>> /\ MainOnly

\* ml_job_start, up to the creation of the thread
WriteJob ==
  /\ main = "write"
  /\ job' = current_job
  /\ main' = "create"
  /\ UNCHANGED <<thread_started, sync, current_job, handled>> /\ MainOnly

CreateThread ==
  /\ main = "create"
  /\ thread_started' = TRUE
  /\ thread' = IF thread_started THEN thread ELSE "lock"
  /\ main' = "lock"
  /\ UNCHANGED <<job, left, digest, job_result, sync, current_job, handled,
                 tiger_buffer, shrunk, crashed>>

\* The signal is lost when the thread does not wait for it.
Signal ==
  /\ main = "lock" /\ mutex = "free"
  /\ job_done' = FALSE
  /\ signalled' = (thread = "wait")
  /\ main' = "idle"
  /\ UNCHANGED <<toThread, mutex, current_job, handled>> /\ MainOnly

\* TigerTree.digest_subfile, called to verify a chunk (commonFile.ml): each
\* node is copied into the buffer and then hashed there.
MainFill ==
  /\ MainTiger
  /\ main = "idle"
  /\ tiger_buffer' = "main"
  /\ main' = "transform"
  /\ UNCHANGED <<toThread, ofThread, sync, current_job, handled, shrunk, crashed>>

MainTransform ==
  /\ main = "transform"
  /\ main' = "idle"
  /\ UNCHANGED <<toThread, sync, current_job, handled>> /\ MainOnly

-----------------------------------------------------------------------------
(* hasher_thread                                                           *)

ThreadOnly == UNCHANGED <<toThread, ofMain, shrunk>>
Computing == UNCHANGED <<sync, job_result, crashed>> /\ ThreadOnly

Lock ==
  /\ thread = "lock" /\ mutex = "free"
  /\ mutex' = "thread"
  /\ thread' = "call_wait"
  /\ UNCHANGED <<left, digest, job_result, job_done, signalled, tiger_buffer,
                 crashed>> /\ ThreadOnly

\* pthread_cond_timedwait gives the mutex back ...
Wait ==
  /\ thread = "call_wait"
  /\ mutex' = "free" /\ signalled' = FALSE
  /\ thread' = "wait"
  /\ UNCHANGED <<left, digest, job_result, job_done, tiger_buffer, crashed>>
  /\ ThreadOnly

\* ... and takes it again when it is signalled or ten seconds are over.
Wakes(why) ==
  /\ thread = "wait" /\ mutex = "free" /\ why
  /\ mutex' = "thread" /\ signalled' = FALSE
  /\ thread' = "look"
  /\ UNCHANGED <<left, digest, job_result, job_done, tiger_buffer, crashed>>
  /\ ThreadOnly

WakeSignalled == Wakes(signalled)

\* mutant: pthread_cond_wait, which only a signal ends
WakeNever == Wakes(signalled)

WakeTimeout == Wakes(TRUE)

Look ==
  /\ thread = "look"
  /\ IF job_done
       THEN thread' = "call_wait" /\ UNCHANGED <<left, digest>>
       ELSE thread' = "read" /\ left' = Len[job] /\ digest' = Empty
  /\ UNCHANGED tiger_buffer /\ Computing

\* mutant: one byte more than len is read
ReadOver(n) ==
  /\ thread = "read" /\ job \notin shrunk
  /\ n \in 1 .. left
  /\ left' = left - n - 1
  /\ digest' = [digest EXCEPT !.bytes = @ + n + 1]
  /\ thread' = IF job \in TigerJobs THEN "fill" ELSE "read"
  /\ UNCHANGED tiger_buffer /\ Computing

\* os_read returns any part of what is asked for.
Read(n) ==
  /\ thread = "read" /\ job \notin shrunk
  /\ n \in 1 .. left
  /\ left' = left - n
  /\ digest' = [digest EXCEPT !.bytes = @ + n]
  /\ thread' = IF job \in TigerJobs THEN "fill" ELSE "read"
  /\ UNCHANGED tiger_buffer /\ Computing

\* mutant: the test for the end of the file is reached, and ends the digest
ReadFailsShort ==
  /\ thread = "read" /\ left > 0 /\ job \in shrunk
  /\ left' = 0
  /\ UNCHANGED <<thread, digest, tiger_buffer>> /\ Computing

\* Nothing is read: unix_error raises an OCaml exception in a thread that
\* is not OCaml's (the test for the end of the file below it is not reached).
ReadFails ==
  /\ thread = "read" /\ left > 0 /\ job \in shrunk
  /\ crashed' = TRUE
  /\ UNCHANGED <<ofThread, sync, tiger_buffer>> /\ ThreadOnly

\* tiger_hash, for a leaf and the inner nodes that it completes
Fill ==
  /\ thread = "fill"
  /\ tiger_buffer' = "thread"
  /\ thread' = "transform"
  /\ UNCHANGED <<left, digest>> /\ Computing

Transform ==
  /\ thread = "transform"
  /\ digest' = [digest EXCEPT !.clean = @ /\ tiger_buffer = "thread"]
  /\ thread' = "read"
  /\ UNCHANGED <<left, tiger_buffer>> /\ Computing

Store ==
  /\ thread = "read" /\ left = 0
  /\ job_result' = digest
  /\ thread' = "stored"
  /\ UNCHANGED <<left, digest, sync, tiger_buffer, crashed>> /\ ThreadOnly

Done ==
  /\ thread = "stored"
  /\ job_done' = TRUE
  /\ thread' = "call_wait"
  /\ UNCHANGED <<left, digest, job_result, mutex, signalled, tiger_buffer,
                 crashed>> /\ ThreadOnly

\* Somebody makes the file shorter than the piece.
Shrink(j) ==
  /\ shrunk' = shrunk \cup {j}
  /\ UNCHANGED <<toThread, ofThread, ofMain, sync, tiger_buffer, crashed>>

MainStart == WriteJob \/ CreateThread \/ Signal
Main ==
  \/ Deliver \/ NoTake \/ MainStart \/ MainFill \/ MainTransform
  \/ \E j \in Jobs : TakeJob(j)

Thread ==
  \/ Lock \/ Wait \/ WakeSignalled \/ WakeTimeout \/ Look
  \/ ReadFails \/ Fill \/ Transform \/ Store \/ Done
  \/ \E n \in 1 .. left : Read(n)

Next ==
  /\ ~crashed
  /\ \/ Main \/ Thread
     \/ \E j \in Jobs : Shrink(j)

Spec == Init /\ [][Next]_vars

\* The timer goes off, the scheduler runs the thread, and the main program
\* gets the mutex that the thread leaves free for ten seconds at a time.
Fairness ==
  /\ WF_vars(~crashed /\ Thread)
  /\ WF_vars(~crashed /\ (WriteJob \/ CreateThread))
  /\ WF_vars(~crashed /\ MainTransform)
  /\ SF_vars(~crashed /\ Signal)
  /\ SF_vars(~crashed /\ Deliver)

FairSpec == Spec /\ Fairness

-----------------------------------------------------------------------------
\* Every variable holds a value of its type.
TypeOK ==
  /\ job_done \in BOOLEAN /\ job \in Jobs \cup {NoJob}
  /\ job_result \in Digests
  /\ thread_started \in BOOLEAN
  /\ mutex \in {"free", "thread"} /\ signalled \in BOOLEAN
  /\ tiger_buffer \in {"nobody", "main", "thread"}
  /\ thread \in {"none", "lock", "call_wait", "wait", "look", "read", "fill",
                 "transform", "stored"}
  /\ left \in Nat /\ digest \in Digests
  /\ current_job \in Jobs \cup {NoJob}
  /\ main \in {"idle", "take", "write", "create", "lock", "transform"}
  /\ handled \in [job : Jobs \cup {NoJob}, digest : Digests]
  /\ shrunk \subseteq Jobs /\ crashed \in BOOLEAN

Working == thread \in {"read", "fill", "transform", "stored"}
Starting == main \in {"write", "create", "lock"}

\* The variables shared without a lock are never written by one side while
\* the other uses them: the main program writes a job only while the thread
\* has none, and takes a result only when the thread is through with it.
NoRace ==
  /\ Working => ~Starting /\ ~job_done /\ job = current_job
  /\ Starting => job_done

Exact == IF MainTiger THEN Jobs \ TigerJobs ELSE Jobs
Right(j, d) == d.bytes = Len[j] /\ d.clean

Verdict(j, d) == IF Right(j, d) THEN "right" ELSE "wrong"

\* What a client of commonHasher can see of a job
resultSeen ==
  IF current_job = NoJob \/ Starting \/ ~job_done
    THEN "none" ELSE Verdict(current_job, job_result)
handledSeen ==
  [job |-> handled.job,
   result |-> IF handled.job = NoJob
                THEN "none" ELSE Verdict(handled.job, handled.digest)]

Service == INSTANCE HashService WITH
  current <- current_job, result <- resultSeen,
  handled <- handledSeen, dead <- crashed

\* Through short reads, lost signals, time-outs and files that shrink, the
\* thread is the service the queue of commonHasher relies on.
ImplementsService == Service!Spec

\* No job stays in commonHasher for ever, the first one either, whose signal
\* is lost when the thread is not yet waiting.
JobsHandled == current_job # NoJob ~> current_job = NoJob \/ crashed

\* "Use a different buffer to avoid sharing it between the two threads": what
\* a thread copied into the buffer of tiger.c is still there when it hashes it.
TigerBufferUnshared ==
  /\ thread = "transform" => tiger_buffer = "thread"
  /\ main = "transform" => tiger_buffer = "main"
=============================================================================
