------------------------ MODULE HashingThread_proofs ------------------------
(***************************************************************************)
(* Proofs about HashingThread for any set of pieces of any length: the two *)
(* sides never use a shared variable at the same time, and the thread with *)
(* its timer implements HashService.                                       *)
(***************************************************************************)
EXTENDS HashingThread, TLAPS

\* The main program is about to start the job it has taken, and the thread
\* runs only for a job that was started.
Handshake ==
  /\ Starting => current_job # NoJob
  /\ main \in {"create", "lock"} => job = current_job
  /\ ~job_done => current_job # NoJob /\ job = current_job /\ ~Starting
  /\ main = "take" => current_job = NoJob

\* No byte of the piece is read twice or left out.
Progress ==
  /\ Working => digest.bytes + left = Len[job]
  /\ thread = "stored" => left = 0 /\ job_result = digest

\* Only Tiger uses the static buffer, and it is the thread's own unless the
\* main program hashes Tiger trees too.
Clean ==
  /\ thread \in {"fill", "transform"} => job \in TigerJobs
  /\ Working /\ job \in Exact => digest.clean
  /\ ~MainTiger /\ thread = "transform" => tiger_buffer = "thread"

\* What the timer will hand to the handler is the digest of its piece.
ResultRight ==
  job_done /\ ~Starting /\ current_job \in Exact
    => Right(current_job, job_result)

\* A handler that was called got the digest of its own piece.
HandledRight == handled.job \in Exact => Right(handled.job, handled.digest)

IInv ==
  /\ TypeOK /\ NoRace /\ Handshake /\ Progress /\ Clean
  /\ ResultRight /\ HandledRight

-----------------------------------------------------------------------------
\* The invariant holds in the initial state: nothing was asked for yet.
LEMMA InitIInv == Init => IInv
<1> SUFFICES ASSUME Init PROVE IInv
  OBVIOUS
<1> USE HashingAssumption DEF Init, Empty, Digests
<1>1. TypeOK
  BY DEF TypeOK
<1>2. NoRace /\ Handshake
  BY DEF NoRace, Handshake, Working, Starting
<1>3. Progress /\ Clean
  BY DEF Progress, Clean, Working
<1>4. ResultRight /\ HandledRight
  BY DEF ResultRight, HandledRight, Exact
<1> QED
  BY <1>1, <1>2, <1>3, <1>4 DEF IInv

\* A step of the main program preserves the invariant.
LEMMA MainIInv == IInv /\ Main => IInv'
<1> SUFFICES ASSUME IInv, Main PROVE IInv'
  OBVIOUS
<1> USE HashingAssumption
<1> USE DEF IInv, MainOnly, toThread, ofThread, sync
<1>1. CASE Deliver
  BY <1>1 DEF Deliver, TypeOK, NoRace, Handshake, Progress, Clean,
         ResultRight, HandledRight, Working, Starting, Digests, Right, Exact
<1>2. CASE NoTake
  BY <1>2 DEF NoTake, TypeOK, NoRace, Handshake, Progress, Clean,
         ResultRight, HandledRight, Working, Starting, Digests, Right, Exact
<1>3. CASE WriteJob
  BY <1>3 DEF WriteJob, TypeOK, NoRace, Handshake, Progress, Clean,
         ResultRight, HandledRight, Working, Starting, Digests, Right, Exact
<1>4. CASE CreateThread
  BY <1>4 DEF CreateThread, TypeOK, NoRace, Handshake, Progress, Clean,
         ResultRight, HandledRight, Working, Starting, Digests, Right, Exact
<1>5. CASE Signal
  <2>1. signalled' \in BOOLEAN
    BY <1>5, Zenon DEF Signal
  <2>2. /\ main = "lock" /\ main' = "idle" /\ ~job_done'
        /\ job_done' \in BOOLEAN
    BY <1>5, Zenon DEF Signal
  <2>3. UNCHANGED <<job, thread_started, thread, left, digest, job_result, mutex,
                    current_job, handled, tiger_buffer, shrunk, crashed>>
    BY <1>5 DEF Signal
  <2> QED
    BY <2>1, <2>2, <2>3 DEF TypeOK, NoRace, Handshake, Progress, Clean,
         ResultRight, HandledRight, Working, Starting, Digests, Right, Exact
<1>6. CASE MainFill
  BY <1>6 DEF MainFill, TypeOK, NoRace, Handshake, Progress, Clean,
         ResultRight, HandledRight, Working, Starting, Digests, Right, Exact
<1>7. CASE MainTransform
  BY <1>7 DEF MainTransform, TypeOK, NoRace, Handshake, Progress, Clean,
         ResultRight, HandledRight, Working, Starting, Digests, Right, Exact
<1>8. CASE \E j \in Jobs : TakeJob(j)
  BY <1>8 DEF TakeJob, TypeOK, NoRace, Handshake, Progress, Clean,
         ResultRight, HandledRight, Working, Starting, Digests, Right, Exact
<1> QED
  BY <1>1, <1>2, <1>3, <1>4, <1>5, <1>6, <1>7, <1>8 DEF Main, MainStart

\* A step of the thread preserves the invariant.
LEMMA ThreadIInv == IInv /\ Thread => IInv'
<1> SUFFICES ASSUME IInv, Thread PROVE IInv'
  OBVIOUS
<1> USE HashingAssumption
<1> USE DEF IInv, ThreadOnly, Computing, toThread, ofThread, ofMain, sync
<1>1. CASE Lock
  BY <1>1 DEF Lock, TypeOK, NoRace, Handshake, Progress, Clean,
         ResultRight, HandledRight, Working, Starting, Digests, Right, Exact
<1>2. CASE Wait
  <2>1. signalled' \in BOOLEAN
    BY <1>2, Zenon DEF Wait
  <2> QED
    BY <1>2, <2>1 DEF Wait, TypeOK, NoRace, Handshake, Progress, Clean, ResultRight,
      HandledRight, Working, Starting, Digests, Right, Exact
<1>3. CASE WakeSignalled
  <2>1. signalled' \in BOOLEAN
    BY <1>3, Zenon DEF WakeSignalled, Wakes
  <2> QED
    BY <1>3, <2>1 DEF WakeSignalled, Wakes, TypeOK, NoRace, Handshake, Progress, Clean, ResultRight,
      HandledRight, Working, Starting, Digests, Right, Exact
<1>4. CASE WakeTimeout
  <2>1. signalled' \in BOOLEAN
    BY <1>4, Zenon DEF WakeTimeout, Wakes
  <2> QED
    BY <1>4, <2>1 DEF WakeTimeout, Wakes, TypeOK, NoRace, Handshake, Progress, Clean, ResultRight,
      HandledRight, Working, Starting, Digests, Right, Exact
<1>5. CASE Look
  <2>1. CASE job_done
    BY <1>5, <2>1 DEF Look, TypeOK, NoRace, Handshake, Progress, Clean, ResultRight,
      HandledRight, Working, Starting, Digests, Right, Exact
  <2>2. CASE ~job_done
    <3>1. job \in Jobs /\ job = current_job /\ ~Starting
      BY <2>2 DEF Handshake, TypeOK
    <3>2. Len[job] \in Nat
      BY <3>1
    <3>3. /\ thread' = "read" /\ left' = Len[job]
          /\ digest' = [bytes |-> 0, clean |-> TRUE]
      BY <1>5, <2>2 DEF Look, Empty
    <3>4. digest' \in Digests /\ digest'.bytes = 0 /\ digest'.clean
      BY <3>3 DEF Digests
    <3> QED
      BY <1>5, <2>2, <3>1, <3>2, <3>3, <3>4 DEF Look, TypeOK, NoRace, Handshake, Progress, Clean, ResultRight,
      HandledRight, Working, Starting, Digests, Right, Exact
  <2> QED
    BY <2>1, <2>2
<1>6. CASE ReadFails
  BY <1>6 DEF ReadFails, TypeOK, NoRace, Handshake, Progress, Clean,
         ResultRight, HandledRight, Working, Starting, Digests, Right, Exact
<1>7. CASE Fill
  BY <1>7 DEF Fill, TypeOK, NoRace, Handshake, Progress, Clean,
         ResultRight, HandledRight, Working, Starting, Digests, Right, Exact
<1>8. CASE Transform
  BY <1>8 DEF Transform, TypeOK, NoRace, Handshake, Progress, Clean,
         ResultRight, HandledRight, Working, Starting, Digests, Right, Exact
<1>9. CASE Store
  BY <1>9 DEF Store, TypeOK, NoRace, Handshake, Progress, Clean,
         ResultRight, HandledRight, Working, Starting, Digests, Right, Exact
<1>10. CASE Done
  BY <1>10 DEF Done, TypeOK, NoRace, Handshake, Progress, Clean,
         ResultRight, HandledRight, Working, Starting, Digests, Right, Exact
<1>11. CASE \E n \in 1 .. left : Read(n)
  BY <1>11 DEF Read, TypeOK, NoRace, Handshake, Progress, Clean,
         ResultRight, HandledRight, Working, Starting, Digests, Right, Exact
<1> QED
  BY <1>1, <1>2, <1>3, <1>4, <1>5, <1>6, <1>7, <1>8, <1>9, <1>10, <1>11
  DEF Thread

\* What the rest of the system does to the files preserves it too, and so does
\* a step that changes nothing.
LEMMA NextIInv == IInv /\ [Next]_vars => IInv'
<1> SUFFICES ASSUME IInv, [Next]_vars PROVE IInv'
  OBVIOUS
<1>1. CASE Main
  BY <1>1, MainIInv
<1>2. CASE Thread
  BY <1>2, ThreadIInv
<1>3. CASE \E j \in Jobs : Shrink(j)
  BY <1>3 DEF Shrink, toThread, ofThread, ofMain, sync, IInv, TypeOK, NoRace,
       Handshake, Progress, Clean, ResultRight, HandledRight, Working, Starting,
       Digests, Right, Exact
<1>4. CASE UNCHANGED vars
  BY <1>4 DEF vars, toThread, ofThread, ofMain, sync, IInv, TypeOK, NoRace,
       Handshake, Progress, Clean, ResultRight, HandledRight, Working, Starting,
       Digests, Right, Exact
<1> QED
  BY <1>1, <1>2, <1>3, <1>4 DEF Next

\* The strengthened invariant of the thread and the timer together.
THEOREM Invariance == Spec => []IInv
BY InitIInv, NextIInv, PTL DEF Spec

\* Every variable of commonHasher and of its thread keeps its type.
THEOREM TypeCorrectness == Spec => []TypeOK
<1>1. IInv => TypeOK
  BY DEF IInv
<1> QED
  BY <1>1, Invariance, PTL

\* The protocol on job_done, without a lock, keeps the two sides apart: a job
\* is never overwritten while it is hashed, a result never while it is copied.
THEOREM RaceFreedom == Spec => []NoRace
<1>1. IInv => NoRace
  BY DEF IInv
<1> QED
  BY <1>1, Invariance, PTL

\* No handler gets a digest of less than its piece, or of another piece.
THEOREM DigestCorrectness == Spec => []HandledRight
<1>1. IInv => HandledRight
  BY DEF IInv
<1> QED
  BY <1>1, Invariance, PTL

-----------------------------------------------------------------------------
\* What the mapping makes of the variables, where a step needs it
LEMMA InitService == Init => Service!Init
BY DEF Init, Service!Init, resultSeen, handledSeen

\* A step that leaves a client's view alone stutters.
LEMMA Stutter ==
  ASSUME UNCHANGED <<current_job, handled, job_result, crashed>>,
         Starting' = Starting, job_done' = job_done
  PROVE  UNCHANGED Service!vars
BY DEF Service!vars, resultSeen, handledSeen, Verdict, Right

\* So does one that is made while the result is not there, and leaves it so.
LEMMA Hidden ==
  ASSUME UNCHANGED <<current_job, handled, crashed>>,
         Starting \/ ~job_done, Starting' \/ ~job_done'
  PROVE  UNCHANGED Service!vars
BY DEF Service!vars, resultSeen, handledSeen, Verdict, Right

\* Every step of the two sides is one of the service, or none that a client
\* sees: the thread's Done is the answer, the timer's Deliver the call.
LEMMA StepService == IInv /\ [Next]_vars => [Service!Next]_(Service!vars)
<1> SUFFICES ASSUME IInv, [Next]_vars PROVE [Service!Next]_(Service!vars)
  OBVIOUS
<1> USE DEF toThread, ofThread, ofMain, sync, MainOnly, ThreadOnly, Computing
<1>1. CASE Deliver /\ ~crashed
  <2>1. resultSeen = Verdict(current_job, job_result)
    BY <1>1 DEF Deliver, resultSeen, Starting
  <2>2. handledSeen' = [job |-> current_job, result |-> resultSeen]
    BY <1>1, <2>1 DEF Deliver, handledSeen, Verdict, Right
  <2>3. resultSeen # "none" /\ resultSeen' = "none"
    BY <1>1, <2>1 DEF Deliver, resultSeen, Verdict
  <2>4. Service!Deliver
    BY <1>1, <2>2, <2>3 DEF Deliver, Service!Deliver
  <2> QED
    BY <2>4 DEF Service!Next
<1>2. ASSUME NEW j \in Jobs, TakeJob(j), ~crashed
      PROVE  [Service!Next]_(Service!vars)
  <2>1. resultSeen = "none" /\ resultSeen' = "none"
    BY <1>2 DEF TakeJob, resultSeen, Starting
  <2>2. Service!Submit(j)
    BY <1>2, <2>1 DEF TakeJob, Service!Submit, handledSeen, Verdict, Right
  <2> QED
    BY <2>2 DEF Service!Next
<1>3. CASE Done /\ ~crashed
  <2>1. current_job # NoJob /\ ~job_done /\ ~Starting /\ ~Starting' /\ job_done'
    BY <1>3, Zenon DEF Done, IInv, NoRace, Handshake, Working, Starting
  <2>2. UNCHANGED <<current_job, handled, job_result, crashed>>
    BY <1>3 DEF Done
  <2>3. resultSeen = "none" /\ resultSeen' = Verdict(current_job, job_result)
    BY <2>1, <2>2 DEF resultSeen, Verdict, Right
  <2>4. resultSeen' \in {"right"} \cup (IF current_job \in Exact THEN {} ELSE {"wrong"})
    <3>1. ResultRight'
      BY <1>3, ThreadIInv DEF Thread, IInv
    <3>2. current_job \in Exact => Right(current_job, job_result)
      BY <2>1, <2>2, <3>1 DEF ResultRight, Right, Exact
    <3> QED
      BY <2>3, <3>2 DEF Verdict
  <2>5. handledSeen' = handledSeen
    BY <2>2 DEF handledSeen, Verdict, Right
  <2>6. Service!Compute
    BY <1>3, <2>1, <2>2, <2>3, <2>4, <2>5 DEF Service!Compute
  <2> QED
    BY <2>6 DEF Service!Next
<1>4. CASE ReadFails
  <2>1. resultSeen' = resultSeen /\ handledSeen' = handledSeen
    BY <1>4 DEF ReadFails, resultSeen, handledSeen, Verdict, Right, Starting
  <2>2. Service!Die
    BY <1>4, <2>1 DEF ReadFails, Service!Die
  <2> QED
    BY <2>2 DEF Service!Next
<1>5. CASE Signal
  BY <1>5, Hidden DEF Signal, Starting
<1>6. CASE Store
  BY <1>6, Hidden DEF Store, IInv, NoRace, Working, Starting
<1>7. CASE NoTake \/ WriteJob \/ CreateThread \/ MainFill \/ MainTransform
  BY <1>7, Stutter
  DEF NoTake, WriteJob, CreateThread, MainFill, MainTransform, Starting
<1>8. CASE Lock \/ Wait \/ WakeSignalled \/ WakeTimeout
  BY <1>8, Stutter DEF Lock, Wait, WakeSignalled, WakeTimeout, Wakes, Starting
<1>9. CASE Look \/ Fill \/ Transform \/ \E n \in 1 .. left : Read(n)
  BY <1>9, Stutter DEF Look, Fill, Transform, Read, Starting
<1>10. CASE (\E j \in Jobs : Shrink(j)) \/ UNCHANGED vars
  BY <1>10, Stutter DEF Shrink, vars, Starting
<1> QED
  BY <1>1, <1>2, <1>3, <1>4, <1>5, <1>6, <1>7, <1>8, <1>9, <1>10
  DEF Next, Main, MainStart, Thread

\* The thread, the flags and the timer are, for a client of commonHasher, the
\* one-job-at-a-time service of HashService.
THEOREM Refinement == Spec => ImplementsService
BY InitService, StepService, Invariance, PTL
DEF Spec, ImplementsService, Service!Spec

=============================================================================
