-------------------------- MODULE EventLoop_proofs --------------------------
(***************************************************************************)
(* Proofs about EventLoop for any number of sockets, descriptors, sides    *)
(* and timers: no handler can close the descriptor of another socket, and  *)
(* no report of poll is delivered twice or to the wrong socket.            *)
(***************************************************************************)
EXTENDS EventLoop, SequenceTheorems, TLAPS

\* What ownership needs to know of the types
Typed ==
  /\ fd \in [Tasks -> FDs \cup {NoFd}]
  /\ closed \subseteq Tasks /\ fd_tasks \subseteq Tasks
  /\ closed_tasks \in Seq(Tasks) /\ open \subseteq FDs

\* Only closed sockets wait for their handler to be told.
ClosedWait == \A i \in DOMAIN closed_tasks : closed_tasks[i] \in closed

Owned == Typed /\ FdsOwned /\ ClosedWait

\* The initial state has no socket and no descriptor.
LEMMA InitOwned == Init => Owned
BY DEF Init, Owned, ClosedWait, FdsOwned, Typed

-----------------------------------------------------------------------------
\* A step that neither opens, closes nor forgets a socket keeps what is owned.
Quiet == UNCHANGED <<owned, closed_tasks, open>>

LEMMA QuietOwned == Owned /\ Quiet => Owned'
BY DEF Owned, Typed, ClosedWait, FdsOwned, Quiet, owned

\* Closing a socket gives its descriptor back and queues it once: it was open,
\* so it does not wait already.
LEMMA CloseOwned ==
  ASSUME Owned, NEW t \in Tasks, Close(t)
  PROVE  Owned'
<1> USE DEF Owned, Typed
<1>1. /\ fd[t] # NoFd /\ open' = open \ {fd[t]}
      /\ fd' = [fd EXCEPT ![t] = NoFd] /\ closed' = closed \cup {t}
      /\ closed_tasks' = <<t>> \o closed_tasks
      /\ fd_tasks' = fd_tasks
  BY DEF Close
<1>2. closed_tasks' \in Seq(Tasks)
  BY <1>1, ConcatProperties
<1>3. /\ Len(closed_tasks') = Len(closed_tasks) + 1
      /\ closed_tasks'[1] = t
      /\ \A i \in 2 .. Len(closed_tasks) + 1 : closed_tasks'[i] = closed_tasks[i - 1]
  BY <1>1, ConcatProperties
<1>4. t \notin closed
  BY <1>1 DEF FdsOwned
<1>5. /\ DOMAIN closed_tasks = 1 .. Len(closed_tasks)
      /\ DOMAIN closed_tasks' = 1 .. Len(closed_tasks) + 1
      /\ Len(closed_tasks) \in Nat
  BY <1>2, <1>3
<1>6. ClosedWait'
  <2> SUFFICES ASSUME NEW i \in DOMAIN closed_tasks'
               PROVE  closed_tasks'[i] \in closed'
    BY DEF ClosedWait
  <2>1. CASE i = 1
    BY <2>1, <1>1, <1>3
  <2>2. CASE i # 1
    <3>1. i \in 2 .. Len(closed_tasks) + 1 /\ i - 1 \in DOMAIN closed_tasks
      BY <2>2, <1>5
    <3> QED
      BY <3>1, <1>1, <1>3 DEF ClosedWait
  <2> QED
    BY <2>1, <2>2
<1>7. \A i, j \in DOMAIN closed_tasks' : closed_tasks'[i] = closed_tasks'[j] => i = j
  <2> SUFFICES ASSUME NEW i \in DOMAIN closed_tasks', NEW j \in DOMAIN closed_tasks',
                      closed_tasks'[i] = closed_tasks'[j], i < j
               PROVE  FALSE
    BY <1>5
  <2>1. j \in 2 .. Len(closed_tasks) + 1 /\ j - 1 \in DOMAIN closed_tasks
    BY <1>5
  <2>2. closed_tasks'[j] = closed_tasks[j - 1] /\ closed_tasks'[j] # t
    BY <2>1, <1>3, <1>4 DEF ClosedWait
  <2>3. i # 1 /\ i \in 2 .. Len(closed_tasks) + 1 /\ i - 1 \in DOMAIN closed_tasks
    BY <2>2, <1>3, <1>5
  <2>4. closed_tasks[i - 1] = closed_tasks[j - 1]
    BY <2>2, <2>3, <1>3
  <2> QED
    BY <2>1, <2>3, <2>4, <1>5 DEF FdsOwned
<1>8. FdsOwned'
  <2>1. \A u \in Tasks : fd'[u] = IF u = t THEN NoFd ELSE fd[u]
    BY <1>1
  <2>2. \A u \in Tasks : u \in closed' <=> fd'[u] = NoFd
    BY <1>1, <2>1 DEF FdsOwned
  <2>3. \A u \in Tasks : u \notin closed' => fd'[u] \in open' /\ u \in fd_tasks'
    BY <1>1, <1>4, <2>1 DEF FdsOwned
  <2>4. \A u, v \in Tasks : u \notin closed' /\ fd'[u] = fd'[v] => u = v
    BY <1>1, <2>1, <2>2 DEF FdsOwned
  <2>5. open' \subseteq {fd'[u] : u \in fd_tasks'}
    BY <1>1, <2>1 DEF FdsOwned
  <2> QED
    BY <1>7, <2>2, <2>3, <2>4, <2>5 DEF FdsOwned
<1>9. fd' \in [Tasks -> FDs \cup {NoFd}] /\ closed' \subseteq Tasks
  BY <1>1
<1> QED
  BY <1>1, <1>2, <1>6, <1>8, <1>9

\* A new socket gets a descriptor that no open socket has.
LEMMA CreateOwned ==
  ASSUME Owned, NEW t \in Tasks, NEW f \in FDs, NEW limit, NEW late,
         Create(t, f, limit, late)
  PROVE  Owned'
<1> USE DEF Owned, Typed
<1>1. /\ f \notin open /\ open' = open \cup {f}
      /\ fd' = [fd EXCEPT ![t] = f] /\ closed' = closed \ {t}
      /\ fd_tasks' = fd_tasks \cup {t}
      /\ closed_tasks' = closed_tasks
      /\ t \notin fd_tasks
      /\ \A i \in DOMAIN closed_tasks : closed_tasks[i] # t
  BY DEF Create, Forgotten
<1>2. \A u \in Tasks : fd'[u] = IF u = t THEN f ELSE fd[u]
  BY <1>1
<1>3. \A u \in Tasks : u \in closed' <=> fd'[u] = NoFd
  BY <1>1, <1>2, LoopAssumption DEF FdsOwned
<1>4. \A u \in Tasks : u \notin closed' => fd'[u] \in open' /\ u \in fd_tasks'
  BY <1>1, <1>2 DEF FdsOwned
<1>5. \A u, v \in Tasks : u \notin closed' /\ fd'[u] = fd'[v] => u = v
  BY <1>1, <1>2, <1>3, LoopAssumption DEF FdsOwned
<1>6. open' \subseteq {fd'[u] : u \in fd_tasks'}
  BY <1>1, <1>2 DEF FdsOwned
<1>7. ClosedWait'
  BY <1>1 DEF ClosedWait
<1>8. FdsOwned'
  BY <1>1, <1>3, <1>4, <1>5, <1>6 DEF FdsOwned
<1> QED
  BY <1>1, <1>7, <1>8

\* iter_task forgets the closed sockets, once all their handlers are told.
LEMMA IterateOwned == ASSUME Owned, Iterate PROVE Owned'
<1>1. /\ UNCHANGED <<fd, closed, closed_tasks, open>>
      /\ fd_tasks' = {t \in fd_tasks : t \notin closed}
  BY DEF Iterate, Opened, world
<1>2. open \subseteq {fd[t] : t \in fd_tasks'}
  <2> SUFFICES ASSUME NEW f \in open
               PROVE  \E t \in fd_tasks' : fd[t] = f
    OBVIOUS
  <2>1. PICK t \in fd_tasks : fd[t] = f
    BY DEF Owned, FdsOwned
  <2>2. t \notin closed
    BY <2>1, LoopAssumption DEF Owned, Typed, FdsOwned
  <2> QED
    BY <1>1, <2>1, <2>2
<1> QED
  BY <1>1, <1>2 DEF Owned, Typed, FdsOwned, ClosedWait

\* Telling the first of the queue leaves the others in it.
LEMMA TellClosedOwned == ASSUME Owned, TellClosed PROVE Owned'
<1> USE DEF Owned, Typed
<1>1. /\ UNCHANGED <<owned, open>> /\ closed_tasks # <<>>
      /\ closed_tasks' = Tail(closed_tasks)
  BY DEF TellClosed, Rest, world
<1>2. /\ closed_tasks' \in Seq(Tasks)
      /\ DOMAIN closed_tasks = 1 .. Len(closed_tasks)
      /\ DOMAIN closed_tasks' = 1 .. Len(closed_tasks) - 1
      /\ Len(closed_tasks) \in Nat
      /\ \A i \in 1 .. Len(closed_tasks) - 1 : closed_tasks'[i] = closed_tasks[i + 1]
  BY <1>1
<1>3. \A i \in DOMAIN closed_tasks' : i + 1 \in DOMAIN closed_tasks
  BY <1>2
<1>4. ClosedWait'
  BY <1>1, <1>2, <1>3 DEF ClosedWait, owned
<1>5. \A i, j \in DOMAIN closed_tasks' : closed_tasks'[i] = closed_tasks'[j] => i = j
  <2> SUFFICES ASSUME NEW i \in DOMAIN closed_tasks', NEW j \in DOMAIN closed_tasks',
                      closed_tasks'[i] = closed_tasks'[j]
               PROVE  i = j
    OBVIOUS
  <2>1. closed_tasks[i + 1] = closed_tasks[j + 1]
    BY <1>2
  <2>2. i + 1 = j + 1
    BY <1>3, <2>1 DEF FdsOwned
  <2> QED
    BY <1>2, <2>2
<1>6. FdsOwned'
  BY <1>1, <1>5 DEF FdsOwned, owned
<1> QED
  BY <1>1, <1>2, <1>4, <1>6 DEF owned

\* Every other step is quiet.
LEMMA LoopOwned == Owned /\ Loop => Owned'
<1> SUFFICES ASSUME Owned, Loop PROVE Owned'
  OBVIOUS
<1> USE DEF Quiet, world, timer
<1>1. CASE Return
  BY <1>1, QuietOwned DEF Return
<1>2. CASE Event
  BY <1>2, QuietOwned DEF Event, Same
<1>3. CASE EndTasks
  BY <1>3, QuietOwned DEF EndTasks, Same
<1>4. CASE StartTimers
  BY <1>4, QuietOwned DEF StartTimers, Rest
<1>5. CASE EndTimers
  BY <1>5, QuietOwned DEF EndTimers, Rest
<1>6. CASE TellClosed
  BY <1>6, TellClosedOwned
<1>7. CASE Iterate
  BY <1>7, IterateOwned
<1>8. CASE \E t \in Tasks : NextTask(t)
  BY <1>8, QuietOwned DEF NextTask, Same
<1>9. CASE \E m \in Timers : Ring(m)
  BY <1>9, QuietOwned DEF Ring, Rest
<1> QED
  BY <1>1, <1>2, <1>3, <1>4, <1>5, <1>6, <1>7, <1>8, <1>9 DEF Loop

LEMMA ProgramOwned == Owned /\ Program => Owned'
<1> SUFFICES ASSUME Owned, Program PROVE Owned'
  OBVIOUS
<1> USE DEF Quiet, world, timer
<1>1. CASE \E t \in Tasks : Close(t)
  BY <1>1, CloseOwned
<1>2. CASE \E t \in Tasks, f \in FDs, limit \in Limits, late \in SUBSET Armed :
             Create(t, f, limit, late)
  BY <1>2, CreateOwned
<1>3. CASE \E t \in Tasks, s \in Sides : Must(t, s) \/ Consume(t, s)
  BY <1>3, QuietOwned DEF Must, Consume
<1> QED
  BY <1>1, <1>2, <1>3 DEF Program

LEMMA NextOwned == Owned /\ [Next]_vars => Owned'
<1> SUFFICES ASSUME Owned, [Next]_vars PROVE Owned'
  OBVIOUS
<1> USE DEF Quiet, world, timer
<1>1. CASE Loop
  BY <1>1, LoopOwned
<1>2. CASE Program
  BY <1>2, ProgramOwned
<1>3. CASE Polls \/ PollFails
  BY <1>3, QuietOwned DEF Polls, Poll, PollFails, Woken
<1>4. CASE \E f \in FDs, s \in Sides : Arrive(f, s)
  BY <1>4, QuietOwned DEF Arrive
<1>5. CASE \E t \in Tasks, e \in Deadlines : Pass(t, e)
  BY <1>5, QuietOwned DEF Pass
<1>6. CASE \E m \in Timers : PassTimer(m)
  BY <1>6, QuietOwned DEF PassTimer
<1>7. CASE UNCHANGED vars
  BY <1>7, QuietOwned DEF vars
<1> QED
  BY <1>1, <1>2, <1>3, <1>4, <1>5, <1>6, <1>7 DEF Next

\* No handler, whatever it opens or closes and however descriptors are used
\* again, reaches the descriptor of another socket or leaks one (FdsOwned).
THEOREM Ownership == Spec => []FdsOwned
<1>1. Owned => FdsOwned
  BY DEF Owned
<1> QED
  BY InitOwned, NextOwned, <1>1, PTL DEF Spec

-----------------------------------------------------------------------------
(* The types                                                               *)

Both == {"read", "write"}
Records == [flags : SUBSET Both, want : SUBSET Sides, limit : SUBSET Deadlines,
            next : [Deadlines -> Ages]]

LEMMA InitTypeOK == Init => TypeOK
BY DEF Init, TypeOK, Unborn, Ages, Hook, Checks

LEMMA UnbornType == Unborn \in Records
BY DEF Unborn, Records, Ages

\* The clock moves no field but the deadlines.
LEMMA ExpiredType ==
  ASSUME task \in [Tasks -> Records], NEW late
  PROVE  /\ Expired(late) \in [Tasks -> Records]
         /\ \A t \in Tasks : Expired(late)[t].flags = task[t].flags
BY DEF Expired, Records, Ages

LEMMA RearmedType ==
  ASSUME task \in [Tasks -> Records], NEW t, NEW e
  PROVE  /\ Rearmed(t, e) \in [Tasks -> Records]
         /\ \A u \in Tasks : Rearmed(t, e)[u].flags = task[u].flags
BY DEF Rearmed, Records, Ages

\* Min chooses one of the checks.
LEMMA NextCheck ==
  ASSUME checked \in Nat, DueChecks # {}
  PROVE  Min(DueChecks) \in DueChecks /\ DueChecks \subseteq checked + 1 .. 4
<1>1. DueChecks \subseteq checked + 1 .. 4
  BY DEF DueChecks, Checks
<1>2. DueChecks \subseteq 1 .. 4
  BY <1>1
<1>3. \E i \in DueChecks : \A j \in DueChecks : i <= j
  <2>1. CASE 1 \in DueChecks
    BY <2>1, <1>2
  <2>2. CASE 1 \notin DueChecks /\ 2 \in DueChecks
    BY <2>2, <1>2
  <2>3. CASE 1 \notin DueChecks /\ 2 \notin DueChecks /\ 3 \in DueChecks
    BY <2>3, <1>2
  <2>4. CASE 1 \notin DueChecks /\ 2 \notin DueChecks /\ 3 \notin DueChecks
    <3>1. PICK i \in DueChecks : TRUE
      OBVIOUS
    <3>2. \A j \in DueChecks : j = 4
      BY <2>4, <1>2
    <3> QED
      BY <3>1, <3>2
  <2> QED
    BY <2>1, <2>2, <2>3, <2>4
<1> QED
  BY <1>1, <1>3 DEF Min

\* What the loop does keeps the types.
LEMMA EventTypeOK == ASSUME TypeOK, Event PROVE TypeOK'
<1> DEFINE i == Min(DueChecks)
<1>1. i \in DueChecks /\ i \in 1 .. 4 /\ turn \in Tasks
  BY NextCheck DEF Event, TypeOK, Checks, DueChecks
<1>2. /\ call' = <<turn, Checks[i]>> /\ checked' = i
      /\ task' = Rearmed(turn, Checks[i])
      /\ reported' \subseteq reported
      /\ UNCHANGED <<phase, todo, turn, fd, closed, fd_tasks, closed_tasks, timer,
                     open, ready, timeout>>
  BY DEF Event, Same, world, owned, timer
<1> HIDE DEF i
<1>3. Checks[i] \in {"RTIMEOUT", "WTIMEOUT", "CAN_READ", "CAN_WRITE"}
  BY <1>1 DEF Checks
<1>4. task' \in [Tasks -> Records]
  BY <1>2, RearmedType DEF TypeOK, Records, Both
<1>5. call' \in Tasks \X {"RTIMEOUT", "WTIMEOUT", "CAN_READ", "CAN_WRITE", "CLOSED"}
  BY <1>1, <1>2, <1>3
<1>6. checked' \in 0 .. Len(Checks) /\ reported' \subseteq Tasks \X Both
  BY <1>1, <1>2 DEF TypeOK, Checks, Both
<1> QED
  BY <1>2, <1>4, <1>5, <1>6 DEF TypeOK, Records, Both, timer

LEMMA LoopTypeOK == ASSUME TypeOK, Loop PROVE TypeOK'
<1> USE DEF TypeOK, Hook, NoCall, Checks, world, owned, timer
<1>1. CASE Return
  BY <1>1 DEF Return, loop
<1>2. CASE Event
  BY <1>2, EventTypeOK
<1>3. CASE EndTasks
  BY <1>3 DEF EndTasks, Same
<1>4. CASE StartTimers
  <2>1. /\ todo' \subseteq Timers /\ phase' = "timers"
        /\ UNCHANGED <<task, fd, closed, fd_tasks, closed_tasks, timers, applied,
                       next_time, call, timeout, open, ready, reported, turn, checked>>
    BY <1>4 DEF StartTimers, Rest
  <2>2. todo' \in (SUBSET Tasks) \cup (SUBSET Timers)
    BY <2>1
  <2>3. todo' # {} => phase' \in {"tasks", "timers"}
    BY <2>1
  <2> QED
    BY <2>1, <2>2, <2>3
<1>5. CASE EndTimers
  BY <1>5 DEF EndTimers, Rest
<1>6. CASE TellClosed
  <2>1. Head(closed_tasks) \in Tasks /\ Tail(closed_tasks) \in Seq(Tasks)
    BY <1>6 DEF TellClosed
  <2> QED
    BY <1>6, <2>1 DEF TellClosed, Rest
<1>7. CASE Iterate
  <2>1. task' \in [Tasks -> Records]
    BY <1>7, UnbornType DEF Iterate, Records, Both
  <2>2. timers' \subseteq Timers
    BY <1>7 DEF Iterate, Listed
  <2>3. timeout' \subseteq (Tasks \X Deadlines) \cup (Timers \X {"timer"})
    BY <1>7 DEF Iterate, Waits, Opened, Listed
  <2>4. /\ fd_tasks' \subseteq fd_tasks /\ phase' = "select" /\ call' = Hook
        /\ UNCHANGED <<fd, closed, closed_tasks, applied, next_time, todo, turn,
                       checked, world, reported>>
    BY <1>7 DEF Iterate, Opened
  <2>5. todo = {}
    BY <1>7 DEF Iterate, At
  <2> QED
    BY <2>1, <2>2, <2>3, <2>4, <2>5 DEF Records, Both
<1>8. CASE \E t \in Tasks : NextTask(t)
  BY <1>8 DEF NextTask, Same
<1>9. CASE \E m \in Timers : Ring(m)
  BY <1>9 DEF Ring, Rest, Ages
<1> QED
  BY <1>1, <1>2, <1>3, <1>4, <1>5, <1>6, <1>7, <1>8, <1>9 DEF Loop

\* So do the handlers
LEMMA ProgramTypeOK == ASSUME TypeOK, Program PROVE TypeOK'
<1> USE DEF TypeOK, world, owned, timer, Only, loop
<1>1. CASE \E t \in Tasks : Close(t)
  <2>1. PICK t \in Tasks : Close(t)
    BY <1>1
  <2>2. closed_tasks' \in Seq(Tasks)
    BY <2>1, ConcatProperties DEF Close
  <2> QED
    BY <2>1, <2>2 DEF Close
<1>2. CASE \E t \in Tasks, f \in FDs, limit \in Limits, late \in SUBSET Armed :
             Create(t, f, limit, late)
  <2>1. PICK t \in Tasks, f \in FDs, limit \in Limits, late \in SUBSET Armed :
             Create(t, f, limit, late)
    BY <1>2
  <2>2. limit \subseteq Deadlines
    BY LoopAssumption
  <2>3. [Unborn EXCEPT !.want = {"read"} \cap Sides, !.limit = limit,
           !.next = [e \in Deadlines |-> IF e \in limit THEN "fresh" ELSE "none"]]
          \in Records
    BY <2>2 DEF Unborn, Records, Ages
  <2>4. Expired(late) \in [Tasks -> Records]
    BY ExpiredType DEF Records, Both
  <2>5. task' \in [Tasks -> Records]
    BY <2>1, <2>3, <2>4 DEF Create
  <2> QED
    BY <2>1, <2>5 DEF Create, Records, Both
<1>3. CASE \E t \in Tasks, s \in Sides : Must(t, s)
  <2>1. PICK t \in Tasks, s \in Sides : Must(t, s)
    BY <1>3
  <2> DEFINE want == task[t].want
             new == IF s \in want THEN want \ {s} ELSE want \cup {s}
  <2>2. task[t] \in Records /\ new \in SUBSET Sides
    BY DEF Records, Both
  <2>3. task' = [task EXCEPT ![t] = [task[t] EXCEPT !.want = new]]
    BY <2>1 DEF Must
  <2> HIDE DEF new
  <2>4. [task[t] EXCEPT !.want = new] \in Records
    BY <2>2 DEF Records
  <2>5. task' \in [Tasks -> Records]
    BY <2>3, <2>4 DEF Records, Both
  <2> QED
    BY <2>1, <2>5 DEF Must, Records, Both
<1>4. CASE \E t \in Tasks, s \in Sides : Consume(t, s)
  <2>1. PICK t \in Tasks, s \in Sides : Consume(t, s)
    BY <1>4
  <2>2. ready' \in [FDs -> SUBSET Sides]
    BY <2>1 DEF Consume
  <2> QED
    BY <2>1, <2>2 DEF Consume
<1> QED
  BY <1>1, <1>2, <1>3, <1>4 DEF Program

\* What poll and the world do
LEMMA WokenType ==
  ASSUME task \in [Tasks -> Records], fd_tasks \subseteq Tasks,
         NEW flags \in [Opened -> SUBSET Both], Woken(flags)
  PROVE  /\ task' \in [Tasks -> Records]
         /\ \A t \in Opened : task'[t].flags = flags[t]
<1> USE DEF Opened
<1> DEFINE new(t) ==
      [task[t] EXCEPT !.flags = IF t \in Opened THEN flags[t] ELSE @,
                      !.next = [e \in Deadlines |-> Older(@[e])]]
<1>1. task' = [t \in Tasks |-> new(t)]
  BY DEF Woken
<1>2. ASSUME NEW t \in Tasks
      PROVE  new(t) \in Records /\ (t \in Opened => new(t).flags = flags[t])
  <2>1. task[t] \in Records
    OBVIOUS
  <2>2. (IF t \in Opened THEN flags[t] ELSE task[t].flags) \in SUBSET Both
    BY <2>1 DEF Records
  <2>3. [e \in Deadlines |-> Older(task[t].next[e])] \in [Deadlines -> Ages]
    BY <2>1 DEF Records, Older, Ages
  <2> QED
    BY <2>1, <2>2, <2>3 DEF Records
<1> HIDE DEF new
<1> QED
  BY <1>1, <1>2

LEMMA WokenTypeOK ==
  ASSUME TypeOK, NEW flags \in [Opened -> SUBSET Both], Woken(flags)
  PROVE  TypeOK'
<1> USE DEF TypeOK, world, owned, timer
<1>1. task' \in [Tasks -> Records]
  BY WokenType DEF Woken, Records, Both
<1>2. next_time' \in [Timers -> Ages]
  BY DEF Woken, Older, Ages
<1>3. reported' \subseteq Tasks \X Both
  BY DEF Woken, Opened, Both
<1> QED
  BY <1>1, <1>2, <1>3 DEF Woken, Records, Both

LEMMA ReadyType == TypeOK => \A hung : Ready(hung) \in [Opened -> SUBSET Both]
<1> SUFFICES ASSUME TypeOK, NEW hung
             PROVE  Ready(hung) \in [Opened -> SUBSET Both]
  OBVIOUS
<1>1. \A t \in Opened : (task[t].want \cap ready[fd[t]])
                          \cup (IF t \in hung THEN {"read"} ELSE {}) \in SUBSET Both
  BY LoopAssumption DEF TypeOK, Opened, Both
<1> QED
  BY <1>1 DEF Ready

LEMMA NextTypeOK == ASSUME TypeOK, [Next]_vars PROVE TypeOK'
<1> USE DEF world, owned, timer
<1>1. CASE Loop
  BY <1>1, LoopTypeOK
<1>2. CASE Program
  BY <1>2, ProgramTypeOK
<1>3. CASE Polls
  BY <1>3, WokenTypeOK, ReadyType DEF Polls, Poll
<1>4. CASE PollFails
  BY <1>4, WokenTypeOK DEF PollFails, Both
<1>5. CASE \E f \in FDs, s \in Sides : Arrive(f, s)
  BY <1>5 DEF Arrive, TypeOK, loop
<1>6. CASE \E t \in Tasks, e \in Deadlines : Pass(t, e)
  <2>1. task' \in [Tasks -> Records]
    BY <1>6, ExpiredType DEF Pass, TypeOK, Records, Both
  <2> QED
    BY <1>6, <2>1 DEF Pass, TypeOK, loop, Records, Both
<1>7. CASE \E m \in Timers : PassTimer(m)
  BY <1>7 DEF PassTimer, TypeOK, loop, Ages
<1>8. CASE UNCHANGED vars
  BY <1>8 DEF vars, TypeOK, loop
<1> QED
  BY <1>1, <1>2, <1>3, <1>4, <1>5, <1>6, <1>7, <1>8 DEF Next

\* Every reachable state is of its type (TypeOK).
THEOREM TypeCorrectness == Spec => []TypeOK
BY InitTypeOK, NextTypeOK, PTL DEF Spec

-----------------------------------------------------------------------------
(* Reports                                                                 *)

\* exec_tasks has still to look at side s of socket t.
Ahead(t, s) ==
  \/ t \in todo
  \/ t = turn /\ \E i \in checked + 1 .. Len(Checks) : Checks[i] = CanDo[s]

\* While exec_tasks runs, a flag it has still to look at is one that the last
\* poll set and nobody has been told of.  Otherwise it has no turn.
Reports ==
  /\ phase = "tasks" =>
       /\ todo \subseteq Tasks /\ turn \notin todo
       /\ \A t \in Tasks \ closed, s \in Both :
            s \in task[t].flags /\ Ahead(t, s) => <<t, s>> \in reported
  /\ phase # "tasks" => turn = None

IInv == TypeOK /\ Owned /\ Reports

LEMMA InitReports == Init => Reports
BY DEF Init, Reports

\* A step that keeps the place of exec_tasks and opens nothing: flags, and what
\* is reported, stay.
LEMMA StillReports ==
  ASSUME IInv, UNCHANGED <<phase, todo, turn, checked, reported>>,
         closed \subseteq closed',
         \A t \in Tasks : task'[t].flags = task[t].flags
  PROVE  Reports'
BY DEF IInv, Reports, Ahead

LEMMA EventReports ==
  ASSUME IInv, Event
  PROVE  Reports' /\ \A t \in Tasks, s \in Sides :
           call' = <<t, CanDo[s]>> => <<t, s>> \in reported /\ t \notin closed
<1> DEFINE i == Min(DueChecks)
<1>1. /\ i \in DueChecks /\ i \in checked + 1 .. 4 /\ turn \in Tasks
      /\ checked \in 0 .. 4 /\ phase = "tasks"
  BY NextCheck DEF IInv, Event, At, TypeOK, Checks, DueChecks
<1>2. /\ call' = <<turn, Checks[i]>> /\ checked' = i
      /\ task' = Rearmed(turn, Checks[i])
      /\ reported' = {r \in reported : <<r[1], CanDo[r[2]]>> # <<turn, Checks[i]>>}
      /\ UNCHANGED <<phase, todo, turn, closed>>
  BY DEF Event, Same, owned
<1>3. Due(turn, Checks[i])
  BY <1>1 DEF DueChecks
<1> HIDE DEF i
<1>4. \A t \in Tasks : task'[t].flags = task[t].flags
  BY <1>2, RearmedType DEF IInv, TypeOK, Records, Both
<1>5. ASSUME NEW t \in Tasks, NEW s \in Sides, call' = <<t, CanDo[s]>>
      PROVE  <<t, s>> \in reported /\ t \notin closed
  <2>1. t = turn /\ CanDo[s] = Checks[i] /\ s \in Both
    BY <1>2, <1>5, LoopAssumption DEF Both
  <2>2. CanDo[s] \notin Deadlines
    BY <2>1, LoopAssumption DEF CanDo, TimeoutOf, Deadlines, Both
  <2>3. PICK d \in task[turn].flags : Checks[i] = CanDo[d]
    BY <1>3, <2>1, <2>2 DEF Due
  <2>4. d \in Both
    BY <1>1, <2>3 DEF IInv, TypeOK, Both
  <2>5. d = s
    BY <2>1, <2>3, <2>4 DEF CanDo, Both
  <2>6. Ahead(t, s)
    BY <1>1, <2>1 DEF Ahead, Checks
  <2> QED
    BY <1>1, <1>3, <2>1, <2>3, <2>5, <2>6 DEF IInv, Reports, Due
<1>6. ASSUME NEW t \in Tasks \ closed, NEW s \in Both, s \in task[t].flags, Ahead(t, s)'
      PROVE  <<t, s>> \in reported'
  <2>1. Ahead(t, s)
    BY <1>1, <1>2, <1>6 DEF Ahead, Checks
  <2>2. <<t, s>> \in reported
    BY <1>1, <1>6, <2>1 DEF IInv, Reports
  <2>3. t # turn \/ CanDo[s] # Checks[i]
    BY <1>1, <1>2, <1>6 DEF Ahead, Checks, IInv, Reports
  <2> QED
    BY <1>2, <2>2, <2>3
<1>7. Reports'
  BY <1>1, <1>2, <1>4, <1>6 DEF IInv, Reports
<1> QED
  BY <1>5, <1>7

LEMMA LoopReports == ASSUME IInv, Loop PROVE Reports'
<1> USE DEF world, owned, timer
<1>1. CASE Return
  BY <1>1, StillReports DEF Return, loop
<1>2. CASE Event
  BY <1>2, EventReports
<1>3. CASE EndTasks
  BY <1>3 DEF EndTasks, Reports
<1>4. CASE StartTimers
  BY <1>4 DEF StartTimers, Rest, Reports, IInv, At
<1>5. CASE EndTimers
  BY <1>5 DEF EndTimers, Rest, Reports, IInv, At
<1>6. CASE TellClosed
  BY <1>6 DEF TellClosed, Rest, Reports, IInv, At
<1>7. CASE Iterate
  BY <1>7 DEF Iterate, Reports, IInv, At
<1>8. CASE \E t \in Tasks : NextTask(t)
  <2>1. PICK t \in todo : NextTask(t)
    BY <1>8 DEF NextTask
  <2>2. /\ phase = "tasks" /\ turn' = t /\ todo' = todo \ {t}
        /\ UNCHANGED <<task, phase, reported, closed>>
    BY <2>1 DEF NextTask, At, Same
  <2>3. \A u, s : Ahead(u, s)' => u \in todo
    BY <2>1, <2>2 DEF Ahead
  <2> QED
    BY <2>2, <2>3 DEF IInv, Reports, Ahead
<1>9. CASE \E m \in Timers : Ring(m)
  BY <1>9 DEF Ring, Rest, Reports, IInv, At
<1> QED
  BY <1>1, <1>2, <1>3, <1>4, <1>5, <1>6, <1>7, <1>8, <1>9 DEF Loop

\* A new socket is not ahead: nothing refers to the record it takes.
LEMMA CreateReports ==
  ASSUME IInv, NEW t \in Tasks, NEW f \in FDs, NEW limit, NEW late,
         Create(t, f, limit, late)
  PROVE  Reports'
<1>1. /\ t \notin todo /\ t # turn /\ closed' = closed \ {t}
      /\ reported' = {r \in reported : r[1] # t}
      /\ UNCHANGED <<phase, todo, turn, checked>>
  BY DEF Create, Forgotten, Only, loop
<1>2. \A u \in Tasks : u # t => task'[u].flags = task[u].flags
  BY ExpiredType DEF Create, IInv, TypeOK, Records, Both
<1>3. \A u, s : Ahead(u, s)' => Ahead(u, s) /\ u # t
  BY <1>1 DEF Ahead
<1> QED
  BY <1>1, <1>2, <1>3 DEF IInv, Reports

\* The reports of poll are the flags of the sockets exec_tasks will look at.
LEMMA WokenReports ==
  ASSUME IInv, NEW flags \in [Opened -> SUBSET Both], Woken(flags), phase = "select"
  PROVE  Reports'
<1>1. /\ reported' = {r \in Opened \X Both : r[2] \in flags[r[1]]}
      /\ phase' = "tasks" /\ todo' = fd_tasks
      /\ UNCHANGED <<closed, turn, checked>>
  BY DEF Woken, owned, Both
<1>2. turn = None /\ fd_tasks \subseteq Tasks /\ None \notin Tasks
  BY LoopAssumption DEF IInv, Reports, TypeOK
<1>3. \A t \in Opened : task'[t].flags = flags[t]
  BY WokenType DEF IInv, TypeOK, Records, Both
<1>4. ASSUME NEW t \in Tasks \ closed, NEW s \in Both, s \in task'[t].flags,
             Ahead(t, s)'
      PROVE  <<t, s>> \in reported'
  <2>1. t \in Opened
    BY <1>1, <1>2, <1>4 DEF Ahead, Opened
  <2> QED
    BY <1>1, <1>3, <1>4, <2>1
<1> QED
  BY <1>1, <1>2, <1>4 DEF Reports

LEMMA NextReports == ASSUME IInv, [Next]_vars PROVE Reports'
<1> USE DEF world, owned, timer, loop
<1>1. CASE Loop
  BY <1>1, LoopReports
<1>2. CASE \E t \in Tasks : Close(t)
  BY <1>2, StillReports DEF Close, Only
<1>3. CASE \E t \in Tasks, f \in FDs, limit \in Limits, late \in SUBSET Armed :
             Create(t, f, limit, late)
  BY <1>3, CreateReports
<1>4. CASE \E t \in Tasks, s \in Sides : Must(t, s)
  <2>1. \A t \in Tasks : task'[t].flags = task[t].flags
    BY <1>4 DEF Must, IInv, TypeOK
  <2> QED
    BY <1>4, <2>1, StillReports DEF Must, Only
<1>5. CASE \E t \in Tasks, s \in Sides : Consume(t, s)
  BY <1>5, StillReports DEF Consume, Only
<1>6. CASE Polls
  BY <1>6, WokenReports, ReadyType DEF Polls, Poll, At, IInv
<1>7. CASE PollFails
  BY <1>7, WokenReports DEF PollFails, At, Both
<1>8. CASE \E f \in FDs, s \in Sides : Arrive(f, s)
  BY <1>8, StillReports DEF Arrive
<1>9. CASE \E t \in Tasks, e \in Deadlines : Pass(t, e)
  BY <1>9, StillReports, ExpiredType DEF Pass, IInv, TypeOK, Records, Both
<1>10. CASE \E m \in Timers : PassTimer(m)
  BY <1>10, StillReports DEF PassTimer
<1>11. CASE UNCHANGED vars
  BY <1>11, StillReports DEF vars
<1> QED
  BY <1>1, <1>2, <1>3, <1>4, <1>5, <1>6, <1>7, <1>8, <1>9, <1>10, <1>11
  DEF Next, Program

LEMMA InitIInv == Init => IInv
BY InitTypeOK, InitOwned, InitReports DEF IInv

LEMMA NextIInv == IInv /\ [Next]_vars => IInv'
BY NextTypeOK, NextOwned, NextReports DEF IInv

\* Only exec_tasks tells a socket that it can be read or written.
LEMMA Telling ==
  ASSUME IInv, [Next]_vars, call # call', NEW t \in Tasks, NEW s \in Sides,
         call' = <<t, CanDo[s]>>
  PROVE  Event
<1>1. CanDo[s] \in {"CAN_READ", "CAN_WRITE"}
  BY LoopAssumption DEF CanDo
<1> USE DEF Hook, NoCall, loop
<1>2. CASE Loop
  BY <1>1, <1>2 DEF Loop, Return, EndTasks, StartTimers, EndTimers, TellClosed,
     Iterate, NextTask, Ring
<1>3. CASE Program
  BY <1>3 DEF Program, Close, Create, Must, Consume, Only
<1>4. CASE Polls \/ PollFails
  BY <1>4 DEF Polls, Poll, PollFails, Woken
<1>5. CASE ~(Loop \/ Program \/ Polls \/ PollFails)
  BY <1>5 DEF Next, Arrive, Pass, PassTimer, vars
<1> QED
  BY <1>2, <1>3, <1>4, <1>5

\* A report of poll is delivered at most once, to the socket it was made for
\* and only while it is open (ReportsOnce).
THEOREM Delivery == Spec => ReportsOnce
<1>1. IInv /\ [Next]_vars =>
        \A t \in Tasks, s \in Sides :
          call # call' /\ call' = <<t, CanDo[s]>>
            => <<t, s>> \in reported /\ t \notin closed
  BY Telling, EventReports
<1>2. IInv /\ [Next]_vars =>
        [\A t \in Tasks, s \in Sides :
          call # call' /\ call' = <<t, CanDo[s]>>
            => <<t, s>> \in reported /\ t \notin closed]_vars
  BY <1>1
<1> QED
  BY InitIInv, NextIInv, <1>2, PTL DEF Spec, ReportsOnce
=============================================================================
