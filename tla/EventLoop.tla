------------------------------ MODULE EventLoop ------------------------------
(***************************************************************************)
(* The loop that runs the whole program: utils/net/basicSocket.ml and the  *)
(* stub ml_select of utils/lib/stubs_c.c.  One thread calls the handlers   *)
(* of sockets, hooks and timers; each of them may close any socket, open   *)
(* one, change what it wants, and raise.                                   *)
(*                                                                         *)
(* A deadline is one of: none (infinite_timeout), fresh (set since the     *)
(* clock was read), later, past.  When a deadline passes is up to time.    *)
(* Timers are the infinite ones; a socket's lifetime is a third deadline,  *)
(* that nothing sets anew and select may sleep over, and is left out.      *)
(***************************************************************************)
EXTENDS Naturals, Sequences, FiniteSets, FiniteSetsExt

CONSTANTS Tasks,      \* sockets, used again once nothing refers to them
          FDs,        \* file descriptors of the process
          Sides,      \* "read" and "write"
          Limits,     \* the sets of finite timeouts a new socket may get
          Timers,     \* of add_infinite_timer
          NoFd, None

CanDo == [read |-> "CAN_READ", write |-> "CAN_WRITE"]
TimeoutOf == [read |-> "RTIMEOUT", write |-> "WTIMEOUT"]
Deadlines == {TimeoutOf[s] : s \in Sides}
Checks == <<"RTIMEOUT", "WTIMEOUT", "CAN_READ", "CAN_WRITE">>

ASSUME LoopAssumption ==
  /\ Sides \subseteq {"read", "write"}
  /\ Limits \subseteq SUBSET Deadlines
  /\ NoFd \notin FDs /\ None \notin Tasks \cup Timers

VARIABLES
  task,            \* the records of type t, but for
  fd, closed,      \* the fields that say what a socket owns
  fd_tasks, closed_tasks,
  timers, applied, next_time,  \* the timers of the list, and their fields
  timeout,         \* the deadlines select must not sleep over
  phase,           \* where the loop is
  todo,            \* what exec_tasks or exec_timers has still to look at
  turn, checked,   \* the socket it looks at, how many checks it has made
  call,            \* the program code that runs
  open, ready,     \* the kernel: descriptors in use, what they are ready for
  reported         \* what the last poll reported and no handler has seen

loop == <<phase, todo, turn, checked, timeout>>
world == <<open, ready>>
owned == <<fd, closed, fd_tasks>>
timer == <<timers, applied, next_time>>
vars == <<task, owned, closed_tasks, timer, loop, call, world, reported>>

Ages == {"none", "fresh", "later", "past"}

NoCall == <<None, "none">>
Hook == <<None, "hook">>

Unborn == [flags |-> {}, want |-> {}, limit |-> {},
           next |-> [e \in Deadlines |-> "none"]]

Init ==
  /\ task = [t \in Tasks |-> Unborn]
  /\ fd = [t \in Tasks |-> NoFd] /\ closed = Tasks
  /\ fd_tasks = {} /\ closed_tasks = <<>>
  /\ timers = Timers /\ applied = {} /\ next_time = [m \in Timers |-> "fresh"]
  /\ timeout = {}
  /\ phase = "after_select" /\ call = Hook
  /\ todo = {} /\ turn = None /\ checked = 0
  /\ open = {} /\ ready = [f \in FDs |-> {}]
  /\ reported = {}

-----------------------------------------------------------------------------
(* What the program's code does while the loop has called it.              *)

Running == call # NoCall
Only == UNCHANGED <<loop, call>>
Armed == {x \in Tasks \X Deadlines : task[x[1]].next[x[2]] \in {"fresh", "later"}}
Expired(passed) ==
  [t \in Tasks |-> [task[t] EXCEPT !.next =
     [e \in Deadlines |-> IF <<t, e>> \in passed THEN "past" ELSE @[e]]]]

\* mutant: the descriptor stays in the record after it is closed
CloseTwice(t) ==
  /\ Running
  /\ fd[t] # NoFd
  /\ open' = open \ {fd[t]}
  /\ ready' = [ready EXCEPT ![fd[t]] = {}]
  /\ closed' = closed \cup {t}
  /\ closed_tasks' = <<t>> \o closed_tasks
  /\ UNCHANGED <<task, fd, fd_tasks, timer, reported>> /\ Only

Close(t) ==
  /\ Running
  /\ fd[t] # NoFd
  /\ open' = open \ {fd[t]}
  /\ ready' = [ready EXCEPT ![fd[t]] = {}]
  /\ fd' = [fd EXCEPT ![t] = NoFd]
  /\ closed' = closed \cup {t}
  /\ closed_tasks' = <<t>> \o closed_tasks
  /\ UNCHANGED <<task, fd_tasks, timer, reported>> /\ Only

\* Nothing refers to t: it may stand for a new socket.
Forgotten(t) ==
  /\ t \in closed
  /\ t \notin fd_tasks \cup todo \cup {turn, call[1]}
  /\ \A i \in DOMAIN closed_tasks : closed_tasks[i] # t

\* create_blocking, with a descriptor the kernel has free; its caller may set
\* timeouts (set_rtimeout, set_wtimeout).  It reads the clock: the deadlines of
\* other sockets may have passed (the one whose turn it is keeps its old time).
Create(t, f, limit, late) ==
  /\ Running
  /\ Forgotten(t) /\ f \notin open
  /\ late \subseteq {x \in Armed : x[1] # turn}
  /\ open' = open \cup {f}
  /\ task' = [Expired(late) EXCEPT ![t] =
       [Unborn EXCEPT !.want = {"read"} \cap Sides, !.limit = limit,
          !.next = [e \in Deadlines |-> IF e \in limit THEN "fresh" ELSE "none"]]]
  /\ fd' = [fd EXCEPT ![t] = f]
  /\ closed' = closed \ {t}
  /\ fd_tasks' = fd_tasks \cup {t}
  /\ reported' = {r \in reported : r[1] # t}
  /\ UNCHANGED <<closed_tasks, timer, ready>> /\ Only

\* must_read, must_write; and the references read_allowed, write_allowed
Must(t, s) ==
  /\ Running /\ t \notin closed
  /\ task' = [task EXCEPT ![t].want = IF s \in @ THEN @ \ {s} ELSE @ \cup {s}]
  /\ UNCHANGED <<owned, closed_tasks, timer, world, reported>> /\ Only

\* Its handler reads all that is there, or writes what can be written.
Consume(t, s) ==
  /\ call = <<t, CanDo[s]>> /\ t \notin closed
  /\ ready' = [ready EXCEPT ![fd[t]] = @ \ {s}]
  /\ UNCHANGED <<task, owned, closed_tasks, timer, open, reported>> /\ Only

\* The handler returns or raises: exn_log and "with _" hide the difference.
Return ==
  /\ Running
  /\ call' = NoCall
  /\ UNCHANGED <<task, owned, closed_tasks, timer, loop, world, reported>>

Program ==
  \/ \E t \in Tasks : Close(t)
  \/ \E t \in Tasks, f \in FDs, limit \in Limits, late \in SUBSET Armed :
       Create(t, f, limit, late)
  \/ \E t \in Tasks, s \in Sides : Must(t, s) \/ Consume(t, s)

-----------------------------------------------------------------------------
(* exec_tasks                                                              *)

At(p) == phase = p /\ ~Running
Same == UNCHANGED <<owned, closed_tasks, timer, world, timeout>>

\* mutant: a socket times out for what it wants only, as in iter_task
DueWanted(t, e) ==
  /\ t \notin closed
  /\ \/ /\ e \in Deadlines /\ task[t].next[e] = "past"
        /\ \E s \in task[t].want : e = TimeoutOf[s]
     \/ \E s \in task[t].flags : e = CanDo[s]

Due(t, e) ==
  /\ t \notin closed
  /\ \/ e \in Deadlines /\ task[t].next[e] = "past"
     \/ \E s \in task[t].flags : e = CanDo[s]

DueChecks ==
  {i \in checked + 1 .. Len(Checks) : turn # None /\ Due(turn, Checks[i])}

\* A socket that can be read or written has its timeout start again.
Rearmed(t, e) ==
  [task EXCEPT ![t].next = [d \in Deadlines |->
     IF \E s \in Sides : e = CanDo[s] /\ d = TimeoutOf[s]
     THEN IF d \in task[t].limit THEN "fresh" ELSE "none"
     ELSE @[d]]]

\* The next check that holds calls the handler.
Event ==
  /\ At("tasks") /\ DueChecks # {}
  /\ LET i == Min(DueChecks) IN
     /\ call' = <<turn, Checks[i]>>
     /\ checked' = i
     /\ task' = Rearmed(turn, Checks[i])
     /\ reported' = {r \in reported : <<r[1], CanDo[r[2]]>> # <<turn, Checks[i]>>}
  /\ UNCHANGED <<phase, todo, turn>> /\ Same

NextTask(t) ==
  /\ At("tasks") /\ DueChecks = {} /\ t \in todo
  /\ turn' = t /\ checked' = 0
  /\ todo' = todo \ {t}
  /\ UNCHANGED <<task, phase, call, reported>> /\ Same

\* mutant: an exception leaves exec_tasks
EndTasksEarly ==
  /\ At("tasks") /\ DueChecks = {}
  /\ turn' = None /\ checked' = 0 /\ todo' = {}
  /\ phase' = "after_select"
  /\ call' = Hook
  /\ reported' = {}
  /\ UNCHANGED task /\ Same

EndTasks ==
  /\ At("tasks") /\ DueChecks = {} /\ todo = {}
  /\ turn' = None /\ checked' = 0
  /\ phase' = "after_select"
  /\ call' = Hook
  /\ reported' = {}
  /\ UNCHANGED <<task, todo>> /\ Same

-----------------------------------------------------------------------------
(* exec_timers                                                             *)

Rest == UNCHANGED <<task, owned, timeout, world, reported, turn, checked>>

\* No timer becomes due while the others are called.
TimerDue(m) == m \notin applied /\ next_time[m] = "past"

StartTimers ==
  /\ At("after_select")
  /\ phase' = "timers"
  /\ todo' = {m \in timers : TimerDue(m)}
  /\ UNCHANGED <<closed_tasks, timer, call>> /\ Rest

\* applied is set; the time_handler of add_session_timer has reactivate_timer
\* reset it with a new time, and then calls the function.
Ring(m) ==
  /\ At("timers") /\ m \in todo
  /\ todo' = todo \ {m}
  /\ next_time' = [next_time EXCEPT ![m] = "fresh"]
  /\ call' = <<m, "timer">>
  /\ UNCHANGED <<closed_tasks, timers, applied, phase>> /\ Rest

\* mutant: an exception leaves exec_timers
EndTimersEarly ==
  /\ At("timers")
  /\ phase' = "closed"
  /\ UNCHANGED <<closed_tasks, timer, todo, call>> /\ Rest

EndTimers ==
  /\ At("timers") /\ todo = {}
  /\ phase' = "closed"
  /\ UNCHANGED <<closed_tasks, timer, todo, call>> /\ Rest

\* The sockets closed meanwhile, those that their handlers close included
TellClosed ==
  /\ At("closed") /\ closed_tasks # <<>>
  /\ call' = <<Head(closed_tasks), "CLOSED">>
  /\ closed_tasks' = Tail(closed_tasks)
  /\ UNCHANGED <<timer, phase, todo>> /\ Rest

-----------------------------------------------------------------------------
(* iter_timer, iter_task, select                                           *)

Opened == {t \in fd_tasks : t \notin closed}
Listed == timers \ applied

\* Timers, and the timeouts of what a socket wants
Waits ==
  {<<m, "timer">> : m \in Listed}
    \cup {x \in Opened \X Deadlines :
            \E s \in task[x[1]].want : x[2] = TimeoutOf[s]}

\* A closed socket whose handler was told is garbage.
Iterate ==
  /\ At("closed") /\ closed_tasks = <<>>
  /\ timers' = Listed
  /\ fd_tasks' = Opened
  /\ timeout' = Waits
  /\ task' = [t \in Tasks |-> IF t \in Opened THEN task[t] ELSE Unborn]
  /\ phase' = "select" /\ call' = Hook
  /\ UNCHANGED <<fd, closed, closed_tasks, applied, next_time, todo, turn, checked>>
  /\ UNCHANGED <<world, reported>>

IsPast(x) ==
  IF x[2] = "timer" THEN next_time[x[1]] = "past"
  ELSE x[1] \notin closed /\ task[x[1]].next[x[2]] = "past"

Older(age) == IF age = "fresh" THEN "later" ELSE age

\* The flags of the open sockets, and the clock read after the sleep
Woken(flags) ==
  /\ task' = [t \in Tasks |->
       [task[t] EXCEPT
          !.flags = IF t \in Opened THEN flags[t] ELSE @,
          !.next = [e \in Deadlines |-> Older(@[e])]]]
  /\ next_time' = [m \in Timers |-> Older(next_time[m])]
  /\ reported' = {r \in Opened \X {"read", "write"} : r[2] \in flags[r[1]]}
  /\ phase' = "tasks" /\ todo' = fd_tasks /\ timeout' = {}
  /\ UNCHANGED <<timers, applied, owned, closed_tasks, world, call, turn, checked>>

\* What is ready of what was asked for, and a read for the sockets that report
\* an error or that the peer has left.
Ready(hung) ==
  [t \in Opened |-> (task[t].want \cap ready[fd[t]])
                      \cup (IF t \in hung THEN {"read"} ELSE {})]

\* try_poll.  With nothing to report it returns when the first deadline is past.
Poll(hung) ==
  /\ At("select")
  /\ hung \subseteq {t \in Opened : task[t].want # {}}
  /\ \/ \E t \in Opened : Ready(hung)[t] # {}
     \/ \E x \in timeout : IsPast(x)
  /\ Woken(Ready(hung))

\* mutant: poll leaves the flags alone when it fails, as select does
PollFailsStale ==
  /\ At("select")
  /\ phase' = "tasks" /\ todo' = fd_tasks
  /\ reported' = {} /\ timeout' = {}
  /\ UNCHANGED <<task, timer, owned, closed_tasks, world, call, turn, checked>>

\* A signal interrupts poll: the flags are reset, the exception is ignored.
PollFails ==
  /\ At("select")
  /\ Woken([t \in Opened |-> {}])

-----------------------------------------------------------------------------
(* The world.  Between two polls nobody but a handler that consumes looks   *)
(* at what is ready, and only Create at the clock: data arrive, and         *)
(* deadlines pass, while the loop is in select.                             *)

Arrive(f, s) ==
  /\ At("select")
  /\ f \in open
  /\ ready' = [ready EXCEPT ![f] = @ \cup {s}]
  /\ UNCHANGED <<task, owned, closed_tasks, timer, loop, call, open, reported>>

Pass(t, e) ==
  /\ At("select")
  /\ <<t, e>> \in Armed /\ t \notin closed
  /\ task' = Expired({<<t, e>>})
  /\ UNCHANGED <<owned, closed_tasks, timer, loop, call, world, reported>>

PassTimer(m) ==
  /\ At("select")
  /\ m \in Listed /\ next_time[m] # "past"
  /\ next_time' = [next_time EXCEPT ![m] = "past"]
  /\ UNCHANGED <<timers, applied, task, owned, closed_tasks, loop, call, world, reported>>

Loop ==
  \/ Return \/ Event \/ EndTasks \/ StartTimers \/ EndTimers
  \/ TellClosed \/ Iterate
  \/ \E t \in Tasks : NextTask(t)
  \/ \E m \in Timers : Ring(m)

Polls == \E hung \in SUBSET Tasks : Poll(hung)

Next ==
  \/ Loop \/ Polls \/ PollFails \/ Program
  \/ \E f \in FDs, s \in Sides : Arrive(f, s)
  \/ \E t \in Tasks, e \in Deadlines : Pass(t, e)
  \/ \E m \in Timers : PassTimer(m)

Spec == Init /\ [][Next]_vars

\* Handlers return, signals do not interrupt every poll, and a deadline passes
\* when it is not set anew between two polls, or when poll sleeps long enough.
Fairness ==
  /\ WF_vars(Loop) /\ SF_vars(Polls)
  /\ \A t \in Tasks, e \in Deadlines :
       WF_vars(Pass(t, e)) /\ SF_vars(Pass(t, e) /\ task[t].next[e] = "later")
  /\ \A m \in Timers :
       WF_vars(PassTimer(m)) /\ SF_vars(PassTimer(m) /\ next_time[m] = "later")

FairSpec == Spec /\ Fairness

-----------------------------------------------------------------------------
\* Every variable holds a value of its type.
TypeOK ==
  /\ task \in [Tasks -> [flags : SUBSET {"read", "write"}, want : SUBSET Sides,
                         limit : SUBSET Deadlines, next : [Deadlines -> Ages]]]
  /\ fd \in [Tasks -> FDs \cup {NoFd}] /\ closed \subseteq Tasks
  /\ fd_tasks \subseteq Tasks /\ closed_tasks \in Seq(Tasks)
  /\ timers \subseteq Timers /\ applied \subseteq Timers
  /\ next_time \in [Timers -> Ages]
  /\ timeout \subseteq (Tasks \X Deadlines) \cup (Timers \X {"timer"})
  /\ phase \in {"select", "tasks", "after_select", "timers", "closed"}
  /\ todo \in (SUBSET Tasks) \cup (SUBSET Timers)
  /\ turn \in Tasks \cup {None} /\ checked \in 0 .. Len(Checks)
  /\ todo # {} => phase \in {"tasks", "timers"}
  /\ call \in {NoCall, Hook} \cup (Timers \X {"timer"})
              \cup (Tasks \X {"RTIMEOUT", "WTIMEOUT", "CAN_READ", "CAN_WRITE",
                              "CLOSED"})
  /\ open \subseteq FDs /\ ready \in [FDs -> SUBSET Sides]
  /\ reported \subseteq Tasks \X {"read", "write"}

\* Whatever handlers close, and however descriptors are used again: an open
\* socket has a descriptor of its own, that nobody else can close, and every
\* descriptor in use has its socket among fd_tasks (none leaks).
FdsOwned ==
  /\ \A t \in Tasks : t \in closed <=> fd[t] = NoFd
  /\ \A t \in Tasks : t \notin closed => fd[t] \in open /\ t \in fd_tasks
  /\ \A t, u \in Tasks : t \notin closed /\ fd[t] = fd[u] => t = u
  /\ open \subseteq {fd[t] : t \in fd_tasks}
  /\ \A i, j \in DOMAIN closed_tasks : closed_tasks[i] = closed_tasks[j] => i = j

\* A report of poll is delivered at most once, to the socket it was made for and
\* only while that socket is open: not to one that took its descriptor since, and
\* not again when the next poll fails.
ReportsOnce ==
  [][\A t \in Tasks, s \in Sides :
       call # call' /\ call' = <<t, CanDo[s]>>
         => <<t, s>> \in reported /\ t \notin closed]_vars

\* Handlers of closed sockets do not close others for ever.
Ends == []<>(phase = "select")

\* A socket that stays ready for what it wants is called for it, whatever the
\* other handlers do or raise and however signals interrupt poll; and so is an
\* infinite timer, again and again, whatever its own function raises.
NoStarvation ==
  Ends =>
    /\ \A t \in Tasks, s \in Sides :
         []<>(\/ t \in closed \/ s \notin task[t].want
              \/ s \notin ready[fd[t]] \/ call = <<t, CanDo[s]>>)
    /\ \A m \in Timers : []<>(call = <<m, "timer">>)

\* A socket on which nothing happens is told when its timeout is over, also when
\* it does not want to read: no connection is kept for ever by its silence.
SilenceTimesOut ==
  Ends => \A t \in Tasks, e \in Deadlines :
    []<>(task[t].next[e] \in {"none", "fresh"} \/ t \in closed \/ call = <<t, e>>)
=============================================================================
