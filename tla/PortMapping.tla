---------------------------- MODULE PortMapping ----------------------------
(***************************************************************************)
(* Port forwarding through the router, utils/net/upnp_stubs.c: the main    *)
(* program fills the arrays g_maps (ports to forward) and g_unmaps (ports  *)
(* to give back); a POSIX thread visits them and talks NAT-PMP and UPnP    *)
(* with the router.  The arrays are searched without the mutex and written *)
(* with it: a search and the write it leads to are two steps here, and one *)
(* critical section of g_mutex is one step.                                *)
(*                                                                         *)
(* Time is abstracted to the comparisons made: an entry may be due or not  *)
(* when the thread looks (overTime < now), a command allowed or not when   *)
(* it is visited (now >= commandTime) and a lease at its end (renewTime).  *)
(* The thread's sleep, a timed lock of g_delay_mutex that returns within 30 *)
(* seconds whether main unlocks it or not, is time too and leaves no trace. *)
(***************************************************************************)
EXTENDS Naturals, FiniteSets

CONSTANTS MAX_MAPS,   \* slots of g_maps and of g_unmaps
          Items,      \* the (intPort, extPort, isTcp) the program asks for
          Threads,    \* identities of the threads pthread_create returns
          MaxTries,   \* times libnatpmp sends a request before it gives up
          Gateways    \* the routers considered: sets of protocols

ASSUME PortMappingAssumption ==
  /\ MAX_MAPS \in Nat \ {0}
  /\ Items \subseteq [int : Nat \ {0}, ext : Nat \ {0}, tcp : BOOLEAN]
  /\ IsFiniteSet(Threads) /\ Threads # {} /\ 0 \notin Threads
  /\ MaxTries \in Nat
  /\ Gateways \subseteq SUBSET {"upnp", "natpmp"}

VARIABLES
  g_maps, g_unmaps,   \* the two arrays
  g_running, g_stop,  \* "keep going" (main to thread), "I stopped" (back)
  thread,             \* thread -> where it is, and at which slot
  g_pthread,          \* the thread created last (0: none yet)
  cancelled,          \* threads pthread_cancel was called on
  main,               \* the call the main program is in
  speaks,             \* the protocols the router speaks (fixed)
  upnpTable,          \* <<extPort, isTcp>> the router forwards by UPnP
  natTable,           \* intPort the router forwards by NAT-PMP
  disowned,           \* UPnP mappings the router denied, failed to delete, or
                      \* made without the program learning of it
  forgotten           \* intPort of NAT-PMP mappings whose entry was freed in ERR

shared == <<g_maps, g_unmaps>>
router == <<upnpTable, natTable, disowned, forgotten>>
vars == <<shared, g_running, g_stop, thread, g_pthread, cancelled, main,
          speaks, router>>

Slots == 1 .. MAX_MAPS
UpnpStates == {"IDLE", "ERR", "DISCOVER", "MAP", "UNMAP"}
NatStates == {"IDLE", "ERR", "DISCOVER", "RECV_PUB", "SEND_MAP", "RECV_MAP",
              "SEND_UNMAP", "RECV_UNMAP"}
Ports == {0} \cup UNION {{m.int, m.ext} : m \in Items}

SlotType ==
  [enabled : BOOLEAN, int : Ports, ext : Ports, tcp : BOOLEAN,
   nat : NatStates, natMapped : BOOLEAN, natDiscovered : BOOLEAN,
   upnp : UpnpStates, upnpMapped : BOOLEAN,
   hot : BOOLEAN, tries : 0 .. MaxTries]

\* memset 0: both states are IDLE, which is 0
Zero == [enabled |-> FALSE, int |-> 0, ext |-> 0, tcp |-> FALSE,
         nat |-> "IDLE", natMapped |-> FALSE, natDiscovered |-> FALSE,
         upnp |-> "IDLE", upnpMapped |-> FALSE, hot |-> FALSE, tries |-> 0]

\* the entry ml_upnpRemoveMap builds for a port that was not forwarded
Blank(m) == [Zero EXCEPT !.int = m.int, !.ext = m.ext, !.tcp = m.tcp]

\* (mutant) the NAT-PMP state is left IDLE
FreshIdle(m) == [Blank(m) EXCEPT !.enabled = TRUE, !.upnp = "DISCOVER"]

\* the entry maps_add_item writes
Fresh(m) == [Blank(m) EXCEPT !.enabled = TRUE,
                             !.nat = "DISCOVER", !.upnp = "DISCOVER"]

Matches(s, m) == s.int = m.int /\ s.ext = m.ext /\ s.tcp = m.tcp
First(S) == {i \in S : \A k \in S : i <= k}     \* {} or the smallest
Key(s) == <<s.ext, s.tcp>>                       \* a mapping of the router

-----------------------------------------------------------------------------
(***************************************************************************)
(* A pulse is a row of tests, each of which may enable the next.  A stage  *)
(* takes the set P of what the tests before it can have left, an entry s   *)
(* with the router's tables, and returns the set of what it can leave.     *)
(*                                                                         *)
(* natpmpPulse: a request is a datagram, sent or not, that the router acts *)
(* on or not; libnatpmp has the answer ("ok"), has sent the request again  *)
(* ("again", at most MaxTries times) or gives up ("err").                  *)
(***************************************************************************)
Answers(s) ==
  {"err"} \cup (IF "natpmp" \in speaks THEN {"ok"} ELSE {})
          \cup (IF s.tries < MaxTries THEN {"again"} ELSE {})

Answered(s, answer) ==
  CASE answer = "ok" -> [s EXCEPT !.nat = "IDLE", !.tries = 0]
    [] answer = "again" -> [s EXCEPT !.tries = @ + 1]
    [] OTHER -> [s EXCEPT !.nat = "ERR", !.tries = 0]

\* time >= commandTime: eight seconds since the last request
Ready(s) == {TRUE, ~s.hot}

Become(p, nat) == [p EXCEPT !.s.nat = nat]

\* The request just sent sets commandTime: its answer waits for a later visit.
NatDiscover(P) ==
  UNION {CASE p.s.enabled /\ p.s.nat = "DISCOVER" ->
                {[Become(p, n) EXCEPT !.s.natDiscovered = TRUE] :
                   n \in {"RECV_PUB", "ERR"}}
           [] p.s.nat = "RECV_PUB" ->
                {[p EXCEPT !.s = Answered(@, a)] : a \in Answers(p.s)}
                \cup (IF FALSE \in Ready(p.s) THEN {p} ELSE {})
           [] OTHER -> {p} : p \in P}

NatWantUnmap(P) ==
  {IF p.s.nat \in {"IDLE", "ERR"} /\ p.s.natMapped /\ ~p.s.enabled
     THEN Become(p, "SEND_UNMAP") ELSE p : p \in P}

NatSend(P, from, to) ==
  UNION {IF p.s.nat = from
           THEN {Become(p, to), Become(p, "ERR")}
                \cup (IF FALSE \in Ready(p.s) THEN {p} ELSE {})
           ELSE {p} : p \in P}

\* What the router may have done with the request when the answer is read.
RouterActs(p, a, table) ==
  CASE "natpmp" \notin speaks -> {p.nat}
    [] a = "ok" -> {table}
    [] OTHER -> {p.nat, table}

\* The answer names the private port, which is compared with extPort.
GivenBack(s, a) ==
  IF a # "ok" THEN Answered(s, a)
  ELSE IF s.ext = s.int
    THEN [Answered(s, a) EXCEPT !.ext = 0, !.natMapped = FALSE] ELSE s

NatReadUnmap(P) ==
  UNION {IF p.s.nat # "RECV_UNMAP" THEN {p}
         ELSE UNION {{[p EXCEPT !.nat = T, !.s = GivenBack(p.s, a)] :
                        T \in RouterActs(p, a, p.nat \ {p.s.int})} :
                     a \in Answers(p.s)} : p \in P}

\* A mapping is asked for, or for once more when its lease is at its end.
NatWantMap(P) ==
  UNION {IF p.s.nat = "IDLE" /\ p.s.enabled /\ ~p.s.natMapped /\ p.s.natDiscovered
           THEN {Become(p, "SEND_MAP")}
         ELSE IF p.s.nat = "IDLE" /\ p.s.natMapped
           THEN {p, Become(p, "SEND_MAP")} ELSE {p} : p \in P}

\* The private port of the answer becomes the external port.
Forwarded(s, a) ==
  IF a # "ok" THEN Answered(s, a)
  ELSE [Answered(s, a) EXCEPT !.ext = s.int, !.natMapped = TRUE]

NatReadMap(P) ==
  UNION {IF p.s.nat # "RECV_MAP" THEN {p}
         ELSE UNION {{[p EXCEPT !.nat = T, !.s = Forwarded(p.s, a)] :
                        T \in RouterActs(p, a, p.nat \cup {p.s.int})} :
                     a \in Answers(p.s)} : p \in P}

NatUnmapHalf(P) ==
  NatReadUnmap(NatSend(NatWantUnmap(NatDiscover(P)), "SEND_UNMAP", "RECV_UNMAP"))
NatMapHalf(P) == NatReadMap(NatSend(NatWantMap(P), "SEND_MAP", "RECV_MAP"))
NatPulse(P) == NatMapHalf(NatUnmapHalf(P))

\* The thread dies in sending a request, or in reading the answer, for which it
\* may have sent it again.  The router has acted on the request or not.
NatCalls(P) ==
  LET unmap == NatWantUnmap(NatDiscover(P))
      map == NatWantMap(NatUnmapHalf(P))
      In(Q, state) == {p \in Q : p.s.nat = state}
  IN In(P, "RECV_PUB")
     \cup In(unmap, "SEND_UNMAP")
     \cup In(NatSend(unmap, "SEND_UNMAP", "RECV_UNMAP"), "RECV_UNMAP")
     \cup In(map, "SEND_MAP")
     \cup In(NatSend(map, "SEND_MAP", "RECV_MAP"), "RECV_MAP")

Requested(p) ==
  CASE p.s.nat \in {"SEND_UNMAP", "RECV_UNMAP"} -> p.nat \ {p.s.int}
    [] p.s.nat \in {"SEND_MAP", "RECV_MAP"} -> p.nat \cup {p.s.int}
    [] OTHER -> p.nat

Resent(s) ==
  IF s.nat \in {"SEND_UNMAP", "SEND_MAP"} THEN {s}
  ELSE {s} \cup {Answered(s, a) : a \in Answers(s) \cap {"again"}}

NatInterrupted(P) ==
  UNION {UNION {{[p EXCEPT !.nat = T, !.s = s] : s \in Resent(p.s)} :
                T \in RouterActs(p, "again", Requested(p))} :
         p \in NatCalls(P)}

-----------------------------------------------------------------------------
(***************************************************************************)
(* upnpPulse: the same shape over commands that have returned when they    *)
(* are done.  A router that denies a mapping it has, does not delete it,   *)
(* or makes it and fails to say so, has disowned it: the program cannot    *)
(* know.                                                                   *)
(***************************************************************************)
Could == IF "upnp" \in speaks THEN BOOLEAN ELSE {FALSE}

UpnpDiscover(P) ==
  UNION {IF p.s.enabled /\ p.s.upnp = "DISCOVER"
           THEN {[p EXCEPT !.s.upnp = IF igd THEN "IDLE" ELSE "ERR"] :
                   igd \in Could}
           ELSE {p} : p \in P}

UpnpWantUnmap(P) ==
  {IF p.s.upnp = "IDLE" /\ p.s.upnpMapped /\ ~p.s.enabled
     THEN [p EXCEPT !.s.upnp = "UNMAP"] ELSE p : p \in P}

Denied(p) == p.disowned \cup ({Key(p.s)} \cap p.upnp)

\* Of an entry of g_maps: is the port still forwarded?
UpnpCheck(P) ==
  UNION {IF p.s.enabled /\ p.s.upnpMapped
           THEN {[p EXCEPT !.s.upnpMapped = FALSE, !.disowned = Denied(p)]}
                \cup (IF Key(p.s) \in p.upnp THEN {p} ELSE {})
           ELSE {p} : p \in P}

\* The result of UPNP_DeletePortMapping is not looked at.
UpnpUnmap(P) ==
  UNION {IF p.s.upnp = "UNMAP"
           THEN {[p EXCEPT !.s.upnpMapped = FALSE, !.s.upnp = "IDLE", !.s.ext = 0,
                           !.upnp = IF done THEN @ \ {Key(p.s)} ELSE @,
                           !.disowned = IF done THEN @ \ {Key(p.s)} ELSE Denied(p)] :
                   done \in Could}
           ELSE {p} : p \in P}

UpnpWantMap(P) ==
  {IF p.s.upnp = "IDLE" /\ p.s.enabled /\ ~p.s.upnpMapped
     THEN [p EXCEPT !.s.upnp = "MAP"] ELSE p : p \in P}

Made(p) ==
  [p EXCEPT !.s.upnpMapped = TRUE, !.s.upnp = "IDLE",
            !.upnp = @ \cup {Key(p.s)}, !.disowned = @ \ {Key(p.s)}]

NotMade(p) ==
  [p EXCEPT !.s.upnpMapped = FALSE, !.s.upnp = "ERR", !.disowned = Denied(p)]

\* The router may have made the mapping of which its answer says nothing.
UpnpMap(P) ==
  UNION {IF p.s.upnp = "MAP"
           THEN {NotMade(p)} \cup
                (IF "upnp" \in speaks
                   THEN {Made(p), NotMade([p EXCEPT !.upnp = @ \cup {Key(p.s)}])}
                   ELSE {})
           ELSE {p} : p \in P}

UpnpAsk(P) == UpnpCheck(UpnpWantUnmap(UpnpDiscover(P)))
UpnpPulse(P) == UpnpMap(UpnpWantMap(UpnpUnmap(UpnpAsk(P))))

\* The thread dies in the discovery, in the port check, or in a command, of which
\* the router has heard or not.
UpnpInterrupted(P) ==
  LET discover == {p \in P : p.s.enabled /\ p.s.upnp = "DISCOVER"}
      check == {p \in UpnpWantUnmap(UpnpDiscover(P)) : p.s.enabled /\ p.s.upnpMapped}
      unmap == {p \in UpnpAsk(P) : p.s.upnp = "UNMAP"}
      map == {p \in UpnpWantMap(UpnpUnmap(UpnpAsk(P))) : p.s.upnp = "MAP"}
  IN discover \cup check
     \cup unmap \cup {[p EXCEPT !.upnp = @ \ {Key(p.s)}, !.disowned = @ \ {Key(p.s)}] :
                       p \in unmap}
     \cup map \cup {q \in {[p EXCEPT !.upnp = @ \cup {Key(p.s)}] : p \in map} :
                      "upnp" \in speaks}

-----------------------------------------------------------------------------
Threading(t, pc, i) == thread' = [thread EXCEPT ![t] = [pc |-> pc, i |-> i]]
At(t, pc) == thread[t].pc = pc

\* On to the slots after the one visited.
Visited(t, loop) == Threading(t, loop, thread[t].i + 1)

Init ==
  /\ g_maps = [i \in Slots |-> Zero]                          \* init_maps
  /\ g_unmaps = [i \in Slots |-> Zero]
  /\ g_running = FALSE
  /\ g_stop = FALSE
  /\ thread = [t \in Threads |-> [pc |-> "none", i |-> 1]]
  /\ g_pthread = 0
  /\ cancelled = {}
  /\ main = [op |-> "idle"]
  /\ speaks \in Gateways
  /\ upnpTable = {}
  /\ natTable = {}
  /\ disowned = {}
  /\ forgotten = {}

Return == main' = [op |-> "idle"]
Call(op) == main.op = "idle" /\ main' = op
OnlyMain == UNCHANGED <<thread, g_pthread, speaks, router>>
OnlySearch == /\ UNCHANGED <<shared, g_running, g_stop, cancelled>>
              /\ OnlyMain

(***************************************************************************)
(* maps_add_item                                                           *)
(***************************************************************************)
Enabled(m) == {i \in Slots : g_maps[i].enabled /\ Matches(g_maps[i], m)}
FreeMaps == {i \in Slots : ~g_maps[i].enabled}
\* (mutant) without the test of extPort
FreeUnmapsAny == Slots

FreeUnmaps == {j \in Slots : g_unmaps[j].ext = 0}

AddItem(m) ==
  /\ Enabled(m) = {}
  /\ \E i \in First(FreeMaps) : Call([op |-> "add", to |-> i, item |-> m])
  /\ OnlySearch

AddWrite ==
  /\ main.op = "add"
  /\ g_maps' = [g_maps EXCEPT ![main.to] = Fresh(main.item)]
  /\ Return
  /\ UNCHANGED <<g_unmaps, g_running, g_stop, cancelled>> /\ OnlyMain

(***************************************************************************)
(* maps_remove_item: move the entry, or, when there is none and none       *)
(* waits in g_unmaps, put a blank one there.                               *)
(***************************************************************************)
RemoveItem(m) ==
  /\ \E j \in First(FreeUnmaps) :
       \/ \E i \in First(Enabled(m)) :
            Call([op |-> "move", from |-> i, to |-> j])
       \/ /\ Enabled(m) = {}
          /\ \A k \in Slots : ~Matches(g_unmaps[k], m)
          /\ Call([op |-> "put", to |-> j, item |-> m])
  /\ OnlySearch

\* overTime = 0: it may be visited sooner than 60 seconds after the last time.
Moved(s) == [s EXCEPT !.enabled = FALSE, !.hot = TRUE]

MoveWrite ==
  /\ main.op = "move"
  /\ g_unmaps' = [g_unmaps EXCEPT ![main.to] = Moved(g_maps[main.from])]
  /\ g_maps' = [g_maps EXCEPT ![main.from] = Zero]
  /\ Return
  /\ UNCHANGED <<g_running, g_stop, cancelled>> /\ OnlyMain

PutWrite ==
  /\ main.op = "put"
  /\ g_unmaps' = [g_unmaps EXCEPT ![main.to] = Blank(main.item)]
  /\ Return
  /\ UNCHANGED <<g_maps, g_running, g_stop, cancelled>> /\ OnlyMain

(***************************************************************************)
(* ml_upnpRemoveAllMaps: one slot after the other, then wait until g_unmaps*)
(* is empty or the time is over.                                           *)
(***************************************************************************)
RemoveAllMaps == Call([op |-> "clear", from |-> 1]) /\ OnlySearch

\* (mutant) one slot too many
NextSlotOver(i) ==
  IF i > MAX_MAPS THEN [op |-> "clear_wait"] ELSE [op |-> "clear", from |-> i + 1]

NextSlot(i) ==
  IF i = MAX_MAPS THEN [op |-> "clear_wait"] ELSE [op |-> "clear", from |-> i + 1]

Waiting(m) == \E k \in Slots : Matches(g_unmaps[k], m)

ClearSearch ==
  /\ main.op = "clear"
  /\ LET s == g_maps[main.from]
         free == {j \in FreeUnmaps : ~g_unmaps[j].enabled}
     IN IF ~s.enabled \/ Waiting(s) \/ free = {}
          THEN main' = NextSlot(main.from)
          ELSE \E j \in First(free) :
                 main' = [op |-> "clear_move", from |-> main.from, to |-> j]
  /\ OnlySearch

ClearMove ==
  /\ main.op = "clear_move"
  /\ g_unmaps' = [g_unmaps EXCEPT ![main.to] = Moved(g_maps[main.from])]
  /\ g_maps' = [g_maps EXCEPT ![main.from] = Zero]
  /\ main' = NextSlot(main.from)
  /\ UNCHANGED <<g_running, g_stop, cancelled>> /\ OnlyMain

ClearDone == main.op = "clear_wait" /\ Return /\ OnlySearch

(***************************************************************************)
(* upnp_thread_start: the thread exists before g_running is set.           *)
(***************************************************************************)
Start ==
  /\ ~g_running
  /\ \E t \in Threads : /\ At(t, "none")
                        /\ Threading(t, "created", 1)
                        /\ g_pthread' = t
  /\ Call([op |-> "start"])
  /\ UNCHANGED <<shared, g_running, g_stop, cancelled, speaks, router>>

StartSet ==
  /\ main.op = "start"
  /\ g_running' = TRUE /\ g_stop' = FALSE
  /\ Return
  /\ UNCHANGED <<shared, cancelled>> /\ OnlyMain

(***************************************************************************)
(* upnp_thread_stop: ask, wait some seconds for the answer, then cancel    *)
(* g_pthread, the thread created last.                                     *)
(***************************************************************************)
Stop ==
  /\ Call([op |-> "stop"])
  /\ g_running' = FALSE /\ g_stop' = FALSE
  /\ UNCHANGED <<shared, cancelled>> /\ OnlyMain

StopSeen ==
  /\ main.op = "stop" /\ g_stop
  /\ g_stop' = FALSE
  /\ Return
  /\ UNCHANGED <<shared, g_running, cancelled>> /\ OnlyMain

StopTimeout ==
  /\ main.op = "stop"
  /\ cancelled' = cancelled \cup {t \in {g_pthread} \ {0} : ~At(t, "none")}
  /\ Return
  /\ UNCHANGED <<shared, g_running, g_stop>> /\ OnlyMain

-----------------------------------------------------------------------------
(***************************************************************************)
(* upnpNatpmpThread.  "unmaps" and "maps" are its two loops over the slots *)
(* (the tests made without the mutex), "pulse_..." the critical section.    *)
(***************************************************************************)
OnlyThread == UNCHANGED <<g_pthread, main, speaks>>
OnlyPc == /\ OnlyThread
          /\ UNCHANGED <<shared, g_running, g_stop, cancelled, router>>

Enter(t) ==
  /\ At(t, "created")
  /\ g_stop' = FALSE
  /\ Threading(t, "loop", 1)
  /\ UNCHANGED <<shared, g_running, cancelled, router>> /\ OnlyThread

Loop(t) ==
  /\ At(t, "loop")
  /\ Threading(t, IF g_running THEN "unmaps" ELSE "leave", 1)
  /\ OnlyPc

ToUnmap(s) == ~s.enabled /\ s.ext > 0
ToMap(s) == s.enabled /\ s.ext > 0

\* The next entry that is due, if g_running is still set.
FindUnmap(t, i) ==
  /\ At(t, "unmaps") /\ g_running
  /\ i >= thread[t].i /\ ToUnmap(g_unmaps[i])
  /\ Threading(t, "pulse_unmaps", i)
  /\ OnlyPc

NoMoreUnmaps(t) == At(t, "unmaps") /\ Threading(t, "maps", 1) /\ OnlyPc

FindMap(t, i) ==
  /\ At(t, "maps") /\ g_running
  /\ i >= thread[t].i /\ ToMap(g_maps[i])
  /\ Threading(t, "pulse_maps", i)
  /\ OnlyPc

NoMoreMaps(t) ==
  /\ At(t, "maps")
  /\ Threading(t, IF g_running THEN "loop" ELSE "leave", 1)
  /\ OnlyPc

\* Both protocols, in this order.
Before(s) == {[s |-> s, nat |-> natTable, upnp |-> upnpTable,
               disowned |-> disowned]}
Cooled(P) == {[p EXCEPT !.s.hot = FALSE] : p \in P}
Pulses(s) == Cooled(UpnpPulse(NatPulse(Before(s))))

\* A visit of a thread that is cancelled: it dies in the first call of the network,
\* before it changed anything, or in a later one that it was in.
Cut(s) == Cooled(Before(s) \cup NatInterrupted(Before(s))
                 \cup UpnpInterrupted(NatPulse(Before(s))))

\* natpmpStatus and upnpStatus as numbers of ml_port_forwarding
NatStatus(s) ==
  CASE s.nat = "IDLE" -> IF s.natMapped THEN 4 ELSE 1
    [] s.nat = "DISCOVER" -> 1
    [] s.nat \in {"SEND_UNMAP", "RECV_UNMAP"} -> 2
    [] s.nat = "ERR" -> 0
    [] OTHER -> 3
UpnpStatus(s) ==
  CASE s.upnp = "IDLE" -> IF s.upnpMapped THEN 4 ELSE 1
    [] s.upnp = "DISCOVER" -> 1
    [] s.upnp = "UNMAP" -> 2
    [] s.upnp = "MAP" -> 3
    [] OTHER -> 0

\* (mutant) the smaller of the two
UnmappedEither(s) ==
  1 \in {NatStatus(s), UpnpStatus(s)} /\ 0 \notin {NatStatus(s), UpnpStatus(s)}

\* getStatus, the larger of the two, is ML_PORT_UNMAPPED.
Unmapped(s) ==
  /\ 1 \in {NatStatus(s), UpnpStatus(s)}
  /\ {NatStatus(s), UpnpStatus(s)} \subseteq {0, 1}

RouterSays(p) ==
  /\ natTable' = p.nat
  /\ upnpTable' = p.upnp
  /\ disowned' = p.disowned

\* The mappings of S are forgotten, those the router no longer has are not, nor is
\* that of an entry for which the answer has come.
Forgets(p, S) ==
  forgotten' = p.nat \cap (S \cup (forgotten \ {x \in {p.s.int} : p.s.natMapped}))

\* Line 824 goes by the larger status: an entry may be freed with one protocol in
\* error, while the router still has its mapping.
PulseUnmaps(t) ==
  /\ At(t, "pulse_unmaps")
  /\ \E p \in Pulses(g_unmaps[thread[t].i]) :
       /\ g_unmaps' = [g_unmaps EXCEPT ![thread[t].i] =
                         IF Unmapped(p.s) THEN Zero ELSE p.s]
       /\ RouterSays(p)
       /\ Forgets(p, {x \in {p.s.int} : Unmapped(p.s) /\ p.s.nat = "ERR"})
  /\ Visited(t, "unmaps")
  /\ UNCHANGED <<g_maps, g_running, g_stop, cancelled>> /\ OnlyThread

PulseMaps(t) ==
  /\ At(t, "pulse_maps")
  /\ \E p \in Pulses(g_maps[thread[t].i]) :
       /\ g_maps' = [g_maps EXCEPT ![thread[t].i] = p.s]
       /\ RouterSays(p) /\ Forgets(p, {})
  /\ Visited(t, "maps")
  /\ UNCHANGED <<g_unmaps, g_running, g_stop, cancelled>> /\ OnlyThread

Leave(t) ==
  /\ At(t, "leave")
  /\ g_stop' = TRUE
  /\ Threading(t, "none", 1)
  /\ cancelled' = cancelled \ {t}
  /\ UNCHANGED <<shared, g_running, router>> /\ OnlyThread

\* A thread that was cancelled dies in its visit, whose mutex nobody unlocks.
Cancelled(t) ==
  /\ t \in cancelled
  /\ LET i == thread[t].i
     IN \/ /\ At(t, "pulse_unmaps")
           /\ \E p \in Cut(g_unmaps[i]) :
                /\ g_unmaps' = [g_unmaps EXCEPT ![i] = p.s]
                /\ RouterSays(p) /\ Forgets(p, {})
           /\ UNCHANGED g_maps
        \/ /\ At(t, "pulse_maps")
           /\ \E p \in Cut(g_maps[i]) :
                /\ g_maps' = [g_maps EXCEPT ![i] = p.s]
                /\ RouterSays(p) /\ Forgets(p, {})
           /\ UNCHANGED g_unmaps
  /\ Threading(t, "none", 1)
  /\ cancelled' = cancelled \ {t}
  /\ UNCHANGED <<g_running, g_stop>> /\ OnlyThread

Main ==
  \/ \E m \in Items : AddItem(m) \/ RemoveItem(m)
  \/ RemoveAllMaps \/ Start \/ Stop

InCall ==
  \/ AddWrite \/ MoveWrite \/ PutWrite \/ ClearSearch \/ ClearMove \/ ClearDone
  \/ StartSet \/ StopSeen \/ StopTimeout

Thread(t) ==
  \/ Enter(t) \/ Loop(t) \/ NoMoreUnmaps(t) \/ NoMoreMaps(t)
  \/ \E i \in Slots : FindUnmap(t, i) \/ FindMap(t, i)
  \/ PulseUnmaps(t) \/ PulseMaps(t) \/ Leave(t)

Next ==
  \/ Main \/ InCall
  \/ \E t \in Threads : Thread(t) \/ Cancelled(t)

Spec == Init /\ [][Next]_vars

\* The thread is scheduled, its sleep ends, and every entry becomes due again
\* (overTime passes).
Fairness ==
  /\ \A t \in Threads :
       /\ WF_vars(Thread(t))
       /\ \A i \in Slots : SF_vars(FindUnmap(t, i)) /\ SF_vars(FindMap(t, i))

FairSpec == Spec /\ Fairness

-----------------------------------------------------------------------------
\* Every variable holds a value of its type.
TypeOK ==
  /\ g_maps \in [Slots -> SlotType] /\ g_unmaps \in [Slots -> SlotType]
  /\ {g_running, g_stop} \subseteq BOOLEAN
  /\ \A t \in Threads : thread[t].i \in 1 .. MAX_MAPS + 1
  /\ \A f \in {"from", "to"} \cap DOMAIN main : main[f] \in Slots
  /\ g_pthread \in Threads \cup {0} /\ cancelled \subseteq Threads
  /\ speaks \in Gateways
  /\ upnpTable \subseteq Ports \X BOOLEAN /\ natTable \subseteq Ports
  /\ disowned \subseteq upnpTable /\ forgotten \subseteq natTable

Held == {g_maps[i] : i \in Slots} \cup {g_unmaps[i] : i \in Slots}

\* A mapping the router made is known to an entry of the arrays: neither a move
\* between them, nor a pulse under way while the main program writes, nor the
\* death of a thread, nor a slot used again loses it.  There is one way to lose it:
\* an entry of which a request was given up (NAT-PMP in ERR) while its UPnP state
\* is UNMAPPED is freed at line 824; threads that die in upnpDiscover lead there.
\* With both protocols mappings are lost in more ways (the first one to give the
\* port back clears extPort).
MappingsKnown ==
  /\ "natpmp" \notin speaks =>
       \A k \in upnpTable \ disowned :
         \E s \in Held : (s.upnpMapped \/ s.upnp = "MAP") /\ Key(s) = k
  /\ "upnp" \notin speaks =>
       \A p \in natTable \ forgotten :
         \E s \in Held : /\ s.int = p
                         /\ s.ext > 0
                         /\ s.natMapped \/ s.nat \in {"SEND_MAP", "RECV_MAP", "ERR"}

Serving == g_running /\ \E t \in Threads : thread[t].pc \notin {"none", "created"}

\* An entry put into g_unmaps does not keep its slot: the port is given back,
\* unless neither protocol works (then the slot is never free again).
UnmapsDrain ==
  \A j \in Slots :
    Serving /\ g_unmaps[j].ext > 0 ~>
      \/ g_unmaps[j].ext = 0 \/ ~Serving
      \/ g_unmaps[j].nat = "ERR" /\ g_unmaps[j].upnp = "ERR"

\* A port that is asked for is not left half negotiated: both protocols come
\* to a result, whatever calls of the main program fall between two visits.
NegotiationEnds ==
  \A i \in Slots :
    Serving /\ g_maps[i].enabled ~>
      \/ ~g_maps[i].enabled \/ ~Serving
      \/ /\ g_maps[i].nat = "ERR" \/ g_maps[i].natMapped
         /\ g_maps[i].upnp = "ERR" \/ g_maps[i].upnpMapped
============================================================================
