------------------------- MODULE PortMapping_proofs -------------------------
(***************************************************************************)
(* Theorems about PortMapping, for any number of slots, ports and threads: *)
(* every variable keeps its type, and the router has no mapping that the   *)
(* program has forgotten.                                                  *)
(*                                                                         *)
(* A pulse is a row of stages over the states of one entry.  What is true  *)
(* of an entry and of the router's tables between two stages is stated     *)
(* once (Sound) and shown of each stage; the critical sections and the     *)
(* moves of entries between the arrays then follow.                        *)
(***************************************************************************)
EXTENDS PortMapping, TLAPS

\* An entry that has, or may have, a mapping of the router.
OwnsUpnp(s) == s.upnpMapped \/ s.upnp = "MAP"
OwnsNat(s) ==
  s.ext > 0 /\ (s.natMapped \/ s.nat \in {"SEND_MAP", "RECV_MAP", "ERR"})

(***************************************************************************)
(* An entry.  The two protocols are told apart: where the router speaks    *)
(* only one, the other one's state shows how far the entry has come.       *)
(***************************************************************************)
UpnpOnly(s) == s.ext = 0 => ~OwnsUpnp(s)

NatOnly(s) ==
  /\ ~s.upnpMapped
  /\ s.upnp \in {"IDLE", "DISCOVER", "ERR"}
  /\ s.upnp = "IDLE" => ~s.enabled /\ s.nat = "IDLE" /\ ~s.natMapped
  /\ s.natMapped \/ s.nat \in {"SEND_MAP", "RECV_MAP"} => s.ext > 0
  /\ s.int = 0 => s.nat = "IDLE" /\ ~s.natMapped

EntryOK(s) ==
  /\ s \in SlotType
  /\ s.enabled => /\ s.int > 0 /\ s.ext > 0
                  /\ s.upnp # "UNMAP"
                  /\ s.nat \notin {"SEND_UNMAP", "RECV_UNMAP"}
  /\ s.upnp \in {"DISCOVER", "ERR", "MAP"} => ~s.upnpMapped
  /\ s.nat \in {"DISCOVER", "RECV_PUB"} => ~s.natMapped
  /\ "natpmp" \notin speaks => UpnpOnly(s)
  /\ "upnp" \notin speaks => NatOnly(s)

-----------------------------------------------------------------------------
(***************************************************************************)
(* The inductive invariant.                                                *)
(***************************************************************************)
OneProtocol == "natpmp" \notin speaks \/ "upnp" \notin speaks

ArraysOK ==
  /\ g_maps = [i \in Slots |-> g_maps[i]]
  /\ g_unmaps = [i \in Slots |-> g_unmaps[i]]
  /\ \A i \in Slots : EntryOK(g_maps[i])
  /\ \A i \in Slots : EntryOK(g_unmaps[i])
  /\ \A i \in Slots : ~g_maps[i].enabled => g_maps[i] = Zero
  /\ \A i \in Slots : ~g_unmaps[i].enabled

\* The slots found by a search stay fit for the write it leads to.
MainOK ==
  \/ main \in [op : {"idle", "start", "stop", "clear_wait"}]
  \/ main \in [op : {"clear"}, from : Slots]
  \/ main \in [op : {"add"}, to : Slots, item : Items] /\ ~g_maps[main.to].enabled
  \/ /\ main \in [op : {"move", "clear_move"}, from : Slots, to : Slots]
     /\ g_maps[main.from].enabled
     /\ OneProtocol => g_unmaps[main.to].ext = 0
  \/ /\ main \in [op : {"put"}, to : Slots, item : Items]
     /\ OneProtocol => g_unmaps[main.to].ext = 0

Places == {"none", "created", "loop", "unmaps", "pulse_unmaps", "maps", "pulse_maps", "leave"}
ThreadsOK ==
  /\ thread \in [Threads -> [pc : Places, i : 1 .. MAX_MAPS + 1]]
  /\ \A t \in Threads : thread[t].pc \in {"pulse_unmaps", "pulse_maps"} => thread[t].i \in Slots
  /\ g_running \in BOOLEAN /\ g_stop \in BOOLEAN
  /\ g_pthread \in Threads \cup {0}
  /\ cancelled \subseteq Threads

TablesOK ==
  /\ speaks \in Gateways
  /\ upnpTable \subseteq Ports \X BOOLEAN
  /\ natTable \subseteq Ports
  /\ disowned \subseteq upnpTable /\ forgotten \subseteq natTable

\* Every mapping of a router with one protocol has its entry.
UpnpKnown ==
  "natpmp" \notin speaks =>
    \A k \in upnpTable \ disowned :
      \/ \E i \in Slots : OwnsUpnp(g_maps[i]) /\ Key(g_maps[i]) = k
      \/ \E i \in Slots : OwnsUpnp(g_unmaps[i]) /\ Key(g_unmaps[i]) = k
NatKnown ==
  "upnp" \notin speaks =>
    \A p \in natTable \ forgotten :
      \/ \E i \in Slots : OwnsNat(g_maps[i]) /\ g_maps[i].int = p
      \/ \E i \in Slots : OwnsNat(g_unmaps[i]) /\ g_unmaps[i].int = p

IInv == ArraysOK /\ MainOK /\ ThreadsOK /\ TablesOK /\ UpnpKnown /\ NatKnown


-----------------------------------------------------------------------------
(***************************************************************************)
(* What stays true of an entry s0 and the tables through the stages of a   *)
(* pulse; W and V are the mappings that other entries hold.                *)
(***************************************************************************)
Pulsed == [s : SlotType, nat : SUBSET Ports, upnp : SUBSET (Ports \X BOOLEAN),
           disowned : SUBSET (Ports \X BOOLEAN)]

Sound(p, s0, W, V) ==
  /\ p \in Pulsed /\ p.disowned \subseteq p.upnp
  /\ EntryOK(p.s)
  /\ p.s.enabled = s0.enabled
  /\ s0 = Zero => p.s = Zero
  /\ OneProtocol /\ s0.ext = 0 => p.s.ext = 0
  /\ "natpmp" \notin speaks =>
       \A k \in p.upnp \ p.disowned : k \in W \/ (OwnsUpnp(p.s) /\ Key(p.s) = k)
  /\ "upnp" \notin speaks =>
       \A x \in p.nat : x \in V \/ (OwnsNat(p.s) /\ p.s.int = x)

\* A stage takes an entry from s to t without losing a mapping.
Keeps(s, t) ==
  /\ t \in SlotType /\ EntryOK(t)
  /\ t.enabled = s.enabled
  /\ s = Zero => t = Zero
  /\ OneProtocol /\ s.ext = 0 => t.ext = 0
  /\ "natpmp" \notin speaks /\ OwnsUpnp(s) => OwnsUpnp(t) /\ Key(t) = Key(s)
  /\ "upnp" \notin speaks /\ OwnsNat(s) => OwnsNat(t) /\ t.int = s.int

LEMMA EntryMoves ==
  ASSUME NEW p, NEW t, NEW s0, NEW W, NEW V, Sound(p, s0, W, V), Keeps(p.s, t)
  PROVE  Sound([p EXCEPT !.s = t], s0, W, V)
BY DEF Sound, Pulsed, Keeps

\* Of an entry only the state of NAT-PMP changes, and it had been in use.
SameBut(s, t) ==
  /\ t.enabled = s.enabled /\ t.int = s.int /\ t.ext = s.ext /\ t.tcp = s.tcp
  /\ t.upnp = s.upnp /\ t.upnpMapped = s.upnpMapped /\ t.natMapped = s.natMapped

LEMMA NatMoves ==
  ASSUME NEW s \in SlotType, EntryOK(s), NEW t \in SlotType, SameBut(s, t),
         s.nat # "IDLE" \/ s.natMapped \/ s.enabled,
         t.nat \in {"DISCOVER", "RECV_PUB"} => ~s.natMapped,
         t.nat \in {"SEND_UNMAP", "RECV_UNMAP"} => ~s.enabled,
         "upnp" \notin speaks /\ t.nat \in {"SEND_MAP", "RECV_MAP"} => s.ext > 0,
         s.nat \in {"SEND_MAP", "RECV_MAP", "ERR"} /\ ~s.natMapped =>
           t.nat \in {"SEND_MAP", "RECV_MAP", "ERR"}
  PROVE  Keeps(s, t)
<1>1. s # Zero
  BY DEF Zero
<1>2. "natpmp" \notin speaks => UpnpOnly(t)
  BY DEF EntryOK, UpnpOnly, OwnsUpnp, SameBut
<1>3. "upnp" \notin speaks => NatOnly(t)
  <2> HAVE "upnp" \notin speaks
  <2>1. NatOnly(s) /\ (s.enabled => s.int > 0)
    BY DEF EntryOK
  <2> QED
    BY <2>1 DEF NatOnly, SameBut
<1>4. EntryOK(t)
  BY <1>2, <1>3 DEF EntryOK, SameBut
<1>5. OwnsUpnp(s) => OwnsUpnp(t) /\ Key(t) = Key(s)
  BY DEF OwnsUpnp, Key, SameBut
<1>6. OwnsNat(s) => OwnsNat(t) /\ t.int = s.int
  BY DEF OwnsNat, SameBut
<1> QED
  BY <1>1, <1>4, <1>5, <1>6 DEF Keeps, SameBut

LEMMA AnsweredTyped ==
  ASSUME NEW s \in SlotType, NEW a \in Answers(s)
  PROVE  Answered(s, a) \in SlotType
<1>1. s.tries \in 0 .. MaxTries /\ MaxTries \in Nat
  BY PortMappingAssumption DEF SlotType
<1>2. CASE a = "ok"
  <2>1. Answered(s, a) = [s EXCEPT !.nat = "IDLE", !.tries = 0]
    BY <1>2 DEF Answered
  <2>2. "IDLE" \in NatStates /\ 0 \in 0 .. MaxTries
    BY <1>1 DEF NatStates
  <2> QED
    BY <2>1, <2>2 DEF SlotType
<1>3. CASE a = "again" /\ s.tries < MaxTries
  <2>1. s.tries + 1 \in 0 .. MaxTries
    BY <1>1, <1>3
  <2> QED
    BY <2>1, <1>3 DEF SlotType, Answered
<1>4. CASE a = "err"
  <2>1. Answered(s, a) = [s EXCEPT !.nat = "ERR", !.tries = 0]
    BY <1>4 DEF Answered
  <2>2. "ERR" \in NatStates /\ 0 \in 0 .. MaxTries
    BY <1>1 DEF NatStates
  <2> QED
    BY <2>1, <2>2 DEF SlotType
<1> QED
  BY <1>2, <1>3, <1>4 DEF Answers

SoundAll(P, s0, W, V) == \A p \in P : Sound(p, s0, W, V)

LEMMA SoundTyped ==
  ASSUME NEW p, NEW s0, NEW W, NEW V, Sound(p, s0, W, V)
  PROVE  p \in Pulsed /\ p.s \in SlotType /\ EntryOK(p.s)
BY DEF Sound, Pulsed

LEMMA BecomeIs ==
  ASSUME NEW p \in Pulsed, NEW n \in NatStates
  PROVE  /\ Become(p, n) = [p EXCEPT !.s = [p.s EXCEPT !.nat = n]]
         /\ Become(p, n).s = [p.s EXCEPT !.nat = n]
         /\ [p.s EXCEPT !.nat = n] \in SlotType
BY DEF Become, Pulsed, SlotType

\* The discovery of NAT-PMP.
LEMMA NatDiscoverSound ==
  ASSUME NEW P, NEW s0, NEW W, NEW V, SoundAll(P, s0, W, V)
  PROVE  SoundAll(NatDiscover(P), s0, W, V)
<1> SUFFICES ASSUME NEW q \in NatDiscover(P)
             PROVE  Sound(q, s0, W, V)
  BY DEF SoundAll
<1>1. PICK p \in P :
        \/ /\ p.s.enabled /\ p.s.nat = "DISCOVER"
           /\ \E n \in {"RECV_PUB", "ERR"} :
                q = [Become(p, n) EXCEPT !.s.natDiscovered = TRUE]
        \/ /\ p.s.nat = "RECV_PUB"
           /\ \E a \in Answers(p.s) : q = [p EXCEPT !.s = Answered(p.s, a)]
        \/ q = p
  BY Zenon DEF NatDiscover
<1>2. /\ p \in Pulsed /\ EntryOK(p.s) /\ p.s \in SlotType
      /\ Sound(p, s0, W, V)
  BY SoundTyped DEF SoundAll
<1>3. CASE q = p
  BY <1>2, <1>3
<1>4. ASSUME p.s.enabled, p.s.nat = "DISCOVER", NEW n \in {"RECV_PUB", "ERR"},
             q = [Become(p, n) EXCEPT !.s.natDiscovered = TRUE]
      PROVE  Sound(q, s0, W, V)
  <2> DEFINE t == [p.s EXCEPT !.nat = n, !.natDiscovered = TRUE]
  <2>1. q = [p EXCEPT !.s = t] /\ q.s = t
    BY <1>2, <1>4 DEF Become, Pulsed, SlotType
  <2>2. t \in SlotType /\ SameBut(p.s, t) /\ t.nat = n
    BY <1>2 DEF SlotType, NatStates, SameBut
  <2>3. ~p.s.natMapped
    BY <1>2, <1>4 DEF EntryOK
  <2>4. Keeps(p.s, t)
    BY <1>2, <1>4, <2>2, <2>3, NatMoves
  <2> QED
    BY <1>2, <2>1, <2>4, EntryMoves
<1>5. ASSUME p.s.nat = "RECV_PUB", NEW a \in Answers(p.s), q = [p EXCEPT !.s = Answered(p.s, a)]
      PROVE  Sound(q, s0, W, V)
  <2> DEFINE t == Answered(p.s, a)
  <2>1. t \in SlotType /\ q.s = t
    BY <1>2, <1>5, AnsweredTyped DEF Pulsed
  <2>2. SameBut(p.s, t) /\ t.nat \in {"IDLE", "ERR", p.s.nat}
    BY <1>2, <2>1 DEF SlotType, SameBut, Answered
  <2>3. ~p.s.natMapped
    BY <1>2, <1>5 DEF EntryOK
  <2>4. Keeps(p.s, t)
    BY <1>2, <1>5, <2>1, <2>2, <2>3, NatMoves
  <2> QED
    BY <1>2, <1>5, <2>1, <2>4, EntryMoves
<1> QED
  BY <1>1, <1>3, <1>4, <1>5

\* A mapping that is to be given back is asked to be.
LEMMA NatWantUnmapSound ==
  ASSUME NEW P, NEW s0, NEW W, NEW V, SoundAll(P, s0, W, V)
  PROVE  SoundAll(NatWantUnmap(P), s0, W, V)
<1> SUFFICES ASSUME NEW q \in NatWantUnmap(P)
             PROVE  Sound(q, s0, W, V)
  BY DEF SoundAll
<1>1. PICK p \in P : IF p.s.nat \in {"IDLE", "ERR"} /\ p.s.natMapped /\ ~p.s.enabled
                     THEN q = Become(p, "SEND_UNMAP") ELSE q = p
  BY Zenon DEF NatWantUnmap
<1>2. /\ p \in Pulsed /\ EntryOK(p.s) /\ p.s \in SlotType
      /\ Sound(p, s0, W, V)
  BY SoundTyped DEF SoundAll
<1>3. CASE p.s.nat \in {"IDLE", "ERR"} /\ p.s.natMapped /\ ~p.s.enabled
  <2> DEFINE t == [p.s EXCEPT !.nat = "SEND_UNMAP"]
  <2>1. q = [p EXCEPT !.s = t] /\ t \in SlotType
    BY <1>1, <1>2, <1>3, BecomeIs DEF NatStates
  <2>2. SameBut(p.s, t) /\ t.nat = "SEND_UNMAP"
    BY <1>2 DEF SlotType, SameBut
  <2>3. Keeps(p.s, t)
    BY <1>2, <1>3, <2>1, <2>2, NatMoves
  <2> QED
    BY <1>2, <1>3, <2>1, <2>2, <2>3, EntryMoves
<1> QED
  BY <1>1, <1>2, <1>3

\* A request is sent.
LEMMA NatSendSound ==
  ASSUME NEW P, NEW s0, NEW W, NEW V, SoundAll(P, s0, W, V),
         NEW from, NEW to, <<from, to>> \in {<<"SEND_UNMAP", "RECV_UNMAP">>, <<"SEND_MAP", "RECV_MAP">>}
  PROVE  SoundAll(NatSend(P, from, to), s0, W, V)
<1> SUFFICES ASSUME NEW q \in NatSend(P, from, to)
             PROVE  Sound(q, s0, W, V)
  BY DEF SoundAll
<1>1. PICK p \in P : \/ p.s.nat = from /\ (q = Become(p, to) \/ q = Become(p, "ERR"))
                     \/ q = p
  BY Zenon DEF NatSend
<1>2. /\ p \in Pulsed /\ EntryOK(p.s) /\ p.s \in SlotType
      /\ Sound(p, s0, W, V)
  BY SoundTyped DEF SoundAll
<1>3. ASSUME p.s.nat = from, NEW n \in {to, "ERR"}, q = Become(p, n)
      PROVE  Sound(q, s0, W, V)
  <2> DEFINE t == [p.s EXCEPT !.nat = n]
  <2>0. /\ n \in NatStates
        /\ \/ from = "SEND_UNMAP" /\ to = "RECV_UNMAP"
           \/ from = "SEND_MAP" /\ to = "RECV_MAP"
    BY DEF NatStates
  <2>1. q = [p EXCEPT !.s = t] /\ t \in SlotType
    BY <1>2, <1>3, <2>0, BecomeIs
  <2>2. SameBut(p.s, t) /\ t.nat = n
    BY <1>2 DEF SlotType, SameBut
  <2>3. /\ from = "SEND_UNMAP" => ~p.s.enabled
        /\ from = "SEND_MAP" /\ "upnp" \notin speaks => p.s.ext > 0
    BY <1>2, <1>3 DEF EntryOK, NatOnly
  <2>4. Keeps(p.s, t)
    BY <1>2, <1>3, <2>0, <2>1, <2>2, <2>3, NatMoves
  <2> QED
    BY <1>2, <1>3, <2>0, <2>1, <2>2, <2>4, EntryMoves
<1> QED
  BY <1>1, <1>2, <1>3

\* A smaller table of NAT-PMP has no mapping that was not known.
LEMMA NatShrinks ==
  ASSUME NEW p, NEW s0, NEW W, NEW V, Sound(p, s0, W, V), NEW T \in SUBSET p.nat
  PROVE  Sound([p EXCEPT !.nat = T], s0, W, V) /\ [p EXCEPT !.nat = T].s = p.s
BY SoundTyped DEF Sound, Pulsed

\* An answer that is not there yet, or does not come.
LEMMA NatWaits ==
  ASSUME NEW p, NEW s0, NEW W, NEW V, Sound(p, s0, W, V),
         p.s.nat \in {"RECV_UNMAP", "RECV_MAP"}, NEW a \in Answers(p.s), a # "ok"
  PROVE  Sound([p EXCEPT !.s = Answered(p.s, a)], s0, W, V)
<1> DEFINE t == Answered(p.s, a)
<1>1. p \in Pulsed /\ EntryOK(p.s) /\ p.s \in SlotType
  BY SoundTyped
<1>2. t \in SlotType
  BY <1>1, AnsweredTyped
<1>3. SameBut(p.s, t) /\ t.nat \in {"ERR", p.s.nat}
  BY <1>1, <1>2 DEF SlotType, SameBut, Answered
<1>4. /\ p.s.nat = "RECV_UNMAP" => ~p.s.enabled
      /\ p.s.nat = "RECV_MAP" /\ "upnp" \notin speaks => p.s.ext > 0
  BY <1>1 DEF EntryOK, NatOnly
<1>5. Keeps(p.s, t)
  BY <1>1, <1>2, <1>3, <1>4, NatMoves
<1> QED
  BY <1>1, <1>2, <1>3, <1>5, EntryMoves DEF Pulsed

\* The port is given back when the router says so.
LEMMA NatReadUnmapSound ==
  ASSUME NEW P, NEW s0, NEW W, NEW V, SoundAll(P, s0, W, V)
  PROVE  SoundAll(NatReadUnmap(P), s0, W, V)
<1> SUFFICES ASSUME NEW q \in NatReadUnmap(P)
             PROVE  Sound(q, s0, W, V)
  BY DEF SoundAll
<1>1. PICK p \in P :
        \/ q = p
        \/ /\ p.s.nat = "RECV_UNMAP"
           /\ \E a \in Answers(p.s) : \E T \in RouterActs(p, a, p.nat \ {p.s.int}) :
                q = [p EXCEPT !.nat = T, !.s = GivenBack(p.s, a)]
  <2>1. PICK p \in P :
          q \in IF p.s.nat # "RECV_UNMAP" THEN {p}
               ELSE UNION {{[p EXCEPT !.nat = T, !.s = GivenBack(p.s, a)] :
                              T \in RouterActs(p, a, p.nat \ {p.s.int})} :
                           a \in Answers(p.s)}
    BY DEF NatReadUnmap
  <2> QED
    BY <2>1
<1>2. /\ p \in Pulsed /\ EntryOK(p.s) /\ p.s \in SlotType
      /\ Sound(p, s0, W, V)
  BY SoundTyped DEF SoundAll
<1>3. ASSUME p.s.nat = "RECV_UNMAP", NEW a \in Answers(p.s),
             NEW T \in RouterActs(p, a, p.nat \ {p.s.int}),
             q = [p EXCEPT !.nat = T, !.s = GivenBack(p.s, a)]
      PROVE  Sound(q, s0, W, V)
  <2> DEFINE r == [p EXCEPT !.nat = T]
  <2>1. T \subseteq p.nat
    BY <1>2 DEF RouterActs
  <2>2. Sound(r, s0, W, V) /\ r.s = p.s /\ r \in Pulsed
    BY <1>2, <2>1, NatShrinks, SoundTyped
  <2>3. CASE a # "ok"
    <3>1. GivenBack(p.s, a) = Answered(p.s, a)
      BY <2>3 DEF GivenBack
    <3>2. q = [r EXCEPT !.s = Answered(r.s, a)] /\ q.s = Answered(r.s, a)
      BY <1>2, <1>3, <2>2, <3>1 DEF Pulsed
    <3>3. a \in Answers(r.s) /\ r.s.nat \in {"RECV_UNMAP", "RECV_MAP"}
      BY <1>2, <1>3, <2>2
    <3>4. Sound([r EXCEPT !.s = Answered(r.s, a)], s0, W, V)
      BY <2>2, <2>3, <3>3, NatWaits
    <3> QED
      BY <3>2, <3>4
  <2>4. CASE a = "ok" /\ p.s.ext # p.s.int
    <3>1. q = r /\ q.s = p.s
      BY <1>2, <1>3, <2>2, <2>4 DEF Pulsed, GivenBack
    <3> QED
      BY <1>2, <2>2, <3>1
  <2>5. CASE a = "ok" /\ p.s.ext = p.s.int
    <3> DEFINE t == [p.s EXCEPT !.nat = "IDLE", !.tries = 0, !.ext = 0, !.natMapped = FALSE]
    <3>1. "natpmp" \in speaks
      BY <2>5 DEF Answers
    <3>2. T = p.nat \ {p.s.int}
      BY <2>5, <3>1 DEF RouterActs
    <3>3. q.s = t /\ q = [r EXCEPT !.s = t]
      BY <1>2, <1>3, <2>5 DEF Pulsed, GivenBack, Answered, SlotType
    <3>4. t \in SlotType
      <4>1. "IDLE" \in NatStates /\ 0 \in Ports /\ 0 \in 0 .. MaxTries
        BY PortMappingAssumption DEF NatStates, Ports
      <4> QED
        BY <1>2, <4>1 DEF SlotType
    <3>5. ~p.s.enabled /\ ~t.enabled /\ t.upnp = p.s.upnp /\ t.nat = "IDLE" /\ ~t.natMapped
          /\ t.upnpMapped = p.s.upnpMapped /\ t.int = p.s.int /\ t.ext = 0
      BY <1>2, <1>3 DEF SlotType, EntryOK
    <3>6. EntryOK(t)
      BY <1>2, <1>3, <3>1, <3>4, <3>5 DEF EntryOK, NatOnly
    <3>7. p.s # Zero
      BY <1>3 DEF Zero
    <3>8. q.nat = p.nat \ {p.s.int} /\ q.upnp = p.upnp /\ q.disowned = p.disowned /\ q \in Pulsed
      BY <1>2, <2>2, <3>2, <3>3, <3>4 DEF Pulsed
    <3> QED
      BY <1>2, <3>1, <3>3, <3>5, <3>6, <3>7, <3>8 DEF Sound, OwnsNat
  <2> QED
    BY <2>3, <2>4, <2>5
<1> QED
  BY <1>1, <1>2, <1>3

\* A mapping is asked for.
LEMMA NatWantMapSound ==
  ASSUME NEW P, NEW s0, NEW W, NEW V, SoundAll(P, s0, W, V)
  PROVE  SoundAll(NatWantMap(P), s0, W, V)
<1> SUFFICES ASSUME NEW q \in NatWantMap(P)
             PROVE  Sound(q, s0, W, V)
  BY DEF SoundAll
<1>1. PICK p \in P :
        \/ q = p
        \/ /\ p.s.nat = "IDLE" /\ (p.s.enabled \/ p.s.natMapped)
           /\ q = Become(p, "SEND_MAP")
  BY Zenon DEF NatWantMap
<1>2. /\ p \in Pulsed /\ EntryOK(p.s) /\ p.s \in SlotType
      /\ Sound(p, s0, W, V)
  BY SoundTyped DEF SoundAll
<1>3. CASE p.s.nat = "IDLE" /\ (p.s.enabled \/ p.s.natMapped) /\ q = Become(p, "SEND_MAP")
  <2> DEFINE t == [p.s EXCEPT !.nat = "SEND_MAP"]
  <2>1. q = [p EXCEPT !.s = t] /\ t \in SlotType
    BY <1>2, <1>3, BecomeIs DEF NatStates
  <2>2. SameBut(p.s, t) /\ t.nat = "SEND_MAP"
    BY <1>2 DEF SlotType, SameBut
  <2>3. "upnp" \notin speaks => p.s.ext > 0
    BY <1>2, <1>3 DEF EntryOK, NatOnly
  <2>4. Keeps(p.s, t)
    BY <1>2, <1>3, <2>1, <2>2, <2>3, NatMoves
  <2>5. p.s.nat \notin {"DISCOVER", "RECV_PUB"} /\ ~(p.s.enabled /\ p.s.nat = "ERR")
    BY <1>3
  <2>6. Sound([p EXCEPT !.s = t], s0, W, V)
    BY <1>2, <2>1, <2>2, <2>4, <2>5, EntryMoves
  <2> QED
    BY <2>1, <2>6
<1> QED
  BY <1>1, <1>2, <1>3

LEMMA PortsAreNumbers == Ports \subseteq Nat /\ 0 \in Ports
BY PortMappingAssumption DEF Ports

\* The router makes the mapping of an entry that waits for the answer.
LEMMA NatGrows ==
  ASSUME NEW p, NEW s0, NEW W, NEW V, Sound(p, s0, W, V),
         "upnp" \notin speaks => OwnsNat(p.s)
  PROVE  /\ Sound([p EXCEPT !.nat = p.nat \cup {p.s.int}], s0, W, V)
         /\ [p EXCEPT !.nat = p.nat \cup {p.s.int}].s = p.s
<1>1. p.s.int \in Ports /\ p \in Pulsed
  BY SoundTyped DEF SlotType
<1> QED
  BY <1>1 DEF Sound, Pulsed

\* The port is forwarded when the router says so.
LEMMA NatReadMapSound ==
  ASSUME NEW P, NEW s0, NEW W, NEW V, SoundAll(P, s0, W, V)
  PROVE  SoundAll(NatReadMap(P), s0, W, V)
<1> SUFFICES ASSUME NEW q \in NatReadMap(P)
             PROVE  Sound(q, s0, W, V)
  BY DEF SoundAll
<1>1. PICK p \in P :
        \/ q = p
        \/ /\ p.s.nat = "RECV_MAP"
           /\ \E a \in Answers(p.s) : \E T \in RouterActs(p, a, p.nat \cup {p.s.int}) :
                q = [p EXCEPT !.nat = T, !.s = Forwarded(p.s, a)]
  <2>1. PICK p \in P :
          q \in IF p.s.nat # "RECV_MAP" THEN {p}
               ELSE UNION {{[p EXCEPT !.nat = T, !.s = Forwarded(p.s, a)] :
                              T \in RouterActs(p, a, p.nat \cup {p.s.int})} :
                           a \in Answers(p.s)}
    BY DEF NatReadMap
  <2> QED
    BY <2>1
<1>2. /\ p \in Pulsed /\ EntryOK(p.s) /\ p.s \in SlotType
      /\ Sound(p, s0, W, V)
  BY SoundTyped DEF SoundAll
<1>3. ASSUME p.s.nat = "RECV_MAP", NEW a \in Answers(p.s),
             NEW T \in RouterActs(p, a, p.nat \cup {p.s.int}),
             q = [p EXCEPT !.nat = T, !.s = Forwarded(p.s, a)]
      PROVE  Sound(q, s0, W, V)
  <2> DEFINE r == [p EXCEPT !.nat = T]
  <2>1. T \in {p.nat, p.nat \cup {p.s.int}}
    BY DEF RouterActs
  <2>2. "upnp" \notin speaks =>
          OwnsNat(p.s) /\ p.s.upnp # "IDLE" /\ p.s.ext > 0 /\ p.s.int > 0
    <3>1. p.s.int \in Nat /\ p.s.upnp \in UpnpStates
      BY <1>2, PortsAreNumbers DEF SlotType
    <3>2. "upnp" \notin speaks => p.s.upnp # "IDLE" /\ p.s.ext > 0 /\ p.s.int > 0
      BY <1>2, <1>3, <3>1 DEF EntryOK, NatOnly
    <3> QED
      BY <1>3, <3>2 DEF OwnsNat
  <2>3. Sound(r, s0, W, V) /\ r.s = p.s /\ r \in Pulsed
    <3>1. CASE T = p.nat
      BY <1>2, <3>1 DEF Pulsed
    <3>2. CASE T = p.nat \cup {p.s.int}
      BY <1>2, <2>2, <3>2, NatGrows, SoundTyped
    <3> QED
      BY <2>1, <3>1, <3>2
  <2>4. CASE a # "ok"
    <3>1. Forwarded(p.s, a) = Answered(p.s, a)
      BY <2>4 DEF Forwarded
    <3>2. q = [r EXCEPT !.s = Answered(r.s, a)] /\ q.s = Answered(r.s, a)
      BY <1>2, <1>3, <2>3, <3>1 DEF Pulsed
    <3>3. a \in Answers(r.s) /\ r.s.nat \in {"RECV_UNMAP", "RECV_MAP"}
      BY <1>2, <1>3, <2>3
    <3>4. Sound([r EXCEPT !.s = Answered(r.s, a)], s0, W, V)
      BY <2>3, <2>4, <3>3, NatWaits
    <3> QED
      BY <3>2, <3>4
  <2>5. CASE a = "ok"
    <3> DEFINE t == [p.s EXCEPT !.nat = "IDLE", !.tries = 0, !.ext = p.s.int, !.natMapped = TRUE]
    <3>1. "natpmp" \in speaks
      BY <2>5 DEF Answers
    <3>2. q = [r EXCEPT !.s = t] /\ q.s = t
      BY <1>2, <1>3, <2>5 DEF Pulsed, Forwarded, Answered, SlotType
    <3>3. t \in SlotType
      <4>1. "IDLE" \in NatStates /\ 0 \in 0 .. MaxTries
        BY PortMappingAssumption DEF NatStates
      <4> QED
        BY <1>2, <4>1 DEF SlotType
    <3>4. /\ t.enabled = p.s.enabled /\ t.upnp = p.s.upnp /\ t.upnpMapped = p.s.upnpMapped
          /\ t.nat = "IDLE" /\ t.natMapped /\ t.int = p.s.int /\ t.ext = p.s.int
      BY <1>2 DEF SlotType
    <3>5. EntryOK(t)
      BY <1>2, <1>3, <2>2, <3>1, <3>3, <3>4 DEF EntryOK, NatOnly
    <3>6. p.s # Zero
      BY <1>3 DEF Zero
    <3>7. Keeps(p.s, t)
      BY <2>2, <3>1, <3>3, <3>4, <3>5, <3>6 DEF Keeps, OwnsNat, OneProtocol
    <3> QED
      BY <2>3, <3>2, <3>5, <3>7, EntryMoves
  <2> QED
    BY <2>4, <2>5
<1> QED
  BY <1>1, <1>2, <1>3

LEMMA NatPulseSound ==
  ASSUME NEW P, NEW s0, NEW W, NEW V, SoundAll(P, s0, W, V)
  PROVE  SoundAll(NatPulse(P), s0, W, V)
<1>1. SoundAll(NatWantUnmap(NatDiscover(P)), s0, W, V)
  BY NatDiscoverSound, NatWantUnmapSound
<1>2. SoundAll(NatSend(NatWantUnmap(NatDiscover(P)), "SEND_UNMAP", "RECV_UNMAP"), s0, W, V)
  BY <1>1, NatSendSound
<1>3. SoundAll(NatUnmapHalf(P), s0, W, V)
  BY <1>2, NatReadUnmapSound DEF NatUnmapHalf
<1>4. SoundAll(NatSend(NatWantMap(NatUnmapHalf(P)), "SEND_MAP", "RECV_MAP"), s0, W, V)
  BY <1>3, NatWantMapSound, NatSendSound
<1> QED
  BY <1>4, NatReadMapSound DEF NatPulse, NatMapHalf

\* A thread that dies in a call of NAT-PMP.
LEMMA NatCallsSound ==
  ASSUME NEW P, NEW s0, NEW W, NEW V, SoundAll(P, s0, W, V)
  PROVE  SoundAll(NatCalls(P), s0, W, V)
<1> DEFINE A == NatWantUnmap(NatDiscover(P))
           B == NatSend(A, "SEND_UNMAP", "RECV_UNMAP")
           C == NatWantMap(NatUnmapHalf(P))
           D == NatSend(C, "SEND_MAP", "RECV_MAP")
<1>1. SoundAll(A, s0, W, V)
  BY NatDiscoverSound, NatWantUnmapSound
<1>2. SoundAll(B, s0, W, V)
  BY <1>1, NatSendSound
<1>3. SoundAll(C, s0, W, V)
  BY <1>2, NatReadUnmapSound, NatWantMapSound DEF NatUnmapHalf
<1>4. SoundAll(D, s0, W, V)
  BY <1>3, NatSendSound
<1>5. NatCalls(P) \subseteq P \cup A \cup B \cup C \cup D
  BY DEF NatCalls
<1> HIDE DEF A, B, C, D
<1> QED
  BY <1>1, <1>2, <1>3, <1>4, <1>5 DEF SoundAll

LEMMA NatInterruptedSound ==
  ASSUME NEW P, NEW s0, NEW W, NEW V, SoundAll(P, s0, W, V)
  PROVE  SoundAll(NatInterrupted(P), s0, W, V)
<1> SUFFICES ASSUME NEW q \in NatInterrupted(P)
             PROVE  Sound(q, s0, W, V)
  BY DEF SoundAll
<1>1. PICK p \in NatCalls(P) :
        \E T \in RouterActs(p, "again", Requested(p)), s \in Resent(p.s) :
          q = [p EXCEPT !.nat = T, !.s = s]
  <2>1. PICK p \in NatCalls(P) :
          q \in UNION {{[p EXCEPT !.nat = T, !.s = s] : s \in Resent(p.s)} :
                         T \in RouterActs(p, "again", Requested(p))}
    BY DEF NatInterrupted
  <2> QED
    BY <2>1
<1>2. PICK T \in RouterActs(p, "again", Requested(p)), s \in Resent(p.s) :
        q = [p EXCEPT !.nat = T, !.s = s]
  BY <1>1
<1>3. Sound(p, s0, W, V) /\ p \in Pulsed /\ p.s \in SlotType /\ EntryOK(p.s)
  BY NatCallsSound, SoundTyped DEF SoundAll
<1>4. p.s.nat \in {"RECV_PUB", "SEND_UNMAP", "RECV_UNMAP", "SEND_MAP", "RECV_MAP"}
  BY DEF NatCalls
<1> DEFINE r == [p EXCEPT !.nat = T]
<1>5. Sound(r, s0, W, V) /\ r.s = p.s /\ r \in Pulsed
  <2>1. T = p.nat \/ T = Requested(p)
    BY DEF RouterActs
  <2>2. CASE T \subseteq p.nat
    BY <1>3, <2>2, NatShrinks, SoundTyped
  <2>3. CASE p.s.nat \in {"SEND_MAP", "RECV_MAP"} /\ T = p.nat \cup {p.s.int}
    <3>1. "upnp" \notin speaks => OwnsNat(p.s)
      BY <1>3, <2>3 DEF EntryOK, NatOnly, OwnsNat
    <3> QED
      BY <1>3, <2>3, <3>1, NatGrows, SoundTyped
  <2> QED
    BY <1>4, <2>1, <2>2, <2>3 DEF Requested
<1>6. q = [r EXCEPT !.s = s]
  BY <1>2, <1>3 DEF Pulsed
<1>7. CASE s = p.s
  BY <1>3, <1>5, <1>6, <1>7 DEF Pulsed
<1>8. CASE s # p.s
  <2>1. "again" \in Answers(p.s) /\ s = Answered(p.s, "again")
    BY <1>8 DEF Resent
  <2>2. s \in SlotType
    BY <1>3, <2>1, AnsweredTyped
  <2>3. SameBut(p.s, s) /\ s.nat = p.s.nat
    BY <1>3, <2>1 DEF SlotType, SameBut, Answered
  <2>4. /\ p.s.nat = "RECV_PUB" => ~p.s.natMapped
        /\ p.s.nat \in {"SEND_UNMAP", "RECV_UNMAP"} => ~p.s.enabled
        /\ p.s.nat \in {"SEND_MAP", "RECV_MAP"} /\ "upnp" \notin speaks => p.s.ext > 0
    BY <1>3 DEF EntryOK, NatOnly
  <2>5. Keeps(p.s, s)
    BY <1>3, <1>4, <2>2, <2>3, <2>4, NatMoves
  <2> QED
    BY <1>5, <1>6, <2>5, EntryMoves
<1> QED
  BY <1>7, <1>8

-----------------------------------------------------------------------------
(***************************************************************************)
(* The stages of UPnP.  After the discovery only a router that speaks UPnP *)
(* has any of them do something.                                           *)
(***************************************************************************)
LEMMA UpnpMoves ==
  ASSUME NEW p, NEW s0, NEW W, NEW V, Sound(p, s0, W, V), "upnp" \in speaks,
         NEW t \in SlotType, EntryOK(t), t.enabled = p.s.enabled, p.s # Zero,
         OneProtocol /\ p.s.ext = 0 => t.ext = 0,
         NEW U \in SUBSET (Ports \X BOOLEAN), NEW D \in SUBSET U,
         "natpmp" \notin speaks =>
           \A k \in U \ D : k \in W \/ (OwnsUpnp(t) /\ Key(t) = k)
  PROVE  Sound([p EXCEPT !.s = t, !.upnp = U, !.disowned = D], s0, W, V)
<1> DEFINE q == [p EXCEPT !.s = t, !.upnp = U, !.disowned = D]
<1>1. p \in Pulsed
  BY SoundTyped
<1>2. q.s = t /\ q.upnp = U /\ q.disowned = D /\ q \in Pulsed
  <2>1. D \in SUBSET (Ports \X BOOLEAN)
    OBVIOUS
  <2> QED
    BY <1>1, <2>1 DEF Pulsed
<1>3. /\ s0 = Zero => q.s = Zero
      /\ OneProtocol /\ s0.ext = 0 => q.s.ext = 0
      /\ q.s.enabled = s0.enabled
  BY <1>2 DEF Sound
<1> HIDE DEF q
<1>4. Sound(q, s0, W, V)
  BY <1>2, <1>3 DEF Sound
<1> QED
  BY <1>4 DEF q

LEMMA KeyTyped ==
  ASSUME NEW s \in SlotType
  PROVE  Key(s) \in Ports \X BOOLEAN
BY DEF Key, SlotType

LEMMA UpnpDiscoverSound ==
  ASSUME NEW P, NEW s0, NEW W, NEW V, SoundAll(P, s0, W, V)
  PROVE  SoundAll(UpnpDiscover(P), s0, W, V)
<1> SUFFICES ASSUME NEW q \in UpnpDiscover(P)
             PROVE  Sound(q, s0, W, V)
  BY DEF SoundAll
<1>1. PICK p \in P :
        IF p.s.enabled /\ p.s.upnp = "DISCOVER"
        THEN \E igd \in Could : q = [p EXCEPT !.s.upnp = IF igd THEN "IDLE" ELSE "ERR"]
        ELSE q = p
  <2>1. PICK p \in P :
          q \in IF p.s.enabled /\ p.s.upnp = "DISCOVER"
               THEN {[p EXCEPT !.s.upnp = IF igd THEN "IDLE" ELSE "ERR"] : igd \in Could}
               ELSE {p}
    BY DEF UpnpDiscover
  <2> QED
    BY <2>1
<1>2. /\ p \in Pulsed /\ EntryOK(p.s) /\ p.s \in SlotType
      /\ Sound(p, s0, W, V)
  BY SoundTyped DEF SoundAll
<1>3. CASE ~ (p.s.enabled /\ p.s.upnp = "DISCOVER")
  BY <1>1, <1>2, <1>3
<1>4. ASSUME p.s.enabled, p.s.upnp = "DISCOVER", NEW igd \in Could,
             q = [p EXCEPT !.s.upnp = IF igd THEN "IDLE" ELSE "ERR"]
      PROVE  Sound(q, s0, W, V)
  <2> DEFINE n == IF igd THEN "IDLE" ELSE "ERR"
             t == [p.s EXCEPT !.upnp = n]
  <2>1. n \in {"IDLE", "ERR"} /\ ("upnp" \notin speaks => n = "ERR")
    BY DEF Could
  <2>2. q = [p EXCEPT !.s = t] /\ q.s = t
    BY <1>2, <1>4 DEF Pulsed
  <2>3. t \in SlotType
    BY <1>2, <2>1 DEF SlotType, UpnpStates
  <2>4. /\ t.enabled = p.s.enabled /\ t.int = p.s.int /\ t.ext = p.s.ext /\ t.tcp = p.s.tcp
        /\ t.nat = p.s.nat /\ t.natMapped = p.s.natMapped /\ t.upnpMapped = p.s.upnpMapped
        /\ t.upnp = n
    BY <1>2 DEF SlotType
  <2>5. ~p.s.upnpMapped /\ p.s # Zero
    BY <1>2, <1>4 DEF EntryOK, Zero
  <2> HIDE DEF n, t
  <2>6. "natpmp" \notin speaks => UpnpOnly(t)
    BY <2>1, <2>4, <2>5 DEF UpnpOnly, OwnsUpnp
  <2>7. "upnp" \notin speaks => NatOnly(t)
    BY <1>2, <1>4, <2>1, <2>4 DEF EntryOK, NatOnly
  <2>8. EntryOK(t)
    BY <1>2, <2>1, <2>3, <2>4, <2>5, <2>6, <2>7 DEF EntryOK
  <2>9. Keeps(p.s, t)
    BY <1>4, <2>3, <2>4, <2>5, <2>8 DEF Keeps, OwnsUpnp, OwnsNat
  <2> QED
    BY <1>2, <2>2, <2>8, <2>9, EntryMoves
<1> QED
  BY <1>1, <1>3, <1>4

\* A stage of UPnP that only starts a command.
LEMMA UpnpStarts ==
  ASSUME NEW p, NEW s0, NEW W, NEW V, Sound(p, s0, W, V),
         NEW n \in {"UNMAP", "MAP"},
         n = "UNMAP" => p.s.upnpMapped /\ ~p.s.enabled,
         n = "MAP" => p.s.upnp = "IDLE" /\ ~p.s.upnpMapped /\ p.s.enabled
  PROVE  Sound([p EXCEPT !.s.upnp = n], s0, W, V)
<1> DEFINE t == [p.s EXCEPT !.upnp = n]
           q == [p EXCEPT !.s.upnp = n]
<1>1. p \in Pulsed /\ p.s \in SlotType /\ EntryOK(p.s)
  BY SoundTyped
<1>2. "upnp" \in speaks /\ p.s # Zero
  BY <1>1 DEF EntryOK, NatOnly, Zero
<1>3. q = [p EXCEPT !.s = t, !.upnp = p.upnp, !.disowned = p.disowned]
  BY <1>1 DEF Pulsed
<1>4. t \in SlotType
  BY <1>1 DEF SlotType, UpnpStates
<1>5. /\ t.enabled = p.s.enabled /\ t.int = p.s.int /\ t.ext = p.s.ext /\ t.tcp = p.s.tcp
      /\ t.nat = p.s.nat /\ t.natMapped = p.s.natMapped /\ t.upnpMapped = p.s.upnpMapped
      /\ t.upnp = n
  BY <1>1 DEF SlotType
<1> HIDE DEF t
<1>6. "natpmp" \notin speaks => UpnpOnly(t)
  BY <1>1, <1>5, PortsAreNumbers DEF EntryOK, UpnpOnly, OwnsUpnp
<1>7. EntryOK(t)
  BY <1>1, <1>2, <1>4, <1>5, <1>6 DEF EntryOK
<1>8. "natpmp" \notin speaks =>
        \A k \in p.upnp \ p.disowned : k \in W \/ (OwnsUpnp(t) /\ Key(t) = k)
  BY <1>5 DEF Sound, OwnsUpnp, Key
<1>9. p.upnp \in SUBSET (Ports \X BOOLEAN) /\ p.disowned \in SUBSET p.upnp
  BY <1>1 DEF Sound, Pulsed
<1>10. t.enabled = p.s.enabled /\ (OneProtocol /\ p.s.ext = 0 => t.ext = 0)
  BY <1>5
<1>11. Sound([p EXCEPT !.s = t, !.upnp = p.upnp, !.disowned = p.disowned], s0, W, V)
  BY <1>2, <1>4, <1>7, <1>8, <1>9, <1>10, UpnpMoves, Zenon
<1> QED
  BY <1>3, <1>11

\* A stage of UPnP that ends one: the mapping is no longer counted on.
LEMMA UpnpEnds ==
  ASSUME NEW p, NEW s0, NEW W, NEW V, Sound(p, s0, W, V), "upnp" \in speaks,
         NEW t \in SlotType, EntryOK(t), t.enabled = p.s.enabled, p.s # Zero,
         OneProtocol /\ p.s.ext = 0 => t.ext = 0,
         NEW U, NEW D,
         \/ U = p.upnp /\ D = Denied(p)
         \/ U = p.upnp \cup {Key(p.s)} /\ D = p.disowned \cup {Key(p.s)}
         \/ U = p.upnp \ {Key(p.s)} /\ D = p.disowned \ {Key(p.s)}
         \/ /\ U = p.upnp \cup {Key(p.s)} /\ D = p.disowned \ {Key(p.s)}
            /\ OwnsUpnp(t) /\ Key(t) = Key(p.s)
  PROVE  Sound([p EXCEPT !.s = t, !.upnp = U, !.disowned = D], s0, W, V)
<1>1. /\ p \in Pulsed /\ p.s \in SlotType /\ p.disowned \subseteq p.upnp
      /\ Key(p.s) \in Ports \X BOOLEAN
  BY SoundTyped, KeyTyped DEF Sound
<1>2. U \in SUBSET (Ports \X BOOLEAN) /\ D \in SUBSET U
  BY <1>1 DEF Pulsed, Denied
<1>3. "natpmp" \notin speaks =>
        \A k \in U \ D : k \in W \/ (OwnsUpnp(t) /\ Key(t) = k)
  <2> SUFFICES ASSUME "natpmp" \notin speaks, NEW k \in U \ D
               PROVE  k \in W \/ (OwnsUpnp(t) /\ Key(t) = k)
    OBVIOUS
  <2>1. CASE k = Key(p.s)
    BY <1>1, <2>1 DEF Denied
  <2>2. CASE k # Key(p.s)
    <3>1. k \in p.upnp \ p.disowned
      BY <2>2 DEF Denied
    <3>2. k \in W \/ (OwnsUpnp(p.s) /\ Key(p.s) = k)
      BY <3>1 DEF Sound
    <3> QED
      BY <2>2, <3>2
  <2> QED
    BY <2>1, <2>2
<1> QED
  BY <1>2, <1>3, UpnpMoves, Zenon

LEMMA UpnpWantUnmapSound ==
  ASSUME NEW P, NEW s0, NEW W, NEW V, SoundAll(P, s0, W, V)
  PROVE  SoundAll(UpnpWantUnmap(P), s0, W, V)
<1> SUFFICES ASSUME NEW q \in UpnpWantUnmap(P)
             PROVE  Sound(q, s0, W, V)
  BY DEF SoundAll
<1>1. PICK p \in P :
        \/ q = p
        \/ p.s.upnpMapped /\ ~p.s.enabled /\ q = [p EXCEPT !.s.upnp = "UNMAP"]
  BY DEF UpnpWantUnmap
<1>2. Sound(p, s0, W, V)
  BY DEF SoundAll
<1>3. ASSUME p.s.upnpMapped /\ ~p.s.enabled
      PROVE  Sound([p EXCEPT !.s.upnp = "UNMAP"], s0, W, V)
  BY <1>2, <1>3, UpnpStarts
<1> QED
  BY <1>1, <1>2, <1>3

LEMMA UpnpWantMapSound ==
  ASSUME NEW P, NEW s0, NEW W, NEW V, SoundAll(P, s0, W, V)
  PROVE  SoundAll(UpnpWantMap(P), s0, W, V)
<1> SUFFICES ASSUME NEW q \in UpnpWantMap(P)
             PROVE  Sound(q, s0, W, V)
  BY DEF SoundAll
<1>1. PICK p \in P :
        \/ q = p
        \/ /\ p.s.upnp = "IDLE" /\ ~p.s.upnpMapped /\ p.s.enabled
           /\ q = [p EXCEPT !.s.upnp = "MAP"]
  BY DEF UpnpWantMap
<1>2. Sound(p, s0, W, V)
  BY DEF SoundAll
<1>3. ASSUME p.s.upnp = "IDLE" /\ ~p.s.upnpMapped /\ p.s.enabled
      PROVE  Sound([p EXCEPT !.s.upnp = "MAP"], s0, W, V)
  BY <1>2, <1>3, UpnpStarts
<1> QED
  BY <1>1, <1>2, <1>3

LEMMA UpnpCheckSound ==
  ASSUME NEW P, NEW s0, NEW W, NEW V, SoundAll(P, s0, W, V)
  PROVE  SoundAll(UpnpCheck(P), s0, W, V)
<1> SUFFICES ASSUME NEW q \in UpnpCheck(P)
             PROVE  Sound(q, s0, W, V)
  BY DEF SoundAll
<1>1. PICK p \in P :
        \/ q = p
        \/ /\ p.s.enabled /\ p.s.upnpMapped
           /\ q = [p EXCEPT !.s.upnpMapped = FALSE, !.disowned = Denied(p)]
  BY DEF UpnpCheck
<1>2. /\ p \in Pulsed /\ EntryOK(p.s) /\ p.s \in SlotType
      /\ Sound(p, s0, W, V)
  BY SoundTyped DEF SoundAll
<1>3. CASE /\ p.s.enabled /\ p.s.upnpMapped
           /\ q = [p EXCEPT !.s.upnpMapped = FALSE, !.disowned = Denied(p)]
  <2> DEFINE t == [p.s EXCEPT !.upnpMapped = FALSE]
  <2>1. "upnp" \in speaks /\ p.s # Zero
    BY <1>2, <1>3 DEF EntryOK, NatOnly, Zero
  <2>2. q = [p EXCEPT !.s = t, !.upnp = p.upnp, !.disowned = Denied(p)]
    BY <1>2, <1>3 DEF Pulsed
  <2>3. t \in SlotType
    BY <1>2 DEF SlotType
  <2>4. /\ t.enabled = p.s.enabled /\ t.int = p.s.int /\ t.ext = p.s.ext
        /\ t.nat = p.s.nat /\ t.natMapped = p.s.natMapped /\ ~t.upnpMapped
        /\ t.upnp = p.s.upnp
    BY <1>2 DEF SlotType
  <2> HIDE DEF t
  <2>5. "natpmp" \notin speaks => UpnpOnly(t)
    BY <1>2, <1>3, <2>4, PortsAreNumbers DEF EntryOK, UpnpOnly, OwnsUpnp
  <2>6. EntryOK(t)
    BY <1>2, <2>1, <2>3, <2>4, <2>5 DEF EntryOK
  <2>7. t.enabled = p.s.enabled /\ (OneProtocol /\ p.s.ext = 0 => t.ext = 0)
    BY <2>4
  <2>8. Sound([p EXCEPT !.s = t, !.upnp = p.upnp, !.disowned = Denied(p)], s0, W, V)
    BY <1>2, <2>1, <2>3, <2>6, <2>7, UpnpEnds, Zenon
  <2> QED
    BY <2>2, <2>8
<1> QED
  BY <1>1, <1>2, <1>3

LEMMA UpnpUnmapSound ==
  ASSUME NEW P, NEW s0, NEW W, NEW V, SoundAll(P, s0, W, V)
  PROVE  SoundAll(UpnpUnmap(P), s0, W, V)
<1> SUFFICES ASSUME NEW q \in UpnpUnmap(P)
             PROVE  Sound(q, s0, W, V)
  BY DEF SoundAll
<1>1. PICK p \in P :
        \/ q = p
        \/ /\ p.s.upnp = "UNMAP"
           /\ \E done \in Could :
                q = [p EXCEPT !.s.upnpMapped = FALSE, !.s.upnp = "IDLE", !.s.ext = 0,
                              !.upnp = IF done THEN @ \ {Key(p.s)} ELSE @,
                              !.disowned = IF done THEN @ \ {Key(p.s)} ELSE Denied(p)]
  BY DEF UpnpUnmap
<1>2. /\ p \in Pulsed /\ EntryOK(p.s) /\ p.s \in SlotType
      /\ Sound(p, s0, W, V)
  BY SoundTyped DEF SoundAll
<1>3. ASSUME p.s.upnp = "UNMAP", NEW done \in Could,
             q = [p EXCEPT !.s.upnpMapped = FALSE, !.s.upnp = "IDLE", !.s.ext = 0,
                           !.upnp = IF done THEN @ \ {Key(p.s)} ELSE @,
                           !.disowned = IF done THEN @ \ {Key(p.s)} ELSE Denied(p)]
      PROVE  Sound(q, s0, W, V)
  <2> DEFINE t == [p.s EXCEPT !.upnpMapped = FALSE, !.upnp = "IDLE", !.ext = 0]
             U == IF done THEN p.upnp \ {Key(p.s)} ELSE p.upnp
             D == IF done THEN p.disowned \ {Key(p.s)} ELSE Denied(p)
  <2>1. "upnp" \in speaks /\ p.s # Zero /\ ~p.s.enabled
    BY <1>2, <1>3 DEF EntryOK, NatOnly, Zero
  <2>2. q = [p EXCEPT !.s = t, !.upnp = U, !.disowned = D]
    BY <1>2, <1>3 DEF Pulsed
  <2>3. t \in SlotType
    BY <1>2, PortsAreNumbers DEF SlotType, UpnpStates
  <2>4. /\ t.enabled = p.s.enabled /\ t.ext = 0 /\ ~t.upnpMapped /\ t.upnp = "IDLE"
        /\ t.nat = p.s.nat /\ t.natMapped = p.s.natMapped
    BY <1>2 DEF SlotType
  <2>5. \/ U = p.upnp /\ D = Denied(p)
        \/ U = p.upnp \ {Key(p.s)} /\ D = p.disowned \ {Key(p.s)}
    OBVIOUS
  <2> HIDE DEF t, U, D
  <2>6. EntryOK(t)
    BY <1>2, <2>1, <2>3, <2>4 DEF EntryOK, UpnpOnly, OwnsUpnp
  <2>7. t.enabled = p.s.enabled /\ (OneProtocol /\ p.s.ext = 0 => t.ext = 0)
    BY <2>4
  <2>8. Sound([p EXCEPT !.s = t, !.upnp = U, !.disowned = D], s0, W, V)
    BY <1>2, <2>1, <2>3, <2>5, <2>6, <2>7, UpnpEnds, Zenon
  <2> QED
    BY <2>2, <2>8
<1> QED
  BY <1>1, <1>2, <1>3

\* The mapping was made, as the program is told.
LEMMA MadeSound ==
  ASSUME NEW p, NEW s0, NEW W, NEW V, Sound(p, s0, W, V), p.s.upnp = "MAP", "upnp" \in speaks
  PROVE  Sound(Made(p), s0, W, V)
<1> DEFINE t == [p.s EXCEPT !.upnpMapped = TRUE, !.upnp = "IDLE"]
           U == p.upnp \cup {Key(p.s)}
           D == p.disowned \ {Key(p.s)}
<1>1. p \in Pulsed /\ p.s \in SlotType /\ EntryOK(p.s) /\ p.s # Zero
  BY SoundTyped DEF Zero
<1>2. Made(p) = [p EXCEPT !.s = t, !.upnp = U, !.disowned = D]
  BY <1>1 DEF Pulsed, Made
<1>3. t \in SlotType
  BY <1>1 DEF SlotType, UpnpStates
<1>4. /\ t.enabled = p.s.enabled /\ t.ext = p.s.ext /\ t.int = p.s.int /\ t.tcp = p.s.tcp
      /\ t.upnpMapped /\ t.upnp = "IDLE" /\ t.nat = p.s.nat /\ t.natMapped = p.s.natMapped
  BY <1>1 DEF SlotType
<1> HIDE DEF t
<1>5. "natpmp" \notin speaks => UpnpOnly(t)
  BY <1>1, <1>4 DEF EntryOK, UpnpOnly, OwnsUpnp
<1>6. EntryOK(t)
  BY <1>1, <1>3, <1>4, <1>5 DEF EntryOK
<1>7. U = p.upnp \cup {Key(p.s)} /\ D = p.disowned \ {Key(p.s)} /\ OwnsUpnp(t) /\ Key(t) = Key(p.s)
  BY <1>4 DEF OwnsUpnp, Key
<1> HIDE DEF U, D
<1>8. t.enabled = p.s.enabled /\ (OneProtocol /\ p.s.ext = 0 => t.ext = 0)
  BY <1>4
<1>9. Sound([p EXCEPT !.s = t, !.upnp = U, !.disowned = D], s0, W, V)
  BY <1>1, <1>3, <1>6, <1>7, <1>8, UpnpEnds, Zenon
<1> QED
  BY <1>2, <1>9

\* The program is told that the mapping was not made, or nothing at all.
LEMMA NotMadeSound ==
  ASSUME NEW p, NEW s0, NEW W, NEW V, Sound(p, s0, W, V), p.s.upnp = "MAP",
         NEW q, q = p \/ q = [p EXCEPT !.upnp = p.upnp \cup {Key(p.s)}]
  PROVE  Sound(NotMade(q), s0, W, V)
<1> DEFINE t == [p.s EXCEPT !.upnpMapped = FALSE, !.upnp = "ERR"]
           U == q.upnp
           D == Denied(q)
<1>1. /\ p \in Pulsed /\ p.s \in SlotType /\ EntryOK(p.s) /\ p.s # Zero
      /\ "upnp" \in speaks
  BY SoundTyped DEF Zero, EntryOK, NatOnly
<1>2. q.s = p.s /\ (U = p.upnp \/ U = p.upnp \cup {Key(p.s)})
  BY <1>1 DEF Pulsed
<1>3. /\ U = p.upnp => D = Denied(p)
      /\ U = p.upnp \cup {Key(p.s)} => D = p.disowned \cup {Key(p.s)}
  BY <1>1, <1>2 DEF Denied, Pulsed
<1>4. NotMade(q) = [p EXCEPT !.s = t, !.upnp = U, !.disowned = D]
  BY <1>1 DEF Pulsed, NotMade
<1>5. t \in SlotType
  BY <1>1 DEF SlotType, UpnpStates
<1>6. /\ t.enabled = p.s.enabled /\ t.ext = p.s.ext /\ t.int = p.s.int /\ t.tcp = p.s.tcp
      /\ ~t.upnpMapped /\ t.upnp = "ERR" /\ t.nat = p.s.nat /\ t.natMapped = p.s.natMapped
  BY <1>1 DEF SlotType
<1> HIDE DEF t, U, D
<1>7. "natpmp" \notin speaks => UpnpOnly(t)
  BY <1>6 DEF UpnpOnly, OwnsUpnp
<1>8. EntryOK(t)
  BY <1>1, <1>5, <1>6, <1>7 DEF EntryOK
<1>9. t.enabled = p.s.enabled /\ (OneProtocol /\ p.s.ext = 0 => t.ext = 0)
  BY <1>6
<1>10. \/ U = p.upnp /\ D = Denied(p)
       \/ U = p.upnp \cup {Key(p.s)} /\ D = p.disowned \cup {Key(p.s)}
  BY <1>2, <1>3
<1>11. Sound([p EXCEPT !.s = t, !.upnp = U, !.disowned = D], s0, W, V)
  BY <1>1, <1>5, <1>8, <1>9, <1>10, UpnpEnds, Zenon
<1> QED
  BY <1>4, <1>11

LEMMA UpnpMapSound ==
  ASSUME NEW P, NEW s0, NEW W, NEW V, SoundAll(P, s0, W, V)
  PROVE  SoundAll(UpnpMap(P), s0, W, V)
<1> SUFFICES ASSUME NEW q \in UpnpMap(P)
             PROVE  Sound(q, s0, W, V)
  BY DEF SoundAll
<1>1. PICK p \in P :
        \/ q = p
        \/ p.s.upnp = "MAP" /\ q = NotMade(p)
        \/ p.s.upnp = "MAP" /\ "upnp" \in speaks /\ q = Made(p)
        \/ p.s.upnp = "MAP" /\ q = NotMade([p EXCEPT !.upnp = p.upnp \cup {Key(p.s)}])
  BY DEF UpnpMap
<1>2. Sound(p, s0, W, V)
  BY DEF SoundAll
<1> QED
  BY <1>1, <1>2, MadeSound, NotMadeSound

LEMMA UpnpPulseSound ==
  ASSUME NEW P, NEW s0, NEW W, NEW V, SoundAll(P, s0, W, V)
  PROVE  /\ SoundAll(UpnpAsk(P), s0, W, V)
         /\ SoundAll(UpnpWantMap(UpnpUnmap(UpnpAsk(P))), s0, W, V)
         /\ SoundAll(UpnpWantUnmap(UpnpDiscover(P)), s0, W, V)
         /\ SoundAll(UpnpPulse(P), s0, W, V)
<1>1. SoundAll(UpnpWantUnmap(UpnpDiscover(P)), s0, W, V)
  BY UpnpDiscoverSound, UpnpWantUnmapSound
<1>2. SoundAll(UpnpAsk(P), s0, W, V)
  BY <1>1, UpnpCheckSound DEF UpnpAsk
<1>3. SoundAll(UpnpWantMap(UpnpUnmap(UpnpAsk(P))), s0, W, V)
  BY <1>2, UpnpUnmapSound, UpnpWantMapSound
<1> QED
  BY <1>1, <1>2, <1>3, UpnpMapSound DEF UpnpPulse

\* A thread that dies in a call of UPnP.
LEMMA UpnpInterruptedSound ==
  ASSUME NEW P, NEW s0, NEW W, NEW V, SoundAll(P, s0, W, V)
  PROVE  SoundAll(UpnpInterrupted(P), s0, W, V)
<1> SUFFICES ASSUME NEW q \in UpnpInterrupted(P)
             PROVE  Sound(q, s0, W, V)
  BY DEF SoundAll
<1> DEFINE A == UpnpAsk(P)
           B == UpnpWantMap(UpnpUnmap(UpnpAsk(P)))
           C == UpnpWantUnmap(UpnpDiscover(P))
<1>1. PICK p \in P \cup A \cup B \cup C :
        \/ q = p
        \/ q = [p EXCEPT !.upnp = p.upnp \ {Key(p.s)}, !.disowned = p.disowned \ {Key(p.s)}]
        \/ p.s.upnp = "MAP" /\ q = [p EXCEPT !.upnp = p.upnp \cup {Key(p.s)}]
  BY DEF UpnpInterrupted
<1>2. Sound(p, s0, W, V)
  BY UpnpPulseSound DEF SoundAll
<1>3. p \in Pulsed /\ p.s \in SlotType /\ Key(p.s) \in Ports \X BOOLEAN
  BY <1>2, SoundTyped, KeyTyped
<1>4. CASE q = [p EXCEPT !.upnp = p.upnp \ {Key(p.s)}, !.disowned = p.disowned \ {Key(p.s)}]
  <2>1. /\ q \in Pulsed /\ q.s = p.s /\ q.nat = p.nat
        /\ q.upnp = p.upnp \ {Key(p.s)} /\ q.disowned = p.disowned \ {Key(p.s)}
    BY <1>3, <1>4 DEF Pulsed
  <2> QED
    BY <1>2, <2>1 DEF Sound
<1>5. CASE p.s.upnp = "MAP" /\ q = [p EXCEPT !.upnp = p.upnp \cup {Key(p.s)}]
  <2>1. /\ q \in Pulsed /\ q.s = p.s /\ q.nat = p.nat
        /\ q.upnp = p.upnp \cup {Key(p.s)} /\ q.disowned = p.disowned
    BY <1>3, <1>5 DEF Pulsed
  <2>2. OwnsUpnp(q.s) /\ Key(q.s) = Key(p.s)
    BY <1>5, <2>1 DEF OwnsUpnp
  <2> QED
    BY <1>2, <2>1, <2>2 DEF Sound
<1> QED
  BY <1>1, <1>2, <1>4, <1>5

\* The time of the last visit is nothing to the mappings.
LEMMA CooledSound ==
  ASSUME NEW P, NEW s0, NEW W, NEW V, SoundAll(P, s0, W, V)
  PROVE  SoundAll(Cooled(P), s0, W, V)
<1> SUFFICES ASSUME NEW q \in Cooled(P)
             PROVE  Sound(q, s0, W, V)
  BY DEF SoundAll
<1>1. PICK p \in P : q = [p EXCEPT !.s.hot = FALSE]
  BY DEF Cooled
<1>2. /\ p \in Pulsed /\ p.s \in SlotType /\ EntryOK(p.s)
      /\ Sound(p, s0, W, V)
  BY SoundTyped DEF SoundAll
<1> DEFINE t == [p.s EXCEPT !.hot = FALSE]
<1>3. q = [p EXCEPT !.s = t] /\ q.s = t
  BY <1>1, <1>2 DEF Pulsed
<1>4. t \in SlotType
  BY <1>2 DEF SlotType
<1>5. SameBut(p.s, t) /\ t.nat = p.s.nat
  BY <1>2 DEF SlotType, SameBut
<1>6. p.s = Zero => t = Zero
  <2>1. ~p.s.hot => t = p.s
    BY <1>2 DEF SlotType
  <2>2. ~Zero.hot
    BY DEF Zero
  <2> QED
    BY <2>1, <2>2
<1> HIDE DEF t
<1>7. "natpmp" \notin speaks => UpnpOnly(t)
  BY <1>2, <1>5 DEF EntryOK, UpnpOnly, OwnsUpnp, SameBut
<1>8. "upnp" \notin speaks => NatOnly(t)
  BY <1>2, <1>5 DEF EntryOK, NatOnly, SameBut
<1>9. EntryOK(t)
  BY <1>2, <1>4, <1>5, <1>7, <1>8 DEF EntryOK, SameBut
<1>10. Keeps(p.s, t)
  BY <1>4, <1>5, <1>6, <1>9 DEF Keeps, SameBut, OwnsUpnp, OwnsNat, Key
<1> QED
  BY <1>2, <1>3, <1>9, <1>10, EntryMoves

\* A visit of the entry s0, whole or cut short by pthread_cancel.
LEMMA VisitSound ==
  ASSUME NEW s0, NEW W, NEW V, EntryOK(s0), TablesOK,
         "natpmp" \notin speaks =>
           \A k \in upnpTable \ disowned : k \in W \/ (OwnsUpnp(s0) /\ Key(s0) = k),
         "upnp" \notin speaks =>
           \A x \in natTable : x \in V \/ (OwnsNat(s0) /\ s0.int = x)
  PROVE  SoundAll(Pulses(s0), s0, W, V) /\ SoundAll(Cut(s0), s0, W, V)
<1> DEFINE p == [s |-> s0, nat |-> natTable, upnp |-> upnpTable, disowned |-> disowned]
<1>1. p \in Pulsed
  BY DEF Pulsed, TablesOK, EntryOK
<1>2. p.s = s0 /\ p.nat = natTable /\ p.upnp = upnpTable /\ p.disowned = disowned
  OBVIOUS
<1>3. Before(s0) = {p}
  BY DEF Before
<1> HIDE DEF p
<1>4. Sound(p, s0, W, V)
  BY <1>1, <1>2 DEF Sound, TablesOK
<1>5. SoundAll(Before(s0), s0, W, V)
  BY <1>2, <1>3, <1>4 DEF SoundAll
<1>6. SoundAll(NatPulse(Before(s0)), s0, W, V)
  BY <1>5, NatPulseSound
<1>7. SoundAll(Pulses(s0), s0, W, V)
  BY <1>6, UpnpPulseSound, CooledSound DEF Pulses
<1>8. SoundAll(Before(s0) \cup NatInterrupted(Before(s0))
               \cup UpnpInterrupted(NatPulse(Before(s0))), s0, W, V)
  BY <1>5, <1>6, NatInterruptedSound, UpnpInterruptedSound DEF SoundAll
<1> QED
  BY <1>7, <1>8, CooledSound DEF Cut

\* An entry whose status is ML_PORT_UNMAPPED has no mapping, unless NAT-PMP has
\* given a request up.
LEMMA UnmappedOwnsNothing ==
  ASSUME NEW s, EntryOK(s), Unmapped(s)
  PROVE  ~OwnsUpnp(s) /\ (OwnsNat(s) => s.nat = "ERR")
<1>1. s \in SlotType
  BY DEF EntryOK
<1>2. s.upnp \in UpnpStates /\ s.nat \in NatStates /\ s.upnpMapped \in BOOLEAN
  BY <1>1 DEF SlotType
<1>3. UpnpStatus(s) \in {0, 1} /\ NatStatus(s) \in {0, 1}
  BY DEF Unmapped
<1>4. s.upnp # "MAP" /\ ~(s.upnp = "IDLE" /\ s.upnpMapped) /\ s.upnp # "UNMAP"
  BY <1>3 DEF UpnpStatus
<1>5. ~OwnsUpnp(s)
  BY <1>2, <1>4 DEF EntryOK, OwnsUpnp, UpnpStates
<1>6. s.nat = "ERR" \/ (s.nat \in {"IDLE", "DISCOVER"} /\ ~s.natMapped)
  BY <1>2, <1>3 DEF NatStatus, EntryOK, NatStates
<1> QED
  BY <1>5, <1>6 DEF OwnsNat

-----------------------------------------------------------------------------
(***************************************************************************)
(* The actions.  The mappings of the other entries are those of the rest   *)
(* of the array and of the other array.                                    *)
(***************************************************************************)
UpnpOf(arr, S) == {Key(arr[i]) : i \in {k \in S : OwnsUpnp(arr[k])}}
NatOf(arr, S) == {arr[i].int : i \in {k \in S : OwnsNat(arr[k])}}

\* What a thread does to an entry of g_maps.
LEMMA MapsVisited ==
  ASSUME IInv, NEW i \in Slots, NEW p \in Pulses(g_maps[i]) \cup Cut(g_maps[i]),
         g_maps' = [g_maps EXCEPT ![i] = p.s], RouterSays(p), Forgets(p, {}),
         UNCHANGED <<g_unmaps, main, speaks>>
  PROVE  ArraysOK' /\ MainOK' /\ TablesOK' /\ UpnpKnown' /\ NatKnown'
<1> DEFINE W == UpnpOf(g_maps, Slots \ {i}) \cup UpnpOf(g_unmaps, Slots)
           V == forgotten \cup NatOf(g_maps, Slots \ {i}) \cup NatOf(g_unmaps, Slots)
<1>1. Sound(p, g_maps[i], W, V)
  <2>1. EntryOK(g_maps[i]) /\ TablesOK
    BY DEF IInv, ArraysOK
  <2>2. "natpmp" \notin speaks =>
          \A k \in upnpTable \ disowned :
            k \in W \/ (OwnsUpnp(g_maps[i]) /\ Key(g_maps[i]) = k)
    BY DEF IInv, UpnpKnown, UpnpOf
  <2>3. "upnp" \notin speaks =>
          \A x \in natTable : x \in V \/ (OwnsNat(g_maps[i]) /\ g_maps[i].int = x)
    BY DEF IInv, NatKnown, NatOf
  <2> HIDE DEF W, V
  <2>4. SoundAll(Pulses(g_maps[i]), g_maps[i], W, V) /\ SoundAll(Cut(g_maps[i]), g_maps[i], W, V)
    BY <2>1, <2>2, <2>3, VisitSound
  <2> QED
    BY <2>4 DEF SoundAll
<1>2. g_maps = [k \in Slots |-> g_maps[k]]
  BY DEF IInv, ArraysOK
<1>3. /\ g_maps' = [k \in Slots |-> g_maps'[k]]
      /\ g_maps'[i] = p.s
      /\ \A k \in Slots \ {i} : g_maps'[k] = g_maps[k]
  BY <1>2
<1>4. EntryOK(p.s) /\ p.s.enabled = g_maps[i].enabled
      /\ (g_maps[i] = Zero => p.s = Zero)
  BY <1>1 DEF Sound
<1>5. /\ upnpTable' = p.upnp /\ natTable' = p.nat /\ disowned' = p.disowned
      /\ speaks' = speaks /\ g_unmaps' = g_unmaps /\ main' = main
  BY DEF RouterSays
<1>6. ArraysOK'
  <2>1. \A k \in Slots : EntryOK(g_maps'[k])
    BY <1>1, <1>3, <1>4 DEF IInv, ArraysOK
  <2>2. \A k \in Slots : ~g_maps'[k].enabled => g_maps'[k] = Zero
    BY <1>3, <1>4 DEF IInv, ArraysOK
  <2> QED
    BY <1>3, <1>5, <2>1, <2>2 DEF IInv, ArraysOK, EntryOK, UpnpOnly, NatOnly
<1>7. MainOK'
  <2>1. \A k \in Slots : g_maps'[k].enabled = g_maps[k].enabled
    BY <1>3, <1>4
  <2> QED
    BY <1>5, <2>1 DEF IInv, MainOK, OneProtocol
<1>8. TablesOK'
  BY <1>1, <1>5 DEF IInv, TablesOK, Sound, Pulsed, Forgets
<1>9. UpnpKnown'
  <2> SUFFICES ASSUME "natpmp" \notin speaks, NEW k \in p.upnp \ p.disowned
               PROVE  \/ \E x \in Slots : OwnsUpnp(g_maps'[x]) /\ Key(g_maps'[x]) = k
                      \/ \E x \in Slots : OwnsUpnp(g_unmaps[x]) /\ Key(g_unmaps[x]) = k
    BY <1>5 DEF UpnpKnown
  <2>1. k \in W \/ (OwnsUpnp(p.s) /\ Key(p.s) = k)
    BY <1>1 DEF Sound
  <2> QED
    BY <1>3, <2>1 DEF UpnpOf
<1>10. NatKnown'
  <2> SUFFICES ASSUME "upnp" \notin speaks, NEW k \in p.nat \ forgotten'
               PROVE  \/ \E x \in Slots : OwnsNat(g_maps'[x]) /\ g_maps'[x].int = k
                      \/ \E x \in Slots : OwnsNat(g_unmaps[x]) /\ g_unmaps[x].int = k
    BY <1>5 DEF NatKnown
  <2>1. k \in V \/ (OwnsNat(p.s) /\ p.s.int = k)
    BY <1>1 DEF Sound
  <2>2. k \in forgotten => OwnsNat(p.s) /\ p.s.int = k
    BY <1>4 DEF Forgets, EntryOK, NatOnly, OwnsNat
  <2> QED
    BY <1>3, <2>1, <2>2 DEF NatOf
<1> QED
  BY <1>6, <1>7, <1>8, <1>9, <1>10

LEMMA ZeroOK == EntryOK(Zero) /\ ~OwnsUpnp(Zero) /\ ~OwnsNat(Zero)
<1>1. Zero \in SlotType
  <2>1. /\ "IDLE" \in NatStates /\ "IDLE" \in UpnpStates
        /\ 0 \in 0 .. MaxTries /\ 0 \in Ports
    BY PortMappingAssumption, PortsAreNumbers DEF NatStates, UpnpStates
  <2> QED
    BY <2>1 DEF Zero, SlotType
<1>2. /\ ~Zero.enabled /\ Zero.nat = "IDLE" /\ Zero.upnp = "IDLE" /\ ~Zero.upnpMapped
      /\ ~Zero.natMapped /\ Zero.ext = 0
  BY DEF Zero
<1> QED
  BY <1>1, <1>2 DEF EntryOK, OwnsUpnp, OwnsNat, UpnpOnly, NatOnly

\* What a thread does to an entry of g_unmaps, which it may free.
LEMMA UnmapsVisited ==
  ASSUME IInv, NEW i \in Slots, NEW p \in Pulses(g_unmaps[i]) \cup Cut(g_unmaps[i]),
         NEW e, NEW F, RouterSays(p), Forgets(p, F),
         e = p.s \/ (e = Zero /\ Unmapped(p.s) /\ (p.s.nat = "ERR" => p.s.int \in F)),
         g_unmaps' = [g_unmaps EXCEPT ![i] = e],
         UNCHANGED <<g_maps, main, speaks>>
  PROVE  ArraysOK' /\ MainOK' /\ TablesOK' /\ UpnpKnown' /\ NatKnown'
<1> DEFINE W == UpnpOf(g_unmaps, Slots \ {i}) \cup UpnpOf(g_maps, Slots)
           V == forgotten \cup NatOf(g_unmaps, Slots \ {i}) \cup NatOf(g_maps, Slots)
<1>1. Sound(p, g_unmaps[i], W, V)
  <2>1. EntryOK(g_unmaps[i]) /\ TablesOK
    BY DEF IInv, ArraysOK
  <2>2. "natpmp" \notin speaks =>
          \A k \in upnpTable \ disowned :
            k \in W \/ (OwnsUpnp(g_unmaps[i]) /\ Key(g_unmaps[i]) = k)
    BY DEF IInv, UpnpKnown, UpnpOf
  <2>3. "upnp" \notin speaks =>
          \A x \in natTable : x \in V \/ (OwnsNat(g_unmaps[i]) /\ g_unmaps[i].int = x)
    BY DEF IInv, NatKnown, NatOf
  <2> HIDE DEF W, V
  <2>4. /\ SoundAll(Pulses(g_unmaps[i]), g_unmaps[i], W, V)
        /\ SoundAll(Cut(g_unmaps[i]), g_unmaps[i], W, V)
    BY <2>1, <2>2, <2>3, VisitSound
  <2> QED
    BY <2>4 DEF SoundAll
<1>2. g_unmaps = [k \in Slots |-> g_unmaps[k]]
  BY DEF IInv, ArraysOK
<1>3. /\ g_unmaps' = [k \in Slots |-> g_unmaps'[k]]
      /\ g_unmaps'[i] = e
      /\ \A k \in Slots \ {i} : g_unmaps'[k] = g_unmaps[k]
  BY <1>2
<1>4. EntryOK(p.s) /\ p.s.enabled = g_unmaps[i].enabled
      /\ (OneProtocol /\ g_unmaps[i].ext = 0 => p.s.ext = 0)
  BY <1>1 DEF Sound
<1>5. /\ EntryOK(e) /\ ~e.enabled
      /\ OneProtocol /\ g_unmaps[i].ext = 0 => e.ext = 0
      /\ OwnsUpnp(p.s) => OwnsUpnp(e) /\ Key(e) = Key(p.s)
      /\ OwnsNat(p.s) => (OwnsNat(e) /\ e.int = p.s.int) \/ p.s.int \in F
  <2>1. CASE e = p.s
    BY <1>1, <1>4, <2>1 DEF IInv, ArraysOK
  <2>2. CASE e = Zero /\ Unmapped(p.s) /\ (p.s.nat = "ERR" => p.s.int \in F)
    <3>1. ~Zero.enabled /\ Zero.ext = 0
      BY DEF Zero
    <3> QED
      BY <1>4, <2>2, <3>1, ZeroOK, UnmappedOwnsNothing
  <2> QED
    BY <2>1, <2>2
<1>6. /\ upnpTable' = p.upnp /\ natTable' = p.nat /\ disowned' = p.disowned
      /\ speaks' = speaks /\ g_maps' = g_maps /\ main' = main
  BY DEF RouterSays
<1>7. ArraysOK'
  <2>1. \A k \in Slots : EntryOK(g_unmaps'[k]) /\ ~g_unmaps'[k].enabled
    BY <1>3, <1>5 DEF IInv, ArraysOK
  <2> QED
    BY <1>3, <1>6, <2>1 DEF IInv, ArraysOK, EntryOK, UpnpOnly, NatOnly
<1>8. MainOK'
  <2>1. \A k \in Slots : OneProtocol /\ g_unmaps[k].ext = 0 => g_unmaps'[k].ext = 0
    BY <1>3, <1>5
  <2> QED
    BY <1>6, <2>1 DEF IInv, MainOK, OneProtocol
<1>9. TablesOK'
  BY <1>1, <1>6 DEF IInv, TablesOK, Sound, Pulsed, Forgets
<1>10. UpnpKnown'
  <2> SUFFICES ASSUME "natpmp" \notin speaks, NEW k \in p.upnp \ p.disowned
               PROVE  \/ \E x \in Slots : OwnsUpnp(g_maps[x]) /\ Key(g_maps[x]) = k
                      \/ \E x \in Slots : OwnsUpnp(g_unmaps'[x]) /\ Key(g_unmaps'[x]) = k
    BY <1>6 DEF UpnpKnown
  <2>1. k \in W \/ (OwnsUpnp(p.s) /\ Key(p.s) = k)
    BY <1>1 DEF Sound
  <2> QED
    BY <1>3, <1>5, <2>1 DEF UpnpOf
<1>11. NatKnown'
  <2> SUFFICES ASSUME "upnp" \notin speaks, NEW k \in p.nat \ forgotten'
               PROVE  \/ \E x \in Slots : OwnsNat(g_maps[x]) /\ g_maps[x].int = k
                      \/ \E x \in Slots : OwnsNat(g_unmaps'[x]) /\ g_unmaps'[x].int = k
    BY <1>6 DEF NatKnown
  <2>1. k \in V \/ (OwnsNat(p.s) /\ p.s.int = k)
    BY <1>1 DEF Sound
  <2>2. k \in forgotten => OwnsNat(p.s) /\ p.s.int = k
    BY <1>4 DEF Forgets, EntryOK, NatOnly, OwnsNat
  <2>3. k \notin F
    BY DEF Forgets
  <2> QED
    BY <1>3, <1>5, <2>1, <2>2, <2>3 DEF NatOf
<1> QED
  BY <1>7, <1>8, <1>9, <1>10, <1>11

\* An entry moved from g_maps to g_unmaps, by either way to remove one.
LEMMA Moves ==
  ASSUME IInv, NEW i \in Slots, NEW j \in Slots, g_maps[i].enabled,
         OneProtocol => g_unmaps[j].ext = 0,
         g_unmaps' = [g_unmaps EXCEPT ![j] = Moved(g_maps[i])],
         g_maps' = [g_maps EXCEPT ![i] = Zero],
         UNCHANGED <<speaks, router>>
  PROVE  ArraysOK' /\ UpnpKnown' /\ NatKnown'
<1> DEFINE s == g_maps[i]
           t == Moved(g_maps[i])
<1>1. EntryOK(s) /\ s \in SlotType
  BY DEF IInv, ArraysOK, EntryOK
<1>2. /\ g_maps = [k \in Slots |-> g_maps[k]]
      /\ g_unmaps = [k \in Slots |-> g_unmaps[k]]
  BY DEF IInv, ArraysOK
<1>3. /\ g_unmaps' = [k \in Slots |-> g_unmaps'[k]]
      /\ g_unmaps'[j] = t
      /\ \A k \in Slots \ {j} : g_unmaps'[k] = g_unmaps[k]
      /\ g_maps' = [k \in Slots |-> g_maps'[k]]
      /\ g_maps'[i] = Zero
      /\ \A k \in Slots \ {i} : g_maps'[k] = g_maps[k]
  BY <1>2
<1>4. t \in SlotType
  BY <1>1 DEF Moved, SlotType
<1>5. /\ ~t.enabled /\ t.int = s.int /\ t.ext = s.ext /\ t.tcp = s.tcp
      /\ t.nat = s.nat /\ t.natMapped = s.natMapped
      /\ t.upnp = s.upnp /\ t.upnpMapped = s.upnpMapped
  BY <1>1 DEF Moved, SlotType
<1> HIDE DEF t
<1>6. "natpmp" \notin speaks => UpnpOnly(t)
  BY <1>1, <1>5 DEF EntryOK, UpnpOnly, OwnsUpnp
<1>7. "upnp" \notin speaks => NatOnly(t)
  BY <1>1, <1>5 DEF EntryOK, NatOnly
<1>8. EntryOK(t)
  BY <1>1, <1>4, <1>5, <1>6, <1>7 DEF EntryOK
<1>9. /\ OwnsUpnp(s) => OwnsUpnp(t) /\ Key(t) = Key(s)
      /\ OwnsNat(s) => OwnsNat(t) /\ t.int = s.int
  BY <1>5 DEF OwnsUpnp, OwnsNat, Key
<1>10. speaks' = speaks /\ upnpTable' = upnpTable /\ natTable' = natTable /\ disowned' = disowned
      /\ forgotten' = forgotten
  BY DEF router
<1>11. ArraysOK'
  <2>1. \A k \in Slots : EntryOK(g_unmaps'[k]) /\ ~g_unmaps'[k].enabled
    BY <1>3, <1>5, <1>8 DEF IInv, ArraysOK
  <2>2. \A k \in Slots : EntryOK(g_maps'[k])
    BY <1>3, ZeroOK DEF IInv, ArraysOK
  <2>3. \A k \in Slots : ~g_maps'[k].enabled => g_maps'[k] = Zero
    BY <1>3 DEF IInv, ArraysOK
  <2> QED
    BY <1>3, <1>10, <2>1, <2>2, <2>3 DEF ArraysOK, EntryOK, UpnpOnly, NatOnly
<1>12. UpnpKnown'
  <2> SUFFICES ASSUME "natpmp" \notin speaks, NEW k \in upnpTable \ disowned
               PROVE  \/ \E x \in Slots : OwnsUpnp(g_maps'[x]) /\ Key(g_maps'[x]) = k
                      \/ \E x \in Slots : OwnsUpnp(g_unmaps'[x]) /\ Key(g_unmaps'[x]) = k
    BY <1>10 DEF UpnpKnown
  <2>1. ~OwnsUpnp(g_unmaps[j])
    BY DEF IInv, ArraysOK, EntryOK, UpnpOnly, OneProtocol
  <2>2. \/ \E x \in Slots : OwnsUpnp(g_maps[x]) /\ Key(g_maps[x]) = k
        \/ \E x \in Slots : OwnsUpnp(g_unmaps[x]) /\ Key(g_unmaps[x]) = k
    BY DEF IInv, UpnpKnown
  <2> QED
    BY <1>3, <1>9, <2>1, <2>2
<1>13. NatKnown'
  <2> SUFFICES ASSUME "upnp" \notin speaks, NEW k \in natTable \ forgotten
               PROVE  \/ \E x \in Slots : OwnsNat(g_maps'[x]) /\ g_maps'[x].int = k
                      \/ \E x \in Slots : OwnsNat(g_unmaps'[x]) /\ g_unmaps'[x].int = k
    BY <1>10 DEF NatKnown
  <2>1. ~OwnsNat(g_unmaps[j])
    BY DEF OwnsNat, OneProtocol
  <2>2. \/ \E x \in Slots : OwnsNat(g_maps[x]) /\ g_maps[x].int = k
        \/ \E x \in Slots : OwnsNat(g_unmaps[x]) /\ g_unmaps[x].int = k
    BY DEF IInv, NatKnown
  <2> QED
    BY <1>3, <1>9, <2>1, <2>2
<1> QED
  BY <1>11, <1>12, <1>13

\* Where neither the arrays nor the router change.
LEMMA SharedSame ==
  ASSUME IInv, UNCHANGED <<shared, speaks, router>>
  PROVE  ArraysOK' /\ TablesOK' /\ UpnpKnown' /\ NatKnown'
<1>1. /\ g_maps' = g_maps /\ g_unmaps' = g_unmaps /\ speaks' = speaks
      /\ upnpTable' = upnpTable /\ natTable' = natTable /\ disowned' = disowned
      /\ forgotten' = forgotten
  BY DEF shared, router
<1> QED
  BY <1>1 DEF IInv, ArraysOK, TablesOK, UpnpKnown, NatKnown,
              EntryOK, UpnpOnly, NatOnly

LEMMA BlankOK ==
  ASSUME NEW m \in Items
  PROVE  /\ EntryOK(Blank(m)) /\ ~Blank(m).enabled
         /\ EntryOK(Fresh(m)) /\ Fresh(m).enabled
<1>1. /\ m.int \in Ports /\ m.ext \in Ports /\ m.tcp \in BOOLEAN
      /\ m.int > 0 /\ m.ext > 0
  BY PortMappingAssumption DEF Ports
<1>2. /\ {"IDLE", "DISCOVER"} \subseteq NatStates /\ {"IDLE", "DISCOVER"} \subseteq UpnpStates
      /\ Zero \in SlotType
  BY ZeroOK DEF NatStates, UpnpStates, EntryOK
<1>3. Blank(m) \in SlotType
  BY <1>1, <1>2 DEF Blank, SlotType
<1>4. Fresh(m) \in SlotType
  BY <1>2, <1>3 DEF Fresh, SlotType
<1>5. /\ Zero.nat = "IDLE" /\ Zero.upnp = "IDLE" /\ ~Zero.natMapped /\ ~Zero.upnpMapped
      /\ ~Zero.enabled
  BY DEF Zero
<1>6. /\ Blank(m).int = m.int /\ Blank(m).ext = m.ext /\ ~Blank(m).enabled
      /\ Blank(m).nat = "IDLE" /\ Blank(m).upnp = "IDLE"
      /\ ~Blank(m).natMapped /\ ~Blank(m).upnpMapped
  BY <1>2, <1>5 DEF Blank, SlotType
<1>7. /\ Fresh(m).int = m.int /\ Fresh(m).ext = m.ext /\ Fresh(m).enabled
      /\ Fresh(m).nat = "DISCOVER" /\ Fresh(m).upnp = "DISCOVER"
      /\ ~Fresh(m).natMapped /\ ~Fresh(m).upnpMapped
  BY <1>3, <1>6 DEF Fresh, SlotType
<1>8. EntryOK(Blank(m))
  BY <1>1, <1>3, <1>6 DEF EntryOK, UpnpOnly, NatOnly, OwnsUpnp
<1>9. EntryOK(Fresh(m))
  BY <1>1, <1>4, <1>7 DEF EntryOK, UpnpOnly, NatOnly, OwnsUpnp
<1> QED
  BY <1>6, <1>7, <1>8, <1>9

LEMMA AddWriteStep == IInv /\ AddWrite => IInv'
<1> SUFFICES ASSUME IInv, AddWrite PROVE IInv'
  OBVIOUS
<1> DEFINE j == main.to
           m == main.item
<1>1. j \in Slots /\ m \in Items /\ ~g_maps[j].enabled
  BY DEF IInv, MainOK, AddWrite
<1>2. g_maps[j] = Zero
  BY <1>1 DEF IInv, ArraysOK
<1>3. /\ g_maps' = [k \in Slots |-> g_maps'[k]]
      /\ g_maps'[j] = Fresh(m)
      /\ \A k \in Slots \ {j} : g_maps'[k] = g_maps[k]
  BY <1>1 DEF AddWrite, IInv, ArraysOK
<1>4. /\ g_unmaps' = g_unmaps /\ speaks' = speaks /\ main' = [op |-> "idle"]
      /\ upnpTable' = upnpTable /\ natTable' = natTable /\ disowned' = disowned
      /\ forgotten' = forgotten
      /\ UNCHANGED <<thread, g_running, g_stop, g_pthread, cancelled>>
  BY DEF AddWrite, OnlyMain, router, Return
<1> HIDE DEF j, m
<1>5. ArraysOK'
  <2>1. \A k \in Slots : EntryOK(g_maps'[k])
    BY <1>1, <1>3, BlankOK DEF IInv, ArraysOK
  <2>2. \A k \in Slots : ~g_maps'[k].enabled => g_maps'[k] = Zero
    BY <1>1, <1>3, BlankOK DEF IInv, ArraysOK
  <2> QED
    BY <1>3, <1>4, <2>1, <2>2 DEF IInv, ArraysOK, EntryOK, UpnpOnly, NatOnly
<1>6. ThreadsOK' /\ TablesOK' /\ MainOK'
  BY <1>4 DEF IInv, ThreadsOK, TablesOK, MainOK
<1>7. UpnpKnown' /\ NatKnown'
  <2>1. ~OwnsUpnp(g_maps[j]) /\ ~OwnsNat(g_maps[j])
    BY <1>2, ZeroOK
  <2> QED
    BY <1>3, <1>4, <2>1 DEF IInv, UpnpKnown, NatKnown
<1> QED
  BY <1>5, <1>6, <1>7 DEF IInv

LEMMA PutWriteStep == IInv /\ PutWrite => IInv'
<1> SUFFICES ASSUME IInv, PutWrite PROVE IInv'
  OBVIOUS
<1> DEFINE j == main.to
           m == main.item
<1>1. j \in Slots /\ m \in Items /\ (OneProtocol => g_unmaps[j].ext = 0)
  BY DEF IInv, MainOK, PutWrite
<1>2. /\ g_unmaps' = [k \in Slots |-> g_unmaps'[k]]
      /\ g_unmaps'[j] = Blank(m)
      /\ \A k \in Slots \ {j} : g_unmaps'[k] = g_unmaps[k]
  BY <1>1 DEF PutWrite, IInv, ArraysOK
<1>3. /\ g_maps' = g_maps /\ speaks' = speaks /\ main' = [op |-> "idle"]
      /\ upnpTable' = upnpTable /\ natTable' = natTable /\ disowned' = disowned
      /\ forgotten' = forgotten
      /\ UNCHANGED <<thread, g_running, g_stop, g_pthread, cancelled>>
  BY DEF PutWrite, OnlyMain, router, Return
<1> HIDE DEF j, m
<1>4. ArraysOK'
  <2>1. \A k \in Slots : EntryOK(g_unmaps'[k]) /\ ~g_unmaps'[k].enabled
    BY <1>1, <1>2, BlankOK DEF IInv, ArraysOK
  <2> QED
    BY <1>2, <1>3, <2>1 DEF IInv, ArraysOK, EntryOK, UpnpOnly, NatOnly
<1>5. ThreadsOK' /\ TablesOK' /\ MainOK'
  BY <1>3 DEF IInv, ThreadsOK, TablesOK, MainOK
<1>6. UpnpKnown'
  <2> SUFFICES ASSUME "natpmp" \notin speaks PROVE UpnpKnown'
    BY <1>3 DEF UpnpKnown
  <2>1. ~OwnsUpnp(g_unmaps[j])
    BY <1>1 DEF IInv, ArraysOK, EntryOK, UpnpOnly, OneProtocol
  <2> QED
    BY <1>2, <1>3, <2>1 DEF IInv, UpnpKnown
<1>7. NatKnown'
  <2> SUFFICES ASSUME "upnp" \notin speaks PROVE NatKnown'
    BY <1>3 DEF NatKnown
  <2>1. ~OwnsNat(g_unmaps[j])
    BY <1>1 DEF OwnsNat, OneProtocol
  <2> QED
    BY <1>2, <1>3, <2>1 DEF IInv, NatKnown
<1> QED
  BY <1>4, <1>5, <1>6, <1>7 DEF IInv

\* The end of a step of ml_upnpRemoveAllMaps.
LEMMA NextSlotTyped ==
  ASSUME NEW i \in Slots
  PROVE  NextSlot(i) \in [op : {"idle", "start", "stop", "clear_wait"}] \cup [op : {"clear"}, from : Slots]
BY PortMappingAssumption DEF NextSlot, Slots

LEMMA MoveWriteStep == IInv /\ (MoveWrite \/ ClearMove) => IInv'
<1> SUFFICES ASSUME IInv, MoveWrite \/ ClearMove PROVE IInv'
  OBVIOUS
<1>1. /\ main.from \in Slots /\ main.to \in Slots /\ g_maps[main.from].enabled
      /\ OneProtocol => g_unmaps[main.to].ext = 0
  BY DEF IInv, MainOK, MoveWrite, ClearMove
<1>2. /\ g_unmaps' = [g_unmaps EXCEPT ![main.to] = Moved(g_maps[main.from])]
      /\ g_maps' = [g_maps EXCEPT ![main.from] = Zero]
      /\ main' \in {[op |-> "idle"], NextSlot(main.from)}
      /\ UNCHANGED <<speaks, router, thread, g_running, g_stop, g_pthread, cancelled>>
  BY DEF MoveWrite, ClearMove, OnlyMain, Return
<1>3. ArraysOK' /\ UpnpKnown' /\ NatKnown'
  BY <1>1, <1>2, Moves
<1>4. ThreadsOK' /\ TablesOK'
  BY <1>2 DEF IInv, ThreadsOK, TablesOK, router
<1>5. MainOK'
  <2>1. main' \in [op : {"idle", "start", "stop", "clear_wait"}] \cup [op : {"clear"}, from : Slots]
    BY <1>1, <1>2, NextSlotTyped
  <2> QED
    BY <2>1 DEF MainOK
<1> QED
  BY <1>3, <1>4, <1>5 DEF IInv

\* The searches and the calls that touch no entry.
LEMMA SearchStep ==
  IInv /\ OnlySearch /\ MainOK' => IInv'
<1> SUFFICES ASSUME IInv, OnlySearch, MainOK' PROVE IInv'
  OBVIOUS
<1>1. ArraysOK' /\ TablesOK' /\ UpnpKnown' /\ NatKnown'
  BY SharedSame DEF OnlySearch, OnlyMain
<1>2. ThreadsOK'
  BY DEF OnlySearch, OnlyMain, IInv, ThreadsOK
<1> QED
  BY <1>1, <1>2 DEF IInv

LEMMA MainStep == IInv /\ Main => IInv'
<1> SUFFICES ASSUME IInv, Main PROVE IInv'
  OBVIOUS
<1>1. ASSUME NEW m \in Items, AddItem(m) PROVE IInv'
  <2>1. PICK i \in First(FreeMaps) : main' = [op |-> "add", to |-> i, item |-> m]
    BY <1>1 DEF AddItem, Call
  <2>2. i \in Slots /\ ~g_maps[i].enabled /\ g_maps' = g_maps /\ OnlySearch
    BY <1>1, <2>1 DEF First, FreeMaps, AddItem, OnlySearch, shared
  <2>3. MainOK'
    BY <2>1, <2>2 DEF MainOK
  <2> QED
    BY <2>2, <2>3, SearchStep
<1>2. ASSUME NEW m \in Items, RemoveItem(m) PROVE IInv'
  <2>1. PICK j \in First(FreeUnmaps) :
          \/ \E i \in First(Enabled(m)) : main' = [op |-> "move", from |-> i, to |-> j]
          \/ main' = [op |-> "put", to |-> j, item |-> m]
    BY <1>2 DEF RemoveItem, Call
  <2>2. /\ j \in Slots /\ g_unmaps[j].ext = 0
        /\ g_maps' = g_maps /\ g_unmaps' = g_unmaps /\ OnlySearch
    BY <1>2 DEF First, FreeUnmaps, RemoveItem, OnlySearch, shared
  <2>3. CASE main' = [op |-> "put", to |-> j, item |-> m]
    <3>1. MainOK'
      BY <2>2, <2>3 DEF MainOK
    <3> QED
      BY <2>2, <3>1, SearchStep
  <2>4. ASSUME NEW i \in First(Enabled(m)), main' = [op |-> "move", from |-> i, to |-> j]
        PROVE  IInv'
    <3>1. i \in Slots /\ g_maps[i].enabled
      BY DEF First, Enabled
    <3>2. MainOK'
      BY <2>2, <2>4, <3>1 DEF MainOK
    <3> QED
      BY <2>2, <3>2, SearchStep
  <2> QED
    BY <2>1, <2>3, <2>4
<1>3. CASE RemoveAllMaps
  <2>1. 1 \in Slots
    BY PortMappingAssumption DEF Slots
  <2>2. MainOK'
    BY <1>3, <2>1 DEF RemoveAllMaps, Call, MainOK
  <2> QED
    BY <1>3, <2>2, SearchStep DEF RemoveAllMaps
<1>4. CASE Start
  <2>1. PICK t \in Threads : Threading(t, "created", 1) /\ g_pthread' = t
    BY <1>4 DEF Start
  <2>2. ArraysOK' /\ TablesOK' /\ UpnpKnown' /\ NatKnown'
    BY <1>4, SharedSame DEF Start
  <2>3. ThreadsOK'
    BY <1>4, <2>1, PortMappingAssumption DEF Start, Threading, IInv, ThreadsOK, Places
  <2>4. MainOK'
    BY <1>4 DEF Start, Call, MainOK
  <2> QED
    BY <2>2, <2>3, <2>4 DEF IInv
<1>5. CASE Stop
  <2>1. ArraysOK' /\ TablesOK' /\ UpnpKnown' /\ NatKnown'
    BY <1>5, SharedSame DEF Stop, OnlyMain
  <2>2. ThreadsOK' /\ MainOK'
    BY <1>5 DEF Stop, OnlyMain, IInv, ThreadsOK, Call, MainOK
  <2> QED
    BY <2>1, <2>2 DEF IInv
<1> QED
  BY <1>1, <1>2, <1>3, <1>4, <1>5 DEF Main

LEMMA InCallStep == IInv /\ InCall => IInv'
<1> SUFFICES ASSUME IInv, InCall PROVE IInv'
  OBVIOUS
<1>1. CASE ClearSearch
  <2>1. main.from \in Slots /\ OnlySearch
    BY <1>1 DEF ClearSearch, IInv, MainOK
  <2>2. \/ main' = NextSlot(main.from)
        \/ \E j \in First({k \in FreeUnmaps : ~g_unmaps[k].enabled}) :
             /\ g_maps[main.from].enabled
             /\ main' = [op |-> "clear_move", from |-> main.from, to |-> j]
    BY <1>1 DEF ClearSearch
  <2>3. g_maps' = g_maps /\ g_unmaps' = g_unmaps
    BY <2>1 DEF OnlySearch, shared
  <2>4. CASE main' = NextSlot(main.from)
    <3>1. main' \in [op : {"idle", "start", "stop", "clear_wait"}] \cup [op : {"clear"}, from : Slots]
      BY <2>1, <2>4, NextSlotTyped
    <3>2. MainOK'
      BY <3>1 DEF MainOK
    <3> QED
      BY <2>1, <3>2, SearchStep
  <2>5. ASSUME NEW j \in First({k \in FreeUnmaps : ~g_unmaps[k].enabled}),
               g_maps[main.from].enabled,
               main' = [op |-> "clear_move", from |-> main.from, to |-> j]
        PROVE  IInv'
    <3>1. j \in Slots /\ g_unmaps[j].ext = 0
      BY DEF First, FreeUnmaps
    <3>2. MainOK'
      BY <2>1, <2>3, <2>5, <3>1 DEF MainOK
    <3> QED
      BY <2>1, <3>2, SearchStep
  <2> QED
    BY <2>2, <2>4, <2>5
<1>2. CASE ClearDone
  <2>1. MainOK'
    BY <1>2 DEF ClearDone, Return, MainOK
  <2> QED
    BY <1>2, <2>1, SearchStep DEF ClearDone
<1>3. CASE StartSet \/ StopSeen \/ StopTimeout
  <2>1. UNCHANGED <<shared, speaks, router, thread, g_pthread>> /\ main' = [op |-> "idle"]
    BY <1>3 DEF StartSet, StopSeen, StopTimeout, OnlyMain, Return
  <2>2. ArraysOK' /\ TablesOK' /\ UpnpKnown' /\ NatKnown'
    BY <2>1, SharedSame
  <2>3. g_running' \in BOOLEAN /\ g_stop' \in BOOLEAN /\ cancelled' \subseteq Threads
    BY <1>3 DEF StartSet, StopSeen, StopTimeout, OnlyMain, IInv, ThreadsOK
  <2>4. ThreadsOK' /\ MainOK'
    BY <2>1, <2>3 DEF IInv, ThreadsOK, MainOK
  <2> QED
    BY <2>2, <2>4 DEF IInv
<1> QED
  BY <1>1, <1>2, <1>3, AddWriteStep, PutWriteStep, MoveWriteStep DEF InCall

\* Where a thread goes.
LEMMA ThreadingTyped ==
  ASSUME IInv, NEW t \in Threads, NEW pc \in Places, NEW i \in 1 .. MAX_MAPS + 1,
         pc \in {"pulse_unmaps", "pulse_maps"} => i \in Slots,
         Threading(t, pc, i), g_running' \in BOOLEAN, g_stop' \in BOOLEAN,
         g_pthread' = g_pthread, cancelled' \subseteq Threads
  PROVE  ThreadsOK'
BY DEF IInv, ThreadsOK, Threading

LEMMA ThreadStep == ASSUME NEW t \in Threads PROVE IInv /\ (Thread(t) \/ Cancelled(t)) => IInv'
<1> SUFFICES ASSUME IInv, Thread(t) \/ Cancelled(t) PROVE IInv'
  OBVIOUS
<1>1. /\ g_running \in BOOLEAN /\ g_stop \in BOOLEAN /\ cancelled \subseteq Threads
      /\ 1 \in 1 .. MAX_MAPS + 1 /\ Slots \subseteq 1 .. MAX_MAPS + 1
  BY PortMappingAssumption DEF IInv, ThreadsOK, Slots
<1>2. CASE \/ Enter(t) \/ Loop(t) \/ NoMoreUnmaps(t) \/ NoMoreMaps(t) \/ Leave(t)
           \/ \E i \in Slots : FindUnmap(t, i) \/ FindMap(t, i)
  <2>1. /\ UNCHANGED <<shared, speaks, router, main, g_pthread>>
        /\ g_running' \in BOOLEAN /\ g_stop' \in BOOLEAN /\ cancelled' \subseteq Threads
    BY <1>1, <1>2 DEF Enter, Loop, NoMoreUnmaps, NoMoreMaps, Leave, FindUnmap, FindMap,
                      OnlyPc, OnlyThread
  <2>2. \E pc \in Places, i \in 1 .. MAX_MAPS + 1 :
          /\ pc \in {"pulse_unmaps", "pulse_maps"} => i \in Slots
          /\ Threading(t, pc, i)
    <3>1. CASE Enter(t) \/ Loop(t) \/ NoMoreUnmaps(t) \/ NoMoreMaps(t) \/ Leave(t)
      BY <1>1, <3>1 DEF Enter, Loop, NoMoreUnmaps, NoMoreMaps, Leave, Places
    <3>2. ASSUME NEW i \in Slots, FindUnmap(t, i) \/ FindMap(t, i)
          PROVE  \E pc \in Places, k \in 1 .. MAX_MAPS + 1 :
                   /\ pc \in {"pulse_unmaps", "pulse_maps"} => k \in Slots
                   /\ Threading(t, pc, k)
      BY <1>1, <3>2 DEF FindUnmap, FindMap, Places
    <3> QED
      BY <1>2, <3>1, <3>2
  <2>3. ThreadsOK'
    BY <2>1, <2>2, ThreadingTyped
  <2>4. ArraysOK' /\ TablesOK' /\ UpnpKnown' /\ NatKnown'
    BY <2>1, SharedSame
  <2>5. MainOK'
    BY <2>1 DEF IInv, MainOK, shared, OneProtocol
  <2> QED
    BY <2>3, <2>4, <2>5 DEF IInv
<1>3. CASE PulseUnmaps(t) \/ (Cancelled(t) /\ At(t, "pulse_unmaps"))
  <2> DEFINE i == thread[t].i
  <2>1. i \in Slots
    BY <1>3 DEF PulseUnmaps, At, IInv, ThreadsOK
  <2>2. \E p \in Pulses(g_unmaps[i]) \cup Cut(g_unmaps[i]) :
          \E e, F :
            /\ e = p.s \/ (e = Zero /\ Unmapped(p.s) /\ (p.s.nat = "ERR" => p.s.int \in F))
            /\ g_unmaps' = [g_unmaps EXCEPT ![i] = e]
            /\ RouterSays(p) /\ Forgets(p, F)
    <3>1. CASE PulseUnmaps(t)
      BY <3>1, Zenon DEF PulseUnmaps
    <3>2. CASE Cancelled(t) /\ At(t, "pulse_unmaps")
      BY <3>2 DEF Cancelled, At
    <3> QED
      BY <1>3, <3>1, <3>2
  <2>3. /\ UNCHANGED <<g_maps, main, speaks, g_running, g_stop, g_pthread>>
        /\ cancelled' \subseteq Threads
    BY <1>1, <1>3 DEF PulseUnmaps, Cancelled, OnlyThread, At
  <2>4. ArraysOK' /\ MainOK' /\ TablesOK' /\ UpnpKnown' /\ NatKnown'
    BY <2>1, <2>2, <2>3, UnmapsVisited
  <2>5. Threading(t, "unmaps", i + 1) \/ Threading(t, "none", 1)
    BY <1>3 DEF PulseUnmaps, Cancelled, Visited
  <2>6. ThreadsOK'
    BY <1>1, <2>1, <2>3, <2>5, ThreadingTyped, PortMappingAssumption DEF Slots, Places
  <2> QED
    BY <2>4, <2>6 DEF IInv
<1>4. CASE PulseMaps(t) \/ (Cancelled(t) /\ At(t, "pulse_maps"))
  <2> DEFINE i == thread[t].i
  <2>1. i \in Slots
    BY <1>4 DEF PulseMaps, At, IInv, ThreadsOK
  <2>2. \E p \in Pulses(g_maps[i]) \cup Cut(g_maps[i]) :
          g_maps' = [g_maps EXCEPT ![i] = p.s] /\ RouterSays(p) /\ Forgets(p, {})
    BY <1>4 DEF PulseMaps, Cancelled, At
  <2>3. /\ UNCHANGED <<g_unmaps, main, speaks, g_running, g_stop, g_pthread>>
        /\ cancelled' \subseteq Threads
    BY <1>1, <1>4 DEF PulseMaps, Cancelled, OnlyThread, At
  <2>4. ArraysOK' /\ MainOK' /\ TablesOK' /\ UpnpKnown' /\ NatKnown'
    BY <2>1, <2>2, <2>3, MapsVisited
  <2>5. Threading(t, "maps", i + 1) \/ Threading(t, "none", 1)
    BY <1>4 DEF PulseMaps, Cancelled, Visited
  <2>6. ThreadsOK'
    BY <1>1, <2>1, <2>3, <2>5, ThreadingTyped, PortMappingAssumption DEF Slots, Places
  <2> QED
    BY <2>4, <2>6 DEF IInv
<1> QED
  BY <1>2, <1>3, <1>4 DEF Thread, Cancelled

LEMMA Inductive == IInv /\ [Next]_vars => IInv'
<1> SUFFICES ASSUME IInv, [Next]_vars PROVE IInv'
  OBVIOUS
<1>1. CASE UNCHANGED vars
  <2>1. ArraysOK' /\ TablesOK' /\ UpnpKnown' /\ NatKnown'
    BY <1>1, SharedSame DEF vars
  <2>2. MainOK' /\ ThreadsOK'
    BY <1>1 DEF vars, shared, IInv, MainOK, ThreadsOK, OneProtocol
  <2> QED
    BY <2>1, <2>2 DEF IInv
<1> QED
  BY <1>1, MainStep, InCallStep, ThreadStep DEF Next

LEMMA Initially == Init => IInv
<1> SUFFICES ASSUME Init PROVE IInv
  OBVIOUS
<1>1. \A i \in Slots : g_maps[i] = Zero /\ g_unmaps[i] = Zero
  BY DEF Init
<1>2. ~Zero.enabled
  BY DEF Zero
<1>3. ArraysOK
  BY <1>1, <1>2, ZeroOK DEF Init, ArraysOK
<1>4. MainOK /\ TablesOK /\ UpnpKnown /\ NatKnown
  BY DEF Init, MainOK, TablesOK, UpnpKnown, NatKnown
<1>5. ThreadsOK
  <2>1. [pc |-> "none", i |-> 1] \in [pc : Places, i : 1 .. MAX_MAPS + 1]
    BY PortMappingAssumption DEF Places
  <2>2. thread \in [Threads -> [pc : Places, i : 1 .. MAX_MAPS + 1]]
    BY <2>1 DEF Init
  <2>3. \A t \in Threads : thread[t].pc = "none"
    BY DEF Init
  <2> QED
    BY <2>2, <2>3 DEF Init, ThreadsOK
<1> QED
  BY <1>3, <1>4, <1>5 DEF IInv

-----------------------------------------------------------------------------
\* The invariant that the others rest on holds in every state.
THEOREM Invariance == Spec => []IInv
BY Initially, Inductive, PTL DEF Spec

\* Every variable keeps its type, whatever the threads, the program and the
\* router do.
THEOREM TypeCorrectness == Spec => []TypeOK
<1>1. IInv => TypeOK
  <2> SUFFICES ASSUME IInv PROVE TypeOK
    OBVIOUS
  <2>1. g_maps \in [Slots -> SlotType] /\ g_unmaps \in [Slots -> SlotType]
    BY DEF IInv, ArraysOK, EntryOK
  <2>2. \A f \in {"from", "to"} \cap DOMAIN main : main[f] \in Slots
    BY DEF IInv, MainOK
  <2>3. \A t \in Threads : thread[t].i \in 1 .. MAX_MAPS + 1
    BY DEF IInv, ThreadsOK
  <2> QED
    BY <2>1, <2>2, <2>3 DEF IInv, ThreadsOK, TablesOK, TypeOK
<1> QED
  BY <1>1, Invariance, PTL

\* No mapping of the router is lost by the arrays, at a router that speaks one
\* of the two protocols.
THEOREM MappingsNeverLost == Spec => []MappingsKnown
<1>1. IInv => MappingsKnown
  BY DEF IInv, UpnpKnown, NatKnown, OwnsUpnp, OwnsNat, MappingsKnown, Held
<1> QED
  BY <1>1, Invariance, PTL

=============================================================================
