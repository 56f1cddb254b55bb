-------------------------- MODULE UploadSlots_proofs --------------------------
(***************************************************************************)
(* Proofs about UploadSlots for any number of clients, files and slots:    *)
(* slots and the queue for them stay consistent, their limits are obeyed,  *)
(* and no client with chunks to receive is missing from the fifo.          *)
(***************************************************************************)
EXTENDS UploadSlots, FiniteSetTheorems, SequenceTheorems, TLAPS

UploadT == [file : Files, chunks : 0..MaxChunks, finish : BOOLEAN, waiting : BOOLEAN]

ClientT == [connected : BOOLEAN, slot : Kinds, file : Files \union {None},
            sent : BOOLEAN, upload : UploadT \union {None}]

SchedT == [pending : SUBSET Clients, upload_clients : Seq(Clients),
           has_upload : 0..MaxCredit, upload_credit : 0..MaxCredit,
           dynamic_slots : BOOLEAN]

Typed(cl, sc) == cl \in [Clients -> ClientT] /\ sc \in SchedT

\* SlotsOwned, DisabledMeansIdle and NoLostUpload of given states, since an
\* action changes the clients and then opens slots.
Owned(cl, sc) ==
  \A c \in Clients :
    /\ c \in sc.pending => cl[c].connected /\ ~HasSlot(cl, c)
    /\ HasSlot(cl, c) => cl[c].connected
    /\ cl[c].upload # None => HasSlot(cl, c)

Idle(cl, sc) ==
  sc.has_upload > 0 => \A c \in Clients : cl[c].upload = None

NotLost(cl, sc) ==
  \A c \in Clients : cl[c].upload # None =>
    /\ cl[c].upload.waiting <=> cl[c].upload.chunks > 0
    /\ cl[c].upload.waiting => c \in ToSet(sc.upload_clients)

Having(cl, kind) == {c \in Clients : cl[c].slot = kind}

Limited(cl) ==
  /\ Cardinality(Having(cl, "NormalSlot")) <= MaxSlots
  /\ Cardinality(Having(cl, "FriendSlot")) <= 1
  /\ Cardinality(Having(cl, "SmallFileSlot")) <= 1
  /\ Cardinality(Having(cl, "ReleaseSlot")) <= ReleaseSlots

\* The minutes of the command nu: those left and those in use are no more than
\* upload_credit may be.
Credit(sc) == sc.has_upload + sc.upload_credit <= MaxCredit

Good(cl, sc) ==
  /\ Typed(cl, sc)
  /\ Owned(cl, sc)
  /\ Idle(cl, sc)
  /\ NotLost(cl, sc)
  /\ Limited(cl)
  /\ Credit(sc)

IInv == Good(client, sched) /\ shared \subseteq Files

\* The invariant says what the properties say, and Credit.
LEMMA Meaning == IInv <=> TypeOK /\ SlotsConsistent /\ NoLostUpload /\ Credit(sched)
BY DEF IInv, Good, Typed, Owned, Idle, NotLost, Limited, Having, TypeOK, SlotsConsistent,
       SlotsOwned, SlotsLimited, DisabledMeansIdle, NoLostUpload, UploadT, ClientT, SchedT

\* The invariant in the next state.
LEMMA Primed == IInv' <=> Good(client', sched') /\ shared' \subseteq Files
BY DEF IInv, Good, Typed, Owned, Idle, NotLost, Limited, Having, Credit, HasSlot

-----------------------------------------------------------------------------
(* How many clients have a slot *)

\* Fewer clients have a slot of a kind when none is given.
LEMMA FewerHave ==
  ASSUME NEW cl, NEW d, NEW kind, Having(d, kind) \subseteq Having(cl, kind)
  PROVE  /\ Cardinality(Having(d, kind)) \in Nat
         /\ Cardinality(Having(cl, kind)) \in Nat
         /\ Cardinality(Having(d, kind)) <= Cardinality(Having(cl, kind))
<1>1. IsFiniteSet(Having(cl, kind))
  BY SlotsAssumption, FS_Subset DEF Having
<1>2. IsFiniteSet(Having(d, kind)) /\ Cardinality(Having(d, kind)) <= Cardinality(Having(cl, kind))
  BY <1>1, FS_Subset
<1> QED
  BY <1>1, <1>2, FS_CardinalityType

\* The limits hold when no client gets a slot.
LEMMA LimitedKept ==
  ASSUME NEW cl, NEW d, Limited(cl),
         \A c \in Clients : d[c].slot \in {cl[c].slot, "NoSlot"}
  PROVE  Limited(d)
<1>1. \A kind \in Kinds \ {"NoSlot"} : Having(d, kind) \subseteq Having(cl, kind)
  BY DEF Having
<1>2. \A kind \in {"NormalSlot", "FriendSlot", "SmallFileSlot", "ReleaseSlot"} :
        /\ Cardinality(Having(d, kind)) \in Nat
        /\ Cardinality(Having(cl, kind)) \in Nat
        /\ Cardinality(Having(d, kind)) <= Cardinality(Having(cl, kind))
  BY <1>1, FewerHave DEF Kinds
<1> QED
  BY <1>2, SlotsAssumption DEF Limited

\* A client that is given a slot of a kind is one more that has it.
LEMMA OneMore ==
  ASSUME NEW cl, NEW d, NEW c \in Clients, NEW kind,
         Having(d, kind) \subseteq Having(cl, kind) \cup {c}
  PROVE  /\ Cardinality(Having(d, kind)) \in Nat
         /\ Cardinality(Having(cl, kind)) \in Nat
         /\ Cardinality(Having(d, kind)) <= Cardinality(Having(cl, kind)) + 1
<1> DEFINE H == Having(cl, kind)
<1>1. IsFiniteSet(H)
  BY SlotsAssumption, FS_Subset DEF Having
<1>2. IsFiniteSet(H \cup {c}) /\ Cardinality(H \cup {c}) =
        IF c \in H THEN Cardinality(H) ELSE Cardinality(H) + 1
  BY <1>1, FS_AddElement
<1>3. IsFiniteSet(Having(d, kind)) /\ Cardinality(Having(d, kind)) <= Cardinality(H \cup {c})
  BY <1>2, FS_Subset
<1> QED
  BY <1>1, <1>2, <1>3, FS_CardinalityType

\* The initial state has no connection.
LEMMA InitGood == Init => IInv
<1> SUFFICES ASSUME Init PROVE IInv
  OBVIOUS
<1>1. /\ client = [c \in Clients |-> [connected |-> FALSE, slot |-> "NoSlot", file |-> None,
                                       upload |-> None, sent |-> FALSE]]
      /\ sched \in [pending : {{}}, upload_clients : {<<>>}, has_upload : {0},
                    upload_credit : {0}, dynamic_slots : BOOLEAN]
      /\ shared = Files
  BY DEF Init
<1>2. Typed(client, sched)
  <2>1. [connected |-> FALSE, slot |-> "NoSlot", file |-> None, upload |-> None,
         sent |-> FALSE] \in ClientT
    BY DEF ClientT, Kinds
  <2>2. client \in [Clients -> ClientT]
    BY <1>1, <2>1
  <2>3. /\ sched.pending = {} /\ sched.upload_clients = <<>> /\ sched.has_upload = 0
        /\ sched.upload_credit = 0 /\ sched.dynamic_slots \in BOOLEAN
        /\ sched = [pending |-> sched.pending, upload_clients |-> sched.upload_clients,
                    has_upload |-> sched.has_upload, upload_credit |-> sched.upload_credit,
                    dynamic_slots |-> sched.dynamic_slots]
    BY <1>1
  <2>4. <<>> \in Seq(Clients) /\ 0 \in 0..MaxCredit
    BY SlotsAssumption
  <2>5. sched \in SchedT
    BY <2>3, <2>4 DEF SchedT
  <2> QED
    BY <2>2, <2>5 DEF Typed
<1>3. Owned(client, sched) /\ Idle(client, sched) /\ NotLost(client, sched)
  BY <1>1 DEF Owned, Idle, NotLost, HasSlot
<1>4. \A kind \in Kinds \ {"NoSlot"} : Having(client, kind) = {}
  BY <1>1 DEF Having
<1>5. Limited(client)
  BY <1>4, FS_EmptySet, SlotsAssumption DEF Limited, Kinds
<1>6. Credit(sched)
  BY <1>1, SlotsAssumption DEF Credit
<1> QED
  BY <1>1, <1>2, <1>3, <1>5, <1>6 DEF IInv, Good

-----------------------------------------------------------------------------
(* Slots that are taken back *)

\* Every client is as it was, or lost its slot and its upload, and is perhaps
\* disconnected.
Lost(cl, d) ==
  /\ d \in [Clients -> ClientT]
  /\ \A c \in Clients : d[c] = cl[c] \/ (d[c].slot = "NoSlot" /\ d[c].upload = None)

\* Taking slots back keeps everything, when the clients that remain pending
\* are connected.
LEMMA LostGood ==
  ASSUME NEW cl, NEW sc, NEW d, NEW s, Good(cl, sc), Lost(cl, d), s \in SchedT,
         s.pending \subseteq sc.pending,
         \A c \in s.pending : d[c].connected,
         s.upload_clients = sc.upload_clients,
         s.has_upload > 0 => sc.has_upload > 0 \/ \A c \in Clients : d[c].upload = None,
         Credit(s)
  PROVE  Good(d, s)
<1>1. Typed(d, s)
  BY DEF Lost, Typed
<1>2. Owned(d, s)
  BY DEF Good, Lost, Owned, HasSlot
<1>3. Idle(d, s)
  BY DEF Good, Lost, Idle
<1>4. NotLost(d, s)
  BY DEF Good, Lost, NotLost
<1>5. Limited(d)
  BY LimitedKept DEF Good, Lost
<1> QED
  BY <1>1, <1>2, <1>3, <1>4, <1>5 DEF Good

\* What the two ways of taking slots back do.
LEMMA RemoveLost ==
  ASSUME NEW cl \in [Clients -> ClientT], NEW c \in Clients
  PROVE  /\ Lost(cl, RemoveClientSlot(cl, c))
         /\ \A u \in Clients : RemoveClientSlot(cl, c)[u].connected = cl[u].connected
         /\ \A u \in Clients \ {c} : RemoveClientSlot(cl, c)[u] = cl[u]
         /\ RemoveClientSlot(cl, c)[c].slot = "NoSlot"
         /\ RemoveClientSlot(cl, c)[c].upload = None
BY DEF Lost, RemoveClientSlot, ClientT, Kinds

LEMMA DisconnectLost ==
  ASSUME NEW cl \in [Clients -> ClientT], NEW C \in SUBSET Clients
  PROVE  /\ Lost(cl, DisconnectAll(cl, C))
         /\ \A u \in Clients \ C : DisconnectAll(cl, C)[u] = cl[u]
         /\ \A u \in C : DisconnectAll(cl, C)[u].upload = None
<1>1. \A u \in Clients :
        /\ RemoveClientSlot(cl, u)[u] \in ClientT
        /\ RemoveClientSlot(cl, u)[u].slot = "NoSlot"
        /\ RemoveClientSlot(cl, u)[u].upload = None
  BY DEF RemoveClientSlot, ClientT, Kinds
<1>2. \A u \in C :
        /\ DisconnectAll(cl, C)[u] \in ClientT
        /\ DisconnectAll(cl, C)[u].slot = "NoSlot"
        /\ DisconnectAll(cl, C)[u].upload = None
  BY <1>1 DEF DisconnectAll, ClientT
<1>3. \A u \in Clients \ C : DisconnectAll(cl, C)[u] = cl[u]
  BY DEF DisconnectAll
<1>4. DisconnectAll(cl, C) \in [Clients -> ClientT]
  <2>1. \A u \in Clients : DisconnectAll(cl, C)[u] \in ClientT
    BY <1>2, <1>3
  <2> QED
    BY <2>1 DEF DisconnectAll
<1> QED
  BY <1>2, <1>3, <1>4 DEF Lost

\* Disconnecting clients that leave the queue too keeps everything.
LEMMA DisconnectGood ==
  ASSUME NEW cl, NEW sc, Good(cl, sc), NEW C \in SUBSET Clients, NEW s \in SchedT,
         s.pending = sc.pending, s.upload_clients = sc.upload_clients, Credit(s),
         s.has_upload > 0 => sc.has_upload > 0 \/ uploaders(cl) \subseteq C
  PROVE  Good(DisconnectAll(cl, C), Forget(s, C))
<1> DEFINE d == DisconnectAll(cl, C)
           t == Forget(s, C)
<1>1. /\ t \in SchedT
      /\ t.pending = s.pending \ C
      /\ t.upload_clients = s.upload_clients
      /\ t.has_upload = s.has_upload
      /\ t.upload_credit = s.upload_credit
  BY DEF Forget, SchedT
<1>2. /\ Lost(cl, d)
      /\ \A u \in Clients \ C : d[u] = cl[u]
      /\ \A u \in C : d[u].upload = None
  BY DisconnectLost DEF Good, Typed
<1>3. \A c \in t.pending : d[c].connected
  BY <1>1, <1>2 DEF Good, Owned, SchedT
<1>4. uploaders(cl) \subseteq C => \A c \in Clients : d[c].upload = None
  BY <1>2 DEF Good, Owned, uploaders, HasSlot
<1>5. Credit(t)
  BY <1>1 DEF Credit
<1> HIDE DEF d, t
<1>6. Good(d, t)
  BY <1>1, <1>2, <1>3, <1>4, <1>5, LostGood
<1> QED
  BY <1>6 DEF d, t
-----------------------------------------------------------------------------
(* Slots that are given *)

\* Opening slots gives normal slots to pending clients, no more than asked for:
\* everything is kept when there is room for them.
LEMMA OpenGood ==
  ASSUME NEW cl, NEW sc, Good(cl, sc), NEW n \in Nat, OpenSlots(cl, sc, n),
         n > 0 => Cardinality(uploaders(cl)) + n <= MaxSlots
  PROVE  Good(client', sched')
<1> DEFINE live == {c \in sc.pending : cl[c].connected}
<1>1. PICK given \in SUBSET live, dropped \in SUBSET (sc.pending \ live) :
        /\ Cardinality(given) = IF n < Cardinality(live) THEN n ELSE Cardinality(live)
        /\ client' = [c \in Clients |->
                        IF c \in given THEN SetSlot(cl, c, "NormalSlot")[c] ELSE cl[c]]
        /\ sched' = Forget(sc, given \union dropped)
  BY DEF OpenSlots
<1>2. /\ cl \in [Clients -> ClientT] /\ sc \in SchedT
      /\ sc.pending \subseteq Clients /\ given \subseteq Clients
      /\ given \subseteq sc.pending
  BY <1>1 DEF Good, Typed, SchedT
<1>3. \A c \in given : cl[c].slot = "NoSlot" /\ cl[c].connected
  BY <1>1, <1>2 DEF Good, Owned, HasSlot
<1>4. \A c \in given : client'[c] = [cl[c] EXCEPT !.slot = "NormalSlot"]
  BY <1>1, <1>2, <1>3 DEF SetSlot, HasSlot
<1>5. \A c \in Clients \ given : client'[c] = cl[c]
  BY <1>1
<1>6. \A c \in Clients :
        /\ client'[c] \in ClientT
        /\ client'[c].connected = cl[c].connected
        /\ client'[c].upload = cl[c].upload
        /\ client'[c].slot = IF c \in given THEN "NormalSlot" ELSE cl[c].slot
  <2> SUFFICES ASSUME NEW c \in Clients
               PROVE  /\ client'[c] \in ClientT
                      /\ client'[c].connected = cl[c].connected
                      /\ client'[c].upload = cl[c].upload
                      /\ client'[c].slot = IF c \in given THEN "NormalSlot" ELSE cl[c].slot
    OBVIOUS
  <2>1. cl[c] \in ClientT
    BY <1>2
  <2>2. CASE c \in given
    BY <2>1, <2>2, <1>4 DEF ClientT, Kinds
  <2>3. CASE c \notin given
    BY <2>1, <2>3, <1>5
  <2> QED
    BY <2>2, <2>3
<1>7. /\ sched' \in SchedT
      /\ sched'.pending = sc.pending \ (given \cup dropped)
      /\ sched'.upload_clients = sc.upload_clients
      /\ sched'.has_upload = sc.has_upload
      /\ sched'.upload_credit = sc.upload_credit
  BY <1>1, <1>2 DEF Forget, SchedT
<1>8. Typed(client', sched')
  <2>1. client' \in [Clients -> ClientT]
    BY <1>1, <1>6
  <2> QED
    BY <2>1, <1>7 DEF Typed
<1>9. Owned(client', sched')
  BY <1>3, <1>6, <1>7 DEF Good, Owned, HasSlot
<1>10. Idle(client', sched')
  BY <1>6, <1>7 DEF Good, Idle
<1>11. NotLost(client', sched')
  BY <1>6, <1>7 DEF Good, NotLost
<1>12. Cardinality(Having(client', "NormalSlot")) <= MaxSlots
  <2> DEFINE H == Having(cl, "NormalSlot")
             U == uploaders(cl)
  <2>1. Having(client', "NormalSlot") = H \cup given
    BY <1>2, <1>6 DEF Having
  <2>2. H \subseteq U /\ U \subseteq Clients
    BY DEF Having, uploaders, HasSlot
  <2>3. IsFiniteSet(U) /\ IsFiniteSet(H) /\ IsFiniteSet(given) /\ IsFiniteSet(live)
    <3>1. live \subseteq Clients
      BY <1>2
    <3> QED
      BY <2>2, <3>1, <1>2, SlotsAssumption, FS_Subset
  <2>4. /\ Cardinality(U) \in Nat /\ Cardinality(H) \in Nat
        /\ Cardinality(given) \in Nat /\ Cardinality(live) \in Nat
    BY <2>3, FS_CardinalityType
  <2>5. Cardinality(H) <= Cardinality(U)
    BY <2>2, <2>3, FS_Subset
  <2>6. Cardinality(given) <= n
    BY <1>1, <2>4
  <2>7. CASE n > 0
    <3>1. /\ Cardinality(H \cup given)
               = Cardinality(H) + Cardinality(given) - Cardinality(H \cap given)
          /\ IsFiniteSet(H \cup given)
      BY <2>3, FS_Union
    <3>2. IsFiniteSet(H \cap given)
      BY <2>3, FS_Subset
    <3>3. Cardinality(H \cap given) \in Nat
      BY <3>2, FS_CardinalityType
    <3> HIDE DEF H, U, live
    <3>4. Cardinality(H \cup given) <= MaxSlots
      BY <2>4, <2>5, <2>6, <2>7, <3>1, <3>3, SlotsAssumption DEF U
    <3> QED
      BY <3>4, <2>1
  <2>8. CASE n = 0
    <3>1. given = {}
      BY <2>3, <2>4, <2>6, <2>8, FS_EmptySet
    <3> QED
      BY <3>1, <2>1 DEF Good, Limited
  <2> QED
    BY <2>7, <2>8
<1>13. Limited(client')
  <2>1. \A kind \in Kinds \ {"NoSlot", "NormalSlot"} :
          Having(client', kind) \subseteq Having(cl, kind)
    BY <1>6 DEF Having
  <2>2. \A kind \in {"FriendSlot", "SmallFileSlot", "ReleaseSlot"} :
          /\ Cardinality(Having(client', kind)) \in Nat
          /\ Cardinality(Having(cl, kind)) \in Nat
          /\ Cardinality(Having(client', kind)) <= Cardinality(Having(cl, kind))
    BY <2>1, FewerHave DEF Kinds
  <2> QED
    BY <2>2, <1>12, SlotsAssumption DEF Good, Limited
<1>14. Credit(sched')
  BY <1>7 DEF Good, Credit
<1> QED
  BY <1>8, <1>9, <1>10, <1>11, <1>13, <1>14 DEF Good

\* The number of slots in use is a number.
LEMMA UploadersCounted == ASSUME NEW cl PROVE Cardinality(uploaders(cl)) \in Nat
BY SlotsAssumption, FS_Subset, FS_CardinalityType DEF uploaders

\* Refilling opens only as many slots as there is room for.
LEMMA RefillGood ==
  ASSUME NEW cl, NEW sc, Good(cl, sc), Refill(cl, sc)
  PROVE  Good(client', sched')
<1> DEFINE len == Cardinality(uploaders(cl))
<1>1. len \in Nat
  BY UploadersCounted
<1> SUFFICES ASSUME NEW n \in Nat, OpenSlots(cl, sc, n), n > 0 => len + n <= MaxSlots
             PROVE  Good(client', sched')
  <2>1. CASE OpenSlots(cl, sc, 0)
    BY <2>1
  <2>2. CASE StaticRefill(cl, sc)
    <3>1. CASE len < MaxSlots
      BY <2>2, <3>1, <1>1, SlotsAssumption DEF StaticRefill
    <3>2. CASE ~(len < MaxSlots)
      BY <2>2, <3>2 DEF StaticRefill
    <3> QED
      BY <3>1, <3>2
  <2>3. CASE DynamicRefill(cl, sc)
    <3>1. CASE len < MinSlots /\ OpenSlots(cl, sc, MinSlots - len)
      <4>1. MinSlots - len \in Nat /\ len + (MinSlots - len) <= MaxSlots
        BY <1>1, <3>1, SlotsAssumption
      <4> QED
        BY <3>1, <4>1
    <3>2. CASE \E n \in 0..MaxSlots : (n > 0 => len + n <= MaxSlots) /\ OpenSlots(cl, sc, n)
      BY <3>2, SlotsAssumption
    <3> QED
      BY <2>3, <3>1, <3>2 DEF DynamicRefill
  <2> QED
    BY <2>1, <2>2, <2>3 DEF Refill
<1> QED
  BY OpenGood
-----------------------------------------------------------------------------
(* Connections, the queue and the user *)

\* A connection starts without slot and upload.
LEMMA ConnectGood == ASSUME IInv, NEW c \in Clients, Connect(c) PROVE IInv'
<1>1. /\ ~client[c].connected
      /\ client' = [client EXCEPT ![c].connected = TRUE, ![c].slot = "NoSlot",
                                  ![c].upload = None]
      /\ sched' = sched /\ shared' = shared
  BY DEF Connect
<1>2. Good(client, sched) /\ client \in [Clients -> ClientT] /\ sched \in SchedT
  BY DEF IInv, Good, Typed
<1>3. Lost(client, client')
  BY <1>1, <1>2 DEF Lost, ClientT, Kinds
<1>4. \A u \in sched.pending : client'[u].connected
  BY <1>1, <1>2 DEF Good, Owned, SchedT
<1>5. Credit(sched)
  BY <1>2 DEF Good
<1>6. Good(client', sched)
  BY <1>2, <1>3, <1>4, <1>5, LostGood
<1> QED
  BY <1>1, <1>6, Primed DEF IInv

\* A client that disconnects leaves the queue and loses its slot.
LEMMA DisconnectedGood == ASSUME IInv, NEW c \in Clients, Disconnect(c) PROVE IInv'
<1>1. /\ client' = DisconnectAll(client, {c})
      /\ sched' = Forget(sched, {c})
      /\ shared' = shared
  BY DEF Disconnect
<1>2. Good(client, sched) /\ sched \in SchedT
  BY DEF IInv, Good, Typed
<1>3. Credit(sched)
  BY <1>2 DEF Good
<1>4. Good(client', sched')
  BY <1>1, <1>2, <1>3, DisconnectGood
<1> QED
  BY <1>1, <1>4, Primed DEF IInv

\* Asking for a file changes neither slots nor uploads.
LEMMA QueryFileGood ==
  ASSUME IInv, NEW c \in Clients, NEW f \in Files, QueryFile(c, f)
  PROVE  IInv'
<1>1. /\ client' = [client EXCEPT ![c].file = f]
      /\ sched' = sched /\ shared' = shared
  BY DEF QueryFile
<1>2. Good(client, sched) /\ client \in [Clients -> ClientT] /\ sched \in SchedT
  BY DEF IInv, Good, Typed
<1>3. client' \in [Clients -> ClientT]
  BY <1>1, <1>2 DEF ClientT
<1>4. \A u \in Clients : /\ client'[u].slot = client[u].slot
                         /\ client'[u].upload = client[u].upload
                         /\ client'[u].connected = client[u].connected
  BY <1>1, <1>2 DEF ClientT
<1>5. Limited(client')
  BY <1>2, <1>4, LimitedKept DEF Good
<1>6. Good(client', sched')
  BY <1>1, <1>2, <1>3, <1>4, <1>5 DEF Good, Typed, Owned, Idle, NotLost, HasSlot
<1> QED
  BY <1>1, <1>6, Primed DEF IInv

\* A reserved slot is given only below its limit, and only the client that is
\* given a slot leaves the queue.
LEMMA JoinQueueGood == ASSUME IInv, NEW c \in Clients, JoinQueue(c) PROVE IInv'
<1> DEFINE kind == SlotFor(c)
<1>1. client[c].connected /\ shared' = shared
  BY DEF JoinQueue
<1>2. Good(client, sched) /\ client \in [Clients -> ClientT] /\ sched \in SchedT
  BY DEF IInv, Good, Typed
<1>3. CASE kind # "NoSlot"
  <2>1. client' = SetSlot(client, c, kind) /\ sched' = Forget(sched, {c})
    BY <1>3 DEF JoinQueue
  <2>2. kind \in {"ReleaseSlot", "FriendSlot", "SmallFileSlot", "PrioSlot"}
        /\ Reserved(c, kind)
    BY <1>3 DEF SlotFor
  <2>3. /\ kind = "ReleaseSlot" => Used(kind) < ReleaseSlots
        /\ kind \in {"FriendSlot", "SmallFileSlot"} => Used(kind) < 1
    BY <2>2 DEF Reserved
  <2>4. Used(kind) = Cardinality(Having(client, kind))
    BY DEF Used, Having
  <2> HIDE DEF kind
  <2>5. /\ sched' \in SchedT
        /\ sched'.pending = sched.pending \ {c}
        /\ sched'.upload_clients = sched.upload_clients
        /\ sched'.has_upload = sched.has_upload
        /\ sched'.upload_credit = sched.upload_credit
    BY <2>1, <1>2 DEF Forget, SchedT
  <2>6. \A u \in Clients :
          /\ client'[u] \in ClientT
          /\ client'[u].connected = client[u].connected
          /\ client'[u].upload = client[u].upload
          /\ client'[u].slot = IF u = c /\ ~HasSlot(client, c) THEN kind ELSE client[u].slot
    <3>1. CASE HasSlot(client, c)
      BY <2>1, <3>1, <1>2 DEF SetSlot
    <3>2. CASE ~HasSlot(client, c)
      <4>1. client' = [client EXCEPT ![c].slot = kind]
        BY <2>1, <3>2 DEF SetSlot
      <4>2. \A u \in Clients : client[u] \in ClientT
        BY <1>2
      <4>3. client'[c] = [client[c] EXCEPT !.slot = kind]
        BY <4>1, <1>2
      <4>4. \A u \in Clients \ {c} : client'[u] = client[u]
        BY <4>1, <1>2
      <4>5. /\ client'[c] \in ClientT
            /\ client'[c].connected = client[c].connected
            /\ client'[c].upload = client[c].upload
            /\ client'[c].slot = kind
        BY <4>2, <4>3, <2>2 DEF ClientT, Kinds
      <4> QED
        BY <3>2, <4>2, <4>4, <4>5
    <3> QED
      BY <3>1, <3>2
  <2>7. client' \in [Clients -> ClientT]
    <3>1. client' = [u \in Clients |-> client'[u]]
      BY <2>1, <1>2 DEF SetSlot
    <3> QED
      BY <3>1, <2>6
  <2>8. Owned(client', sched')
    BY <2>2, <2>5, <2>6, <1>1, <1>2 DEF Good, Owned, HasSlot
  <2>9. Idle(client', sched') /\ NotLost(client', sched')
    BY <2>5, <2>6, <1>2 DEF Good, Idle, NotLost
  <2>10. Limited(client')
    <3>1. \A k \in Kinds \ {"NoSlot", kind} : Having(client', k) \subseteq Having(client, k)
      BY <2>6 DEF Having
    <3>2. Having(client', kind) \subseteq Having(client, kind) \cup {c}
      BY <2>6 DEF Having
    <3>3. \A k \in {"NormalSlot", "FriendSlot", "SmallFileSlot", "ReleaseSlot"} \ {kind} :
            /\ Cardinality(Having(client', k)) \in Nat
            /\ Cardinality(Having(client, k)) \in Nat
            /\ Cardinality(Having(client', k)) <= Cardinality(Having(client, k))
      BY <3>1, FewerHave DEF Kinds
    <3>4. /\ Cardinality(Having(client', kind)) \in Nat
          /\ Cardinality(Having(client, kind)) \in Nat
          /\ Cardinality(Having(client', kind)) <= Cardinality(Having(client, kind)) + 1
      BY <3>2, OneMore
    <3> QED
      BY <3>3, <3>4, <2>2, <2>3, <2>4, <1>2, SlotsAssumption DEF Good, Limited
  <2>11. Good(client', sched')
    BY <2>5, <2>7, <2>8, <2>9, <2>10, <1>2 DEF Good, Typed, Credit
  <2> QED
    BY <2>11, <1>1, Primed DEF IInv
<1>4. CASE kind = "NoSlot"
  <2>1. /\ client' = client
        /\ sched' = IF HasSlot(client, c) THEN sched
                    ELSE [sched EXCEPT !.pending = @ \union {c}]
    BY <1>4 DEF JoinQueue
  <2>2. /\ sched' \in SchedT
        /\ sched'.upload_clients = sched.upload_clients
        /\ sched'.has_upload = sched.has_upload
        /\ sched'.upload_credit = sched.upload_credit
        /\ \A u \in sched'.pending : u \in sched.pending \/ (u = c /\ ~HasSlot(client, c))
    BY <2>1, <1>2 DEF SchedT
  <2>3. Good(client', sched')
    BY <2>1, <2>2, <1>1, <1>2 DEF Good, Typed, Owned, Idle, NotLost, Credit
  <2> QED
    BY <2>3, <1>1, Primed DEF IInv
<1> QED
  BY <1>3, <1>4

\* A slot that is given back makes room for one more.
LEMMA ReleaseSlotGood == ASSUME IInv, NEW c \in Clients, ReleaseSlot(c) PROVE IInv'
<1> DEFINE d == RemoveClientSlot(client, c)
<1>1. Refill(d, sched) /\ shared' = shared
  BY DEF ReleaseSlot
<1>2. Good(client, sched) /\ client \in [Clients -> ClientT] /\ sched \in SchedT
  BY DEF IInv, Good, Typed
<1>3. Lost(client, d) /\ \A u \in Clients : d[u].connected = client[u].connected
  BY <1>2, RemoveLost
<1> HIDE DEF d
<1>4. Good(d, sched)
  <2>1. \A u \in sched.pending : d[u].connected
    BY <1>2, <1>3 DEF Good, Owned, SchedT
  <2> QED
    BY <2>1, <1>2, <1>3, LostGood DEF Good
<1>5. Good(client', sched')
  BY <1>1, <1>4, RefillGood
<1> QED
  BY <1>1, <1>5, Primed DEF IInv

\* A slot that is revoked takes its upload with it.
LEMMA RevokedGood ==
  ASSUME IInv, NEW c \in Clients, client' = RemoveClientSlot(client, c),
         sched' = sched, shared' = shared
  PROVE  IInv'
<1>1. Good(client, sched) /\ client \in [Clients -> ClientT] /\ sched \in SchedT
  BY DEF IInv, Good, Typed
<1>2. Lost(client, client') /\ \A u \in Clients : client'[u].connected = client[u].connected
  BY <1>1, RemoveLost
<1>3. \A u \in sched.pending : client'[u].connected
  BY <1>1, <1>2 DEF Good, Owned, SchedT
<1>4. Good(client', sched')
  BY <1>1, <1>2, <1>3, LostGood DEF Good
<1> QED
  BY <1>4, Primed DEF IInv
-----------------------------------------------------------------------------
(* Chunks *)

\* What asking for chunks and sending them have in common: no slot is given, an
\* upload belongs to a slot, and the queue stays.
LEMMA ServeGood ==
  ASSUME IInv, client' \in [Clients -> ClientT], sched' \in SchedT,
         sched' = [sched EXCEPT !.upload_clients = sched'.upload_clients],
         \A c \in Clients :
           /\ client'[c].connected = client[c].connected
           /\ client'[c].slot \in {client[c].slot, "NoSlot"}
           /\ client'[c].upload # None =>
                client'[c].slot # "NoSlot" /\ sched.has_upload = 0,
         NotLost(client', sched'), shared' = shared
  PROVE  IInv'
<1>1. Good(client, sched) /\ sched \in SchedT
  BY DEF IInv, Good, Typed
<1>2. /\ sched'.pending = sched.pending
      /\ sched'.has_upload = sched.has_upload
      /\ sched'.upload_credit = sched.upload_credit
  BY <1>1 DEF SchedT
<1>3. Owned(client', sched')
  BY <1>1, <1>2 DEF Good, Owned, HasSlot
<1>4. Idle(client', sched')
  BY <1>1, <1>2 DEF Idle
<1>5. Limited(client')
  BY <1>1, LimitedKept DEF Good
<1>6. Good(client', sched')
  BY <1>1, <1>2, <1>3, <1>4, <1>5 DEF Good, Typed, Credit
<1> QED
  BY <1>6, Primed DEF IInv

\* A place at the end of the fifo.
LEMMA AppendSet ==
  ASSUME NEW q \in Seq(Clients), NEW c \in Clients
  PROVE  /\ Append(q, c) \in Seq(Clients)
         /\ ToSet(q) \subseteq ToSet(Append(q, c))
         /\ c \in ToSet(Append(q, c))
<1>1. /\ Append(q, c) \in Seq(Clients)
      /\ DOMAIN q = 1..Len(q) /\ DOMAIN Append(q, c) = 1..(Len(q) + 1)
      /\ \A i \in 1..Len(q) : Append(q, c)[i] = q[i]
      /\ Append(q, c)[Len(q) + 1] = c
      /\ Len(q) \in Nat
  BY AppendProperties
<1> QED
  BY <1>1 DEF ToSet

\* Only the head leaves the fifo.
LEMMA TailSet ==
  ASSUME NEW q \in Seq(Clients), q # <<>>
  PROVE  /\ Tail(q) \in Seq(Clients)
         /\ \A c \in ToSet(q) : c # Head(q) => c \in ToSet(Tail(q))
<1>1. /\ Tail(q) \in Seq(Clients) /\ Head(q) = q[1]
      /\ DOMAIN q = 1..Len(q) /\ DOMAIN Tail(q) = 1..(Len(q) - 1)
      /\ \A i \in 1..(Len(q) - 1) : Tail(q)[i] = q[i + 1]
      /\ Len(q) \in Nat
  BY HeadTailProperties
<1>2. ASSUME NEW c \in ToSet(q), c # Head(q) PROVE c \in ToSet(Tail(q))
  <2>1. PICK i \in 1..Len(q) : q[i] = c
    BY <1>1 DEF ToSet
  <2>2. i - 1 \in 1..(Len(q) - 1) /\ Tail(q)[i - 1] = c
    BY <2>1, <1>1, <1>2
  <2> QED
    BY <2>2, <1>1 DEF ToSet
<1> QED
  BY <1>1, <1>2

\* A client that asks for chunks is queued unless it is in the fifo already.
LEMMA QueryBlocGood ==
  ASSUME IInv, NEW c \in Clients, NEW f \in Files, NEW added \in 0..MaxChunks,
         NEW beyond \in BOOLEAN, QueryBloc(c, f, added, beyond)
  PROVE  IInv'
<1> DEFINE up == UploadOf(c, f)
           finish == up.finish \/ beyond
           chunks == IF CompleteChunks /\ up.finish THEN up.chunks ELSE up.chunks + added
           asked == [up EXCEPT !.chunks = chunks, !.finish = finish, !.waiting = TRUE]
<1>1. /\ sched.has_upload = 0 /\ HasSlot(client, c)
      /\ chunks <= MaxChunks /\ shared' = shared
  BY DEF QueryBloc, QueryBlocAllowed
<1>2. /\ Good(client, sched) /\ client \in [Clients -> ClientT] /\ sched \in SchedT
      /\ \A u \in Clients : client[u] \in ClientT
      /\ MaxChunks \in Nat
  BY SlotsAssumption DEF IInv, Good, Typed
<1>3. /\ up \in UploadT
      /\ up.waiting => client[c].upload # None /\ client[c].upload.waiting
  <2> DEFINE old == client[c].upload
             new == [file |-> f, chunks |-> 0, finish |-> FALSE, waiting |-> FALSE]
  <2>1. old \in UploadT \union {None} /\ new \in UploadT
    BY <1>2 DEF ClientT, UploadT
  <2>2. CASE old = None
    <3>1. up = new
      BY <2>2 DEF UploadOf
    <3> QED
      BY <3>1, <2>1
  <2>3. CASE old # None /\ old.file = f
    <3>1. up = old
      BY <2>3 DEF UploadOf
    <3> QED
      BY <3>1, <2>1, <2>3
  <2>4. CASE old # None /\ old.file # f
    <3>1. up = [new EXCEPT !.finish = TRUE, !.waiting = old.waiting]
      BY <2>4 DEF UploadOf
    <3>2. old.waiting \in BOOLEAN
      BY <2>1, <2>4 DEF UploadT
    <3>3. up = [file |-> f, chunks |-> 0, finish |-> TRUE, waiting |-> old.waiting]
      BY <3>1
    <3> QED
      BY <3>2, <3>3, <2>4, <1>2 DEF UploadT
  <2> QED
    BY <2>2, <2>3, <2>4
<1>4. chunks \in 0..MaxChunks
  BY <1>1, <1>2, <1>3 DEF UploadT
<1>5. \A u \in Clients : client[u].upload # None =>
        client[u].slot # "NoSlot" /\ sched.has_upload = 0
  BY <1>1, <1>2 DEF Good, Owned, HasSlot
<1>6. CASE chunks = 0 /\ client' = RemoveClientSlot(client, c) /\ sched' = sched
  BY <1>6, <1>1, RevokedGood
<1>7. CASE /\ chunks = 0 /\ sched' = sched
           /\ client' = IF client[c].upload # None /\ client[c].upload.file = f
                        THEN [client EXCEPT ![c].upload.finish = finish] ELSE client
  <2>1. finish \in BOOLEAN
    BY <1>3 DEF UploadT
  <2> HIDE DEF up, finish, chunks, asked
  <2>2. \A u \in Clients :
          /\ client'[u] \in ClientT
          /\ client'[u].connected = client[u].connected
          /\ client'[u].slot = client[u].slot
          /\ client'[u].upload # None => client[u].upload # None
          /\ client'[u].upload # None =>
               /\ client'[u].upload.chunks = client[u].upload.chunks
               /\ client'[u].upload.waiting = client[u].upload.waiting
    BY <1>7, <1>2, <2>1 DEF ClientT, UploadT
  <2>3. client' \in [Clients -> ClientT]
    BY <1>7, <1>2, <2>2
  <2>4. NotLost(client', sched')
    BY <1>7, <1>2, <2>2 DEF Good, NotLost
  <2>5. sched' = [sched EXCEPT !.upload_clients = sched'.upload_clients]
    BY <1>7, <1>2 DEF SchedT
  <2> QED
    BY <1>1, <1>2, <1>5, <1>7, <2>2, <2>3, <2>4, <2>5, ServeGood
<1>8. CASE /\ chunks > 0
           /\ client' = [client EXCEPT ![c].upload = asked, ![c].file = f]
           /\ sched' = IF up.waiting THEN sched
                       ELSE [sched EXCEPT !.upload_clients = Append(@, c)]
  <2>1. /\ asked \in UploadT /\ asked.waiting /\ asked.chunks > 0
    BY <1>8, <1>3, <1>4 DEF UploadT
  <2> HIDE DEF up, finish, chunks, asked
  <2>2. \A u \in Clients :
          /\ client'[u] \in ClientT
          /\ client'[u].connected = client[u].connected
          /\ client'[u].slot = client[u].slot
          /\ client'[u].upload = IF u = c THEN asked ELSE client[u].upload
    BY <1>8, <1>2, <2>1 DEF ClientT
  <2>3. client' \in [Clients -> ClientT]
    BY <1>8, <1>2, <2>2
  <2>4. /\ sched' \in SchedT
        /\ sched' = [sched EXCEPT !.upload_clients = sched'.upload_clients]
        /\ ToSet(sched.upload_clients) \subseteq ToSet(sched'.upload_clients)
        /\ c \in ToSet(sched'.upload_clients)
    <3>1. CASE up.waiting
      <4>1. c \in ToSet(sched.upload_clients)
        BY <3>1, <1>2, <1>3 DEF Good, NotLost
      <4> QED
        BY <3>1, <4>1, <1>8, <1>2 DEF SchedT
    <3>2. CASE ~up.waiting
      <4>1. sched' = [sched EXCEPT !.upload_clients = Append(sched.upload_clients, c)]
        BY <3>2, <1>8
      <4>2. sched.upload_clients \in Seq(Clients)
        BY <1>2 DEF SchedT
      <4>3. sched'.upload_clients = Append(sched.upload_clients, c)
        BY <4>1, <1>2 DEF SchedT
      <4> QED
        BY <4>1, <4>2, <4>3, <1>2, AppendSet DEF SchedT
    <3> QED
      BY <3>1, <3>2
  <2>5. NotLost(client', sched')
    BY <1>2, <2>1, <2>2, <2>4 DEF Good, NotLost
  <2>6. \A u \in Clients : client'[u].upload # None =>
          client'[u].slot # "NoSlot" /\ sched.has_upload = 0
    BY <1>1, <1>5, <2>2 DEF HasSlot
  <2> QED
    BY <1>1, <2>2, <2>3, <2>4, <2>5, <2>6, ServeGood
<1> QED
  BY <1>6, <1>7, <1>8 DEF QueryBloc

\* What send_client_block leaves of the client that is served.
LEMMA SendKeeps ==
  ASSUME IInv, NEW c \in Clients, HasChunks(client, c),
         NEW n \in 0..client[c].upload.chunks, client' = SendClientBlock(c, n)
  PROVE  /\ client' \in [Clients -> ClientT]
         /\ \A u \in Clients \ {c} : client'[u] = client[u]
         /\ client'[c].connected = client[c].connected
         /\ client'[c].slot \in {client[c].slot, "NoSlot"}
         /\ client'[c].upload # None =>
              /\ client'[c].slot # "NoSlot"
              /\ client'[c].upload.waiting <=> client'[c].upload.chunks > 0
<1> DEFINE up == client[c].upload
<1>1. /\ Good(client, sched) /\ client \in [Clients -> ClientT]
      /\ \A u \in Clients : client[u] \in ClientT
  BY DEF IInv, Good, Typed
<1>2. up # None /\ up \in UploadT /\ client[c].slot # "NoSlot"
  BY <1>1 DEF HasChunks, ClientT, Good, Owned, HasSlot
<1>3. CASE client' = [client EXCEPT ![c].upload = None]
  BY <1>1, <1>3 DEF ClientT
<1>4. CASE client' = RemoveClientSlot(client, c)
  BY <1>1, <1>4, RemoveLost DEF Lost
<1>5. CASE client' = [client EXCEPT ![c].sent = TRUE, ![c].upload.chunks = @ - n,
                                   ![c].upload.waiting = n < up.chunks]
  <2> DEFINE more == n < up.chunks
             left == [up EXCEPT !.chunks = up.chunks - n, !.waiting = more]
             r == [client[c] EXCEPT !.sent = TRUE, !.upload = left]
  <2>1. up.chunks - n \in 0..MaxChunks /\ more \in BOOLEAN
    BY <1>2, SlotsAssumption DEF UploadT
  <2>2. left \in UploadT /\ (left.waiting <=> left.chunks > 0)
    <3>1. left = [up EXCEPT !.chunks = up.chunks - n, !.waiting = more]
      OBVIOUS
    <3> HIDE DEF more, left
    <3>2. left \in UploadT
      BY <1>2, <2>1, <3>1 DEF UploadT
    <3>3. left.waiting = more
      BY <1>2, <3>1 DEF UploadT
    <3>4. left.chunks = up.chunks - n
      BY <1>2, <3>1 DEF UploadT
    <3>5. n < up.chunks <=> up.chunks - n > 0
      BY <1>2 DEF UploadT
    <3> QED
      BY <3>2, <3>3, <3>4, <3>5 DEF more
  <2>3. client' = [client EXCEPT ![c] = r]
    BY <1>1, <1>2, <1>5 DEF ClientT, UploadT
  <2> HIDE DEF left
  <2>4. /\ r \in ClientT /\ r.upload = left /\ r.slot = client[c].slot
        /\ r.connected = client[c].connected
    BY <1>1, <2>2 DEF ClientT
  <2> HIDE DEF r
  <2> QED
    BY <1>1, <1>2, <2>2, <2>3, <2>4
<1> QED
  BY <1>3, <1>4, <1>5 DEF SendClientBlock

\* The client that was served returns to the fifo when it has more to receive.
LEMMA NextUploadsGood == ASSUME IInv, NEW c \in Clients, NextUploads(c) PROVE IInv'
<1> DEFINE q == sched.upload_clients
<1>1. /\ q # <<>> /\ c = Head(q) /\ shared' = shared
      /\ sched' = [sched EXCEPT !.upload_clients =
                     IF HasChunks(client', c) /\ sched.has_upload = 0
                     THEN Append(Tail(q), c) ELSE Tail(q)]
  BY DEF NextUploads
<1>2. /\ Good(client, sched) /\ client \in [Clients -> ClientT] /\ sched \in SchedT
      /\ q \in Seq(Clients)
  BY DEF IInv, Good, Typed, SchedT
<1>3. /\ client' \in [Clients -> ClientT]
      /\ \A u \in Clients \ {c} : client'[u] = client[u]
      /\ client'[c].connected = client[c].connected
      /\ client'[c].slot \in {client[c].slot, "NoSlot"}
      /\ client'[c].upload # None =>
           /\ client[c].upload # None
           /\ client'[c].slot # "NoSlot"
           /\ client'[c].upload.waiting <=> client'[c].upload.chunks > 0
  <2>1. CASE client' = client
    BY <2>1, <1>2 DEF Good, Owned, NotLost, HasSlot
  <2>2. CASE HasChunks(client, c)
             /\ \E n \in 0..client[c].upload.chunks : client' = SendClientBlock(c, n)
    <3>1. client[c].upload # None
      BY <2>2 DEF HasChunks
    <3> QED
      BY <2>2, <3>1, SendKeeps
  <2> QED
    BY <2>1, <2>2 DEF NextUploads
<1>4. \A u \in Clients : client'[u].upload # None =>
        /\ client[u].upload # None
        /\ client'[u].slot # "NoSlot"
        /\ client'[u].connected
        /\ sched.has_upload = 0
        /\ client'[u].upload.waiting <=> client'[u].upload.chunks > 0
  <2> SUFFICES ASSUME NEW u \in Clients, client'[u].upload # None
               PROVE  /\ client[u].upload # None
                      /\ client'[u].slot # "NoSlot"
                      /\ client'[u].connected
                      /\ sched.has_upload = 0
                      /\ client'[u].upload.waiting <=> client'[u].upload.chunks > 0
    OBVIOUS
  <2>1. client[u].upload # None
    BY <1>3
  <2>2. client[u].slot # "NoSlot" /\ client[u].connected /\ sched.has_upload = 0
    BY <2>1, <1>2 DEF Good, Owned, HasSlot, Idle, SchedT
  <2>3. CASE u = c
    BY <2>1, <2>2, <2>3, <1>3
  <2>4. CASE u # c
    BY <2>1, <2>2, <2>4, <1>2, <1>3 DEF Good, NotLost
  <2> QED
    BY <2>3, <2>4
<1>5. /\ Tail(q) \in Seq(Clients)
      /\ \A u \in ToSet(q) : u # c => u \in ToSet(Tail(q))
  BY <1>1, <1>2, TailSet
<1>6. /\ sched'.upload_clients = IF HasChunks(client', c) /\ sched.has_upload = 0
                                 THEN Append(Tail(q), c) ELSE Tail(q)
      /\ sched'.upload_clients \in Seq(Clients)
      /\ ToSet(Tail(q)) \subseteq ToSet(sched'.upload_clients)
      /\ HasChunks(client', c) /\ sched.has_upload = 0 => c \in ToSet(sched'.upload_clients)
  <2>1. sched'.upload_clients = IF HasChunks(client', c) /\ sched.has_upload = 0
                                THEN Append(Tail(q), c) ELSE Tail(q)
    BY <1>1, <1>2 DEF SchedT
  <2> QED
    BY <2>1, <1>5, AppendSet
<1>7. sched' \in SchedT /\ sched' = [sched EXCEPT !.upload_clients = sched'.upload_clients]
  BY <1>1, <1>2, <1>6 DEF SchedT
<1>8. NotLost(client', sched')
  <2> SUFFICES ASSUME NEW u \in Clients, client'[u].upload # None, client'[u].upload.waiting
               PROVE  u \in ToSet(sched'.upload_clients)
    BY <1>4 DEF NotLost
  <2>1. CASE u = c
    BY <2>1, <1>4, <1>6 DEF HasChunks
  <2>2. CASE u # c
    BY <2>2, <1>2, <1>3, <1>5, <1>6 DEF Good, NotLost
  <2> QED
    BY <2>1, <2>2
<1>9. \A u \in Clients :
        /\ client'[u].connected = client[u].connected
        /\ client'[u].slot \in {client[u].slot, "NoSlot"}
        /\ client'[u].upload # None =>
             client'[u].slot # "NoSlot" /\ sched.has_upload = 0
  BY <1>3, <1>4
<1> QED
  BY <1>1, <1>3, <1>7, <1>8, <1>9, ServeGood
-----------------------------------------------------------------------------
(* Timers and the user *)

\* The timer that gives slots.
LEMMA RefillUploadSlotsGood == ASSUME IInv, RefillUploadSlots PROVE IInv'
<1>1. Good(client', sched')
  BY RefillGood DEF RefillUploadSlots, IInv
<1> QED
  BY <1>1, Primed DEF IInv, RefillUploadSlots

\* Slots are cleared: of all uploaders, when uploads are disabled.
LEMMA ClearedGood ==
  ASSUME IInv, NEW s \in SchedT, NEW silent \in SUBSET Clients, Cleared(s, silent),
         s.pending = sched.pending, s.upload_clients = sched.upload_clients, Credit(s),
         shared' = shared
  PROVE  IInv'
<1> DEFINE C == ClearUploadSlots(s, silent)
<1>1. client' = DisconnectAll(client, C) /\ sched' = Forget(s, C)
  BY DEF Cleared
<1>2. C \in SUBSET Clients /\ (s.has_upload > 0 => uploaders(client) \subseteq C)
  BY DEF ClearUploadSlots, uploaders
<1>3. Good(client, sched)
  BY DEF IInv
<1> HIDE DEF C
<1>4. Good(client', sched')
  BY <1>1, <1>2, <1>3, DisconnectGood
<1> QED
  BY <1>4, Primed DEF IInv

\* A minute more of credit, or a minute less without uploads.
LEMMA MinuteTimerGood == ASSUME IInv, MinuteTimer PROVE IInv'
<1> DEFINE s == IF sched.has_upload > 0
                THEN [sched EXCEPT !.has_upload = @ - 1]
                ELSE [sched EXCEPT !.upload_credit = IF @ < MaxCredit THEN @ + 1 ELSE @]
<1>1. PICK silent \in SUBSET Silent : Cleared(s, silent)
  BY DEF MinuteTimer
<1>2. silent \in SUBSET Clients /\ shared' = shared
  BY DEF Silent, uploaders, MinuteTimer
<1>3. sched \in SchedT /\ Credit(sched) /\ MaxCredit \in Nat
  BY SlotsAssumption DEF IInv, Good, Typed
<1>4. /\ s \in SchedT /\ s.pending = sched.pending
      /\ s.upload_clients = sched.upload_clients /\ Credit(s)
  <2>1. CASE sched.has_upload > 0
    <3>1. s = [sched EXCEPT !.has_upload = sched.has_upload - 1]
      BY <2>1
    <3>2. sched.has_upload - 1 \in 0..MaxCredit
      BY <2>1, <1>3 DEF SchedT
    <3> HIDE DEF s
    <3> QED
      BY <3>1, <3>2, <1>3 DEF SchedT, Credit
  <2>2. CASE ~(sched.has_upload > 0)
    <3> DEFINE m == IF sched.upload_credit < MaxCredit THEN sched.upload_credit + 1
                    ELSE sched.upload_credit
    <3>1. s = [sched EXCEPT !.upload_credit = m]
      BY <2>2
    <3>2. m \in 0..MaxCredit /\ sched.has_upload = 0
      BY <2>2, <1>3 DEF SchedT
    <3> HIDE DEF s, m
    <3> QED
      BY <3>1, <3>2, <1>3 DEF SchedT, Credit
  <2> QED
    BY <2>1, <2>2
<1> HIDE DEF s
<1> QED
  BY <1>1, <1>2, <1>4, ClearedGood

\* Minutes move between what is left and what is in use.
LEMMA NuGood == ASSUME IInv, NEW num \in Int, Nu(num) PROVE IInv'
<1> DEFINE least(a, b) == IF a < b THEN a ELSE b
           n == IF num > 0 THEN least(sched.upload_credit, num)
                ELSE -least(-num, sched.has_upload)
           s == [sched EXCEPT !.has_upload = @ + n, !.upload_credit = @ - n]
<1>1. /\ \/ s.has_upload > 0 /\ Cleared(s, {})
         \/ ~(s.has_upload > 0) /\ sched' = s /\ client' = client
      /\ shared' = shared
  BY DEF Nu
<1>2. /\ Good(client, sched) /\ sched \in SchedT /\ Credit(sched) /\ MaxCredit \in Nat
  BY SlotsAssumption DEF IInv, Good, Typed
<1>3. /\ sched.has_upload \in Nat /\ sched.upload_credit \in Nat
      /\ sched.has_upload + sched.upload_credit <= MaxCredit
  BY <1>2 DEF SchedT, Credit
<1>4. /\ sched.has_upload + n \in 0..MaxCredit
      /\ sched.upload_credit - n \in 0..MaxCredit
      /\ (sched.has_upload + n) + (sched.upload_credit - n) <= MaxCredit
  BY <1>2, <1>3
<1> HIDE DEF n, least
<1>5. /\ s \in SchedT /\ s.pending = sched.pending
      /\ s.upload_clients = sched.upload_clients /\ Credit(s)
  BY <1>2, <1>4 DEF SchedT, Credit
<1> HIDE DEF s
<1>6. CASE s.has_upload > 0 /\ Cleared(s, {})
  BY <1>1, <1>5, <1>6, ClearedGood
<1>7. CASE ~(s.has_upload > 0) /\ sched' = s /\ client' = client
  <2>1. Good(client, s)
    BY <1>2, <1>5, <1>7 DEF Good, Typed, Owned, Idle, NotLost
  <2> QED
    BY <2>1, <1>1, <1>7, Primed DEF IInv
<1> QED
  BY <1>1, <1>6, <1>7

\* The clients that download a file that is unshared lose their slots.
LEMMA UnshareGood == ASSUME IInv, NEW f \in Files, UnshareFile(f) PROVE IInv'
<1>1. /\ client' = [c \in Clients |->
                     IF client[c].upload # None /\ client[c].upload.file = f
                     THEN RemoveClientSlot(client, c)[c] ELSE client[c]]
      /\ sched' = sched /\ shared' = shared \ {f}
  BY DEF UnshareFile
<1>2. /\ Good(client, sched) /\ client \in [Clients -> ClientT] /\ sched \in SchedT
      /\ Credit(sched) /\ shared \subseteq Files
  BY DEF IInv, Good, Typed
<1>3. \A c \in Clients :
        /\ RemoveClientSlot(client, c)[c] \in ClientT
        /\ RemoveClientSlot(client, c)[c].slot = "NoSlot"
        /\ RemoveClientSlot(client, c)[c].upload = None
        /\ RemoveClientSlot(client, c)[c].connected = client[c].connected
  BY <1>2, RemoveLost DEF Lost
<1>4. Lost(client, client')
  BY <1>1, <1>2, <1>3 DEF Lost
<1>5. \A c \in sched.pending : client'[c].connected
  BY <1>1, <1>2, <1>3 DEF Good, Owned, SchedT
<1>6. Good(client', sched)
  BY <1>2, <1>4, <1>5, LostGood
<1> QED
  BY <1>1, <1>2, <1>6, Primed

-----------------------------------------------------------------------------
(* Theorems *)

\* Every step of a client, a timer or the user keeps the invariant.
LEMMA StepGood == IInv /\ [Next]_vars => IInv'
<1> SUFFICES ASSUME IInv, [Next]_vars PROVE IInv'
  OBVIOUS
<1>1. ASSUME NEW c \in Clients, Connect(c) PROVE IInv'
  BY <1>1, ConnectGood
<1>2. ASSUME NEW c \in Clients, Disconnect(c) PROVE IInv'
  BY <1>2, DisconnectedGood
<1>3. ASSUME NEW c \in Clients, NEW f \in Files, QueryFile(c, f) PROVE IInv'
  BY <1>3, QueryFileGood
<1>4. ASSUME NEW c \in Clients, JoinQueue(c) PROVE IInv'
  BY <1>4, JoinQueueGood
<1>5. ASSUME NEW c \in Clients, ReleaseSlot(c) PROVE IInv'
  BY <1>5, ReleaseSlotGood
<1>6. ASSUME NEW c \in Clients, NEW f \in Files, NEW added \in 0..MaxChunks,
             NEW beyond \in BOOLEAN, QueryBloc(c, f, added, beyond)
      PROVE  IInv'
  BY <1>6, QueryBlocGood
<1>7. ASSUME NEW c \in Clients, NEW outside \in BOOLEAN, QueryBlocRevoked(c, outside)
      PROVE  IInv'
  BY <1>7, RevokedGood DEF QueryBlocRevoked
<1>8. ASSUME NEW c \in Clients, NextUploads(c) PROVE IInv'
  BY <1>8, NextUploadsGood
<1>9. CASE RefillUploadSlots
  BY <1>9, RefillUploadSlotsGood
<1>10. CASE MinuteTimer
  BY <1>10, MinuteTimerGood
<1>11. ASSUME NEW num \in {-1, 1}, Nu(num) PROVE IInv'
  BY <1>11, NuGood
<1>12. ASSUME NEW f \in Files, UnshareFile(f) PROVE IInv'
  BY <1>12, UnshareGood
<1>13. CASE UNCHANGED vars
  BY <1>13, Primed DEF vars, IInv
<1> QED
  BY <1>1, <1>2, <1>3, <1>4, <1>5, <1>6, <1>7, <1>8, <1>9, <1>10, <1>11, <1>12, <1>13
     DEF Next

\* In every behaviour the scheduler and its clients are typed, slots are
\* consistent, and credit is kept.
THEOREM Invariance == Spec => []IInv
<1>1. Init => IInv
  BY InitGood
<1>2. IInv /\ [Next]_vars => IInv'
  BY StepGood
<1> QED
  BY <1>1, <1>2, PTL DEF Spec

\* Type correctness; has_upload and upload_credit stay in their range whatever
\* the timer and the command nu do in turn.
THEOREM TypeCorrectness == Spec => []TypeOK
BY Invariance, Meaning, PTL

\* Slots are owned by connected clients that do not wait for one, are never more
\* than max_upload_slots and the reserved ones allow, and nobody downloads while
\* uploads are disabled.
THEOREM SlotsStayConsistent == Spec => []SlotsConsistent
BY Invariance, Meaning, PTL

\* A client with chunks to receive is in the fifo, at all times.
THEOREM NoUploadIsLost == Spec => []NoLostUpload
BY Invariance, Meaning, PTL
===============================================================================
