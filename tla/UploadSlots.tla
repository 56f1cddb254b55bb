------------------------------ MODULE UploadSlots ------------------------------
(***************************************************************************)
(* The upload scheduler of daemon/common/commonUploads.ml, with the upload *)
(* slots of daemon/common/commonClient.ml and the eDonkey clients that use *)
(* them (networks/donkey/donkeyClient.ml, donkeyFiles.ml).                 *)
(*                                                                         *)
(* A client queries a file, joins the queue, is given a slot at once (a    *)
(* reserved one) or by a timer (a normal one), and then asks for chunks.   *)
(* Clients that have chunks to receive are in one fifo, whose head is      *)
(* served when there is bandwidth.  A slot may be taken back between any   *)
(* two of these, while the client is in the fifo.                          *)
(*                                                                         *)
(* Bytes are left out: a chunk is sent in one or several turns.  A call of *)
(* next_uploads serves the head of the fifo for as long as there is        *)
(* bandwidth; a step is one of its turns.                                  *)
(***************************************************************************)
EXTENDS Integers, Sequences, SequencesExt, FiniteSets

CONSTANTS
  Clients,
  Files,
  Friends,         \* the clients with friends_upload_slot that are friends
  Release,         \* the files tagged as release
  Small,           \* the files of at most small_files_slot_limit bytes
  Dir,             \* Dir[f]: the shared directory of f
  Prio,            \* Prio[d]: the priority of the directory d
  MaxSlots,        \* max_upload_slots
  MinSlots,        \* min_upload_slots, 3 in the code
  ReleaseSlots,    \* the slots max_release_slots stands for
  CompleteChunks,  \* upload_complete_chunks
  MaxCredit,       \* 300 in upload_credit_timer
  MaxChunks,       \* bound: chunks that a client asks for ahead
  MaxQueue,        \* bound: places of the fifo
  Queries,         \* bound: Queries[c]: the files that c may query
  Asks,            \* bound: Asks[c]: the files that c may ask chunks of
  Unsharable,      \* bound: the files that may be unshared
  None

Dirs == {Dir[f] : f \in Files}

ASSUME SlotsAssumption ==
  /\ IsFiniteSet(Clients)
  /\ MaxSlots \in Nat
  /\ MinSlots \in 0..MaxSlots
  /\ ReleaseSlots \in Nat
  /\ MaxCredit \in Nat
  /\ MaxChunks \in Nat
  /\ MaxQueue \in Nat
  /\ CompleteChunks \in BOOLEAN

ASSUME DataAssumption ==
  /\ Prio \in [Dirs -> Nat]
  /\ None \notin Files \union Clients \union Dirs

Kinds == {"NoSlot", "NormalSlot", "ReleaseSlot", "FriendSlot", "SmallFileSlot", "PrioSlot"}

VARIABLES
  client,   \* the clients, with their client_slot and client_upload
  sched,    \* the scheduler: pending_slots_map, upload_clients and counters
  shared    \* the files that are shared

vars == <<client, sched, shared>>

-----------------------------------------------------------------------------
(* Slots of a client *)

HasSlot(cl, c) == cl[c].slot # "NoSlot"

\* CommonClient.uploaders, which set_client_has_a_slot keeps.
uploaders(cl) == {c \in Clients : HasSlot(cl, c)}

\* remove_client_slot; sent tells whether client_session_uploaded is not zero.
RemoveClientSlot(cl, c) ==
  [cl EXCEPT ![c].slot = "NoSlot", ![c].sent = FALSE, ![c].upload = None]

\* set_client_has_a_slot: a client that has a slot keeps the one it has.
SetSlot(cl, c, slot) ==
  IF HasSlot(cl, c) THEN cl ELSE [cl EXCEPT ![c].slot = slot]

\* disconnect_client for all clients of C.
DisconnectAll(cl, C) ==
  [c \in Clients |-> IF c \in C THEN [RemoveClientSlot(cl, c)[c] EXCEPT !.connected = FALSE]
                     ELSE cl[c]]

\* Mutant of Forget: a client that disconnects stays in pending_slots_map.
ForgetNothing(sc, C) == sc

\* remove_pending_slot for all clients of C.
Forget(sc, C) == [sc EXCEPT !.pending = @ \ C]

-----------------------------------------------------------------------------
(* Which slot a client is given *)

\* shared_dir: a file that is not shared has none.
DirOf(f) == IF f \in shared THEN Dir[f] ELSE None

\* How many other slots of a kind are in use.
Used(kind) == Cardinality({c \in Clients : client[c].slot = kind})

\* add_pending_slot: c may have the slot reserved to a kind.  A directory
\* counts all uploaders of its files, whatever their slot.
Reserved(c, kind) ==
  LET f == client[c].file
      same == {u \in uploaders(client) : DirOf(client[u].file) = DirOf(f)}
  IN  \/ kind = "ReleaseSlot" /\ f \in Release /\ Used(kind) < ReleaseSlots
      \/ kind = "FriendSlot" /\ c \in Friends /\ Used(kind) < 1
      \/ kind = "SmallFileSlot" /\ f \in Small \intersect shared /\ Used(kind) < 1
      \/ kind = "PrioSlot" /\ f \in shared /\ Cardinality(same) < Prio[Dir[f]]

\* The first reserved slot in the order in which the code tries them.
SlotFor(c) ==
  IF Reserved(c, "ReleaseSlot") THEN "ReleaseSlot"
  ELSE IF Reserved(c, "FriendSlot") THEN "FriendSlot"
  ELSE IF Reserved(c, "SmallFileSlot") THEN "SmallFileSlot"
  ELSE IF Reserved(c, "PrioSlot") THEN "PrioSlot"
  ELSE "NoSlot"

\* n calls of find_pending_slot, each of which picks pending clients at random
\* until it finds a connected one, and give_a_slot.  The clients of given receive
\* a slot; those of dropped were picked and found not connected.
OpenSlots(cl, sc, n) ==
  LET live == {c \in sc.pending : cl[c].connected}
      dead == sc.pending \ live
      least(a, b) == IF a < b THEN a ELSE b
  IN  \E given \in SUBSET live, dropped \in SUBSET dead :
        /\ Cardinality(given) = least(n, Cardinality(live))
        /\ n = 0 => dropped = {}
        /\ n > Cardinality(live) => dropped = dead
        /\ client' = [c \in Clients |->
                        IF c \in given THEN SetSlot(cl, c, "NormalSlot")[c] ELSE cl[c]]
        /\ sched' = Forget(sc, given \union dropped)

\* Mutant of StaticRefill: the limit is off by one.
StaticRefillUnder(cl, sc) ==
  OpenSlots(cl, sc, IF Cardinality(uploaders(cl)) + 1 < MaxSlots THEN 1 ELSE 0)

\* static_refill_upload_slots, every second.
StaticRefill(cl, sc) ==
  OpenSlots(cl, sc, IF Cardinality(uploaders(cl)) < MaxSlots THEN 1 ELSE 0)

\* dynamic_refill_upload_slots, every five seconds.  Beyond MinSlots it opens
\* none or a growing number of slots, as it finds the link busy or not in the
\* calls before (not_saturated_count, allocation_cluster): any number here.
DynamicRefill(cl, sc) ==
  LET len == Cardinality(uploaders(cl))
  IN  \/ /\ len < MinSlots
         /\ OpenSlots(cl, sc, MinSlots - len)
      \/ /\ len >= MinSlots
         /\ \E n \in 0..MaxSlots :
              /\ n > 0 => len + n <= MaxSlots
              /\ OpenSlots(cl, sc, n)

\* refill_upload_slots.  With dynamic_slots only every fifth call does something.
Refill(cl, sc) ==
  \/ /\ sc.has_upload > 0 \/ sc.dynamic_slots
     /\ OpenSlots(cl, sc, 0)
  \/ /\ sc.has_upload = 0
     /\ ~sc.dynamic_slots
     /\ StaticRefill(cl, sc)
  \/ /\ sc.has_upload = 0
     /\ sc.dynamic_slots
     /\ DynamicRefill(cl, sc)

-----------------------------------------------------------------------------
(* Clients *)

Init ==
  /\ client = [c \in Clients |->
                 [connected |-> FALSE, slot |-> "NoSlot", file |-> None,
                  upload |-> None, sent |-> FALSE]]
  /\ sched \in [pending : {{}}, upload_clients : {<<>>}, has_upload : {0},
                upload_credit : {0}, dynamic_slots : BOOLEAN]
  /\ shared = Files

\* A connection is made, by either side, and the handshake done (init_client).
Connect(c) ==
  /\ ~client[c].connected
  /\ client' = [client EXCEPT ![c].connected = TRUE, ![c].slot = "NoSlot",
                              ![c].upload = None]
  /\ UNCHANGED <<sched, shared>>

\* The connection ends: closed, timed out, or the user's choice.
Disconnect(c) ==
  /\ client[c].connected
  /\ client' = DisconnectAll(client, {c})
  /\ sched' = Forget(sched, {c})
  /\ UNCHANGED shared

\* QueryFileReq: c asks for a file.
QueryFile(c, f) ==
  /\ client[c].connected
  /\ f \in shared \intersect Queries[c]
  /\ client' = [client EXCEPT ![c].file = f]
  /\ UNCHANGED <<sched, shared>>

\* JoinQueueReq: add_pending_slot.  It fails for a client that queried no file.
JoinQueue(c) ==
  /\ client[c].connected
  /\ client[c].file # None
  /\ LET slot == SlotFor(c)
     IN  IF slot # "NoSlot"
         THEN /\ client' = SetSlot(client, c, slot)
              /\ sched' = Forget(sched, {c})
         ELSE /\ sched' = IF HasSlot(client, c) THEN sched
                          ELSE [sched EXCEPT !.pending = @ \union {c}]
              /\ UNCHANGED client
  /\ UNCHANGED shared

\* ReleaseSlotReq: c gives its slot back, which another client may receive.
ReleaseSlot(c) ==
  /\ client[c].connected
  /\ Refill(RemoveClientSlot(client, c), sched)
  /\ UNCHANGED shared

\* client_upload once c asks for f: a new one when it has none, or one for
\* another file.
UploadOf(c, f) ==
  LET old == client[c].upload
      new == [file |-> f, chunks |-> 0, finish |-> FALSE, waiting |-> FALSE]
  IN  IF old = None THEN new
      ELSE IF old.file = f THEN old
      ELSE [new EXCEPT !.finish = TRUE, !.waiting = old.waiting]

\* QueryBlocReq is handled only while uploads are not disabled.
QueryBlocAllowed(c) == sched.has_upload = 0 /\ HasSlot(client, c)

\* QueryBlocReq: c asks for chunks of f, added of which are new, the others being
\* in the pipe; beyond tells whether it asks outside its current chunk of the file.
QueryBloc(c, f, added, beyond) ==
  LET up == UploadOf(c, f)
      finish == up.finish \/ beyond
      chunks == IF CompleteChunks /\ up.finish THEN up.chunks ELSE up.chunks + added
      asked == [up EXCEPT !.chunks = chunks, !.finish = finish, !.waiting = TRUE]
  IN  /\ QueryBlocAllowed(c)
      /\ f \in Asks[c] /\ chunks <= MaxChunks
      /\ \/ /\ chunks = 0
            /\ finish /\ CompleteChunks
            /\ client' = RemoveClientSlot(client, c)
            /\ UNCHANGED sched
         \/ /\ chunks = 0
            /\ ~(finish /\ CompleteChunks)
            /\ client' = IF client[c].upload # None /\ client[c].upload.file = f
                         THEN [client EXCEPT ![c].upload.finish = finish]
                         ELSE client
            /\ UNCHANGED sched
         \/ /\ chunks > 0
            /\ up.waiting \/ Len(sched.upload_clients) < MaxQueue
            /\ client' = [client EXCEPT ![c].upload = asked, ![c].file = f]
            /\ sched' = IF up.waiting THEN sched
                        ELSE [sched EXCEPT !.upload_clients = Append(@, c)]
      /\ UNCHANGED shared

\* QueryBlocReq: the slot is revoked, because c asks outside of the file, or
\* because it received enough and others are waiting.
QueryBlocRevoked(c, outside) ==
  /\ QueryBlocAllowed(c)
  /\ outside \/ sched.pending # {}
  /\ client' = RemoveClientSlot(client, c)
  /\ UNCHANGED <<sched, shared>>

\* Mutant of SendClientBlock: up_waiting is not reset after the last chunk.
SendClientBlockWaiting(c, n) ==
  LET up == client[c].upload
  IN  IF up.file \notin shared
      THEN [client EXCEPT ![c].upload = None]
      ELSE IF n = up.chunks /\ up.finish /\ CompleteChunks
      THEN RemoveClientSlot(client, c)
      ELSE [client EXCEPT ![c].sent = TRUE, ![c].upload.chunks = @ - n]

\* Mutant of SendClientBlock: the upload of a file that is not shared is kept.
SendClientBlockUnshared(c, n) ==
  LET up == client[c].upload
  IN  IF up.file \notin shared
      THEN client
      ELSE IF n = up.chunks /\ up.finish /\ CompleteChunks
      THEN RemoveClientSlot(client, c)
      ELSE [client EXCEPT ![c].sent = TRUE, ![c].upload.chunks = @ - n,
                          ![c].upload.waiting = n < up.chunks]

\* send_client_block, when the socket takes data: n chunks are sent to the end.
SendClientBlock(c, n) ==
  LET up == client[c].upload
  IN  IF up.file \notin shared
      THEN [client EXCEPT ![c].upload = None]
      ELSE IF n = up.chunks /\ up.finish /\ CompleteChunks
      THEN RemoveClientSlot(client, c)
      ELSE [client EXCEPT ![c].sent = TRUE, ![c].upload.chunks = @ - n,
                          ![c].upload.waiting = n < up.chunks]

\* Whether upload_to_client finds something to send.
HasChunks(cl, c) == cl[c].connected /\ cl[c].upload # None /\ cl[c].upload.chunks > 0

\* next_uploads: the head c of the fifo is served and put back when it has more
\* to receive (upload_to_client).
NextUploads(c) ==
  /\ sched.upload_clients # <<>>
  /\ c = Head(sched.upload_clients)
  /\ \/ UNCHANGED client
     \/ /\ HasChunks(client, c)
        /\ \E n \in 0..client[c].upload.chunks : client' = SendClientBlock(c, n)
  /\ sched' = [sched EXCEPT
                 !.upload_clients =
                   IF HasChunks(client', c) /\ sched.has_upload = 0
                   THEN Append(Tail(@), c) ELSE Tail(@)]
  /\ UNCHANGED shared

-----------------------------------------------------------------------------
(* Timers and the user *)

\* second_timer
RefillUploadSlots ==
  /\ Refill(client, sched)
  /\ UNCHANGED shared

\* clear_upload_slots: the uploaders that are disconnected.  They are all of them
\* when uploads are disabled, and else those that received nothing for a minute.
ClearUploadSlots(sc, silent) ==
  IF sc.has_upload > 0 THEN uploaders(client) ELSE silent

Cleared(sc, silent) ==
  LET C == ClearUploadSlots(sc, silent)
  IN  /\ client' = DisconnectAll(client, C)
      /\ sched' = Forget(sc, C)

Silent == {c \in uploaders(client) : ~client[c].sent}

\* minute_timer: upload_credit_timer, then clear_upload_slots.
MinuteTimer ==
  /\ \E silent \in SUBSET Silent :
       Cleared(IF sched.has_upload > 0
               THEN [sched EXCEPT !.has_upload = @ - 1]
               ELSE [sched EXCEPT !.upload_credit = IF @ < MaxCredit THEN @ + 1 ELSE @],
               silent)
  /\ UNCHANGED shared

\* Mutant of Nu: more minutes may be taken back than there are.
NuWhole(num) ==
  LET least(a, b) == IF a < b THEN a ELSE b
      n == IF num > 0 THEN least(sched.upload_credit, num) ELSE num
      sc == [sched EXCEPT !.has_upload = @ + n, !.upload_credit = @ - n]
  IN  /\ IF sc.has_upload > 0
         THEN Cleared(sc, {})
         ELSE /\ sched' = sc
              /\ UNCHANGED client
      /\ UNCHANGED shared

\* The command nu: uploads are disabled for num minutes, as far as there is
\* credit, or for -num minutes less.
Nu(num) ==
  LET least(a, b) == IF a < b THEN a ELSE b
      n == IF num > 0 THEN least(sched.upload_credit, num)
           ELSE -least(-num, sched.has_upload)
      sc == [sched EXCEPT !.has_upload = @ + n, !.upload_credit = @ - n]
  IN  /\ IF sc.has_upload > 0
         THEN Cleared(sc, {})
         ELSE /\ sched' = sc
              /\ UNCHANGED client
      /\ UNCHANGED shared

\* unshare_file: the clients that download f lose their slots.
UnshareFile(f) ==
  /\ f \in shared \intersect Unsharable
  /\ shared' = shared \ {f}
  /\ client' = [c \in Clients |->
                  IF client[c].upload # None /\ client[c].upload.file = f
                  THEN RemoveClientSlot(client, c)[c] ELSE client[c]]
  /\ UNCHANGED sched

-----------------------------------------------------------------------------
(* The specification *)

Next ==
  \/ \E c \in Clients :
       \/ Connect(c)
       \/ Disconnect(c)
       \/ \E f \in Files : QueryFile(c, f)
       \/ JoinQueue(c)
       \/ ReleaseSlot(c)
       \/ \E f \in Files, added \in 0..MaxChunks, beyond \in BOOLEAN :
            QueryBloc(c, f, added, beyond)
       \/ \E outside \in BOOLEAN : QueryBlocRevoked(c, outside)
       \/ NextUploads(c)
  \/ RefillUploadSlots
  \/ MinuteTimer
  \/ \E num \in {-1, 1} : Nu(num)
  \/ \E f \in Files : UnshareFile(f)

\* c is picked by the timer; the choice is random.
PickedForSlot(c) ==
  c \in sched.pending /\ RefillUploadSlots /\ HasSlot(client', c)

\* The slot of c ends while others wait: it received enough, or it is silent for
\* upload_timeout.
SlotEnds(c) ==
  HasSlot(client, c) /\ sched.pending # {} /\ (Disconnect(c) \/ QueryBlocRevoked(c, FALSE))

\* The socket of c takes data when c is served.
Served(c) ==
  NextUploads(c) /\ HasChunks(client, c) /\ client' # client

Fairness ==
  /\ WF_vars(\E c \in Clients : NextUploads(c))
  /\ \A c \in Clients :
       /\ SF_vars(PickedForSlot(c))
       /\ WF_vars(SlotEnds(c))
       /\ SF_vars(Served(c))

Spec == Init /\ [][Next]_vars /\ Fairness

-----------------------------------------------------------------------------
(* Properties *)

\* Every variable has its type; has_upload and upload_credit stay in their range
\* through the timer and the command nu.
TypeOK ==
  /\ client \in [Clients ->
       [connected : BOOLEAN, slot : Kinds, file : Files \union {None}, sent : BOOLEAN,
        upload : [file : Files, chunks : 0..MaxChunks, finish : BOOLEAN, waiting : BOOLEAN]
                 \union {None}]]
  /\ sched \in [pending : SUBSET Clients, upload_clients : Seq(Clients),
                has_upload : 0..MaxCredit, upload_credit : 0..MaxCredit,
                dynamic_slots : BOOLEAN]
  /\ shared \subseteq Files

\* A client waits for a slot only while it is connected and has none, so that a
\* slot is never given in vain or twice; it has a slot only while connected, and
\* downloads only with a slot (the four are changed by timers, messages and the
\* end of connections, which may come in any order).
SlotsOwned ==
  \A c \in Clients :
    /\ c \in sched.pending => client[c].connected /\ ~HasSlot(client, c)
    /\ HasSlot(client, c) => client[c].connected
    /\ client[c].upload # None => HasSlot(client, c)

\* Normal slots obey max_upload_slots, whatever reserved slots are in use, and
\* there is one reserved slot for friends and one for small files
\* (friends_upload_slot: "a single reserved slot").
SlotsLimited ==
  LET used(kind) == Cardinality({c \in Clients : client[c].slot = kind})
  IN  /\ used("NormalSlot") <= MaxSlots
      /\ used("FriendSlot") <= 1
      /\ used("SmallFileSlot") <= 1
      /\ used("ReleaseSlot") <= ReleaseSlots

\* While uploads are disabled nobody downloads, although reserved slots are
\* given meanwhile.
DisabledMeansIdle ==
  sched.has_upload > 0 => \A c \in Clients : client[c].upload = None

\* What the slots are for: they are owned, limited, and idle while disabled.
SlotsConsistent == SlotsOwned /\ SlotsLimited /\ DisabledMeansIdle

\* up_waiting is kept apart from the fifo it speaks of.  A client with chunks to
\* receive is in the fifo, so it will be served, although slots, connections and
\* uploads come and go while entries of the fifo stay.
NoLostUpload ==
  \A c \in Clients : client[c].upload # None =>
    /\ client[c].upload.waiting <=> client[c].upload.chunks > 0
    /\ client[c].upload.waiting => c \in ToSet(sched.upload_clients)

\* A pending client gets a slot or leaves, whichever clients the timer's random
\* choice prefers, provided that reserved slots are in the end no longer in use:
\* those who hold one count against max_upload_slots, and two that take turns in
\* it keep the others waiting for ever.  Also provided that the user does not
\* disable uploads again and again, and that dynamic_slots is off (with it, a
\* client may wait for as long as the link is busy).
PendingGetsSlot ==
  /\ ~sched.dynamic_slots
  /\ <>[](sched.has_upload = 0)
  /\ <>[](\A c \in uploaders(client) : client[c].slot = "NormalSlot")
  => \A c \in Clients : c \in sched.pending ~> c \notin sched.pending

\* A client that asked for chunks receives data or loses its slot.
UploadStarts ==
  \A c \in Clients : HasChunks(client, c) ~> (client[c].sent \/ ~HasChunks(client, c))
=============================================================================
