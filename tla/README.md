# MLDonkey in TLA+

TLA+ specifications of the core of MLDonkey 3.0.7 (`src/mldonkey-3.0.7`): the
swarmer, which lets several networks download one file together; the hashing of
the files they share, from the queue down to the thread that computes; the slots
in which files are uploaded; the event loop everything runs on; and the thread
that forwards ports.  All paths below are relative to `src/mldonkey-3.0.7/src`;
plain line numbers in sections 3 and 4 are those of
`daemon/common/commonSwarming.ml`.

| Module | What it is |
|---|---|
| `SwarmerVerification` | blocks, bitmaps of the frontends, hashing, failed chunks, merge, files.ini, restart |
| `ChunkLedger` | what the verification promises about a chunk: the abstract specification |
| `SwarmerRanges` | blocks and ranges as shared objects, uploaders that select and fill them |
| `HashQueue` | the fifo of hashing jobs, its thread and its three clients |
| `HashingThread` | the hashing thread and the handover of a job to it, without a lock |
| `HashService` | what the hashing thread promises the queue: the abstract specification |
| `UploadSlots` | clients that wait for upload slots, get them, and are served from a fifo |
| `EventLoop` | poll, sockets, descriptors, time-outs, timers and the handlers between them |
| `PortMapping` | ports to forward and to give back, a thread that talks UPnP and NAT-PMP |
| `SwarmerVerification_proofs`, `SwarmerRanges_proofs`, `SwarmerCounters_proofs`, `HashQueue_proofs`, `HashingThread_proofs`, `EventLoop_proofs`, `PortMapping_proofs`, `UploadSlots_proofs` | theorems about these modules |
| `MCSwarmerVerification`, `MCSwarmerRanges`, `MCHashQueue`, `MCHashingThread`, `MCUploadSlots`, `MCEventLoop`, `MCPortMapping` | instances for TLC |

## 1. Inventory

MLDonkey is a daemon around an event loop (`utils/net/basicSocket.ml`) that calls
timers and socket handlers one after the other.  So the interleavings that matter
in the OCaml code are those of *handlers*: between two calls of one uploader any
other handler may have run, and objects are shared by reference between them.
Three threads of C run beside it, each with a protocol of its own: one hashes
(`daemon/common/commonHasher_c.c`), one forwards ports
(`utils/net/upnp_stubs.c`), one asks the DNS (`utils/lib/stubs_c.c`).

| Component | State | Operations and partners |
|---|---|---|
| Swarmer (`commonSwarming.ml`) | `s_blocks`, `s_verified_bitmap`, `s_block_pos`, `s_nuploading`, `s_networks`; per frontend a bitmap and two counters; per uploader its blocks and ranges | the networks call `register_uploader`, `find_blocks`, `find_range`, `received`; timers call `verify_some_chunks`; the user merges and rechecks; files.ini saves it |
| File states (`commonFile.ml`, `commonInteractive.ml`) | `file_state`, `done_files` | pause, queue, resume (user or quotas), completion, commit |
| Shared files (`commonUploads.ml`, `donkeyShare.ml`, `dcShared.ml`) | `waiting_shared_files`, `current_job`, the files each network still has to hash | scans share files with every network, which ask for hashes; `commonHasher` runs one job at a time |
| Hashing thread (`commonHasher_c.c`, `commonHasher.ml`) | the job, its result, `job_done`, a mutex and a condition; the static buffer of `tiger.c` | a timer of the loop hands over one job and polls for the end |
| Upload scheduler (`commonUploads.ml`) | `upload_clients`, pending slots, slots in use | clients ask for slots, timers refill them |
| Event loop (`basicSocket.ml`, `ml_select` of `stubs_c.c`) | `fd_tasks`, `closed_tasks`, `timers`; per socket its descriptor, wants, flags, deadlines | calls every handler; any handler may close, open or change any socket and raise |
| Port forwarding (`upnp_stubs.c`) | `g_maps`, `g_unmaps`, `g_running`, `g_stop` | commands of the user and the start of the daemon fill the arrays, a thread visits them and talks with the router |
| Download scheduler and quotas (`commonUploads.ml`, `commonInteractive.ml`) | credit and fifo; the files that may download | timers |
| Sources (`commonSources.ml`) | queues of sources by score and time, requests per file | networks report connections and answers, timers pick sources to connect |
| Connections (`tcpBufferedSocket.ml`) | tokens, a fifo per connection manager, counters | networks queue connections, a timer opens them within limits |
| Disk files (`unix32.ml`) | cache of open descriptors, write buffers | the swarmer reads and writes, a timer flushes |
| Networks (`networks/*`) | clients, servers, protocol states | sockets, swarmer, sources |
| Search, blocking, GUI protocols, driver, GTK programs, libraries | tables, encoders, commands | see `PROJECT.json` |

What makes each of the first ones correct:

- **Swarmer, verification.**  The same fact is kept in `s_blocks`, in
  `s_verified_bitmap` and in one bitmap per frontend, and a chain of functions
  carries every change through them.  They must agree; wrong bytes must never be
  called verified nor the file complete; good bytes must not be thrown away; the
  counters must count; the file must be completed in the end.  Hard: several
  chunkings of one file, chunks that fail, verification in the middle of other
  calls, hashes that arrive late, merges in mid-download, restarts from an old
  files.ini.
- **Swarmer, transfer.**  A byte is missing exactly when it is in a hole of a
  block; ranges are ordered and disjoint; reference counts and the two counters
  of a block are exact; a range an uploader holds never belongs to a block that
  is over.  Hard: several uploaders on one range, overlapping data, blocks
  completed or thrown away under those who download them.
- **Shared files and the hashing thread.**  Every file that was shared is hashed
  in the end and every request answered once, with the digest of its own piece.
  Hard: callbacks that use state captured earlier, jobs that get lost, variables
  shared with a thread without a lock, signals sent before anybody waits.
- **Uploads.**  Slots stay within their limits, no client waits or downloads
  when it should not, and none is forgotten.  Hard: slots, connections and
  permissions that end while a client is queued in one of two places.
- **Event loop.**  An event reaches its own socket, once; descriptors do not
  leak and are not closed twice; no socket, timer or time-out starves.  Hard:
  handlers that close other sockets whose events are already fetched, descriptor
  numbers used again in the same round, exceptions, interrupted polls.
- **Port forwarding.**  What the router forwards is known to the program until
  it is given back; removed ports are given back and requested ones negotiated
  to a result.  Hard: arrays searched without the lock and written with it, a
  thread cancelled in the middle of a command, stop and start racing.
- **Sources, connections, disk files.**  Limits, queues without
  duplicates or stale entries, tokens used once, writes that reach the disk in
  order.

`PROJECT.json` lists every component and, under `hazards`, each of these at its
line.

## 2. Plan

Done: 1 to 7.  The order is that of importance to the program.

1. `SwarmerVerification`, refining `ChunkLedger`; its theorems.
2. `SwarmerRanges`, with the split of blocks at a merge.
3. `HashQueue`: the fifo of `commonHasher` with its three clients
   (`commonUploads`, `donkeyShare`, `dcShared`); its theorems.
4. `UploadSlots`: pending, normal and reserved slots and the fifo of uploads; its
   theorems.
5. `HashingThread`, refining `HashService`, which is the thread that `HashQueue`
   takes as one step; its theorems.
6. `EventLoop`, under all of the above; its theorems.
7. `PortMapping`; its theorems.
8. `WriteBuffers`: the buffered writes and the descriptor cache of `unix32.ml`,
   against a plain array of bytes.
9. `ConnectionTokens`: tokens and connection managers of `tcpBufferedSocket.ml`.
10. `DownloadQuotas`: `force_download_quotas`, `start_download`, file states.
11. `Sources`: the queues of `commonSources.ml`.
12. A BitTorrent client composed with `SwarmerRanges` (choke and the pipeline of
    requests), and availability counters with the choice of blocks.

Every invariant that a passing run checks has its theorem.  Theorems still worth
having: what the functions that select blocks promise (a block is offered to an
uploader only if it has it).  No module to be proved about declares a RECURSIVE
operator.

## 3. SwarmerVerification

`swarmer` is a record with the fields of the source's records (the comment above
`IsSwarmer` pairs them); `state` holds the file state of each frontend, `saved`
what the last files.ini holds.  `good` is the disk: the bytes of each block that
are right.  A data byte has no value, only rightness, since that is all a hash
tells.  Internal functions are operators from a swarmer to a swarmer; a function
called on each block of a list takes the set, and where order matters (an
assertion in the middle of a loop) the operator says which prefix was reached
(`Reached`, `Walked`).

| Action | Code |
|---|---|
| `NewBlock` | `find_blocks` turning an `EmptyBlock` into a `PartialBlock` (`new_block`, 1475) |
| `Received` | `received` and `range_received`, to `set_completed_block` and, without verification, `set_verified_block` |
| `VerifyOneChunk` | `verify_some_chunks` / `verify_one_chunk` (3127), `verify_chunk` (1389) |
| `ShouldDownloadBlock` | the verification inside `should_download_block` (2007) |
| `PropagateChunk` | `duplicate_chunks` and `propagate_chunk` (2879): a chunk is copied from another file |
| `Merge` | `merge` (3161) and `associate` (790) |
| `SetVerifier` | `set_verifier` (2937): hashes arrive |
| `ChangeState`, `CheckFinished` | `file_pause`, `file_queue`, `file_resume`; `check_finished` |
| `Save`, `Restart` | `frontend_to_value` (3108), `value_to_frontend` (3000) |
| `RecoverMd4s`, `OpFileCheck`, `Rot` | the user's rechecks, a disk that loses bytes (`SpecRecheck` only) |

Blocks are already cut at the chunk boundaries of every frontend; cutting them
is in `SwarmerRanges`.  A secondary comes from a swarmer of its own, of which
only the number of chunks it had completed (`Solo`) is known.  Data comes from
the beginning of a block; the order of bytes inside it is the other module's.

What the runs show:

| Run | Instance | Shows |
|---|---|---|
| `verification` | 4 bytes in 3 blocks, the primary's chunks {0}, {1,2}, the secondary's {0,1}, {2}; four combinations of verifiers, one corruption | blocks, bitmaps and data agree, assertions hold, only bad data is lost |
| `verification_crash` | 3 bytes in 2 blocks, chunks {0}, {1} and {0,1}; a corruption, a save at any time and a restart | counters, the downloaded size and what is verified survive; a file is complete only when right; `ChunkLedger` is implemented; the file is completed in the end |
| `verification_recheck` | the same with rechecks and two losses or corruptions, no restart | a block becomes verified only over right bytes even after rechecks |
| `recheck_assert` | the same, one corruption | a recheck that finds damage reaches an assertion (section 10) |

Why the bounds are enough: chunkings that overlap without refining each other
need three blocks (a chunk of one frontend over parts of two of the other); a
block of two bytes has every state of its hole; one corruption fails a chunk,
which is fetched again, and a second one (in the recheck) damages it after it
was verified; a restart begins from a save made any number of steps before, so
one brings back every combination of old picture and new disk.  `Pausable`
bounds the frontends whose file the user pauses, queues or resumes: both in
`verification`, the primary's alone (whose state the code asks most) in the
others.  The initial states are those of a new download.

Fairness (`FairSpec`): `verify_some_chunks` runs every minute and
`check_finished` at every received chunk and on timers.  Both are fair, verification
weakly, completion strongly: pauses disable it, and the timers find the file between
two of them in the end.  That some uploader starts and fills each block with
right bytes again and again is an assumption on the networks (strong fairness, for
the same reason), and so is that a paused file is resumed.  Without these a
download may legitimately never end.

## 4. SwarmerRanges

Blocks and ranges are mutable records compared by identity, which several
uploaders and the swarmer share, so the module keeps a heap: `swarmer.obj` and
`swarmer.range`, whose identities uploaders hold in `up`.  Linked lists become
sequences (`chain`).  Objects nobody refers to are reclaimed (`Collect`), and an
identity is chosen by offset to keep states few; what would need an identity
when none is left does not happen (two for an offset are enough for the instance).  `disk` is the set of bytes written and not
thrown away.

| Action | Code |
|---|---|
| `Declare`, `ClearUploaderIntervals`, `ClearUploaderRanges`, `UnregisterUploader` | `set_uploader_intervals` and the clear functions |
| `FindBlocks`, `FindBlocksLinear` | `find_blocks` over `select_blocks` and `linear_select_blocks` |
| `FindRange`, `FindNoRange` | `find_range` (2545): clusters of adjacent ranges, `merge_ranges`, `split_range`; or `Not_found` |
| `Received` | `received` (2778): data against the ranges of the uploader |
| `VerifyChunk`, `PropagateChunk` | a chunk is verified or fails; a chunk is completed by a copy |
| `Merge` (`SpecMerge`) | `merge` with `split_blocks` (640) and `cut_ranges_after` (419) |

`select_blocks` weighs blocks with random numbers; the model lets it choose any
block it may offer.  `file_state` is left out: it only decides whether calls do
anything.  Uploaders share one chunk size.

`ranges` checks a file of four bytes in blocks [0,3) and [3,4) with two
uploaders, one that has everything, one that has [1,3) only, ranges of at most
two bytes and one failing chunk.  So a block takes two ranges, a range may be
shared, cut at either end and merged again, a block may fail and be started
anew while its old object is held.  `ranges_merge` uses six bytes and cuts of
three, so that a hole lies across the cut.  `BlockInvariant` joins the order of
the ranges (`RangesOrdered`) and the two counters of a block (`RemainingAgrees`,
`UnselectedAgrees`).

`UnselectedAgrees` holds of this instance and not of every one: when `find_range`
splits a range that another uploader has selected, nobody has the right half and it
is not given back to `block_unselected_remaining`.  That happens when networks with
different range sizes share a swarmer (TLC shows it with sizes 1 and 2), and when the
interval a second uploader has ends inside the selected range: if it offers [0,1)
only, in place of [1,3), it takes the [0,2) of the first and leaves [1,2) uncounted
(TLC shows it with `Span(0, 1)` in `MCOffers`).  `find_range` logs the negative counter
that may follow (2685); it only ranks blocks.  The two causes are the hypotheses of
the theorem, `SameSizes` and `WholeOffers` (section 11).  The second one holds of all
the networks in the tree: they declare a bitmap of chunks (`bTClients.ml:775`,
`donkeyOneFile.ml:211`), nothing (`bTClients.ml:755`) or the whole file
(`fileTPClients.ml:277`, `gnutellaClients.ml:479`).  The first one holds of a file
that is downloaded through networks with one range size.

## 5. HashQueue

`daemon` is the state of the event loop: the fifo of `commonHasher` and its
current job, what `commonUploads` keeps per file (the stack of identifiers to
compute, those it has), and the queues of `donkeyShare` and `dcShared`.  `done`
is the flag the thread sets; `gone` is the disk's.  A job carries what its OCaml
closure captured.  A hash is the piece of the file it is computed from, so a
list of hashes is right when its pieces follow each other to the end of the
file.

| Action | Code |
|---|---|
| `ScanDirectory` | `shared_scan_directory` and the `op_network_share` of donkey, Direct Connect, Gnutella and G2 |
| `SharedFilesTimer` | `shared_files_timer` and `start_job_for` of `commonUploads` |
| `DonkeyTimer`, `DcTimer` | `check_shared_files`, `dc_check_hashed_files` |
| `HasherTimer` | the timer of `commonHasher`: the last job's handler, then the next job |
| `HasherThread` | `hasher_thread` of `commonHasher_c.c` |
| `Vanish` | a shared file is deleted outside the program |

`hash_queue` shares two directories of one file each, which scans find in either
order and again at any time.  One file is a single short piece; the other is
exactly one MD4 block, so that donkey hashes an empty second chunk, and two
tiger pieces, so that a handler continues while other clients' jobs are in the
fifo.  Gnutella asks for three identifiers and G2 for four, so one file
is asked twice for the same identifier; A BITPRINT is asked for before its parts, since the stack
serves the last request first (`AsksAssumption`).  `MaxShares` = 1 lets one scan ask,
after which the limit holds.  `MaxGone` = 1 lets a file vanish while it is queued, while its job
waits or runs, or between its pieces.  `HashedOnce` says that no client has two
jobs and no file is queued twice, `HashesCoverFile` that hashes cover the files in
order, `NoAskForgotten` that no request is lost, and `HashingEnds` that, when no
file vanishes, everything is hashed and answered.  `HasherThread` is the service
that section 6 shows the thread to be.

Fairness: the timers run every 0.1 to 5 seconds for as long as the daemon lives,
scans are repeated by `share_scan_interval`, and the thread wakes up by itself
(`pthread_cond_timedwait`) and ends its computation; all are weakly fair.

A limit worth knowing: a job whose file cannot be opened is dropped and its handler
never called, so its client stays busy, and computes nothing more until the
daemon restarts.  That is why `HashedOnce` asks a busy client for its job, and
`HashingEnds` holds, only as long as no file vanishes.

Left out: files that change while they are hashed, the MD5EXT (no network asks
for it), files unshared by the user, and the hashes saved over a restart.

## 6. HashingThread

The main program and the thread share `job_*`, `job_result` and `job_done`
without a lock; the mutex and the condition only wake the thread.  A digest is
the number of bytes that went into it and whether it was computed from its own
data alone (`clean`): MD4, MD5 and SHA1 have their context on the stack, Tiger
copies each node of its tree to a static buffer of `utils/lib/tiger.c`.

| Action | Code |
|---|---|
| `Deliver`, `TakeJob`, `NoTake` | the timer of `commonHasher.ml` |
| `WriteJob`, `CreateThread`, `Signal` | `ml_job_start` |
| `Lock`, `Wait`, `WakeSignalled`, `WakeTimeout`, `Look` | the loop of `hasher_thread` around `pthread_cond_timedwait` |
| `Read`, `ReadFails`, `Fill`, `Transform`, `Store`, `Done` | `HASH_NAME##_unsafe64_fd_direct` of a method, or `tiger_tree_fd`; `job_result` and `job_done` |
| `MainFill`, `MainTransform` | the main program verifies a chunk by its Tiger tree |
| `Shrink` | somebody else makes the file shorter |

`hashing_thread` has a Tiger job and one of another method, of two read units
each, so that a read may be short and a node of the one side fall between two of
the other (2 722 states).  `NoRace` says that what is shared without a lock is
never written by one side while the other uses it; `ImplementsService` that
through short reads, lost signals, time-outs and shrinking files the thread is
`HashService`: one job at a time, and the handler gets the digest of its own
piece (for Tiger only as long as the main program hashes no trees: finding
`tiger_shared`).  `JobsHandled`: no job stays for ever, unless the process dies,
which it may: reading past the end of a file raises an OCaml exception in a
thread that is not OCaml's.

Fairness: the thread and the timer are scheduled (weak); the main program gets
the mutex, and the timer finds `job_done`, again and again (strong: the mutex is
free for ten seconds at a time).

## 7. UploadSlots

`client` holds, per client, whether it is connected, its slot
(`impl_client_slot`), the file it asked for (`impl_client_upload`), whether it
received anything in this session, and its upload (`client_upload`): file,
number of chunks still to send, `up_finish`, `up_waiting`.  `sched` holds
`pending_slots_map`, the fifo `upload_clients`, `has_upload` (minutes for which
uploads are disabled), `upload_credit` and the option `dynamic_slots`.  `shared`
is the set of shared files.

| Action | Code |
|---|---|
| `Connect`, `Disconnect` | `init_client`, `disconnect_client` of `donkeyClient.ml` |
| `QueryFile`, `JoinQueue`, `ReleaseSlot` | `QueryFileReq`, `JoinQueueReq` (`add_pending_slot`), `ReleaseSlotReq` |
| `QueryBloc`, `QueryBlocRevoked` | `QueryBlocReq`: chunks are queued, or the slot is revoked |
| `NextUploads` | one turn of `next_uploads`, with `upload_to_client` and `send_client_block` |
| `RefillUploadSlots` | `refill_upload_slots`, every second |
| `MinuteTimer` | `upload_credit_timer` and `clear_upload_slots` |
| `Nu` | the command `nu`: disable uploads, or enable them again |
| `UnshareFile` | `unshare_file` |

Bytes are left out: a turn sends any number of the chunks to their end, or none.
A call of `next_uploads` makes several turns and nothing else runs between them;
the model lets other handlers in, which allows more.  In `dynamic_refill_upload_slots`
the estimates of the link and the counters built on them decide how many slots
are opened; the model opens any number within the limit.  The handshake comes
first, since a client's state is `Connected` only after its first message.  The
`WRITE_DONE` handler of `init_client` queues a client that has chunks and does
not wait; `NoLostUpload` shows that there is none, so it is not an action.

`upload_slots` has three clients, one of them a friend, a small file and a file in a
directory with a slot of its own, and one normal slot (55 312 states).  The friend may
ask for either file and so get each kind of slot; the others ask for the small one, and
with it the small files' slot or the normal one.  The constants `Queries` and `Asks`
bound the files a client asks for, and for chunks of: the third client only competes for
slots.  There is no release file: the code treats this slot
like the friends' one.  One chunk ahead, sent in one or more turns, makes an
upload end and start again; the fifo has two places, so that a client may be in
it twice (it may: a slot lost and given again leaves the old entry, which costs it an
empty turn).  `MinSlots` is 0, since with 1 no slot would ever be opened beyond
it.  Only the small file may be unshared.  `upload_complete_chunks` is set: it is
the case in which the end of a chunk ends the slot.

`SlotsConsistent` joins three facts: who has a slot is connected and does not wait
for one, and nobody downloads without (`SlotsOwned`), slots stay within their limits
(`SlotsLimited`), and while uploads are disabled nobody downloads
(`DisabledMeansIdle`).  `NoLostUpload`, `PendingGetsSlot` and `UploadStarts` say
that nobody is forgotten.

Fairness: `next_uploads` is called whenever there is bandwidth (weakly fair).
That a client picked at random is any given one again and again
(`PickedForSlot`) is what randomness means; that its socket takes data when it is served
(`Served`), and that a slot ends while others wait (`SlotEnds`, by
`upload_lifetime`, `upload_timeout` or disconnection), are assumptions on peers
which the timeouts enforce.  `PendingGetsSlot` further assumes static slots, that
uploads are not disabled for ever again, and that reserved slots are in the end not
in use.  The code does not guarantee the last one: `static_refill_upload_slots` counts
those who hold a reserved slot too (890), so two clients that take turns in the
friends' and the small files' slot keep `max_upload_slots` = 1 used up, no normal slot
is opened, and a third client waits for ever while everything that is fair happens.
Without this premise TLC finds that behaviour in this instance.

## 8. EventLoop

`task` and the variables beside it are the records of type `t` of
`basicSocket.ml`; `phase`, `todo`, `turn`, `checked` say where the loop is, `call`
which code of the program runs.  A deadline is not a number: it is unset, `fresh`
(set since the clock was read), `later` or `past`, which is all that the
comparisons tell.  The kernel is the set of open descriptors and what each is
ready for; it gives any free number to a new socket.

| Action | Code |
|---|---|
| `Event`, `NextTask`, `EndTasks` | `exec_tasks`: four tests per socket, each may call a handler |
| `StartTimers`, `Ring`, `EndTimers` | `exec_timers` and the handler of `add_session_timer` |
| `TellClosed`, `Iterate` | the handlers of `closed_tasks`; `iter_timer`, `iter_task`: the list for the next poll |
| `Poll`, `PollFails` | `ml_select` with `try_poll`: flags set, or reset when a signal interrupts it |
| `Close`, `Create`, `Must`, `Consume`, `Return` | what a handler may do, in any number and order, before it returns or raises |
| `Arrive`, `Pass`, `PassTimer` | data arrive, deadlines pass |

`event_loop` has two sockets, two descriptors, one side (reading), one time-out and
one timer (74 307 states): a handler can close the other socket, whose event has
been fetched already, and open one that gets its number, in one round.
`FdsOwned`: an open socket owns its descriptor alone, and none leaks;
`ReportsOnce`: a report of poll is delivered at most once, to the socket it was
made for, and only while it is open; `NoStarvation`: ready sockets and timers are
called again and again; `SilenceTimesOut`: a silent socket is told.

Fairness: handlers return; signals do not interrupt every poll; deadlines pass.
`NoStarvation` and `SilenceTimesOut` assume `Ends`: the handler of a closed socket
may open and close another one, and if all did so for ever the loop would not
come back to poll.

Left out: `try_select` (the build uses poll), the lifetime of a socket (nothing
sets it anew, and select may sleep over it), one-shot and session timers, and the
DNS thread (`stubs_c.c` 815-905), whose handover is a twin of section 6.

## 9. PortMapping

`g_maps` and `g_unmaps` are arrays of entries (`SlotType`) with the states of both
protocols.  The program searches them without `g_mutex` and writes them with it,
so a call is a search (`AddItem`, `RemoveItem`, `ClearSearch`) and a write
(`AddWrite`, `MoveWrite`, `PutWrite`, `ClearMove`) with anything in between.  The
thread looks for an entry that is due (`FindUnmap`, `FindMap`) and visits it in a
critical section (`PulseUnmaps`, `PulseMaps`), which is a row of stages, one per
`if` of `natpmpPulse` and `upnpPulse`.

| Action | Code |
|---|---|
| `AddItem`, `AddWrite` | `maps_add_item` |
| `RemoveItem`, `MoveWrite`, `PutWrite` | `maps_remove_item`, `ml_upnpRemoveMap` |
| `RemoveAllMaps`, `ClearSearch`, `ClearMove`, `ClearDone` | `ml_upnpRemoveAllMaps` |
| `Start`, `StartSet` | `upnp_thread_start`: the thread exists before `g_running` is set |
| `Stop`, `StopSeen`, `StopTimeout`, `Cancelled` | `upnp_thread_stop`: ask, wait, cancel |
| `Enter`, `Loop`, `FindUnmap`, `NoMoreUnmaps`, `FindMap`, `NoMoreMaps`, `PulseUnmaps`, `PulseMaps`, `Leave` | `upnpNatpmpThread` |

The router is part of the model: the protocols it speaks (`speaks`), its tables, and
what it may do with a request whose answer is lost.  It may also deny or fail to
delete a mapping, which the code does not look at, or make one and fail to say so:
such a mapping is `disowned` and nobody's fault.

A thread that `upnp_thread_stop` cancels dies in a call of the network, and a visit makes
many: `Cut` is the set of what it may leave.  It may die before it changed anything, in
any request or read of `natpmpPulse` (`NatInterrupted`: the router has heard of the request
or not, and `libnatpmp` may have sent it again), and after all that `natpmpPulse` did, in
`upnpDiscover`, the port check, `UPNP_DeletePortMapping` or `UPNP_AddPortMapping`
(`UpnpInterrupted`).  The mutex it leaves locked is destroyed by the stop and made anew by
the next start, so the entries go on as they are.

`port_mapping` has one slot, one port with an external number of its own, one
thread at a time, one retry, and a router that speaks UPnP or NAT-PMP (305 942
states).  One slot is the hardest: it is full at once and used again and again;
a full array also makes the searches fail.  `MappingsKnown`: no move, visit,
reuse of a slot or cancellation makes the program forget a mapping that the
router has, with one exception, `forgotten`: the mapping of an entry that line 824
zeroes while NAT-PMP is in ERR.  TLC finds that this happens (`forgotten = {}` is
violated): NAT-PMP is moved on by two visits whose threads are cancelled in
`upnpDiscover`, the second after the request to map; the port is removed; the answer is
given up, so NAT-PMP is ERR and UPnP still DISCOVER, and the larger of the two statuses
(`getStatus`, 453) is UNMAPPED.  The property says that this is the only way.  `UnmapsDrain`: a removed port leaves `g_unmaps`, unless neither
protocol works.  `NegotiationEnds`: a port asked for comes to a result with both
protocols.

Fairness: the thread is scheduled (weak), and every entry becomes due again
(strong).

## 10. Findings

Each violation run states something the source says and shows a behaviour of
the code that differs.

| Run | The source says | The code |
|---|---|---|
| `recheck_assert` | `State_complete <=> CompletedBlock` (265), `VerifiedBlock -> assert false` (1309) | `verify_all_chunks` retags verified blocks in the bitmap only; a recheck that finds damage raises the assertion |
| `ranges_merge` | `block_remaining` is the sum of the ranges (257) | `split_blocks` subtracts the ranges from the block size (771) |
| `tiger_shared` | "Use a different buffer to avoid sharing it between the two threads !!" (`commonHasher_c.c:48`) | `tiger_hash` copies every node into one static buffer (`tiger.c:776`), and both the hashing thread and the main program call it |

Seen while modelling, with no run of their own:

- A frontend merged after blocks were verified keeps its chunks missing: the
  secondaries are tagged only when the primary is verified (1091-1095, 802).
- A merge is denied while a frontend is in use, but only `s_nuploading` is asked,
  which is zero while ranges are still held (3157, 3194).
- `merge` accepts a second file that has completed chunks, and `associate` voids its
  bitmap (802) but not `t_ncomplete_chunks` and `t_nverified_chunks`, which the
  comment at 271-277 says count that bitmap.  With `Solo` other than zero,
  `CountersAgree` is false after `Merge`; the runs and its theorem take zero.
- Clients that take turns in reserved slots keep the others waiting
  (`commonUploads.ml:890`, section 7).
- `dcShared.ml:296`: the handler of a file's last piece restores a queue captured
  before, so files shared meanwhile are not hashed.
- Event loop: the older `try_select` leaves stale flags when it is interrupted;
  `pfds` and `fdlist` are used after a blocking section without being registered
  with the collector; a descriptor that is closed behind its socket (POLLNVAL)
  makes the loop spin; RTIMEOUT is tested before CAN_READ, so after a long pause
  a socket times out with its data there; a clock set back stalls timers; a
  socket's lifetime is not among the deadlines of the sleep.
- Port forwarding: the thread is created (906) before `g_running` is set (914), and
  leaves at once if it is fast; an entry whose NAT-PMP request was given up may be
  zeroed while the router has its mapping (824, section 9); `ml_upnpGetMaps` skips slot 0 (1110); `Val_int`
  stands for `Int_val` (979, 1041), so that 0 never means the default; where a
  router speaks both protocols, the first to give a port back clears `extPort`, and
  the other one's mapping stays; an entry with both states ERR keeps its slot of
  `g_unmaps`; UDP ports are requested as TCP (539, 581); the result of
  `UPNP_DeletePortMapping` is not used (698); NAT-PMP overwrites `extPort` with
  the private port, so an entry asked for with another external port no longer
  matches and cannot be removed alone; a thread that survived its cancellation
  may use the mutexes that `upnp_thread_stop` destroys (951-952).

## 11. Proofs

`SwarmerVerification_proofs` proves, for any set of blocks, sizes, chunkings,
frontends, verifiers and bounds that satisfy the named assumptions of
`SwarmerVerification` (finite blocks numbered by naturals, sizes at least one,
the primary not a secondary, chunk numbers natural):

| Theorem | States |
|---|---|
| `Invariance` | `Spec => []Inv` |
| `TypeCorrectness` | `TypeOK` |
| `BitmapCorrectness` | `s_verified_bitmap` mirrors `s_blocks` (`BitmapFollowsBlocks`) |
| `PrimaryCorrectness` | `PrimaryAgrees` |
| `SecondaryCorrectness` | `SecondaryBehindPrimary` |
| `VerifiedCorrectness` | `VerifiedIsGood`, restarts included |
| `DownloadedCorrectness` | `DownloadedFileIsGood`, from whichever save the daemon restarted |
| `AssertionsHold` | `NoAssertFails`, unless a primary is forced to verify |
| `NoGoodDataLost` | `OnlyBadDataIsLost` |
| `CertifiedByHash` | `SpecRecheck => VerifiedByHash`, where the primary verifies by hash |
| `CountersCorrectness` | `CountersAgree`, where no secondary had completed a chunk before its merge |

None of these is inductive alone.  `Inv` joins six parts.  `Good(swarmer)` says
that types hold, bitmap and blocks mirror each other, the primary's bitmap
follows its blocks, secondaries (merged or not) are not ahead of the blocks, and
a primary without verification stays alone: `set_completed_block` on a verified
block, or a secondary that has more than the primary, would break the others.
`GoodImage(saved)` and `SavedStays` say that files.ini is consistent and that
what it calls verified still is: without rechecks nothing takes a verified block
back, so a restart from an old save invents no verified chunk.  `Trusted` says
that verified blocks hold right bytes and that no assertion has failed; it needs
`SavedStays` at a restart and `Good` when a chunk fails (a secondary's complete
chunk lies over verified blocks, so it cannot fail, and so the assertion at 1288
is not reached).  `DoneStays` says that a downloaded file has all blocks verified,
and that files.ini calls a file downloaded only with a bitmap that is verified
throughout, of a file that still is.  `TypesOK` types the rest.
`NoGoodDataLost` needs little of it: only `set_frontend_state_missing` makes a block
miss more bytes (`MissingLoses`; the other internal functions are `Keeps`), and
`verify_chunk` calls it for complete chunks that failed (`VerifyLoses`).

`CertifiedByHash` is about `SpecRecheck`, where `BitmapFollowsBlocks` is false and
`Inv` with it.  It needs neither: `Formed` keeps what the functions read in its
domain and the primary's verifier a hash, and `Certifies(s, r)` says that a block
which `r` calls verified was so in `s` or is right on the disk.  Only
`set_frontend_state_verified` of the primary adds verified blocks, and there is a hash
before each call of it, or a bitmap that called the chunk verified (`Hashed`).

`CountersCorrectness` has an invariant of its own, `Tallied`: the counters of every
frontend, merged or not, count its bitmap (`CountedIn`); the downloaded size is
the sum of what the blocks hold (`Weighed`); empty blocks miss everything and full
ones nothing (`Filled`), since a failed chunk subtracts the sizes of its blocks and a
completed one adds what they miss; and frontends that are not merged have nothing
(`Apart`), since `merge` forgets a bitmap and not its counters.  Each internal
function has a lemma `Tally...`.  Sums are folds in an order `CHOOSE` picks; `SumStep`
shows that the order does not matter and `SumChange` what a change of some terms
adds.

The lemmas follow the code's layers.  `MissingFacts` to `VerifiedBlockFacts` say
what each internal function does to each field; `Good...` lemmas say that the
function keeps `Good`, adds no wrong verified block and fails no assertion;
`...Step` lemmas lift them to the actions; `NextInv` joins the actions.

`Refinement` (`ImplementsLedger`) is for a primary that
starts with a hash of its chunks, of its file, or with hashes that arrive later
(`HashedSchemes`; a primary that does not verify, or is forced to, certifies
without looking).  `Kind` is the status the mapping gives a chunk.  The `...Maps`
lemmas about the ledger say which changes of kinds, bytes and file state are which
of its steps; the `...Kinds` lemmas say what the internal functions do to kinds; then
every handler is a step or a stutter.  `Inv` is needed for each: `set_completed_block`
takes no verified chunk back because bitmap and blocks mirror each other, bytes of a
verified chunk stay right when they are copied again because they were right, and a
restart is a `Reload` because of `SavedStays` and `DoneStays`.

`HashQueue_proofs`, for any directories, files, sizes and pieces, and any asks where a
BITPRINT comes before its parts (`AsksAssumption`; `gnutellaInteractive.ml:155-176` and
`g2Interactive.mlt` ask so): `TypeCorrectness`, `CoverageCorrectness`
(`HashesCoverFile`), `NoAskIsForgotten` (`NoAskForgotten`), `OneJobPerClient`
(`HashedOnce`).  A job carries what its closure captured, and its handler, which runs
many steps later, writes that back.  So the invariant says what holds of every job
of the fifo: there is one for each client (`OneEach`), and its captured file is the
client's, its hashes so far end where its piece begins, and the queue it will
restore has no file twice and none that is hashed (`NetJob`, `RestOK`).  `UploadsInv`
adds that the TIGER and SHA1 a BITPRINT is made of are known, running or ahead of it
(`MadeReady`).

`HashingThread_proofs`, for any jobs, lengths and choice of Tiger jobs:
`TypeCorrectness`, `RaceFreedom` (`NoRace`), `DigestCorrectness` (a handler is
called with the digest of all of its piece), `Refinement` (`ImplementsService`,
each step maps to a step of `HashService` or a stutter).  `NoRace` alone is not
inductive: the invariant adds where each side can be in the handshake
(`Handshake`: the main program starts a job only when `job_done`, the thread works
only while the job is the one handed over), how far a digest has come (`Progress`,
bytes read plus bytes left is the length), when it is clean, and that a result, and
then what was handled, is right.

`EventLoop_proofs`, for any sockets, descriptors, sides and timers:
`TypeCorrectness`, `Ownership` (`FdsOwned`), `Delivery` (`ReportsOnce`).  The
invariant joins `Owned` (`FdsOwned`, and the closed sockets that wait for their
handler wait once) and `Reports` (each flag of an open socket whose check is still
ahead in this round is a report that nobody has seen).

`PortMapping_proofs`, for any number of slots, ports and threads:
`TypeCorrectness` and `MappingsNeverLost` (`MappingsKnown`).  The invariant says of
every entry that its two states fit each other where the router speaks one protocol
only (`EntryOK`: an entry that has a mapping has an external port; without UPnP, one
whose UPnP state is IDLE has never been enabled), that a slot found by a
search is still fit when it is written (`MainOK`: the reason why the unlocked
searches are harmless), and that every mapping has its entry (`UpnpKnown`,
`NatKnown`).  A visit is proved stage by stage: `Sound` states what holds of an
entry and the router's tables between two stages, and each stage has its lemma.  It
holds between any two, so it also holds of what a thread leaves that dies there
(`NatInterruptedSound`, `UpnpInterruptedSound`).  The entry that line 824 zeroes owns no
mapping but that of `forgotten`.

`UploadSlots_proofs`, for any finite set of clients and any files, directories and
limits: `TypeCorrectness`, `SlotsStayConsistent` (`SlotsConsistent`), `NoUploadIsLost`
(`NoLostUpload`).  The three need each other: the limit of normal slots holds since a
client picked for a slot had none (`SlotsOwned`), disabling uploads leaves nobody
downloading since only those with a slot do, and a client that asks for a block of
another file keeps its place in the fifo.  `Credit` strengthens them: `has_upload +
upload_credit` never exceeds `MaxCredit`, without which the command nu could leave the
range.  The parts are stated for any pair of clients and scheduler (`Good(cl, sc)`),
because `ReleaseSlot` and the timers change the clients first and open slots then.

`SwarmerRanges_proofs`, for any file, blocks, uploaders, range sizes, offers and
identities:

| Theorem | States |
|---|---|
| `Invariance` | `Spec => []IInv` |
| `HolesCorrect` | `HolesAreMissing` |
| `ReferencesCorrect` | `ReferencesAgree` |
| `RangesStayOrdered` | `RangesOrdered`, the first part of `BlockInvariant` |
| `HeldRangesCorrect` | `HeldRangesAreLive`, where all networks ask for ranges of one size (`SameSizes`) |

`HolesAreMissing` is a statement about the blocks as they are, and is not inductive:
an uploader may send data for a range it selected before the block was completed by
other means, failed and was started again.  `IInv` says of every object of the heap,
in use or not, what makes this harmless.  A partial block has an object that knows its
place (`Owned`); a list belongs to one partial block, and its ranges to that object,
inside it, in order and apart (`Linked`); a byte is on the disk or missing (`OnDisk`);
a range that is held and open is in the list of its object (`HeldLive`: a range that
was closed under its holder takes no data), and selected entries belong to some
block (`EntriesLive`).  `Counted` and `Enlisted` are the two reference counts, with
what keeps them exact: nobody holds a range or has selected a block twice, so
releasing all of them takes one from each count.

Operators that change the heap have a lemma each that says field by field what
they do (`...Fields`, with an operator for the conclusion: `StartedBy`, `FilledBy`,
`Merges`, `SplitBy`) and one that says what they keep (`...Sound`).  `merge_ranges` and
`split_range` arrange the list of one object anew over the same bytes; `Reshapes` says
so, and `ReshapedSound` proves from it alone that the invariant is kept.  The range
that survives a merge is the one that somebody may hold; those it swallows are
nobody's (`Joins` asks for it), so no holder loses a range.  `Short` (a held range is
no longer than what its uploader asks for) needs `SameSizes`: where others have
selected every open range, `find_range` takes one of theirs and cuts it at the end of
the last block it looked at, which may lie before the range, so the range stays as
long as its first holder asked for.

`SwarmerCounters_proofs` goes on with the two counters of bytes:

| Theorem | States |
|---|---|
| `RemainingCorrect` | `RemainingAgrees` of `Spec`, which has no `Merge`: with it, `ranges_merge` refutes the property |
| `BlockInvariantCorrect` | `BlockInvariant`, under `SameSizes` and `WholeOffers` |
| `TypesCorrect` | `TypeOK`, under the same two |

A counter is right when it is the number of bytes in the list of its object that are
in ranges of some set (`Tally`): all of them for `block_remaining`, those nobody
downloads for `block_unselected_remaining`.  `Tallies(s, t)` says that each counter is
right in `t` if it was in `s`; every helper has a lemma that concludes it, from the field
lemmas and the invariants of both swarmers, and the actions chain them.  The code
adds and subtracts sizes of ranges, the model sizes of unions, and `Linked` is what
makes them one: ranges of a list are apart, so a set of bytes splits by its ranges.
`AskedUncut` is where the two hypotheses are used: a range that others download is no
longer than `range_size` (`Short`), and what the uploader has selected ends where a
block ends (`Ended`, an invariant by `WholeOffers`), and no block ends inside a range
(`NoEndInside`), so `split_range` leaves it whole.  `TypesCorrect` adds that the bytes on
disk and in ranges are bytes of the file (`Bounded`, `PartInside`).

Where a proof needs induction over data (sums over blocks, filtered queues), it is
an induction on the number of elements: a set of naturals that is not empty has a
least element (`LeastElement`, from the library's well-foundedness of `<`), so a
set `P` with 0 and every successor is all of `Nat` (`Induction`).

Only model-checked: liveness under fairness, and the violations that the three
findings quote.

## 12. Not modelled

The choice of blocks by rank, `s_availability`, and the renumbering of
`up_complete_blocks` at a merge; the assertion at `commonSwarming.ml:1286` (a chunk
that fails was complete); a swarmer of a secondary before its merge;
failures of the copy in `propagate_chunk` and of reads while hashing or
uploading; the BitTorrent and Direct Connect clients of `upload_clients`; the DNS
thread; the buffers, rates and connection tokens of `tcpBufferedSocket.ml`; every
component of `PROJECT.json` with status `not_modelled`, with its reason there.

The logic of the program is OCaml.  The C and C++ of the tree are 46 files of
38 700 lines, of which 25 000 are `CryptoPP` and the tables `enc_type_*.c`
(generated or vendored), and most of the rest hash functions, character sets and
bindings: numeric code without state of its own.  The C with a protocol of its
own, the hashing and the port forwarding threads and the poll of the event loop, is
modelled; the DNS thread is the one that is left.

## 13. Running

    tlc -workers 2 -config Verification.cfg MCSwarmerVerification.tla
    tlapm PortMapping_proofs.tla

`PROJECT.json` lists the runs with their modules and configurations.  Passing
runs take between five seconds and three minutes.  Deadlock is checked in
all but the `verification` and `hashing_thread` runs, where the system may stop: a
finished download, or one at a bound, has nothing left to do, and a process that
has died does nothing.
