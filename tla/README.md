# A TLA+ model of RetroShare's file transfer, web API and daemon login

RetroShare is a friend-to-friend network: a C++ library (`libretroshare`) with file transfer, anonymous
tunnels, chat, mail and forums over authenticated links, and a web API (`libresapi`) with an interface
that runs in a browser. This directory holds TLA+ modules that model its file transfer, the way the web
interface is kept up to date, and the start-up and login of the daemon through the API; configurations
that check them with TLC, and theorems about them checked by TLAPS. `PROJECT.json` lists components, runs,
mutants, findings, hazards and theorems, and maps each definition to the source lines it models. Paths
below are relative to `src/libretroshare/src/`, those of the API (`api/`, `webui/`) to `src/libresapi/src/`.

## 1. Inventory

| Component | State | Operations | What is hard | What makes it correct |
|---|---|---|---|---|
| Chunk map, `ft/ftchunkmap` | state of each chunk, feed of each source, pending slices and remaining bytes of each active chunk, totals, flag, checking queue, sources' maps | getDataChunk, dataReceived, setChunkCheckingResult, removeInactiveChunks, forceCheck, setPeerAvailabilityMap, getChunksToCheck | sources share chunks; unsigned counters changed in several places; cached flag | no byte asked twice, exact counts, true flag, verified chunks stay verified |
| File creator, `ft/ftfilecreator` | pending pieces, counters shared by split pieces, slices per source, partial file | getMissingChunk, addFileData, removeInactiveChunks, verifyChunk, forceCheck | lost, repeated, reordered, late packets; data is written before it is matched; time-outs; restart with an old map | pieces stay apart whatever arrives; only written data is checked; downloads end |
| Transfer module, `ft/fttransfermodule` | status, flag, hash thread, rates of the sources | tick, queryInactive, checkFile, forceCheck, recvFileData | four threads; a hash thread without mutex | only the right file is declared complete |
| Data multiplexer, `ft/ftdatamultiplex` | clients, servers, request queue, checksum cache and queues | recvSingleChunkCRC, dispatchReceivedChunkCheckSum, handlePendingCrcRequests, handleRecvData, handleRecvChunkCrcRequest, deleteUnusedServers | pointers used after unlock; values computed outside the mutex | no check is lost; no deleted object is used |
| Controller, `ft/ftcontroller` | downloads, queue, pending requests, completed files | FileRequest, FileCancel, FileControl, data_tick, completeFile, queue moves, saveList, loadList | user calls against the tick; positions in the queue | a file is in one table; positions are indices; what is saved can be resumed; slots go to the first files |
| File server, extra list, provider, `ft/ftserver` ... | packets; files hashed on request; reading positions | dispatch, time-outs | - | - |
| Turtle router, `turtle/` | search requests, tunnel requests, tunnels, virtual peers | handleSearchRequest, handleTunnelRequest, handleTunnelResult, autoWash | forwarding loops, time-outs, bounces | a tunnel is a path; no request bounces for ever |
| Global router, `grouter/` | pending messages, routing matrix, tunnels | handleLowLevel..., routePendingObjects | store and forward, receipts, duplicates | a message is delivered or kept, receipts match |
| Chat, `chat/` | lobbies, participants, recent message ids, invitations | bounceLobbyObject, keep-alive, join, leave | flooding, duplicates, lost peers | a message is shown at most once and reaches the lobby |
| TCP over UDP, `tcponudp/` | two packet queues, sequence numbers, timers, state | incoming_*, send, closing | loss, reordering, wrap-around of sequence numbers | the stream arrives in order |
| GXS, `gxs/` | groups, messages, transactions, update time stamps | handleRecvSyncGroup, processTransactions, locked_genReqMsgTransaction | transactions with time-outs against changing friends | what is announced is eventually fetched, validated once |
| Connections, `pqi/` | links, retries, several connections to a friend | notifyEvent, connectattempt, reset, connect results | racing connection attempts | at most one active connection |
| State tokens, `api/StateTokenServer`, `api/ApiServer` | next token, valid tokens; one mutex for all requests | getNewToken, discardToken, replaceToken, handleWildcard | data and token are read and changed by several threads | a token that is valid belongs to data that are current |
| Web interface, `webui/RsApi.js`, `RsXHRConnection.js`, `gui.jsx` | listeners with their tokens, components with their data, requests on their way | request, register, unregister, tick, mount, unmount, answers | answers overtaken, lost, or late for a component that is gone | each component shows current data or knows it does not, and is then brought up to date |
| Friends list, `api/PeersHandler` | list of friends online at the last tick, token | handleWildcard, tick, notifyListChange | data belong to other threads and change before and after the token | (does not always hold, see section 4) |
| Control module, `api/RsControlModule`, `retroshare-nogui` | run state, account, password and the wish for one, token, exit flag; three mutexes | run, askForPassword, eight request handlers, shutdown | a thread that blocks for a password only a request can bring | every request is answered, passwords reach the login, the process ends when asked to |
| Others | services, keys, configuration, DHT, UPnP, serialisation, shared directories, user interfaces, plug-ins | | input and output, or wrappers of libraries | |

How the modelled parts interact. The controller's thread (`ftController::data_tick`, once a second) ticks
every transfer module under `ctrlMutex`. The module asks the file creator for missing pieces for each
source, sends the requests through the multiplexer, and hands the chunks that are completely received to the
multiplexer's checksum queue. Arriving data goes through a queue to the multiplexer's worker, which calls
the module, which writes into the creator. The file server's tick asks sources for checksums and gives the
answers to the creator. When every chunk is done a hash thread hashes the file; the module then tells the
controller, which moves the file to its destination and deletes module and creator. Locks of the file
transfer: `ctrlMutex` (controller), `tfMtx` (module), `dataMtx` (multiplexer), `ftcMutex` (creator and chunk
map), always taken in that order.

The web interface talks to `ApiServer`, which handles one request at a time under its mutex. An answer
carries data and the state token of the resource. A handler that changes a resource replaces the token;
`RsApi.js` asks every three seconds which of the tokens it holds are no longer valid, and the components
registered for those send their requests again. Before the login the only resource is `RsControlModule`.
Its own thread starts the library and blocks in `askForPassword`, called back by `PGPHandler` with
`pgphandlerMtx` held, until a request brings the password. The main thread waits for the exit flag.
Locks: `ApiServer::mMtx`, `mDataMtx` and `pgphandlerMtx`, not always taken in the same order.

The hazards of this code, with the line where each bites and the properties that cover it, are in
`PROJECT.json`.

## 2. Plan

Done, in this order: `ChunkMap`, its proofs, `FtFileCreator` (extends it), `FtTransferModule`
(extends that; composes creator, module, multiplexer, controller and hash thread for one download),
`FtController` (the download queue and the tables of many downloads) and its proofs; `AutoUpdate`, an
abstract specification, `RsApi`, which implements it, and the proof of that; `RsControlModule` and its
proofs; `FtDownload`, an abstract specification implemented by `FtFileCreator`; the proofs of
`FtFileCreator`, that refinement among them, and of `FtTransferModule`.

To do, most important first:

1. Proofs of what remains true when the user forces a check of a file that is not complete: the pieces and
   slices left behind, and the hash thread.
2. `FtProviders`: the table of file providers, its time-outs, the creator that is also a server.
3. The login page of the web interface (`LoginWidget2`), on top of `RsApi` and `RsControlModule`.
4. `TcpStream` (`tcponudp`), turtle tunnels, the global router, lobby flooding, connections, GXS
   synchronisation, each a module of its own.

## 3. Modules and their correspondence to the code

**ChunkMap** has one variable per member of class `ChunkMap` and one action per public operation that
changes it. `slices[o]` is the size of the slice with id `o` in `_slices_to_download[o / chunk]._slices`,
0 if there is none; `tracked` are the keys of `_slices_to_download`, which `operator[]` may create as a
side effect of looking. `getDataChunk` is the disjunction of the four ways to find a slice: the peer's own
feed, the first feed of another peer that is slow enough to be shared, a new chunk, and as a last resort the
last feed looked at. `CmSpec` puts the chunk map under its most general client: any id may be reported
received, any chunk checked with any result, at any time.

**FtFileCreator** adds `mChunks` (pieces), the counters the pieces of a slice share (`ref_cnt`), the slices
pending per peer, the partial file (`disk`: a hole, good or bad data at each offset), the saved map and the
network. Every operation holds `ftcMutex`, so each is one action. `addFileData` writes what lies before the
end of the file whatever it is and whoever waits for it, and only then looks for a piece, as the code does.
`locked_notifyReceived` follows the code: a piece that starts at the packet's offset, whose size is reduced
modulo `W64`, else the first that contains the packet and is split, else nothing. What may arrive is the
network's business: `coming` counts the packets that were asked for and are on their way, which survive
clean-ups and restarts of the creator, and with `Unasked = TRUE` any packet of any length may arrive at any
time, asked for or not. `Restart` is the end of the session at any moment and a new creator with the saved
map on the same partial file. `awaited` is an auxiliary variable: the bytes that were asked for and
not written since.

**FtTransferModule** adds the threads. The tick is cut where it takes or releases a mutex another thread
waits for; `pc` is its position, and determines which of `ctrlMutex` and `tfMtx` are free. `asking` is
the local variable of `queryInactive` that holds chunks between two mutexes; `worker` is the packet the
worker holds with its pointer to the module, after `dataMtx` was released; `serving` is the checksum computed
outside the mutex. The worker's packet is stored in whatever state the transfer is, while the file is hashed
or its hash was found right too; clean-up and re-asks do not look at what is on its way or in the worker's
hands; checksums come from anyone at any time, which is what `recvSingleChunkCRC` accepts.
`hash_thread` goes from started through hashing to a result that waits to be taken. `life` tells whether
module and creator exist. A checksum is modelled by the content it is the checksum of. Changes of sources'
maps and of the strategy, which the smaller modules have, are left out here.

**FtController** models the controller with several downloads. `queue` is `_queue`; `ctl[c]` holds the
state and the stored position of the file control `c`, and whether its creator is finished. A control is a
pair of hash and number, since the code can have two controls of one hash; `mDownloads` are those the map
leads to. `Checked` is the effect of `locked_checkQueueElement` on a set of positions; moves, swaps,
removals and changes of the size give the new vector and the positions the code checks after it.
`FileRequest` takes and releases `ctrlMutex`: `alreadyHaveFile`, `keepRequest` or `FileRequest`, and
`insertDownload` are the parts between; `handleAPendingRequest`, `insertDownload` and `restoreState` are
the same for a request of the controller's own thread. `data_tick` is a set of steps that each wait until
the one before is over (`TickIdle`); the loops of `checkDownloadQueue` hold `ctrlMutex` (`CtrlFree`).
`Restart` is the end of the program with what `saveList` writes, and `loadList`: it may come at any moment
no one holds `ctrlMutex`. What happens inside a transfer is `finish` and `forceCheck` only.

**FtDownload** is what a download promises for each byte: missing, requested, arrived (written since it was
asked for, but its slice is not complete), received or verified. The mapping in `FtFileCreator` (`LifeOf`)
reads this off the chunk map, the feeds, the slices and `awaited`. That every step of the creator is a step
of `FtDownload` says that a byte is asked for in one slice at a time; that whatever arrives, and whatever
splits and wraps the pieces of its slice went through, it counts as received only when it was written after
it was last asked for; and that it is checked, given up and asked again with its chunk. It does not say that
a byte that arrived is ever received: of a piece that wrapped it is not. `DeliverAll` is the arrival of the
last bytes of a file of one chunk, which is verified with it: `dataReceived` marks it done without a check.

**AutoUpdate** is what the web interface promises to a component that shows a resource
(`webui/README.md`, `api/README.md`): it knows whether what it shows is current, and if it is not, it is
brought up to date.

**RsApi** has the server's tokens and the browser's script. `requests` is the bag of requests for resources
on their way, sent or answered, delivered in any order or lost; `poll` is the one request for invalid
tokens, which is sent again when it is over. The browser runs one callback at a time, so `mount`,
`unmount`, `responseCallback`, `clientTick`, `received_tokenstates` and `received_error` are actions.
`changeControl` stands for every handler that changes data and token under one mutex: `RsControlModule`,
and the results of a search. `PeersHandler` is modelled apart, step by step: `acceptFriend`,
`notifyListChange` and `addLocation` are the other thread in `addFriend`; `readPeers` and
`getCurrentStateToken` the two parts of a request, with `ApiServer::mMtx` held between them (`handling`);
`Noticed` is what `std::equal` finds, any outcome when it reads past the end. The tokens of an answer to the
poll keep their places in the list that was sent, with those that are valid left out: only which tokens
there are, and how often, matters. `Known` and `Promise` are
the mapping to `AutoUpdate`.

**RsControlModule** has the position of each thread (`run`, `client`, `main`), the members of the class, and
who waits while holding `mDataMtx` or `pgphandlerMtx`; `ApiServer::mMtx` is held by the handler that is in
a place of `InHandler`. A step that needs a mutex for itself only is enabled when it is free. `initialise`
to `shutDown` are `run()`, cut where it waits or lets go of a mutex; a request is one step, or several when it
waits in `libretroshare`. `loadCertificates` and `decrypt` have the outcomes of `LockAndLoadCertificates`.
A password and an account are abstracted to whether they are set and known; `mStateToken` to a bit that
changes with each new token. `useBeforeInit` is the use of objects not yet made.

**ChunkMapProofs**, **FtFileCreatorProofs** (extends it), **FtTransferModuleProofs** (extends that),
**FtControllerProofs**, **RsApiProofs** and **RsControlModuleProofs** hold the theorems.

Abstractions. Time: a piece may be asked again, and any set of active chunks found inactive, at any moment;
what the code does depends on clocks and rates, the model may do all of it. A file that cannot be written is
a lost packet. Packets that begin at or behind the end of the file are left out: no source of the file has
such data. `getSourceChunksInfo` creates a missing record with default content, so a missing record is the
default record. Files have at least one byte. Written data survives the end of the program. `_received` is a
set: a repeated entry is the same as a repeated answer. In `FtTransferModule` the checks of one
`dispatchReceivedChunkCheckSum` are separate steps. The hash thread reads the file at its last step.

## 4. Runs

Passing:

| Run | Checks | Shows |
|---|---|---|
| chunkmap | TypeOK, RemainsExact, TotalExact, SlicesDisjoint, ActiveIsTracked, CompleteExact, DoneIsFinal | two sources share a file of two chunks; the books of the chunk map are exact under any client |
| creator | CreatorTypeOK, PiecesDisjoint, RefCountEnough, ReceivedIsWritten, KeepsBytes | any packet of one or two units at any time, slices of one and three units for two sources, right and wrong checksums, clean-up and restart: pieces never claim each other's bytes, even when one wraps, no slice is reported early, only written data is checked, and the creator implements `FtDownload` (88 764 states) |
| completes | NothingForgotten, RefCountExact, Completes | while nothing is given up and only what was asked for arrives, lost, reordered or twice: slices of three packets are split and put together exactly, and downloads complete (7 473 states) |
| transfer | TransferTypeOK, NoLostCheck | all threads, with any packets and checksums at any time, checksums of our own, checks that cannot open the file, clean-up, and checks forced by the user during a download or a hash: a chunk in checking drops out of the queues by a failed check only (2 480 238 states) |
| finishes | HashHasCreator, Finishes | wrong data any number of times, second answers after a chunk is verified or while the file is hashed, cancellation: the hash thread does not outlive the creator, and every transfer ends once the wrong data stops (101 139 states) |
| queue | ControllerTypeOK, PositionsExact, QueueIsLive, StateFollowsPosition | whatever users and ticks do to the queue, a control knows its index, no deleted control stays queued, and states follow positions except where the user or a restored state overrides them |
| webapi | FreshToken, KeepsPromise, RefreshesAll | two components of one resource, requests late, overtaken or lost: the token protocol implements `AutoUpdate`, and who is registered and knows to be outdated is brought up to date (41 098 states) |
| webapi_peers | TypeOK, OneListener, ListenersMounted | with the friends list, whose data change without its token: each mounted component is registered once at most, an unmounted one never (701 402 states) |
| control | TypeOK, PasswordIsThere, ApiNeverAsks, Announced, StuckForEver, AnsweredUnlessStuck, PasswordUsed, EndsUnlessStuck | two threads send any requests during start-up, login and shutdown: passwords are handed over, changes announced, and three circular waits are the only ways to hang (156 467 states) |

Violations, each a disagreement between the code and something it says (quoted in `PROJECT.json`):

| Run | Property | What happens |
|---|---|---|
| per_peer | PerPeerExact | clean-up takes one off the count of slices per source for each piece of a split slice; the unsigned count wraps, and the source is asked for no slice any more |
| stale_hash | MovedIsGood | after a forced check, the hash of an earlier state of the file vouches for the present one |
| login_deadlock | Answered | a request for the identities during a login waits for a mutex the login holds, with the one the login waits for: no request is answered again |

Further deviations show when constants of these runs are changed, or properties added to them:

- `MovedIsGood` fails without a forced check too: wrong data that arrives between the end of the hash and
  `completeFile` is written over the file (`ftfilecreator.cc:200`) and nobody looks again. It needs a second or unasked
  answer, all bytes being there by then (TLC finds it with `Finishes.cfg`).
- That a chunk that is done is good is false in several ways, and is no property here: a late or second
  packet is written over a verified chunk, and with `Serving = TRUE` a chunk may be compared with the
  checksum of itself (`ftdatamultiplex.cc:737`). What stands between either and a wrong file is the file's hash (`Finishes`).
- `Unasked = TRUE` or `CleanUps = TRUE` in `completes`, with `PacketSize = 2` and `Hints = {1, 3}` (with both
  FALSE, or with packets of one unit, they hold): `NothingForgotten` or `RefCountExact` fail. A chunk given up is
  asked for again in slices that may begin and end elsewhere; an answer for an old slice that is longer than
  the new piece at its offset makes the piece's size wrap, and a piece put at the offset of a wrapped one
  replaces it in `mChunks`: the counter keeps a piece too many, the slice is never reported, and the chunk
  waits until the next clean-up. The weaker `RefCountEnough` is what holds in general.
- `HashHasCreator` with `UserForceCheck = TRUE`: a forced check makes a finished file cancellable while it
  is hashed.
- `TotalExact` with `UserForceCheck = TRUE`: `forceCheck` leaves the feeds and slices of active chunks in place.
- In `queue` a file that waited before a restart is put back to waiting although its slot is active:
  `restoreState` is therefore excepted in `StateFollowsPosition`.
- A friends list in place of the control data in `webapi`: neither `FreshToken` nor `KeepsPromise` can be
  stated of it. A friend who goes offline is not noticed when the others online are the beginning of the
  old list (`PeersHandler.cpp:94`), a location added after the notification is not announced
  (`authgpg.cc:559`), and a change between the reading of the list and of the token is lost
  (`PeersHandler.cpp:210`).

Some states the models reach are worth knowing though no property speaks of them. The worker may hold the
pointer of a module that was deleted since it was found (`worker`). A start by the user makes a file
download beyond the slots until the queue changes around it. Two requests for one hash leave a control in
the queue that the map no longer leads to: it keeps its place, and can neither be moved nor cancelled. A
component of the web interface whose first request fails is never registered and waits until it is mounted
anew (`RsApi.js:16` passes on no error callback). Components that share a token send a request each for
every occurrence of it in an answer (`RsApi.js:65`). `import_pgp` and `create_location` before the library
is initialised use objects that do not exist (`useBeforeInit`). A login that fails is tried again at once
with the same account, `mLoadPeerId` being never reset, and may find the SSL password of the attempt before
still in memory (`rsinit.cc:696`). A login may take the password that `create_location` fixed for another
key. The process may end before the library has shut down (`endProcess`; the `join` is commented out).

Bounds. Files have two chunks (one in per_peer and stale_hash) of one to three units, which gives whole and
truncated last chunks, several slices per chunk and several packets per slice, so that slices are split more
than once; two sources where they can interfere, otherwise one. In `creator` a chunk is asked for in slices
of three units or of one, and packets have one or two, so that a packet can be longer than the piece it
hits, or lie across two. Where `Unasked` is TRUE the network needs no memory: `MaxCopies` is 0 and any
packet may arrive at any time. Elsewhere `MaxCopies` bounds the equal packets on their way: 2 where an
answer and its repetition matter; further ones are lost. `Refs` names as many counters as slices can be
pending. `W32` and `W64` are scaled so that they are larger than the file, and small enough for a wrap to be
seen. `MaxPerPeer` is 1, so that the limit is met, and 2 where one source is to have two slices, and in
`per_peer`, where the count exceeds the limit by wrapping. `MaxJump = 50` as in the code exceeds the number
of chunks, so every candidate can be chosen. In `queue` there are a user file and a cache file, with two
controls each (`Copies`), so that up to three controls are queued, behind one or two slots; one request
waits for activation (`MaxPending`) and one user thread races with the tick. `MinPrioritized` is 1, so that
swaps of user and cache files happen. CHECK_DEADLOCK FALSE in the transfer runs: a file that is moved or
cancelled has nothing more to do; in the web runs: all components may be gone; in the control runs: the
process ends. `MaxRequests` bounds the requests on their way; it leaves room for a late answer, a newer one
and one more, for each of two components in `webapi`. One change of each resource (`MaxChanges`) suffices to
make every answer on its way outdated; two flips (`MaxFlips`) let a friend come and go. In `control` two API
threads meet, which is what the code has (HTTP and terminal); the requests left out of its configuration
(`password`, `locations`) take the same step as `runstate`. `MaxTries` is 2, so that a password is asked for
again.

Fairness. `data_tick` visits every transfer and every source once a second, so requests and re-requests are
weakly fair in `FtFileCreator`; in `FtTransferModule`, where a tick gives a source something only at certain
moments, strongly. A packet asked for again and again arrives some time (strong fairness of arrival):
without it no protocol ends. Some source answers requests for checksums: `handlePendingCrcRequests` asks
again and changes sources for every chunk that waits and that some source has, which is when the arrival of
its right checksum is fair. Hash thread and file server go on (weak fairness). In `finishes` sources may
send wrong data any number of times; `Finishes` promises an end from the moment they stop
(`WrongDataStops`), which is its hypothesis and no fairness. Losing packets, wrong data, clean-ups and the
user have no fairness. In `RsApi` the browser's timer and callbacks run (weak fairness), and a poll or a
request that is sent again and again is some time served and answered (strong fairness): each may be lost
any number of times, not always. Components need neither stay nor leave, and resources need not change. In
`RsControlModule` the threads run and get a mutex that is free again and again (strong fairness); users need
do nothing.

## 5. Proofs

`ChunkMapProofs.tla` proves, for every file size, chunk size, set of sources, set of size hints, source
maps and strategies, that `CmSpec` implies the type invariant (TypeCorrect), `RemainsExact`
(RemainsCorrect), `SlicesDisjoint` (NoByteAskedTwice), `ActiveIsTracked` (ActiveChunksTracked),
`CompleteExact` (CompletionCorrect), `TotalExact` (TotalCorrect) and the action property `DoneIsFinal`
(DoneStaysDone).

Assumptions: `SizesAssumption` (the file is not empty and smaller than the range of `uint32_t`, which is
what keeps the size of a chunk in 32 bits; the real code needs it of chunks only), `SettingsAssumption`,
and `UserForceCheck = FALSE`: a check is forced only when the hash of a complete file is wrong. The
last one is needed, as said above.

Argument. `IInv` is the conjunction of the type invariant and the four state invariants; none is
inductive alone. That `_remains` stays exact needs slices to be disjoint from each other and from the feed,
so that the bytes of a received slice leave `Missing` and no others do (`SliceBytes`); that slices
stay disjoint when a chunk is carved needs at most one feed per chunk; that a fresh chunk has no old slices
needs records to exist for active chunks only; and a forced check is harmless because a complete file has no
active chunk. Lemmas: geometry (`ChunkFacts`, `ChunkOfFacts`, `BytesOfFacts`), what carving does
(`CarveFacts`), one step lemma per operation, `NextInv`, and the temporal theorems from `Invariance`.

`TotalExact` compares a counter with a number computed from the states of chunks, slices and feeds, and a sum
over chunks cannot be taken apart without induction. The proof counts bytes instead: `Got` is the set of bytes
that are in, and the computed number is its cardinality (`ComputedAlways`), because the sizes of the chunks and
of their remaining parts are those of sets of bytes (`SumCounts`, `SizeCounts`, `ReceivedCounts`). A step that
brings in a slice adds its bytes to `Got` and their number to the counter (`SliceTotal`, `DataTotal`); one that
gives a chunk up takes away both (`GivenUp`); carving changes neither. `Got` never has more bytes than the file,
so the counter does not wrap.

`FtFileCreatorProofs.tla` proves, for any sources, sizes of file, chunks, slices and packets, counters and
bounds, that `Spec` of `FtFileCreator` implies `CreatorTypeOK` (CreatorTypeCorrect), `PiecesDisjoint`
(PiecesStayDisjoint), `RefCountEnough` (CountersEnough), `ReceivedIsWritten` (WrittenBeforeChecked) and
`KeepsBytes` (CreatorImplementsDownload).

Assumptions: those of the chunk map, `UserForceCheck = FALSE` among them: a forced check leaves pieces and
slices of a chunk in place. Nothing is assumed of the network: any packet may arrive at any time, with right
or wrong data, however often, and checksums may be wrong, chunks given up and the program restarted.

Argument. The inductive invariant `CreatorInv` has the chunk map's `IInv`, the books of the pieces
(`PiecesInv`) and the remaining types. Each piece lies in its slice or has wrapped; those in their slices do
not overlap; two pieces share a counter exactly when they are of one slice; and the counter is never below
their number. This survives any packet because of three facts. A packet that starts where a piece starts and
is not longer shortens the piece within its slice. One that is longer makes it wrap (`WrapPiece`): its end
is then beyond `W64`, so that it contains no packet in the sum modulo `W64`, and no packet is as long as it,
so that it is never finished. And a split leaves two parts of the one piece (`CutPiece`). A piece that
wrapped stays in `mChunks` until another one is put at its offset, which the counter does not notice: it can
be too high but not too low. For what is received, `Awaits` ties the pieces to `awaited`: a byte asked for
and not written yet lies in a pending piece of its slice (`Held`), or the counter of the slice exceeds the
number of its pieces that can still be finished, so that it never reaches zero (`Lags`). When a slice is
reported its last piece has just been finished, so no byte of it is awaited any more. One lemma for each
operation gives its effect on pieces, counters and slices (`AddPiece`, `FinishPiece`, `ShrinkPiece`,
`CutPiece`, `WrapPiece`, `RemovePieces`).

For the refinement `LifeOf` is evaluated before and after each operation: carving maps to `Request`, a packet
to `Deliver`, with the last byte of a file of one chunk to `DeliverAll`, checks to `Check`, clean-up to
`GiveUp`, the rest to `Recheck`, `Save`, `Resume` or a stutter. `ReceivedIsWritten` is then shown on the
steps of `FtDownload`, which are fewer: bytes arrive by being written, and disk contents never become holes.

`FtTransferModuleProofs.tla` proves of `TmSpec`, the transfer with all its threads:

| Theorem | Property | Assumes |
|---|---|---|
| NoCheckIsLost | `NoLostCheck` | - |
| HashThreadSafe | `HashHasCreator` | `UserForceCheck = FALSE` |
| TransferTypeCorrect | `TransferTypeOK` | `UserForceCheck = FALSE` |

All other constants are arbitrary: sources may send any data and checksums at any time, users may cancel,
chunks be cleaned up and checks fail to open the file. `transfer` checks `TransferTypeOK` with forced checks too.

Argument. `NoLostCheck` is inductive with little else (`QueueInv`): `asking` is not empty only between the
two mutexes of `queryInactive`; an operation of the chunk map that puts a chunk in checking queues it
(`QueuesIt`); and each of queue, local variable, request table and cache hands a chunk to the next in one
step. `HashInv` adds to the creator's invariant how the status, the flag and the position of the tick are
with each other (`ControlInv`): from the start of a hash until its result is taken the flag is `CHECKING`
and the file complete, while `completeFile` waits for the flag `COMPLETE`, and `FileCancel` refuses a
complete file. A file that is complete stays so whatever packets arrive: they change its bytes, not its map
(`StaysComplete`).

`FtControllerProofs.tla` proves, for any files, cache files, threads, queue sizes and bounds, that `Spec`
of `FtController` implies `ControllerTypeOK` (ControllerTypeCorrect), `PositionsExact`
(PositionsCorrect), `QueueIsLive` (QueueSound) and the action property `StateFollowsPosition`
(StatesFollow), from `ControllerAssumption` (types of the constants, and at least one slot).

Argument. The inductive invariant is the conjunction of the three state invariants and `LeftDownloaded`
(the files `checkDownloadQueue` has yet to move are downloads, which it is because `ctrlMutex` is held).
Positions and contents need each other: a removal by stored position takes out the right control only if
positions are exact, and checking some positions makes all exact only if no control is queued twice. One
lemma carries the queue operations: if the controls outside a set of positions have their positions, then
checking that set makes every position exact and changes no other control (`Settle`). For each operation
it remains to see that the new vector has the same controls (`PermutedHolds`, `RemoveHolds`) and that the
elements it moved are among those checked. `Calm` says that a step misplaces no file that was not
misplaced before; it holds of every step but `start` and `restoreState`.

`RsApiProofs.tla` proves, for any components, friends and bounds, that `Spec` of `RsApi` implies `TypeOK`
(ApiTypeCorrect), `OneListener` (RegisteredOnce), `ListenersMounted` (NoneComesBack), `FreshToken`
(ValidMeansFresh) and `KeepsPromise` (Implements), that is the initial condition and every step of
`AutoUpdate`, from `RsApiAssumption`.

Argument. `FreshToken` speaks of what components show; for it to be kept when an answer arrives, the same must
hold of answers on their way (`AnswersFresh`) and of listeners (`ListenersFresh`): a token that is the
resource's present one comes with the present data, and any other token is no longer valid. Since tokens
are numbered without repetition and the two resources never share one (`TokensDistinct`), a new token
makes every older one invalid for good. `OneListener` is needed for `unregister` to remove the entry of
the component and no other, and the other way round. For the refinement, a change of the resource maps
to `Change`: all listeners lose their valid token in one step. An answer maps to `Show`, mounting and
unmounting to `Appear` and `Disappear`; every other step leaves what components know alone, which is shown
once for all steps that keep tokens, listeners and phases. That requests stay a bag needs
the calls of one answer to be finitely many (`CallsFinite`): tokens and listeners are finite lists.

`RsControlModuleProofs.tla` proves, for any number of API threads and any set of requests, that `Spec` of
`RsControlModule` implies `TypeOK` (ControlTypeCorrect), `PasswordIsThere` (PasswordHandedOver),
`ApiNeverAsks` (LocationsNeedNoPassword), and the action properties `StuckForEver` (StuckIsForEver) and
`Announced` (ChangesAnnounced), from `ControlAssumption`.

Argument. The inductive invariant is `PasswordIsThere` and `ApiNeverAsks` with the types of threads and
mutexes, and which places of the threads hold which mutex (`MutexesHeld`, an auxiliary fact of the proofs).
That one handler at most is at work makes the fixed password stay until the handler that set it clears it.
That a circular wait is never over needs `MutexesHeld`: the step that could end it belongs to a thread that
waits for a mutex the other one holds.

Only model-checked: liveness (`Completes`, `Finishes`, `RefreshesAll`, `AnsweredUnlessStuck`, `PasswordUsed`,
`EndsUnlessStuck`), which is outside the reach of the provers used; and `RefCountExact` and `NothingForgotten`,
which hold only while nothing is given up or comes unasked. Every other state invariant and action property
the passing runs check is a theorem, under the assumptions above.

## 6. Not modelled

Rates and round-trip times; the sources' states, and adding and removing them; what the queue tells turtle
router and creator (monitoring of tunnels, closing of files); changes of `_min_prioritized_transfers`,
of directories and of priorities; the insertion strategy `FT_FILECONTROL_QUEUE_ADD_AFTER_CACHE`, which
nothing uses; serving data to others; the bytes of packets, names and paths. Disc-full handling of the
controller and the copying of a file across file systems are input and output. `setChunkStrategy` of the
controller looks a download up without `ctrlMutex` (`ftcontroller.cc:1359`): a data race on the map, not a
state a property could name.

Of the web API: a restart of the server, after which tokens count from 1 again; the handlers that neither
keep a state nor differ from `changeControl`; HTTP and JSON; the terminal menu; the requests widgets send
by themselves, the login page's among them, whose `clear_data` assigns to a global variable instead of the
member (`gui.jsx:778`), so that after an import it shows the identities fetched before until the new ones
arrive; the signals between components; `RUNNING_OK_NO_FULL_CONTROL`.

Most lines of the repository that are not C++ are translations (`.ts` files under `lang/` and
`translations/`, data for the Qt linguist) and third-party scripts (`react.js`, `JSXTransformer.js`): they
hold nothing of the system's own logic. The rest of the library is in the plan.
