-------------------------- MODULE FtTransferModule --------------------------
(***************************************************************************)
(* A transfer from its first request to the file in its destination: the   *)
(* file creator under the threads that use it.                             *)
(*                                                                         *)
(*  - The controller's thread ticks the transfer module (ftcontroller.cc,  *)
(*    fttransfermodule.cc): requests, chunks to be checked, the hash of    *)
(*    the whole file, completion.  The tick holds ctrlMutex throughout and *)
(*    tfMtx in parts; pc says how far it is.                               *)
(*  - The data multiplexer's worker hands arriving data to the module.     *)
(*  - The file server's tick asks for the checksums of received chunks and *)
(*    checks them (ftdatamultiplex.cc), under dataMtx.                     *)
(*  - A hash thread hashes the received file.                              *)
(*  - The user may force a check or cancel the download, under ctrlMutex.  *)
(***************************************************************************)
EXTENDS FtFileCreator

CONSTANTS
  OpenFails,        \* may the partial file fail to open?
  Serving,          \* do other peers ask us for checksums of this file?
  Cancels           \* may the user cancel the download?

ASSUME TransferAssumption ==
  /\ OpenFails \in BOOLEAN
  /\ Serving \in BOOLEAN
  /\ Cancels \in BOOLEAN

VARIABLES
  life,             \* "running" while in mDownloads; then "moved" or "cancelled"
  pc,               \* where the controller's tick is
  stat, mFlag,      \* mFileStatus.stat, mFlag
  asking,           \* chunks_to_ask, a local variable of queryInactive
  flagged,          \* is the file in mDone?
  hash_thread,      \* _hash_thread: none, running, or finished with that result
  worker,           \* the packet handleRecvData holds the module's pointer for
  to_ask,           \* Sha1CacheEntry::_to_ask
  crc_map,          \* Sha1CacheEntry::_map: the checksum in the cache, if set
  received,         \* Sha1CacheEntry::_received, as a set
  serving           \* a checksum handleRecvChunkCrcRequest computed itself

tickVars == <<pc, stat, mFlag, asking, flagged>>

crcVars == <<to_ask, crc_map, received, serving>>

creator == <<cmVars, creatorVars>>

tmVars == <<creator, life, tickVars, hash_thread, worker, crcVars>>

NotSet == << >>

TmInit ==
  /\ Init
  /\ life = "running"
  /\ pc = "idle"
  /\ stat = "INIT"
  /\ mFlag = "DOWNLOADING"
  /\ asking = {}
  /\ flagged = FALSE
  /\ hash_thread = "none"
  /\ worker = {}
  /\ to_ask = {}
  /\ crc_map = [c \in Chunks |-> NotSet]
  /\ received = {}
  /\ serving = {}

-----------------------------------------------------------------------------
(* The tick of the transfer module. *)

ctrlMutexFree == pc = "idle"

tfMtxFree == pc \in {"idle", "switch", "forcing"}

\* queryInactive begins: a transfer in download goes through its sources.
BeginTick ==
  /\ pc = "idle"
  /\ ~flagged
  /\ stat' = IF stat = "INIT" THEN "DOWNLOADING" ELSE stat
  /\ pc' = IF stat' = "DOWNLOADING" THEN "sources" ELSE "switch"
  /\ UNCHANGED <<creator, life, mFlag, asking, flagged, hash_thread, worker, crcVars>>

\* Each source is asked for slices as its speed allows, if at all ...
TickSource(p, hint, off, r) ==
  /\ pc = "sources"
  /\ RequestSlice(p, hint, off, r)
  /\ UNCHANGED <<life, tickVars, hash_thread, worker, crcVars>>

\* ... or again for pieces older than CHUNK_MAX_AGE, whatever is on its way.
TickReask(p, m) ==
  /\ pc = "sources"
  /\ ReaskPiece(p, m)
  /\ UNCHANGED <<life, tickVars, hash_thread, worker, crcVars>>

\* The file is finished, as far as the chunk map knows: check its hash.
QueryFinished ==
  /\ pc = "sources"
  /\ file_is_complete
  /\ stat' = "CHECKING"
  /\ mFlag' = "CHECKING"
  /\ pc' = "switch"
  /\ UNCHANGED <<creator, life, asking, flagged, hash_thread, worker, crcVars>>

\* It is not: take the chunks to be checked.  (A chunk checked between finished()
\* and getChunksToCheck might as well be checked after both.)
QueryChunks ==
  /\ pc = "sources"
  /\ ~file_is_complete
  /\ TakeChunksToCheck
  /\ asking' = checking_queue
  /\ pc' = "sending"
  /\ UNCHANGED <<life, stat, mFlag, flagged, hash_thread, worker, crcVars>>

\* Mutant: the chunks taken replace those that wait for their checksum.
SendForgetsOthers ==
  /\ pc = "sending"
  /\ to_ask' = asking
  /\ asking' = {}
  /\ pc' = "switch"
  /\ UNCHANGED <<creator, life, stat, mFlag, flagged, hash_thread, worker, crc_map,
                 received, serving>>

\* sendSingleChunkCRCRequests
sendSingleChunkCRCRequests ==
  /\ pc = "sending"
  /\ to_ask' = to_ask \cup asking
  /\ asking' = {}
  /\ pc' = "switch"
  /\ UNCHANGED <<creator, life, stat, mFlag, flagged, hash_thread, worker, crc_map,
                 received, serving>>

-----------------------------------------------------------------------------
(* The rest of the tick, on mFlag. *)

TickDownloading ==
  /\ pc = "switch"
  /\ mFlag = "DOWNLOADING"
  /\ pc' = "idle"
  /\ UNCHANGED <<creator, life, stat, mFlag, asking, flagged, hash_thread, worker, crcVars>>

\* completeFileTransfer: FlagFileComplete puts the file in mDone.
TickComplete ==
  /\ pc = "switch"
  /\ mFlag = "COMPLETE"
  /\ flagged' = TRUE
  /\ pc' = "idle"
  /\ UNCHANGED <<creator, life, stat, mFlag, asking, hash_thread, worker, crcVars>>

\* checkFile: start the hash thread, or wait for it.
StartHash ==
  /\ pc = "switch"
  /\ mFlag = "CHECKING"
  /\ hash_thread \in {"none", "started", "hashing"}
  /\ hash_thread' = IF hash_thread = "none" THEN "started" ELSE hash_thread
  /\ pc' = "idle"
  /\ UNCHANGED <<creator, life, stat, mFlag, asking, flagged, worker, crcVars>>

\* checkFile: the hash is there.
TakeHash ==
  /\ pc = "switch"
  /\ mFlag = "CHECKING"
  /\ hash_thread \in {"match", "mismatch"}
  /\ hash_thread' = "none"
  /\ \/ /\ hash_thread = "match"
        /\ mFlag' = "COMPLETE"
        /\ pc' = "idle"
     \/ /\ hash_thread = "mismatch"
        /\ pc' = "forcing"
        /\ UNCHANGED mFlag
  /\ UNCHANGED <<creator, life, stat, asking, flagged, worker, crcVars>>

\* ftTransferModule::forceCheck
TmForceCheck ==
  /\ forceCheck
  /\ mFlag' = "DOWNLOADING"
  /\ stat' = "DOWNLOADING"
  /\ UNCHANGED <<creatorVars, life, asking, flagged, hash_thread, worker, crcVars>>

\* The end of checkFile, after tfMtx was released and taken again.
HashIsWrong ==
  /\ pc = "forcing"
  /\ TmForceCheck
  /\ pc' = "idle"

\* RS_FILE_CTRL_FORCE_CHECK
UserForces ==
  /\ UserForceCheck
  /\ ctrlMutexFree
  /\ TmForceCheck
  /\ UNCHANGED pc

-----------------------------------------------------------------------------
(* The end of a transfer: module and creator are deleted. *)

\* completeFile, for the files in mDone at the end of data_tick.
completeFile ==
  /\ ctrlMutexFree
  /\ flagged
  /\ flagged' = FALSE
  /\ life' = IF file_is_complete THEN "moved" ELSE life
  /\ UNCHANGED <<creator, pc, stat, mFlag, asking, hash_thread, worker, crcVars>>

\* Mutant: a download can be cancelled when it is finished.
FileCancelAnyTime ==
  /\ ctrlMutexFree
  /\ life' = "cancelled"
  /\ UNCHANGED <<creator, tickVars, hash_thread, worker, crcVars>>

FileCancel ==
  /\ ctrlMutexFree
  /\ ~file_is_complete
  /\ life' = "cancelled"
  /\ UNCHANGED <<creator, tickVars, hash_thread, worker, crcVars>>

-----------------------------------------------------------------------------
(* The hash thread. *)

\* hashReceivedData: nothing is hashed, and no hash returned, unless finished().
BeginHash ==
  /\ hash_thread = "started"
  /\ hash_thread' = IF file_is_complete THEN "hashing" ELSE "mismatch"
  /\ UNCHANGED <<creator, life, tickVars, worker, crcVars>>

FileIsGood == \A b \in Bytes : disk[b] = "good"

EndHash ==
  /\ hash_thread = "hashing"
  /\ hash_thread' = IF FileIsGood THEN "match" ELSE "mismatch"
  /\ UNCHANGED <<creator, life, tickVars, worker, crcVars>>

-----------------------------------------------------------------------------
(* The worker. *)

\* handleRecvData finds the module for what arrives, and lets go of dataMtx.
FindModule(packet) ==
  /\ worker = {}
  /\ coming[packet] > 0 \/ Unasked
  /\ worker' = {packet}
  /\ UNCHANGED <<creator, life, tickVars, hash_thread, crcVars>>

\* recvFileData stores the data, in whatever state the transfer is.
recvFileData(packet, quality) ==
  /\ packet \in worker
  /\ tfMtxFree
  /\ Receive(packet, quality)
  /\ worker' = {}
  /\ UNCHANGED <<life, tickVars, hash_thread, crcVars>>

\* The same when the peer is not in mFileSources, or the data cannot be written.
IgnoreFileData ==
  /\ \E packet \in worker : Lose(packet) \/ (Unasked /\ UNCHANGED creator)
  /\ tfMtxFree
  /\ worker' = {}
  /\ UNCHANGED <<life, tickVars, hash_thread, crcVars>>

\* A packet gets lost on the way.
LosePacket(packet) ==
  /\ packet \notin worker
  /\ Lose(packet)
  /\ UNCHANGED <<life, tickVars, hash_thread, worker, crcVars>>

\* removeInactiveChunks, called by data_tick under ctrlMutex.
CleanUp(S) ==
  /\ ctrlMutexFree
  /\ RemoveInactive(S)
  /\ UNCHANGED <<life, tickVars, hash_thread, worker, crcVars>>

-----------------------------------------------------------------------------
(* The checksums of received chunks. *)

\* handlePendingCrcRequests asks sources that have the chunk, one after the other,
\* until a checksum came.  Only time stamps change here.
handlePendingCrcRequests(c) == c \in to_ask /\ \E p \in Peers : c \in peer_map[p]

\* Mutant: the answer is not queued for checking.
RecvCrcNotQueued(c, sum) ==
  /\ to_ask' = to_ask \ {c}
  /\ crc_map' = [crc_map EXCEPT ![c] = sum]
  /\ UNCHANGED <<creator, life, tickVars, hash_thread, worker, received, serving>>

\* Mutant: chunks are counted from one.
RecvCrcOffByOne(c, sum) ==
  /\ to_ask' = to_ask \ {c}
  /\ crc_map' = [crc_map EXCEPT ![c] = sum]
  /\ received' = received \cup {c + 1}
  /\ UNCHANGED <<creator, life, tickVars, hash_thread, worker, serving>>

\* recvSingleChunkCRC takes a checksum from whoever sends it, at any time: the
\* first answer, a late or second one, or one nobody was asked for.
recvSingleChunkCRC(c, sum) ==
  /\ to_ask' = to_ask \ {c}
  /\ crc_map' = [crc_map EXCEPT ![c] = sum]
  /\ received' = received \cup {c}
  /\ UNCHANGED <<creator, life, tickVars, hash_thread, worker, serving>>

\* dispatchReceivedChunkCheckSum, for one chunk.
Dispatch(c) ==
  /\ c \in received
  /\ received' = received \ {c}
  /\ verifyChunk(c, crc_map[c])
  /\ UNCHANGED <<life, tickVars, hash_thread, worker, to_ask, crc_map, serving>>

\* The same when the partial file cannot be opened: verifyChunk returns at once.
DispatchFails(c) ==
  /\ c \in received
  /\ received' = received \ {c}
  /\ UNCHANGED <<creator, life, tickVars, hash_thread, worker, to_ask, crc_map, serving>>

\* handleRecvChunkCrcRequest: a checksum that is not in the cache is computed from
\* the partial file, the creator being registered as a server of its file ...
ServeBegin(c) ==
  /\ serving = {}
  /\ crc_map[c] = NotSet
  /\ Readable(c)
  /\ serving' = {<<c, CheckSum(c)>>}
  /\ UNCHANGED <<creator, life, tickVars, hash_thread, worker, to_ask, crc_map, received>>

\* ... and put into the cache, under dataMtx again.
ServeEnd ==
  \E s \in serving :
    /\ serving' = {}
    /\ crc_map' = [crc_map EXCEPT ![s[1]] = s[2]]
    /\ UNCHANGED <<creator, life, tickVars, hash_thread, worker, to_ask, received>>

-----------------------------------------------------------------------------
Tick ==
  \/ BeginTick
  \/ QueryFinished
  \/ QueryChunks
  \/ sendSingleChunkCRCRequests
  \/ TickDownloading
  \/ TickComplete
  \/ StartHash
  \/ TakeHash
  \/ HashIsWrong
  \/ completeFile

\* After the module and the creator are deleted nothing of this transfer happens.
TmNext ==
  /\ life = "running"
  /\ \/ Tick
     \/ \E p \in Peers, hint \in Hints, off \in Bytes, r \in Refs :
          TickSource(p, hint, off, r)
     \/ \E p \in Peers : \E m \in mChunks : TickReask(p, m)
     \/ UserForces
     \/ Cancels /\ FileCancel
     \/ BeginHash
     \/ EndHash
     \/ \E packet \in Packet : FindModule(packet) \/ LosePacket(packet)
     \/ \E packet \in Packet, quality \in Qualities : recvFileData(packet, quality)
     \/ IgnoreFileData
     \/ CleanUps /\ \E S \in (SUBSET tracked) \ {{}} : CleanUp(S)
     \/ \E c \in Chunks : \E sum \in Sums(c) : recvSingleChunkCRC(c, sum)
     \/ \E c \in Chunks : Dispatch(c)
     \/ OpenFails /\ \E c \in Chunks : DispatchFails(c)
     \/ Serving /\ (ServeEnd \/ \E c \in Chunks : ServeBegin(c))

TmSpec == TmInit /\ [][TmNext]_tmVars

\* All threads go on; a source that is asked again and again answers, with the
\* right data, and with the right checksum.
TmFairness ==
  /\ WF_tmVars(life = "running" /\ Tick)
  /\ WF_tmVars(life = "running" /\ (BeginHash \/ EndHash))
  /\ \A p \in Peers :
       SF_tmVars(life = "running" /\ \E hint \in Hints, off \in Bytes, r \in Refs :
                                       TickSource(p, hint, off, r))
  /\ \A off \in Bytes :
       SF_tmVars(life = "running" /\ \E p \in Peers : \E m \in mChunks :
                                       m.offset = off /\ TickReask(p, m))
  /\ \A packet \in Packet :
       /\ SF_tmVars(life = "running" /\ FindModule(packet))
       /\ SF_tmVars(life = "running" /\ recvFileData(packet, "good"))
  /\ \A c \in Chunks :
       /\ WF_tmVars(life = "running" /\ handlePendingCrcRequests(c)
                                     /\ recvSingleChunkCRC(c, RightSum(c)))
       /\ WF_tmVars(life = "running" /\ Dispatch(c))

TmFairSpec == TmSpec /\ TmFairness

-----------------------------------------------------------------------------
(* Properties. *)

\* Type invariant of the module, the checksum cache and the threads.
TransferTypeOK ==
  /\ CreatorTypeOK
  /\ life \in {"running", "moved", "cancelled"}
  /\ pc \in {"idle", "sources", "sending", "switch", "forcing"}
  /\ stat \in {"INIT", "DOWNLOADING", "CHECKING"}
  /\ mFlag \in {"DOWNLOADING", "CHECKING", "COMPLETE"}
  /\ asking \subseteq Chunks
  /\ flagged \in BOOLEAN
  /\ hash_thread \in {"none", "started", "hashing", "match", "mismatch"}
  /\ worker \subseteq Packet
  /\ to_ask \subseteq Chunks
  /\ \A c \in Chunks :
       crc_map[c] = NotSet \/ crc_map[c] \in [BytesOf(c) -> {"hole", "good", "bad"}]
  /\ received \subseteq Chunks

\* Chunks on their way through the queues of three threads: in the chunk map's
\* queue, in the hands of queryInactive, waiting for a checksum or to be checked.
OnTheWay == checking_queue \cup asking \cup to_ask \cup received

\* A chunk that is, or gets, into checking stays on its way there, whatever is
\* forced, cleaned up, repeated or sent unasked; only a check that cannot open the
\* partial file drops it.  A chunk dropped would never be checked, nor the
\* download end, until the user forces a check.
NoLostCheck ==
  [][ \A c \in Chunks : map'[c] = "CHECKING" /\ c \notin OnTheWay'
        => \/ map[c] = "CHECKING" /\ c \notin OnTheWay
           \/ DispatchFails(c) ]_tmVars

\* A file that is moved to its destination has the content it was asked for by
\* its hash.
MovedIsGood == life = "moved" => FileIsGood

\* The hash thread, which uses the file creator without a mutex, has ended when
\* the creator is deleted, unless the user forced a check.
HashHasCreator == hash_thread \in {"started", "hashing"} => life = "running"

\* Sources may send wrong data any number of times, but not for ever.
WrongDataStops == <>[][\A packet \in Packet : ~recvFileData(packet, "bad")]_tmVars

\* Every download ends with the file in its destination, unless the user cancels
\* it, when the wrong data stops: what was spoilt by it, also by a second answer
\* after the chunk was received or while the file is hashed, is loaded again.
Finishes == WrongDataStops => <>(life # "running")

=============================================================================
