----------------------- MODULE FtTransferModuleProofs -----------------------
(***************************************************************************)
(* Proofs about a transfer: the creator under the controller's tick, the   *)
(* data multiplexer, the hash thread and the user, whatever packets and    *)
(* whatever checksums arrive, asked for or not, right or wrong.            *)
(***************************************************************************)
EXTENDS FtTransferModule, FtFileCreatorProofs

-----------------------------------------------------------------------------
(* What the creator's operations do to the chunk map, whatever the pieces. *)

\* A piece that names a slice; nothing is known of its extent.
PieceRecord == [offset : Int, size : Int, id : Bytes, peer : Peers, ref : Refs]

\* The pieces stay pieces, and the chunk map is told of a slice or of nothing.
PiecesKept ==
  /\ mChunks' \subseteq PieceRecord
  /\ (\E id \in Bytes : dataReceived(id)) \/ UNCHANGED cmVars

LEMMA ReceivedForKeeps ==
  ASSUME NEW x \in PieceRecord, NEW P \in SUBSET PieceRecord, NEW R, NEW n \in Int,
         ReceivedFor(x, P, R, n)
  PROVE  PiecesKept
<1> DEFINE s == (x.size - n) % W64
           o == x.offset + n
           y == [x EXCEPT !.size = s, !.offset = o]
<1>1. x.size \in Int /\ x.offset \in Int /\ x.id \in Bytes
  BY DEF PieceRecord
<1>2. x.size - n \in Int
  BY <1>1
<1>3. s \in Int /\ o \in Int
  BY <1>1, <1>2, Remainder, W64Facts
<1>4. y \in PieceRecord
  <2> HIDE DEF s, o
  <2> QED
    BY <1>3 DEF PieceRecord
<1>5. Put(P, y) \subseteq PieceRecord
  <2> HIDE DEF y
  <2> QED
    BY <1>4 DEF Put
<1>6. CASE x.size # n
  BY <1>5, <1>6 DEF ReceivedFor, PiecesKept
<1>7. CASE x.size = n
  BY <1>1, <1>7 DEF ReceivedFor, PiecesKept
<1> QED
  BY <1>6, <1>7

LEMMA NotifyKeeps ==
  ASSUME mChunks \subseteq PieceRecord, NEW k, k.size \in Int, k.offset \in Int,
         locked_notifyReceived(k)
  PROVE  PiecesKept
<1>1. k.size \in Int /\ k.offset \in Int
  OBVIOUS
<1>2. CASE \E m \in ExactPieces(k) : ReceivedFor(m, mChunks \ {m}, ref_cnt, k.size)
  <2>1. PICK m \in ExactPieces(k) : ReceivedFor(m, mChunks \ {m}, ref_cnt, k.size)
    BY <1>2
  <2>2. m \in PieceRecord /\ mChunks \ {m} \in SUBSET PieceRecord
    BY DEF ExactPieces
  <2> QED
    BY <1>1, <2>1, <2>2, ReceivedForKeeps
<1>3. CASE \E m \in ContainingPieces(k) : SplitPiece(k, m)
  <2>1. PICK m \in ContainingPieces(k) : SplitPiece(k, m)
    BY <1>3
  <2> DEFINE n1 == k.offset - m.offset
             part1 == [m EXCEPT !.size = n1]
             n2 == (m.size - part1.size) % W64
             rest == [m EXCEPT !.offset = k.offset, !.size = n2]
  <2>2. m \in PieceRecord /\ m.offset \in Int /\ m.size \in Int
    BY DEF ContainingPieces, PieceRecord
  <2>3. n1 \in Int
    BY <1>1, <2>2
  <2>4. part1 \in PieceRecord /\ part1.size = n1
    <3> HIDE DEF n1
    <3> QED
      BY <2>2, <2>3 DEF PieceRecord
  <2>5. n2 \in Int
    <3>1. m.size - part1.size \in Int
      <4> HIDE DEF part1
      <4> QED
        BY <2>2, <2>3, <2>4
    <3> HIDE DEF part1
    <3> QED
      BY <3>1, Remainder, W64Facts
  <2>6. rest \in PieceRecord
    <3> HIDE DEF n2
    <3> QED
      BY <1>1, <2>2, <2>5 DEF PieceRecord
  <2>7. ReceivedFor(rest, Put(mChunks, part1), [ref_cnt EXCEPT ![m.ref] = @ + 1], k.size)
    BY <2>1 DEF SplitPiece
  <2> HIDE DEF part1, rest
  <2>8. Put(mChunks, part1) \in SUBSET PieceRecord
    BY <2>4 DEF Put
  <2> QED
    BY <1>1, <2>6, <2>7, <2>8, ReceivedForKeeps
<1>4. CASE UNCHANGED <<cmVars, mChunks, ref_cnt, per_peer>>
  BY <1>4 DEF PiecesKept
<1> QED
  BY <1>2, <1>3, <1>4 DEF locked_notifyReceived

LEMMA ReceiveKeeps ==
  ASSUME mChunks \subseteq PieceRecord, NEW packet \in Packet, NEW q, Receive(packet, q)
  PROVE  PiecesKept
<1>1. locked_notifyReceived(Clipped(packet))
  BY DEF Receive, addFileData
<1>2. Clipped(packet).size \in Int /\ Clipped(packet).offset \in Int
  BY ClippedFacts, SizesAssumption DEF ClippedPacket, Bytes
<1> QED
  BY <1>1, <1>2, NotifyKeeps

\* A new slice is a piece.
LEMMA RequestKeeps ==
  ASSUME mChunks \subseteq PieceRecord, NEW p \in Peers, NEW hint \in Hints, NEW off \in Bytes,
         NEW r \in Refs, RequestSlice(p, hint, off, r)
  PROVE  mChunks' \subseteq PieceRecord
<1> DEFINE n == SliceSize(off, hint)
           x == [offset |-> off, size |-> n, id |-> off, peer |-> p, ref |-> r]
<1>1. n \in Int /\ off \in Int
  BY SliceSizeFacts, SizesAssumption DEF Bytes
<1>2. x \in PieceRecord
  <2> HIDE DEF n
  <2> QED
    BY <1>1 DEF PieceRecord
<1>3. mChunks' = Put(mChunks, x)
  BY DEF RequestSlice
<1> HIDE DEF x
<1> QED
  BY <1>2, <1>3 DEF Put

-----------------------------------------------------------------------------
(* No chunk in checking is lost between the queues of the threads. *)

\* What is needed for it: queryInactive has nothing in its hands when it takes the
\* queue.
QueueInv ==
  /\ map \in [Chunks -> States]
  /\ mChunks \subseteq PieceRecord
  /\ asking # {} => pc = "sending"

\* A chunk in checking is on its way, if it was when it came into checking.
StaysOnTheWay(c) ==
  map'[c] = "CHECKING" /\ c \notin OnTheWay' => map[c] = "CHECKING" /\ c \notin OnTheWay

\* An operation that puts a chunk in checking queues it.
QueuesIt ==
  /\ map' \in [Chunks -> States]
  /\ checking_queue \subseteq checking_queue'
  /\ \A c \in Chunks : map'[c] = "CHECKING" => map[c] = "CHECKING" \/ c \in checking_queue'

LEMMA GetDataChunkQueues ==
  ASSUME map \in [Chunks -> States], NEW p \in Peers, NEW hint \in Hints, NEW off \in Bytes,
         getDataChunk(p, hint, off)
  PROVE  QueuesIt
<1>1. checking_queue' = checking_queue
  BY DEF getDataChunk
<1>2. map' = map \/ \E c \in Chunks : map' = [map EXCEPT ![c] = "ACTIVE"]
  BY DEF getDataChunk, ReuseFeed, ShareFeed, AllocateChunk, FailsafeFeed, getAvailableChunk,
         Available
<1> QED
  BY <1>1, <1>2 DEF QueuesIt, States

LEMMA DataReceivedQueues ==
  ASSUME map \in [Chunks -> States], NEW id \in Bytes, dataReceived(id)
  PROVE  QueuesIt
<1>1. ChunkOf(id) \in Chunks
  BY ChunkOfFacts
<1> QED
  BY <1>1 DEF dataReceived, ChunkReceived, SliceReceived, QueuesIt, States

\* So the property is kept by the steps that leave the other queues alone.
LEMMA QueuesKept ==
  ASSUME QueueInv, QueuesIt, mChunks' \subseteq PieceRecord,
         UNCHANGED <<asking, to_ask, received>>, asking # {} => pc' = "sending"
  PROVE  QueueInv' /\ \A c \in Chunks : StaysOnTheWay(c)
  BY DEF QueueInv, QueuesIt, StaysOnTheWay, OnTheWay

\* A new transfer has nothing in its hands.
LEMMA QueueInit == TmInit => QueueInv
<1> SUFFICES ASSUME TmInit PROVE QueueInv
  OBVIOUS
<1>1. map = [c \in Chunks |-> "OUTSTANDING"] /\ mChunks = {} /\ asking = {}
  BY DEF TmInit, Init, Load, LoadedMap
<1> QED
  BY <1>1 DEF QueueInv, States

\* Steps that do not concern the chunk map, nor the queues.
Elsewhere ==
  \/ BeginTick \/ QueryFinished \/ TickDownloading \/ TickComplete \/ StartHash \/ TakeHash
  \/ completeFile \/ FileCancel \/ BeginHash \/ EndHash
  \/ \E packet \in Packet : FindModule(packet) \/ LosePacket(packet)
  \/ IgnoreFileData
  \/ \E p \in Peers : \E m \in mChunks : TickReask(p, m)
  \/ \E c \in Chunks : ServeBegin(c)
  \/ ServeEnd
  \/ UNCHANGED tmVars

LEMMA ElsewhereFacts ==
  ASSUME Elsewhere
  PROVE  /\ UNCHANGED cmVars
         /\ UNCHANGED <<mChunks, ref_cnt, per_peer, disk, saved>>
         /\ UNCHANGED <<asking, to_ask, received>>
         /\ pc = "sending" => pc' = "sending"
<1>1. CASE BeginTick \/ QueryFinished \/ TickDownloading \/ TickComplete \/ StartHash \/ TakeHash
  BY <1>1 DEF BeginTick, QueryFinished, TickDownloading, TickComplete, StartHash, TakeHash,
              creator, creatorVars, crcVars
<1>2. CASE completeFile \/ FileCancel \/ BeginHash \/ EndHash \/ UNCHANGED tmVars
  BY <1>2 DEF completeFile, FileCancel, BeginHash, EndHash, tmVars, tickVars, creator,
              creatorVars, crcVars
<1>3. CASE \E packet \in Packet : FindModule(packet) \/ LosePacket(packet)
  BY <1>3 DEF FindModule, LosePacket, Lose, tickVars, creator, creatorVars, crcVars
<1>4. CASE \E p \in Peers : \E m \in mChunks : TickReask(p, m)
  BY <1>4 DEF TickReask, ReaskPiece, tickVars, crcVars
<1>5. CASE IgnoreFileData
  BY <1>5 DEF IgnoreFileData, Lose, tickVars, creator, creatorVars, crcVars
<1>6. CASE (\E c \in Chunks : ServeBegin(c)) \/ ServeEnd
  BY <1>6 DEF ServeBegin, ServeEnd, tickVars, creator, creatorVars
<1> QED
  BY <1>1, <1>2, <1>3, <1>4, <1>5, <1>6 DEF Elsewhere

\* Every step keeps a chunk on its way, unless the partial file cannot be opened.
LEMMA QueueNext ==
  ASSUME QueueInv, [TmNext]_tmVars
  PROVE  QueueInv' /\ \A c \in Chunks : StaysOnTheWay(c) \/ DispatchFails(c)
<1>0. map \in [Chunks -> States] /\ mChunks \subseteq PieceRecord
  BY DEF QueueInv
<1>1. CASE Elsewhere
  <2>1. QueuesIt
    BY <1>0, <1>1, ElsewhereFacts DEF QueuesIt, cmVars
  <2> QED
    BY <1>0, <1>1, <2>1, ElsewhereFacts, QueuesKept DEF QueueInv
<1>2. CASE \E p \in Peers, hint \in Hints, off \in Bytes, r \in Refs :
             TickSource(p, hint, off, r)
  <2>1. PICK p \in Peers, hint \in Hints, off \in Bytes, r \in Refs : TickSource(p, hint, off, r)
    BY <1>2
  <2>2. RequestSlice(p, hint, off, r) /\ UNCHANGED <<asking, to_ask, received, pc>>
    BY <2>1 DEF TickSource, tickVars, crcVars
  <2>3. QueuesIt /\ mChunks' \subseteq PieceRecord
    BY <1>0, <2>2, RequestKeeps, GetDataChunkQueues DEF RequestSlice
  <2> QED
    BY <2>2, <2>3, QueuesKept DEF QueueInv
<1>3. CASE \E packet \in Packet, quality \in Qualities : recvFileData(packet, quality)
  <2>1. PICK k \in Packet, quality \in Qualities : recvFileData(k, quality)
    BY <1>3
  <2>2. Receive(k, quality) /\ UNCHANGED <<asking, to_ask, received, pc>>
    BY <2>1 DEF recvFileData, tickVars, crcVars
  <2>3. PiecesKept
    BY <1>0, <2>2, ReceiveKeeps
  <2>4. QueuesIt
    <3>1. CASE \E id \in Bytes : dataReceived(id)
      BY <1>0, <3>1, DataReceivedQueues
    <3>2. CASE UNCHANGED cmVars
      BY <1>0, <3>2 DEF QueuesIt, cmVars
    <3> QED
      BY <2>3, <3>1, <3>2 DEF PiecesKept
  <2> QED
    BY <2>2, <2>3, <2>4, QueuesKept DEF QueueInv, PiecesKept
<1>4. CASE \E S \in (SUBSET tracked) \ {{}} : CleanUp(S)
  <2>1. PICK S \in (SUBSET tracked) \ {{}} : CleanUp(S)
    BY <1>4
  <2>2. RemoveInactive(S) /\ UNCHANGED <<asking, to_ask, received, pc>>
    BY <2>1 DEF CleanUp, tickVars, crcVars
  <2>3. QueuesIt /\ mChunks' \subseteq PieceRecord
    BY <1>0, <2>2 DEF RemoveInactive, removeInactiveChunks, QueuesIt, States
  <2> QED
    BY <2>2, <2>3, QueuesKept DEF QueueInv
<1>5. CASE HashIsWrong \/ UserForces
  <2>1. /\ map' = [c \in Chunks |-> "CHECKING"] /\ checking_queue' = Chunks
        /\ UNCHANGED <<mChunks, asking>>
        /\ pc = "sending" => FALSE
    BY <1>5 DEF HashIsWrong, UserForces, ctrlMutexFree, TmForceCheck, forceCheck, creatorVars
  <2> QED
    BY <1>0, <2>1 DEF QueueInv, StaysOnTheWay, OnTheWay, States
<1>6. CASE QueryChunks
  <2>1. /\ UNCHANGED <<map, mChunks, to_ask, received>>
        /\ pc = "sources" /\ asking' = checking_queue /\ pc' = "sending"
    BY <1>6 DEF QueryChunks, TakeChunksToCheck, getChunksToCheck, creatorVars, crcVars
  <2>2. asking = {}
    BY <2>1 DEF QueueInv
  <2> QED
    BY <1>0, <2>1, <2>2 DEF QueueInv, StaysOnTheWay, OnTheWay
<1>7. CASE sendSingleChunkCRCRequests
  <2>1. /\ UNCHANGED <<map, checking_queue, mChunks, received>>
        /\ to_ask' = to_ask \cup asking /\ asking' = {}
    BY <1>7 DEF sendSingleChunkCRCRequests, creator, cmVars, creatorVars
  <2> QED
    BY <1>0, <2>1 DEF QueueInv, StaysOnTheWay, OnTheWay
<1>8. CASE \E c \in Chunks : \E sum \in Sums(c) : recvSingleChunkCRC(c, sum)
  <2>1. PICK c \in Chunks : \E sum \in Sums(c) : recvSingleChunkCRC(c, sum)
    BY <1>8
  <2>2. /\ UNCHANGED <<map, checking_queue, mChunks, asking, pc>>
        /\ to_ask' = to_ask \ {c} /\ received' = received \cup {c}
    BY <2>1 DEF recvSingleChunkCRC, creator, cmVars, creatorVars, tickVars
  <2> QED
    BY <1>0, <2>2 DEF QueueInv, StaysOnTheWay, OnTheWay
<1>9. CASE \E c \in Chunks : Dispatch(c)
  <2>1. PICK c \in Chunks : Dispatch(c)
    BY <1>9
  <2>2. /\ UNCHANGED <<checking_queue, mChunks, asking, to_ask, pc>>
        /\ received' = received \ {c}
        /\ setChunkCheckingResult(c, Readable(c) /\ CheckSum(c) = crc_map[c])
    BY <2>1 DEF Dispatch, verifyChunk, setChunkCheckingResult, creatorVars, tickVars
  <2>3. /\ map' \in [Chunks -> States] /\ map'[c] # "CHECKING"
        /\ \A d \in Chunks \ {c} : map'[d] = map[d]
    BY <1>0, <2>2 DEF setChunkCheckingResult, States
  <2> QED
    BY <1>0, <2>2, <2>3 DEF QueueInv, StaysOnTheWay, OnTheWay
<1>10. CASE \E c \in Chunks : DispatchFails(c)
  <2>1. PICK c \in Chunks : DispatchFails(c)
    BY <1>10
  <2>2. /\ UNCHANGED <<map, checking_queue, mChunks, asking, to_ask, pc>>
        /\ received' = received \ {c}
    BY <2>1 DEF DispatchFails, creator, cmVars, creatorVars, tickVars
  <2>3. QueueInv' /\ \A d \in Chunks : d # c => StaysOnTheWay(d)
    BY <1>0, <2>2 DEF QueueInv, StaysOnTheWay, OnTheWay
  <2> QED
    BY <2>1, <2>3
<1> QED
  BY <1>1, <1>2, <1>3, <1>4, <1>5, <1>6, <1>7, <1>8, <1>9, <1>10 DEF TmNext, Tick, Elsewhere

\* A chunk in checking is always in the hands of some thread that will go on with
\* it, whatever the user forces and the sources send: the one step that drops it is
\* a check for which the partial file cannot be opened.
THEOREM NoCheckIsLost == TmSpec => NoLostCheck
<1>1. QueueInv /\ [TmNext]_tmVars => QueueInv'
  BY QueueNext
<1>2. QueueInv /\ [TmNext]_tmVars
        => [\A c \in Chunks : map'[c] = "CHECKING" /\ c \notin OnTheWay'
              => \/ map[c] = "CHECKING" /\ c \notin OnTheWay
                 \/ DispatchFails(c)]_tmVars
  BY QueueNext DEF StaysOnTheWay
<1> QED
  BY QueueInit, <1>1, <1>2, PTL DEF TmSpec, NoLostCheck

-----------------------------------------------------------------------------
(* The hash thread. *)

\* What the transfer asks of the creator, forced checks apart, keeps its invariant
\* and a complete file complete.
CreatorStep == CreatorInv' /\ (file_is_complete => file_is_complete')

\* A step that only changes the state of chunks that are not done.
LEMMA StaysComplete ==
  ASSUME CreatorInv, CreatorInv',
         map' = map \/ \E c \in Chunks : map[c] # "DONE"
  PROVE  CreatorStep
  BY DEF CreatorStep, CreatorInv, IInv, CompleteExact, AllDone

LEMMA TickSourceKeeps ==
  ASSUME CreatorInv, NEW p \in Peers, NEW hint \in Hints, NEW off \in Bytes, NEW r \in Refs,
         RequestSlice(p, hint, off, r)
  PROVE  CreatorStep
<1>1. CreatorInv' /\ map[ChunkOf(off)] # "DONE"
  BY RequestStep DEF Carved
<1> QED
  BY <1>1, ChunkOfFacts, StaysComplete

LEMMA RecvKeeps ==
  ASSUME CreatorInv, NEW packet \in Packet, NEW q \in Qualities, Receive(packet, q)
  PROVE  CreatorStep
<1>1. CreatorInv' /\ Delivered
  BY ReceiveStep
<1>2. map' = map \/ \E id \in Bytes : map[ChunkOf(id)] # "DONE"
  BY <1>1 DEF Delivered, SliceDone
<1> QED
  BY <1>1, <1>2, ChunkOfFacts, StaysComplete

LEMMA RemoveKeeps ==
  ASSUME CreatorInv, NEW S \in (SUBSET tracked) \ {{}}, RemoveInactive(S)
  PROVE  CreatorStep
<1>1. CreatorInv' /\ S \subseteq Chunks
  BY RemoveStep
<1>2. \A c \in S : map[c] # "DONE"
  BY DEF CreatorInv, IInv, ActiveIsTracked
<1> QED
  BY <1>1, <1>2, StaysComplete

LEMMA VerifyKeeps ==
  ASSUME CreatorInv, NEW c \in Chunks, NEW sum, verifyChunk(c, sum)
  PROVE  CreatorStep
<1>1. CreatorInv' /\ (map' = map \/ map[c] = "CHECKING")
  BY VerifyStep
<1> QED
  BY <1>1, StaysComplete

LEMMA QuietKeeps ==
  ASSUME CreatorInv,
         \/ \E p \in Peers : \E m \in mChunks : ReaskPiece(p, m)
         \/ \E packet \in Packet : Lose(packet)
         \/ TakeChunksToCheck
         \/ UNCHANGED creator
  PROVE  CreatorStep
<1>1. CASE \E p \in Peers : \E m \in mChunks : ReaskPiece(p, m)
  <2>1. CreatorInv' /\ map' = map
    BY <1>1, ReaskStep DEF ReaskPiece, cmVars
  <2> QED
    BY <2>1, StaysComplete
<1>2. CASE \E packet \in Packet : Lose(packet)
  <2>1. CreatorInv' /\ map' = map
    BY <1>2, LoseStep DEF Lose, cmVars
  <2> QED
    BY <2>1, StaysComplete
<1>3. CASE TakeChunksToCheck \/ UNCHANGED creator
  <2>1. CreatorInv' /\ map' = map
    BY <1>3, QuietStep DEF creator, vars
  <2> QED
    BY <2>1, StaysComplete
<1> QED
  BY <1>1, <1>2, <1>3

\* How far the tick, the flags and the hash thread are with each other.  The flags
\* leave DOWNLOADING for a complete file only, and the hash thread runs for a
\* file that is in checking.
ControlInv ==
  /\ stat \in {"INIT", "DOWNLOADING", "CHECKING"}
  /\ mFlag \in {"DOWNLOADING", "CHECKING", "COMPLETE"}
  /\ stat = "CHECKING" <=> mFlag # "DOWNLOADING"
  /\ pc \in {"sources", "sending"} => stat = "DOWNLOADING"
  /\ stat = "CHECKING" => file_is_complete
  /\ pc = "forcing" => mFlag = "CHECKING" /\ hash_thread = "none"
  /\ hash_thread # "none" => mFlag = "CHECKING" /\ life = "running"
  /\ flagged => mFlag = "COMPLETE"
  /\ life = "moved" => mFlag = "COMPLETE"

HashInv == CreatorInv /\ ControlInv /\ worker \subseteq Packet

LEMMA HashInit == TmInit => HashInv
<1> SUFFICES ASSUME TmInit PROVE HashInv
  OBVIOUS
<1>1. Init /\ worker \subseteq Packet
  BY DEF TmInit
<1>2. ControlInv
  BY DEF TmInit, ControlInv
<1> QED
  BY <1>1, <1>2, CreatorInit DEF HashInv

\* The flags and the threads, when the creator does its part.
LEMMA CreatorKeeps ==
  ASSUME HashInv, CreatorStep, UNCHANGED <<life, stat, mFlag, hash_thread, flagged>>,
         pc' = pc \/ (pc = "sources" /\ pc' = "sending") \/ pc' = "switch",
         worker' \subseteq Packet
  PROVE  HashInv'
  BY DEF HashInv, CreatorStep, ControlInv

\* Steps of the tick, the hash thread and the user that only use the creator.
LEMMA ControlKeeps ==
  ASSUME HashInv, life = "running",
         \/ BeginTick \/ QueryFinished \/ TickDownloading \/ TickComplete \/ StartHash
         \/ TakeHash \/ completeFile \/ FileCancel \/ BeginHash \/ EndHash
  PROVE  HashInv'
<1>1. UNCHANGED creator /\ worker' = worker
  BY DEF BeginTick, QueryFinished, TickDownloading, TickComplete, StartHash, TakeHash,
         completeFile, FileCancel, BeginHash, EndHash
<1>2. CreatorInv'
  BY <1>1, QuietKeeps DEF HashInv, CreatorStep
<1>3. file_is_complete' = file_is_complete /\ ControlInv
  BY <1>1 DEF creator, cmVars, HashInv
<1>4. ControlInv'
  <2>1. CASE TickDownloading \/ TickComplete \/ StartHash
    BY <1>3, <2>1 DEF TickDownloading, TickComplete, StartHash, ControlInv
  <2>2. CASE BeginTick
    BY <1>3, <2>2 DEF BeginTick, ControlInv
  <2>3. CASE QueryFinished
    BY <1>3, <2>3 DEF QueryFinished, ControlInv
  <2>4. CASE TakeHash \/ completeFile \/ FileCancel \/ BeginHash \/ EndHash
    BY <1>3, <2>4 DEF TakeHash, completeFile, FileCancel, BeginHash, EndHash, ControlInv, tickVars
  <2> QED
    BY <2>1, <2>2, <2>3, <2>4
<1> QED
  BY <1>1, <1>2, <1>4 DEF HashInv

LEMMA HashNext ==
  ASSUME UserForceCheck = FALSE, HashInv, [TmNext]_tmVars
  PROVE  HashInv'
<1>0. CreatorInv /\ worker \subseteq Packet /\ (life = "running" \/ UNCHANGED tmVars)
  BY DEF HashInv, TmNext
<1>1. CASE /\ life = "running"
           /\ \/ BeginTick \/ QueryFinished \/ TickDownloading \/ TickComplete \/ StartHash
              \/ TakeHash \/ completeFile \/ FileCancel \/ BeginHash \/ EndHash
  BY <1>1, ControlKeeps
<1>2. CASE \E p \in Peers, hint \in Hints, off \in Bytes, r \in Refs :
             TickSource(p, hint, off, r)
  BY <1>0, <1>2, TickSourceKeeps, CreatorKeeps DEF TickSource, tickVars
<1>3. CASE \E packet \in Packet, quality \in Qualities : recvFileData(packet, quality)
  BY <1>0, <1>3, RecvKeeps, CreatorKeeps DEF recvFileData, tickVars
<1>4. CASE \E S \in (SUBSET tracked) \ {{}} : CleanUp(S)
  BY <1>0, <1>4, RemoveKeeps, CreatorKeeps DEF CleanUp, tickVars
<1>5. CASE HashIsWrong
  <2>1. /\ pc = "forcing" /\ forceCheck /\ pc' = "idle" /\ UNCHANGED creatorVars
        /\ stat' = "DOWNLOADING" /\ mFlag' = "DOWNLOADING"
        /\ UNCHANGED <<life, flagged, hash_thread, worker>>
    BY <1>5 DEF HashIsWrong, TmForceCheck
  <2>2. ForceCheck
    BY <2>1 DEF HashInv, ControlInv, ForceCheck, MayForceCheck
  <2>3. CreatorInv'
    BY <1>0, <2>2, ForceStep
  <2> QED
    BY <1>0, <2>1, <2>3 DEF HashInv, ControlInv
<1>6. CASE QueryChunks
  <2>1. /\ TakeChunksToCheck /\ pc = "sources" /\ pc' = "sending"
        /\ UNCHANGED <<life, stat, mFlag, hash_thread, flagged, worker>>
    BY <1>6 DEF QueryChunks
  <2> QED
    BY <1>0, <2>1, QuietKeeps, CreatorKeeps
<1>7. CASE \E packet \in Packet : LosePacket(packet)
  BY <1>0, <1>7, QuietKeeps, CreatorKeeps DEF LosePacket, tickVars
<1>8. CASE IgnoreFileData
  <2>1. PICK packet \in worker : Lose(packet) \/ (Unasked /\ UNCHANGED creator)
    BY <1>8 DEF IgnoreFileData
  <2>2. worker' = {} /\ UNCHANGED <<life, tickVars, hash_thread>>
    BY <1>8 DEF IgnoreFileData
  <2>3. CreatorStep
    BY <1>0, <2>1, QuietKeeps
  <2> QED
    BY <2>2, <2>3, CreatorKeeps DEF tickVars
<1>9. CASE \E p \in Peers : \E m \in mChunks : TickReask(p, m)
  BY <1>0, <1>9, QuietKeeps, CreatorKeeps DEF TickReask, tickVars
<1>10. CASE \/ sendSingleChunkCRCRequests
            \/ \E c \in Chunks : \E sum \in Sums(c) : recvSingleChunkCRC(c, sum)
            \/ \E c \in Chunks : DispatchFails(c) \/ ServeBegin(c)
            \/ \E packet \in Packet : FindModule(packet)
            \/ ServeEnd
            \/ UNCHANGED tmVars
  <2>1. /\ UNCHANGED creator
        /\ pc' = pc \/ pc' = "switch"
        /\ UNCHANGED <<life, stat, mFlag, hash_thread, flagged>>
        /\ worker' \subseteq Packet
    BY <1>0, <1>10 DEF sendSingleChunkCRCRequests, recvSingleChunkCRC, DispatchFails, ServeBegin,
                 FindModule, ServeEnd, tickVars, tmVars
  <2> QED
    BY <1>0, <2>1, QuietKeeps, CreatorKeeps
<1>11. CASE \E c \in Chunks : Dispatch(c)
  BY <1>0, <1>11, VerifyKeeps, CreatorKeeps DEF Dispatch, tickVars
<1>12. ~ UserForces
  BY DEF UserForces
<1> QED
  BY <1>1, <1>2, <1>3, <1>4, <1>5, <1>6, <1>7, <1>8, <1>9, <1>10, <1>11, <1>12
     DEF TmNext, Tick

\* The creator keeps its invariant in a transfer, and the flags their meaning,
\* whatever data and checksums arrive, and however late.
THEOREM TransferControl ==
  ASSUME UserForceCheck = FALSE
  PROVE  TmSpec => []HashInv
<1>1. HashInv /\ [TmNext]_tmVars => HashInv'
  BY HashNext
<1> QED
  BY HashInit, <1>1, PTL DEF TmSpec

\* The creator is not deleted while the hash thread uses it.
THEOREM HashThreadSafe ==
  ASSUME UserForceCheck = FALSE
  PROVE  TmSpec => []HashHasCreator
<1>1. HashInv => HashHasCreator
  BY DEF HashInv, ControlInv, HashHasCreator
<1> QED
  BY TransferControl, <1>1, PTL

-----------------------------------------------------------------------------
(* Types of the transfer. *)

AnySum(c) == [BytesOf(c) -> {"hole", "good", "bad"}]

\* The members and the checksum cache have their types.
TransferTypes ==
  /\ life \in {"running", "moved", "cancelled"}
  /\ pc \in {"idle", "sources", "sending", "switch", "forcing"}
  /\ asking \subseteq Chunks
  /\ flagged \in BOOLEAN
  /\ hash_thread \in {"none", "started", "hashing", "match", "mismatch"}
  /\ worker \subseteq Packet
  /\ to_ask \subseteq Chunks
  /\ crc_map = [c \in Chunks |-> crc_map[c]]
  /\ \A c \in Chunks : crc_map[c] = NotSet \/ crc_map[c] \in AnySum(c)
  /\ received \subseteq Chunks
  /\ \A s \in serving : s[1] \in Chunks /\ s[2] \in AnySum(s[1])

LEMMA SumsTyped ==
  ASSUME NEW c \in Chunks
  PROVE  Sums(c) \subseteq AnySum(c)
  BY DEF Sums, RightSum, WrongSum, AnySum

LEMMA TypesInit == TmInit => TransferTypes
  BY DEF TmInit, TransferTypes

LEMMA CheckSumTyped ==
  ASSUME CreatorTypes, NEW c \in Chunks
  PROVE  CheckSum(c) \in AnySum(c)
<1>1. \A b \in BytesOf(c) : b \in Bytes
  BY BytesOfFacts
<1>2. \A b \in Bytes : disk[b] \in {"hole", "good", "bad"}
  BY DEF CreatorTypes, Qualities
<1> QED
  BY <1>1, <1>2 DEF CheckSum, AnySum

LEMMA TypesNext ==
  ASSUME HashInv, TransferTypes, [TmNext]_tmVars
  PROVE  TransferTypes'
<1>0. checking_queue \subseteq Chunks /\ CreatorTypes
  BY DEF HashInv, CreatorInv, IInv, TypeOK
<1>1. CASE \/ BeginTick \/ QueryFinished \/ TickDownloading \/ TickComplete \/ StartHash
           \/ TakeHash \/ HashIsWrong \/ UserForces
  BY <1>1 DEF BeginTick, QueryFinished, TickDownloading, TickComplete, StartHash, TakeHash,
              HashIsWrong, UserForces, TmForceCheck, crcVars, TransferTypes
<1>2. CASE QueryChunks \/ sendSingleChunkCRCRequests \/ completeFile
  BY <1>0, <1>2 DEF QueryChunks, sendSingleChunkCRCRequests, completeFile, crcVars, TransferTypes
<1>3. CASE FileCancel \/ BeginHash \/ EndHash \/ UNCHANGED tmVars
  BY <1>3 DEF FileCancel, BeginHash, EndHash, tmVars, tickVars, crcVars, TransferTypes
<1>4. CASE \/ \E p \in Peers, hint \in Hints, off \in Bytes, r \in Refs :
                TickSource(p, hint, off, r)
           \/ \E p \in Peers : \E m \in mChunks : TickReask(p, m)
           \/ \E S \in (SUBSET tracked) \ {{}} : CleanUp(S)
  BY <1>4 DEF TickSource, TickReask, CleanUp, tickVars, crcVars, TransferTypes
<1>5. CASE \/ \E packet \in Packet : FindModule(packet) \/ LosePacket(packet)
           \/ \E packet \in Packet, quality \in Qualities : recvFileData(packet, quality)
           \/ IgnoreFileData
  BY <1>5 DEF FindModule, LosePacket, recvFileData, IgnoreFileData, tickVars, crcVars,
              TransferTypes
<1>6. CASE \E c \in Chunks : Dispatch(c) \/ DispatchFails(c)
  BY <1>6 DEF Dispatch, DispatchFails, tickVars, TransferTypes
<1>7. CASE \E c \in Chunks : \E sum \in Sums(c) : recvSingleChunkCRC(c, sum)
  <2>1. PICK c \in Chunks : \E sum \in Sums(c) : recvSingleChunkCRC(c, sum)
    BY <1>7
  <2>2. PICK sum \in AnySum(c) : recvSingleChunkCRC(c, sum)
    BY <2>1, SumsTyped
  <2>3. crc_map' = [crc_map EXCEPT ![c] = sum]
    BY <2>2 DEF recvSingleChunkCRC
  <2>4. /\ crc_map' = [d \in Chunks |-> crc_map'[d]]
        /\ \A d \in Chunks : crc_map'[d] = NotSet \/ crc_map'[d] \in AnySum(d)
    BY <2>3 DEF TransferTypes
  <2>5. /\ to_ask' = to_ask \ {c} /\ received' = received \cup {c}
        /\ UNCHANGED <<life, tickVars, hash_thread, worker, serving>>
    BY <2>2 DEF recvSingleChunkCRC
  <2> QED
    BY <2>4, <2>5 DEF TransferTypes, tickVars, AnySum
<1>8. CASE \E c \in Chunks : ServeBegin(c)
  <2>1. PICK c \in Chunks : ServeBegin(c)
    BY <1>8
  <2>2. serving' = {<<c, CheckSum(c)>>} /\ CheckSum(c) \in AnySum(c)
    BY <1>0, <2>1, CheckSumTyped DEF ServeBegin
  <2>3. UNCHANGED <<life, tickVars, hash_thread, worker, to_ask, crc_map, received>>
    BY <2>1 DEF ServeBegin
  <2> QED
    BY <2>2, <2>3 DEF TransferTypes, tickVars, AnySum
<1>9. CASE ServeEnd
  <2>1. PICK s \in serving : /\ serving' = {}
                             /\ crc_map' = [crc_map EXCEPT ![s[1]] = s[2]]
    BY <1>9 DEF ServeEnd
  <2>2. s[1] \in Chunks /\ s[2] \in AnySum(s[1])
    BY DEF TransferTypes
  <2>3. /\ crc_map' = [d \in Chunks |-> crc_map'[d]]
        /\ \A d \in Chunks : crc_map'[d] = NotSet \/ crc_map'[d] \in AnySum(d)
    BY <2>1, <2>2 DEF TransferTypes
  <2>4. UNCHANGED <<life, tickVars, hash_thread, worker, to_ask, received>>
    BY <1>9 DEF ServeEnd
  <2> QED
    BY <2>1, <2>3, <2>4 DEF TransferTypes, tickVars, AnySum
<1> QED
  BY <1>1, <1>2, <1>3, <1>4, <1>5, <1>6, <1>7, <1>8, <1>9 DEF TmNext, Tick

\* The members of the transfer, the queues and the checksum cache keep their types;
\* so does the creator, whatever packets and checksums arrive.
THEOREM TransferTypeCorrect ==
  ASSUME UserForceCheck = FALSE
  PROVE  TmSpec => []TransferTypeOK
<1>1. HashInv /\ TransferTypes /\ [TmNext]_tmVars => TransferTypes'
  BY TypesNext
<1>2. HashInv /\ TransferTypes => TransferTypeOK
  <2> SUFFICES ASSUME HashInv, TransferTypes PROVE TransferTypeOK
    OBVIOUS
  <2>1. CreatorTypeOK
    BY CreatorInvFacts DEF HashInv
  <2>2. ControlInv
    BY DEF HashInv, HashInv
  <2> QED
    BY <2>1, <2>2 DEF TransferTypes, TransferTypeOK, ControlInv, AnySum
<1> QED
  BY TransferControl, TypesInit, <1>1, <1>2, PTL DEF TmSpec
=============================================================================
