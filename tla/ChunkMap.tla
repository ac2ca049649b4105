------------------------------ MODULE ChunkMap ------------------------------
(***************************************************************************)
(* The chunk map of a file being downloaded (class ChunkMap,               *)
(* libretroshare/src/ft/ftchunkmap.{h,cc}).                                *)
(*                                                                         *)
(* A file is cut into fixed-size chunks.  A peer that is given a chunk     *)
(* "feeds" on it: slices are carved off its front, one per data request,   *)
(* and recorded until their data is in.  When nothing of the chunk remains *)
(* it goes into checking, and a checksum decides whether it is DONE or has *)
(* to be downloaded again.                                                 *)
(*                                                                         *)
(* The operations are written as action formulas over the chunk map's own  *)
(* state, to be used by FtFileCreator, which calls them under ftcMutex.    *)
(* Spec below runs them under the most general client: any slice id may be *)
(* reported received and any chunk checked at any time.                    *)
(***************************************************************************)
EXTENDS Integers, FiniteSets

CONSTANTS
  Peers,            \* the sources; numbers, because std::map visits them in order
  FileSize,         \* _file_size, in units of data
  ChunkSize,        \* CHUNKMAP_FIXED_CHUNK_SIZE
  Hints,            \* the size hints a transfer module may ask with
  PeerMaps,         \* the availability maps a source may announce
  AssumeAvailability, \* _assume_availability
  Strategies,       \* the chunk strategies the user may select
  MaxJump,          \* FT_CHUNKMAP_MAX_CHUNK_JUMP
  W32, W64,         \* number of values of uint32_t and uint64_t
  UserForceCheck    \* may the user force a check while the file is incomplete?

NumChunks == (FileSize + ChunkSize - 1) \div ChunkSize

Chunks == 0 .. NumChunks - 1

Bytes == 0 .. FileSize - 1

ASSUME SizesAssumption ==
  /\ FileSize \in Nat \ {0}
  /\ ChunkSize \in Nat \ {0}
  /\ W32 \in Nat /\ FileSize < W32
  /\ W64 \in Nat /\ W32 <= W64

ASSUME SettingsAssumption ==
  /\ Peers \subseteq Nat
  /\ Hints \subseteq Nat \ {0}
  /\ PeerMaps \subseteq SUBSET Chunks
  /\ AssumeAvailability \in BOOLEAN
  /\ Strategies \subseteq {"STREAMING", "RANDOM", "PROGRESSIVE"}
  /\ Strategies # {}
  /\ MaxJump \in Nat \ {0}
  /\ UserForceCheck \in BOOLEAN

VARIABLES
  map,              \* _map: state of every chunk
  feed,             \* _active_chunks_feed: next offset to carve for a peer, or None
  tracked,          \* keys of _slices_to_download
  slices,           \* _slices of those entries: size of the slice with that id, or 0
  remains,          \* _remains of those entries (0 where there is none)
  total_downloaded, \* _total_downloaded
  file_is_complete, \* _file_is_complete
  checking_queue,   \* _chunks_checking_queue (always drained whole, hence a set)
  peer_map,         \* _peers_chunks_availability: chunks a source has
  strategy          \* _strategy

cmVars == <<map, feed, tracked, slices, remains, total_downloaded,
            file_is_complete, checking_queue, peer_map, strategy>>

-----------------------------------------------------------------------------
(* Geometry. *)

None == -1

ChunkOf(o) == o \div ChunkSize

StartOf(c) == c * ChunkSize

sizeOfChunk(c) == IF c = NumChunks - 1 THEN FileSize - c * ChunkSize ELSE ChunkSize

EndOf(c) == StartOf(c) + sizeOfChunk(c)

BytesOf(c) == StartOf(c) .. EndOf(c) - 1

Sizes == [c \in Chunks |-> sizeOfChunk(c)]

\* The sum of f[c], each below W32, over a finite set: the points below f's graph.
SumOver(S, f) == Cardinality({x \in S \X (1 .. W32) : x[2] <= f[x[1]]})

\* size - _remains, a difference of uint32_t.
Received(r) == [c \in Chunks |-> (sizeOfChunk(c) - r[c]) % W32]

-----------------------------------------------------------------------------
(* Construction, with the availability map of an earlier session.          *)

DefaultMap == IF AssumeAvailability THEN Chunks ELSE {}

\* setAvailabilityMap: the chunks saved as done stay done.
LoadedMap(done) == [c \in Chunks |-> IF c \in done THEN "DONE" ELSE "OUTSTANDING"]

\* ChunkMap::ChunkMap, then setAvailabilityMap.
Load(done) ==
  /\ map = LoadedMap(done)
  /\ total_downloaded = SumOver(done, Sizes) % W64
  /\ file_is_complete = (done = Chunks)
  /\ feed = [p \in Peers |-> None]
  /\ tracked = {}
  /\ slices = [o \in Bytes |-> 0]
  /\ remains = [c \in Chunks |-> 0]
  /\ checking_queue = {}
  /\ peer_map = [p \in Peers |-> DefaultMap]

\* The same, when a new chunk map replaces this one after a restart.
Reload(done) ==
  /\ map' = LoadedMap(done)
  /\ total_downloaded' = SumOver(done, Sizes) % W64
  /\ file_is_complete' = (done = Chunks)
  /\ feed' = [p \in Peers |-> None]
  /\ tracked' = {}
  /\ slices' = [o \in Bytes |-> 0]
  /\ remains' = [c \in Chunks |-> 0]
  /\ checking_queue' = {}
  /\ peer_map' = [p \in Peers |-> DefaultMap]
  /\ UNCHANGED strategy

CmInit ==
  /\ \E done \in SUBSET Chunks : Load(done)
  /\ strategy \in Strategies

-----------------------------------------------------------------------------
(* Completion. *)

\* First loop of updateTotalDownloaded: chunks checked or in checking count whole.
\* Second loop: what the tracked chunks have so far.
UpdatedTotal(m, t, r) ==
  ( SumOver({c \in Chunks : m[c] \in {"CHECKING", "DONE"}}, Sizes)
    - SumOver({c \in t : m[c] = "CHECKING"}, Sizes)
    + SumOver(t, Received(r)) ) % W64

AllDone(m) == \A c \in Chunks : m[c] = "DONE"

updateTotalDownloaded(m, t, r) ==
  /\ total_downloaded' = UpdatedTotal(m, t, r)
  /\ file_is_complete' = AllDone(m)

-----------------------------------------------------------------------------
(* Choosing a chunk. *)

\* Outstanding chunks this source has.
Available(p) == {c \in Chunks : map[c] = "OUTSTANDING" /\ c \in peer_map[p]}

\* available_chunks_before_max_dist: those below the last chunk already started.
AvailableBefore(p) ==
  {c \in Available(p) : \E d \in Chunks : c < d /\ map[d] # "OUTSTANDING"}

CandidateCount(p) ==
  CASE strategy = "STREAMING"   -> 1
    [] strategy = "RANDOM"      -> Cardinality(Available(p))
    [] strategy = "PROGRESSIVE" -> Cardinality(AvailableBefore(p)) + MaxJump

\* getAvailableChunk: every chunk the call can return.
getAvailableChunk(p) ==
  {c \in Available(p) :
     Cardinality({d \in Available(p) : d < c}) < CandidateCount(p)}

-----------------------------------------------------------------------------
(* Carving slices. *)

\* Chunk::getSlice: size of the slice carved at off for that size hint.
SliceSize(off, hint) ==
  LET left == EndOf(ChunkOf(off)) - off
  IN  IF hint < left THEN hint ELSE left

\* Mutant: the feed of a used-up chunk is not dropped.
CarveKeepsFeed(q, off, hint) ==
  /\ slices' = [slices EXCEPT ![off] = SliceSize(off, hint)]
  /\ feed' = [feed EXCEPT ![q] = off + SliceSize(off, hint)]

\* The common end of getDataChunk: carve the slice at off from q's feed and
\* drop the feed once the chunk is used up.
Carve(q, off, hint) ==
  LET n == SliceSize(off, hint)
  IN  /\ slices' = [slices EXCEPT ![off] = n]
      /\ feed' = [feed EXCEPT ![q] = IF off + n = EndOf(ChunkOf(off))
                                     THEN None ELSE off + n]

\* Feeds of other peers on a chunk that p also has.
Feeding(p) == {q \in Peers : feed[q] # None /\ ChunkOf(feed[q]) \in peer_map[p]}

SlicesOf(c) == {o \in Bytes : slices[o] > 0 /\ ChunkOf(o) = c}

\* Those whose chunk's last slice is small enough for p to keep up
\* (size * 0.7 <= hint).
Shareable(p, hint) ==
  {q \in Feeding(p) :
     \E o \in SlicesOf(ChunkOf(feed[q])) :
       /\ \A o2 \in SlicesOf(ChunkOf(feed[q])) : o2 <= o
       /\ 7 * slices[o] <= 10 * hint}

\* Entries operator[] creates while the feeds of the peers in S are looked at.
Touched(S) == {ChunkOf(feed[q]) : q \in S}

\* The peer already feeds on a chunk.
ReuseFeed(p, hint, off) ==
  /\ feed[p] # None
  /\ off = feed[p]
  /\ Carve(p, off, hint)
  /\ tracked' = tracked \cup {ChunkOf(off)}
  /\ UNCHANGED <<map, remains>>

\* It shares the first suitable feed of another peer.
ShareFeed(p, hint, off) ==
  /\ feed[p] = None
  /\ \E q \in Shareable(p, hint) :
       /\ \A r \in Shareable(p, hint) : q <= r
       /\ off = feed[q]
       /\ Carve(q, off, hint)
       /\ tracked' = tracked \cup Touched({r \in Feeding(p) : r <= q})
  /\ UNCHANGED <<map, remains>>

\* It takes a new chunk.
AllocateChunk(p, hint, off) ==
  /\ feed[p] = None
  /\ Shareable(p, hint) = {}
  /\ \E c \in getAvailableChunk(p) :
       /\ off = StartOf(c)
       /\ Carve(p, off, hint)
       /\ map' = [map EXCEPT ![c] = "ACTIVE"]
       /\ remains' = [remains EXCEPT ![c] = sizeOfChunk(c)]
       /\ tracked' = tracked \cup {c} \cup Touched(Feeding(p))

\* No chunk is left: the last feed looked at is shared after all.
FailsafeFeed(p, hint, off) ==
  /\ feed[p] = None
  /\ Shareable(p, hint) = {}
  /\ getAvailableChunk(p) = {}
  /\ \E q \in Feeding(p) :
       /\ \A r \in Feeding(p) : r <= q
       /\ off = feed[q]
       /\ Carve(q, off, hint)
  /\ tracked' = tracked \cup Touched(Feeding(p))
  /\ UNCHANGED <<map, remains>>

\* getDataChunk returns the slice at off, of size SliceSize(off, hint).
getDataChunk(p, hint, off) ==
  /\ \/ ReuseFeed(p, hint, off)
     \/ ShareFeed(p, hint, off)
     \/ AllocateChunk(p, hint, off)
     \/ FailsafeFeed(p, hint, off)
  /\ UNCHANGED <<total_downloaded, file_is_complete, checking_queue, peer_map,
                 strategy>>

-----------------------------------------------------------------------------
(* Data, checks and clean-up. *)

ForgetSlices(S) == [o \in Bytes |-> IF ChunkOf(o) \in S THEN 0 ELSE slices[o]]

ForgetRemains(S) == [c \in Chunks |-> IF c \in S THEN 0 ELSE remains[c]]

\* A file of one chunk is not put in checking: its hash is checked anyway.
SkipsChecking(c) == c = 0 /\ FileSize <= ChunkSize

\* Mutant: the download records of a finished chunk are not erased.
ChunkReceivedKeepsRecords(c) ==
  /\ map' = [map EXCEPT ![c] = "CHECKING"]
  /\ checking_queue' = checking_queue \cup {c}
  /\ UNCHANGED tracked
  /\ slices' = ForgetSlices({c})
  /\ remains' = ForgetRemains({c})
  /\ updateTotalDownloaded(map', tracked, remains')

\* The last slice of the chunk is in.
ChunkReceived(c) ==
  /\ map' = [map EXCEPT ![c] = IF SkipsChecking(c) THEN "DONE" ELSE "CHECKING"]
  /\ checking_queue' = IF SkipsChecking(c) THEN checking_queue
                       ELSE checking_queue \cup {c}
  /\ tracked' = tracked \ {c}
  /\ slices' = ForgetSlices({c})
  /\ remains' = ForgetRemains({c})
  /\ updateTotalDownloaded(map', tracked', remains')

\* Mutant: the slice is not erased.
SliceReceivedKeepsSlice(id) ==
  /\ remains' = [remains EXCEPT ![ChunkOf(id)] = (@ - slices[id]) % W32]
  /\ total_downloaded' = (total_downloaded + slices[id]) % W64
  /\ UNCHANGED <<slices, map, tracked, file_is_complete, checking_queue>>

\* One more slice of the chunk is in.
SliceReceived(id) ==
  /\ slices' = [slices EXCEPT ![id] = 0]
  /\ remains' = [remains EXCEPT ![ChunkOf(id)] = (@ - slices[id]) % W32]
  /\ total_downloaded' = (total_downloaded + slices[id]) % W64
  /\ UNCHANGED <<map, tracked, file_is_complete, checking_queue>>

\* dataReceived(id); an id without a slice is reported and ignored.
dataReceived(id) ==
  /\ IF slices[id] = 0
       THEN UNCHANGED <<map, tracked, slices, remains, total_downloaded,
                        file_is_complete, checking_queue>>
       ELSE IF (remains[ChunkOf(id)] - slices[id]) % W32 = 0
              THEN ChunkReceived(ChunkOf(id))
              ELSE SliceReceived(id)
  /\ UNCHANGED <<feed, peer_map, strategy>>

\* getChunksToCheck hands the whole queue over.
getChunksToCheck ==
  /\ checking_queue' = {}
  /\ UNCHANGED <<map, feed, tracked, slices, remains, total_downloaded,
                 file_is_complete, peer_map, strategy>>

\* Mutant: the flag is not updated with the last chunk.
CheckingResultForgetsFlag(c, succeeded) ==
  /\ map[c] = "CHECKING"
  /\ map' = [map EXCEPT ![c] = IF succeeded THEN "DONE" ELSE "OUTSTANDING"]
  /\ total_downloaded' = IF succeeded THEN total_downloaded
                         ELSE (total_downloaded - sizeOfChunk(c)) % W64
  /\ UNCHANGED <<feed, tracked, slices, remains, file_is_complete, checking_queue,
                 peer_map, strategy>>

\* Mutant: results are not refused for chunks that are not in checking.
CheckingResultUnguarded(c, succeeded) ==
  /\ map' = [map EXCEPT ![c] = IF succeeded THEN "DONE" ELSE "OUTSTANDING"]
  /\ file_is_complete' = AllDone(map')
  /\ UNCHANGED <<feed, tracked, slices, remains, total_downloaded, checking_queue,
                 peer_map, strategy>>

\* setChunkCheckingResult; ignored unless the chunk is in checking.
setChunkCheckingResult(c, succeeded) ==
  /\ \/ /\ map[c] = "CHECKING"
        /\ succeeded
        /\ map' = [map EXCEPT ![c] = "DONE"]
        /\ file_is_complete' = AllDone(map')
        /\ UNCHANGED total_downloaded
     \/ /\ map[c] = "CHECKING"
        /\ ~succeeded
        /\ map' = [map EXCEPT ![c] = "OUTSTANDING"]
        /\ total_downloaded' = (total_downloaded - sizeOfChunk(c)) % W64
        /\ UNCHANGED file_is_complete
     \/ /\ map[c] # "CHECKING"
        /\ UNCHANGED <<map, total_downloaded, file_is_complete>>
  /\ UNCHANGED <<feed, tracked, slices, remains, checking_queue, peer_map,
                 strategy>>

\* Mutant: the bytes given up are still counted as downloaded.
RemoveInactiveKeepsTotal(S) ==
  /\ map' = [c \in Chunks |-> IF c \in S THEN "OUTSTANDING" ELSE map[c]]
  /\ feed' = [p \in Peers |-> IF feed[p] # None /\ ChunkOf(feed[p]) \in S
                              THEN None ELSE feed[p]]
  /\ tracked' = tracked \ S
  /\ slices' = ForgetSlices(S)
  /\ remains' = ForgetRemains(S)
  /\ UNCHANGED <<total_downloaded, file_is_complete, checking_queue, peer_map, strategy>>

\* Mutant: peers go on feeding on the chunks given up.
RemoveInactiveKeepsFeeds(S) ==
  /\ map' = [c \in Chunks |-> IF c \in S THEN "OUTSTANDING" ELSE map[c]]
  /\ total_downloaded' = (total_downloaded - SumOver(S, Received(remains))) % W64
  /\ tracked' = tracked \ S
  /\ slices' = ForgetSlices(S)
  /\ remains' = ForgetRemains(S)
  /\ UNCHANGED <<feed, file_is_complete, checking_queue, peer_map, strategy>>

\* removeInactiveChunks, when the chunks of S got nothing for
\* INACTIVE_CHUNK_TIME_LAPSE: they are downloaded again from scratch.
removeInactiveChunks(S) ==
  /\ map' = [c \in Chunks |-> IF c \in S THEN "OUTSTANDING" ELSE map[c]]
  /\ total_downloaded' =
       (total_downloaded - SumOver(S, Received(remains))) % W64
  /\ feed' = [p \in Peers |-> IF feed[p] # None /\ ChunkOf(feed[p]) \in S
                              THEN None ELSE feed[p]]
  /\ tracked' = tracked \ S
  /\ slices' = ForgetSlices(S)
  /\ remains' = ForgetRemains(S)
  /\ UNCHANGED <<file_is_complete, checking_queue, peer_map, strategy>>

\* Ids removeInactiveChunks hands to the file creator.
ToRemove(S) == {o \in Bytes : slices[o] > 0 /\ ChunkOf(o) \in S}

\* forceCheck: called when the hash of a complete file is wrong, and by the user.
forceCheck ==
  /\ map' = [c \in Chunks |-> "CHECKING"]
  /\ checking_queue' = Chunks
  /\ updateTotalDownloaded(map', tracked, remains)
  /\ UNCHANGED <<feed, tracked, slices, remains, peer_map, strategy>>

MayForceCheck == file_is_complete \/ UserForceCheck

setPeerAvailabilityMap(p, m) ==
  /\ peer_map' = [peer_map EXCEPT ![p] = m]
  /\ UNCHANGED <<map, feed, tracked, slices, remains, total_downloaded,
                 file_is_complete, checking_queue, strategy>>

\* removeFileSource: the record is made anew, by default, when next needed.
removeFileSource(p) == setPeerAvailabilityMap(p, DefaultMap)

setStrategy(s) ==
  /\ strategy' = s
  /\ UNCHANGED <<map, feed, tracked, slices, remains, total_downloaded,
                 file_is_complete, checking_queue, peer_map>>

-----------------------------------------------------------------------------
(* The chunk map under its most general client. *)

CmNext ==
  \/ \E p \in Peers, hint \in Hints, off \in Bytes : getDataChunk(p, hint, off)
  \/ \E id \in Bytes : dataReceived(id)
  \/ getChunksToCheck
  \/ \E c \in Chunks, succeeded \in BOOLEAN : setChunkCheckingResult(c, succeeded)
  \/ \E S \in SUBSET tracked : removeInactiveChunks(S)
  \/ MayForceCheck /\ forceCheck
  \/ \E p \in Peers, m \in PeerMaps : setPeerAvailabilityMap(p, m)
  \/ \E p \in Peers : removeFileSource(p)
  \/ \E s \in Strategies : setStrategy(s)

CmSpec == CmInit /\ [][CmNext]_cmVars

-----------------------------------------------------------------------------
(* Properties. *)

States == {"OUTSTANDING", "ACTIVE", "CHECKING", "DONE"}

\* Type invariant of the members of class ChunkMap.
TypeOK ==
  /\ map \in [Chunks -> States]
  /\ feed \in [Peers -> Bytes \cup {None}]
  /\ tracked \subseteq Chunks
  /\ slices \in [Bytes -> 0 .. FileSize]
  /\ remains \in [Chunks -> 0 .. W32 - 1]
  /\ total_downloaded \in 0 .. W64 - 1
  /\ file_is_complete \in BOOLEAN
  /\ checking_queue \subseteq Chunks
  /\ peer_map \in [Peers -> SUBSET Chunks]
  /\ strategy \in Strategies

\* A byte is missing from a chunk when some pending slice covers it or when it
\* lies in the part no slice was carved from yet.
InSlice(b) == \E o \in Bytes : slices[o] > 0 /\ o <= b /\ b < o + slices[o]

InFeed(b) ==
  \E p \in Peers : feed[p] # None /\ ChunkOf(feed[p]) = ChunkOf(b) /\ feed[p] <= b

Missing(c) == {b \in BytesOf(c) : InSlice(b) \/ InFeed(b)}

\* The _remains of a chunk in download is exactly the number of its bytes that
\* are still to come, so the chunk is handed to checking by dataReceived when,
\* and only when, all of it is there; it never wraps around.
RemainsExact == \A c \in tracked : remains[c] = Cardinality(Missing(c))

\* _total_downloaded, kept up to date by += and -= in five functions, is the
\* number of bytes in checked chunks, in chunks in checking and in the parts
\* received of active ones.
TotalExact ==
  total_downloaded =
    Cardinality({b \in Bytes :
      LET c == ChunkOf(b)
      IN  \/ map[c] \in {"CHECKING", "DONE"}
          \/ map[c] = "ACTIVE" /\ b \notin Missing(c)})

\* No byte is asked for twice: the slices handed out to the peers by
\* getDataChunk are disjoint from each other and from what is left to carve.
SlicesDisjoint ==
  \A o \in Bytes : slices[o] > 0 =>
    /\ ChunkOf(o) \in tracked
    /\ o + slices[o] <= EndOf(ChunkOf(o))
    /\ \A p \in Peers : feed[p] # None /\ ChunkOf(feed[p]) = ChunkOf(o)
                          => o + slices[o] <= feed[p]
    /\ \A o2 \in Bytes : slices[o2] > 0 /\ o < o2 => o + slices[o] <= o2

\* The chunks with download records are exactly the active ones, a peer feeds
\* only on such a chunk and no two peers feed on the same: an active chunk
\* always has bytes to come, and none is left behind without anyone to ask for it.
ActiveIsTracked ==
  /\ tracked = {c \in Chunks : map[c] = "ACTIVE"}
  /\ \A p \in Peers : feed[p] # None => ChunkOf(feed[p]) \in tracked
  /\ \A p, q \in Peers :
       p # q /\ feed[p] # None /\ feed[q] # None => ChunkOf(feed[p]) # ChunkOf(feed[q])
  /\ \A c \in tracked : Missing(c) # {}

\* isComplete() tells the truth: the flag, which is recomputed at some changes of
\* the map only, says whether every chunk is done.
CompleteExact == file_is_complete <=> AllDone(map)

\* A chunk that was found good is only ever questioned again by a check of the
\* whole file, not by late data, clean-up or a new allocation.
DoneIsFinal ==
  [][ \A c \in Chunks : map[c] = "DONE" /\ map'[c] # "DONE"
        => \A d \in Chunks : map'[d] = "CHECKING" ]_cmVars

=============================================================================
