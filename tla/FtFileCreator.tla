--------------------------- MODULE FtFileCreator ---------------------------
(***************************************************************************)
(* The file creator (class ftFileCreator, ft/ftfilecreator.{h,cc}): the    *)
(* partial file on disk, the chunk map, and the pending pieces of slices   *)
(* that were requested from the sources.                                   *)
(*                                                                         *)
(* Every operation holds ftcMutex, so each is one action.  The threads     *)
(* that interleave are the controller's tick (requests, clean-up, forced   *)
(* checks), the data multiplexer's worker (arriving data) and the file     *)
(* server's tick (checksums).                                              *)
(*                                                                         *)
(* Network: a source answers a request by packets of at most MAX_FT_CHUNK  *)
(* bytes.  coming counts the packets that were requested and are still on  *)
(* their way; they arrive in any order, however late, or get lost.  A      *)
(* piece older than CHUNK_MAX_AGE is asked again, from any source, while   *)
(* the first answer may still arrive: then there are two of its packets.   *)
(* No part of the creator looks at what was asked for before it writes:    *)
(* with Unasked any packet may arrive at any time, which includes answers  *)
(* to requests long given up, repeated ones, and those of other slices.    *)
(***************************************************************************)
EXTENDS ChunkMap

CONSTANTS
  PacketSize,       \* MAX_FT_CHUNK
  MaxPerPeer,       \* MAX_FTCHUNKS_PER_PEER
  MaxCopies,        \* bound on equal packets on their way (further ones get lost)
  Refs,             \* names for the shared counters (bound on those in use)
  Unasked,          \* may any packet arrive at any time, asked for or not?
  Corruption,       \* may a source send wrong data?
  WrongSums,        \* may a source send a wrong checksum?
  CleanUps,         \* are chunks ever inactive for INACTIVE_CHUNK_TIME_LAPSE?
  Restarts          \* may the program stop and start again?

ASSUME CreatorAssumption ==
  /\ PacketSize \in Nat \ {0}
  /\ MaxPerPeer \in Nat \ {0}
  /\ MaxCopies \in Nat
  /\ Refs \subseteq Nat
  /\ Unasked \in BOOLEAN
  /\ Corruption \in BOOLEAN
  /\ WrongSums \in BOOLEAN
  /\ CleanUps \in BOOLEAN
  /\ Restarts \in BOOLEAN

VARIABLES
  mChunks,          \* mChunks: the pieces still to be received, keyed by offset
  ref_cnt,          \* the counters shared by the pieces of a slice
  per_peer,         \* mChunksPerPeer[p].cnt
  disk,             \* what the partial file holds at each offset
  coming,           \* how many copies of a packet are on their way
  saved,            \* chunk map in the saved configuration: the chunks done
  awaited           \* auxiliary: bytes asked for and not written since

creatorVars == <<mChunks, ref_cnt, per_peer, disk, coming, saved, awaited>>

vars == <<cmVars, creatorVars>>

Piece == [offset : 0 .. FileSize, size : 0 .. W64 - 1, id : Bytes,
          peer : Peers, ref : Refs]

Packet == [offset : Bytes, size : 1 .. PacketSize]

-----------------------------------------------------------------------------
(* Requests and their answers. *)

\* ftServer::sendData splits the answer; ftFileProvider cuts it at the file's end.
Packets(off, size) ==
  LET end == IF off + size < FileSize THEN off + size ELSE FileSize
  IN  {[offset |-> o, size |-> IF o + PacketSize < end THEN PacketSize ELSE end - o] :
         o \in {b \in off .. end - 1 : (b - off) % PacketSize = 0}}

\* A source is asked for size bytes at off.
Ask(off, size) ==
  coming' = [k \in Packet |-> IF k \in Packets(off, size) /\ coming[k] < MaxCopies
                              THEN coming[k] + 1 ELSE coming[k]]

\* mChunks[piece.offset] = piece
Put(pieces, piece) == {m \in pieces : m.offset # piece.offset} \cup {piece}

\* The counter that new int would give: one no piece uses.
FreshRef(r) ==
  /\ \A m \in mChunks : m.ref # r
  /\ \A s \in Refs : s < r => \E m \in mChunks : m.ref = s

\* getMissingChunk, 0: a piece is too old and is asked again, from a source
\* that has it.  Nothing but its time stamp changes here.
ReaskPiece(p, m) ==
  /\ ChunkOf(m.offset) \in peer_map[p]
  /\ Ask(m.offset, m.size)
  /\ UNCHANGED <<cmVars, mChunks, ref_cnt, per_peer, disk, saved, awaited>>

\* getMissingChunk, 1: a new slice, unless the peer has too many already.
RequestSlice(p, hint, off, r) ==
  /\ per_peer[p] < MaxPerPeer
  /\ FreshRef(r)
  /\ getDataChunk(p, hint, off)
  /\ mChunks' = Put(mChunks, [offset |-> off, size |-> SliceSize(off, hint),
                              id |-> off, peer |-> p, ref |-> r])
  /\ ref_cnt' = [ref_cnt EXCEPT ![r] = 1]
  /\ per_peer' = [per_peer EXCEPT ![p] = (@ + 1) % W32]
  /\ Ask(off, SliceSize(off, hint))
  /\ awaited' = awaited \cup (off .. off + SliceSize(off, hint) - 1)
  /\ UNCHANGED <<disk, saved>>

-----------------------------------------------------------------------------
(* Arriving data. *)

InPacket(packet) == packet.offset .. packet.offset + packet.size - 1

\* What of a packet lies before the end of the file.
Clipped(packet) ==
  [offset |-> packet.offset,
   size |-> IF packet.offset + packet.size > FileSize
            THEN FileSize - packet.offset ELSE packet.size]

\* addFileData writes the data first, whatever becomes of it then.
Write(packet, quality) ==
  /\ disk' = [b \in Bytes |-> IF b \in InPacket(packet) THEN quality ELSE disk[b]]
  /\ awaited' = awaited \ InPacket(packet)

\* Mutant: every finished piece reports the slice, whatever its counter says.
ReceivedForIgnoresCounter(piece, pieces, refs, n) ==
  /\ mChunks' = IF piece.size = n THEN pieces
                ELSE Put(pieces, [piece EXCEPT !.size = (@ - n) % W64, !.offset = @ + n])
  /\ ref_cnt' = refs
  /\ IF piece.size = n
       THEN /\ dataReceived(piece.id)
            /\ per_peer' = [per_peer EXCEPT ![piece.peer] = (@ - 1) % W32]
       ELSE UNCHANGED <<cmVars, per_peer>>

\* The end of locked_notifyReceived: n bytes came in for the piece, taken out of
\* pieces; what is left of it goes back, or the piece is finished, and with the
\* last piece of a slice the slice.
ReceivedFor(piece, pieces, refs, n) ==
  \/ /\ piece.size # n
     /\ mChunks' = Put(pieces, [piece EXCEPT !.size = (@ - n) % W64, !.offset = @ + n])
     /\ ref_cnt' = refs
     /\ UNCHANGED <<cmVars, per_peer>>
  \/ /\ piece.size = n
     /\ mChunks' = pieces
     /\ ref_cnt' = [refs EXCEPT ![piece.ref] = @ - 1]
     /\ IF refs[piece.ref] = 1
          THEN /\ dataReceived(piece.id)
               /\ per_peer' = [per_peer EXCEPT ![piece.peer] = (@ - 1) % W32]
          ELSE UNCHANGED <<cmVars, per_peer>>

\* The packet starts where a piece starts.
ExactPieces(packet) == {m \in mChunks : m.offset = packet.offset}

\* The packet lies inside a piece (sums of uint64_t).
ContainingPieces(packet) ==
  {m \in mChunks : /\ m.offset < packet.offset
                   /\ (m.size + m.offset) % W64 >= packet.size + packet.offset}

\* Mutant: the two parts of a split piece are not counted.
SplitPieceNoCount(packet, m) ==
  LET part1 == [m EXCEPT !.size = packet.offset - m.offset]
      rest  == [m EXCEPT !.offset = packet.offset, !.size = (@ - part1.size) % W64]
  IN  ReceivedFor(rest, Put(mChunks, part1), ref_cnt, packet.size)

\* Mutant: the second part keeps the size of the whole piece.
SplitPieceKeepsSize(packet, m) ==
  LET part1 == [m EXCEPT !.size = packet.offset - m.offset]
      rest  == [m EXCEPT !.offset = packet.offset]
  IN  ReceivedFor(rest, Put(mChunks, part1),
                  [ref_cnt EXCEPT ![m.ref] = @ + 1], packet.size)

\* Mutant: the first part is dropped.
SplitPieceDropsFirst(packet, m) ==
  LET part1 == [m EXCEPT !.size = packet.offset - m.offset]
      rest  == [m EXCEPT !.offset = packet.offset, !.size = (@ - part1.size) % W64]
  IN  ReceivedFor(rest, mChunks \ {m},
                  [ref_cnt EXCEPT ![m.ref] = @ + 1], packet.size)

\* An earlier packet was lost: the piece is split, its first part asked again.
SplitPiece(packet, m) ==
  LET part1 == [m EXCEPT !.size = packet.offset - m.offset]
      rest  == [m EXCEPT !.offset = packet.offset, !.size = (@ - part1.size) % W64]
  IN  ReceivedFor(rest, Put(mChunks, part1),
                  [ref_cnt EXCEPT ![m.ref] = @ + 1], packet.size)

locked_notifyReceived(packet) ==
  IF ExactPieces(packet) # {}
    THEN \E m \in ExactPieces(packet) :
           ReceivedFor(m, mChunks \ {m}, ref_cnt, packet.size)
    ELSE IF ContainingPieces(packet) # {}
           THEN \E m \in ContainingPieces(packet) :
                  /\ \A m2 \in ContainingPieces(packet) : m.offset <= m2.offset
                  /\ SplitPiece(packet, m)
           ELSE UNCHANGED <<cmVars, mChunks, ref_cnt, per_peer>>

addFileData(packet, quality) ==
  /\ Write(Clipped(packet), quality)
  /\ locked_notifyReceived(Clipped(packet))
  /\ UNCHANGED saved

\* An answer leaves the network.
Take(packet) ==
  /\ coming[packet] > 0
  /\ coming' = [coming EXCEPT ![packet] = @ - 1]

\* What may arrive: an answer on its way or, if Unasked, any packet.
Arrives(packet) == Take(packet) \/ (Unasked /\ UNCHANGED coming)

Receive(packet, quality) == Arrives(packet) /\ addFileData(packet, quality)

\* The packet gets lost: the source goes offline, or the data cannot be written.
Lose(packet) ==
  /\ Take(packet)
  /\ UNCHANGED <<cmVars, mChunks, ref_cnt, per_peer, disk, saved, awaited>>

-----------------------------------------------------------------------------
(* Clean-up, checks, sources. *)

RemovedPieces(S) == {m \in mChunks : m.id \in ToRemove(S)}

\* removeInactiveChunks: the pieces of the chunks dropped go with them; answers
\* on their way do not.
RemoveInactive(S) ==
  /\ removeInactiveChunks(S)
  /\ mChunks' = mChunks \ RemovedPieces(S)
  /\ ref_cnt' = [r \in Refs |->
                   ref_cnt[r] - Cardinality({m \in RemovedPieces(S) : m.ref = r})]
  /\ per_peer' = [p \in Peers |->
                    (per_peer[p] - Cardinality({m \in RemovedPieces(S) : m.peer = p})) % W32]
  /\ awaited' = {b \in awaited : ChunkOf(b) \notin S}
  /\ UNCHANGED <<disk, coming, saved>>

\* Checksums, as injective as SHA1: what a chunk of the partial file holds, and
\* what it should hold.  Nothing can be read behind the last byte written.
CheckSum(c) == [b \in BytesOf(c) |-> disk[b]]

RightSum(c) == [b \in BytesOf(c) |-> "good"]

WrongSum(c) == [b \in BytesOf(c) |-> "bad"]

Sums(c) == IF WrongSums THEN {RightSum(c), WrongSum(c)} ELSE {RightSum(c)}

Readable(c) == \E b \in Bytes : StartOf(c) <= b /\ disk[b] # "hole"

\* verifyChunk: the chunk is read back and compared with a checksum.
verifyChunk(c, sum) ==
  /\ setChunkCheckingResult(c, Readable(c) /\ CheckSum(c) = sum)
  /\ UNCHANGED creatorVars

TakeChunksToCheck ==
  /\ getChunksToCheck
  /\ UNCHANGED creatorVars

ForceCheck ==
  /\ MayForceCheck
  /\ forceCheck
  /\ UNCHANGED creatorVars

setSourceMap(p, m) ==
  /\ setPeerAvailabilityMap(p, m)
  /\ UNCHANGED creatorVars

RemoveSource(p) ==
  /\ removeFileSource(p)
  /\ UNCHANGED creatorVars

setChunkStrategy(s) ==
  /\ setStrategy(s)
  /\ UNCHANGED creatorVars

\* ftController::saveList stores the availability map: the chunks done.
SaveMap ==
  /\ saved' = {c \in Chunks : map[c] = "DONE"}
  /\ UNCHANGED <<cmVars, mChunks, ref_cnt, per_peer, disk, coming, awaited>>

\* A new session: handleAPendingRequest makes a new creator for the same partial
\* file and gives it the saved map.  Answers to the old one may still come.
Restart ==
  /\ Reload(saved)
  /\ mChunks' = {}
  /\ ref_cnt' = [r \in Refs |-> 0]
  /\ per_peer' = [p \in Peers |-> 0]
  /\ awaited' = {}
  /\ UNCHANGED <<disk, coming, saved>>

-----------------------------------------------------------------------------
Init ==
  /\ Load({})
  /\ strategy \in Strategies
  /\ mChunks = {}
  /\ ref_cnt = [r \in Refs |-> 0]
  /\ per_peer = [p \in Peers |-> 0]
  /\ disk = [b \in Bytes |-> "hole"]
  /\ coming = [k \in Packet |-> 0]
  /\ saved = {}
  /\ awaited = {}

Qualities == IF Corruption THEN {"good", "bad"} ELSE {"good"}

Next ==
  \/ \E p \in Peers : \E m \in mChunks : ReaskPiece(p, m)
  \/ \E p \in Peers, hint \in Hints, off \in Bytes, r \in Refs :
       RequestSlice(p, hint, off, r)
  \/ \E packet \in Packet, quality \in Qualities : Receive(packet, quality)
  \/ \E packet \in Packet : Lose(packet)
  \/ CleanUps /\ \E S \in (SUBSET tracked) \ {{}} : RemoveInactive(S)
  \/ \E c \in Chunks : \E sum \in Sums(c) : verifyChunk(c, sum)
  \/ TakeChunksToCheck
  \/ ForceCheck
  \/ \E p \in Peers, m \in PeerMaps : setSourceMap(p, m)
  \/ \E p \in Peers : RemoveSource(p)
  \/ \E s \in Strategies : setChunkStrategy(s)
  \/ Restarts /\ (SaveMap \/ Restart)

Spec == Init /\ [][Next]_vars

\* The piece at off is asked again.
Reask(off) == \E p \in Peers : \E m \in mChunks : m.offset = off /\ ReaskPiece(p, m)

\* Data that a pending piece starts with comes in.
Answer(packet) ==
  ExactPieces(packet) # {} /\ Take(packet) /\ addFileData(packet, "good")

\* The controller ticks every source of every transfer, so that free sources are
\* given slices and lost pieces are asked again; a packet asked for again and
\* again is not lost for ever; some source answers requests for checksums.
Fairness ==
  /\ \A p \in Peers :
       WF_vars(\E hint \in Hints, off \in Bytes, r \in Refs : RequestSlice(p, hint, off, r))
  /\ \A off \in Bytes : WF_vars(Reask(off))
  /\ \A packet \in Packet : SF_vars(Answer(packet))
  /\ \A c \in Chunks : WF_vars(map[c] = "CHECKING" /\ verifyChunk(c, RightSum(c)))

FairSpec == Spec /\ Fairness

-----------------------------------------------------------------------------
(* Properties. *)

\* Type invariant of the creator's members and of the partial file.
CreatorTypeOK ==
  /\ TypeOK
  /\ mChunks \subseteq Piece
  /\ ref_cnt \in [Refs -> Nat]
  /\ per_peer \in [Peers -> 0 .. W32 - 1]
  /\ disk \in [Bytes -> {"hole", "good", "bad"}]
  /\ coming \in [Packet -> 0 .. MaxCopies]
  /\ saved \subseteq Chunks
  /\ awaited \subseteq Bytes

\* A piece with data to come: inside its slice.
Pending(m) ==
  /\ m.size > 0
  /\ m.id <= m.offset
  /\ m.offset + m.size <= m.id + slices[m.id]

\* A packet longer than the piece it started with made the piece's size wrap.
Wrapped(m) == m.size < W64 /\ m.offset + m.size >= W64

\* Whatever packets arrive, a piece belongs to a slice the chunk map waits for
\* (dataReceived asserts that the id it is called with does), and it either lies
\* in that slice, apart from all other such pieces, or has wrapped beyond
\* repair: split and shortened pieces never claim the bytes of others.
PiecesDisjoint ==
  /\ \A m \in mChunks : slices[m.id] > 0 /\ (Pending(m) \/ Wrapped(m))
  /\ \A m, n \in mChunks :
       Pending(m) /\ Pending(n) /\ m.offset < n.offset => m.offset + m.size <= n.offset

\* The counter the pieces of a slice share, and no other piece does, is never
\* below their number, also when a piece with the same offset replaced one of
\* them: locked_notifyReceived neither reports the slice nor deletes the counter
\* while a piece of it is left.
RefCountEnough ==
  \A m \in mChunks :
    /\ ref_cnt[m.ref] >= Cardinality({n \in mChunks : n.ref = m.ref})
    /\ \A n \in mChunks : n.ref = m.ref <=> n.id = m.id

\* While no chunk is given up or downloaded again, so that a packet fits the
\* pieces it meets, the counter is exactly their number: the last piece does
\* report the slice.
RefCountExact ==
  \A m \in mChunks : ref_cnt[m.ref] = Cardinality({n \in mChunks : n.ref = m.ref})

\* Under the same condition the two books kept of a request agree: a slice the
\* chunk map waits for has pieces in mChunks that getMissingChunk will ask again,
\* and a piece belongs to a slice the chunk map waits for.
NothingForgotten == \A id \in Bytes : slices[id] > 0 <=> \E m \in mChunks : m.id = id

\* A chunk is handed to checking, or declared done, only when every byte of it
\* was written to the partial file, whatever packets arrive.
ReceivedIsWritten ==
  \A c \in Chunks : map[c] \in {"CHECKING", "DONE"} =>
    \A b \in BytesOf(c) : disk[b] # "hole"

\* mChunksPerPeer counts the slices that are pending at each peer.
PerPeerExact ==
  \A p \in Peers :
    per_peer[p] = Cardinality({id \in Bytes : \E m \in mChunks : m.id = id /\ m.peer = p})

\* A download ends: with sources that have the file and answer, every chunk gets
\* asked for, received and verified, whatever is lost, repeated or reordered,
\* while no chunk is given up.
Completes == []<>file_is_complete

\* How far a byte is, read off the chunk map.
LifeOf(b) ==
  LET c == ChunkOf(b) IN
  IF map[c] = "DONE" THEN "verified"
  ELSE IF map[c] = "CHECKING" THEN "received"
  ELSE IF InSlice(b) THEN IF b \in awaited THEN "requested" ELSE "arrived"
  ELSE IF map[c] = "ACTIVE" /\ ~InFeed(b) THEN "received" ELSE "missing"

Download == INSTANCE FtDownload WITH
  Bytes <- Bytes,
  Parts <- {BytesOf(c) : c \in Chunks},
  Datas <- Qualities,
  life <- [b \in Bytes |-> LifeOf(b)],
  file <- disk,
  kept <- {BytesOf(c) : c \in saved}

\* The creator implements FtDownload: whatever packets arrive, through every
\* split, wrap, loss, clean-up and restart, a byte counts as received only when
\* it was written after it was last asked for, and is checked with its chunk.
KeepsBytes == Download!DlSpec
=============================================================================
