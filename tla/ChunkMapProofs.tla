--------------------------- MODULE ChunkMapProofs ---------------------------
(***************************************************************************)
(* Proofs about the chunk map, for every file size, chunk size, set of     *)
(* sources, size hints and chunk strategy.                                 *)
(***************************************************************************)
EXTENDS ChunkMap, FiniteSetTheorems, TLAPS

-----------------------------------------------------------------------------
(* Geometry: the chunks cut the file into consecutive non-empty intervals. *)

\* What integer division means, in the form the other lemmas use.
LEMMA Division ==
  ASSUME NEW a \in Nat, NEW k \in Nat \ {0}
  PROVE  /\ a \div k \in Nat
         /\ k * (a \div k) <= a
         /\ a < k * (a \div k) + k
  BY Z3

\* The number of chunks is positive, and the last chunk is the one the file ends in.
LEMMA NumChunksFacts ==
  /\ NumChunks \in Nat \ {0}
  /\ (NumChunks - 1) * ChunkSize < FileSize
  /\ FileSize <= NumChunks * ChunkSize
<1> DEFINE a == FileSize + ChunkSize - 1
<1>1. a \in Nat /\ ChunkSize \in Nat \ {0} /\ FileSize \in Nat \ {0} /\ a >= ChunkSize
  BY SizesAssumption
<1>2. NumChunks = a \div ChunkSize
  BY DEF NumChunks
<1>3. NumChunks \in Nat /\ ChunkSize * NumChunks <= a /\ a < ChunkSize * NumChunks + ChunkSize
  BY <1>1, <1>2, Division
<1>4. NumChunks # 0
  BY <1>1, <1>3
<1>5. ChunkSize * NumChunks = NumChunks * ChunkSize /\ (NumChunks - 1) * ChunkSize = NumChunks * ChunkSize - ChunkSize
  BY <1>1, <1>3
<1> QED
  BY <1>1, <1>3, <1>4, <1>5

\* Products of the chunk size are ordered like their factors.
LEMMA Multiples ==
  ASSUME NEW c \in Nat, NEW d \in Nat, NEW k \in Nat, c < d
  PROVE  c * k + k <= d * k
<1>1. (d - c - 1) * k >= 0 /\ (d - c - 1) * k = d * k - c * k - k
  BY SMT
<1> QED
  BY <1>1

\* Every chunk is a non-empty interval of the file.
LEMMA ChunkFacts ==
  ASSUME NEW c \in Chunks
  PROVE  /\ StartOf(c) \in Bytes
         /\ sizeOfChunk(c) \in 1 .. FileSize
         /\ EndOf(c) \in 1 .. FileSize
         /\ StartOf(c) < EndOf(c)
         /\ EndOf(c) = StartOf(c) + sizeOfChunk(c)
         /\ EndOf(c) <= StartOf(c) + ChunkSize
<1>1. /\ c \in Nat /\ NumChunks \in Nat /\ c <= NumChunks - 1
      /\ FileSize \in Nat \ {0} /\ ChunkSize \in Nat \ {0}
  BY SizesAssumption, NumChunksFacts DEF Chunks
<1>2. StartOf(c) \in Nat
  BY <1>1 DEF StartOf
<1>3. CASE c = NumChunks - 1
  <2>1. StartOf(c) < FileSize /\ FileSize <= StartOf(c) + ChunkSize
    <3>1. NumChunks * ChunkSize = (NumChunks - 1) * ChunkSize + ChunkSize
      BY <1>1
    <3> QED
      BY <1>1, <1>3, <3>1, NumChunksFacts DEF StartOf
  <2>2. sizeOfChunk(c) = FileSize - StartOf(c)
    BY <1>3 DEF sizeOfChunk, StartOf
  <2> QED
    BY <1>1, <1>2, <2>1, <2>2 DEF EndOf, Bytes
<1>4. CASE c # NumChunks - 1
  <2>1. sizeOfChunk(c) = ChunkSize
    BY <1>4 DEF sizeOfChunk
  <2>2. StartOf(c) + ChunkSize <= (NumChunks - 1) * ChunkSize
    <3>1. NumChunks - 1 \in Nat /\ c < NumChunks - 1
      BY <1>1, <1>4
    <3> QED
      BY <1>1, <3>1, Multiples DEF StartOf
  <2>3. (NumChunks - 1) * ChunkSize < FileSize
    BY NumChunksFacts
  <2>4. (NumChunks - 1) * ChunkSize \in Int
    BY <1>1
  <2> QED
    BY <1>1, <1>2, <2>1, <2>2, <2>3, <2>4 DEF EndOf, Bytes
<1> QED
  BY <1>3, <1>4

\* The chunk of an offset is an interval that holds it.
LEMMA ChunkOfFacts ==
  ASSUME NEW o \in Bytes
  PROVE  /\ ChunkOf(o) \in Chunks
         /\ StartOf(ChunkOf(o)) <= o
         /\ o < EndOf(ChunkOf(o))
<1> DEFINE c == ChunkOf(o)
<1>1. /\ o \in Nat /\ o < FileSize /\ NumChunks \in Nat \ {0}
      /\ FileSize \in Nat \ {0} /\ ChunkSize \in Nat \ {0}
  BY SizesAssumption, NumChunksFacts DEF Bytes
<1>2. c \in Nat /\ c * ChunkSize <= o /\ o < c * ChunkSize + ChunkSize
  <2>1. c \in Nat /\ ChunkSize * c <= o /\ o < ChunkSize * c + ChunkSize
    BY <1>1, Division DEF ChunkOf
  <2>2. ChunkSize * c = c * ChunkSize
    BY <1>1, <2>1
  <2> QED
    BY <2>1, <2>2
<1>3. c < NumChunks
  <2> SUFFICES ASSUME NumChunks <= c PROVE FALSE
    BY <1>1, <1>2
  <2>1. NumChunks * ChunkSize <= c * ChunkSize
    <3>1. CASE NumChunks = c
      BY <1>1, <1>2, <3>1
    <3>2. CASE NumChunks < c
      <4>1. NumChunks * ChunkSize + ChunkSize <= c * ChunkSize
        BY <1>1, <1>2, <3>2, Multiples
      <4>2. NumChunks * ChunkSize \in Nat /\ c * ChunkSize \in Nat
        BY <1>1, <1>2
      <4> QED
        BY <1>1, <4>1, <4>2
    <3> QED
      BY <1>1, <1>2, <3>1, <3>2
  <2>2. FileSize <= NumChunks * ChunkSize
    BY NumChunksFacts
  <2>3. NumChunks * ChunkSize \in Nat /\ c * ChunkSize \in Nat
    BY <1>1, <1>2
  <2> QED
    BY <1>1, <1>2, <2>1, <2>2, <2>3
<1>4. c \in Chunks
  BY <1>1, <1>2, <1>3 DEF Chunks
<1>5. o < EndOf(c)
  <2>1. c * ChunkSize \in Nat
    BY <1>1, <1>2
  <2>2. sizeOfChunk(c) = FileSize - c * ChunkSize \/ sizeOfChunk(c) = ChunkSize
    BY DEF sizeOfChunk
  <2> QED
    BY <1>1, <1>2, <2>1, <2>2 DEF EndOf, StartOf
<1> QED
  BY <1>2, <1>4, <1>5 DEF StartOf

\* No other chunk holds it.
LEMMA ChunkOfUnique ==
  ASSUME NEW c \in Chunks, NEW o \in Bytes, StartOf(c) <= o, o < EndOf(c)
  PROVE  ChunkOf(o) = c
<1> DEFINE d == ChunkOf(o)
<1>1. /\ c \in Nat /\ d \in Nat /\ ChunkSize \in Nat /\ o \in Nat
  BY ChunkOfFacts, SizesAssumption DEF Chunks, Bytes
<1>2. /\ c * ChunkSize <= o /\ o < c * ChunkSize + ChunkSize
      /\ d * ChunkSize <= o /\ o < d * ChunkSize + ChunkSize
  <2>1. d \in Chunks /\ StartOf(d) <= o /\ o < EndOf(d)
    BY ChunkOfFacts
  <2>2. EndOf(c) <= StartOf(c) + ChunkSize /\ EndOf(d) <= StartOf(d) + ChunkSize
    BY <2>1, ChunkFacts
  <2>3. /\ EndOf(c) \in Int /\ EndOf(d) \in Int
        /\ StartOf(c) \in Int /\ StartOf(d) \in Int
    BY <2>1, ChunkFacts, SizesAssumption DEF Bytes
  <2>4. o < StartOf(c) + ChunkSize /\ o < StartOf(d) + ChunkSize
    BY <1>1, <2>1, <2>2, <2>3
  <2> QED
    BY <2>1, <2>4 DEF StartOf
<1>3. c * ChunkSize \in Nat /\ d * ChunkSize \in Nat
  BY <1>1
<1>4. ~ (c < d)
  <2> SUFFICES ASSUME c < d PROVE FALSE
    OBVIOUS
  <2>1. c * ChunkSize + ChunkSize <= d * ChunkSize
    BY <1>1, Multiples
  <2> QED
    BY <1>1, <1>2, <1>3, <2>1
<1>5. ~ (d < c)
  <2> SUFFICES ASSUME d < c PROVE FALSE
    OBVIOUS
  <2>1. d * ChunkSize + ChunkSize <= c * ChunkSize
    BY <1>1, Multiples
  <2> QED
    BY <1>1, <1>2, <1>3, <2>1
<1> QED
  BY <1>1, <1>4, <1>5

-----------------------------------------------------------------------------
(* Sums, remainders and the set of missing bytes. *)

\* There are finitely many chunks, and at least one.
LEMMA ChunksFinite == IsFiniteSet(Chunks) /\ Chunks # {}
<1>1. NumChunks \in Nat \ {0}
  BY NumChunksFacts
<1>2. IsFiniteSet(0 .. NumChunks - 1)
  <2>1. 0 \in Int /\ NumChunks - 1 \in Int
    BY <1>1
  <2> QED
    BY <2>1, FS_Interval
<1>3. 0 \in 0 .. NumChunks - 1
  BY <1>1
<1> QED
  BY <1>2, <1>3 DEF Chunks

\* A sum over a set of chunks is a natural number.
LEMMA SumOverNat ==
  ASSUME NEW S \in SUBSET Chunks, NEW f
  PROVE  SumOver(S, f) \in Nat
<1>1. IsFiniteSet(S)
  BY ChunksFinite, FS_Subset
<1>2. IsFiniteSet(1 .. W32)
  <2>1. 1 \in Int /\ W32 \in Int
    BY SizesAssumption
  <2> QED
    BY <2>1, FS_Interval
<1>3. IsFiniteSet(S \X (1 .. W32))
  BY <1>1, <1>2, FS_Product
<1>4. {x \in S \X (1 .. W32) : x[2] <= f[x[1]]} \in SUBSET (S \X (1 .. W32))
  OBVIOUS
<1>5. IsFiniteSet({x \in S \X (1 .. W32) : x[2] <= f[x[1]]})
  BY <1>3, <1>4, FS_Subset
<1> QED
  BY <1>5, FS_CardinalityType DEF SumOver

\* What an unsigned integer of n values holds is below n.
LEMMA Remainder ==
  ASSUME NEW a \in Int, NEW k \in Nat \ {0}
  PROVE  /\ a % k \in 0 .. k - 1
         /\ a \in 0 .. k - 1 => a % k = a
  BY Z3

\* The widths of the unsigned integers are positive.
LEMMA W64Facts == W64 \in Nat \ {0} /\ W32 \in Nat \ {0}
  BY SizesAssumption

\* updateTotalDownloaded computes a 64-bit number.
LEMMA UpdatedTotalType ==
  ASSUME NEW m, NEW t \in SUBSET Chunks, NEW r
  PROVE  UpdatedTotal(m, t, r) \in 0 .. W64 - 1
<1> DEFINE x == SumOver({c \in Chunks : m[c] \in {"CHECKING", "DONE"}}, Sizes)
           y == SumOver({c \in t : m[c] = "CHECKING"}, Sizes)
           z == SumOver(t, Received(r))
<1>1. x \in Nat /\ y \in Nat /\ z \in Nat
  <2>1. /\ {c \in Chunks : m[c] \in {"CHECKING", "DONE"}} \in SUBSET Chunks
        /\ {c \in t : m[c] = "CHECKING"} \in SUBSET Chunks
    OBVIOUS
  <2> QED
    BY <2>1, SumOverNat
<1>2. UpdatedTotal(m, t, r) = (x - y + z) % W64
  BY DEF UpdatedTotal
<1>3. x - y + z \in Int
  <2> HIDE DEF x, y, z
  <2> QED
    BY <1>1
<1> HIDE DEF x, y, z
<1> QED
  BY <1>2, <1>3, Remainder, W64Facts

\* The bytes missing from a chunk are finitely many, so they can be counted.
LEMMA MissingFinite ==
  ASSUME NEW c \in Chunks
  PROVE  IsFiniteSet(Missing(c))
<1>1. IsFiniteSet(BytesOf(c))
  <2>1. StartOf(c) \in Int /\ EndOf(c) - 1 \in Int
    BY ChunkFacts, SizesAssumption DEF Bytes
  <2> QED
    BY <2>1, FS_Interval DEF BytesOf
<1>2. Missing(c) \in SUBSET BytesOf(c)
  BY DEF Missing
<1> QED
  BY <1>1, <1>2, FS_Subset

\* The bytes of a chunk are the bytes of the file that lie in it.
LEMMA BytesOfFacts ==
  ASSUME NEW c \in Chunks, NEW b
  PROVE  b \in BytesOf(c) <=> b \in Bytes /\ ChunkOf(b) = c
<1>1. /\ StartOf(c) \in Nat /\ EndOf(c) \in Nat /\ EndOf(c) <= FileSize
      /\ FileSize \in Nat
  BY ChunkFacts, SizesAssumption DEF Bytes
<1>2. ASSUME b \in BytesOf(c) PROVE b \in Bytes /\ ChunkOf(b) = c
  <2>1. b \in Bytes /\ StartOf(c) <= b /\ b < EndOf(c)
    BY <1>1, <1>2 DEF BytesOf, Bytes
  <2> QED
    BY <2>1, ChunkOfUnique
<1>3. ASSUME b \in Bytes, ChunkOf(b) = c PROVE b \in BytesOf(c)
  <2>1. StartOf(c) <= b /\ b < EndOf(c)
    BY <1>3, ChunkOfFacts
  <2> QED
    BY <1>1, <1>3, <2>1 DEF BytesOf, Bytes
<1> QED
  BY <1>2, <1>3

-----------------------------------------------------------------------------
(* The inductive invariant. *)

\* RemainsExact needs to know that slices and feeds do not overlap, which needs
\* to know that every one of them belongs to an active chunk and that no chunk
\* has two feeds.  The whole-file check is harmless because a complete file has
\* no active chunk.
IInv ==
  /\ TypeOK
  /\ SlicesDisjoint
  /\ ActiveIsTracked
  /\ RemainsExact
  /\ CompleteExact

\* A slice covers bytes of its own chunk only.
LEMMA SliceInChunk ==
  ASSUME TypeOK, SlicesDisjoint, NEW o \in Bytes, slices[o] > 0,
         NEW b \in Int, o <= b, b < o + slices[o]
  PROVE  b \in Bytes /\ ChunkOf(b) = ChunkOf(o)
<1> DEFINE c == ChunkOf(o)
<1>1. /\ c \in Chunks /\ StartOf(c) <= o /\ o + slices[o] <= EndOf(c)
      /\ o \in Nat /\ slices[o] \in Nat
  BY ChunkOfFacts, SizesAssumption DEF SlicesDisjoint, TypeOK, Bytes
<1>2. /\ StartOf(c) \in Nat /\ EndOf(c) \in Nat /\ EndOf(c) <= FileSize
      /\ FileSize \in Nat
  BY <1>1, ChunkFacts, SizesAssumption DEF Bytes
<1>3. b \in Bytes /\ StartOf(c) <= b /\ b < EndOf(c)
  <2> HIDE DEF c
  <2> QED
    BY <1>1, <1>2 DEF Bytes
<1> QED
  BY <1>1, <1>3, ChunkOfUnique

\* The size of a slice carved at an offset.
LEMMA SliceSizeFacts ==
  ASSUME NEW off \in Bytes, NEW hint \in Hints
  PROVE  /\ SliceSize(off, hint) \in 1 .. FileSize
         /\ off + SliceSize(off, hint) <= EndOf(ChunkOf(off))
         /\ off + SliceSize(off, hint) # EndOf(ChunkOf(off))
              => /\ off + SliceSize(off, hint) \in Bytes
                 /\ ChunkOf(off + SliceSize(off, hint)) = ChunkOf(off)
<1> DEFINE c == ChunkOf(off)
           n == SliceSize(off, hint)
<1>1. /\ c \in Chunks /\ StartOf(c) <= off /\ off < EndOf(c)
      /\ off \in Nat /\ hint \in Nat \ {0}
  BY ChunkOfFacts, SettingsAssumption, SizesAssumption DEF Bytes
<1>2. /\ StartOf(c) \in Nat /\ EndOf(c) \in Nat /\ EndOf(c) <= FileSize
      /\ FileSize \in Nat
  BY <1>1, ChunkFacts, SizesAssumption DEF Bytes
<1>3. n = IF hint < EndOf(c) - off THEN hint ELSE EndOf(c) - off
  BY DEF SliceSize
<1>4. n \in 1 .. FileSize /\ off + n <= EndOf(c)
  <2> HIDE DEF n, c
  <2> QED
    BY <1>1, <1>2, <1>3
<1>5. ASSUME off + n # EndOf(c) PROVE off + n \in Bytes /\ ChunkOf(off + n) = c
  <2>1. off + n \in Bytes /\ StartOf(c) <= off + n /\ off + n < EndOf(c)
    <3> HIDE DEF n, c
    <3> QED
      BY <1>1, <1>2, <1>4, <1>5 DEF Bytes
  <2> HIDE DEF n
  <2> QED
    BY <1>1, <2>1, ChunkOfUnique
<1> QED
  BY <1>4, <1>5

\* What Carve does when q is the only peer that may feed on the chunk of off and
\* all of its pending slices lie before off.  It serves the cases of a feed that
\* goes on and of a chunk that is just taken.
LEMMA CarveFacts ==
  ASSUME TypeOK, SlicesDisjoint,
         NEW q \in Peers, NEW hint \in Hints, NEW off \in Bytes,
         feed[q] = None \/ feed[q] = off,
         \A r \in Peers : r # q /\ feed[r] # None => ChunkOf(feed[r]) # ChunkOf(off),
         \A o \in Bytes : slices[o] > 0 /\ ChunkOf(o) = ChunkOf(off)
                           => o + slices[o] <= off,
         Carve(q, off, hint),
         tracked' = tracked \cup {ChunkOf(off)}
  PROVE  /\ slices' \in [Bytes -> 0 .. FileSize]
         /\ feed' \in [Peers -> Bytes \cup {None}]
         /\ SlicesDisjoint'
         /\ feed'[q] # None => ChunkOf(feed'[q]) = ChunkOf(off)
         /\ \A r \in Peers : r # q => feed'[r] = feed[r]
         /\ \A c \in Chunks : c # ChunkOf(off) => Missing(c)' = Missing(c)
         /\ Missing(ChunkOf(off))' =
              Missing(ChunkOf(off)) \cup (off .. EndOf(ChunkOf(off)) - 1)
         /\ slices[off] = 0
         /\ \A b \in Bytes : ChunkOf(b) # ChunkOf(off) => (InFeed(b)' <=> InFeed(b))
         /\ \A b \in Bytes : ChunkOf(b) = ChunkOf(off)
              => (InFeed(b)' <=> off + SliceSize(off, hint) <= b)
<1> DEFINE n == SliceSize(off, hint)
           k == ChunkOf(off)
<1>1. /\ n \in 1 .. FileSize
      /\ off + n <= EndOf(k)
      /\ off + n # EndOf(k) => off + n \in Bytes /\ ChunkOf(off + n) = k
  BY SliceSizeFacts
<1>2. /\ k \in Chunks /\ StartOf(k) <= off /\ off < EndOf(k) /\ off \in Nat
      /\ StartOf(k) \in Nat /\ EndOf(k) \in Nat /\ EndOf(k) <= FileSize
      /\ FileSize \in Nat
  <2>1. k \in Chunks /\ StartOf(k) <= off /\ off < EndOf(k)
    BY ChunkOfFacts
  <2> QED
    BY <2>1, ChunkFacts, SizesAssumption DEF Bytes
<1>3. /\ slices' = [slices EXCEPT ![off] = n]
      /\ feed' = [feed EXCEPT ![q] = IF off + n = EndOf(k) THEN None ELSE off + n]
  BY DEF Carve
<1> HIDE DEF n
<1>4. /\ slices \in [Bytes -> 0 .. FileSize] /\ feed \in [Peers -> Bytes \cup {None}]
      /\ \A o \in Bytes : o \in Nat /\ slices[o] \in Nat
      /\ None \notin Nat
  BY <1>2 DEF TypeOK, Bytes, None
<1>5. slices' \in [Bytes -> 0 .. FileSize] /\ feed' \in [Peers -> Bytes \cup {None}]
  BY <1>1, <1>2, <1>3, <1>4
<1>6. /\ slices'[off] = n
      /\ \A o \in Bytes : o # off => slices'[o] = slices[o]
      /\ feed'[q] = IF off + n = EndOf(k) THEN None ELSE off + n
      /\ \A r \in Peers : r # q => feed'[r] = feed[r]
  BY <1>3, <1>4
<1>7. slices[off] = 0
  BY <1>2, <1>4
<1>8. feed'[q] # None => feed'[q] = off + n /\ ChunkOf(feed'[q]) = k
  BY <1>1, <1>6
<1>9. \A r \in Peers : feed'[r] # None /\ ChunkOf(feed'[r]) = k
                          => r = q /\ feed'[r] = off + n
  BY <1>6, <1>8
<1>10. SlicesDisjoint'
  <2> SUFFICES ASSUME NEW o \in Bytes, slices'[o] > 0
               PROVE  /\ ChunkOf(o) \in tracked'
                      /\ o + slices'[o] <= EndOf(ChunkOf(o))
                      /\ \A p \in Peers : feed'[p] # None /\ ChunkOf(feed'[p]) = ChunkOf(o)
                                           => o + slices'[o] <= feed'[p]
                      /\ \A o2 \in Bytes : slices'[o2] > 0 /\ o < o2
                                            => o + slices'[o] <= o2
    BY DEF SlicesDisjoint
  <2>1. CASE o = off
    <3>1. ASSUME NEW o2 \in Bytes, slices'[o2] > 0, o < o2 PROVE o + slices'[o] <= o2
      <4>1. slices[o2] > 0 /\ o2 \in Nat
        BY <1>2, <1>4, <1>6, <2>1, <3>1
      <4>2. ChunkOf(o2) # k
        BY <1>2, <1>4, <2>1, <3>1, <4>1
      <4>3. ~ (o2 < EndOf(k))
        BY <1>2, <2>1, <3>1, <4>1, <4>2, ChunkOfUnique
      <4> QED
        BY <1>1, <1>2, <1>6, <2>1, <4>1, <4>3
    <3>2. ChunkOf(o) \in tracked' /\ o + slices'[o] <= EndOf(ChunkOf(o))
      BY <1>1, <1>6, <2>1
    <3>3. ASSUME NEW p \in Peers, feed'[p] # None, ChunkOf(feed'[p]) = ChunkOf(o)
          PROVE  o + slices'[o] <= feed'[p]
      BY <1>1, <1>2, <1>6, <1>9, <2>1, <3>3
    <3> QED
      BY <3>1, <3>2, <3>3
  <2>2. CASE o # off
    <3>1. slices'[o] = slices[o] /\ slices[o] > 0 /\ o \in Nat /\ slices[o] \in Nat
      BY <1>4, <1>6, <2>2
    <3>2. ChunkOf(o) \in tracked' /\ o + slices'[o] <= EndOf(ChunkOf(o))
      BY <3>1 DEF SlicesDisjoint
    <3>3. ASSUME NEW p \in Peers, feed'[p] # None, ChunkOf(feed'[p]) = ChunkOf(o)
          PROVE  o + slices'[o] <= feed'[p]
      <4>1. CASE ChunkOf(o) = k
        BY <1>1, <1>2, <1>9, <3>1, <3>3, <4>1
      <4>2. CASE ChunkOf(o) # k
        <5>1. p # q /\ feed'[p] = feed[p]
          BY <1>6, <1>8, <3>3, <4>2
        <5> QED
          BY <3>1, <3>3, <5>1 DEF SlicesDisjoint
      <4> QED
        BY <4>1, <4>2
    <3>4. ASSUME NEW o2 \in Bytes, slices'[o2] > 0, o < o2 PROVE o + slices'[o] <= o2
      <4>1. CASE o2 = off
        <5>1. CASE ChunkOf(o) = k
          BY <3>1, <4>1, <5>1
        <5>2. CASE ChunkOf(o) # k
          <6>1. /\ ChunkOf(o) \in Chunks /\ EndOf(ChunkOf(o)) \in Nat
                /\ StartOf(ChunkOf(o)) \in Nat /\ StartOf(ChunkOf(o)) <= o
            BY ChunkOfFacts, ChunkFacts, SizesAssumption DEF Bytes
          <6>2. ~ (off < EndOf(ChunkOf(o)))
            BY <1>2, <3>1, <3>4, <4>1, <5>2, <6>1, ChunkOfUnique
          <6> QED
            BY <1>2, <3>1, <3>2, <4>1, <6>1, <6>2
        <5> QED
          BY <5>1, <5>2
      <4>2. CASE o2 # off
        BY <1>6, <3>1, <3>4, <4>2 DEF SlicesDisjoint
      <4> QED
        BY <4>1, <4>2
    <3> QED
      BY <3>2, <3>3, <3>4
  <2> QED
    BY <2>1, <2>2
<1>11. \A b \in Bytes : InSlice(b)' <=> InSlice(b) \/ (off <= b /\ b < off + n)
  <2> SUFFICES ASSUME NEW b \in Bytes
               PROVE  InSlice(b)' <=> InSlice(b) \/ (off <= b /\ b < off + n)
    OBVIOUS
  <2>1. InSlice(b)' <=> \E o \in Bytes : slices'[o] > 0 /\ o <= b /\ b < o + slices'[o]
    BY DEF InSlice
  <2>2. InSlice(b) <=> \E o \in Bytes : slices[o] > 0 /\ o <= b /\ b < o + slices[o]
    BY DEF InSlice
  <2> QED
    BY <1>1, <1>2, <1>4, <1>6, <1>7, <2>1, <2>2
<1>12. \A b \in Bytes : ChunkOf(b) # k => (InFeed(b)' <=> InFeed(b))
  <2> SUFFICES ASSUME NEW b \in Bytes, ChunkOf(b) # k PROVE InFeed(b)' <=> InFeed(b)
    OBVIOUS
  <2>1. InFeed(b)' <=> \E p \in Peers : feed'[p] # None /\ ChunkOf(feed'[p]) = ChunkOf(b)
                                         /\ feed'[p] <= b
    BY DEF InFeed
  <2>2. InFeed(b) <=> \E p \in Peers : feed[p] # None /\ ChunkOf(feed[p]) = ChunkOf(b)
                                         /\ feed[p] <= b
    BY DEF InFeed
  <2>3. feed[q] # None => ChunkOf(feed[q]) = k
    OBVIOUS
  <2> QED
    BY <1>6, <1>8, <2>1, <2>2, <2>3
<1>13. \A b \in Bytes : ChunkOf(b) = k => (InFeed(b)' <=> off + n <= b)
  <2> SUFFICES ASSUME NEW b \in Bytes, ChunkOf(b) = k PROVE InFeed(b)' <=> off + n <= b
    OBVIOUS
  <2>1. InFeed(b)' <=> \E p \in Peers : feed'[p] # None /\ ChunkOf(feed'[p]) = k
                                         /\ feed'[p] <= b
    BY DEF InFeed
  <2>2. b < EndOf(k) /\ b \in Nat
    BY <1>4, ChunkOfFacts
  <2>3. ASSUME off + n <= b PROVE InFeed(b)'
    <3>1. feed'[q] # None /\ feed'[q] = off + n
      BY <1>1, <1>2, <1>4, <1>6, <2>2, <2>3
    <3> QED
      BY <1>8, <2>1, <2>3, <3>1
  <2> QED
    BY <1>9, <2>1, <2>3
<1>14. \A b \in Bytes : ChunkOf(b) = k => (InFeed(b) => off <= b)
  BY DEF InFeed
<1>15. ASSUME NEW c \in Chunks, c # k PROVE Missing(c)' = Missing(c)
  <2>1. \A b \in BytesOf(c) : b \in Bytes /\ ChunkOf(b) = c
    BY BytesOfFacts
  <2>2. \A b \in BytesOf(c) : ~ (off <= b /\ b < off + n)
    <3> SUFFICES ASSUME NEW b \in BytesOf(c), off <= b, b < off + n PROVE FALSE
      OBVIOUS
    <3>1. b \in Bytes /\ b \in Nat /\ n \in Nat
      BY <1>1, <1>4, <2>1
    <3>2. StartOf(k) <= b /\ b < EndOf(k)
      <4> HIDE DEF k
      <4> QED
        BY <1>1, <1>2, <3>1
    <3> QED
      BY <1>2, <1>15, <2>1, <3>1, <3>2, ChunkOfUnique
  <2>3. \A b \in BytesOf(c) : (InSlice(b) \/ InFeed(b))' <=> InSlice(b) \/ InFeed(b)
    BY <1>11, <1>12, <1>15, <2>1, <2>2
  <2> QED
    BY <2>3 DEF Missing
<1>16. Missing(k)' = Missing(k) \cup (off .. EndOf(k) - 1)
  <2>1. \A b \in BytesOf(k) : b \in Bytes /\ ChunkOf(b) = k /\ b \in Nat /\ b < EndOf(k)
    BY <1>2, <1>4, BytesOfFacts, ChunkOfFacts
  <2>2. \A b \in BytesOf(k) : (InSlice(b) \/ InFeed(b))'
                               <=> InSlice(b) \/ InFeed(b) \/ off <= b
    <3> SUFFICES ASSUME NEW b \in BytesOf(k)
                 PROVE  (InSlice(b)' \/ InFeed(b)') <=> InSlice(b) \/ InFeed(b) \/ off <= b
      OBVIOUS
    <3>1. /\ InSlice(b)' <=> InSlice(b) \/ (off <= b /\ b < off + n)
          /\ InFeed(b)' <=> off + n <= b
          /\ InFeed(b) => off <= b
      BY <1>11, <1>13, <1>14, <2>1
    <3> QED
      BY <1>1, <1>2, <2>1, <3>1
  <2>3. off .. EndOf(k) - 1 = {b \in BytesOf(k) : off <= b}
    BY <1>2 DEF BytesOf
  <2> QED
    BY <2>2, <2>3 DEF Missing
<1> QED
  BY <1>5, <1>6, <1>7, <1>8, <1>10, <1>12, <1>13, <1>15, <1>16 DEF n

\* Carving from a feed that exists keeps the invariant.
LEMMA ContinueFeed ==
  ASSUME IInv, NEW q \in Peers, NEW hint \in Hints, NEW off \in Bytes,
         feed[q] # None, off = feed[q], Carve(q, off, hint),
         tracked' = tracked, map' = map, remains' = remains,
         UNCHANGED <<total_downloaded, file_is_complete, checking_queue, peer_map,
                     strategy>>
  PROVE  IInv'
<1> DEFINE k == ChunkOf(off)
<1>1. TypeOK /\ SlicesDisjoint /\ ActiveIsTracked /\ RemainsExact /\ CompleteExact
  BY DEF IInv
<1>2. k \in tracked /\ k \in Chunks
  BY <1>1 DEF ActiveIsTracked, TypeOK
<1>3. \A r \in Peers : r # q /\ feed[r] # None => ChunkOf(feed[r]) # k
  BY <1>1 DEF ActiveIsTracked
<1>4. \A o \in Bytes : slices[o] > 0 /\ ChunkOf(o) = k => o + slices[o] <= off
  BY <1>1 DEF SlicesDisjoint
<1>5. tracked' = tracked \cup {k}
  BY <1>2
<1>6. /\ slices' \in [Bytes -> 0 .. FileSize]
      /\ feed' \in [Peers -> Bytes \cup {None}]
      /\ SlicesDisjoint'
      /\ feed'[q] # None => ChunkOf(feed'[q]) = k
      /\ \A r \in Peers : r # q => feed'[r] = feed[r]
      /\ \A c \in Chunks : c # k => Missing(c)' = Missing(c)
      /\ Missing(k)' = Missing(k) \cup (off .. EndOf(k) - 1)
  BY <1>1, <1>3, <1>4, <1>5, CarveFacts
<1>7. off .. EndOf(k) - 1 \subseteq Missing(k)
  <2> SUFFICES ASSUME NEW b \in off .. EndOf(k) - 1 PROVE b \in Missing(k)
    OBVIOUS
  <2>1. /\ off \in Nat /\ FileSize \in Nat /\ EndOf(k) \in Nat /\ EndOf(k) <= FileSize
        /\ StartOf(k) \in Nat /\ StartOf(k) <= off
    BY <1>2, ChunkFacts, ChunkOfFacts, SizesAssumption DEF Bytes
  <2>2. b \in Bytes /\ StartOf(k) <= b /\ b < EndOf(k) /\ off <= b
    <3> HIDE DEF k
    <3> QED
      BY <2>1 DEF Bytes
  <2>3. ChunkOf(b) = k
    BY <1>2, <2>2, ChunkOfUnique
  <2>4. b \in BytesOf(k)
    BY <1>2, <2>2, <2>3, BytesOfFacts
  <2>5. InFeed(b)
    BY <2>2, <2>3 DEF InFeed
  <2> QED
    BY <2>4, <2>5 DEF Missing
<1>8. \A c \in Chunks : Missing(c)' = Missing(c)
  BY <1>6, <1>7
<1>9. TypeOK'
  BY <1>1, <1>6 DEF TypeOK
<1>10. ActiveIsTracked'
  <2>1. /\ tracked = {c \in Chunks : map[c] = "ACTIVE"}
        /\ \A p \in Peers : feed[p] # None => ChunkOf(feed[p]) \in tracked
        /\ \A p, r \in Peers : p # r /\ feed[p] # None /\ feed[r] # None
                                => ChunkOf(feed[p]) # ChunkOf(feed[r])
        /\ \A c \in tracked : Missing(c) # {}
    BY <1>1 DEF ActiveIsTracked
  <2>2. \A p \in Peers : feed'[p] # None => feed[p] # None /\ ChunkOf(feed'[p]) = ChunkOf(feed[p])
    BY <1>6
  <2>3. \A p \in Peers : feed'[p] # None => ChunkOf(feed'[p]) \in tracked
    BY <2>1, <2>2
  <2>4. \A p, r \in Peers : p # r /\ feed'[p] # None /\ feed'[r] # None
                             => ChunkOf(feed'[p]) # ChunkOf(feed'[r])
    BY <2>1, <2>2
  <2>5. \A c \in tracked : Missing(c)' # {}
    BY <1>1, <1>8, <2>1 DEF TypeOK
  <2> QED
    BY <2>1, <2>3, <2>4, <2>5 DEF ActiveIsTracked
<1>11. RemainsExact'
  BY <1>1, <1>8 DEF RemainsExact, TypeOK
<1>12. CompleteExact'
  BY <1>1 DEF CompleteExact, AllDone
<1> QED
  BY <1>6, <1>9, <1>10, <1>11, <1>12 DEF IInv

\* So does taking a new chunk: nothing of it is in anybody's hands yet.
LEMMA TakeChunk ==
  ASSUME IInv, NEW p \in Peers, NEW hint \in Hints, NEW c \in Chunks,
         feed[p] = None, map[c] = "OUTSTANDING",
         Carve(p, StartOf(c), hint),
         map' = [map EXCEPT ![c] = "ACTIVE"],
         remains' = [remains EXCEPT ![c] = sizeOfChunk(c)],
         tracked' = tracked \cup {c},
         UNCHANGED <<total_downloaded, file_is_complete, checking_queue, peer_map,
                     strategy>>
  PROVE  IInv'
<1> DEFINE off == StartOf(c)
<1>1. TypeOK /\ SlicesDisjoint /\ ActiveIsTracked /\ RemainsExact /\ CompleteExact
  BY DEF IInv
<1>2. /\ off \in Bytes /\ ChunkOf(off) = c
      /\ off \in Nat /\ EndOf(c) \in Nat /\ EndOf(c) = off + sizeOfChunk(c)
      /\ sizeOfChunk(c) \in 1 .. FileSize /\ FileSize \in Nat
  <2>1. /\ off \in Bytes /\ off < EndOf(c) /\ EndOf(c) \in Nat
        /\ EndOf(c) = off + sizeOfChunk(c) /\ sizeOfChunk(c) \in 1 .. FileSize
    BY ChunkFacts, SizesAssumption
  <2>2. off \in Nat /\ FileSize \in Nat
    BY <2>1, SizesAssumption DEF Bytes
  <2>3. off <= off
    BY <2>2
  <2> QED
    BY <2>1, <2>2, <2>3, ChunkOfUnique
<1>3. c \notin tracked
  BY <1>1 DEF ActiveIsTracked
<1>4. \A r \in Peers : feed[r] # None => ChunkOf(feed[r]) # c
  BY <1>1, <1>3 DEF ActiveIsTracked
<1>5. \A o \in Bytes : ~ (slices[o] > 0 /\ ChunkOf(o) = c)
  BY <1>1, <1>3 DEF SlicesDisjoint
<1>6. /\ slices' \in [Bytes -> 0 .. FileSize]
      /\ feed' \in [Peers -> Bytes \cup {None}]
      /\ SlicesDisjoint'
      /\ feed'[p] # None => ChunkOf(feed'[p]) = c
      /\ \A r \in Peers : r # p => feed'[r] = feed[r]
      /\ \A d \in Chunks : d # c => Missing(d)' = Missing(d)
      /\ Missing(c)' = Missing(c) \cup (off .. EndOf(c) - 1)
  <2>1. feed[p] = None \/ feed[p] = off
    OBVIOUS
  <2>2. Carve(p, off, hint)
    OBVIOUS
  <2> HIDE DEF off
  <2> QED
    BY <1>1, <1>2, <1>4, <1>5, <2>1, <2>2, CarveFacts
<1>7. Missing(c)' = off .. EndOf(c) - 1
  BY <1>6 DEF Missing, BytesOf
<1>8. Cardinality(Missing(c)') = sizeOfChunk(c) /\ Missing(c)' # {}
  <2>1. Cardinality(off .. EndOf(c) - 1) = sizeOfChunk(c)
    <3> HIDE DEF off
    <3>1. off \in Int /\ EndOf(c) - 1 \in Int
      BY <1>2
    <3>2. Cardinality(off .. EndOf(c) - 1) =
            IF off > EndOf(c) - 1 THEN 0 ELSE (EndOf(c) - 1) - off + 1
      BY <3>1, FS_Interval
    <3> QED
      BY <1>2, <3>2
  <2>2. off \in off .. EndOf(c) - 1
    <3> HIDE DEF off
    <3> QED
      BY <1>2
  <2> QED
    BY <1>7, <2>1, <2>2
<1> HIDE DEF off
<1>9. TypeOK'
  <2>1. map' \in [Chunks -> States]
    BY <1>1 DEF TypeOK, States
  <2>2. sizeOfChunk(c) \in 0 .. W32 - 1
    BY <1>2, SizesAssumption
  <2>3. remains' \in [Chunks -> 0 .. W32 - 1]
    BY <1>1, <2>2 DEF TypeOK
  <2> QED
    BY <1>1, <1>6, <2>1, <2>3 DEF TypeOK
<1>10. ActiveIsTracked'
  <2>1. /\ tracked = {d \in Chunks : map[d] = "ACTIVE"}
        /\ \A r \in Peers : feed[r] # None => ChunkOf(feed[r]) \in tracked
        /\ \A r, s \in Peers : r # s /\ feed[r] # None /\ feed[s] # None
                                => ChunkOf(feed[r]) # ChunkOf(feed[s])
        /\ \A d \in tracked : Missing(d) # {}
    BY <1>1 DEF ActiveIsTracked
  <2>2. tracked' = {d \in Chunks : map'[d] = "ACTIVE"}
    BY <1>1, <2>1 DEF TypeOK
  <2>3. \A r \in Peers : feed'[r] # None => ChunkOf(feed'[r]) \in tracked'
    BY <1>6, <2>1
  <2>4. \A r, s \in Peers : r # s /\ feed'[r] # None /\ feed'[s] # None
                             => ChunkOf(feed'[r]) # ChunkOf(feed'[s])
    BY <1>4, <1>6, <2>1
  <2>5. \A d \in tracked' : Missing(d)' # {}
    BY <1>1, <1>6, <1>8, <2>1 DEF TypeOK
  <2> QED
    BY <2>2, <2>3, <2>4, <2>5 DEF ActiveIsTracked
<1>11. RemainsExact'
  <2> SUFFICES ASSUME NEW d \in tracked' PROVE remains'[d] = Cardinality(Missing(d)')
    BY DEF RemainsExact
  <2>1. d \in Chunks /\ remains \in [Chunks -> 0 .. W32 - 1]
    BY <1>1 DEF TypeOK
  <2>2. CASE d = c
    BY <1>8, <2>1, <2>2
  <2>3. CASE d # c
    BY <1>1, <1>6, <2>1, <2>3 DEF RemainsExact
  <2> QED
    BY <2>2, <2>3
<1>12. CompleteExact'
  BY <1>1 DEF CompleteExact, AllDone, TypeOK
<1> QED
  BY <1>6, <1>9, <1>10, <1>11, <1>12 DEF IInv

\* getDataChunk keeps the invariant, whichever feed or chunk it takes.
LEMMA GetDataChunkStep ==
  ASSUME IInv, NEW p \in Peers, NEW hint \in Hints, NEW off \in Bytes,
         getDataChunk(p, hint, off)
  PROVE  IInv'
<1>1. /\ \A q \in Peers : feed[q] # None => ChunkOf(feed[q]) \in tracked
      /\ UNCHANGED <<total_downloaded, file_is_complete, checking_queue, peer_map,
                     strategy>>
  BY DEF IInv, ActiveIsTracked, getDataChunk
<1>2. \A S \in SUBSET Feeding(p) : Touched(S) \subseteq tracked
  BY <1>1 DEF Feeding, Touched
<1>3. CASE ReuseFeed(p, hint, off)
  <2>1. /\ feed[p] # None /\ off = feed[p] /\ Carve(p, off, hint)
        /\ tracked' = tracked \cup {ChunkOf(off)} /\ map' = map /\ remains' = remains
    BY <1>3 DEF ReuseFeed
  <2>2. tracked' = tracked
    BY <1>1, <2>1
  <2> QED
    BY <1>1, <2>1, <2>2, ContinueFeed
<1>4. CASE ShareFeed(p, hint, off)
  <2>1. PICK q \in Shareable(p, hint) :
          /\ off = feed[q] /\ Carve(q, off, hint)
          /\ tracked' = tracked \cup Touched({r \in Feeding(p) : r <= q})
    BY <1>4 DEF ShareFeed
  <2>2. q \in Peers /\ feed[q] # None
    BY DEF Shareable, Feeding
  <2>3. tracked' = tracked /\ map' = map /\ remains' = remains
    <3>1. {r \in Feeding(p) : r <= q} \in SUBSET Feeding(p)
      OBVIOUS
    <3> QED
      BY <1>2, <1>4, <2>1, <3>1 DEF ShareFeed
  <2> QED
    BY <1>1, <2>1, <2>2, <2>3, ContinueFeed
<1>5. CASE AllocateChunk(p, hint, off)
  <2>1. PICK c \in getAvailableChunk(p) :
          /\ off = StartOf(c) /\ Carve(p, off, hint)
          /\ map' = [map EXCEPT ![c] = "ACTIVE"]
          /\ remains' = [remains EXCEPT ![c] = sizeOfChunk(c)]
          /\ tracked' = tracked \cup {c} \cup Touched(Feeding(p))
    BY <1>5 DEF AllocateChunk
  <2>2. c \in Chunks /\ map[c] = "OUTSTANDING" /\ feed[p] = None
    BY <1>5 DEF getAvailableChunk, Available, AllocateChunk
  <2>3. tracked' = tracked \cup {c}
    BY <1>2, <2>1
  <2> QED
    BY <1>1, <2>1, <2>2, <2>3, TakeChunk
<1>6. CASE FailsafeFeed(p, hint, off)
  <2>1. PICK q \in Feeding(p) : off = feed[q] /\ Carve(q, off, hint)
    BY <1>6 DEF FailsafeFeed
  <2>2. q \in Peers /\ feed[q] # None
    BY DEF Feeding
  <2>3. tracked' = tracked /\ map' = map /\ remains' = remains
    BY <1>2, <1>6 DEF FailsafeFeed
  <2> QED
    BY <1>1, <2>1, <2>2, <2>3, ContinueFeed
<1> QED
  BY <1>3, <1>4, <1>5, <1>6 DEF getDataChunk

\* Nobody was asked for the byte yet: its chunk is not taken, or not carved so far.
NotAsked(b) ==
  \/ map[ChunkOf(b)] = "OUTSTANDING"
  \/ map[ChunkOf(b)] = "ACTIVE" /\ InFeed(b)

\* What getDataChunk does, seen from outside: n bytes from off on that nobody was
\* asked for become a slice, and no other byte is concerned.
Carved(off, n) ==
  /\ slices[off] = 0
  /\ slices' = [slices EXCEPT ![off] = n]
  /\ map[ChunkOf(off)] \in {"OUTSTANDING", "ACTIVE"}
  /\ map' = [map EXCEPT ![ChunkOf(off)] = "ACTIVE"]
  /\ \A b \in Bytes : off <= b /\ b < off + n => ChunkOf(b) = ChunkOf(off) /\ NotAsked(b)
  /\ \A b \in Bytes : NotAsked(b)' <=> NotAsked(b) /\ ~ (off <= b /\ b < off + n)

\* The bytes of a slice to be carved are bytes of its chunk.
LEMMA CarvedBytes ==
  ASSUME NEW off \in Bytes, NEW hint \in Hints, NEW b \in Bytes,
         off <= b, b < off + SliceSize(off, hint)
  PROVE  ChunkOf(b) = ChunkOf(off)
<1> DEFINE n == SliceSize(off, hint)
           k == ChunkOf(off)
<1>1. n \in Nat /\ off + n <= EndOf(k) /\ off \in Nat /\ b \in Nat
  BY SliceSizeFacts, SizesAssumption DEF Bytes
<1>2. k \in Chunks /\ StartOf(k) <= off
  BY ChunkOfFacts
<1>3. StartOf(k) \in Nat /\ EndOf(k) \in Nat
  BY <1>2, ChunkFacts, SizesAssumption DEF Bytes
<1>4. StartOf(k) <= b /\ b < EndOf(k)
  <2> HIDE DEF k, n
  <2>1. b < off + n
    BY DEF n
  <2> QED
    BY <1>1, <1>2, <1>3, <2>1
<1> QED
  BY <1>2, <1>4, ChunkOfUnique

\* Carving from a feed does that.
LEMMA CarvedFromFeed ==
  ASSUME IInv, NEW q \in Peers, NEW hint \in Hints, NEW off \in Bytes,
         feed[q] # None, off = feed[q], Carve(q, off, hint),
         tracked' = tracked, map' = map
  PROVE  Carved(off, SliceSize(off, hint))
<1> DEFINE k == ChunkOf(off)
           n == SliceSize(off, hint)
<1>1. TypeOK /\ SlicesDisjoint /\ ActiveIsTracked
  BY DEF IInv
<1>2. k \in tracked /\ k \in Chunks /\ map[k] = "ACTIVE"
  BY <1>1 DEF ActiveIsTracked, TypeOK
<1>3. \A r \in Peers : r # q /\ feed[r] # None => ChunkOf(feed[r]) # k
  BY <1>1 DEF ActiveIsTracked
<1>4. \A o \in Bytes : slices[o] > 0 /\ ChunkOf(o) = k => o + slices[o] <= off
  BY <1>1 DEF SlicesDisjoint
<1>5. tracked' = tracked \cup {k}
  BY <1>2
<1>6. /\ slices[off] = 0
      /\ \A b \in Bytes : ChunkOf(b) # k => (InFeed(b)' <=> InFeed(b))
      /\ \A b \in Bytes : ChunkOf(b) = k => (InFeed(b)' <=> off + n <= b)
  BY <1>1, <1>3, <1>4, <1>5, CarveFacts
<1>7. \A b \in Bytes : ChunkOf(b) = k => (InFeed(b) <=> off <= b)
  BY <1>3 DEF InFeed
<1>8. slices' = [slices EXCEPT ![off] = n]
  BY DEF Carve
<1>9. map' = [map EXCEPT ![k] = "ACTIVE"]
  BY <1>1, <1>2 DEF TypeOK
<1>10. \A b \in Bytes : off <= b /\ b < off + n => ChunkOf(b) = k
  BY CarvedBytes
<1>11. \A b \in Bytes : off <= b /\ b < off + n => NotAsked(b)
  BY <1>2, <1>7, <1>10 DEF NotAsked
<1>12. ASSUME NEW b \in Bytes
       PROVE  NotAsked(b)' <=> NotAsked(b) /\ ~ (off <= b /\ b < off + n)
  <2>1. n \in Nat /\ off \in Nat /\ b \in Nat
    BY SliceSizeFacts, SizesAssumption DEF Bytes
  <2>2. NotAsked(b)' <=> map[ChunkOf(b)] = "OUTSTANDING"
                           \/ (map[ChunkOf(b)] = "ACTIVE" /\ InFeed(b)')
    BY DEF NotAsked
  <2> HIDE DEF n
  <2>3. CASE ChunkOf(b) = k
    BY <1>2, <1>6, <1>7, <2>1, <2>2, <2>3 DEF NotAsked
  <2>4. CASE ChunkOf(b) # k
    BY <1>6, <1>10, <2>2, <2>4 DEF NotAsked
  <2> QED
    BY <2>3, <2>4
<1> QED
  BY <1>2, <1>6, <1>8, <1>9, <1>10, <1>11, <1>12 DEF Carved

\* So does carving from a chunk just taken.
LEMMA CarvedFromChunk ==
  ASSUME IInv, NEW p \in Peers, NEW hint \in Hints, NEW c \in Chunks,
         feed[p] = None, map[c] = "OUTSTANDING",
         Carve(p, StartOf(c), hint),
         map' = [map EXCEPT ![c] = "ACTIVE"],
         tracked' = tracked \cup {c}
  PROVE  Carved(StartOf(c), SliceSize(StartOf(c), hint))
<1> DEFINE off == StartOf(c)
           n == SliceSize(off, hint)
<1>1. TypeOK /\ SlicesDisjoint /\ ActiveIsTracked
  BY DEF IInv
<1>2. off \in Bytes /\ off < EndOf(c) /\ EndOf(c) \in Nat /\ off \in Nat /\ off <= off
  BY ChunkFacts, SizesAssumption DEF Bytes
<1>3. ChunkOf(off) = c
  BY <1>2, ChunkOfUnique
<1>4. c \notin tracked
  BY <1>1 DEF ActiveIsTracked
<1>5. \A r \in Peers : feed[r] # None => ChunkOf(feed[r]) # c
  BY <1>1, <1>4 DEF ActiveIsTracked
<1>6. \A o \in Bytes : ~ (slices[o] > 0 /\ ChunkOf(o) = c)
  BY <1>1, <1>4 DEF SlicesDisjoint
<1>7. Carve(p, off, hint)
  OBVIOUS
<1>8. slices' = [slices EXCEPT ![off] = n]
  BY <1>7 DEF Carve
<1> HIDE DEF off
<1>9. /\ slices[off] = 0
      /\ \A b \in Bytes : ChunkOf(b) # c => (InFeed(b)' <=> InFeed(b))
      /\ \A b \in Bytes : ChunkOf(b) = c => (InFeed(b)' <=> off + n <= b)
  BY <1>1, <1>2, <1>3, <1>5, <1>6, <1>7, CarveFacts
<1>10. \A b \in Bytes : off <= b /\ b < off + n => ChunkOf(b) = c
  BY <1>2, <1>3, CarvedBytes
<1>11. \A b \in Bytes : ChunkOf(b) = c => NotAsked(b)
  BY DEF NotAsked
<1>12. ASSUME NEW b \in Bytes
       PROVE  NotAsked(b)' <=> NotAsked(b) /\ ~ (off <= b /\ b < off + n)
  <2>1. n \in Nat /\ off \in Nat /\ b \in Nat
    BY <1>2, SliceSizeFacts, SizesAssumption DEF Bytes
  <2>2. NotAsked(b)' <=> map'[ChunkOf(b)] = "OUTSTANDING"
                           \/ (map'[ChunkOf(b)] = "ACTIVE" /\ InFeed(b)')
    BY DEF NotAsked
  <2>3. /\ map'[c] = "ACTIVE"
        /\ \A d \in Chunks : d # c => map'[d] = map[d]
        /\ ChunkOf(b) \in Chunks
    BY <1>1, ChunkOfFacts DEF TypeOK
  <2> HIDE DEF n
  <2>4. CASE ChunkOf(b) = c
    <3>1. off <= b
      BY <2>4, ChunkOfFacts DEF off
    <3> QED
      BY <1>9, <1>11, <2>1, <2>2, <2>3, <2>4, <3>1
  <2>5. CASE ChunkOf(b) # c
    BY <1>9, <1>10, <2>2, <2>3, <2>5 DEF NotAsked
  <2> QED
    BY <2>4, <2>5
<1>13. Carved(off, n)
  BY <1>3, <1>8, <1>9, <1>10, <1>11, <1>12 DEF Carved
<1> QED
  BY <1>13 DEF off

\* getDataChunk does nothing else.
LEMMA GetDataChunkEffect ==
  ASSUME IInv, NEW p \in Peers, NEW hint \in Hints, NEW off \in Bytes,
         getDataChunk(p, hint, off)
  PROVE  Carved(off, SliceSize(off, hint))
<1>1. \A q \in Peers : feed[q] # None => ChunkOf(feed[q]) \in tracked
  BY DEF IInv, ActiveIsTracked
<1>2. \A S \in SUBSET Feeding(p) : Touched(S) \subseteq tracked
  BY <1>1 DEF Feeding, Touched
<1>3. CASE ReuseFeed(p, hint, off)
  <2>1. /\ feed[p] # None /\ off = feed[p] /\ Carve(p, off, hint)
        /\ tracked' = tracked \cup {ChunkOf(off)} /\ map' = map
    BY <1>3 DEF ReuseFeed
  <2>2. tracked' = tracked
    BY <1>1, <2>1
  <2> QED
    BY <2>1, <2>2, CarvedFromFeed
<1>4. CASE ShareFeed(p, hint, off)
  <2>1. PICK q \in Shareable(p, hint) :
          /\ off = feed[q] /\ Carve(q, off, hint)
          /\ tracked' = tracked \cup Touched({r \in Feeding(p) : r <= q})
    BY <1>4 DEF ShareFeed
  <2>2. q \in Peers /\ feed[q] # None
    BY DEF Shareable, Feeding
  <2>3. tracked' = tracked /\ map' = map
    <3>1. {r \in Feeding(p) : r <= q} \in SUBSET Feeding(p)
      OBVIOUS
    <3> QED
      BY <1>2, <1>4, <2>1, <3>1 DEF ShareFeed
  <2> QED
    BY <2>1, <2>2, <2>3, CarvedFromFeed
<1>5. CASE AllocateChunk(p, hint, off)
  <2>1. PICK c \in getAvailableChunk(p) :
          /\ off = StartOf(c) /\ Carve(p, off, hint)
          /\ map' = [map EXCEPT ![c] = "ACTIVE"]
          /\ tracked' = tracked \cup {c} \cup Touched(Feeding(p))
    BY <1>5 DEF AllocateChunk
  <2>2. c \in Chunks /\ map[c] = "OUTSTANDING" /\ feed[p] = None
    BY <1>5 DEF getAvailableChunk, Available, AllocateChunk
  <2>3. tracked' = tracked \cup {c}
    BY <1>2, <2>1
  <2> QED
    BY <2>1, <2>2, <2>3, CarvedFromChunk
<1>6. CASE FailsafeFeed(p, hint, off)
  <2>1. PICK q \in Feeding(p) : off = feed[q] /\ Carve(q, off, hint)
    BY <1>6 DEF FailsafeFeed
  <2>2. q \in Peers /\ feed[q] # None
    BY DEF Feeding
  <2>3. tracked' = tracked /\ map' = map
    BY <1>2, <1>6 DEF FailsafeFeed
  <2> QED
    BY <2>1, <2>2, <2>3, CarvedFromFeed
<1> QED
  BY <1>3, <1>4, <1>5, <1>6 DEF getDataChunk

-----------------------------------------------------------------------------
(* Data coming in. *)

\* The bytes of chunk c that are missing once the slice id is in.
MissingWithout(c, id) ==
  {b \in BytesOf(c) :
     \/ \E o \in Bytes : o # id /\ slices[o] > 0 /\ o <= b /\ b < o + slices[o]
     \/ InFeed(b)}

\* A pending slice accounts for exactly its own bytes: no other slice and no
\* feed covers any of them.
LEMMA SliceBytes ==
  ASSUME TypeOK, SlicesDisjoint, RemainsExact, NEW id \in Bytes, slices[id] > 0
  PROVE  /\ MissingWithout(ChunkOf(id), id) =
              Missing(ChunkOf(id)) \ (id .. id + slices[id] - 1)
         /\ IsFiniteSet(MissingWithout(ChunkOf(id), id))
         /\ Cardinality(MissingWithout(ChunkOf(id), id)) =
              remains[ChunkOf(id)] - slices[id]
         /\ remains[ChunkOf(id)] - slices[id] \in 0 .. W32 - 1
<1> DEFINE c == ChunkOf(id)
           n == slices[id]
           D == id .. id + n - 1
<1>1. /\ c \in Chunks /\ c \in tracked /\ id \in Nat /\ n \in Nat \ {0}
      /\ id + n <= EndOf(c)
      /\ \A o \in Bytes : o \in Nat /\ slices[o] \in Nat
  BY ChunkOfFacts, SizesAssumption DEF SlicesDisjoint, TypeOK, Bytes
<1>2. ASSUME NEW b \in D
      PROVE  /\ b \in Nat /\ b \in Bytes /\ ChunkOf(b) = c /\ b \in BytesOf(c) /\ InSlice(b)
             /\ ~ InFeed(b)
             /\ ~ \E o \in Bytes : o # id /\ slices[o] > 0 /\ o <= b /\ b < o + slices[o]
  <2>1. b \in Nat /\ id <= b /\ b < id + n
    BY <1>1
  <2>2. b \in Bytes /\ ChunkOf(b) = c
    BY <1>1, <2>1, SliceInChunk
  <2>3. b \in BytesOf(c)
    BY <1>1, <2>2, BytesOfFacts
  <2>4. InSlice(b)
    BY <2>1 DEF InSlice
  <2>5. ~ InFeed(b)
    <3> SUFFICES ASSUME NEW p \in Peers, feed[p] # None, ChunkOf(feed[p]) = c, feed[p] <= b
                 PROVE  FALSE
      BY <2>2 DEF InFeed
    <3>1. id + n <= feed[p] /\ feed[p] \in Nat
      BY <1>1 DEF SlicesDisjoint, TypeOK
    <3> QED
      BY <1>1, <2>1, <3>1
  <2>6. ASSUME NEW o \in Bytes, o # id, slices[o] > 0, o <= b, b < o + slices[o]
        PROVE  FALSE
    <3>1. CASE o < id
      <4>1. o + slices[o] <= id
        BY <2>6, <3>1 DEF SlicesDisjoint
      <4> QED
        BY <1>1, <2>1, <2>6, <4>1
    <3>2. CASE id < o
      <4>1. id + n <= o
        BY <2>6, <3>2 DEF SlicesDisjoint
      <4> QED
        BY <1>1, <2>1, <2>6, <4>1
    <3> QED
      BY <1>1, <2>6, <3>1, <3>2
  <2> QED
    BY <2>1, <2>2, <2>3, <2>4, <2>5, <2>6
<1>3. MissingWithout(c, id) = Missing(c) \ D
  <2>1. ASSUME NEW b \in BytesOf(c), b \notin D
        PROVE  InSlice(b) <=> \E o \in Bytes : o # id /\ slices[o] > 0 /\ o <= b /\ b < o + slices[o]
    <3>1. b \in Nat
      BY <1>1, BytesOfFacts
    <3>2. ~ (id <= b /\ b < id + n)
      BY <1>1, <2>1, <3>1
    <3> QED
      BY <3>2 DEF InSlice
  <2>2. \A b \in BytesOf(c) : b \in MissingWithout(c, id) <=> b \in Missing(c) \ D
    <3> SUFFICES ASSUME NEW b \in BytesOf(c)
                 PROVE  b \in MissingWithout(c, id) <=> b \in Missing(c) \ D
      OBVIOUS
    <3>1. CASE b \in D
      BY <1>2, <3>1 DEF MissingWithout
    <3>2. CASE b \notin D
      BY <2>1, <3>2 DEF MissingWithout, Missing
    <3> QED
      BY <3>1, <3>2
  <2>3. MissingWithout(c, id) \subseteq BytesOf(c) /\ Missing(c) \subseteq BytesOf(c)
    BY DEF MissingWithout, Missing
  <2> HIDE DEF D, c
  <2> QED
    BY <2>2, <2>3
<1>4. D \subseteq Missing(c)
  BY <1>2 DEF Missing
<1>5. IsFiniteSet(D) /\ Cardinality(D) = n
  <2>1. id \in Int /\ id + n - 1 \in Int
    BY <1>1
  <2>2. /\ IsFiniteSet(D)
        /\ Cardinality(D) = IF id > id + n - 1 THEN 0 ELSE (id + n - 1) - id + 1
    BY <2>1, FS_Interval
  <2> QED
    BY <1>1, <2>2
<1>6. IsFiniteSet(Missing(c)) /\ Cardinality(Missing(c)) = remains[c]
  BY <1>1, MissingFinite DEF RemainsExact
<1> HIDE DEF D, c, n
<1>7. /\ IsFiniteSet(Missing(c) \ D)
      /\ Cardinality(Missing(c) \ D) = Cardinality(Missing(c)) - Cardinality(Missing(c) \cap D)
  BY <1>6, FS_Difference
<1>8. Missing(c) \cap D = D
  BY <1>4
<1>9. Cardinality(Missing(c) \ D) = remains[c] - n /\ remains[c] - n \in Nat
  BY <1>5, <1>6, <1>7, <1>8, FS_CardinalityType
<1>10. remains[c] \in 0 .. W32 - 1
  BY <1>1 DEF TypeOK
<1>11. remains[c] - n \in 0 .. W32 - 1
  BY <1>1, <1>9, <1>10, SizesAssumption
<1> QED
  BY <1>3, <1>7, <1>9, <1>11 DEF c, n, D

\* With the last slice of a chunk nothing of it is left in any slice or feed.
LEMMA ChunkReceivedStep ==
  ASSUME IInv, NEW id \in Bytes, slices[id] > 0,
         (remains[ChunkOf(id)] - slices[id]) % W32 = 0,
         ChunkReceived(ChunkOf(id)), UNCHANGED <<feed, peer_map, strategy>>
  PROVE  IInv'
<1> DEFINE c == ChunkOf(id)
<1>1. TypeOK /\ SlicesDisjoint /\ ActiveIsTracked /\ RemainsExact /\ CompleteExact
  BY DEF IInv
<1>2. c \in Chunks /\ c \in tracked /\ map[c] = "ACTIVE"
  BY <1>1, ChunkOfFacts DEF SlicesDisjoint, ActiveIsTracked
<1>3. MissingWithout(c, id) = {}
  <2>1. /\ IsFiniteSet(MissingWithout(c, id))
        /\ Cardinality(MissingWithout(c, id)) = remains[c] - slices[id]
        /\ remains[c] - slices[id] \in 0 .. W32 - 1
    BY <1>1, SliceBytes
  <2>2. remains[c] - slices[id] \in Int
    BY <2>1, SizesAssumption
  <2>3. remains[c] - slices[id] = 0
    BY <2>1, <2>2, Remainder, W64Facts
  <2> QED
    BY <2>1, <2>3, FS_EmptySet
<1>4. \A p \in Peers : feed[p] # None => ChunkOf(feed[p]) # c
  <2> SUFFICES ASSUME NEW p \in Peers, feed[p] # None, ChunkOf(feed[p]) = c PROVE FALSE
    OBVIOUS
  <2>1. feed[p] \in Bytes /\ feed[p] \in Nat
    BY <1>1, SizesAssumption DEF TypeOK, Bytes
  <2>2. feed[p] \in BytesOf(c) /\ feed[p] <= feed[p]
    BY <1>2, <2>1, BytesOfFacts
  <2>3. InFeed(feed[p])
    BY <2>2 DEF InFeed
  <2> QED
    BY <1>3, <2>2, <2>3 DEF MissingWithout
<1>5. /\ map' = [map EXCEPT ![c] = IF SkipsChecking(c) THEN "DONE" ELSE "CHECKING"]
      /\ checking_queue' = IF SkipsChecking(c) THEN checking_queue
                           ELSE checking_queue \cup {c}
      /\ tracked' = tracked \ {c}
      /\ slices' = ForgetSlices({c})
      /\ remains' = ForgetRemains({c})
      /\ total_downloaded' = UpdatedTotal(map', tracked', remains')
      /\ file_is_complete' = AllDone(map')
      /\ feed' = feed /\ peer_map' = peer_map /\ strategy' = strategy
  BY DEF ChunkReceived, updateTotalDownloaded
<1> HIDE DEF c
<1>6. /\ slices' \in [Bytes -> 0 .. FileSize]
      /\ \A o \in Bytes : slices'[o] = IF ChunkOf(o) = c THEN 0 ELSE slices[o]
      /\ remains' \in [Chunks -> 0 .. W32 - 1]
      /\ \A d \in Chunks : d # c => remains'[d] = remains[d]
  BY <1>1, <1>5, SizesAssumption DEF TypeOK, ForgetSlices, ForgetRemains
<1>7. TypeOK'
  <2>1. map' \in [Chunks -> States] /\ checking_queue' \subseteq Chunks
        /\ tracked' \subseteq Chunks
    BY <1>1, <1>2, <1>5 DEF TypeOK, States
  <2>2. total_downloaded' \in 0 .. W64 - 1
    BY <1>5, <2>1, UpdatedTotalType
  <2>3. file_is_complete' \in BOOLEAN
    BY <1>5 DEF AllDone
  <2> QED
    BY <1>1, <1>5, <1>6, <2>1, <2>2, <2>3 DEF TypeOK
<1>8. SlicesDisjoint'
  <2>1. \A o \in Bytes : slices'[o] > 0 => ChunkOf(o) # c /\ slices[o] > 0 /\ slices'[o] = slices[o]
    BY <1>6
  <2> QED
    BY <1>1, <1>5, <2>1 DEF SlicesDisjoint
<1>9. ASSUME NEW d \in Chunks, d # c PROVE Missing(d)' = Missing(d)
  <2>1. ASSUME NEW b \in BytesOf(d) PROVE InSlice(b)' <=> InSlice(b)
    <3>1. b \in Bytes /\ ChunkOf(b) = d /\ b \in Int
      BY BytesOfFacts DEF Bytes
    <3>2. \A o \in Bytes : slices[o] > 0 /\ o <= b /\ b < o + slices[o] => ChunkOf(o) = d
      BY <1>1, <3>1, SliceInChunk
    <3>3. \A o \in Bytes : ChunkOf(o) = d => slices'[o] = slices[o]
      BY <1>6, <1>9
    <3>4. \A o \in Bytes : slices'[o] > 0 => slices'[o] = slices[o]
      BY <1>6
    <3> QED
      BY <3>2, <3>3, <3>4 DEF InSlice
  <2>2. \A b \in BytesOf(d) : InFeed(b)' <=> InFeed(b)
    BY <1>5 DEF InFeed
  <2> QED
    BY <2>1, <2>2 DEF Missing
<1>10. ActiveIsTracked'
  <2>1. tracked' = {d \in Chunks : map'[d] = "ACTIVE"}
    BY <1>1, <1>2, <1>5 DEF ActiveIsTracked, TypeOK
  <2>2. \A d \in tracked' : Missing(d)' # {}
    BY <1>1, <1>5, <1>9 DEF ActiveIsTracked, TypeOK
  <2> QED
    BY <1>1, <1>4, <1>5, <2>1, <2>2 DEF ActiveIsTracked
<1>11. RemainsExact'
  BY <1>1, <1>5, <1>6, <1>9 DEF RemainsExact, TypeOK
<1>12. CompleteExact'
  BY <1>5 DEF CompleteExact
<1> QED
  BY <1>7, <1>8, <1>10, <1>11, <1>12 DEF IInv

\* A slice that is not the last of its chunk: what it covered is no longer missing,
\* and _remains goes down by as much.
LEMMA SliceReceivedStep ==
  ASSUME IInv, NEW id \in Bytes, slices[id] > 0,
         (remains[ChunkOf(id)] - slices[id]) % W32 # 0,
         SliceReceived(id), UNCHANGED <<feed, peer_map, strategy>>
  PROVE  IInv'
<1> DEFINE c == ChunkOf(id)
<1>1. TypeOK /\ SlicesDisjoint /\ ActiveIsTracked /\ RemainsExact /\ CompleteExact
  BY DEF IInv
<1>2. c \in Chunks /\ c \in tracked
  BY <1>1, ChunkOfFacts DEF SlicesDisjoint
<1>3. /\ IsFiniteSet(MissingWithout(c, id))
      /\ Cardinality(MissingWithout(c, id)) = remains[c] - slices[id]
      /\ remains[c] - slices[id] \in 0 .. W32 - 1
  BY <1>1, SliceBytes
<1>4. /\ slices' = [slices EXCEPT ![id] = 0]
      /\ remains' = [remains EXCEPT ![c] = (@ - slices[id]) % W32]
      /\ total_downloaded' = (total_downloaded + slices[id]) % W64
      /\ map' = map /\ tracked' = tracked /\ file_is_complete' = file_is_complete
      /\ checking_queue' = checking_queue
      /\ feed' = feed /\ peer_map' = peer_map /\ strategy' = strategy
  BY DEF SliceReceived
<1>5. remains'[c] = remains[c] - slices[id] /\ remains'[c] # 0
  <2>1. remains[c] - slices[id] \in Int
    BY <1>3, SizesAssumption
  <2>2. (remains[c] - slices[id]) % W32 = remains[c] - slices[id]
    BY <1>3, <2>1, Remainder, W64Facts
  <2> QED
    BY <1>1, <1>2, <1>4, <2>2 DEF TypeOK
<1> HIDE DEF c
<1>6. /\ slices' \in [Bytes -> 0 .. FileSize]
      /\ slices'[id] = 0
      /\ \A o \in Bytes : o # id => slices'[o] = slices[o]
      /\ remains' \in [Chunks -> 0 .. W32 - 1]
      /\ \A d \in Chunks : d # c => remains'[d] = remains[d]
  <2>1. slices' \in [Bytes -> 0 .. FileSize] /\ slices'[id] = 0
        /\ \A o \in Bytes : o # id => slices'[o] = slices[o]
    BY <1>1, <1>4, SizesAssumption DEF TypeOK
  <2>2. (remains[c] - slices[id]) % W32 \in 0 .. W32 - 1
    <3>1. remains[c] - slices[id] \in Int
      BY <1>3, SizesAssumption
    <3> QED
      BY <3>1, Remainder, W64Facts
  <2>3. remains' \in [Chunks -> 0 .. W32 - 1]
    BY <1>1, <1>4, <2>2 DEF TypeOK
  <2>4. \A d \in Chunks : d # c => remains'[d] = remains[d]
    BY <1>1, <1>4 DEF TypeOK
  <2> QED
    BY <2>1, <2>3, <2>4
<1>7. TypeOK'
  <2>1. total_downloaded + slices[id] \in Int
    BY <1>1, SizesAssumption DEF TypeOK
  <2>2. total_downloaded' \in 0 .. W64 - 1
    BY <1>4, <2>1, Remainder, W64Facts
  <2> QED
    BY <1>1, <1>4, <1>6, <2>2 DEF TypeOK
<1>8. SlicesDisjoint'
  <2>1. \A o \in Bytes : slices'[o] > 0 => o # id /\ slices[o] > 0 /\ slices'[o] = slices[o]
    BY <1>6
  <2> QED
    BY <1>1, <1>4, <2>1 DEF SlicesDisjoint
<1>9. ASSUME NEW d \in Chunks PROVE Missing(d)' = MissingWithout(d, id)
  <2>1. ASSUME NEW b \in BytesOf(d)
        PROVE  InSlice(b)' <=> \E o \in Bytes : o # id /\ slices[o] > 0 /\ o <= b /\ b < o + slices[o]
    BY <1>6 DEF InSlice
  <2>2. \A b \in BytesOf(d) : InFeed(b)' <=> InFeed(b)
    BY <1>4 DEF InFeed
  <2> QED
    BY <2>1, <2>2 DEF Missing, MissingWithout
<1>10. ASSUME NEW d \in Chunks, d # c PROVE MissingWithout(d, id) = Missing(d)
  <2>1. ASSUME NEW b \in BytesOf(d)
        PROVE  InSlice(b) <=> \E o \in Bytes : o # id /\ slices[o] > 0 /\ o <= b /\ b < o + slices[o]
    <3>1. b \in Bytes /\ ChunkOf(b) = d /\ b \in Int
      BY BytesOfFacts DEF Bytes
    <3>2. ~ (id <= b /\ b < id + slices[id])
      BY <1>1, <1>10, <3>1, SliceInChunk DEF c
    <3> QED
      BY <3>2 DEF InSlice
  <2> QED
    BY <2>1 DEF Missing, MissingWithout
<1>11. RemainsExact'
  <2> SUFFICES ASSUME NEW d \in tracked' PROVE remains'[d] = Cardinality(Missing(d)')
    BY DEF RemainsExact
  <2>1. d \in Chunks /\ d \in tracked
    BY <1>1, <1>4 DEF TypeOK
  <2>2. CASE d = c
    BY <1>2, <1>3, <1>5, <1>9, <2>2
  <2>3. CASE d # c
    BY <1>1, <1>6, <1>9, <1>10, <2>1, <2>3 DEF RemainsExact
  <2> QED
    BY <2>2, <2>3
<1>12. ActiveIsTracked'
  <2>1. MissingWithout(c, id) # {}
    BY <1>3, <1>5, FS_EmptySet
  <2>2. \A d \in tracked' : Missing(d)' # {}
    BY <1>1, <1>4, <1>9, <1>10, <2>1 DEF ActiveIsTracked, TypeOK
  <2> QED
    BY <1>1, <1>4, <2>2 DEF ActiveIsTracked
<1>13. CompleteExact'
  BY <1>1, <1>4 DEF CompleteExact, AllDone
<1> QED
  BY <1>7, <1>8, <1>11, <1>12, <1>13 DEF IInv

\* dataReceived keeps the invariant for every id, known or not.
LEMMA DataReceivedStep ==
  ASSUME IInv, NEW id \in Bytes, dataReceived(id)
  PROVE  IInv'
<1>1. CASE slices[id] = 0
  <2>1. UNCHANGED cmVars
    BY <1>1 DEF dataReceived, cmVars
  <2> QED
    BY <2>1 DEF cmVars, IInv, TypeOK, SlicesDisjoint, ActiveIsTracked, RemainsExact,
                CompleteExact, AllDone, Missing, InSlice, InFeed
<1>2. CASE slices[id] # 0 /\ (remains[ChunkOf(id)] - slices[id]) % W32 = 0
  <2>1. slices[id] > 0
    BY <1>2, SizesAssumption DEF IInv, TypeOK
  <2>2. ChunkReceived(ChunkOf(id)) /\ UNCHANGED <<feed, peer_map, strategy>>
    BY <1>2 DEF dataReceived
  <2> QED
    BY <1>2, <2>1, <2>2, ChunkReceivedStep
<1>3. CASE slices[id] # 0 /\ (remains[ChunkOf(id)] - slices[id]) % W32 # 0
  <2>1. slices[id] > 0
    BY <1>3, SizesAssumption DEF IInv, TypeOK
  <2>2. SliceReceived(id) /\ UNCHANGED <<feed, peer_map, strategy>>
    BY <1>3 DEF dataReceived
  <2> QED
    BY <1>3, <2>1, <2>2, SliceReceivedStep
<1> QED
  BY <1>1, <1>2, <1>3

\* The chunk is received: nothing of it is left to carve or to wait for.
Finished(c) ==
  /\ map' = [map EXCEPT ![c] = IF SkipsChecking(c) THEN "DONE" ELSE "CHECKING"]
  /\ \A b \in BytesOf(c) : ~ InFeed(b)
  /\ \A o \in Bytes : ChunkOf(o) = c => slices'[o] = 0

\* What dataReceived does, seen from outside: the slice is gone, and maybe the
\* chunk is received.
LEMMA DataReceivedEffect ==
  ASSUME IInv, NEW id \in Bytes, slices[id] > 0, dataReceived(id)
  PROVE  /\ slices' = [slices EXCEPT ![id] = 0]
         /\ feed' = feed
         /\ map[ChunkOf(id)] = "ACTIVE"
         /\ map' = map \/ Finished(ChunkOf(id))
<1> DEFINE c == ChunkOf(id)
<1>1. TypeOK /\ SlicesDisjoint /\ ActiveIsTracked /\ RemainsExact
  BY DEF IInv
<1>2. c \in Chunks /\ map[c] = "ACTIVE" /\ feed' = feed
  BY <1>1, ChunkOfFacts DEF SlicesDisjoint, ActiveIsTracked, dataReceived
<1>3. slices[id] # 0 /\ slices \in [Bytes -> 0 .. FileSize]
  BY <1>1, SizesAssumption DEF TypeOK
<1>4. CASE (remains[c] - slices[id]) % W32 # 0
  <2>1. SliceReceived(id)
    BY <1>3, <1>4 DEF dataReceived
  <2> QED
    BY <1>2, <2>1 DEF SliceReceived
<1>5. CASE (remains[c] - slices[id]) % W32 = 0
  <2>1. ChunkReceived(c)
    BY <1>3, <1>5 DEF dataReceived
  <2>2. MissingWithout(c, id) = {}
    <3>1. /\ IsFiniteSet(MissingWithout(c, id))
          /\ Cardinality(MissingWithout(c, id)) = remains[c] - slices[id]
          /\ remains[c] - slices[id] \in 0 .. W32 - 1
      BY <1>1, SliceBytes
    <3>2. remains[c] - slices[id] \in Int
      BY <3>1, SizesAssumption
    <3>3. remains[c] - slices[id] = 0
      BY <1>5, <3>1, <3>2, Remainder, W64Facts
    <3> QED
      BY <3>1, <3>3, FS_EmptySet
  <2>3. \A b \in BytesOf(c) : ~ InFeed(b)
    BY <2>2 DEF MissingWithout
  <2>4. \A o \in Bytes : o # id /\ ChunkOf(o) = c => slices[o] = 0
    <3> SUFFICES ASSUME NEW o \in Bytes, o # id, ChunkOf(o) = c, slices[o] # 0 PROVE FALSE
      OBVIOUS
    <3>1. o \in Nat /\ slices[o] \in Nat /\ slices[o] > 0
      BY <1>3, SizesAssumption DEF Bytes
    <3>2. o \in BytesOf(c) /\ o <= o /\ o < o + slices[o]
      BY <1>2, <3>1, BytesOfFacts
    <3> QED
      BY <2>2, <3>1, <3>2 DEF MissingWithout
  <2>5. slices' = [o \in Bytes |-> IF ChunkOf(o) = c THEN 0 ELSE slices[o]]
    BY <2>1 DEF ChunkReceived, ForgetSlices
  <2>6. slices' = [slices EXCEPT ![id] = 0]
    BY <1>3, <2>4, <2>5
  <2>7. map' = [map EXCEPT ![c] = IF SkipsChecking(c) THEN "DONE" ELSE "CHECKING"]
    BY <2>1 DEF ChunkReceived
  <2>8. Finished(c)
    BY <2>3, <2>5, <2>7 DEF Finished
  <2> QED
    BY <1>2, <2>6, <2>8
<1> QED
  BY <1>4, <1>5

-----------------------------------------------------------------------------
(* Checks, clean-up and the operations that leave the download records alone. *)

\* An operation that changes no download record and keeps the set of active
\* chunks keeps the three invariants about them.
LEMMA RecordsUnchanged ==
  ASSUME IInv, UNCHANGED <<feed, tracked, slices, remains>>,
         \A c \in Chunks : map'[c] = "ACTIVE" <=> map[c] = "ACTIVE"
  PROVE  SlicesDisjoint' /\ ActiveIsTracked' /\ RemainsExact'
<1>1. \A c \in Chunks : Missing(c)' = Missing(c)
  BY DEF Missing, InSlice, InFeed
<1>2. SlicesDisjoint'
  BY DEF IInv, SlicesDisjoint
<1>3. ActiveIsTracked'
  BY <1>1 DEF IInv, ActiveIsTracked, TypeOK
<1>4. RemainsExact'
  BY <1>1 DEF IInv, RemainsExact, TypeOK
<1> QED
  BY <1>2, <1>3, <1>4

\* setChunkCheckingResult keeps the invariant, for results that come too late as well.
LEMMA CheckingResultStep ==
  ASSUME IInv, NEW c \in Chunks, NEW succeeded \in BOOLEAN,
         setChunkCheckingResult(c, succeeded)
  PROVE  IInv'
<1>1. /\ UNCHANGED <<feed, tracked, slices, remains>>
      /\ checking_queue' = checking_queue /\ peer_map' = peer_map /\ strategy' = strategy
  BY DEF setChunkCheckingResult
<1>2. CASE map[c] = "CHECKING" /\ succeeded
  <2>1. /\ map' = [map EXCEPT ![c] = "DONE"] /\ file_is_complete' = AllDone(map')
        /\ total_downloaded' = total_downloaded
    BY <1>2 DEF setChunkCheckingResult
  <2>2. map' \in [Chunks -> States] /\ file_is_complete' \in BOOLEAN
    BY <2>1 DEF IInv, TypeOK, States, AllDone
  <2>3. \A d \in Chunks : map'[d] = "ACTIVE" <=> map[d] = "ACTIVE"
    BY <1>2, <2>1 DEF IInv, TypeOK
  <2>4. SlicesDisjoint' /\ ActiveIsTracked' /\ RemainsExact'
    BY <1>1, <2>3, RecordsUnchanged
  <2>5. TypeOK' /\ CompleteExact'
    BY <1>1, <2>1, <2>2 DEF IInv, TypeOK, CompleteExact
  <2> QED
    BY <2>4, <2>5 DEF IInv
<1>3. CASE map[c] = "CHECKING" /\ ~succeeded
  <2>1. /\ map' = [map EXCEPT ![c] = "OUTSTANDING"]
        /\ file_is_complete' = file_is_complete
        /\ total_downloaded' = (total_downloaded - sizeOfChunk(c)) % W64
    BY <1>3 DEF setChunkCheckingResult
  <2>2. map' \in [Chunks -> States] /\ map'[c] = "OUTSTANDING"
    BY <2>1 DEF IInv, TypeOK, States
  <2>3. \A d \in Chunks : map'[d] = "ACTIVE" <=> map[d] = "ACTIVE"
    BY <1>3, <2>1 DEF IInv, TypeOK
  <2>4. SlicesDisjoint' /\ ActiveIsTracked' /\ RemainsExact'
    BY <1>1, <2>3, RecordsUnchanged
  <2>5. total_downloaded' \in 0 .. W64 - 1
    <3>1. total_downloaded - sizeOfChunk(c) \in Int
      BY ChunkFacts, SizesAssumption DEF IInv, TypeOK
    <3> QED
      BY <2>1, <3>1, Remainder, W64Facts
  <2>6. TypeOK'
    BY <1>1, <2>1, <2>2, <2>5 DEF IInv, TypeOK
  <2>7. CompleteExact'
    <3>1. ~ AllDone(map) /\ ~ AllDone(map')
      BY <1>3, <2>2 DEF AllDone
    <3> QED
      BY <2>1, <3>1 DEF IInv, CompleteExact
  <2> QED
    BY <2>4, <2>6, <2>7 DEF IInv
<1>4. CASE map[c] # "CHECKING"
  <2>1. map' = map /\ total_downloaded' = total_downloaded
        /\ file_is_complete' = file_is_complete
    BY <1>4 DEF setChunkCheckingResult
  <2>2. SlicesDisjoint' /\ ActiveIsTracked' /\ RemainsExact'
    BY <1>1, <2>1, RecordsUnchanged
  <2>3. TypeOK' /\ CompleteExact'
    BY <1>1, <2>1 DEF IInv, TypeOK, CompleteExact
  <2> QED
    BY <2>2, <2>3 DEF IInv
<1> QED
  BY <1>2, <1>3, <1>4

\* removeInactiveChunks drops every record of the chunks it gives up.
LEMMA RemoveInactiveStep ==
  ASSUME IInv, NEW S \in SUBSET tracked, removeInactiveChunks(S)
  PROVE  IInv'
<1>1. TypeOK /\ SlicesDisjoint /\ ActiveIsTracked /\ RemainsExact /\ CompleteExact
  BY DEF IInv
<1>2. /\ map' = [c \in Chunks |-> IF c \in S THEN "OUTSTANDING" ELSE map[c]]
      /\ total_downloaded' =
           (total_downloaded - SumOver(S, Received(remains))) % W64
      /\ feed' = [p \in Peers |-> IF feed[p] # None /\ ChunkOf(feed[p]) \in S
                                  THEN None ELSE feed[p]]
      /\ tracked' = tracked \ S
      /\ slices' = ForgetSlices(S)
      /\ remains' = ForgetRemains(S)
      /\ file_is_complete' = file_is_complete
      /\ checking_queue' = checking_queue /\ peer_map' = peer_map /\ strategy' = strategy
  BY DEF removeInactiveChunks
<1>3. S \in SUBSET Chunks /\ \A c \in S : map[c] = "ACTIVE"
  BY <1>1 DEF TypeOK, ActiveIsTracked
<1>4. TypeOK'
  <2>1. map' \in [Chunks -> States] /\ tracked' \subseteq Chunks
    BY <1>1, <1>2 DEF TypeOK, States
  <2>2. feed' \in [Peers -> Bytes \cup {None}]
    BY <1>1, <1>2 DEF TypeOK
  <2>3. slices' \in [Bytes -> 0 .. FileSize] /\ remains' \in [Chunks -> 0 .. W32 - 1]
    BY <1>1, <1>2, SizesAssumption DEF TypeOK, ForgetSlices, ForgetRemains
  <2>4. total_downloaded' \in 0 .. W64 - 1
    <3>1. SumOver(S, Received(remains)) \in Nat
      BY <1>3, SumOverNat
    <3>2. total_downloaded - SumOver(S, Received(remains)) \in Int
      BY <1>1, <3>1, SizesAssumption DEF TypeOK
    <3> QED
      BY <1>2, <3>2, Remainder, W64Facts
  <2> QED
    BY <1>1, <1>2, <2>1, <2>2, <2>3, <2>4 DEF TypeOK
<1>5. \A o \in Bytes : slices'[o] = IF ChunkOf(o) \in S THEN 0 ELSE slices[o]
  BY <1>2 DEF ForgetSlices
<1>6. \A p \in Peers : feed'[p] # None => feed'[p] = feed[p] /\ ChunkOf(feed[p]) \notin S
  BY <1>2
<1>7. SlicesDisjoint'
  <2>1. \A o \in Bytes : slices'[o] > 0 => ChunkOf(o) \notin S /\ slices'[o] = slices[o]
    BY <1>5
  <2> QED
    BY <1>1, <1>2, <1>6, <2>1 DEF SlicesDisjoint
<1>8. ASSUME NEW d \in Chunks, d \notin S PROVE Missing(d)' = Missing(d)
  <2>1. ASSUME NEW b \in BytesOf(d) PROVE InSlice(b)' <=> InSlice(b)
    <3>1. b \in Bytes /\ ChunkOf(b) = d /\ b \in Int
      BY BytesOfFacts DEF Bytes
    <3>2. \A o \in Bytes : slices[o] > 0 /\ o <= b /\ b < o + slices[o] => ChunkOf(o) = d
      BY <1>1, <3>1, SliceInChunk
    <3>3. \A o \in Bytes : ChunkOf(o) = d => slices'[o] = slices[o]
      BY <1>5, <1>8
    <3>4. \A o \in Bytes : slices'[o] > 0 => slices'[o] = slices[o]
      BY <1>5
    <3> QED
      BY <3>2, <3>3, <3>4 DEF InSlice
  <2>2. ASSUME NEW b \in BytesOf(d) PROVE InFeed(b)' <=> InFeed(b)
    <3>1. ChunkOf(b) = d
      BY BytesOfFacts
    <3>2. \A p \in Peers : feed[p] # None /\ ChunkOf(feed[p]) = d => feed'[p] = feed[p]
      BY <1>2, <1>8
    <3> QED
      BY <1>6, <3>1, <3>2 DEF InFeed
  <2> QED
    BY <2>1, <2>2 DEF Missing
<1>9. ActiveIsTracked'
  <2>1. tracked' = {d \in Chunks : map'[d] = "ACTIVE"}
    BY <1>1, <1>2, <1>3 DEF ActiveIsTracked
  <2>2. \A d \in tracked' : Missing(d)' # {}
    BY <1>1, <1>2, <1>8 DEF ActiveIsTracked, TypeOK
  <2>3. \A p \in Peers : feed'[p] # None => ChunkOf(feed'[p]) \in tracked'
    BY <1>1, <1>2, <1>6 DEF ActiveIsTracked
  <2>4. \A p, q \in Peers : p # q /\ feed'[p] # None /\ feed'[q] # None
                             => ChunkOf(feed'[p]) # ChunkOf(feed'[q])
    BY <1>1, <1>6 DEF ActiveIsTracked
  <2> QED
    BY <2>1, <2>2, <2>3, <2>4 DEF ActiveIsTracked
<1>10. RemainsExact'
  <2>1. \A d \in Chunks : d \notin S => remains'[d] = remains[d]
    BY <1>2 DEF ForgetRemains
  <2> QED
    BY <1>1, <1>2, <1>8, <2>1 DEF RemainsExact, TypeOK
<1>11. CompleteExact'
  <2>1. CASE S = {}
    <3>1. map' = map
      BY <1>1, <1>2, <2>1 DEF TypeOK
    <3> QED
      BY <1>1, <1>2, <3>1 DEF CompleteExact
  <2>2. CASE S # {}
    <3>1. PICK c \in S : TRUE
      BY <2>2
    <3>2. c \in Chunks /\ map[c] = "ACTIVE" /\ map'[c] = "OUTSTANDING"
      BY <1>2, <1>3
    <3>3. ~ AllDone(map) /\ ~ AllDone(map')
      BY <3>2 DEF AllDone
    <3> QED
      BY <1>1, <1>2, <3>3 DEF CompleteExact
  <2> QED
    BY <2>1, <2>2
<1> QED
  BY <1>4, <1>7, <1>9, <1>10, <1>11 DEF IInv

\* forceCheck keeps the invariant when no slice is pending, as in a complete file.
LEMMA ForceCheckStep ==
  ASSUME IInv, file_is_complete, forceCheck
  PROVE  IInv'
<1>1. /\ map' = [c \in Chunks |-> "CHECKING"] /\ checking_queue' = Chunks
      /\ total_downloaded' = UpdatedTotal(map', tracked, remains)
      /\ file_is_complete' = AllDone(map')
      /\ UNCHANGED <<feed, tracked, slices, remains>>
      /\ peer_map' = peer_map /\ strategy' = strategy
  BY DEF forceCheck, updateTotalDownloaded
<1>2. \A c \in Chunks : map[c] = "DONE"
  BY DEF IInv, CompleteExact, AllDone
<1>3. \A c \in Chunks : map'[c] = "ACTIVE" <=> map[c] = "ACTIVE"
  BY <1>1, <1>2
<1>4. SlicesDisjoint' /\ ActiveIsTracked' /\ RemainsExact'
  BY <1>1, <1>3, RecordsUnchanged
<1>5. TypeOK'
  <2>1. map' \in [Chunks -> States] /\ file_is_complete' \in BOOLEAN
    BY <1>1 DEF States, AllDone
  <2>2. total_downloaded' \in 0 .. W64 - 1
    BY <1>1, UpdatedTotalType DEF IInv, TypeOK
  <2> QED
    BY <1>1, <2>1, <2>2 DEF IInv, TypeOK
<1>6. CompleteExact'
  BY <1>1 DEF CompleteExact
<1> QED
  BY <1>4, <1>5, <1>6 DEF IInv

\* Taking the queue, the sources' maps and the strategy do not touch the download.
LEMMA OtherSteps ==
  ASSUME IInv,
         \/ getChunksToCheck
         \/ \E p \in Peers, m \in PeerMaps : setPeerAvailabilityMap(p, m)
         \/ \E p \in Peers : removeFileSource(p)
         \/ \E s \in Strategies : setStrategy(s)
         \/ UNCHANGED cmVars
  PROVE  IInv'
<1>1. /\ UNCHANGED <<feed, tracked, slices, remains>>
      /\ map' = map /\ total_downloaded' = total_downloaded
      /\ file_is_complete' = file_is_complete
  BY DEF getChunksToCheck, setPeerAvailabilityMap, removeFileSource, setStrategy, cmVars
<1>2. DefaultMap \subseteq Chunks
  BY DEF DefaultMap
<1>3. /\ checking_queue' \subseteq Chunks
      /\ peer_map' \in [Peers -> SUBSET Chunks]
      /\ strategy' \in Strategies
  BY <1>2, SettingsAssumption DEF getChunksToCheck, setPeerAvailabilityMap, removeFileSource,
     setStrategy, cmVars, IInv, TypeOK
<1>4. SlicesDisjoint' /\ ActiveIsTracked' /\ RemainsExact'
  BY <1>1, RecordsUnchanged
<1>5. TypeOK' /\ CompleteExact'
  BY <1>1, <1>3 DEF IInv, TypeOK, CompleteExact
<1> QED
  BY <1>4, <1>5 DEF IInv

\* A chunk map starts with the invariant, whatever was done in an earlier session.
LEMMA InitInv == CmInit => IInv
<1> SUFFICES ASSUME CmInit PROVE IInv
  OBVIOUS
<1>1. PICK done \in SUBSET Chunks : Load(done)
  BY DEF CmInit
<1>2. /\ map = [c \in Chunks |-> IF c \in done THEN "DONE" ELSE "OUTSTANDING"]
      /\ total_downloaded = SumOver(done, Sizes) % W64
      /\ file_is_complete = (done = Chunks)
      /\ feed = [p \in Peers |-> None]
      /\ tracked = {}
      /\ slices = [o \in Bytes |-> 0]
      /\ remains = [c \in Chunks |-> 0]
      /\ checking_queue = {}
      /\ peer_map = [p \in Peers |-> DefaultMap]
      /\ strategy \in Strategies
  BY <1>1 DEF Load, LoadedMap, CmInit
<1>3. TypeOK
  <2>1. map \in [Chunks -> States] /\ file_is_complete \in BOOLEAN
    BY <1>2 DEF States
  <2>2. total_downloaded \in 0 .. W64 - 1
    <3>1. SumOver(done, Sizes) \in Int
      BY SumOverNat
    <3> QED
      BY <1>2, <3>1, Remainder, W64Facts
  <2>3. DefaultMap \subseteq Chunks
    BY DEF DefaultMap
  <2>4. slices \in [Bytes -> 0 .. FileSize] /\ remains \in [Chunks -> 0 .. W32 - 1]
    BY <1>2, SizesAssumption
  <2> QED
    BY <1>2, <2>1, <2>2, <2>3, <2>4 DEF TypeOK
<1>4. SlicesDisjoint
  BY <1>2 DEF SlicesDisjoint
<1>5. ActiveIsTracked
  <2>1. \A c \in Chunks : map[c] # "ACTIVE"
    BY <1>2
  <2>2. \A p \in Peers : feed[p] = None
    BY <1>2
  <2> QED
    BY <1>2, <2>1, <2>2 DEF ActiveIsTracked
<1>6. RemainsExact
  BY <1>2 DEF RemainsExact
<1>7. CompleteExact
  BY <1>2 DEF CompleteExact, AllDone
<1> QED
  BY <1>3, <1>4, <1>5, <1>6, <1>7 DEF IInv

-----------------------------------------------------------------------------
(* The theorems.  They hold as long as a check of the whole file is only      *)
(* forced when the file is complete, which is what the transfer module does   *)
(* on its own account.                                                        *)

\* Every operation keeps it.
LEMMA NextInv ==
  ASSUME UserForceCheck = FALSE, IInv, [CmNext]_cmVars
  PROVE  IInv'
<1>1. ASSUME NEW p \in Peers, NEW hint \in Hints, NEW off \in Bytes, getDataChunk(p, hint, off)
      PROVE  IInv'
  BY <1>1, GetDataChunkStep
<1>2. ASSUME NEW id \in Bytes, dataReceived(id)
      PROVE  IInv'
  BY <1>2, DataReceivedStep
<1>3. ASSUME NEW c \in Chunks, NEW succeeded \in BOOLEAN, setChunkCheckingResult(c, succeeded)
      PROVE  IInv'
  BY <1>3, CheckingResultStep
<1>4. ASSUME NEW S \in SUBSET tracked, removeInactiveChunks(S)
      PROVE  IInv'
  BY <1>4, RemoveInactiveStep
<1>5. CASE MayForceCheck /\ forceCheck
  <2>1. file_is_complete
    BY <1>5 DEF MayForceCheck
  <2> QED
    BY <1>5, <2>1, ForceCheckStep
<1>6. CASE \/ getChunksToCheck
           \/ \E p \in Peers, m \in PeerMaps : setPeerAvailabilityMap(p, m)
           \/ \E p \in Peers : removeFileSource(p)
           \/ \E s \in Strategies : setStrategy(s)
           \/ UNCHANGED cmVars
  BY <1>6, OtherSteps
<1> QED
  BY <1>1, <1>2, <1>3, <1>4, <1>5, <1>6 DEF CmNext

\* The inductive invariant holds in every reachable state of the chunk map, unless a
\* check is forced while the file is incomplete.
THEOREM Invariance ==
  ASSUME UserForceCheck = FALSE
  PROVE  CmSpec => []IInv
<1>1. CmInit => IInv
  BY InitInv
<1>2. IInv /\ [CmNext]_cmVars => IInv'
  BY NextInv
<1> QED
  BY <1>1, <1>2, PTL DEF CmSpec

\* The members of ChunkMap keep their types, for every file and chunk size.
THEOREM TypeCorrect ==
  ASSUME UserForceCheck = FALSE
  PROVE  CmSpec => []TypeOK
<1>1. IInv => TypeOK
  BY DEF IInv
<1> QED
  BY <1>1, Invariance, PTL

\* dataReceived hands a chunk to checking exactly when its last byte is in.
THEOREM RemainsCorrect ==
  ASSUME UserForceCheck = FALSE
  PROVE  CmSpec => []RemainsExact
<1>1. IInv => RemainsExact
  BY DEF IInv
<1> QED
  BY <1>1, Invariance, PTL

\* getDataChunk never hands out a byte that is already asked for.
THEOREM NoByteAskedTwice ==
  ASSUME UserForceCheck = FALSE
  PROVE  CmSpec => []SlicesDisjoint
<1>1. IInv => SlicesDisjoint
  BY DEF IInv
<1> QED
  BY <1>1, Invariance, PTL

\* Every active chunk has download records, bytes to come and at most one feed.
THEOREM ActiveChunksTracked ==
  ASSUME UserForceCheck = FALSE
  PROVE  CmSpec => []ActiveIsTracked
<1>1. IInv => ActiveIsTracked
  BY DEF IInv
<1> QED
  BY <1>1, Invariance, PTL

\* isComplete() is true exactly when every chunk is done.
THEOREM CompletionCorrect ==
  ASSUME UserForceCheck = FALSE
  PROVE  CmSpec => []CompleteExact
<1>1. IInv => CompleteExact
  BY DEF IInv
<1> QED
  BY <1>1, Invariance, PTL

\* No step but a check of the whole file takes a chunk found good back.
LEMMA DoneStep ==
  ASSUME IInv, CmNext, NEW c \in Chunks, map[c] = "DONE", map'[c] # "DONE"
  PROVE  \A d \in Chunks : map'[d] = "CHECKING"
<1>1. map \in [Chunks -> States] /\ tracked = {d \in Chunks : map[d] = "ACTIVE"}
  BY DEF IInv, TypeOK, ActiveIsTracked
<1>2. ASSUME NEW p \in Peers, NEW hint \in Hints, NEW off \in Bytes, getDataChunk(p, hint, off)
      PROVE  FALSE
  BY <1>1, <1>2 DEF getDataChunk, ReuseFeed, ShareFeed, FailsafeFeed, AllocateChunk,
                    getAvailableChunk, Available
<1>3. ASSUME NEW id \in Bytes, dataReceived(id)
      PROVE  FALSE
  <2>1. slices[id] > 0 /\ ChunkReceived(ChunkOf(id))
    BY <1>3, SizesAssumption DEF dataReceived, SliceReceived, IInv, TypeOK
  <2>2. ChunkOf(id) \in tracked
    BY <2>1 DEF IInv, SlicesDisjoint
  <2> QED
    BY <1>1, <2>1, <2>2 DEF ChunkReceived
<1>4. ASSUME NEW d \in Chunks, NEW succeeded \in BOOLEAN, setChunkCheckingResult(d, succeeded)
      PROVE  FALSE
  BY <1>1, <1>4 DEF setChunkCheckingResult
<1>5. ASSUME NEW S \in SUBSET tracked, removeInactiveChunks(S)
      PROVE  FALSE
  BY <1>1, <1>5 DEF removeInactiveChunks
<1>6. CASE forceCheck
  BY <1>6 DEF forceCheck
<1>7. CASE \/ getChunksToCheck
           \/ \E p \in Peers, m \in PeerMaps : setPeerAvailabilityMap(p, m)
           \/ \E p \in Peers : removeFileSource(p)
           \/ \E s \in Strategies : setStrategy(s)
  BY <1>7 DEF getChunksToCheck, setPeerAvailabilityMap, removeFileSource, setStrategy
<1> QED
  BY <1>2, <1>3, <1>4, <1>5, <1>6, <1>7 DEF CmNext

\* A verified chunk stays verified until a check of the whole file.
THEOREM DoneStaysDone ==
  ASSUME UserForceCheck = FALSE
  PROVE  CmSpec => DoneIsFinal
<1> DEFINE A == \A c \in Chunks : map[c] = "DONE" /\ map'[c] # "DONE"
                  => \A d \in Chunks : map'[d] = "CHECKING"
<1>1. IInv /\ [CmNext]_cmVars => [A]_cmVars
  BY DoneStep
<1> QED
  BY <1>1, Invariance, PTL DEF CmSpec, DoneIsFinal

-----------------------------------------------------------------------------
(* The number of bytes downloaded. *)

\* A sum over chunks of the sizes of sets of their bytes counts these bytes.
LEMMA SumCounts ==
  ASSUME NEW S \in SUBSET Chunks, NEW f, NEW A,
         \A c \in S : A[c] \in SUBSET BytesOf(c) /\ f[c] = Cardinality(A[c])
  PROVE  SumOver(S, f) = Cardinality({b \in Bytes : ChunkOf(b) \in S /\ b \in A[ChunkOf(b)]})
<1> DEFINE X == {x \in S \X (1 .. W32) : x[2] <= f[x[1]]}
           Y == {b \in Bytes : ChunkOf(b) \in S /\ b \in A[ChunkOf(b)]}
           g == [c \in S |-> CHOOSE h : h \in Bijection(1 .. f[c], A[c])]
           F == [x \in X |-> g[x[1]][x[2]]]
<1>0. W32 \in Nat /\ FileSize \in Nat /\ FileSize < W32
  BY SizesAssumption
<1>1. ASSUME NEW c \in S
      PROVE  /\ f[c] \in Nat /\ f[c] <= W32
             /\ \A b \in A[c] : b \in Bytes /\ ChunkOf(b) = c
             /\ g[c] \in [1 .. f[c] -> A[c]]
             /\ \A i, j \in 1 .. f[c] : g[c][i] = g[c][j] => i = j
             /\ \A b \in A[c] : \E i \in 1 .. f[c] : g[c][i] = b
  <2>1. c \in Chunks /\ A[c] \in SUBSET BytesOf(c) /\ f[c] = Cardinality(A[c])
    OBVIOUS
  <2>2. \A b \in A[c] : b \in Bytes /\ ChunkOf(b) = c
    BY <2>1, BytesOfFacts
  <2>3. IsFiniteSet(Bytes) /\ Cardinality(Bytes) = FileSize
    <3>1. 0 \in Int /\ FileSize - 1 \in Int /\ FileSize > 0
      BY SizesAssumption
    <3>2. /\ IsFiniteSet(0 .. FileSize - 1)
          /\ Cardinality(0 .. FileSize - 1) =
               IF 0 > FileSize - 1 THEN 0 ELSE (FileSize - 1) - 0 + 1
      BY <3>1, FS_Interval
    <3> QED
      BY <1>0, <3>1, <3>2 DEF Bytes
  <2>4. A[c] \in SUBSET Bytes
    BY <2>2
  <2>5. IsFiniteSet(A[c]) /\ Cardinality(A[c]) <= FileSize
    BY <2>3, <2>4, FS_Subset
  <2>6. f[c] \in Nat /\ ExistsBijection(1 .. f[c], A[c])
    BY <2>1, <2>5, FS_CardinalityType
  <2>7. \E h : h \in Bijection(1 .. f[c], A[c])
    BY <2>6 DEF ExistsBijection
  <2>8. (CHOOSE h : h \in Bijection(1 .. f[c], A[c])) \in Bijection(1 .. f[c], A[c])
    BY <2>7, Zenon
  <2>9. g[c] = CHOOSE h : h \in Bijection(1 .. f[c], A[c])
    BY Zenon
  <2>10. g[c] \in Bijection(1 .. f[c], A[c])
    BY <2>8, <2>9, Zenon
  <2> HIDE DEF g
  <2>11. f[c] <= W32
    BY <1>0, <2>1, <2>5, <2>6
  <2> QED
    BY <2>2, <2>6, <2>10, <2>11 DEF Bijection, Injection, Surjection, IsInjective
<1> HIDE DEF g
<1>2. ASSUME NEW x \in X
      PROVE  /\ x[1] \in S /\ x[2] \in 1 .. f[x[1]] /\ x = <<x[1], x[2]>>
             /\ F[x] = g[x[1]][x[2]] /\ F[x] \in A[x[1]]
             /\ F[x] \in Y /\ ChunkOf(F[x]) = x[1]
  <2>1. x \in S \X (1 .. W32) /\ x[2] <= f[x[1]]
    OBVIOUS
  <2>2. x[1] \in S /\ x[2] \in 1 .. W32 /\ x = <<x[1], x[2]>>
    BY <2>1
  <2>3. x[2] \in 1 .. f[x[1]]
    BY <1>0, <1>1, <2>1, <2>2
  <2>4. F[x] = g[x[1]][x[2]]
    BY Zenon
  <2>5. F[x] \in A[x[1]]
    BY <1>1, <2>2, <2>3, <2>4
  <2>6. F[x] \in Bytes /\ ChunkOf(F[x]) = x[1]
    BY <1>1, <2>2, <2>5
  <2> HIDE DEF F
  <2> QED
    BY <2>2, <2>3, <2>4, <2>5, <2>6
<1>3. F \in [X -> Y]
  <2>1. \A x \in X : g[x[1]][x[2]] \in Y
    BY <1>2, Zenon
  <2> HIDE DEF X, Y
  <2> QED
    BY <2>1
<1>4. ASSUME NEW x \in X, NEW y \in X, F[x] = F[y] PROVE x = y
  <2> HIDE DEF X, Y, F
  <2>1. x[1] = y[1]
    BY <1>2, <1>4
  <2>2. x[2] = y[2]
    BY <1>1, <1>2, <1>4, <2>1
  <2> QED
    BY <1>2, <2>1, <2>2
<1>5. ASSUME NEW b \in Y PROVE \E x \in X : F[x] = b
  <2> DEFINE c == ChunkOf(b)
  <2>1. c \in S /\ b \in A[c]
    OBVIOUS
  <2>2. PICK i \in 1 .. f[c] : g[c][i] = b
    BY <1>1, <2>1
  <2>3. i \in 1 .. W32 /\ i <= f[c]
    BY <1>0, <1>1, <2>1, <2>2
  <2> HIDE DEF c
  <2>4. <<c, i>> \in X
    BY <2>1, <2>3
  <2>5. F[<<c, i>>] = b
    BY <2>2, <2>4
  <2> QED
    BY <2>4, <2>5
<1>6. IsFiniteSet(X)
  <2>1. IsFiniteSet(S)
    BY ChunksFinite, FS_Subset
  <2>2. IsFiniteSet(1 .. W32)
    <3>1. 1 \in Int /\ W32 \in Int
      BY <1>0
    <3> QED
      BY <3>1, FS_Interval
  <2>3. IsFiniteSet(S \X (1 .. W32))
    BY <2>1, <2>2, FS_Product
  <2>4. X \in SUBSET (S \X (1 .. W32))
    OBVIOUS
  <2> QED
    BY <2>3, <2>4, FS_Subset
<1>7. SumOver(S, f) = Cardinality(X)
  BY DEF SumOver
<1> HIDE DEF X, Y, F
<1>8. F \in Bijection(X, Y)
  BY <1>3, <1>4, <1>5 DEF Bijection, Injection, Surjection, IsInjective
<1>9. ExistsBijection(X, Y)
  BY <1>8 DEF ExistsBijection
<1>10. Cardinality(Y) = Cardinality(X)
  BY <1>6, <1>9, FS_Bijection
<1> QED
  BY <1>7, <1>10 DEF Y

\* The bytes of the file that count as downloaded.
Got ==
  {b \in Bytes : LET c == ChunkOf(b)
                 IN  \/ map[c] \in {"CHECKING", "DONE"}
                     \/ map[c] = "ACTIVE" /\ b \notin Missing(c)}

LEMMA TotalIsGot == TotalExact <=> total_downloaded = Cardinality(Got)
  BY DEF TotalExact, Got

LEMMA GotFinite ==
  ASSUME NEW G \in SUBSET Bytes
  PROVE  IsFiniteSet(G) /\ Cardinality(G) \in 0 .. FileSize
<1>1. IsFiniteSet(Bytes) /\ Cardinality(Bytes) = FileSize /\ FileSize \in Nat
  <2>1. 0 \in Int /\ FileSize - 1 \in Int /\ FileSize \in Nat /\ FileSize > 0
    BY SizesAssumption
  <2>2. /\ IsFiniteSet(0 .. FileSize - 1)
        /\ Cardinality(0 .. FileSize - 1) =
             IF 0 > FileSize - 1 THEN 0 ELSE (FileSize - 1) - 0 + 1
    BY <2>1, FS_Interval
  <2> QED
    BY <2>1, <2>2 DEF Bytes
<1>2. IsFiniteSet(G) /\ Cardinality(G) <= FileSize
  BY <1>1, FS_Subset
<1>3. Cardinality(G) \in Nat
  BY <1>2, FS_CardinalityType
<1> QED
  BY <1>1, <1>2, <1>3

\* The sizes of the chunks count their bytes.
LEMMA SizeCounts ==
  ASSUME NEW c \in Chunks
  PROVE  /\ IsFiniteSet(BytesOf(c))
         /\ Cardinality(BytesOf(c)) = sizeOfChunk(c)
         /\ Sizes[c] = Cardinality(BytesOf(c))
<1>1. /\ StartOf(c) \in Nat /\ sizeOfChunk(c) \in Nat /\ sizeOfChunk(c) > 0
      /\ EndOf(c) = StartOf(c) + sizeOfChunk(c)
  BY ChunkFacts, SizesAssumption DEF Bytes
<1>2. StartOf(c) \in Int /\ EndOf(c) - 1 \in Int
  BY <1>1
<1>3. /\ IsFiniteSet(BytesOf(c))
      /\ Cardinality(BytesOf(c)) =
           IF StartOf(c) > EndOf(c) - 1 THEN 0 ELSE (EndOf(c) - 1) - StartOf(c) + 1
  BY <1>2, FS_Interval DEF BytesOf
<1>4. Cardinality(BytesOf(c)) = sizeOfChunk(c)
  BY <1>1, <1>3
<1> QED
  BY <1>3, <1>4 DEF Sizes

\* So do the differences updateTotalDownloaded and removeInactiveChunks add up.
LEMMA ReceivedCounts ==
  ASSUME IInv, NEW c \in tracked
  PROVE  Received(remains)[c] = Cardinality(BytesOf(c) \ Missing(c))
<1>1. c \in Chunks /\ remains[c] = Cardinality(Missing(c)) /\ Missing(c) \subseteq BytesOf(c)
  BY DEF IInv, TypeOK, RemainsExact, Missing
<1>2. /\ IsFiniteSet(BytesOf(c)) /\ Cardinality(BytesOf(c)) = sizeOfChunk(c)
      /\ IsFiniteSet(Missing(c))
  BY <1>1, SizeCounts, MissingFinite
<1>3. BytesOf(c) \cap Missing(c) = Missing(c)
  BY <1>1
<1>4. /\ IsFiniteSet(BytesOf(c) \ Missing(c))
      /\ Cardinality(BytesOf(c) \ Missing(c)) = sizeOfChunk(c) - remains[c]
  <2>1. /\ IsFiniteSet(BytesOf(c) \ Missing(c))
        /\ Cardinality(BytesOf(c) \ Missing(c)) =
             Cardinality(BytesOf(c)) - Cardinality(BytesOf(c) \cap Missing(c))
    BY <1>2, FS_Difference
  <2> QED
    BY <1>1, <1>2, <1>3, <2>1, Zenon
<1>5. BytesOf(c) \ Missing(c) \in SUBSET Bytes
  BY <1>1, BytesOfFacts
<1>6. /\ sizeOfChunk(c) - remains[c] \in 0 .. W32 - 1
      /\ sizeOfChunk(c) - remains[c] \in Int
  BY <1>4, <1>5, GotFinite, SizesAssumption
<1>7. (sizeOfChunk(c) - remains[c]) % W32 = sizeOfChunk(c) - remains[c]
  BY <1>6, Remainder, W64Facts
<1> QED
  BY <1>1, <1>4, <1>7 DEF Received

\* What the tracked chunks of S have so far.
LEMMA PartsCount ==
  ASSUME IInv, NEW S \in SUBSET tracked
  PROVE  SumOver(S, Received(remains)) = Cardinality({b \in Got : ChunkOf(b) \in S})
<1> DEFINE A == [c \in S |-> BytesOf(c) \ Missing(c)]
           f == Received(remains)
<1>1. S \in SUBSET Chunks /\ \A c \in S : map[c] = "ACTIVE"
  BY DEF IInv, TypeOK, ActiveIsTracked
<1>2. \A c \in S : A[c] \in SUBSET BytesOf(c) /\ f[c] = Cardinality(A[c])
  BY ReceivedCounts
<1>3. {b \in Bytes : ChunkOf(b) \in S /\ b \in A[ChunkOf(b)]} = {b \in Got : ChunkOf(b) \in S}
  <2>1. ASSUME NEW b \in Bytes, ChunkOf(b) \in S
        PROVE  b \in A[ChunkOf(b)] <=> b \in Got
    <3>1. b \in BytesOf(ChunkOf(b)) /\ map[ChunkOf(b)] = "ACTIVE"
      BY <1>1, <2>1, BytesOfFacts
    <3>2. b \in A[ChunkOf(b)] <=> b \notin Missing(ChunkOf(b))
      BY <2>1, <3>1
    <3> QED
      BY <3>1, <3>2 DEF Got
  <2>2. Got \subseteq Bytes
    BY DEF Got
  <2> HIDE DEF A
  <2> QED
    BY <2>1, <2>2
<1>4. SumOver(S, f) = Cardinality({b \in Bytes : ChunkOf(b) \in S /\ b \in A[ChunkOf(b)]})
  <2> HIDE DEF A, f
  <2> QED
    BY <1>1, <1>2, SumCounts
<1> QED
  BY <1>3, <1>4

\* What whole chunks have.
LEMMA WholesCount ==
  ASSUME NEW S \in SUBSET Chunks
  PROVE  SumOver(S, Sizes) = Cardinality({b \in Bytes : ChunkOf(b) \in S})
<1> DEFINE A == [c \in S |-> BytesOf(c)]
           f == Sizes
<1>1. \A c \in S : A[c] \in SUBSET BytesOf(c) /\ f[c] = Cardinality(A[c])
  BY SizeCounts
<1>2. {b \in Bytes : ChunkOf(b) \in S /\ b \in A[ChunkOf(b)]} = {b \in Bytes : ChunkOf(b) \in S}
  BY BytesOfFacts
<1>3. SumOver(S, f) = Cardinality({b \in Bytes : ChunkOf(b) \in S /\ b \in A[ChunkOf(b)]})
  <2> HIDE DEF A, f
  <2> QED
    BY <1>1, SumCounts
<1> QED
  BY <1>2, <1>3

\* updateTotalDownloaded counts the bytes downloaded.
TotalComputed == UpdatedTotal(map, tracked, remains) = Cardinality(Got)

LEMMA ComputedAlways == IInv => TotalComputed
<1> SUFFICES ASSUME IInv PROVE TotalComputed
  OBVIOUS
<1> DEFINE W == {c \in Chunks : map[c] \in {"CHECKING", "DONE"}}
           G1 == {b \in Bytes : ChunkOf(b) \in W}
           G2 == {b \in Got : ChunkOf(b) \in tracked}
           x == SumOver(W, Sizes)
           y == SumOver({c \in tracked : map[c] = "CHECKING"}, Sizes)
           z == SumOver(tracked, Received(remains))
<1>1. tracked = {c \in Chunks : map[c] = "ACTIVE"} /\ tracked \in SUBSET Chunks
  BY DEF IInv, TypeOK, ActiveIsTracked
<1>2. UpdatedTotal(map, tracked, remains) = (x - y + z) % W64
  BY DEF UpdatedTotal
<1>3. x = Cardinality(G1)
  <2>1. W \in SUBSET Chunks
    OBVIOUS
  <2> HIDE DEF W
  <2> QED
    BY <2>1, WholesCount
<1>4. y = 0
  <2>1. {c \in tracked : map[c] = "CHECKING"} = {}
    BY <1>1
  <2>2. {} \in SUBSET Chunks /\ {b \in Bytes : ChunkOf(b) \in {}} = {}
    OBVIOUS
  <2>3. SumOver({}, Sizes) = Cardinality({b \in Bytes : ChunkOf(b) \in {}})
    BY WholesCount
  <2> QED
    BY <2>1, <2>2, <2>3, FS_EmptySet
<1>5. z = Cardinality(G2)
  BY PartsCount
<1>6. G1 \cup G2 = Got /\ G1 \cap G2 = {}
  <2>1. ASSUME NEW b \in Got PROVE b \in G1 \/ b \in G2
    <3>1. b \in Bytes /\ ChunkOf(b) \in Chunks
      BY ChunkOfFacts DEF Got
    <3> QED
      BY <1>1, <3>1 DEF Got
  <2>2. G1 \subseteq Got
    BY DEF Got
  <2>3. G2 \subseteq Got
    OBVIOUS
  <2>4. G1 \cap G2 = {}
    BY <1>1
  <2> HIDE DEF G1, G2
  <2> QED
    BY <2>1, <2>2, <2>3, <2>4
<1>7. Got \in SUBSET Bytes /\ G1 \in SUBSET Bytes /\ G2 \in SUBSET Bytes
  BY DEF Got
<1> HIDE DEF W, G1, G2, x, y, z
<1>8. IsFiniteSet(G1) /\ IsFiniteSet(G2) /\ Cardinality(G1) \in Nat /\ Cardinality(G2) \in Nat
  BY <1>7, GotFinite, SizesAssumption
<1>9. Cardinality(Got) = x + z
  <2>1. Cardinality(G1 \cup G2) = Cardinality(G1) + Cardinality(G2) - Cardinality(G1 \cap G2)
    BY <1>8, FS_Union
  <2>2. Cardinality(G1 \cap G2) = 0
    BY <1>6, FS_EmptySet
  <2>3. Cardinality(Got) = Cardinality(G1) + Cardinality(G2) - 0
    BY <1>6, <2>1, <2>2, Zenon
  <2>4. Cardinality(Got) = Cardinality(G1) + Cardinality(G2)
    BY <1>8, <2>3
  <2> QED
    BY <1>3, <1>5, <2>4, Zenon
<1>10. x - y + z = Cardinality(Got) /\ x - y + z \in Int
  BY <1>3, <1>4, <1>5, <1>8, <1>9
<1>11. x - y + z \in 0 .. W64 - 1
  BY <1>7, <1>10, GotFinite, SizesAssumption
<1>12. (x - y + z) % W64 = x - y + z
  BY <1>10, <1>11, Remainder, W64Facts
<1> QED
  BY <1>2, <1>10, <1>12 DEF TotalComputed

LEMMA ComputedNext == IInv' => TotalComputed'
  BY ComputedAlways, PTL

LEMMA TotalNextIsGot == TotalExact' <=> total_downloaded' = Cardinality(Got')
  BY DEF TotalExact, Got

\* A byte was downloaded when it was asked for and no slice waits for it.
GotKnown == \A b \in Bytes : b \in Got <=> ~ NotAsked(b) /\ ~ InSlice(b)

LEMMA GotAlways == IInv => GotKnown
<1> SUFFICES ASSUME IInv, NEW b \in Bytes
             PROVE  b \in Got <=> ~ NotAsked(b) /\ ~ InSlice(b)
  BY DEF GotKnown
<1>1. ChunkOf(b) \in Chunks /\ b \in BytesOf(ChunkOf(b)) /\ b \in Int
  BY ChunkOfFacts, BytesOfFacts DEF Bytes
<1>2. map[ChunkOf(b)] \in States
  BY <1>1 DEF IInv, TypeOK
<1>3. InSlice(b) => map[ChunkOf(b)] = "ACTIVE"
  <2> SUFFICES ASSUME NEW o \in Bytes, slices[o] > 0, o <= b, b < o + slices[o]
               PROVE  map[ChunkOf(b)] = "ACTIVE"
    BY DEF InSlice
  <2>1. ChunkOf(b) = ChunkOf(o)
    BY <1>1, SliceInChunk DEF IInv
  <2> QED
    BY <2>1 DEF IInv, SlicesDisjoint, ActiveIsTracked
<1>4. b \in Missing(ChunkOf(b)) <=> InSlice(b) \/ InFeed(b)
  BY <1>1 DEF Missing
<1> QED
  BY <1>2, <1>3, <1>4 DEF Got, NotAsked, States

LEMMA GotNext == IInv' => GotKnown'
  BY GotAlways, PTL

\* Operations that download nothing.
LEMMA NothingGot ==
  ASSUME IInv, IInv', TotalExact, total_downloaded' = total_downloaded,
         \A b \in Bytes : NotAsked(b)' \/ InSlice(b)' <=> NotAsked(b) \/ InSlice(b)
  PROVE  TotalExact'
<1>1. \A b \in Bytes : b \in Got' <=> b \in Got
  BY GotAlways, GotNext DEF GotKnown
<1>2. Got' = Got
  BY <1>1 DEF Got
<1> QED
  BY <1>2, TotalIsGot, TotalNextIsGot

\* A slice asked for is of bytes nobody had asked for.
LEMMA GetDataTotal ==
  ASSUME IInv, IInv', TotalExact, NEW p \in Peers, NEW hint \in Hints, NEW off \in Bytes,
         getDataChunk(p, hint, off)
  PROVE  TotalExact'
<1> DEFINE n == SliceSize(off, hint)
<1>1. Carved(off, n)
  BY GetDataChunkEffect
<1>2. total_downloaded' = total_downloaded
  BY DEF getDataChunk
<1>3. /\ n \in Nat /\ n > 0 /\ off \in Nat /\ slices \in [Bytes -> 0 .. FileSize]
      /\ slices' = [slices EXCEPT ![off] = n] /\ slices[off] = 0
  BY <1>1, SliceSizeFacts, SizesAssumption DEF Carved, Bytes, IInv, TypeOK
<1> HIDE DEF n
<1>4. ASSUME NEW b \in Bytes
      PROVE  InSlice(b)' <=> InSlice(b) \/ (off <= b /\ b < off + n)
  BY <1>3 DEF InSlice
<1>5. \A b \in Bytes : off <= b /\ b < off + n => NotAsked(b)
  BY <1>1 DEF Carved
<1>6. \A b \in Bytes : NotAsked(b)' <=> NotAsked(b) /\ ~ (off <= b /\ b < off + n)
  BY <1>1 DEF Carved
<1>7. \A b \in Bytes : NotAsked(b)' \/ InSlice(b)' <=> NotAsked(b) \/ InSlice(b)
  BY <1>4, <1>5, <1>6
<1> QED
  BY <1>2, <1>7, NothingGot

\* A slice that came in, one of several of its chunk.
LEMMA SliceTotal ==
  ASSUME IInv, IInv', TotalExact, NEW id \in Bytes, slices[id] > 0, SliceReceived(id),
         UNCHANGED feed
  PROVE  TotalExact'
<1> DEFINE n == slices[id]
           D == id .. id + n - 1
<1>1. /\ id \in Nat /\ n \in Nat /\ slices \in [Bytes -> 0 .. FileSize]
      /\ slices' = [slices EXCEPT ![id] = 0] /\ map' = map
      /\ total_downloaded' = (total_downloaded + n) % W64
      /\ TypeOK /\ SlicesDisjoint
  <2>1. TypeOK /\ SlicesDisjoint
    BY DEF IInv
  <2>2. id \in Nat /\ n \in Nat /\ slices \in [Bytes -> 0 .. FileSize]
    BY <2>1, SizesAssumption DEF TypeOK, Bytes
  <2>3. /\ slices' = [slices EXCEPT ![id] = 0] /\ map' = map
        /\ total_downloaded' = (total_downloaded + n) % W64
    BY Zenon DEF SliceReceived
  <2> QED
    BY <2>1, <2>2, <2>3, Zenon
<1>2. ASSUME NEW b \in D
      PROVE  b \in Bytes /\ InSlice(b) /\ ~ NotAsked(b) /\ ~ InSlice(b)'
  <2>1. b \in Int /\ id <= b /\ b < id + n
    BY <1>1
  <2>2. b \in Bytes /\ ChunkOf(b) = ChunkOf(id)
    BY <1>1, <2>1, SliceInChunk
  <2>3. ChunkOf(id) \in Chunks /\ map[ChunkOf(id)] = "ACTIVE"
    BY ChunkOfFacts DEF IInv, SlicesDisjoint, ActiveIsTracked
  <2>4. ~ InFeed(b)
    <3> SUFFICES ASSUME NEW p \in Peers, feed[p] # None, ChunkOf(feed[p]) = ChunkOf(id), feed[p] <= b
                 PROVE  FALSE
      BY <2>2 DEF InFeed
    <3>1. id + n <= feed[p] /\ feed[p] \in Int
      BY <1>1, SizesAssumption DEF SlicesDisjoint, TypeOK, Bytes
    <3> QED
      BY <1>1, <2>1, <3>1
  <2>5. ASSUME NEW o \in Bytes, slices'[o] > 0, o <= b, b < o + slices'[o]
        PROVE  FALSE
    <3>1. o # id /\ slices[o] > 0 /\ slices'[o] = slices[o] /\ o \in Nat /\ slices[o] \in Nat
      BY <1>1, <2>5, SizesAssumption DEF Bytes
    <3>2. CASE o < id
      <4>1. o + slices[o] <= id
        BY <1>1, <3>1, <3>2 DEF SlicesDisjoint
      <4> QED
        BY <1>1, <2>1, <2>5, <3>1, <4>1
    <3>3. CASE id < o
      <4>1. id + n <= o
        BY <1>1, <3>1, <3>3 DEF SlicesDisjoint
      <4> QED
        BY <1>1, <2>1, <2>5, <3>1, <4>1
    <3> QED
      BY <1>1, <3>1, <3>2, <3>3
  <2> QED
    BY <2>1, <2>2, <2>3, <2>4, <2>5 DEF InSlice, NotAsked
<1>3. ASSUME NEW b \in Bytes, b \notin D
      PROVE  InSlice(b)' <=> InSlice(b)
  <2>1. b \in Int /\ ~ (id <= b /\ b < id + n)
    BY <1>1, <1>3 DEF Bytes
  <2> QED
    BY <1>1, <2>1 DEF InSlice
<1>4. \A b \in Bytes : NotAsked(b)' <=> NotAsked(b)
  BY <1>1 DEF NotAsked, InFeed
<1>5. IsFiniteSet(D) /\ Cardinality(D) = n
  <2>1. id \in Int /\ id + n - 1 \in Int
    BY <1>1
  <2>2. /\ IsFiniteSet(D)
        /\ Cardinality(D) = IF id > id + n - 1 THEN 0 ELSE (id + n - 1) - id + 1
    BY <2>1, FS_Interval
  <2> QED
    BY <1>1, <2>2
<1> HIDE DEF D, n
<1>6. Got' = Got \cup D /\ Got \cap D = {}
  <2>1. \A b \in Bytes : b \in Got' <=> ~ NotAsked(b)' /\ ~ InSlice(b)'
    BY GotNext DEF GotKnown
  <2>2. \A b \in Bytes : b \in Got <=> ~ NotAsked(b) /\ ~ InSlice(b)
    BY GotAlways DEF GotKnown
  <2>3. Got \subseteq Bytes /\ Got' \subseteq Bytes /\ D \subseteq Bytes
    BY <1>2 DEF Got
  <2>4. \A b \in Bytes : b \in Got' <=> b \in Got \/ b \in D
    BY <1>2, <1>3, <1>4, <2>1, <2>2
  <2>5. \A b \in D : b \notin Got
    BY <1>2, <2>2
  <2> QED
    BY <2>3, <2>4, <2>5
<1>7. Got \in SUBSET Bytes /\ Got' \in SUBSET Bytes
  BY DEF Got
<1>8. IsFiniteSet(Got) /\ Cardinality(Got) \in Nat /\ Cardinality(Got') \in 0 .. FileSize
  BY <1>7, GotFinite, SizesAssumption
<1>9. Cardinality(Got') = Cardinality(Got) + n
  <2>1. Cardinality(Got \cup D) = Cardinality(Got) + Cardinality(D) - Cardinality(Got \cap D)
    BY <1>5, <1>8, FS_Union
  <2>2. Cardinality(Got \cap D) = 0
    BY <1>6, FS_EmptySet
  <2>3. Cardinality(Got') = Cardinality(Got) + n - 0
    BY <1>5, <1>6, <2>1, <2>2, Zenon
  <2> QED
    BY <1>1, <1>8, <2>3
<1>10. total_downloaded + n = Cardinality(Got')
  BY <1>9, TotalIsGot
<1>11. total_downloaded + n \in Int /\ total_downloaded + n \in 0 .. W64 - 1
  BY <1>8, <1>10, SizesAssumption
<1>12. (total_downloaded + n) % W64 = total_downloaded + n
  BY <1>11, Remainder, W64Facts
<1> QED
  BY <1>1, <1>10, <1>12, TotalNextIsGot

\* Where the total is computed anew it is right.
LEMMA ComputedTotal ==
  ASSUME IInv', total_downloaded' = UpdatedTotal(map', tracked', remains')
  PROVE  TotalExact'
<1>1. UpdatedTotal(map', tracked', remains') = Cardinality(Got')
  BY ComputedNext DEF TotalComputed, UpdatedTotal
<1> QED
  BY <1>1, TotalNextIsGot

LEMMA DataTotal ==
  ASSUME IInv, IInv', TotalExact, NEW id \in Bytes, dataReceived(id)
  PROVE  TotalExact'
<1>0. slices[id] \in Nat
  BY SizesAssumption DEF IInv, TypeOK
<1>1. CASE slices[id] = 0
  <2>1. UNCHANGED <<map, feed, slices, total_downloaded>>
    BY <1>1 DEF dataReceived
  <2>2. \A b \in Bytes : NotAsked(b)' \/ InSlice(b)' <=> NotAsked(b) \/ InSlice(b)
    BY <2>1 DEF NotAsked, InFeed, InSlice
  <2> QED
    BY <2>1, <2>2, NothingGot
<1>2. CASE slices[id] # 0 /\ (remains[ChunkOf(id)] - slices[id]) % W32 = 0
  <2>1. total_downloaded' = UpdatedTotal(map', tracked', remains')
    BY <1>2 DEF dataReceived, ChunkReceived, updateTotalDownloaded
  <2> QED
    BY <2>1, ComputedTotal
<1>3. CASE slices[id] # 0 /\ (remains[ChunkOf(id)] - slices[id]) % W32 # 0
  <2>1. SliceReceived(id) /\ UNCHANGED feed /\ slices[id] > 0
    BY <1>0, <1>3 DEF dataReceived
  <2> QED
    BY <2>1, SliceTotal
<1> QED
  BY <1>1, <1>2, <1>3

\* Bytes that are given up, a whole number of them at a time.
LEMMA GivenUp ==
  ASSUME IInv, TotalExact, NEW D \in SUBSET Got, Got' = Got \ D, NEW n,
         n = Cardinality(D), total_downloaded' = (total_downloaded - n) % W64
  PROVE  TotalExact'
<1>1. Got \in SUBSET Bytes /\ Got' \in SUBSET Bytes /\ D \in SUBSET Bytes
  BY DEF Got
<1>2. /\ IsFiniteSet(Got) /\ Cardinality(Got) \in Nat /\ Cardinality(D) \in Nat
      /\ Cardinality(Got') \in 0 .. FileSize
  BY <1>1, GotFinite, SizesAssumption
<1>3. Cardinality(Got \ D) = Cardinality(Got) - Cardinality(Got \cap D)
  BY <1>2, FS_Difference
<1>4. Got \cap D = D
  OBVIOUS
<1>5. Cardinality(Got') = Cardinality(Got) - n
  BY <1>3, <1>4, Zenon
<1>6. total_downloaded - n = Cardinality(Got')
  BY <1>5, TotalIsGot
<1>7. total_downloaded - n \in Int /\ total_downloaded - n \in 0 .. W64 - 1
  BY <1>2, <1>6, SizesAssumption
<1>8. (total_downloaded - n) % W64 = total_downloaded - n
  BY <1>7, Remainder, W64Facts
<1> QED
  BY <1>6, <1>8, TotalNextIsGot

\* A chunk that fails its check is given up whole.
LEMMA CheckingTotal ==
  ASSUME IInv, IInv', TotalExact, NEW c \in Chunks, NEW succeeded \in BOOLEAN,
         setChunkCheckingResult(c, succeeded)
  PROVE  TotalExact'
<1>0. map \in [Chunks -> States] /\ \A b \in Bytes : ChunkOf(b) \in Chunks
  BY ChunkOfFacts DEF IInv, TypeOK
<1>1. UNCHANGED <<feed, slices>>
  BY DEF setChunkCheckingResult
<1>2. CASE map[c] # "CHECKING"
  <2>1. UNCHANGED <<map, total_downloaded>>
    BY <1>2 DEF setChunkCheckingResult
  <2>2. \A b \in Bytes : NotAsked(b)' \/ InSlice(b)' <=> NotAsked(b) \/ InSlice(b)
    BY <1>1, <2>1 DEF NotAsked, InFeed, InSlice
  <2> QED
    BY <2>1, <2>2, NothingGot
<1>3. CASE map[c] = "CHECKING" /\ succeeded
  <2>1. map' = [map EXCEPT ![c] = "DONE"] /\ UNCHANGED total_downloaded
    BY <1>3 DEF setChunkCheckingResult
  <2>2. \A b \in Bytes : (NotAsked(b)' <=> NotAsked(b)) /\ (InSlice(b)' <=> InSlice(b))
    BY <1>0, <1>1, <1>3, <2>1 DEF NotAsked, InFeed, InSlice
  <2> QED
    BY <2>1, <2>2, NothingGot
<1>4. CASE map[c] = "CHECKING" /\ ~ succeeded
  <2>1. /\ map' = [map EXCEPT ![c] = "OUTSTANDING"]
        /\ total_downloaded' = (total_downloaded - sizeOfChunk(c)) % W64
    BY <1>4 DEF setChunkCheckingResult
  <2>2. sizeOfChunk(c) = Cardinality(BytesOf(c))
    BY SizeCounts
  <2>3. \A b \in BytesOf(c) : b \in Bytes /\ ChunkOf(b) = c
    BY BytesOfFacts
  <2>4. BytesOf(c) \in SUBSET Got
    BY <1>4, <2>3 DEF Got
  <2>5. ASSUME NEW b \in Bytes
        PROVE  b \in Got' <=> b \in Got /\ b \notin BytesOf(c)
    <3>1. (b \in Got <=> ~ NotAsked(b) /\ ~ InSlice(b))
          /\ (b \in Got' <=> ~ NotAsked(b)' /\ ~ InSlice(b)')
      BY GotAlways, GotNext DEF GotKnown
    <3>2. InSlice(b)' <=> InSlice(b)
      BY <1>1 DEF InSlice
    <3>3. b \in BytesOf(c) <=> ChunkOf(b) = c
      BY BytesOfFacts
    <3>4. NotAsked(b)' <=> NotAsked(b) \/ ChunkOf(b) = c
      BY <1>0, <1>1, <1>4, <2>1 DEF NotAsked, InFeed
    <3> QED
      BY <3>1, <3>2, <3>3, <3>4
  <2>6. Got' = Got \ BytesOf(c)
    <3>1. Got \subseteq Bytes /\ Got' \subseteq Bytes
      BY DEF Got
    <3> QED
      BY <2>5, <3>1
  <2> QED
    BY <2>1, <2>2, <2>4, <2>6, GivenUp
<1> QED
  BY <1>2, <1>3, <1>4

\* So are chunks that are not worked on any more.
LEMMA RemoveTotal ==
  ASSUME IInv, IInv', TotalExact, NEW S \in SUBSET tracked, removeInactiveChunks(S)
  PROVE  TotalExact'
<1> DEFINE D == {b \in Got : ChunkOf(b) \in S}
           n == SumOver(S, Received(remains))
<1>1. /\ map \in [Chunks -> States] /\ S \subseteq Chunks
      /\ \A b \in Bytes : ChunkOf(b) \in Chunks
      /\ feed \in [Peers -> Bytes \cup {None}]
      /\ slices \in [Bytes -> 0 .. FileSize] /\ TypeOK /\ SlicesDisjoint
  BY ChunkOfFacts DEF IInv, TypeOK
<1>2. /\ map' = [c \in Chunks |-> IF c \in S THEN "OUTSTANDING" ELSE map[c]]
      /\ total_downloaded' = (total_downloaded - n) % W64
      /\ feed' = [p \in Peers |-> IF feed[p] # None /\ ChunkOf(feed[p]) \in S
                                  THEN None ELSE feed[p]]
      /\ slices' = [o \in Bytes |-> IF ChunkOf(o) \in S THEN 0 ELSE slices[o]]
  BY DEF removeInactiveChunks, ForgetSlices
<1>3. n = Cardinality(D)
  BY PartsCount
<1>4. ASSUME NEW b \in Bytes
      PROVE  b \in Got' <=> b \in Got /\ ChunkOf(b) \notin S
  <2>1. (b \in Got <=> ~ NotAsked(b) /\ ~ InSlice(b))
        /\ (b \in Got' <=> ~ NotAsked(b)' /\ ~ InSlice(b)')
    BY GotAlways, GotNext DEF GotKnown
  <2>2. CASE ChunkOf(b) \in S
    BY <1>1, <1>2, <2>1, <2>2 DEF NotAsked
  <2>3. CASE ChunkOf(b) \notin S
    <3>1. InFeed(b)' <=> InFeed(b)
      BY <1>1, <1>2, <2>3 DEF InFeed
    <3>2. NotAsked(b)' <=> NotAsked(b)
      BY <1>1, <1>2, <2>3, <3>1 DEF NotAsked
    <3>3. b \in Int
      BY DEF Bytes
    <3>4. \A o \in Bytes : slices[o] > 0 /\ o <= b /\ b < o + slices[o] => ChunkOf(o) = ChunkOf(b)
      BY <1>1, <3>3, SliceInChunk
    <3>5. InSlice(b)' <=> InSlice(b)
      BY <1>1, <1>2, <2>3, <3>4 DEF InSlice
    <3> QED
      BY <2>1, <2>3, <3>2, <3>5
  <2> QED
    BY <2>2, <2>3
<1>5. Got' = Got \ D
  <2>1. Got \subseteq Bytes /\ Got' \subseteq Bytes
    BY DEF Got
  <2> QED
    BY <1>4, <2>1
<1>6. D \in SUBSET Got
  OBVIOUS
<1> HIDE DEF D, n
<1> QED
  BY <1>2, <1>3, <1>5, <1>6, GivenUp

LEMMA TotalNext ==
  ASSUME UserForceCheck = FALSE, IInv, IInv', TotalExact, [CmNext]_cmVars
  PROVE  TotalExact'
<1>1. CASE \E p \in Peers, hint \in Hints, off \in Bytes : getDataChunk(p, hint, off)
  BY <1>1, GetDataTotal
<1>2. CASE \E id \in Bytes : dataReceived(id)
  BY <1>2, DataTotal
<1>3. CASE \E c \in Chunks, succeeded \in BOOLEAN : setChunkCheckingResult(c, succeeded)
  BY <1>3, CheckingTotal
<1>4. CASE \E S \in SUBSET tracked : removeInactiveChunks(S)
  BY <1>4, RemoveTotal
<1>5. CASE MayForceCheck /\ forceCheck
  <2>1. total_downloaded' = UpdatedTotal(map', tracked', remains')
    BY <1>5 DEF forceCheck, updateTotalDownloaded
  <2> QED
    BY <2>1, ComputedTotal
<1>6. CASE \/ getChunksToCheck
           \/ \E p \in Peers, m \in PeerMaps : setPeerAvailabilityMap(p, m)
           \/ \E p \in Peers : removeFileSource(p)
           \/ \E s \in Strategies : setStrategy(s)
           \/ UNCHANGED cmVars
  <2>1. UNCHANGED <<map, feed, slices, total_downloaded>>
    BY <1>6 DEF getChunksToCheck, setPeerAvailabilityMap, removeFileSource, setStrategy, cmVars
  <2>2. \A b \in Bytes : NotAsked(b)' \/ InSlice(b)' <=> NotAsked(b) \/ InSlice(b)
    BY <2>1 DEF NotAsked, InFeed, InSlice
  <2> QED
    BY <2>1, <2>2, NothingGot
<1> QED
  BY <1>1, <1>2, <1>3, <1>4, <1>5, <1>6 DEF CmNext

LEMMA TotalInit == CmInit => TotalExact
<1> SUFFICES ASSUME NEW done \in SUBSET Chunks, Load(done) PROVE TotalExact
  BY DEF CmInit
<1> DEFINE D == {b \in Bytes : ChunkOf(b) \in done}
           n == SumOver(done, Sizes)
<1>1. map = [c \in Chunks |-> IF c \in done THEN "DONE" ELSE "OUTSTANDING"]
      /\ total_downloaded = n % W64
  BY DEF Load, LoadedMap
<1>2. n = Cardinality(D)
  BY WholesCount
<1>3. Got = D
  BY <1>1, ChunkOfFacts DEF Got
<1>4. D \in SUBSET Bytes
  OBVIOUS
<1> HIDE DEF D, n
<1>5. n \in 0 .. W64 - 1 /\ n \in Int
  BY <1>2, <1>4, GotFinite, SizesAssumption
<1>6. n % W64 = n
  BY <1>5, Remainder, W64Facts
<1> QED
  BY <1>1, <1>2, <1>3, <1>6, TotalIsGot

\* _total_downloaded is the number of bytes downloaded, after any mixture of the
\* five functions that add to it, take from it or compute it anew, and its
\* unsigned differences never wrap around.
THEOREM TotalCorrect ==
  ASSUME UserForceCheck = FALSE
  PROVE  CmSpec => []TotalExact
<1>1. IInv /\ IInv' /\ TotalExact /\ [CmNext]_cmVars => TotalExact'
  BY TotalNext
<1> QED
  BY Invariance, TotalInit, <1>1, PTL DEF CmSpec

=============================================================================
