------------------------ MODULE FtFileCreatorProofs ------------------------
(***************************************************************************)
(* Proofs about the file creator, for every file, chunk and packet size,   *)
(* every set of sources and size hints, whatever packets arrive, asked for *)
(* or not, with right or wrong data, however often and in whatever order,  *)
(* any number of clean-ups and restarts, and right or wrong checksums.     *)
(* The only restriction is UserForceCheck = FALSE: the user forces no      *)
(* check of a file that is not complete.                                   *)
(***************************************************************************)
EXTENDS FtFileCreator, ChunkMapProofs

-----------------------------------------------------------------------------
(* The pieces, as a set M with counters R, of the slices of sizes s, of which *)
(* the bytes of A are awaited.                                                *)

\* A piece with data to come.
PendingIn(m, s) ==
  /\ m.size > 0
  /\ m.id <= m.offset
  /\ m.offset + m.size <= m.id + s[m.id]

WithRef(M, r) == {m \in M : m.ref = r}

\* Those that data can finish: a packet is never as long as a wrapped piece.
Live(M, r) == {m \in WithRef(M, r) : ~ Wrapped(m)}

Apart(m, n, s) ==
  PendingIn(m, s) /\ PendingIn(n, s) /\ m.offset < n.offset => m.offset + m.size <= n.offset

\* The pieces of the slice can not bring its counter down: it is never reported.
Lags(M, R, id) == \A m \in M : m.id = id => R[m.ref] > Cardinality(Live(M, m.ref))

\* The byte lies in a pending piece of the slice.
Held(M, s, id, b) ==
  \E m \in M : m.id = id /\ PendingIn(m, s) /\ m.offset <= b /\ b < m.offset + m.size

\* What is awaited of a slice is in its pieces, or the slice is never reported.
Awaits(M, R, s, A) ==
  \A id \in Bytes, b \in A :
    id <= b /\ b < id + s[id] => Lags(M, R, id) \/ Held(M, s, id, b)

SlicesOK(s) == \A id \in Bytes : s[id] \in Nat /\ id + s[id] <= FileSize

PiecesInv(M, R, s, A) ==
  /\ SlicesOK(s)
  /\ A \subseteq Bytes
  /\ IsFiniteSet(M)
  /\ M \subseteq Piece
  /\ \A m \in M : s[m.id] > 0 /\ (PendingIn(m, s) \/ Wrapped(m))
  /\ \A m, n \in M : m.offset = n.offset => m = n
  /\ \A m, n \in M : Apart(m, n, s)
  /\ \A m, n \in M : m.ref = n.ref <=> m.id = n.id
  /\ R \in [Refs -> Nat]
  /\ \A m \in M : R[m.ref] >= Cardinality(WithRef(M, m.ref))
  /\ Awaits(M, R, s, A)

\* The fields of a piece, as numbers.
LEMMA PieceFields ==
  ASSUME NEW m \in Piece
  PROVE  /\ m.offset \in Nat /\ m.offset <= FileSize /\ m.size \in Nat /\ m.size < W64
         /\ m.id \in Nat /\ m.id \in Bytes /\ m.ref \in Refs /\ m.peer \in Peers
         /\ FileSize \in Nat /\ W64 \in Nat /\ FileSize < W64
  BY SizesAssumption DEF Piece, Bytes

\* A pending piece ends with its slice at the latest, so it has not wrapped.
LEMMA PendingFacts ==
  ASSUME NEW m \in Piece, NEW s, SlicesOK(s), PendingIn(m, s)
  PROVE  m.offset + m.size <= FileSize /\ ~ Wrapped(m) /\ s[m.id] \in Nat
<1>1. s[m.id] \in Nat /\ m.id + s[m.id] <= FileSize
  BY PieceFields DEF SlicesOK
<1>2. m.offset + m.size <= FileSize
  BY <1>1, PieceFields DEF PendingIn
<1> QED
  BY <1>1, <1>2, PieceFields DEF Wrapped

\* A piece put at an offset where there is none replaces none.
LEMMA PutNew ==
  ASSUME NEW P, NEW x, \A m \in P : m.offset # x.offset
  PROVE  Put(P, x) = P \cup {x}
  BY DEF Put

\* The pieces of a counter are finitely many.
LEMMA RefFinite ==
  ASSUME NEW P, IsFiniteSet(P), NEW r
  PROVE  /\ IsFiniteSet(WithRef(P, r)) /\ IsFiniteSet(Live(P, r))
         /\ Cardinality(WithRef(P, r)) \in Nat /\ Cardinality(Live(P, r)) \in Nat
         /\ Cardinality(Live(P, r)) <= Cardinality(WithRef(P, r))
<1>1. WithRef(P, r) \in SUBSET P /\ Live(P, r) \in SUBSET WithRef(P, r)
  BY DEF WithRef, Live
<1>2. IsFiniteSet(WithRef(P, r))
  BY <1>1, FS_Subset
<1>3. IsFiniteSet(Live(P, r)) /\ Cardinality(Live(P, r)) <= Cardinality(WithRef(P, r))
  BY <1>1, <1>2, FS_Subset
<1> QED
  BY <1>2, <1>3, FS_CardinalityType

\* Their number goes up with every piece.
LEMMA RefAdd ==
  ASSUME NEW P, IsFiniteSet(P), NEW x, x \notin P, NEW r
  PROVE  /\ Cardinality(WithRef(P \cup {x}, r)) =
              IF x.ref = r THEN Cardinality(WithRef(P, r)) + 1
              ELSE Cardinality(WithRef(P, r))
         /\ Cardinality(Live(P \cup {x}, r)) =
              IF x.ref = r /\ ~ Wrapped(x) THEN Cardinality(Live(P, r)) + 1
              ELSE Cardinality(Live(P, r))
<1>1. IsFiniteSet(WithRef(P, r)) /\ IsFiniteSet(Live(P, r))
  BY RefFinite
<1>2. x \notin WithRef(P, r) /\ x \notin Live(P, r)
  BY DEF WithRef, Live
<1>3. WithRef(P \cup {x}, r) = IF x.ref = r THEN WithRef(P, r) \cup {x} ELSE WithRef(P, r)
  BY DEF WithRef
<1>4. Live(P \cup {x}, r) = IF x.ref = r /\ ~ Wrapped(x) THEN Live(P, r) \cup {x}
                            ELSE Live(P, r)
  BY DEF WithRef, Live
<1>5. Cardinality(WithRef(P, r) \cup {x}) = Cardinality(WithRef(P, r)) + 1
  BY <1>1, <1>2, FS_AddElement
<1>6. Cardinality(Live(P, r) \cup {x}) = Cardinality(Live(P, r)) + 1
  BY <1>1, <1>2, FS_AddElement
<1> QED
  BY <1>3, <1>4, <1>5, <1>6

\* Bytes that are not awaited any more are no reason to wait.
LEMMA AwaitFewer ==
  ASSUME NEW M, NEW R, NEW s, NEW A, PiecesInv(M, R, s, A), NEW A2 \in SUBSET A
  PROVE  PiecesInv(M, R, s, A2)
  BY DEF PiecesInv, Awaits

\* Slices that have no pieces may be forgotten.
LEMMA ForgetOthers ==
  ASSUME NEW M, NEW R, NEW s, NEW A, PiecesInv(M, R, s, A), NEW s2,
         \A id \in Bytes : s2[id] = s[id] \/ (s2[id] = 0 /\ \A m \in M : m.id # id)
  PROVE  PiecesInv(M, R, s2, A)
<1>1. \A id \in Bytes : s[id] \in Nat /\ id \in Nat /\ id + s[id] <= FileSize
  BY SizesAssumption DEF PiecesInv, SlicesOK, Bytes
<1>2. \A m \in M : m.id \in Bytes
  BY PieceFields DEF PiecesInv
<1>3. \A m \in M : s2[m.id] = s[m.id]
  BY <1>2
<1>4. \A m \in M : PendingIn(m, s2) <=> PendingIn(m, s)
  BY <1>3 DEF PendingIn
<1>5. SlicesOK(s2)
  <2> SUFFICES ASSUME NEW id \in Bytes PROVE s2[id] \in Nat /\ id + s2[id] <= FileSize
    BY DEF SlicesOK
  <2>1. CASE s2[id] = s[id]
    BY <1>1, <2>1
  <2>2. CASE s2[id] = 0
    <3>1. s[id] \in Nat /\ id \in Nat /\ id + s[id] <= FileSize /\ FileSize \in Nat
      BY <1>1, SizesAssumption
    <3> QED
      BY <2>2, <3>1
  <2> QED
    BY <2>1, <2>2
<1>6. Awaits(M, R, s2, A)
  <2> SUFFICES ASSUME NEW id \in Bytes, NEW b \in A, id <= b, b < id + s2[id]
               PROVE  Lags(M, R, id) \/ Held(M, s2, id, b)
    BY DEF Awaits
  <2>1. s2[id] = s[id]
    <3>1. b \in Nat /\ id \in Nat
      BY SizesAssumption DEF PiecesInv, Bytes
    <3> QED
      BY <3>1
  <2>2. Lags(M, R, id) \/ Held(M, s, id, b)
    BY <2>1 DEF PiecesInv, Awaits
  <2> QED
    BY <1>4, <2>2 DEF Held
<1> QED
  BY <1>3, <1>4, <1>5, <1>6 DEF PiecesInv, Apart

-----------------------------------------------------------------------------
(* What data does to the pieces. *)

\* Pieces are dropped, their counters stay: a slice that loses one lags.
LEMMA DropPieces ==
  ASSUME NEW M, NEW R, NEW s, NEW A, PiecesInv(M, R, s, A), NEW P \in SUBSET M
  PROVE  PiecesInv(P, R, s, A)
<1>1. /\ SlicesOK(s) /\ A \subseteq Bytes /\ IsFiniteSet(M) /\ M \subseteq Piece
      /\ \A m \in M : s[m.id] > 0 /\ (PendingIn(m, s) \/ Wrapped(m))
      /\ \A m, n \in M : m.offset = n.offset => m = n
      /\ \A m, n \in M : Apart(m, n, s)
      /\ \A m, n \in M : m.ref = n.ref <=> m.id = n.id
      /\ R \in [Refs -> Nat]
      /\ \A m \in M : R[m.ref] >= Cardinality(WithRef(M, m.ref))
      /\ Awaits(M, R, s, A)
  BY DEF PiecesInv
<1>2. IsFiniteSet(P)
  BY <1>1, FS_Subset
<1>3. ASSUME NEW m \in P
      PROVE  /\ R[m.ref] \in Nat
             /\ Cardinality(WithRef(P, m.ref)) \in Nat
             /\ Cardinality(WithRef(M, m.ref)) \in Nat
             /\ Cardinality(Live(P, m.ref)) \in Nat
             /\ Cardinality(Live(M, m.ref)) \in Nat
             /\ Cardinality(WithRef(P, m.ref)) <= Cardinality(WithRef(M, m.ref))
             /\ Cardinality(Live(P, m.ref)) <= Cardinality(Live(M, m.ref))
             /\ Cardinality(Live(M, m.ref)) <= Cardinality(WithRef(M, m.ref))
             /\ R[m.ref] >= Cardinality(WithRef(M, m.ref))
  <2>1. m \in M /\ m.ref \in Refs
    BY <1>1, PieceFields
  <2>2. /\ WithRef(P, m.ref) \in SUBSET WithRef(M, m.ref)
        /\ Live(P, m.ref) \in SUBSET Live(M, m.ref)
    BY DEF WithRef, Live
  <2>3. /\ IsFiniteSet(WithRef(M, m.ref)) /\ IsFiniteSet(Live(M, m.ref))
        /\ Cardinality(WithRef(M, m.ref)) \in Nat /\ Cardinality(Live(M, m.ref)) \in Nat
        /\ Cardinality(Live(M, m.ref)) <= Cardinality(WithRef(M, m.ref))
    BY <1>1, RefFinite
  <2>4. Cardinality(WithRef(P, m.ref)) \in Nat /\ Cardinality(Live(P, m.ref)) \in Nat
    BY <1>2, RefFinite
  <2>5. /\ Cardinality(WithRef(P, m.ref)) <= Cardinality(WithRef(M, m.ref))
        /\ Cardinality(Live(P, m.ref)) <= Cardinality(Live(M, m.ref))
    BY <2>2, <2>3, FS_Subset
  <2> QED
    BY <1>1, <2>1, <2>3, <2>4, <2>5
<1>4. \A m \in P : R[m.ref] >= Cardinality(WithRef(P, m.ref))
  BY <1>3
<1>5. Awaits(P, R, s, A)
  <2> SUFFICES ASSUME NEW id \in Bytes, NEW b \in A, id <= b, b < id + s[id],
                      ~ Held(P, s, id, b)
               PROVE  Lags(P, R, id)
    BY DEF Awaits
  <2> SUFFICES ASSUME NEW n \in P, n.id = id PROVE R[n.ref] > Cardinality(Live(P, n.ref))
    BY DEF Lags
  <2>1. CASE Lags(M, R, id)
    <3>1. R[n.ref] > Cardinality(Live(M, n.ref))
      BY <2>1 DEF Lags
    <3> QED
      BY <1>3, <3>1
  <2>2. CASE Held(M, s, id, b)
    <3>1. PICK m \in M : m.id = id /\ PendingIn(m, s) /\ m.offset <= b /\ b < m.offset + m.size
      BY <2>2 DEF Held
    <3>2. m \notin P
      BY <3>1 DEF Held
    <3>3. m \in Live(M, n.ref) /\ m \notin Live(P, n.ref)
      <4>1. m.ref = n.ref /\ ~ Wrapped(m)
        BY <1>1, <3>1, PendingFacts
      <4> QED
        BY <3>2, <4>1 DEF Live, WithRef
    <3>4. Live(P, n.ref) \in SUBSET Live(M, n.ref) /\ Live(P, n.ref) # Live(M, n.ref)
      BY <3>3 DEF WithRef, Live
    <3>5. Cardinality(Live(P, n.ref)) < Cardinality(Live(M, n.ref))
      <4>1. IsFiniteSet(Live(M, n.ref))
        BY <1>1, RefFinite
      <4>2. Cardinality(Live(P, n.ref)) # Cardinality(Live(M, n.ref))
        BY <3>4, <4>1, FS_Subset
      <4> QED
        BY <1>3, <4>2
    <3> QED
      BY <1>3, <3>5
  <2> QED
    BY <1>1, <2>1, <2>2 DEF Awaits
<1> QED
  BY <1>1, <1>2, <1>4, <1>5 DEF PiecesInv

\* A piece that grew beyond all packets takes the place of another: the slice lags.
LEMMA WrapPiece ==
  ASSUME NEW P, NEW x, NEW R, NEW s, NEW A, PiecesInv(P \cup {x}, R, s, A), x \notin P,
         NEW y \in Piece, Wrapped(y), y.id = x.id, y.ref = x.ref,
         \A m \in P : m.offset # y.offset
  PROVE  PiecesInv(P \cup {y}, R, s, A)
<1> DEFINE M == P \cup {x}
           N == P \cup {y}
<1>1. /\ SlicesOK(s) /\ A \subseteq Bytes /\ IsFiniteSet(M) /\ M \subseteq Piece
      /\ \A m \in M : s[m.id] > 0 /\ (PendingIn(m, s) \/ Wrapped(m))
      /\ \A m, n \in M : m.offset = n.offset => m = n
      /\ \A m, n \in M : Apart(m, n, s)
      /\ \A m, n \in M : m.ref = n.ref <=> m.id = n.id
      /\ R \in [Refs -> Nat]
      /\ \A m \in M : R[m.ref] >= Cardinality(WithRef(M, m.ref))
      /\ Awaits(M, R, s, A)
  BY DEF PiecesInv
<1>2. PiecesInv(P, R, s, A)
  BY DropPieces
<1>3. y \notin P /\ ~ PendingIn(y, s)
  BY <1>1, PendingFacts
<1>4. IsFiniteSet(P) /\ IsFiniteSet(N)
  <2>1. IsFiniteSet(P)
    BY <1>2 DEF PiecesInv
  <2> QED
    BY <2>1, FS_AddElement
<1>5. ASSUME NEW r
      PROVE  /\ Cardinality(WithRef(N, r)) = Cardinality(WithRef(M, r))
             /\ Cardinality(Live(N, r)) = Cardinality(Live(P, r))
  BY <1>3, <1>4, RefAdd
<1>6. \A m \in N : s[m.id] > 0 /\ (PendingIn(m, s) \/ Wrapped(m))
  BY <1>1
<1>7. /\ \A m, n \in N : m.offset = n.offset => m = n
      /\ \A m, n \in N : m.ref = n.ref <=> m.id = n.id
  BY <1>1
<1>8. \A m, n \in N : Apart(m, n, s)
  BY <1>1, <1>3 DEF Apart
<1>9. \A m \in N : R[m.ref] >= Cardinality(WithRef(N, m.ref))
  <2> SUFFICES ASSUME NEW m \in N PROVE R[m.ref] >= Cardinality(WithRef(M, m.ref))
    BY <1>5
  <2> QED
    BY <1>1
<1>10. ASSUME NEW id \in Bytes, Lags(P, R, id), id = y.id => Lags(N, R, id)
       PROVE  Lags(N, R, id)
  BY <1>5, <1>10 DEF Lags
<1>11. Lags(N, R, y.id)
  <2>1. \A m \in N : m.id = y.id => m.ref = x.ref
    BY <1>1
  <2>2. x.ref \in Refs /\ R[x.ref] \in Nat
    BY <1>1, PieceFields
  <2>3. /\ Cardinality(Live(P, x.ref)) \in Nat /\ Cardinality(WithRef(P, x.ref)) \in Nat
        /\ Cardinality(Live(P, x.ref)) <= Cardinality(WithRef(P, x.ref))
    BY <1>4, RefFinite
  <2>4. R[x.ref] >= Cardinality(WithRef(M, x.ref))
    BY <1>1
  <2>5. Cardinality(WithRef(M, x.ref)) = Cardinality(WithRef(P, x.ref)) + 1
    BY <1>4, RefAdd
  <2>6. R[x.ref] > Cardinality(Live(P, x.ref))
    BY <2>2, <2>3, <2>4, <2>5
  <2> QED
    BY <1>5, <2>1, <2>6 DEF Lags
<1>12. Awaits(N, R, s, A)
  <2> SUFFICES ASSUME NEW id \in Bytes, NEW b \in A, id <= b, b < id + s[id]
               PROVE  Lags(N, R, id) \/ Held(N, s, id, b)
    BY DEF Awaits
  <2>1. Lags(P, R, id) \/ Held(P, s, id, b)
    BY <1>2 DEF PiecesInv, Awaits
  <2>2. Held(P, s, id, b) => Held(N, s, id, b)
    BY DEF Held
  <2> QED
    BY <1>10, <1>11, <2>1, <2>2
<1> HIDE DEF N
<1>13. N \subseteq Piece
  BY <1>1 DEF N
<1>14. PiecesInv(N, R, s, A)
  BY <1>1, <1>4, <1>6, <1>7, <1>8, <1>9, <1>12, <1>13 DEF PiecesInv
<1> QED
  BY <1>14 DEF N

\* What is left of a piece takes its place.
LEMMA ShrinkPiece ==
  ASSUME NEW P, NEW x, NEW R, NEW s, NEW A, PiecesInv(P \cup {x}, R, s, A), x \notin P,
         NEW y \in Piece, PendingIn(x, s), PendingIn(y, s), y.id = x.id, y.ref = x.ref,
         \A m \in P : m.offset # y.offset,
         x.offset <= y.offset, y.offset + y.size <= x.offset + x.size,
         NEW A2 \in SUBSET A,
         \A b \in A2 : x.offset <= b /\ b < x.offset + x.size
                         => y.offset <= b /\ b < y.offset + y.size
  PROVE  PiecesInv(P \cup {y}, R, s, A2)
<1> DEFINE M == P \cup {x}
           N == P \cup {y}
<1>1. /\ SlicesOK(s) /\ A \subseteq Bytes /\ IsFiniteSet(M) /\ M \subseteq Piece
      /\ \A m \in M : s[m.id] > 0 /\ (PendingIn(m, s) \/ Wrapped(m))
      /\ \A m, n \in M : m.offset = n.offset => m = n
      /\ \A m, n \in M : Apart(m, n, s)
      /\ \A m, n \in M : m.ref = n.ref <=> m.id = n.id
      /\ R \in [Refs -> Nat]
      /\ \A m \in M : R[m.ref] >= Cardinality(WithRef(M, m.ref))
      /\ Awaits(M, R, s, A)
  BY DEF PiecesInv
<1>2. IsFiniteSet(P) /\ IsFiniteSet(N)
  <2>1. IsFiniteSet(P)
    BY <1>1, FS_Subset
  <2> QED
    BY <2>1, FS_AddElement
<1>3. y \notin P /\ ~ Wrapped(x) /\ ~ Wrapped(y)
  BY <1>1, PendingFacts
<1>4. ASSUME NEW r
      PROVE  /\ Cardinality(WithRef(N, r)) = Cardinality(WithRef(M, r))
             /\ Cardinality(Live(N, r)) = Cardinality(Live(M, r))
  BY <1>2, <1>3, RefAdd
<1>5. \A m \in N : s[m.id] > 0 /\ (PendingIn(m, s) \/ Wrapped(m))
  BY <1>1
<1>6. /\ \A m, n \in N : m.offset = n.offset => m = n
      /\ \A m, n \in N : m.ref = n.ref <=> m.id = n.id
  BY <1>1
<1>7. ASSUME NEW m \in P PROVE Apart(m, y, s) /\ Apart(y, m, s)
  <2>1. Apart(m, x, s) /\ Apart(x, m, s) /\ (m.offset = x.offset => m = x) /\ m # x
    BY <1>1
  <2>2. /\ m.offset \in Nat /\ m.size \in Nat /\ x.offset \in Nat /\ x.size \in Nat
        /\ y.offset \in Nat /\ y.size \in Nat /\ y.size > 0
    BY <1>1, PieceFields DEF PendingIn
  <2> SUFFICES ASSUME PendingIn(m, s)
               PROVE  /\ m.offset < y.offset => m.offset + m.size <= y.offset
                      /\ y.offset < m.offset => y.offset + y.size <= m.offset
    BY DEF Apart
  <2>3. /\ m.offset < x.offset => m.offset + m.size <= x.offset
        /\ x.offset < m.offset => x.offset + x.size <= m.offset
    BY <2>1 DEF Apart
  <2> QED
    BY <2>1, <2>2, <2>3
<1>8. \A m, n \in N : Apart(m, n, s)
  <2>1. Apart(y, y, s)
    BY PieceFields DEF Apart
  <2> QED
    BY <1>1, <1>7, <2>1
<1>9. \A m \in N : R[m.ref] >= Cardinality(WithRef(N, m.ref))
  <2> SUFFICES ASSUME NEW m \in N PROVE R[m.ref] >= Cardinality(WithRef(M, m.ref))
    BY <1>4
  <2> QED
    BY <1>1
<1>10. Awaits(N, R, s, A2)
  <2> SUFFICES ASSUME NEW id \in Bytes, NEW b \in A2, id <= b, b < id + s[id]
               PROVE  Lags(N, R, id) \/ Held(N, s, id, b)
    BY DEF Awaits
  <2>1. Lags(M, R, id) \/ Held(M, s, id, b)
    BY <1>1 DEF Awaits
  <2>2. CASE Lags(M, R, id)
    <3> SUFFICES ASSUME NEW n \in N, n.id = id PROVE R[n.ref] > Cardinality(Live(M, n.ref))
      BY <1>4 DEF Lags
    <3> QED
      BY <2>2 DEF Lags
  <2>3. CASE Held(M, s, id, b)
    <3>1. PICK m \in M : m.id = id /\ PendingIn(m, s) /\ m.offset <= b /\ b < m.offset + m.size
      BY <2>3 DEF Held
    <3>2. CASE m = x
      BY <3>1, <3>2 DEF Held
    <3>3. CASE m # x
      BY <3>1, <3>3 DEF Held
    <3> QED
      BY <3>2, <3>3
  <2> QED
    BY <2>1, <2>2, <2>3
<1> HIDE DEF N
<1>11. N \subseteq Piece /\ A2 \subseteq Bytes
  BY <1>1 DEF N
<1>12. PiecesInv(N, R, s, A2)
  BY <1>1, <1>2, <1>5, <1>6, <1>8, <1>9, <1>10, <1>11 DEF PiecesInv
<1> QED
  BY <1>12 DEF N

\* A piece is finished and its counter goes down.  If the counter says that it was
\* the last of its slice, it was, and all that was awaited of the slice is there.
LEMMA FinishPiece ==
  ASSUME NEW P, NEW x, NEW R, NEW s, NEW A, PiecesInv(P \cup {x}, R, s, A), x \notin P,
         PendingIn(x, s), NEW A2 \in SUBSET A,
         \A b \in A2 : ~ (x.offset <= b /\ b < x.offset + x.size)
  PROVE  /\ PiecesInv(P, [R EXCEPT ![x.ref] = @ - 1], s, A2)
         /\ R[x.ref] = 1 => /\ \A m \in P : m.id # x.id
                            /\ \A b \in A2 : ~ (x.id <= b /\ b < x.id + s[x.id])
<1> DEFINE M == P \cup {x}
           R2 == [R EXCEPT ![x.ref] = @ - 1]
<1>1. /\ SlicesOK(s) /\ A \subseteq Bytes /\ IsFiniteSet(M) /\ M \subseteq Piece /\ x \in M
      /\ \A m \in M : s[m.id] > 0 /\ (PendingIn(m, s) \/ Wrapped(m))
      /\ \A m, n \in M : m.offset = n.offset => m = n
      /\ \A m, n \in M : Apart(m, n, s)
      /\ \A m, n \in M : m.ref = n.ref <=> m.id = n.id
      /\ R \in [Refs -> Nat]
      /\ \A m \in M : R[m.ref] >= Cardinality(WithRef(M, m.ref))
      /\ Awaits(M, R, s, A)
  BY DEF PiecesInv
<1>2. IsFiniteSet(P)
  BY <1>1, FS_Subset
<1>3. x.ref \in Refs /\ x.id \in Bytes /\ ~ Wrapped(x)
  BY <1>1, PieceFields, PendingFacts
<1>4. ASSUME NEW r
      PROVE  /\ Cardinality(WithRef(P, r)) \in Nat /\ Cardinality(Live(P, r)) \in Nat
             /\ Cardinality(WithRef(M, r)) = IF x.ref = r THEN Cardinality(WithRef(P, r)) + 1
                                             ELSE Cardinality(WithRef(P, r))
             /\ Cardinality(Live(M, r)) = IF x.ref = r THEN Cardinality(Live(P, r)) + 1
                                          ELSE Cardinality(Live(P, r))
  BY <1>2, <1>3, RefFinite, RefAdd
<1>5. R[x.ref] \in Nat /\ R[x.ref] >= Cardinality(WithRef(P, x.ref)) + 1
  BY <1>1, <1>3, <1>4
<1>6. /\ \A r \in Refs : R2[r] = IF r = x.ref THEN R[r] - 1 ELSE R[r]
      /\ R2 \in [Refs -> Nat]
  <2>1. \A r \in Refs : R2[r] = IF r = x.ref THEN R[r] - 1 ELSE R[r]
    BY <1>1
  <2>2. R[x.ref] - 1 \in Nat
    BY <1>4, <1>5
  <2>3. R2 \in [Refs -> Nat]
    BY <1>1, <2>2
  <2> QED
    BY <2>1, <2>3
<1> HIDE DEF R2
<1>7. ASSUME NEW m \in P PROVE R2[m.ref] >= Cardinality(WithRef(P, m.ref))
  <2>1. m.ref \in Refs /\ R[m.ref] \in Nat /\ R[m.ref] >= Cardinality(WithRef(M, m.ref))
    BY <1>1, PieceFields
  <2> QED
    BY <1>4, <1>5, <1>6, <2>1
<1>8. ASSUME NEW id \in Bytes, Lags(M, R, id) PROVE Lags(P, R2, id)
  <2> SUFFICES ASSUME NEW n \in P, n.id = id PROVE R2[n.ref] > Cardinality(Live(P, n.ref))
    BY DEF Lags
  <2>1. n.ref \in Refs /\ R[n.ref] \in Nat
    BY <1>1, PieceFields
  <2>2. R[n.ref] > Cardinality(Live(M, n.ref))
    BY <1>8 DEF Lags
  <2>3. Cardinality(Live(M, n.ref)) = IF x.ref = n.ref THEN Cardinality(Live(P, n.ref)) + 1
                                      ELSE Cardinality(Live(P, n.ref))
    BY <1>4
  <2>4. R2[n.ref] = IF n.ref = x.ref THEN R[n.ref] - 1 ELSE R[n.ref]
    BY <1>6, <2>1
  <2>5. Cardinality(Live(P, n.ref)) \in Nat
    BY <1>4
  <2> QED
    BY <2>1, <2>2, <2>3, <2>4, <2>5
<1>9. ASSUME NEW id \in Bytes, NEW b \in A2, Held(M, s, id, b) PROVE Held(P, s, id, b)
  <2>1. PICK m \in M : m.id = id /\ PendingIn(m, s) /\ m.offset <= b /\ b < m.offset + m.size
    BY <1>9 DEF Held
  <2>2. m # x
    BY <2>1
  <2> QED
    BY <2>1, <2>2 DEF Held
<1>10. Awaits(P, R2, s, A2)
  BY <1>1, <1>8, <1>9 DEF Awaits
<1>11. PiecesInv(P, R2, s, A2)
  BY <1>1, <1>2, <1>6, <1>7, <1>10 DEF PiecesInv
<1>12. ASSUME R[x.ref] = 1
       PROVE  /\ \A m \in P : m.id # x.id
              /\ \A b \in A2 : ~ (x.id <= b /\ b < x.id + s[x.id])
  <2>1. Cardinality(WithRef(P, x.ref)) = 0
    BY <1>4, <1>5, <1>12
  <2>2. WithRef(P, x.ref) = {}
    BY <1>2, <2>1, RefFinite, FS_EmptySet
  <2>3. \A m \in P : m.id # x.id
    BY <1>1, <2>2 DEF WithRef
  <2>4. Live(P, x.ref) = {}
    BY <2>2 DEF Live
  <2>5. Cardinality(Live(P, x.ref)) = 0
    BY <2>4, FS_EmptySet
  <2>6. ~ Lags(M, R, x.id)
    <3>1. Cardinality(Live(M, x.ref)) = 1
      BY <1>4, <2>5
    <3> QED
      BY <1>12, <3>1 DEF Lags
  <2>7. ASSUME NEW b \in A2, x.id <= b, b < x.id + s[x.id] PROVE FALSE
    <3>1. Held(M, s, x.id, b)
      BY <1>1, <1>3, <2>6, <2>7 DEF Awaits
    <3>2. Held(P, s, x.id, b)
      BY <1>3, <1>9, <3>1
    <3> QED
      BY <2>3, <3>2 DEF Held
  <2> QED
    BY <2>3, <2>7
<1> QED
  BY <1>11, <1>12 DEF R2

\* A piece is split in two, and its counter goes up.
LEMMA CutPiece ==
  ASSUME NEW M, NEW R, NEW s, NEW A, PiecesInv(M, R, s, A), NEW m \in M, PendingIn(m, s),
         NEW part1 \in Piece, NEW rest \in Piece,
         PendingIn(part1, s), PendingIn(rest, s),
         part1.id = m.id, part1.ref = m.ref, rest.id = m.id, rest.ref = m.ref,
         part1.offset = m.offset, part1.offset + part1.size = rest.offset,
         rest.offset + rest.size = m.offset + m.size,
         \A n \in M : n.offset # rest.offset
  PROVE  /\ Put(M, part1) = (M \ {m}) \cup {part1}
         /\ rest \notin Put(M, part1)
         /\ PiecesInv(Put(M, part1) \cup {rest}, [R EXCEPT ![m.ref] = @ + 1], s, A)
<1> DEFINE Q == M \ {m}
           P == Q \cup {part1}
           N == P \cup {rest}
           R2 == [R EXCEPT ![m.ref] = @ + 1]
<1>1. /\ SlicesOK(s) /\ A \subseteq Bytes /\ IsFiniteSet(M) /\ M \subseteq Piece
      /\ \A n \in M : s[n.id] > 0 /\ (PendingIn(n, s) \/ Wrapped(n))
      /\ \A n, o \in M : n.offset = o.offset => n = o
      /\ \A n, o \in M : Apart(n, o, s)
      /\ \A n, o \in M : n.ref = o.ref <=> n.id = o.id
      /\ R \in [Refs -> Nat]
      /\ \A n \in M : R[n.ref] >= Cardinality(WithRef(M, n.ref))
      /\ Awaits(M, R, s, A)
  BY DEF PiecesInv
<1>2. /\ m.offset \in Nat /\ m.size \in Nat /\ m.ref \in Refs /\ m.id \in Bytes
      /\ part1.offset \in Nat /\ part1.size \in Nat /\ part1.size > 0
      /\ rest.offset \in Nat /\ rest.size \in Nat /\ rest.size > 0
  BY <1>1, PieceFields DEF PendingIn
<1>3. Put(M, part1) = P
  BY <1>1 DEF Put
<1>4. PiecesInv(P, R, s, A \ {b \in A : rest.offset <= b /\ b < rest.offset + rest.size})
  <2>1. Q \cup {m} = M /\ m \notin Q /\ \A n \in Q : n.offset # part1.offset
    BY <1>1
  <2>2. /\ m.offset <= part1.offset
        /\ part1.offset + part1.size <= m.offset + m.size
    BY <1>2
  <2>3. \A b \in A \ {b \in A : rest.offset <= b /\ b < rest.offset + rest.size} :
          m.offset <= b /\ b < m.offset + m.size
            => part1.offset <= b /\ b < part1.offset + part1.size
    <3>1. \A b \in A : b \in Nat
      BY <1>1, SizesAssumption DEF Bytes
    <3> QED
      BY <1>2, <3>1
  <2> HIDE DEF Q
  <2> QED
    BY <2>1, <2>2, <2>3, ShrinkPiece
<1>5. /\ IsFiniteSet(P) /\ P \subseteq Piece
      /\ \A n \in P : s[n.id] > 0 /\ (PendingIn(n, s) \/ Wrapped(n))
      /\ \A n, o \in P : n.offset = o.offset => n = o
      /\ \A n, o \in P : Apart(n, o, s)
      /\ \A n, o \in P : n.ref = o.ref <=> n.id = o.id
      /\ \A n \in P : R[n.ref] >= Cardinality(WithRef(P, n.ref))
  BY <1>4 DEF PiecesInv
<1>6. rest \notin P /\ part1 \in P /\ \A n \in P : n.offset # rest.offset
  BY <1>2
<1>7. ~ Wrapped(part1) /\ ~ Wrapped(rest) /\ ~ Wrapped(m)
  BY <1>1, PendingFacts
<1>8. IsFiniteSet(Q) /\ m \notin Q /\ part1 \notin Q /\ Q \cup {m} = M
  <2>1. m \notin Q /\ part1 \notin Q /\ Q \cup {m} = M /\ Q \in SUBSET M
    BY <1>1
  <2> QED
    BY <1>1, <2>1, FS_Subset
<1>9. ASSUME NEW r
      PROVE  /\ Cardinality(WithRef(P, r)) \in Nat /\ Cardinality(Live(P, r)) \in Nat
             /\ Cardinality(Live(P, r)) = Cardinality(Live(M, r))
             /\ Cardinality(WithRef(N, r)) = IF m.ref = r THEN Cardinality(WithRef(P, r)) + 1
                                             ELSE Cardinality(WithRef(P, r))
             /\ Cardinality(Live(N, r)) = IF m.ref = r THEN Cardinality(Live(P, r)) + 1
                                          ELSE Cardinality(Live(P, r))
  <2>1. Cardinality(WithRef(P, r)) \in Nat /\ Cardinality(Live(P, r)) \in Nat
    BY <1>5, RefFinite
  <2>2. Cardinality(Live(P, r)) = Cardinality(Live(Q \cup {m}, r))
    <3> HIDE DEF Q
    <3>1. /\ Cardinality(Live(Q \cup {part1}, r)) = IF part1.ref = r THEN Cardinality(Live(Q, r)) + 1
                                                    ELSE Cardinality(Live(Q, r))
          /\ Cardinality(Live(Q \cup {m}, r)) = IF m.ref = r THEN Cardinality(Live(Q, r)) + 1
                                                    ELSE Cardinality(Live(Q, r))
      BY <1>7, <1>8, RefAdd
    <3> QED
      BY <3>1
  <2>3. /\ Cardinality(WithRef(N, r)) = IF rest.ref = r THEN Cardinality(WithRef(P, r)) + 1
                                        ELSE Cardinality(WithRef(P, r))
        /\ Cardinality(Live(N, r)) = IF rest.ref = r THEN Cardinality(Live(P, r)) + 1
                                          ELSE Cardinality(Live(P, r))
    <3> HIDE DEF P
    <3> QED
      BY <1>5, <1>6, <1>7, RefAdd
  <2> HIDE DEF N, P, Q
  <2> QED
    BY <1>8, <2>1, <2>2, <2>3
<1>10. /\ \A r \in Refs : R2[r] = IF r = m.ref THEN R[r] + 1 ELSE R[r]
       /\ R2 \in [Refs -> Nat]
  <2>1. \A r \in Refs : R2[r] = IF r = m.ref THEN R[r] + 1 ELSE R[r]
    BY <1>1
  <2>2. R[m.ref] + 1 \in Nat
    BY <1>1, <1>2
  <2>3. R2 \in [Refs -> Nat]
    BY <1>1, <2>2
  <2> QED
    BY <2>1, <2>3
<1> HIDE DEF R2
<1>11. \A n \in N : s[n.id] > 0 /\ (PendingIn(n, s) \/ Wrapped(n))
  BY <1>1, <1>5
<1>12. \A n, o \in N : n.offset = o.offset => n = o
  <2> HIDE DEF P
  <2> QED
    BY <1>5, <1>6
<1>13. \A n, o \in N : n.ref = o.ref <=> n.id = o.id
  BY <1>1
<1>14. \A n, o \in N : Apart(n, o, s)
  <2>1. ASSUME NEW n \in P PROVE Apart(n, rest, s) /\ Apart(rest, n, s)
    <3>1. n.offset \in Nat /\ n.size \in Nat
      BY <1>5, PieceFields
    <3>2. CASE n = part1
      BY <1>2, <3>2 DEF Apart
    <3>3. CASE n # part1
      <4>1. n \in M /\ n # m /\ Apart(n, m, s) /\ Apart(m, n, s) /\ n.offset # m.offset
        BY <1>1, <3>3
      <4> SUFFICES ASSUME PendingIn(n, s)
                   PROVE  /\ n.offset < rest.offset => n.offset + n.size <= rest.offset
                          /\ rest.offset < n.offset => rest.offset + rest.size <= n.offset
        BY DEF Apart
      <4>2. /\ n.offset < m.offset => n.offset + n.size <= m.offset
            /\ m.offset < n.offset => m.offset + m.size <= n.offset
        BY <4>1 DEF Apart
      <4> QED
        BY <1>2, <3>1, <4>1, <4>2
    <3> QED
      BY <3>2, <3>3
  <2>2. Apart(rest, rest, s)
    BY <1>2 DEF Apart
  <2> HIDE DEF P
  <2> QED
    BY <1>5, <2>1, <2>2
<1>15. \A n \in N : R2[n.ref] >= Cardinality(WithRef(N, n.ref))
  <2> SUFFICES ASSUME NEW n \in N PROVE R2[n.ref] >= Cardinality(WithRef(N, n.ref))
    OBVIOUS
  <2>1. PICK o \in P : o.ref = n.ref
    BY <1>6
  <2>2. o.ref \in Refs /\ R[o.ref] >= Cardinality(WithRef(P, o.ref)) /\ R[o.ref] \in Nat
    BY <1>1, <1>5, PieceFields
  <2>3. /\ Cardinality(WithRef(P, o.ref)) \in Nat
        /\ Cardinality(WithRef(N, o.ref)) = IF m.ref = o.ref THEN Cardinality(WithRef(P, o.ref)) + 1
                                            ELSE Cardinality(WithRef(P, o.ref))
    BY <1>9
  <2>4. R2[o.ref] = IF o.ref = m.ref THEN R[o.ref] + 1 ELSE R[o.ref]
    BY <1>10, <2>2
  <2> HIDE DEF N, P
  <2> QED
    BY <2>1, <2>2, <2>3, <2>4
<1>16. Awaits(N, R2, s, A)
  <2> SUFFICES ASSUME NEW id \in Bytes, NEW b \in A, id <= b, b < id + s[id]
               PROVE  Lags(N, R2, id) \/ Held(N, s, id, b)
    BY DEF Awaits
  <2>1. CASE Lags(M, R, id)
    <3> SUFFICES ASSUME NEW n \in N, n.id = id PROVE R2[n.ref] > Cardinality(Live(N, n.ref))
      BY DEF Lags
    <3>1. PICK o \in M : o.ref = n.ref /\ o.id = id
      BY <1>1
    <3>2. o.ref \in Refs /\ R[o.ref] \in Nat /\ R[o.ref] > Cardinality(Live(M, o.ref))
      <4>1. R[o.ref] > Cardinality(Live(M, o.ref))
        BY <2>1, <3>1 DEF Lags
      <4>2. o.ref \in Refs
        BY <1>1, PieceFields
      <4>3. R[o.ref] \in Nat
        BY <1>1, <4>2
      <4> QED
        BY <4>1, <4>2, <4>3
    <3>3. /\ Cardinality(Live(P, o.ref)) \in Nat
          /\ Cardinality(Live(P, o.ref)) = Cardinality(Live(M, o.ref))
          /\ Cardinality(Live(N, o.ref)) = IF m.ref = o.ref THEN Cardinality(Live(P, o.ref)) + 1
                                           ELSE Cardinality(Live(P, o.ref))
      BY <1>9
    <3>4. R2[o.ref] = IF o.ref = m.ref THEN R[o.ref] + 1 ELSE R[o.ref]
      BY <1>10, <3>2
    <3> HIDE DEF N, P
    <3> QED
      BY <3>1, <3>2, <3>3, <3>4
  <2>2. CASE Held(M, s, id, b)
    <3>1. PICK n \in M : n.id = id /\ PendingIn(n, s) /\ n.offset <= b /\ b < n.offset + n.size
      BY <2>2 DEF Held
    <3>2. CASE n # m
      BY <3>1, <3>2 DEF Held
    <3>3. CASE n = m
      <4>1. b \in Nat
        BY <1>1, SizesAssumption DEF Bytes
      <4>2. \/ part1.offset <= b /\ b < part1.offset + part1.size
            \/ rest.offset <= b /\ b < rest.offset + rest.size
        BY <1>2, <3>1, <3>3, <4>1
      <4> QED
        BY <3>1, <3>3, <4>2 DEF Held
    <3> QED
      BY <3>2, <3>3
  <2> QED
    BY <1>1, <2>1, <2>2 DEF Awaits
<1>17. IsFiniteSet(N) /\ N \subseteq Piece
  <2> HIDE DEF P
  <2> QED
    BY <1>5, FS_AddElement
<1>18. PiecesInv(N, R2, s, A)
  <2> HIDE DEF N
  <2> QED
    BY <1>1, <1>10, <1>11, <1>12, <1>13, <1>14, <1>15, <1>16, <1>17 DEF PiecesInv
<1> QED
  BY <1>3, <1>6, <1>18 DEF R2

\* A new slice gets a piece of its own, with a counter no other piece uses.
LEMMA AddPiece ==
  ASSUME NEW M, NEW R, NEW s, NEW A, PiecesInv(M, R, s, A),
         NEW x \in Piece, x.size > 0, x.offset = x.id, s[x.id] = 0,
         NEW s2, s2 = [s EXCEPT ![x.id] = x.size], s \in [Bytes -> Nat],
         x.id + x.size <= FileSize,
         \A id \in Bytes : s[id] > 0 => id + s[id] <= x.id \/ x.id + x.size <= id,
         \A m \in M : m.ref # x.ref /\ m.offset # x.offset,
         NEW A2 \in SUBSET Bytes,
         \A b \in A2 : b \in A \/ (x.id <= b /\ b < x.id + x.size)
  PROVE  PiecesInv(M \cup {x}, [R EXCEPT ![x.ref] = 1], s2, A2)
<1> DEFINE N == M \cup {x}
           R2 == [R EXCEPT ![x.ref] = 1]
<1>1. /\ SlicesOK(s) /\ A \subseteq Bytes /\ IsFiniteSet(M) /\ M \subseteq Piece
      /\ \A m \in M : s[m.id] > 0 /\ (PendingIn(m, s) \/ Wrapped(m))
      /\ \A m, n \in M : m.offset = n.offset => m = n
      /\ \A m, n \in M : Apart(m, n, s)
      /\ \A m, n \in M : m.ref = n.ref <=> m.id = n.id
      /\ R \in [Refs -> Nat]
      /\ \A m \in M : R[m.ref] >= Cardinality(WithRef(M, m.ref))
      /\ Awaits(M, R, s, A)
  BY DEF PiecesInv
<1>2. /\ x.id \in Bytes /\ x.id \in Nat /\ x.size \in Nat /\ x.offset \in Nat /\ x.ref \in Refs
      /\ FileSize \in Nat
  BY PieceFields
<1>3. /\ s2[x.id] = x.size
      /\ \A id \in Bytes : id # x.id => s2[id] = s[id]
  BY <1>2
<1>4. SlicesOK(s2)
  <2> SUFFICES ASSUME NEW id \in Bytes PROVE s2[id] \in Nat /\ id + s2[id] <= FileSize
    BY DEF SlicesOK
  <2>1. CASE id = x.id
    BY <1>2, <1>3, <2>1
  <2>2. CASE id # x.id
    BY <1>1, <1>3, <2>2 DEF SlicesOK
  <2> QED
    BY <2>1, <2>2
<1>5. ASSUME NEW m \in M
      PROVE  /\ m.id \in Bytes /\ m.id # x.id /\ m.ref # x.ref /\ m.ref \in Refs
             /\ s2[m.id] = s[m.id]
             /\ PendingIn(m, s2) <=> PendingIn(m, s)
  <2>1. m.id \in Bytes /\ m.id # x.id /\ m.ref # x.ref /\ m.ref \in Refs
    BY <1>1, PieceFields
  <2> QED
    BY <1>3, <2>1 DEF PendingIn
<1>6. PendingIn(x, s2)
  BY <1>2, <1>3 DEF PendingIn
<1>7. x \notin M /\ ~ Wrapped(x)
  BY <1>4, <1>6, PendingFacts
<1>8. IsFiniteSet(N) /\ N \subseteq Piece
  BY <1>1, FS_AddElement
<1>9. \A m \in N : s2[m.id] > 0 /\ (PendingIn(m, s2) \/ Wrapped(m))
  BY <1>1, <1>3, <1>5, <1>6
<1>10. /\ \A m, n \in N : m.offset = n.offset => m = n
       /\ \A m, n \in N : m.ref = n.ref <=> m.id = n.id
  BY <1>1, <1>5
<1>11. \A m, n \in N : Apart(m, n, s2)
  <2>1. ASSUME NEW m \in M PROVE Apart(m, x, s2) /\ Apart(x, m, s2)
    <3> SUFFICES ASSUME PendingIn(m, s)
                 PROVE  /\ m.offset < x.offset => m.offset + m.size <= x.offset
                        /\ x.offset < m.offset => x.offset + x.size <= m.offset
      BY <1>5 DEF Apart
    <3>1. /\ m.offset \in Nat /\ m.size \in Nat /\ m.id \in Nat /\ s[m.id] \in Nat /\ s[m.id] > 0
      BY <1>1, <1>5, PieceFields DEF SlicesOK
    <3>2. m.id <= m.offset /\ m.offset + m.size <= m.id + s[m.id] /\ m.size > 0
      BY DEF PendingIn
    <3>3. m.id + s[m.id] <= x.id \/ x.id + x.size <= m.id
      BY <1>5, <3>1
    <3> QED
      BY <1>2, <3>1, <3>2, <3>3
  <2>2. Apart(x, x, s2)
    BY <1>2 DEF Apart
  <2>3. \A m, n \in M : Apart(m, n, s2)
    BY <1>1, <1>5 DEF Apart
  <2> QED
    BY <2>1, <2>2, <2>3
<1>12. /\ R2[x.ref] = 1 /\ \A r \in Refs : r # x.ref => R2[r] = R[r]
       /\ R2 \in [Refs -> Nat]
  BY <1>1, <1>2
<1> HIDE DEF R2
<1>13. \A m \in N : R2[m.ref] >= Cardinality(WithRef(N, m.ref))
  <2>1. ASSUME NEW m \in M PROVE R2[m.ref] >= Cardinality(WithRef(N, m.ref))
    <3>1. Cardinality(WithRef(N, m.ref)) = Cardinality(WithRef(M, m.ref))
      BY <1>1, <1>5, <1>7, RefAdd
    <3> QED
      BY <1>1, <1>5, <1>12, <3>1
  <2>2. R2[x.ref] >= Cardinality(WithRef(N, x.ref))
    <3>1. WithRef(M, x.ref) = {}
      BY <1>5 DEF WithRef
    <3>2. Cardinality(WithRef(M, x.ref)) = 0
      BY <3>1, FS_EmptySet
    <3>3. Cardinality(WithRef(N, x.ref)) = Cardinality(WithRef(M, x.ref)) + 1
      BY <1>1, <1>7, RefAdd
    <3> QED
      BY <1>12, <3>2, <3>3
  <2> QED
    BY <2>1, <2>2
<1>14. Awaits(N, R2, s2, A2)
  <2> SUFFICES ASSUME NEW id \in Bytes, NEW b \in A2, id <= b, b < id + s2[id]
               PROVE  Lags(N, R2, id) \/ Held(N, s2, id, b)
    BY DEF Awaits
  <2>1. CASE id = x.id
    BY <1>2, <1>3, <1>6, <2>1 DEF Held
  <2>2. CASE id # x.id
    <3>1. b \in A
      <4>1. /\ b \in Nat /\ id \in Nat /\ s[id] \in Nat /\ s2[id] = s[id]
        BY <1>1, <1>3, <2>2, SizesAssumption DEF SlicesOK, Bytes
      <4>2. s[id] > 0
        BY <4>1
      <4> QED
        BY <1>2, <4>1, <4>2
    <3>2. Lags(M, R, id) \/ Held(M, s, id, b)
      BY <1>1, <1>3, <2>2, <3>1 DEF Awaits
    <3>3. CASE Held(M, s, id, b)
      BY <1>5, <3>3 DEF Held
    <3>4. CASE Lags(M, R, id)
      <4> SUFFICES ASSUME NEW n \in M, n.id = id PROVE R2[n.ref] > Cardinality(Live(N, n.ref))
        BY <2>2 DEF Lags
      <4>1. Cardinality(Live(N, n.ref)) = Cardinality(Live(M, n.ref))
        <5>1. x.ref # n.ref
          BY <1>5
        <5> QED
          BY <1>1, <1>7, <5>1, RefAdd
      <4>2. R2[n.ref] = R[n.ref]
        BY <1>5, <1>12
      <4>3. R[n.ref] > Cardinality(Live(M, n.ref))
        BY <3>4 DEF Lags
      <4> QED
        BY <4>1, <4>2, <4>3
    <3> QED
      BY <3>2, <3>3, <3>4
  <2> QED
    BY <2>1, <2>2
<1> HIDE DEF N
<1>15. PiecesInv(N, R2, s2, A2)
  BY <1>4, <1>8, <1>9, <1>10, <1>11, <1>12, <1>13, <1>14 DEF PiecesInv
<1> QED
  BY <1>15 DEF N, R2

\* All pieces of some slices are dropped, and their counters go down by as many.
LEMMA RemovePieces ==
  ASSUME NEW M, NEW R, NEW s, NEW A, PiecesInv(M, R, s, A), NEW D \in SUBSET M,
         \A m \in M, d \in D : m.id = d.id => m \in D,
         NEW s2,
         \A id \in Bytes : s2[id] = s[id] \/ (s2[id] = 0 /\ \A m \in M \ D : m.id # id),
         NEW A2 \in SUBSET A, NEW P, P = M \ D,
         NEW R2, R2 = [r \in Refs |-> R[r] - Cardinality(WithRef(D, r))]
  PROVE  PiecesInv(P, R2, s2, A2)
<1>1. /\ IsFiniteSet(M) /\ M \subseteq Piece /\ R \in [Refs -> Nat]
      /\ \A m, n \in M : m.ref = n.ref <=> m.id = n.id
      /\ \A m \in M : R[m.ref] >= Cardinality(WithRef(M, m.ref))
  BY DEF PiecesInv
<1>2. PiecesInv(P, R, s2, A2)
  <2>1. P \in SUBSET M
    OBVIOUS
  <2>2. PiecesInv(P, R, s, A)
    BY <2>1, DropPieces
  <2>3. PiecesInv(P, R, s, A2)
    BY <2>2, AwaitFewer
  <2>4. \A id \in Bytes : s2[id] = s[id] \/ (s2[id] = 0 /\ \A m \in P : m.id # id)
    OBVIOUS
  <2> QED
    BY <2>3, <2>4, ForgetOthers
<1>3. IsFiniteSet(D)
  BY <1>1, FS_Subset
<1>4. ASSUME NEW r \in Refs
      PROVE  /\ R2[r] \in Nat
             /\ \A m \in P : m.ref = r => R2[r] = R[r]
  <2>1. R[r] \in Nat
    BY <1>1
  <2>2. CASE WithRef(D, r) = {}
    <3>1. Cardinality(WithRef(D, r)) = 0
      BY <2>2, FS_EmptySet
    <3> QED
      BY <2>1, <3>1
  <2>3. CASE WithRef(D, r) # {}
    <3>1. PICK d \in D : d.ref = r
      BY <2>3 DEF WithRef
    <3>2. R[r] >= Cardinality(WithRef(M, r)) /\ d \in M
      BY <1>1, <3>1
    <3>3. /\ IsFiniteSet(WithRef(M, r)) /\ Cardinality(WithRef(M, r)) \in Nat
          /\ Cardinality(WithRef(D, r)) \in Nat
      BY <1>1, <1>3, RefFinite
    <3>4. WithRef(D, r) \in SUBSET WithRef(M, r)
      BY DEF WithRef
    <3>5. Cardinality(WithRef(D, r)) <= Cardinality(WithRef(M, r))
      BY <3>3, <3>4, FS_Subset
    <3>6. R2[r] \in Nat
      BY <2>1, <3>2, <3>3, <3>5
    <3>7. ASSUME NEW m \in P, m.ref = r PROVE FALSE
      <4>1. m \in M /\ m.id = d.id
        BY <1>1, <3>1, <3>2, <3>7
      <4> QED
        BY <4>1
    <3> QED
      BY <3>6, <3>7
  <2> QED
    BY <2>2, <2>3
<1>5. R2 \in [Refs -> Nat]
  <2>1. R2 = [r \in Refs |-> R2[r]]
    OBVIOUS
  <2> QED
    BY <1>4, <2>1
<1>6. \A m \in P : m.ref \in Refs /\ R2[m.ref] = R[m.ref]
  BY <1>1, <1>4, PieceFields
<1>7. \A id \in Bytes : Lags(P, R, id) => Lags(P, R2, id)
  BY <1>6 DEF Lags
<1> QED
  BY <1>2, <1>5, <1>6, <1>7 DEF PiecesInv, Awaits

-----------------------------------------------------------------------------
(* The inductive invariant. *)

CreatorTypes ==
  /\ per_peer \in [Peers -> 0 .. W32 - 1]
  /\ disk \in [Bytes -> {"hole"} \cup Qualities]
  /\ coming \in [Packet -> 0 .. MaxCopies]
  /\ saved \subseteq Chunks

\* The books of the chunk map and those of the pieces.
CreatorInv ==
  /\ IInv
  /\ PiecesInv(mChunks, ref_cnt, slices, awaited)
  /\ CreatorTypes

\* What is written of a packet: at least a byte, and nothing behind the file's end.
ClippedPacket(k) ==
  /\ k.offset \in Bytes
  /\ k.size \in Nat
  /\ k.size > 0
  /\ k.offset + k.size <= FileSize

LEMMA ClippedFacts ==
  ASSUME NEW packet \in Packet
  PROVE  ClippedPacket(Clipped(packet))
<1>1. packet.offset \in Bytes /\ packet.size \in 1 .. PacketSize
  BY DEF Packet
<1>2. /\ FileSize \in Nat /\ PacketSize \in Nat /\ packet.offset \in Nat
      /\ packet.offset < FileSize /\ packet.size \in Nat /\ packet.size > 0
  BY <1>1, SizesAssumption, CreatorAssumption DEF Bytes
<1>3. /\ Clipped(packet).offset = packet.offset
      /\ Clipped(packet).size = IF packet.offset + packet.size > FileSize
                                THEN FileSize - packet.offset ELSE packet.size
  BY DEF Clipped
<1> HIDE DEF Clipped
<1> QED
  BY <1>1, <1>2, <1>3 DEF ClippedPacket

\* The slices of the chunk map lie in the file.
LEMMA SlicesAlways ==
  ASSUME IInv
  PROVE  SlicesOK(slices)
<1> SUFFICES ASSUME NEW id \in Bytes PROVE slices[id] \in Nat /\ id + slices[id] <= FileSize
  BY DEF SlicesOK
<1>1. id \in Nat /\ id < FileSize /\ slices[id] \in 0 .. FileSize /\ FileSize \in Nat
  BY SizesAssumption DEF IInv, TypeOK, Bytes
<1>2. ASSUME slices[id] > 0 PROVE id + slices[id] <= FileSize
  <2>1. id + slices[id] <= EndOf(ChunkOf(id))
    BY <1>2 DEF IInv, SlicesDisjoint
  <2>2. EndOf(ChunkOf(id)) \in Nat /\ EndOf(ChunkOf(id)) <= FileSize
    BY ChunkOfFacts, ChunkFacts, SizesAssumption
  <2> QED
    BY <1>1, <2>1, <2>2
<1> QED
  BY <1>1, <1>2

\* A difference of uint64_t, also when it wraps.
LEMMA Wraps ==
  ASSUME NEW a \in Int, NEW k \in Nat \ {0}, a < 0, -k <= a
  PROVE  a % k = a + k
  BY Z3

\* A counter of 32 bits remains one.
LEMMA Counts32 ==
  ASSUME CreatorTypes, NEW p \in Peers, NEW a \in Int,
         per_peer' = [per_peer EXCEPT ![p] = a % W32]
  PROVE  per_peer' \in [Peers -> 0 .. W32 - 1]
<1>1. per_peer \in [Peers -> 0 .. W32 - 1]
  BY DEF CreatorTypes
<1>2. a % W32 \in 0 .. W32 - 1
  BY Remainder, W64Facts
<1> QED
  BY <1>1, <1>2

-----------------------------------------------------------------------------
(* Arriving data. *)

\* What data does, seen from outside: nothing, or it completes a slice of which no
\* byte is awaited any more, and maybe its chunk.
SliceDone(id) ==
  /\ slices[id] > 0
  /\ slices' = [slices EXCEPT ![id] = 0]
  /\ map[ChunkOf(id)] = "ACTIVE"
  /\ map' = map \/ Finished(ChunkOf(id))
  /\ \A b \in awaited' : ~ (id <= b /\ b < id + slices[id])

Delivered ==
  /\ feed' = feed
  /\ \/ map' = map /\ slices' = slices
     \/ \E id \in Bytes : SliceDone(id)

\* What is left of the piece when the packet is taken off it.
LEMMA RestOfPiece ==
  ASSUME NEW x \in Piece, NEW s, SlicesOK(s), PendingIn(x, s) \/ Wrapped(x),
         NEW k, ClippedPacket(k), x.offset = k.offset, x.size # k.size,
         NEW y, y = [x EXCEPT !.size = (@ - k.size) % W64, !.offset = @ + k.size]
  PROVE  /\ y \in Piece /\ y.id = x.id /\ y.ref = x.ref /\ y.offset = k.offset + k.size
         /\ \/ PendingIn(x, s) /\ PendingIn(y, s) /\ y.offset + y.size = x.offset + x.size
            \/ Wrapped(y)
<1> DEFINE o == x.offset + k.size
           n == (x.size - k.size) % W64
<1>1. /\ x.offset \in Nat /\ x.size \in Nat /\ x.size < W64 /\ x.id \in Bytes /\ x.id \in Nat
      /\ k.size \in Nat /\ k.size > 0 /\ k.offset \in Nat /\ x.offset + k.size <= FileSize
      /\ FileSize \in Nat /\ W64 \in Nat \ {0} /\ FileSize < W64 /\ s[x.id] \in Nat
  BY PieceFields, W64Facts DEF ClippedPacket, SlicesOK
<1>2. x.size - k.size \in Int
  BY <1>1
<1>3. n \in 0 .. W64 - 1 /\ o \in 0 .. FileSize
  BY <1>1, <1>2, Remainder
<1>4. y = [x EXCEPT !.size = n, !.offset = o]
  OBVIOUS
<1>5. n = IF x.size > k.size THEN x.size - k.size ELSE x.size - k.size + W64
  <2>1. CASE x.size > k.size
    <3>1. x.size - k.size \in 0 .. W64 - 1
      BY <1>1, <2>1
    <3> QED
      BY <1>1, <1>2, <2>1, <3>1, Remainder
  <2>2. CASE ~ (x.size > k.size)
    <3>1. x.size - k.size < 0 /\ -W64 <= x.size - k.size
      BY <1>1, <2>2
    <3> QED
      BY <1>1, <1>2, <2>2, <3>1, Wraps
  <2> QED
    BY <2>1, <2>2
<1> HIDE DEF o, n
<1>6. /\ y \in Piece /\ y.offset = o /\ y.size = n /\ y.id = x.id /\ y.ref = x.ref
  BY <1>3, <1>4 DEF Piece
<1>7. n \in Nat /\ n < W64 /\ o = x.offset + k.size /\ o \in Nat
  BY <1>1, <1>3 DEF o
<1>8. CASE PendingIn(x, s) /\ x.size > k.size
  <2>1. y.offset + y.size = x.offset + x.size
    BY <1>1, <1>5, <1>6, <1>7, <1>8
  <2>2. PendingIn(y, s)
    BY <1>1, <1>5, <1>6, <1>7, <1>8, <2>1 DEF PendingIn
  <2> QED
    BY <1>6, <1>7, <1>8, <2>1, <2>2
<1>9. CASE ~ (x.size > k.size)
  <2>1. Wrapped(y)
    BY <1>1, <1>5, <1>6, <1>7, <1>9 DEF Wrapped
  <2> QED
    BY <1>6, <1>7, <2>1
<1>10. CASE Wrapped(x) /\ x.size > k.size
  <2>1. Wrapped(y)
    BY <1>1, <1>5, <1>6, <1>7, <1>10 DEF Wrapped
  <2> QED
    BY <1>6, <1>7, <2>1
<1> QED
  BY <1>8, <1>9, <1>10

\* Data for a piece x, taken out of the others P.
LEMMA DataForPiece ==
  ASSUME IInv, CreatorTypes, NEW k, ClippedPacket(k), awaited' = awaited \ InPacket(k),
         NEW P, NEW x, NEW R, x \notin P, PiecesInv(P \cup {x}, R, slices, awaited),
         x.offset = k.offset, ReceivedFor(x, P, R, k.size)
  PROVE  /\ IInv' /\ PiecesInv(mChunks, ref_cnt, slices, awaited)' /\ Delivered
         /\ per_peer' \in [Peers -> 0 .. W32 - 1]
<1>1. /\ x \in Piece /\ SlicesOK(slices)
      /\ PendingIn(x, slices) \/ Wrapped(x)
      /\ slices[x.id] > 0 /\ awaited \subseteq Bytes
  BY DEF PiecesInv
<1>2. /\ x.offset \in Nat /\ x.size \in Nat /\ x.size < W64 /\ x.id \in Bytes /\ x.id \in Nat
      /\ k.size \in Nat /\ k.size > 0 /\ k.offset \in Nat /\ k.offset + k.size <= FileSize
      /\ FileSize \in Nat /\ W64 \in Nat /\ FileSize < W64 /\ x.peer \in Peers
  BY <1>1, PieceFields DEF ClippedPacket
<1>3. /\ awaited' \in SUBSET awaited
      /\ \A b \in awaited' : b \in Nat /\ ~ (k.offset <= b /\ b < k.offset + k.size)
  <2>1. \A b \in awaited : b \in Nat
    BY <1>1, SizesAssumption DEF Bytes
  <2> QED
    BY <1>2, <2>1 DEF InPacket
<1>4. CASE x.size # k.size
  <2> DEFINE y == [x EXCEPT !.size = (@ - k.size) % W64, !.offset = @ + k.size]
             P0 == {m \in P : m.offset # y.offset}
  <2>1. mChunks' = Put(P, y) /\ ref_cnt' = R /\ UNCHANGED <<cmVars, per_peer>>
    BY <1>4 DEF ReceivedFor
  <2>2. /\ y \in Piece /\ y.id = x.id /\ y.ref = x.ref /\ y.offset = k.offset + k.size
        /\ \/ PendingIn(x, slices) /\ PendingIn(y, slices)
              /\ y.offset + y.size = x.offset + x.size
           \/ Wrapped(y)
    BY <1>1, <1>4, RestOfPiece
  <2> HIDE DEF y
  <2>3. mChunks' = P0 \cup {y} /\ x \notin P0 /\ \A m \in P0 : m.offset # y.offset
    BY <2>1 DEF Put
  <2>4. PiecesInv(P0 \cup {x}, R, slices, awaited)
    <3>1. P0 \cup {x} \in SUBSET (P \cup {x})
      OBVIOUS
    <3> HIDE DEF P0
    <3> QED
      BY <3>1, DropPieces
  <2> HIDE DEF P0
  <2>5. ASSUME PendingIn(x, slices), PendingIn(y, slices), y.offset + y.size = x.offset + x.size
        PROVE  PiecesInv(mChunks, ref_cnt, slices, awaited)'
    <3>1. x.offset <= y.offset /\ y.offset + y.size <= x.offset + x.size
      BY <1>2, <2>2, <2>5
    <3>2. \A b \in awaited' : x.offset <= b /\ b < x.offset + x.size
                                => y.offset <= b /\ b < y.offset + y.size
      BY <1>2, <1>3, <2>2, <2>5
    <3>3. PiecesInv(P0 \cup {y}, R, slices, awaited')
      BY <1>3, <2>2, <2>3, <2>4, <2>5, <3>1, <3>2, ShrinkPiece
    <3> QED
      BY <2>1, <2>3, <3>3 DEF cmVars
  <2>6. ASSUME Wrapped(y) PROVE PiecesInv(mChunks, ref_cnt, slices, awaited)'
    <3>1. PiecesInv(P0 \cup {y}, R, slices, awaited)
      BY <2>2, <2>3, <2>4, <2>6, WrapPiece
    <3>2. PiecesInv(P0 \cup {y}, R, slices, awaited')
      BY <1>3, <3>1, AwaitFewer
    <3> QED
      BY <2>1, <2>3, <3>2 DEF cmVars
  <2>7. PiecesInv(mChunks, ref_cnt, slices, awaited)'
    BY <2>1, <2>2, <2>5, <2>6 DEF cmVars
  <2>8. IInv'
    BY <2>1, OtherSteps
  <2>9. Delivered /\ per_peer' \in [Peers -> 0 .. W32 - 1]
    BY <2>1 DEF Delivered, cmVars, CreatorTypes
  <2> QED
    BY <2>7, <2>8, <2>9
<1>5. CASE x.size = k.size
  <2> DEFINE R2 == [R EXCEPT ![x.ref] = @ - 1]
  <2>1. mChunks' = P /\ ref_cnt' = R2
    BY <1>5 DEF ReceivedFor
  <2>2. PendingIn(x, slices)
    BY <1>1, <1>2, <1>5 DEF Wrapped
  <2>3. \A b \in awaited' : ~ (x.offset <= b /\ b < x.offset + x.size)
    BY <1>3, <1>5
  <2>4. /\ PiecesInv(P, R2, slices, awaited')
        /\ R[x.ref] = 1 => /\ \A m \in P : m.id # x.id
                           /\ \A b \in awaited' : ~ (x.id <= b /\ b < x.id + slices[x.id])
    BY <1>3, <2>2, <2>3, FinishPiece
  <2> HIDE DEF R2
  <2>5. CASE R[x.ref] # 1
    <3>1. UNCHANGED <<cmVars, per_peer>>
      BY <1>5, <2>5 DEF ReceivedFor
    <3>2. IInv'
      BY <3>1, OtherSteps
    <3>3. PiecesInv(mChunks, ref_cnt, slices, awaited)'
      BY <2>1, <2>4, <3>1 DEF cmVars
    <3>4. Delivered /\ per_peer' \in [Peers -> 0 .. W32 - 1]
      BY <3>1 DEF Delivered, cmVars, CreatorTypes
    <3> QED
      BY <3>2, <3>3, <3>4
  <2>6. CASE R[x.ref] = 1
    <3>1. /\ dataReceived(x.id)
          /\ per_peer' = [per_peer EXCEPT ![x.peer] = (@ - 1) % W32]
      BY <1>5, <2>6 DEF ReceivedFor
    <3>2. IInv'
      BY <1>2, <3>1, DataReceivedStep
    <3>3. /\ slices' = [slices EXCEPT ![x.id] = 0] /\ feed' = feed
          /\ map[ChunkOf(x.id)] = "ACTIVE"
          /\ map' = map \/ Finished(ChunkOf(x.id))
      BY <1>1, <1>2, <3>1, DataReceivedEffect
    <3>4. slices \in [Bytes -> 0 .. FileSize]
      BY DEF IInv, TypeOK
    <3>5. \A id \in Bytes : slices'[id] = slices[id] \/ (slices'[id] = 0 /\ \A m \in P : m.id # id)
      BY <2>4, <2>6, <3>3, <3>4
    <3>6. PiecesInv(P, R2, slices', awaited')
      BY <2>4, <3>5, ForgetOthers
    <3>7. PiecesInv(mChunks, ref_cnt, slices, awaited)'
      BY <2>1, <3>6
    <3>8. Delivered
      BY <1>1, <1>2, <2>4, <2>6, <3>3 DEF Delivered, SliceDone
    <3>9. per_peer' \in [Peers -> 0 .. W32 - 1]
      <4>1. per_peer \in [Peers -> 0 .. W32 - 1]
        BY DEF CreatorTypes
      <4>2. per_peer[x.peer] - 1 \in Int
        BY <1>2, <4>1, W64Facts
      <4>3. per_peer' = [per_peer EXCEPT ![x.peer] = (per_peer[x.peer] - 1) % W32]
        BY <3>1
      <4> QED
        BY <1>2, <4>2, <4>3, Counts32
    <3> QED
      BY <3>2, <3>7, <3>8, <3>9
  <2> QED
    BY <2>5, <2>6
<1> QED
  BY <1>4, <1>5

\* Data for the end of a piece, which is split.
LEMMA DataForPart ==
  ASSUME CreatorInv, NEW k, ClippedPacket(k), awaited' = awaited \ InPacket(k),
         ExactPieces(k) = {}, NEW m \in ContainingPieces(k), SplitPiece(k, m)
  PROVE  /\ IInv' /\ PiecesInv(mChunks, ref_cnt, slices, awaited)' /\ Delivered
         /\ per_peer' \in [Peers -> 0 .. W32 - 1]
<1> DEFINE n1 == k.offset - m.offset
           n2 == m.size - n1
           part1 == [m EXCEPT !.size = k.offset - m.offset]
           rest == [m EXCEPT !.offset = k.offset, !.size = (@ - part1.size) % W64]
<1>1. /\ IInv /\ CreatorTypes /\ PiecesInv(mChunks, ref_cnt, slices, awaited)
      /\ m \in mChunks /\ m \in Piece /\ SlicesOK(slices)
      /\ m.offset < k.offset /\ (m.size + m.offset) % W64 >= k.size + k.offset
  BY DEF CreatorInv, PiecesInv, ContainingPieces
<1>2. /\ m.offset \in Nat /\ m.size \in Nat /\ m.size < W64 /\ m.id \in Nat /\ m.id \in Bytes
      /\ k.size \in Nat /\ k.size > 0 /\ k.offset \in Nat /\ k.offset + k.size <= FileSize
      /\ FileSize \in Nat /\ W64 \in Nat \ {0} /\ FileSize < W64 /\ m.offset <= FileSize
  BY <1>1, PieceFields, W64Facts, SizesAssumption DEF ClippedPacket, Bytes
<1>3. PendingIn(m, slices)
  <2> SUFFICES ASSUME Wrapped(m) PROVE FALSE
    BY <1>1 DEF PiecesInv
  <2>1. m.size + m.offset - W64 \in 0 .. W64 - 1 /\ m.size + m.offset - W64 < m.offset
    BY <1>2 DEF Wrapped
  <2>2. (m.size + m.offset) % W64 = m.size + m.offset - W64
    BY <1>2, <2>1, Z3
  <2> QED
    BY <1>1, <1>2, <2>1, <2>2
<1>4. m.offset + m.size <= FileSize /\ slices[m.id] \in Nat
  BY <1>1, <1>3, PendingFacts
<1>5. k.offset + k.size <= m.offset + m.size
  <2>1. m.size + m.offset \in Int /\ m.size + m.offset \in 0 .. W64 - 1
    BY <1>2, <1>4
  <2>2. (m.size + m.offset) % W64 = m.size + m.offset
    BY <1>2, <2>1, Remainder
  <2> QED
    BY <1>1, <1>2, <2>2
<1>6. /\ n1 \in Nat /\ n1 > 0 /\ n1 < W64 /\ n2 \in Nat /\ n2 > 0 /\ n2 < W64
      /\ m.offset + n1 = k.offset /\ k.offset + n2 = m.offset + m.size
  BY <1>1, <1>2, <1>5
<1>7. part1.size = n1
  BY <1>1 DEF Piece
<1>8. (m.size - part1.size) % W64 = n2
  <2>1. m.size - part1.size = n2 /\ n2 \in Int /\ n2 \in 0 .. W64 - 1
    BY <1>2, <1>6, <1>7
  <2> HIDE DEF n2
  <2> QED
    BY <1>2, <2>1, Remainder
<1>9. /\ part1 \in Piece /\ part1.offset = m.offset /\ part1.id = m.id /\ part1.ref = m.ref
  <2>1. part1 = [m EXCEPT !.size = n1]
    OBVIOUS
  <2> HIDE DEF part1, n1
  <2>2. n1 \in 0 .. W64 - 1
    BY <1>2, <1>6
  <2> QED
    BY <1>1, <2>1, <2>2 DEF Piece
<1>10. /\ rest \in Piece /\ rest.offset = k.offset /\ rest.size = n2
       /\ rest.id = m.id /\ rest.ref = m.ref
  <2> DEFINE o == k.offset
  <2>3. rest = [m EXCEPT !.offset = o, !.size = (m.size - part1.size) % W64]
    OBVIOUS
  <2>4. o \in 0 .. FileSize
    BY <1>2
  <2> HIDE DEF rest, part1, n1, n2, o
  <2>5. n2 \in 0 .. W64 - 1
    BY <1>2, <1>6
  <2>1. rest = [m EXCEPT !.offset = o, !.size = n2] /\ n2 \in 0 .. W64 - 1 /\ o \in 0 .. FileSize
    BY <1>8, <2>3, <2>4, <2>5
  <2>2. /\ rest \in Piece /\ rest.offset = o /\ rest.size = n2
        /\ rest.id = m.id /\ rest.ref = m.ref
    BY <1>1, <2>1 DEF Piece
  <2> QED
    BY <2>2 DEF o
<1>11. ReceivedFor(rest, Put(mChunks, part1), [ref_cnt EXCEPT ![m.ref] = @ + 1], k.size)
  BY DEF SplitPiece
<1> HIDE DEF part1, rest
<1>12. PendingIn(part1, slices) /\ PendingIn(rest, slices)
  <2>1. m.id <= m.offset /\ m.offset + m.size <= m.id + slices[m.id]
    BY <1>3 DEF PendingIn
  <2>2. PendingIn(part1, slices)
    BY <1>2, <1>4, <1>6, <1>7, <1>9, <2>1 DEF PendingIn
  <2>3. PendingIn(rest, slices)
    BY <1>2, <1>4, <1>6, <1>10, <2>1 DEF PendingIn
  <2> QED
    BY <2>2, <2>3
<1>13. /\ part1.offset + part1.size = rest.offset
       /\ rest.offset + rest.size = m.offset + m.size
       /\ \A n \in mChunks : n.offset # rest.offset
  BY <1>6, <1>7, <1>9, <1>10 DEF ExactPieces
<1>14. /\ rest \notin Put(mChunks, part1)
       /\ PiecesInv(Put(mChunks, part1) \cup {rest},
                    [ref_cnt EXCEPT ![m.ref] = @ + 1], slices, awaited)
  <2> HIDE DEF n1, n2
  <2> QED
    BY <1>1, <1>3, <1>9, <1>10, <1>12, <1>13, CutPiece
<1> QED
  BY <1>1, <1>10, <1>11, <1>14, DataForPiece

\* Whatever packet arrives, the pieces are in order and the chunk map is told of
\* no slice of which anything is awaited.
LEMMA NotifyStep ==
  ASSUME CreatorInv, NEW k, ClippedPacket(k), awaited' = awaited \ InPacket(k),
         locked_notifyReceived(k)
  PROVE  /\ IInv' /\ PiecesInv(mChunks, ref_cnt, slices, awaited)' /\ Delivered
         /\ per_peer' \in [Peers -> 0 .. W32 - 1]
<1>1. IInv /\ CreatorTypes /\ PiecesInv(mChunks, ref_cnt, slices, awaited)
  BY DEF CreatorInv
<1>2. CASE ExactPieces(k) # {}
  <2>1. PICK m \in ExactPieces(k) : ReceivedFor(m, mChunks \ {m}, ref_cnt, k.size)
    BY <1>2 DEF locked_notifyReceived
  <2>2. m \in mChunks /\ m.offset = k.offset
    BY DEF ExactPieces
  <2>3. (mChunks \ {m}) \cup {m} = mChunks /\ m \notin mChunks \ {m}
    BY <2>2
  <2> QED
    BY <1>1, <2>1, <2>2, <2>3, DataForPiece
<1>3. CASE ExactPieces(k) = {} /\ ContainingPieces(k) # {}
  <2>1. PICK m \in ContainingPieces(k) : SplitPiece(k, m)
    BY <1>3 DEF locked_notifyReceived
  <2> QED
    BY <1>3, <2>1, DataForPart
<1>4. CASE ExactPieces(k) = {} /\ ContainingPieces(k) = {}
  <2>1. UNCHANGED cmVars /\ UNCHANGED <<mChunks, ref_cnt, per_peer>>
    BY <1>4 DEF locked_notifyReceived
  <2>2. IInv'
    BY <1>1, <2>1, OtherSteps
  <2>3. PiecesInv(mChunks, ref_cnt, slices, awaited')
    BY <1>1, AwaitFewer
  <2>4. PiecesInv(mChunks, ref_cnt, slices, awaited)'
    BY <2>1, <2>3 DEF cmVars
  <2>5. Delivered /\ per_peer' \in [Peers -> 0 .. W32 - 1]
    BY <1>1, <2>1 DEF Delivered, cmVars, CreatorTypes
  <2> QED
    BY <2>2, <2>4, <2>5
<1> QED
  BY <1>2, <1>3, <1>4

\* A packet less on its way.
LEMMA TakeTypes ==
  ASSUME CreatorTypes, NEW packet \in Packet, Take(packet)
  PROVE  coming' \in [Packet -> 0 .. MaxCopies]
<1>1. coming \in [Packet -> 0 .. MaxCopies] /\ MaxCopies \in Nat
  BY CreatorAssumption DEF CreatorTypes
<1>2. coming[packet] - 1 \in 0 .. MaxCopies
  BY <1>1 DEF Take
<1> QED
  BY <1>1, <1>2 DEF Take

\* Data that arrives keeps the invariant.
LEMMA ReceiveStep ==
  ASSUME CreatorInv, NEW packet \in Packet, NEW quality \in Qualities,
         Receive(packet, quality)
  PROVE  CreatorInv' /\ Delivered
<1> DEFINE k == Clipped(packet)
<1>1. /\ Write(k, quality) /\ locked_notifyReceived(k) /\ saved' = saved /\ Arrives(packet)
  BY DEF Receive, addFileData
<1>2. ClippedPacket(k)
  BY ClippedFacts
<1> HIDE DEF k
<1>3. /\ awaited' = awaited \ InPacket(k)
      /\ disk' = [b \in Bytes |-> IF b \in InPacket(k) THEN quality ELSE disk[b]]
  BY <1>1 DEF Write
<1>4. /\ IInv' /\ PiecesInv(mChunks, ref_cnt, slices, awaited)' /\ Delivered
      /\ per_peer' \in [Peers -> 0 .. W32 - 1]
  BY <1>1, <1>2, <1>3, NotifyStep
<1>5. CreatorTypes
  BY DEF CreatorInv
<1>6. coming' \in [Packet -> 0 .. MaxCopies]
  <2>1. CASE Take(packet)
    BY <1>5, <2>1, TakeTypes
  <2>2. CASE UNCHANGED coming
    BY <1>5, <2>2 DEF CreatorTypes
  <2> QED
    BY <1>1, <2>1, <2>2 DEF Arrives
<1>7. disk' \in [Bytes -> {"hole"} \cup Qualities]
  BY <1>3, <1>5 DEF CreatorTypes
<1>8. CreatorTypes'
  BY <1>1, <1>4, <1>5, <1>6, <1>7 DEF CreatorTypes
<1> QED
  BY <1>4, <1>8 DEF CreatorInv

-----------------------------------------------------------------------------
(* Requests, clean-up and the rest. *)

\* What a request puts on its way.
LEMMA AskTypes ==
  ASSUME CreatorTypes, NEW off, NEW size, Ask(off, size)
  PROVE  coming' \in [Packet -> 0 .. MaxCopies]
<1>1. coming \in [Packet -> 0 .. MaxCopies] /\ MaxCopies \in Nat
  BY CreatorAssumption DEF CreatorTypes
<1>2. coming' = [k \in Packet |-> IF k \in Packets(off, size) /\ coming[k] < MaxCopies
                                  THEN coming[k] + 1 ELSE coming[k]]
  BY DEF Ask
<1>3. \A k \in Packet : (IF k \in Packets(off, size) /\ coming[k] < MaxCopies
                         THEN coming[k] + 1 ELSE coming[k]) \in 0 .. MaxCopies
  <2>1. \A k \in Packet : coming[k] \in 0 .. MaxCopies
    BY <1>1
  <2> QED
    BY <1>1, <2>1
<1> QED
  BY <1>2, <1>3

\* An operation that leaves slices and pieces alone.
LEMMA SameBooks ==
  ASSUME CreatorInv, IInv', UNCHANGED <<slices, mChunks, ref_cnt, awaited>>, CreatorTypes'
  PROVE  CreatorInv'
  BY DEF CreatorInv

\* A request for a new slice keeps the invariant.
LEMMA RequestStep ==
  ASSUME CreatorInv, NEW p \in Peers, NEW hint \in Hints, NEW off \in Bytes, NEW r \in Refs,
         RequestSlice(p, hint, off, r)
  PROVE  CreatorInv' /\ Carved(off, SliceSize(off, hint))
<1> DEFINE n == SliceSize(off, hint)
           x == [offset |-> off, size |-> n, id |-> off, peer |-> p, ref |-> r]
           P == {m \in mChunks : m.offset # off}
<1>1. /\ FreshRef(r) /\ getDataChunk(p, hint, off)
      /\ mChunks' = Put(mChunks, x)
      /\ ref_cnt' = [ref_cnt EXCEPT ![r] = 1]
      /\ per_peer' = [per_peer EXCEPT ![p] = (@ + 1) % W32]
      /\ Ask(off, n) /\ awaited' = awaited \cup (off .. off + n - 1)
      /\ disk' = disk /\ saved' = saved
  BY DEF RequestSlice
<1>2. IInv /\ CreatorTypes /\ PiecesInv(mChunks, ref_cnt, slices, awaited)
  BY DEF CreatorInv
<1>3. IInv' /\ Carved(off, n)
  BY <1>1, <1>2, GetDataChunkStep, GetDataChunkEffect
<1>4. /\ n \in 1 .. FileSize /\ off + n <= FileSize /\ off \in Nat /\ FileSize \in Nat
      /\ FileSize < W64 /\ W64 \in Nat
  <2>1. n \in 1 .. FileSize /\ off + n <= EndOf(ChunkOf(off))
    BY SliceSizeFacts
  <2>2. EndOf(ChunkOf(off)) \in Nat /\ EndOf(ChunkOf(off)) <= FileSize
    BY ChunkOfFacts, ChunkFacts, SizesAssumption
  <2> HIDE DEF n
  <2> QED
    BY <2>1, <2>2, SizesAssumption DEF Bytes
<1> HIDE DEF n
<1>5. x \in Piece /\ x.offset = off /\ x.size = n /\ x.id = off /\ x.ref = r
  BY <1>4 DEF Piece
<1>6. /\ slices' = [slices EXCEPT ![off] = n] /\ slices[off] = 0
      /\ slices \in [Bytes -> 0 .. FileSize]
  BY <1>2, <1>3 DEF Carved, IInv, TypeOK
<1>7. mChunks' = P \cup {x}
  BY <1>1, <1>5 DEF Put
<1> HIDE DEF x
<1>8. ASSUME NEW id \in Bytes, slices[id] > 0 PROVE id + slices[id] <= off \/ off + n <= id
  <2>1. id # off /\ slices'[id] = slices[id] /\ slices'[off] = n /\ id \in Nat
    BY <1>6, <1>8, SizesAssumption DEF Bytes
  <2>2. id < off => id + slices'[id] <= off
    BY <1>3, <1>4, <1>8, <2>1 DEF IInv, SlicesDisjoint
  <2>3. off < id => off + slices'[off] <= id
    BY <1>3, <1>4, <1>8, <2>1 DEF IInv, SlicesDisjoint
  <2> QED
    BY <1>4, <2>1, <2>2, <2>3
<1>9. PiecesInv(P, ref_cnt, slices, awaited)
  BY <1>2, DropPieces
<1>10. /\ slices \in [Bytes -> Nat]
       /\ awaited \subseteq Bytes
       /\ awaited' \in SUBSET Bytes
       /\ \A b \in awaited' : b \in awaited \/ (off <= b /\ b < off + n)
  <2>1. slices \in [Bytes -> Nat]
    BY <1>4, <1>6
  <2>2. awaited \subseteq Bytes
    BY <1>2 DEF PiecesInv
  <2>3. \A b \in off .. off + n - 1 : b \in Bytes /\ off <= b /\ b < off + n
    BY <1>4 DEF Bytes
  <2> QED
    BY <1>1, <2>1, <2>2, <2>3
<1>11. \A m \in P : m.ref # x.ref /\ m.offset # x.offset
  BY <1>1, <1>5 DEF FreshRef
<1>12. PiecesInv(mChunks, ref_cnt, slices, awaited)'
  <2> HIDE DEF P
  <2>2. /\ x.size > 0 /\ x.offset = x.id /\ slices[x.id] = 0
        /\ slices' = [slices EXCEPT ![x.id] = x.size]
        /\ x.id + x.size <= FileSize
        /\ \A id \in Bytes : slices[id] > 0 => id + slices[id] <= x.id \/ x.id + x.size <= id
        /\ \A b \in awaited' : b \in awaited \/ (x.id <= b /\ b < x.id + x.size)
    BY <1>4, <1>5, <1>6, <1>8, <1>10
  <2>1. PiecesInv(P \cup {x}, [ref_cnt EXCEPT ![x.ref] = 1], slices', awaited')
    BY <1>5, <1>9, <1>10, <1>11, <2>2, AddPiece
  <2> QED
    BY <1>1, <1>5, <1>7, <2>1
<1>13. CreatorTypes'
  <2>1. coming' \in [Packet -> 0 .. MaxCopies]
    BY <1>1, <1>2, AskTypes
  <2>2. per_peer' \in [Peers -> 0 .. W32 - 1]
    <3>1. per_peer \in [Peers -> 0 .. W32 - 1]
      BY <1>2 DEF CreatorTypes
    <3>2. per_peer[p] + 1 \in Int
      BY <3>1, W64Facts
    <3>3. per_peer' = [per_peer EXCEPT ![p] = (per_peer[p] + 1) % W32]
      BY <1>1
    <3> QED
      BY <1>2, <3>2, <3>3, Counts32
  <2> QED
    BY <1>1, <1>2, <2>1, <2>2 DEF CreatorTypes
<1> QED
  BY <1>3, <1>12, <1>13 DEF CreatorInv, n


\* Asking for a piece again, and losing an answer, change no books.
LEMMA ReaskStep ==
  ASSUME CreatorInv, NEW p \in Peers, NEW m \in mChunks, ReaskPiece(p, m)
  PROVE  CreatorInv'
<1>1. /\ UNCHANGED cmVars
      /\ UNCHANGED <<slices, mChunks, ref_cnt, awaited>>
      /\ UNCHANGED <<per_peer, disk, saved>>
      /\ Ask(m.offset, m.size)
  BY DEF ReaskPiece, cmVars
<1>2. IInv'
  BY <1>1, OtherSteps DEF CreatorInv
<1>3. CreatorTypes'
  <2>1. coming' \in [Packet -> 0 .. MaxCopies]
    BY <1>1, AskTypes DEF CreatorInv
  <2> QED
    BY <1>1, <2>1 DEF CreatorInv, CreatorTypes
<1> QED
  BY <1>1, <1>2, <1>3, SameBooks

LEMMA LoseStep ==
  ASSUME CreatorInv, NEW packet \in Packet, Lose(packet)
  PROVE  CreatorInv'
<1>1. /\ UNCHANGED cmVars
      /\ UNCHANGED <<slices, mChunks, ref_cnt, awaited>>
      /\ UNCHANGED <<per_peer, disk, saved>>
      /\ Take(packet)
  BY DEF Lose, cmVars
<1>2. IInv'
  BY <1>1, OtherSteps DEF CreatorInv
<1>3. CreatorTypes'
  <2>1. coming' \in [Packet -> 0 .. MaxCopies]
    BY <1>1, TakeTypes DEF CreatorInv
  <2> QED
    BY <1>1, <2>1 DEF CreatorInv, CreatorTypes
<1> QED
  BY <1>1, <1>2, <1>3, SameBooks

\* Neither does a check.
LEMMA VerifyStep ==
  ASSUME CreatorInv, NEW c \in Chunks, NEW sum, verifyChunk(c, sum)
  PROVE  /\ CreatorInv' /\ UNCHANGED creatorVars /\ UNCHANGED <<feed, slices>>
         /\ \/ map' = map
            \/ /\ map[c] = "CHECKING"
               /\ map' = [map EXCEPT ![c] = "DONE"] \/ map' = [map EXCEPT ![c] = "OUTSTANDING"]
<1> DEFINE ok == Readable(c) /\ CheckSum(c) = sum
<1>1. setChunkCheckingResult(c, ok) /\ UNCHANGED creatorVars
  BY DEF verifyChunk
<1>2. ok \in BOOLEAN
  OBVIOUS
<1> HIDE DEF ok
<1>3. IInv'
  BY <1>1, <1>2, CheckingResultStep DEF CreatorInv
<1>4. /\ UNCHANGED <<feed, slices>>
      /\ \/ map' = map
         \/ /\ map[c] = "CHECKING"
            /\ map' = [map EXCEPT ![c] = "DONE"] \/ map' = [map EXCEPT ![c] = "OUTSTANDING"]
  BY <1>1 DEF setChunkCheckingResult
<1>5. CreatorInv'
  <2>1. UNCHANGED <<slices, mChunks, ref_cnt, awaited>> /\ CreatorTypes'
    BY <1>1, <1>4 DEF creatorVars, CreatorInv, CreatorTypes
  <2> QED
    BY <1>3, <2>1, SameBooks
<1> QED
  BY <1>1, <1>4, <1>5

\* The check of a whole file, which is complete.
LEMMA ForceStep ==
  ASSUME CreatorInv, UserForceCheck = FALSE, ForceCheck
  PROVE  /\ CreatorInv' /\ UNCHANGED creatorVars
         /\ \A c \in Chunks : map[c] = "DONE" /\ map'[c] = "CHECKING"
<1>1. file_is_complete /\ forceCheck /\ UNCHANGED creatorVars
  BY DEF ForceCheck, MayForceCheck
<1>2. IInv'
  BY <1>1, ForceCheckStep DEF CreatorInv
<1>3. \A c \in Chunks : map[c] = "DONE" /\ map'[c] = "CHECKING"
  BY <1>1 DEF CreatorInv, IInv, CompleteExact, AllDone, forceCheck
<1>4. UNCHANGED <<slices, mChunks, ref_cnt, awaited>> /\ CreatorTypes'
  BY <1>1 DEF creatorVars, CreatorInv, CreatorTypes, forceCheck
<1> QED
  BY <1>1, <1>2, <1>3, <1>4, SameBooks

\* The queue, the sources and the strategy.
LEMMA QuietStep ==
  ASSUME CreatorInv,
         \/ TakeChunksToCheck
         \/ \E p \in Peers, m \in PeerMaps : setSourceMap(p, m)
         \/ \E p \in Peers : RemoveSource(p)
         \/ \E s \in Strategies : setChunkStrategy(s)
         \/ UNCHANGED vars
  PROVE  CreatorInv' /\ UNCHANGED <<map, feed, slices>> /\ UNCHANGED creatorVars
<1>1. UNCHANGED <<map, feed, slices>> /\ UNCHANGED creatorVars
  BY DEF TakeChunksToCheck, setSourceMap, RemoveSource, setChunkStrategy, vars, cmVars,
         getChunksToCheck, setPeerAvailabilityMap, removeFileSource, setStrategy
<1>2. IInv'
  BY OtherSteps DEF TakeChunksToCheck, setSourceMap, RemoveSource, setChunkStrategy, vars,
                    CreatorInv
<1>3. UNCHANGED <<slices, mChunks, ref_cnt, awaited>> /\ CreatorTypes'
  BY <1>1 DEF creatorVars, CreatorInv, CreatorTypes
<1> QED
  BY <1>1, <1>2, <1>3, SameBooks

\* Saving what is done.
LEMMA SaveStep ==
  ASSUME CreatorInv, SaveMap
  PROVE  CreatorInv'
<1>1. /\ UNCHANGED cmVars
      /\ UNCHANGED <<slices, mChunks, ref_cnt, awaited>>
      /\ UNCHANGED <<per_peer, disk, coming>>
      /\ saved' = {c \in Chunks : map[c] = "DONE"}
  BY DEF SaveMap, cmVars
<1>2. IInv'
  BY <1>1, OtherSteps DEF CreatorInv
<1>3. CreatorTypes'
  BY <1>1 DEF CreatorInv, CreatorTypes
<1> QED
  BY <1>1, <1>2, <1>3, SameBooks

\* No slices and no pieces: nothing to keep in order.
LEMMA NoPieces ==
  ASSUME NEW s, s = [o \in Bytes |-> 0]
  PROVE  PiecesInv({}, [r \in Refs |-> 0], s, {})
<1>1. SlicesOK(s)
  <2> SUFFICES ASSUME NEW id \in Bytes PROVE s[id] \in Nat /\ id + s[id] <= FileSize
    BY DEF SlicesOK
  <2>1. id \in Nat /\ id < FileSize /\ FileSize \in Nat /\ s[id] = 0
    BY SizesAssumption DEF Bytes
  <2> QED
    BY <2>1
<1> QED
  BY <1>1, FS_EmptySet DEF PiecesInv, Awaits

\* The chunk map of a new session.
LEMMA ReloadInv == CmInit' => IInv'
  BY InitInv, PTL

\* A new session starts with what was saved.
LEMMA RestartStep ==
  ASSUME CreatorInv, Restart
  PROVE  CreatorInv'
<1>1. /\ Reload(saved) /\ mChunks' = {} /\ ref_cnt' = [r \in Refs |-> 0]
      /\ per_peer' = [p \in Peers |-> 0] /\ coming' = coming /\ awaited' = {}
      /\ disk' = disk /\ saved' = saved
  BY DEF Restart
<1>2. saved \in SUBSET Chunks
  BY DEF CreatorInv, CreatorTypes
<1>3. CmInit'
  <2>1. strategy' \in Strategies
    BY <1>1 DEF Reload, CreatorInv, IInv, TypeOK
  <2>2. \E done \in SUBSET Chunks : Load(done)'
    <3>1. PICK done \in SUBSET Chunks : done = saved
      BY <1>2
    <3>2. Load(done)'
      BY <1>1, <3>1 DEF Load, Reload
    <3> QED
      BY <3>2
  <2> QED
    BY <2>1, <2>2 DEF CmInit
<1>4. IInv'
  BY <1>3, ReloadInv
<1>5. slices' = [o \in Bytes |-> 0]
  BY <1>1 DEF Reload
<1>6. PiecesInv(mChunks', ref_cnt', slices', awaited')
  BY <1>1, <1>5, NoPieces
<1>7. CreatorTypes'
  BY <1>1, W64Facts DEF CreatorInv, CreatorTypes
<1> QED
  BY <1>4, <1>6, <1>7 DEF CreatorInv

\* A clean-up gives up the chunks of S and all that belongs to them.
LEMMA RemoveStep ==
  ASSUME CreatorInv, NEW S \in SUBSET tracked, RemoveInactive(S)
  PROVE  /\ CreatorInv'
         /\ S \subseteq Chunks
         /\ \A o \in Bytes : slices'[o] = IF ChunkOf(o) \in S THEN 0 ELSE slices[o]
         /\ \A c \in Chunks : map'[c] = IF c \in S THEN "OUTSTANDING" ELSE map[c]
         /\ \A b \in Bytes : ChunkOf(b) \notin S => (InFeed(b)' <=> InFeed(b))
         /\ awaited' = {b \in awaited : ChunkOf(b) \notin S}
         /\ disk' = disk /\ saved' = saved
<1> DEFINE D == RemovedPieces(S)
<1>1. /\ removeInactiveChunks(S)
      /\ mChunks' = mChunks \ D
      /\ ref_cnt' = [r \in Refs |-> ref_cnt[r] - Cardinality(WithRef(D, r))]
      /\ per_peer' = [p \in Peers |->
                       (per_peer[p] - Cardinality({m \in D : m.peer = p})) % W32]
      /\ awaited' = {b \in awaited : ChunkOf(b) \notin S}
      /\ disk' = disk /\ saved' = saved /\ coming' = coming
  BY DEF RemoveInactive, WithRef
<1>2. /\ IInv /\ IInv' /\ S \subseteq Chunks /\ CreatorTypes
      /\ PiecesInv(mChunks, ref_cnt, slices, awaited)
  BY <1>1, RemoveInactiveStep DEF CreatorInv, IInv, TypeOK
<1>3. \A o \in Bytes : slices'[o] = IF ChunkOf(o) \in S THEN 0 ELSE slices[o]
  BY <1>1 DEF removeInactiveChunks, ForgetSlices
<1>4. \A c \in Chunks : map'[c] = IF c \in S THEN "OUTSTANDING" ELSE map[c]
  BY <1>1 DEF removeInactiveChunks
<1>5. \A b \in Bytes : ChunkOf(b) \notin S => (InFeed(b)' <=> InFeed(b))
  <2>1. \A p \in Peers : feed'[p] = IF feed[p] # None /\ ChunkOf(feed[p]) \in S
                                    THEN None ELSE feed[p]
    BY <1>1 DEF removeInactiveChunks
  <2> QED
    BY <2>1 DEF InFeed
<1>6. \A m \in mChunks : m.id \in Bytes /\ slices[m.id] > 0
  BY <1>2, PieceFields DEF PiecesInv
<1>7. D \in SUBSET mChunks /\ \A m \in mChunks : m \in D <=> ChunkOf(m.id) \in S
  BY <1>6 DEF RemovedPieces, ToRemove
<1> HIDE DEF D
<1>8. PiecesInv(mChunks, ref_cnt, slices, awaited)'
  <2>1. \A m \in mChunks, d \in D : m.id = d.id => m \in D
    BY <1>7
  <2>2. \A id \in Bytes : slices'[id] = slices[id]
                          \/ (slices'[id] = 0 /\ \A m \in mChunks \ D : m.id # id)
    BY <1>3, <1>7
  <2>3. awaited' \in SUBSET awaited
    BY <1>1
  <2>4. PiecesInv(mChunks, ref_cnt, slices, awaited) /\ D \in SUBSET mChunks
    BY <1>2, <1>7
  <2>5. /\ mChunks' = mChunks \ D
        /\ ref_cnt' = [r \in Refs |-> ref_cnt[r] - Cardinality(WithRef(D, r))]
    BY <1>1
  <2>6. PiecesInv(mChunks', ref_cnt', slices', awaited')
    BY <2>1, <2>2, <2>3, <2>4, <2>5, RemovePieces, SMTT(30)
  <2> QED
    BY <2>6
<1>9. CreatorTypes'
  <2>1. per_peer' \in [Peers -> 0 .. W32 - 1]
    <3> SUFFICES ASSUME NEW p \in Peers
                 PROVE  (per_peer[p] - Cardinality({m \in D : m.peer = p})) % W32
                          \in 0 .. W32 - 1
      BY <1>1
    <3>1. {m \in D : m.peer = p} \in SUBSET mChunks /\ IsFiniteSet(mChunks)
      BY <1>2, <1>7 DEF PiecesInv
    <3>2. Cardinality({m \in D : m.peer = p}) \in Nat
      BY <3>1, FS_Subset, FS_CardinalityType
    <3>3. per_peer[p] \in Int
      BY <1>2, W64Facts DEF CreatorTypes
    <3>4. per_peer[p] - Cardinality({m \in D : m.peer = p}) \in Int
      BY <3>2, <3>3
    <3> QED
      BY <3>4, Remainder, W64Facts
  <2> QED
    BY <1>1, <1>2, <2>1 DEF CreatorTypes
<1> QED
  BY <1>1, <1>2, <1>3, <1>4, <1>5, <1>8, <1>9 DEF CreatorInv

-----------------------------------------------------------------------------
(* The invariant. *)

LEMMA CreatorInit == Init => CreatorInv
<1> SUFFICES ASSUME Init PROVE CreatorInv
  OBVIOUS
<1>1. /\ Load({}) /\ strategy \in Strategies /\ mChunks = {} /\ ref_cnt = [r \in Refs |-> 0]
      /\ per_peer = [p \in Peers |-> 0] /\ disk = [b \in Bytes |-> "hole"]
      /\ coming = [k \in Packet |-> 0] /\ saved = {} /\ awaited = {}
  BY DEF Init
<1>2. IInv
  <2>1. CmInit
    BY <1>1 DEF CmInit
  <2> QED
    BY <2>1, InitInv
<1>3. PiecesInv(mChunks, ref_cnt, slices, awaited)
  BY <1>1, NoPieces DEF Load
<1>4. CreatorTypes
  BY <1>1, W64Facts, CreatorAssumption DEF CreatorTypes
<1> QED
  BY <1>2, <1>3, <1>4 DEF CreatorInv

\* Every step of every thread keeps the invariant.
LEMMA CreatorNext ==
  ASSUME UserForceCheck = FALSE, CreatorInv, [Next]_vars
  PROVE  CreatorInv'
<1>1. CASE \E p \in Peers : \E m \in mChunks : ReaskPiece(p, m)
  BY <1>1, ReaskStep
<1>2. CASE \E p \in Peers, hint \in Hints, off \in Bytes, r \in Refs :
             RequestSlice(p, hint, off, r)
  BY <1>2, RequestStep
<1>3. CASE \E packet \in Packet, quality \in Qualities : Receive(packet, quality)
  BY <1>3, ReceiveStep
<1>4. CASE \E packet \in Packet : Lose(packet)
  BY <1>4, LoseStep
<1>5. CASE \E S \in (SUBSET tracked) \ {{}} : RemoveInactive(S)
  BY <1>5, RemoveStep
<1>6. CASE \E c \in Chunks : \E sum \in Sums(c) : verifyChunk(c, sum)
  BY <1>6, VerifyStep
<1>7. CASE ForceCheck
  BY <1>7, ForceStep
<1>8. CASE \/ TakeChunksToCheck
           \/ \E p \in Peers, m \in PeerMaps : setSourceMap(p, m)
           \/ \E p \in Peers : RemoveSource(p)
           \/ \E s \in Strategies : setChunkStrategy(s)
           \/ UNCHANGED vars
  BY <1>8, QuietStep
<1>9. CASE SaveMap
  BY <1>9, SaveStep
<1>10. CASE Restart
  BY <1>10, RestartStep
<1> QED
  BY <1>1, <1>2, <1>3, <1>4, <1>5, <1>6, <1>7, <1>8, <1>9, <1>10 DEF Next

\* The books of the chunk map and of the pieces agree, whatever arrives or is lost.
THEOREM CreatorInvariance ==
  ASSUME UserForceCheck = FALSE
  PROVE  Spec => []CreatorInv
<1>1. CreatorInv /\ [Next]_vars => CreatorInv'
  BY CreatorNext
<1> QED
  BY CreatorInit, <1>1, PTL DEF Spec

\* What the properties say follows from the invariant.
LEMMA CreatorInvFacts ==
  CreatorInv => CreatorTypeOK /\ PiecesDisjoint /\ RefCountEnough
<1> SUFFICES ASSUME CreatorInv PROVE CreatorTypeOK /\ PiecesDisjoint /\ RefCountEnough
  OBVIOUS
<1>1. IInv /\ PiecesInv(mChunks, ref_cnt, slices, awaited) /\ CreatorTypes
  BY DEF CreatorInv
<1>2. CreatorTypeOK
  <2>1. TypeOK /\ mChunks \subseteq Piece /\ ref_cnt \in [Refs -> Nat] /\ awaited \subseteq Bytes
    BY <1>1 DEF IInv, PiecesInv
  <2>2. disk \in [Bytes -> {"hole", "good", "bad"}]
    BY <1>1 DEF CreatorTypes, Qualities
  <2> QED
    BY <1>1, <2>1, <2>2 DEF CreatorTypeOK, CreatorTypes
<1>3. PiecesDisjoint
  <2>1. \A m \in mChunks : PendingIn(m, slices) <=> Pending(m)
    BY DEF PendingIn, Pending
  <2> QED
    BY <1>1, <2>1 DEF PiecesInv, PiecesDisjoint, Apart
<1>4. RefCountEnough
  BY <1>1 DEF PiecesInv, RefCountEnough, WithRef
<1> QED
  BY <1>2, <1>3, <1>4

\* The members of the creator keep their types.
THEOREM CreatorTypeCorrect ==
  ASSUME UserForceCheck = FALSE
  PROVE  Spec => []CreatorTypeOK
<1>1. CreatorInv => CreatorTypeOK
  BY CreatorInvFacts
<1> QED
  BY CreatorInvariance, <1>1, PTL

\* locked_notifyReceived splits and shortens pieces without ever making two claim
\* the same bytes, and leaves no piece of a slice the chunk map does not wait for,
\* whatever packets arrive: late, repeated, never asked for, longer than the piece.
THEOREM PiecesStayDisjoint ==
  ASSUME UserForceCheck = FALSE
  PROVE  Spec => []PiecesDisjoint
<1>1. CreatorInv => PiecesDisjoint
  BY CreatorInvFacts
<1> QED
  BY CreatorInvariance, <1>1, PTL

\* The counter shared by the pieces of a slice is never below their number, so
\* that the slice is not reported, nor the counter deleted, while one is left.
THEOREM CountersEnough ==
  ASSUME UserForceCheck = FALSE
  PROVE  Spec => []RefCountEnough
<1>1. CreatorInv => RefCountEnough
  BY CreatorInvFacts
<1> QED
  BY CreatorInvariance, <1>1, PTL


-----------------------------------------------------------------------------
(* The creator implements FtDownload. *)

\* A slice lies in an active chunk, behind no feed.
LEMMA SliceIsActive ==
  ASSUME IInv, NEW b \in Bytes, InSlice(b)
  PROVE  map[ChunkOf(b)] = "ACTIVE" /\ ~ InFeed(b)
<1>1. PICK o \in Bytes : slices[o] > 0 /\ o <= b /\ b < o + slices[o]
  BY DEF InSlice
<1>2. TypeOK /\ SlicesDisjoint /\ ActiveIsTracked
  BY DEF IInv
<1>3. ChunkOf(b) = ChunkOf(o)
  <2>1. b \in Int
    BY SizesAssumption DEF Bytes
  <2> QED
    BY <1>1, <1>2, <2>1, SliceInChunk
<1>4. ChunkOf(o) \in tracked
  BY <1>1, <1>2 DEF SlicesDisjoint
<1>5. map[ChunkOf(b)] = "ACTIVE"
  BY <1>2, <1>3, <1>4 DEF ActiveIsTracked
<1>6. ~ InFeed(b)
  <2> SUFFICES ASSUME NEW p \in Peers, feed[p] # None, ChunkOf(feed[p]) = ChunkOf(b), feed[p] <= b
               PROVE  FALSE
    BY DEF InFeed
  <2>1. o + slices[o] <= feed[p]
    BY <1>1, <1>2, <1>3 DEF SlicesDisjoint
  <2>2. feed[p] \in Int /\ b \in Int /\ o \in Int /\ slices[o] \in Int
    BY <1>2, SizesAssumption DEF TypeOK, Bytes
  <2> QED
    BY <1>1, <2>1, <2>2
<1> QED
  BY <1>5, <1>6

\* How far a byte is that belongs to no slice.
Outside(b) ==
  IF map[ChunkOf(b)] = "DONE" THEN "verified" ELSE IF NotAsked(b) THEN "missing" ELSE "received"

\* How far a byte is, in terms of the chunk map and what is awaited.
LifeKnown ==
  \A b \in Bytes :
    /\ LifeOf(b) \in Download!Life
    /\ InSlice(b) => map[ChunkOf(b)] = "ACTIVE" /\ ~ InFeed(b)
    /\ InSlice(b) => LifeOf(b) = IF b \in awaited THEN "requested" ELSE "arrived"
    /\ ~ InSlice(b) => LifeOf(b) = Outside(b)
    /\ LifeOf(b) = "missing" <=> NotAsked(b)
    /\ LifeOf(b) = "requested" <=> InSlice(b) /\ b \in awaited
    /\ LifeOf(b) = "arrived" <=> InSlice(b) /\ b \notin awaited
    /\ LifeOf(b) = "verified" <=> map[ChunkOf(b)] = "DONE"

LEMMA LifeAlways == IInv => LifeKnown
<1> SUFFICES ASSUME IInv, NEW b \in Bytes
             PROVE  /\ LifeOf(b) \in Download!Life
                    /\ InSlice(b) => map[ChunkOf(b)] = "ACTIVE" /\ ~ InFeed(b)
                    /\ InSlice(b) => LifeOf(b) = IF b \in awaited THEN "requested" ELSE "arrived"
                    /\ ~ InSlice(b) => LifeOf(b) = Outside(b)
                    /\ LifeOf(b) = "missing" <=> NotAsked(b)
                    /\ LifeOf(b) = "requested" <=> InSlice(b) /\ b \in awaited
                    /\ LifeOf(b) = "arrived" <=> InSlice(b) /\ b \notin awaited
                    /\ LifeOf(b) = "verified" <=> map[ChunkOf(b)] = "DONE"
  BY DEF LifeKnown
<1>1. map[ChunkOf(b)] \in {"OUTSTANDING", "ACTIVE", "CHECKING", "DONE"}
  BY ChunkOfFacts DEF IInv, TypeOK, States
<1>2. InSlice(b) => map[ChunkOf(b)] = "ACTIVE" /\ ~ InFeed(b)
  BY SliceIsActive
<1> QED
  BY <1>1, <1>2 DEF LifeOf, NotAsked, Outside, Download!Life

LEMMA LifeNext == IInv' => LifeKnown'
  BY LifeAlways, PTL

\* Two ways to say that bytes are, or become, as far as that.
LEMMA AreAll ==
  ASSUME NEW S \in SUBSET Bytes, NEW s, \A b \in S : LifeOf(b) = s
  PROVE  Download!Are(S, s)
  BY DEF Download!Are

LEMMA BecomeAll ==
  ASSUME NEW S, NEW s, \A b \in Bytes : LifeOf(b)' = IF b \in S THEN s ELSE LifeOf(b)
  PROVE  Download!Become(S, s)
  BY DEF Download!Become

\* The chunks are sets of bytes.
LEMMA PartFacts ==
  ASSUME NEW c \in Chunks
  PROVE  /\ BytesOf(c) \in {BytesOf(d) : d \in Chunks}
         /\ BytesOf(c) \in SUBSET Bytes
         /\ \E b \in BytesOf(c) : b \in Bytes
<1>1. StartOf(c) \in BytesOf(c)
  BY ChunkFacts, SizesAssumption DEF BytesOf, Bytes
<1> QED
  BY <1>1, BytesOfFacts

\* At the start nothing was asked for.
LEMMA RefinesInit == Init => Download!DlInit
<1> SUFFICES ASSUME Init PROVE Download!DlInit
  OBVIOUS
<1>1. map = [c \in Chunks |-> "OUTSTANDING"] /\ disk = [b \in Bytes |-> "hole"] /\ saved = {}
  BY DEF Init, Load, LoadedMap
<1>2. IInv
  BY CreatorInit DEF CreatorInv
<1>3. \A b \in Bytes : LifeOf(b) = "missing"
  BY <1>1, <1>2, LifeAlways, ChunkOfFacts DEF LifeKnown, NotAsked
<1> QED
  BY <1>1, <1>3 DEF Download!DlInit

\* Steps that change neither the chunk map's records nor what is awaited or on disk
\* change nothing the download is about.
LEMMA LifeUnchanged ==
  ASSUME UNCHANGED <<map, feed, slices, awaited, disk, saved>>
  PROVE  UNCHANGED Download!dlVars
<1>1. \A b \in Bytes : LifeOf(b)' = LifeOf(b)
  BY DEF LifeOf, InFeed, InSlice
<1> QED
  BY <1>1 DEF Download!dlVars

LEMMA RefinesQuiet ==
  ASSUME CreatorInv,
         \/ \E p \in Peers : \E m \in mChunks : ReaskPiece(p, m)
         \/ \E packet \in Packet : Lose(packet)
         \/ TakeChunksToCheck
         \/ \E p \in Peers, m \in PeerMaps : setSourceMap(p, m)
         \/ \E p \in Peers : RemoveSource(p)
         \/ \E s \in Strategies : setChunkStrategy(s)
         \/ UNCHANGED vars
  PROVE  UNCHANGED Download!dlVars
<1>1. UNCHANGED <<map, feed, slices, awaited, disk, saved>>
  <2>1. CASE \E p \in Peers : \E m \in mChunks : ReaskPiece(p, m)
    BY <2>1 DEF ReaskPiece, cmVars
  <2>2. CASE \E packet \in Packet : Lose(packet)
    BY <2>2 DEF Lose, cmVars
  <2>3. CASE \/ TakeChunksToCheck
             \/ \E p \in Peers, m \in PeerMaps : setSourceMap(p, m)
             \/ \E p \in Peers : RemoveSource(p)
             \/ \E s \in Strategies : setChunkStrategy(s)
             \/ UNCHANGED vars
    BY <2>3, QuietStep DEF creatorVars
  <2> QED
    BY <2>1, <2>2, <2>3
<1> QED
  BY <1>1, LifeUnchanged

\* A request for a slice is a request for its bytes.
LEMMA RefinesRequest ==
  ASSUME CreatorInv, NEW p \in Peers, NEW hint \in Hints, NEW off \in Bytes, NEW r \in Refs,
         RequestSlice(p, hint, off, r)
  PROVE  Download!Request
<1> DEFINE n == SliceSize(off, hint)
           c == ChunkOf(off)
           last == off + n - 1
           S == off .. last
<1>1. disk' = disk /\ saved' = saved /\ awaited' = awaited \cup S
  BY DEF RequestSlice
<1>2. /\ IInv /\ IInv' /\ LifeKnown /\ LifeKnown' /\ Carved(off, n)
      /\ PiecesInv(mChunks, ref_cnt, slices, awaited)
  BY RequestStep, LifeAlways, LifeNext DEF CreatorInv
<1>3. n \in Nat /\ n > 0 /\ off \in Nat
  BY SliceSizeFacts, SizesAssumption DEF Bytes
<1>4. \A b \in Bytes : b \in S <=> off <= b /\ b < off + n
  <2>1. \A b \in Bytes : b \in Nat
    BY SizesAssumption DEF Bytes
  <2> HIDE DEF n
  <2> QED
    BY <1>3, <2>1
<1>5. last \in Bytes
  <2>1. off + n <= FileSize /\ FileSize \in Nat
    BY SliceSizeFacts, ChunkOfFacts, ChunkFacts, SizesAssumption DEF Bytes
  <2> HIDE DEF n
  <2> QED
    BY <1>3, <2>1 DEF Bytes
<1>6. /\ \A b \in Bytes : InSlice(b)' <=> InSlice(b) \/ b \in S
  <2>1. /\ \A o \in Bytes : slices'[o] = IF o = off THEN n ELSE slices[o]
        /\ slices[off] = 0
    BY <1>2 DEF Carved, IInv, TypeOK
  <2> HIDE DEF n
  <2>2. ASSUME NEW b \in Bytes PROVE InSlice(b)' <=> InSlice(b) \/ (off <= b /\ b < off + n)
    BY <1>3, <2>1 DEF InSlice
  <2> HIDE DEF S
  <2> QED
    BY <1>4, <2>2
<1>7. /\ \A b \in Bytes : b \in S => ChunkOf(b) = c /\ NotAsked(b)
      /\ \A b \in Bytes : NotAsked(b)' <=> NotAsked(b) /\ b \notin S
      /\ \A d \in Bytes : map'[ChunkOf(d)] = "DONE" <=> map[ChunkOf(d)] = "DONE"
  <2>1. \A d \in Bytes : ChunkOf(d) \in Chunks
    BY ChunkOfFacts
  <2>2. /\ \A b \in Bytes : off <= b /\ b < off + n => ChunkOf(b) = c /\ NotAsked(b)
        /\ \A b \in Bytes : NotAsked(b)' <=> NotAsked(b) /\ ~ (off <= b /\ b < off + n)
    BY <1>2 DEF Carved
  <2>3. \A d \in Bytes : map'[ChunkOf(d)] = "DONE" <=> map[ChunkOf(d)] = "DONE"
    BY <1>2, <2>1 DEF Carved, IInv, TypeOK
  <2> HIDE DEF S, c, n
  <2> QED
    BY <1>4, <2>2, <2>3
<1>8. S \in SUBSET Bytes /\ c \in Chunks
  <2>1. FileSize \in Nat
    BY SizesAssumption
  <2> HIDE DEF last
  <2> QED
    BY <1>3, <1>5, <2>1, ChunkOfFacts DEF Bytes
<1>9. off \in BytesOf(c) /\ last \in BytesOf(c)
  <2>1. off \in S /\ last \in S
    <3> HIDE DEF n
    <3> QED
      BY <1>3
  <2> HIDE DEF S, last, c
  <2> QED
    BY <1>5, <1>7, <1>8, <2>1, BytesOfFacts
<1> HIDE DEF c, n
<1>10. Download!Are(S, "missing")
  <2> HIDE DEF S
  <2>1. \A b \in S : LifeOf(b) = "missing"
    BY <1>2, <1>7, <1>8 DEF LifeKnown
  <2> QED
    BY <1>8, <2>1, AreAll
<1>11. Download!Become(S, "requested")
  <2> HIDE DEF S
  <2>1. ASSUME NEW b \in Bytes
        PROVE  LifeOf(b)' = IF b \in S THEN "requested" ELSE LifeOf(b)
    BY <1>1, <1>2, <1>6, <1>7 DEF LifeKnown, Download!Life
  <2> QED
    BY <2>1, BecomeAll
<1>12. BytesOf(c) \in {BytesOf(d) : d \in Chunks}
  BY <1>8
<1>13. /\ Download!Are(off .. last, "missing")
       /\ Download!Become(off .. last, "requested")
  BY <1>10, <1>11
<1> HIDE DEF last, S
<1> QED
  BY <1>1, <1>9, <1>12, <1>13 DEF Download!Request

\* A file that is not checked by chunks is one chunk.
LEMMA OneChunk ==
  ASSUME NEW c \in Chunks, SkipsChecking(c)
  PROVE  {BytesOf(d) : d \in Chunks} = {Bytes} /\ \A b \in Bytes : ChunkOf(b) = c
<1>1. FileSize \in Nat \ {0} /\ ChunkSize \in Nat \ {0} /\ FileSize <= ChunkSize /\ c = 0
  BY SizesAssumption DEF SkipsChecking
<1>2. ASSUME NEW d \in Chunks PROVE d = 0
  <2>1. d \in Nat /\ d * ChunkSize \in Bytes
    BY ChunkFacts, NumChunksFacts DEF StartOf, Chunks
  <2>2. d * ChunkSize < ChunkSize
    BY <1>1, <2>1 DEF Bytes
  <2>3. d > 0 => 0 * ChunkSize + ChunkSize <= d * ChunkSize
    BY <1>1, <2>1, Multiples
  <2> QED
    BY <1>1, <2>1, <2>2, <2>3 DEF Bytes
<1>3. \A b \in Bytes : ChunkOf(b) = c
  BY <1>1, <1>2, ChunkOfFacts
<1>4. BytesOf(c) = Bytes
  BY <1>3, BytesOfFacts
<1> QED
  BY <1>1, <1>2, <1>3, <1>4

\* What leaves a slice when data arrives is not awaited any more.
LEMMA DeliveredBytes ==
  ASSUME IInv, Delivered, NEW b \in Bytes
  PROVE  /\ InSlice(b)' => InSlice(b)
         /\ InSlice(b) => InSlice(b)' \/ b \notin awaited'
         /\ InFeed(b)' <=> InFeed(b)
<1>1. InFeed(b)' <=> InFeed(b)
  BY DEF Delivered, InFeed
<1>2. CASE slices' = slices
  BY <1>1, <1>2 DEF InSlice
<1>3. ASSUME NEW id \in Bytes, SliceDone(id)
      PROVE  /\ InSlice(b)' => InSlice(b)
             /\ InSlice(b) => InSlice(b)' \/ b \notin awaited'
  <2>1. /\ \A o \in Bytes : slices'[o] = IF o = id THEN 0 ELSE slices[o]
        /\ b \in awaited' => ~ (id <= b /\ b < id + slices[id])
    BY <1>3 DEF SliceDone, IInv, TypeOK
  <2>2. InSlice(b)' => InSlice(b)
    <3>1. 0 \in Nat /\ ~ (0 > 0)
      OBVIOUS
    <3> QED
      BY <2>1, <3>1 DEF InSlice
  <2> QED
    BY <2>1, <2>2 DEF InSlice
<1> QED
  BY <1>1, <1>2, <1>3 DEF Delivered

\* Data that arrives is delivered; in a file of one chunk, its end verifies it.
LEMMA RefinesReceive ==
  ASSUME CreatorInv, NEW packet \in Packet, NEW q \in Qualities, Receive(packet, q)
  PROVE  Download!Deliver \/ Download!DeliverAll
<1> DEFINE k == Clipped(packet)
           first == k.offset
           last == k.offset + k.size - 1
           S == first .. last
           T == Download!There(S)
<1>1. /\ disk' = [b \in Bytes |-> IF b \in S THEN q ELSE disk[b]]
      /\ awaited' = awaited \ S /\ saved' = saved
  <2>1. Write(k, q) /\ saved' = saved
    BY DEF Receive, addFileData
  <2>2. InPacket(k) = S
    BY DEF InPacket
  <2> HIDE DEF k, S
  <2> QED
    BY <2>1, <2>2 DEF Write
<1>2. IInv /\ IInv' /\ LifeKnown /\ LifeKnown' /\ Delivered
  BY ReceiveStep, LifeAlways, LifeNext DEF CreatorInv
<1>3. first \in Bytes /\ last \in Bytes
  <2>1. ClippedPacket(k)
    BY ClippedFacts
  <2> HIDE DEF k
  <2> QED
    BY <2>1, SizesAssumption DEF ClippedPacket, Bytes
<1>4. Download!Written(S, q)
  BY <1>1 DEF Download!Written
<1> HIDE DEF S, first, last
<1>5. \A b \in Bytes : b \in T <=> LifeOf(b) = "arrived" \/ (b \in S /\ LifeOf(b) = "requested")
  BY DEF Download!There
<1>6. \A b \in Bytes : /\ InSlice(b)' => InSlice(b)
                       /\ InSlice(b) => InSlice(b)' \/ b \notin awaited'
                       /\ InFeed(b)' <=> InFeed(b)
                       /\ LifeOf(b)' \in Download!Life
  BY <1>2, DeliveredBytes DEF LifeKnown
<1> HIDE DEF T
<1>7. \A b \in Bytes : InSlice(b) => (b \in T <=> b \notin awaited')
  BY <1>1, <1>2, <1>5 DEF LifeKnown
<1>8. \A b \in Bytes : b \in T => InSlice(b)
  BY <1>2, <1>5 DEF LifeKnown
<1>9. ASSUME \A b \in Bytes : /\ b \in T => LifeOf(b)' \in {"arrived", "received"}
                              /\ b \notin T => LifeOf(b)' = LifeOf(b)
      PROVE  Download!Deliver
  <2>1. [b \in Bytes |-> LifeOf(b)'] \in [Bytes -> Download!Life]
    BY <1>6
  <2>2. /\ \A b \in T : b \in Bytes
        /\ T = Download!There(first .. last) /\ Download!Written(first .. last, q)
    BY <1>4 DEF T, S, Download!There
  <2>3. saved' = saved
    BY <1>1
  <2>4. /\ \A b \in T : [x \in Bytes |-> LifeOf(x)'][b] \in {"arrived", "received"}
        /\ \A b \in Bytes \ T : [x \in Bytes |-> LifeOf(x)'][b] = [x \in Bytes |-> LifeOf(x)][b]
    BY <1>9, <2>2
  <2> QED
    BY <1>3, <2>1, <2>2, <2>3, <2>4 DEF Download!Deliver
<1>10. ASSUME NEW b \in Bytes, map'[ChunkOf(b)] = map[ChunkOf(b)]
       PROVE  /\ b \in T => LifeOf(b)' \in {"arrived", "received"}
              /\ b \notin T => LifeOf(b)' = LifeOf(b)
  <2>1. (NotAsked(b)' <=> NotAsked(b)) /\ Outside(b)' = Outside(b)
    BY <1>6, <1>10 DEF NotAsked, Outside
  <2>2. /\ InSlice(b) => map[ChunkOf(b)] = "ACTIVE" /\ ~ InFeed(b)
        /\ InSlice(b) => LifeOf(b) = IF b \in awaited THEN "requested" ELSE "arrived"
        /\ ~ InSlice(b) => LifeOf(b) = Outside(b)
        /\ InSlice(b)' => LifeOf(b)' = IF b \in awaited' THEN "requested" ELSE "arrived"
        /\ ~ InSlice(b)' => LifeOf(b)' = Outside(b)'
    BY <1>2 DEF LifeKnown
  <2>3. CASE b \in T
    <3>1. InSlice(b) /\ b \notin awaited'
      BY <1>7, <1>8, <2>3
    <3>2. Outside(b) = "received"
      BY <2>2, <3>1 DEF Outside, NotAsked
    <3> QED
      BY <2>1, <2>2, <2>3, <3>1, <3>2
  <2>4. CASE b \notin T
    <3>1. CASE InSlice(b)
      <4>1. b \in awaited' /\ b \in awaited /\ InSlice(b)'
        BY <1>1, <1>6, <1>7, <2>4, <3>1
      <4> QED
        BY <2>2, <2>4, <3>1, <4>1
    <3>2. CASE ~ InSlice(b)
      BY <1>6, <2>1, <2>2, <2>4, <3>2
    <3> QED
      BY <3>1, <3>2
  <2> QED
    BY <2>3, <2>4
<1>11. ASSUME NEW c \in Chunks, map[c] = "ACTIVE", Finished(c)
       PROVE  /\ \A b \in Bytes : ChunkOf(b) = c => /\ ~ InSlice(b)' /\ ~ InFeed(b)
                                                    /\ LifeOf(b) = "received" \/ b \in T
              /\ map'[c] = IF SkipsChecking(c) THEN "DONE" ELSE "CHECKING"
              /\ \A d \in Chunks : d # c => map'[d] = map[d]
  <2>1. /\ map'[c] = IF SkipsChecking(c) THEN "DONE" ELSE "CHECKING"
        /\ \A d \in Chunks : d # c => map'[d] = map[d]
    BY <1>2, <1>11 DEF Finished, IInv, TypeOK
  <2>2. ASSUME NEW b \in Bytes, ChunkOf(b) = c
        PROVE  /\ ~ InSlice(b)' /\ ~ InFeed(b)
               /\ LifeOf(b) = "received" \/ b \in T
    <3>1. ~ InFeed(b)
      <4>1. b \in BytesOf(c)
        BY <2>2, BytesOfFacts
      <4> QED
        BY <1>11, <4>1 DEF Finished
    <3>2. ~ InSlice(b)'
      <4> SUFFICES ASSUME InSlice(b)' PROVE FALSE
        OBVIOUS
      <4>1. map'[ChunkOf(b)] = "ACTIVE"
        BY <1>2 DEF LifeKnown
      <4> QED
        BY <2>1, <2>2, <4>1
    <3>3. CASE InSlice(b)
      <4>1. b \in T
        BY <1>6, <1>7, <3>2, <3>3
      <4> QED
        BY <3>1, <3>2, <4>1
    <3>4. CASE ~ InSlice(b)
      <4>1. LifeOf(b) = Outside(b)
        BY <1>2, <3>4 DEF LifeKnown
      <4>2. Outside(b) = "received"
        BY <1>11, <2>2, <3>1 DEF Outside, NotAsked
      <4> QED
        BY <3>1, <3>2, <4>1, <4>2
    <3> QED
      BY <3>1, <3>2, <3>3, <3>4
  <2> QED
    BY <2>1, <2>2
<1>12. ASSUME NEW c \in Chunks, map[c] = "ACTIVE", Finished(c), ~ SkipsChecking(c)
       PROVE  Download!Deliver
  <2>1. ASSUME NEW b \in Bytes
        PROVE  /\ b \in T => LifeOf(b)' \in {"arrived", "received"}
               /\ b \notin T => LifeOf(b)' = LifeOf(b)
    <3>1. CASE ChunkOf(b) = c
      <4>1. map'[ChunkOf(b)] = "CHECKING" /\ ~ InSlice(b)'
        BY <1>11, <1>12, <3>1
      <4>2. LifeOf(b)' = Outside(b)'
        BY <1>2, <4>1 DEF LifeKnown
      <4>3. LifeOf(b)' = "received"
        BY <4>1, <4>2 DEF Outside, NotAsked
      <4> QED
        BY <1>11, <1>12, <3>1, <4>3
    <3>2. CASE ChunkOf(b) # c
      <4>1. map'[ChunkOf(b)] = map[ChunkOf(b)]
        BY <1>11, <1>12, <3>2, ChunkOfFacts
      <4> QED
        BY <1>10, <4>1
    <3> QED
      BY <3>1, <3>2
  <2> QED
    BY <1>9, <2>1
<1>13. ASSUME NEW c \in Chunks, map[c] = "ACTIVE", Finished(c), SkipsChecking(c)
       PROVE  Download!DeliverAll
  <2>1. {BytesOf(d) : d \in Chunks} = {Bytes} /\ \A b \in Bytes : ChunkOf(b) = c
    BY <1>13, OneChunk
  <2>2. \A b \in Bytes : LifeOf(b)' = "verified"
    BY <1>2, <1>11, <1>13, <2>1 DEF LifeKnown
  <2>3. Download!Become(Bytes, "verified")
    BY <2>2, BecomeAll
  <2>4. \A b \in Bytes : LifeOf(b) = "received" \/ b \in T
    BY <1>11, <1>13, <2>1
  <2>5. /\ \A b \in Bytes : [x \in Bytes |-> LifeOf(x)][b] = "received" \/ b \in T
        /\ T = Download!There(first .. last) /\ Download!Written(first .. last, q)
    BY <1>4, <2>4 DEF T, S
  <2> QED
    BY <1>1, <1>3, <2>1, <2>3, <2>5 DEF Download!DeliverAll
<1>14. CASE map' = map
  BY <1>9, <1>10, <1>14
<1>15. map' = map \/ \E c \in Chunks : map[c] = "ACTIVE" /\ Finished(c)
  BY <1>2, ChunkOfFacts DEF Delivered, SliceDone
<1> QED
  BY <1>12, <1>13, <1>14, <1>15

\* A chunk that is checked is verified or missing as a whole.
LEMMA RefinesVerify ==
  ASSUME CreatorInv, NEW c \in Chunks, NEW sum, verifyChunk(c, sum)
  PROVE  Download!Check \/ UNCHANGED Download!dlVars
<1>1. /\ CreatorInv' /\ UNCHANGED <<feed, slices, awaited, disk, saved>>
      /\ \/ map' = map
         \/ /\ map[c] = "CHECKING"
            /\ map' = [map EXCEPT ![c] = "DONE"] \/ map' = [map EXCEPT ![c] = "OUTSTANDING"]
  BY VerifyStep DEF creatorVars
<1>2. IInv /\ LifeKnown /\ IInv' /\ LifeKnown'
  BY <1>1, LifeAlways, LifeNext DEF CreatorInv
<1>3. CASE map' = map
  BY <1>1, <1>3, LifeUnchanged
<1>4. ASSUME map[c] = "CHECKING",
             NEW st \in {"DONE", "OUTSTANDING"}, map' = [map EXCEPT ![c] = st]
      PROVE  Download!Check
  <2> DEFINE s == IF st = "DONE" THEN "verified" ELSE "missing"
  <2>1. /\ \A b \in Bytes : b \in BytesOf(c) <=> ChunkOf(b) = c
        /\ \A b \in Bytes : ChunkOf(b) \in Chunks
        /\ BytesOf(c) \in SUBSET Bytes /\ BytesOf(c) \in {BytesOf(e) : e \in Chunks}
    BY BytesOfFacts, ChunkOfFacts, PartFacts
  <2>2. \A e \in Chunks : map'[e] = IF e = c THEN st ELSE map[e]
    BY <1>2, <1>4 DEF IInv, TypeOK
  <2>3. \A b \in Bytes : (InFeed(b)' <=> InFeed(b)) /\ (InSlice(b)' <=> InSlice(b))
    BY <1>1 DEF InFeed, InSlice
  <2>4. Download!Are(BytesOf(c), "received")
    <3>1. ASSUME NEW b \in BytesOf(c) PROVE LifeOf(b) = "received"
      BY <1>4, <2>1 DEF LifeOf
    <3> QED
      BY <2>1, <3>1, AreAll
  <2>5. Download!Become(BytesOf(c), s)
    <3>1. ASSUME NEW b \in Bytes
          PROVE  LifeOf(b)' = IF b \in BytesOf(c) THEN s ELSE LifeOf(b)
      <4>1. map'[ChunkOf(b)] = IF b \in BytesOf(c) THEN st ELSE map[ChunkOf(b)]
        BY <2>1, <2>2
      <4>2. CASE b \in BytesOf(c)
        <5>1. ~ InSlice(b)' /\ LifeOf(b)' = Outside(b)'
          BY <1>2, <1>4, <4>1, <4>2 DEF LifeKnown
        <5> QED
          BY <1>4, <4>1, <4>2, <5>1 DEF Outside, NotAsked
      <4>3. CASE b \notin BytesOf(c)
        BY <1>1, <2>3, <4>1, <4>3 DEF LifeOf
      <4> QED
        BY <4>2, <4>3
    <3> HIDE DEF s
    <3> QED
      BY <3>1, BecomeAll
  <2>6. s \in {"verified", "missing"}
    OBVIOUS
  <2> HIDE DEF s
  <2> QED
    BY <1>1, <2>1, <2>4, <2>5, <2>6 DEF Download!Check
<1> QED
  BY <1>1, <1>3, <1>4

\* A forced check of a complete file starts over with every chunk received.
LEMMA RefinesForce ==
  ASSUME CreatorInv, UserForceCheck = FALSE, ForceCheck
  PROVE  Download!Recheck
<1>1. \A c \in Chunks : map[c] = "DONE" /\ map'[c] = "CHECKING"
  BY ForceStep
<1>2. disk' = disk /\ saved' = saved
  BY DEF ForceCheck, creatorVars
<1>3. \A b \in Bytes : LifeOf(b) = "verified" /\ LifeOf(b)' = "received"
  BY <1>1, ChunkOfFacts DEF LifeOf
<1>4. Download!Are(Bytes, "verified") /\ Download!Become(Bytes, "received")
  BY <1>3, AreAll, BecomeAll
<1> QED
  BY <1>2, <1>4 DEF Download!Recheck

\* The map that is saved names the chunks that are verified.
LEMMA RefinesSave ==
  ASSUME CreatorInv, SaveMap
  PROVE  Download!Save
<1>1. /\ UNCHANGED <<map, feed, slices, awaited, disk>>
      /\ saved' = {c \in Chunks : map[c] = "DONE"}
  BY DEF SaveMap, cmVars
<1>2. LifeKnown
  BY LifeAlways DEF CreatorInv
<1>3. \A b \in Bytes : LifeOf(b)' = LifeOf(b)
  BY <1>1 DEF LifeOf, InFeed, InSlice
<1>4. ASSUME NEW c \in Chunks
      PROVE  Download!Are(BytesOf(c), "verified") <=> map[c] = "DONE"
  <2>1. /\ \A b \in BytesOf(c) : b \in Bytes /\ ChunkOf(b) = c
        /\ \E b \in BytesOf(c) : b \in Bytes
    BY BytesOfFacts, PartFacts
  <2>2. \A b \in BytesOf(c) : LifeOf(b) = "verified" <=> map[c] = "DONE"
    BY <1>2, <2>1 DEF LifeKnown
  <2> QED
    BY <2>1, <2>2 DEF Download!Are
<1>5. {BytesOf(c) : c \in saved'}
        = {P \in {BytesOf(c) : c \in Chunks} : Download!Are(P, "verified")}
  BY <1>1, <1>4
<1> QED
  BY <1>1, <1>3, <1>5 DEF Download!Save

\* A new session knows what was saved as verified, and asks for the rest.
LEMMA RefinesRestart ==
  ASSUME CreatorInv, Restart
  PROVE  Download!Resume
<1>1. /\ map' = [c \in Chunks |-> IF c \in saved THEN "DONE" ELSE "OUTSTANDING"]
      /\ disk' = disk /\ saved' = saved /\ saved \subseteq Chunks
  BY DEF Restart, Reload, LoadedMap, CreatorInv, CreatorTypes
<1>2. LifeKnown'
  BY RestartStep, LifeNext DEF CreatorInv
<1>3. ASSUME NEW b \in Bytes
      PROVE  LifeOf(b)' = IF b \in UNION {BytesOf(c) : c \in saved} THEN "verified" ELSE "missing"
  <2>1. b \in UNION {BytesOf(c) : c \in saved} <=> ChunkOf(b) \in saved
    BY <1>1, BytesOfFacts
  <2>2. ChunkOf(b) \in Chunks
    BY ChunkOfFacts
  <2>3. /\ NotAsked(b)' => LifeOf(b)' = "missing"
        /\ map'[ChunkOf(b)] = "DONE" => LifeOf(b)' = "verified"
    BY <1>2 DEF LifeKnown
  <2> QED
    BY <1>1, <2>1, <2>2, <2>3 DEF NotAsked
<1> QED
  BY <1>1, <1>3 DEF Download!Resume

\* Chunks that are cleaned up are given up, and each still waits for some byte.
LEMMA RefinesRemove ==
  ASSUME CreatorInv, NEW S \in (SUBSET tracked) \ {{}}, RemoveInactive(S)
  PROVE  Download!GiveUp
<1> DEFINE Q == {BytesOf(c) : c \in S}
<1>1. /\ S \subseteq Chunks
      /\ \A o \in Bytes : slices'[o] = IF ChunkOf(o) \in S THEN 0 ELSE slices[o]
      /\ \A c \in Chunks : map'[c] = IF c \in S THEN "OUTSTANDING" ELSE map[c]
      /\ \A b \in Bytes : ChunkOf(b) \notin S => (InFeed(b)' <=> InFeed(b))
      /\ awaited' = {b \in awaited : ChunkOf(b) \notin S}
      /\ disk' = disk /\ saved' = saved
  BY RemoveStep
<1>2. IInv /\ IInv' /\ LifeKnown /\ LifeKnown'
  BY RemoveStep, LifeAlways, LifeNext DEF CreatorInv
<1>3. ASSUME NEW b \in Bytes PROVE b \in UNION Q <=> ChunkOf(b) \in S
  BY <1>1, BytesOfFacts
<1>4. ASSUME NEW c \in S
      PROVE  \E b \in BytesOf(c) : b \in Bytes /\ LifeOf(b) \in {"missing", "requested", "arrived"}
  <2>1. c \in Chunks /\ c \in tracked /\ map[c] = "ACTIVE" /\ Missing(c) # {}
    BY <1>1, <1>2 DEF IInv, ActiveIsTracked
  <2>2. PICK b \in BytesOf(c) : InSlice(b) \/ InFeed(b)
    BY <2>1 DEF Missing
  <2>3. b \in Bytes /\ ChunkOf(b) = c
    BY <2>1, BytesOfFacts
  <2>4. CASE InSlice(b)
    BY <1>2, <2>2, <2>3, <2>4 DEF LifeKnown
  <2>5. CASE ~ InSlice(b) /\ InFeed(b)
    <3>1. NotAsked(b)
      BY <2>1, <2>3, <2>5 DEF NotAsked
    <3> QED
      BY <1>2, <2>2, <2>3, <3>1 DEF LifeKnown
  <2> QED
    BY <2>2, <2>4, <2>5
<1>5. ASSUME NEW P \in Q
      PROVE  \E b \in P : [x \in Bytes |-> LifeOf(x)][b] \in {"missing", "requested", "arrived"}
  <2>1. PICK c \in S : P = BytesOf(c)
    OBVIOUS
  <2>2. PICK b \in BytesOf(c) : b \in Bytes /\ LifeOf(b) \in {"missing", "requested", "arrived"}
    BY <1>4
  <2> QED
    BY <2>1, <2>2
<1>6. Q \in (SUBSET {BytesOf(c) : c \in Chunks}) \ {{}}
  BY <1>1
<1>7. ASSUME NEW b \in Bytes
      PROVE  LifeOf(b)' = IF b \in UNION Q THEN "missing" ELSE LifeOf(b)
  <2>1. CASE ChunkOf(b) \in S
    <3>1. map'[ChunkOf(b)] = "OUTSTANDING"
      BY <1>1, <2>1, ChunkOfFacts
    <3>2. LifeOf(b)' = "missing"
      BY <1>2, <3>1 DEF LifeKnown, NotAsked
    <3> QED
      BY <1>3, <2>1, <3>2
  <2>2. CASE ChunkOf(b) \notin S
    <3>1. map'[ChunkOf(b)] = map[ChunkOf(b)] /\ (b \in awaited' <=> b \in awaited)
      BY <1>1, <2>2, ChunkOfFacts
    <3>2. InSlice(b)' <=> InSlice(b)
      <4>1. ASSUME NEW o \in Bytes, slices[o] > 0, o <= b, b < o + slices[o]
            PROVE  slices'[o] = slices[o]
        <5>1. b \in Int
          BY SizesAssumption DEF Bytes
        <5>2. ChunkOf(b) = ChunkOf(o)
          BY <1>2, <4>1, <5>1, SliceInChunk DEF IInv
        <5> QED
          BY <1>1, <2>2, <5>2
      <4>2. \A o \in Bytes : slices'[o] > 0 => slices'[o] = slices[o]
        BY <1>1
      <4> QED
        BY <4>1, <4>2 DEF InSlice
    <3>3. InFeed(b)' <=> InFeed(b)
      BY <1>1, <2>2
    <3>4. LifeOf(b)' = LifeOf(b)
      BY <3>1, <3>2, <3>3 DEF LifeOf
    <3> HIDE DEF Q
    <3> QED
      BY <1>3, <2>2, <3>4
  <2> QED
    BY <2>1, <2>2
<1> HIDE DEF Q
<1>8. Download!Become(UNION Q, "missing")
  BY <1>7, BecomeAll
<1> QED
  BY <1>1, <1>5, <1>6, <1>8 DEF Download!GiveUp

\* Every step of the creator is a step of the download, or changes nothing of it.
LEMMA RefinesNext ==
  ASSUME UserForceCheck = FALSE, CreatorInv, [Next]_vars
  PROVE  Download!DlNext \/ UNCHANGED Download!dlVars
<1>1. CASE \/ \E p \in Peers : \E m \in mChunks : ReaskPiece(p, m)
           \/ \E packet \in Packet : Lose(packet)
           \/ TakeChunksToCheck
           \/ \E p \in Peers, m \in PeerMaps : setSourceMap(p, m)
           \/ \E p \in Peers : RemoveSource(p)
           \/ \E s \in Strategies : setChunkStrategy(s)
           \/ UNCHANGED vars
  BY <1>1, RefinesQuiet
<1>2. CASE \E p \in Peers, hint \in Hints, off \in Bytes, r \in Refs :
             RequestSlice(p, hint, off, r)
  BY <1>2, RefinesRequest DEF Download!DlNext
<1>3. CASE \E packet \in Packet, quality \in Qualities : Receive(packet, quality)
  BY <1>3, RefinesReceive DEF Download!DlNext
<1>4. CASE \E S \in (SUBSET tracked) \ {{}} : RemoveInactive(S)
  BY <1>4, RefinesRemove DEF Download!DlNext
<1>5. CASE \E c \in Chunks : \E sum \in Sums(c) : verifyChunk(c, sum)
  BY <1>5, RefinesVerify DEF Download!DlNext
<1>6. CASE ForceCheck
  BY <1>6, RefinesForce DEF Download!DlNext
<1>7. CASE SaveMap
  BY <1>7, RefinesSave DEF Download!DlNext
<1>8. CASE Restart
  BY <1>8, RefinesRestart DEF Download!DlNext
<1> QED
  BY <1>1, <1>2, <1>3, <1>4, <1>5, <1>6, <1>7, <1>8 DEF Next

\* The creator implements the download: whatever packets arrive, through every
\* split, wrap, loss, clean-up and restart, a byte counts as received only when it
\* was written after it was last asked for, and is checked with its whole chunk.
THEOREM CreatorImplementsDownload ==
  ASSUME UserForceCheck = FALSE
  PROVE  Spec => KeepsBytes
<1>1. CreatorInv /\ [Next]_vars => [Download!DlNext]_(Download!dlVars)
  BY RefinesNext
<1> QED
  BY RefinesInit, CreatorInvariance, <1>1, PTL DEF Spec, KeepsBytes, Download!DlSpec

-----------------------------------------------------------------------------
(* Bytes that arrived were written. *)

\* So were those of the chunks saved as done, whatever was asked for again since.
WrittenIn ==
  /\ \A b \in Bytes : LifeOf(b) \in {"arrived", "received", "verified"} => disk[b] # "hole"
  /\ \A c \in saved : \A b \in BytesOf(c) : disk[b] # "hole"

LEMMA WrittenInit == Init => WrittenIn
<1> SUFFICES ASSUME Init PROVE WrittenIn
  OBVIOUS
<1>1. Download!DlInit /\ saved = {}
  BY RefinesInit DEF Init
<1>2. \A b \in Bytes : LifeOf(b) = "missing"
  <2>1. \A b \in Bytes : [x \in Bytes |-> LifeOf(x)][b] = "missing"
    BY <1>1 DEF Download!DlInit
  <2> QED
    BY <2>1
<1> QED
  BY <1>1, <1>2 DEF WrittenIn

\* Shown on the steps of the download, which are fewer.
LEMMA WrittenNext ==
  ASSUME UserForceCheck = FALSE, CreatorInv, WrittenIn, [Next]_vars
  PROVE  WrittenIn'
<1> DEFINE life == [b \in Bytes |-> LifeOf(b)]
           life2 == [b \in Bytes |-> LifeOf(b)']
           kept == {BytesOf(c) : c \in saved}
           kept2 == {BytesOf(c) : c \in saved'}
           There == {"arrived", "received", "verified"}
<1>1. /\ \A b \in Bytes : life[b] \in There => disk[b] # "hole"
      /\ \A P \in kept : \A b \in P : disk[b] # "hole"
  BY DEF WrittenIn
<1>2. \A d \in Qualities : d # "hole"
  BY DEF Qualities
<1>3. \A P \in {BytesOf(c) : c \in Chunks} : P \in SUBSET Bytes
  BY PartFacts
<1>4. SUFFICES /\ \A b \in Bytes : life2[b] \in There => disk'[b] # "hole"
               /\ \A P \in kept2 : \A b \in P : disk'[b] # "hole"
  BY DEF WrittenIn
<1>5. saved \subseteq Chunks
  BY DEF CreatorInv, CreatorTypes
<1>6. CASE Download!Request
  <2>1. /\ disk' = disk /\ kept2 = kept
        /\ \A b \in Bytes : life2[b] = "requested" \/ life2[b] = life[b]
    BY <1>6 DEF Download!Request, Download!Become
  <2> QED
    BY <1>1, <2>1
<1>7. CASE Download!Deliver \/ Download!DeliverAll
  <2>1. PICK i \in Bytes, j \in Bytes, d \in Qualities :
          /\ disk' = [b \in Bytes |-> IF b \in i .. j THEN d ELSE disk[b]]
          /\ \A b \in Bytes : \/ life2[b] = life[b]
                              \/ life[b] \in There
                              \/ b \in i .. j
    BY <1>7 DEF Download!Deliver, Download!DeliverAll, Download!Written, Download!There,
                Download!Become
  <2>2. kept2 = kept
    BY <1>7 DEF Download!Deliver, Download!DeliverAll
  <2>3. \A b \in Bytes : disk'[b] = disk[b] \/ disk'[b] # "hole"
    BY <1>2, <2>1
  <2>4. \A b \in Bytes : b \in i .. j => disk'[b] # "hole"
    BY <1>2, <2>1
  <2>5. \A P \in kept : P \in SUBSET Bytes
    BY <1>3, <1>5
  <2> HIDE DEF life, life2, kept, kept2
  <2> QED
    BY <1>1, <2>1, <2>2, <2>3, <2>4, <2>5
<1>8. CASE Download!Check \/ Download!GiveUp \/ Download!Recheck
  <2>1. disk' = disk /\ kept2 = kept
    BY <1>8 DEF Download!Check, Download!GiveUp, Download!Recheck
  <2>2. \A b \in Bytes : life2[b] \in There => life[b] \in There
    <3>1. CASE Download!Check
      BY <1>3, <3>1 DEF Download!Check, Download!Are, Download!Become
    <3>2. CASE Download!GiveUp
      BY <3>2 DEF Download!GiveUp, Download!Become
    <3>3. CASE Download!Recheck
      BY <3>3 DEF Download!Recheck, Download!Are, Download!Become
    <3> QED
      BY <1>8, <3>1, <3>2, <3>3
  <2> HIDE DEF life, life2, kept, kept2
  <2> QED
    BY <1>1, <2>1, <2>2
<1>9. CASE Download!Save
  <2>1. /\ disk' = disk /\ life2 = life
        /\ kept2 = {P \in {BytesOf(c) : c \in Chunks} : \A b \in P : life[b] = "verified"}
    BY <1>9 DEF Download!Save, Download!Are
  <2> HIDE DEF life, life2, kept, kept2
  <2> QED
    BY <1>1, <1>3, <2>1
<1>10. CASE Download!Resume
  <2>1. /\ disk' = disk /\ kept2 = kept
        /\ \A b \in Bytes : life2[b] = IF b \in UNION kept THEN "verified" ELSE "missing"
    BY <1>10 DEF Download!Resume
  <2> HIDE DEF life, life2, kept, kept2
  <2> QED
    BY <1>1, <2>1
<1>11. CASE UNCHANGED Download!dlVars
  <2>1. disk' = disk /\ kept2 = kept /\ life2 = life
    BY <1>11 DEF Download!dlVars
  <2> HIDE DEF life, life2, kept, kept2
  <2> QED
    BY <1>1, <2>1
<1>12. Download!DlNext \/ UNCHANGED Download!dlVars
  BY RefinesNext
<1> QED
  BY <1>6, <1>7, <1>8, <1>9, <1>10, <1>11, <1>12 DEF Download!DlNext

\* A chunk is handed to checking, or declared done, only with all bytes written.
THEOREM WrittenBeforeChecked ==
  ASSUME UserForceCheck = FALSE
  PROVE  Spec => []ReceivedIsWritten
<1>1. CreatorInv /\ WrittenIn /\ [Next]_vars => WrittenIn'
  BY WrittenNext
<1>2. CreatorInv /\ WrittenIn => ReceivedIsWritten
  <2> SUFFICES ASSUME WrittenIn, NEW c \in Chunks, map[c] \in {"CHECKING", "DONE"},
                      NEW b \in BytesOf(c)
               PROVE  disk[b] # "hole"
    BY DEF ReceivedIsWritten
  <2>1. b \in Bytes /\ ChunkOf(b) = c
    BY BytesOfFacts
  <2>2. LifeOf(b) \in {"received", "verified"}
    BY <2>1 DEF LifeOf
  <2> QED
    BY <2>1, <2>2 DEF WrittenIn
<1> QED
  BY WrittenInit, CreatorInvariance, <1>1, <1>2, PTL DEF Spec

=============================================================================
