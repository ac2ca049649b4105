------------------------- MODULE FtControllerProofs -------------------------
(***************************************************************************)
(* Theorems about the download queue of FtController, for any files,       *)
(* queue sizes, threads and bounds.                                        *)
(***************************************************************************)
EXTENDS FtController, TLAPS

\* The queue and the file controls agree: each control that exists is in it once.
Holds(q, fcs) ==
  /\ \A c \in Controls : fcs[c].mState # "DELETED" <=> \E p \in 1 .. Len(q) : q[p] = c
  /\ \A i, j \in 1 .. Len(q) : q[i] = q[j] => i = j

Exact(q, fcs) == \A p \in 1 .. Len(q) : fcs[q[p]].mQueuePosition = p

\* ps are positions of q, and every element at another position knows it.
ExactOutside(q, ps, fcs) ==
  /\ ps \subseteq 1 .. Len(q)
  /\ \A p \in (1 .. Len(q)) \ ps : fcs[q[p]].mQueuePosition = p

\* The state of a file control does not contradict its position.
Placed(fc, max) ==
  /\ fc.mQueuePosition <= max => fc.mState # "QUEUED"
  /\ fc.mQueuePosition > max => fc.mState # "DOWNLOADING"

\* Files that checkDownloadQueue will move are downloads.
LeftDownloaded == check = "inactive" => \A h \in left : Downloading(h)

\* The inductive invariant.
IInv == ControllerTypeOK /\ PositionsExact /\ QueueIsLive /\ LeftDownloaded

-----------------------------------------------------------------------------
(* The check of queue elements. *)

\* Checking an existing control gives it the position and a state that fits.
LEMMA ElementFacts ==
  ASSUME NEW fc \in Control, fc.mState # "DELETED", NEW p \in Nat, NEW max \in Nat
  PROVE  /\ checkQueueElement(fc, p, max) \in Control
         /\ checkQueueElement(fc, p, max).mQueuePosition = p
         /\ checkQueueElement(fc, p, max).mState # "DELETED"
         /\ Placed(checkQueueElement(fc, p, max), max)
BY DEF checkQueueElement, Control, FileStates, Placed

\* If the elements outside ps have their positions, checking ps makes all exact.
LEMMA Settle ==
  ASSUME NEW q \in Seq(Controls), NEW ps, NEW fcs \in [Controls -> Control],
         NEW max \in Nat, Holds(q, fcs), ExactOutside(q, ps, fcs)
  PROVE  /\ Checked(q, ps, fcs, max) \in [Controls -> Control]
         /\ Exact(q, Checked(q, ps, fcs, max))
         /\ Holds(q, Checked(q, ps, fcs, max))
         /\ \A c \in Controls : \/ Placed(Checked(q, ps, fcs, max)[c], max)
                                \/ Checked(q, ps, fcs, max)[c] = fcs[c]
<1> DEFINE n == Checked(q, ps, fcs, max)
<1> HIDE DEF n
<1> USE DEF ExactOutside
<1>1. \A p \in 1 .. Len(q) : q[p] \in Controls /\ fcs[q[p]].mState # "DELETED"
  BY DEF Holds
<1>2. ASSUME NEW p \in ps
      PROVE  n[q[p]] = checkQueueElement(fcs[q[p]], p, max)
  <2>1. q[p] \in Controls
    BY <1>1
  <2>2. (CHOOSE r \in ps : q[r] = q[p]) = p
    BY DEF Holds
  <2> QED BY <2>1, <2>2 DEF n, Checked
<1>3. ASSUME NEW c \in Controls, \A p \in ps : q[p] # c
      PROVE  n[c] = fcs[c]
  BY <1>3 DEF n, Checked
<1>4. ASSUME NEW p \in ps
      PROVE  /\ n[q[p]] \in Control
             /\ n[q[p]].mQueuePosition = p
             /\ n[q[p]].mState # "DELETED"
             /\ Placed(n[q[p]], max)
  <2>1. fcs[q[p]] \in Control /\ fcs[q[p]].mState # "DELETED" /\ p \in Nat
    BY <1>1
  <2> DEFINE e == checkQueueElement(fcs[q[p]], p, max)
  <2>2. e \in Control /\ e.mQueuePosition = p /\ e.mState # "DELETED" /\ Placed(e, max)
    BY <2>1, ElementFacts, ZenonT(40)
  <2>3. n[q[p]] = e
    BY <1>2
  <2> HIDE DEF e
  <2> QED BY <2>2, <2>3
<1>5. n \in [Controls -> Control]
  <2>1. \A c \in Controls : n[c] \in Control
    BY <1>3, <1>4
  <2>2. n = [c \in Controls |-> n[c]]
    BY DEF n, Checked
  <2> QED BY <2>1, <2>2
<1>6. Exact(q, n)
  <2> SUFFICES ASSUME NEW p \in 1 .. Len(q)
               PROVE  n[q[p]].mQueuePosition = p
    BY DEF Exact
  <2>1. CASE p \in ps
    BY <2>1, <1>4
  <2>2. CASE p \notin ps
    <3>1. \A r \in ps : q[r] # q[p]
      BY <2>2 DEF Holds
    <3> QED BY <3>1, <2>2, <1>1, <1>3
  <2> QED BY <2>1, <2>2
<1>7. Holds(q, n)
  <2>1. ASSUME NEW c \in Controls
        PROVE  n[c].mState # "DELETED" <=> fcs[c].mState # "DELETED"
    <3>1. CASE \E p \in ps : q[p] = c
      BY <3>1, <1>1, <1>4
    <3>2. CASE \A p \in ps : q[p] # c
      BY <3>2, <1>3
    <3> QED BY <3>1, <3>2
  <2> QED BY <2>1 DEF Holds
<1>8. \A c \in Controls : Placed(n[c], max) \/ n[c] = fcs[c]
  BY <1>3, <1>4
<1> QED BY <1>5, <1>6, <1>7, <1>8 DEF n

-----------------------------------------------------------------------------
(* The operations on the vector. *)

\* A function on 1 .. n is a sequence of length n.
LEMMA FunctionIsSeq ==
  ASSUME NEW S, NEW n \in Nat, NEW f \in [1 .. n -> S]
  PROVE  f \in Seq(S) /\ Len(f) = n
OBVIOUS

\* locked_queueRemove takes out one control and keeps the others.
LEMMA RemoveHolds ==
  ASSUME NEW q \in Seq(Controls), NEW fcs \in [Controls -> Control], Holds(q, fcs),
         NEW pos \in 1 .. Len(q)
  PROVE  /\ WithoutElement(q, pos) \in Seq(Controls)
         /\ Len(WithoutElement(q, pos)) = Len(q) - 1
         /\ \A p \in 1 .. pos - 1 : WithoutElement(q, pos)[p] = q[p]
         /\ [fcs EXCEPT ![q[pos]] = Deleted] \in [Controls -> Control]
         /\ Holds(WithoutElement(q, pos), [fcs EXCEPT ![q[pos]] = Deleted])
<1> DEFINE Q == WithoutElement(q, pos)
           F == [fcs EXCEPT ![q[pos]] = Deleted]
<1>1. /\ Len(q) \in Nat /\ Len(q) - 1 \in Nat
      /\ Q \in [1 .. Len(q) - 1 -> Controls]
  BY DEF WithoutElement
<1>2. Q \in Seq(Controls) /\ Len(Q) = Len(q) - 1
  <2> DEFINE n == Len(q) - 1
  <2>1. n \in Nat /\ Q \in [1 .. n -> Controls]
    BY <1>1
  <2> HIDE DEF n, Q
  <2>2. Q \in Seq(Controls) /\ Len(Q) = n
    BY <2>1, FunctionIsSeq
  <2> QED BY <2>2 DEF n
<1>3. \A p \in 1 .. Len(Q) : Q[p] = IF p < pos THEN q[p] ELSE q[p + 1]
  BY <1>2 DEF WithoutElement
<1> HIDE DEF Q
<1>4. F \in [Controls -> Control]
  BY DEF Deleted, Control
<1>5. \A i, j \in 1 .. Len(Q) : Q[i] = Q[j] => i = j
  <2> SUFFICES ASSUME NEW i \in 1 .. Len(Q), NEW j \in 1 .. Len(Q), Q[i] = Q[j]
               PROVE  i = j
    OBVIOUS
  <2> DEFINE u(p) == IF p < pos THEN p ELSE p + 1
  <2>1. u(i) \in 1 .. Len(q) /\ u(j) \in 1 .. Len(q) /\ q[u(i)] = q[u(j)]
    BY <1>2, <1>3
  <2>2. u(i) = u(j)
    <3> HIDE DEF u
    <3> QED BY <2>1 DEF Holds
  <2> QED BY <2>2
<1>6. ASSUME NEW c \in Controls
      PROVE  F[c].mState # "DELETED" <=> \E p \in 1 .. Len(Q) : Q[p] = c
  <2>1. CASE c = q[pos]
    <3>1. F[c].mState = "DELETED"
      BY <2>1 DEF Deleted
    <3>2. ASSUME NEW p \in 1 .. Len(Q), Q[p] = c
          PROVE  FALSE
      <4> DEFINE r == IF p < pos THEN p ELSE p + 1
      <4>1. r \in 1 .. Len(q) /\ q[r] = q[pos] /\ r # pos
        BY <3>2, <2>1, <1>2, <1>3
      <4> QED BY <4>1 DEF Holds
    <3> QED BY <3>1, <3>2
  <2>2. CASE c # q[pos]
    <3>1. F[c] = fcs[c]
      BY <2>2
    <3>2. ASSUME NEW p \in 1 .. Len(q), q[p] = c
          PROVE  \E r \in 1 .. Len(Q) : Q[r] = c
      <4>1. CASE p < pos
        BY <4>1, <3>2, <1>2, <1>3
      <4>2. CASE p > pos
        <5>1. p - 1 \in 1 .. Len(Q) /\ ~(p - 1 < pos) /\ (p - 1) + 1 = p
          BY <4>2, <1>2
        <5>2. Q[p - 1] = c
          BY <5>1, <3>2, <1>3
        <5> QED BY <5>1, <5>2
      <4>3. p # pos
        BY <3>2, <2>2
      <4> QED BY <4>1, <4>2, <4>3
    <3>3. ASSUME NEW p \in 1 .. Len(Q), Q[p] = c
          PROVE  \E r \in 1 .. Len(q) : q[r] = c
      BY <3>3, <1>2, <1>3
    <3> QED BY <3>1, <3>2, <3>3 DEF Holds
  <2> QED BY <2>1, <2>2
<1>7. Holds(Q, F)
  <2> HIDE DEF F
  <2> QED BY <1>5, <1>6 DEF Holds
<1>8. \A p \in 1 .. pos - 1 : Q[p] = q[p]
  BY <1>2, <1>3
<1> QED BY <1>2, <1>4, <1>7, <1>8 DEF Q

\* Q takes its elements from q by f, a permutation of the positions with inverse g.
Permutes(q, Q, f, g) ==
  /\ f \in [1 .. Len(q) -> 1 .. Len(q)]
  /\ g \in [1 .. Len(q) -> 1 .. Len(q)]
  /\ \A p \in 1 .. Len(q) : f[g[p]] = p /\ g[f[p]] = p
  /\ Q \in [1 .. Len(q) -> Controls]
  /\ \A p \in 1 .. Len(q) : Q[p] = q[f[p]]

\* A queue that takes its elements from another by a permutation of the
\* positions, given with its inverse, holds the same controls.
LEMMA PermutedHolds ==
  ASSUME NEW q \in Seq(Controls), NEW fcs, Holds(q, fcs),
         NEW f, NEW g, NEW Q, Permutes(q, Q, f, g)
  PROVE  /\ Q \in Seq(Controls)
         /\ Len(Q) = Len(q)
         /\ Holds(Q, fcs)
<1> USE DEF Permutes
<1>1. Len(q) \in Nat /\ Q \in [1 .. Len(q) -> Controls]
  OBVIOUS
<1>2. Q \in Seq(Controls) /\ Len(Q) = Len(q)
  BY <1>1, FunctionIsSeq
<1>3. \A p \in 1 .. Len(q) : f[p] \in 1 .. Len(q) /\ g[p] \in 1 .. Len(q) /\ Q[p] = q[f[p]]
  OBVIOUS
<1>4. \A i, j \in 1 .. Len(Q) : Q[i] = Q[j] => i = j
  <2> SUFFICES ASSUME NEW i \in 1 .. Len(q), NEW j \in 1 .. Len(q), Q[i] = Q[j]
               PROVE  i = j
    BY <1>2
  <2>1. f[i] \in 1 .. Len(q) /\ f[j] \in 1 .. Len(q) /\ q[f[i]] = q[f[j]]
    BY <1>3
  <2>2. f[i] = f[j]
    BY <2>1 DEF Holds
  <2>3. g[f[i]] = i /\ g[f[j]] = j
    OBVIOUS
  <2> QED BY <2>2, <2>3
<1>5. \A c \in Controls : (\E p \in 1 .. Len(Q) : Q[p] = c) <=> \E p \in 1 .. Len(q) : q[p] = c
  BY <1>2, <1>3
<1> QED BY <1>2, <1>4, <1>5 DEF Holds

\* locked_bottomQueue permutes the queue.
LEMMA BottomHolds ==
  ASSUME NEW q \in Seq(Controls), NEW fcs, Holds(q, fcs), NEW pos \in 1 .. Len(q)
  PROVE  /\ ToBottom(q, pos) \in Seq(Controls)
         /\ Len(ToBottom(q, pos)) = Len(q)
         /\ Holds(ToBottom(q, pos), fcs)
         /\ \A p \in 1 .. pos - 1 : ToBottom(q, pos)[p] = q[p]
<1> DEFINE n == Len(q)
           f == [p \in 1 .. n |-> IF p < pos THEN p ELSE IF p < n THEN p + 1 ELSE pos]
           g == [p \in 1 .. n |-> IF p < pos THEN p ELSE IF p = pos THEN n ELSE p - 1]
<1>1. n \in Nat /\ pos \in 1 .. n
  OBVIOUS
<1>2. f \in [1 .. n -> 1 .. n] /\ g \in [1 .. n -> 1 .. n]
  BY <1>1
<1>3. \A p \in 1 .. n : f[g[p]] = p /\ g[f[p]] = p
  BY <1>1
<1>4. ToBottom(q, pos) = [p \in 1 .. n |-> q[f[p]]]
  BY <1>1 DEF ToBottom
<1>5. \A p \in 1 .. pos - 1 : ToBottom(q, pos)[p] = q[p]
  BY <1>1 DEF ToBottom
<1>6. /\ ToBottom(q, pos) \in Seq(Controls)
      /\ Len(ToBottom(q, pos)) = Len(q)
      /\ Holds(ToBottom(q, pos), fcs)
  <2> DEFINE T == ToBottom(q, pos)
  <2>1. T \in [1 .. Len(q) -> Controls] /\ \A p \in 1 .. Len(q) : T[p] = q[f[p]]
    BY <1>2, <1>4
  <2>2. Permutes(q, T, f, g)
    BY <2>1, <1>2, <1>3 DEF Permutes
  <2> HIDE DEF T, n, f, g
  <2>3. T \in Seq(Controls) /\ Len(T) = Len(q) /\ Holds(T, fcs)
    BY <2>2, PermutedHolds
  <2> QED BY <2>3 DEF T
<1> QED BY <1>5, <1>6

\* locked_topQueue permutes the queue.
LEMMA TopHolds ==
  ASSUME NEW q \in Seq(Controls), NEW fcs, Holds(q, fcs), NEW pos \in 1 .. Len(q)
  PROVE  /\ ToTop(q, pos) \in Seq(Controls)
         /\ Len(ToTop(q, pos)) = Len(q)
         /\ Holds(ToTop(q, pos), fcs)
         /\ \A p \in pos + 1 .. Len(q) : ToTop(q, pos)[p] = q[p]
<1> DEFINE n == Len(q)
           f == [p \in 1 .. n |-> IF p > pos THEN p ELSE IF p > 1 THEN p - 1 ELSE pos]
           g == [p \in 1 .. n |-> IF p > pos THEN p ELSE IF p = pos THEN 1 ELSE p + 1]
<1>1. n \in Nat /\ pos \in 1 .. n
  OBVIOUS
<1>2. f \in [1 .. n -> 1 .. n] /\ g \in [1 .. n -> 1 .. n]
  BY <1>1
<1>3. \A p \in 1 .. n : f[g[p]] = p /\ g[f[p]] = p
  BY <1>1
<1>4. ToTop(q, pos) = [p \in 1 .. n |-> q[f[p]]]
  BY <1>1 DEF ToTop
<1>5. \A p \in pos + 1 .. n : ToTop(q, pos)[p] = q[p]
  BY <1>1 DEF ToTop
<1>6. /\ ToTop(q, pos) \in Seq(Controls)
      /\ Len(ToTop(q, pos)) = Len(q)
      /\ Holds(ToTop(q, pos), fcs)
  <2> DEFINE T == ToTop(q, pos)
  <2>1. T \in [1 .. Len(q) -> Controls] /\ \A p \in 1 .. Len(q) : T[p] = q[f[p]]
    BY <1>2, <1>4
  <2>2. Permutes(q, T, f, g)
    BY <2>1, <1>2, <1>3 DEF Permutes
  <2> HIDE DEF T, n, f, g
  <2>3. T \in Seq(Controls) /\ Len(T) = Len(q) /\ Holds(T, fcs)
    BY <2>2, PermutedHolds
  <2> QED BY <2>3 DEF T
<1> QED BY <1>5, <1>6

\* locked_swapQueue permutes the queue.
LEMMA SwapHolds ==
  ASSUME NEW q \in Seq(Controls), NEW fcs, Holds(q, fcs),
         NEW i \in 1 .. Len(q), NEW j \in 1 .. Len(q)
  PROVE  /\ Swapped(q, i, j) \in Seq(Controls)
         /\ Len(Swapped(q, i, j)) = Len(q)
         /\ Holds(Swapped(q, i, j), fcs)
         /\ \A p \in (1 .. Len(q)) \ {i, j} : Swapped(q, i, j)[p] = q[p]
<1> DEFINE n == Len(q)
           f == [p \in 1 .. n |-> IF p = i THEN j ELSE IF p = j THEN i ELSE p]
<1>1. f \in [1 .. n -> 1 .. n]
  OBVIOUS
<1>2. \A p \in 1 .. n : f[f[p]] = p
  OBVIOUS
<1>3. Swapped(q, i, j) = [p \in 1 .. n |-> q[f[p]]]
  BY DEF Swapped
<1>4. \A p \in (1 .. n) \ {i, j} : Swapped(q, i, j)[p] = q[p]
  BY DEF Swapped
<1>5. /\ Swapped(q, i, j) \in Seq(Controls)
      /\ Len(Swapped(q, i, j)) = Len(q)
      /\ Holds(Swapped(q, i, j), fcs)
  <2> DEFINE T == Swapped(q, i, j)
  <2>1. T \in [1 .. Len(q) -> Controls] /\ \A p \in 1 .. Len(q) : T[p] = q[f[p]]
    BY <1>1, <1>3
  <2>2. Permutes(q, T, f, f)
    BY <2>1, <1>1, <1>2 DEF Permutes
  <2> HIDE DEF T, n, f
  <2>3. T \in Seq(Controls) /\ Len(T) = Len(q) /\ Holds(T, fcs)
    BY <2>2, PermutedHolds
  <2> QED BY <2>3 DEF T
<1> QED BY <1>4, <1>5

-----------------------------------------------------------------------------
(* Steps that change the queue. *)

\* What such a step establishes: the new queue is sound, and no file is newly
\* misplaced by it.
Kept ==
  /\ queue' \in Seq(Controls)
  /\ ctl' \in [Controls -> Control]
  /\ Holds(queue', ctl')
  /\ Exact(queue', ctl')

Calm == \A c \in Controls : Misplaced(c)' => Misplaced(c)

\* The invariant in terms of queue and file controls.
LEMMA Sound ==
  ASSUME IInv
  PROVE  /\ queue \in Seq(Controls)
         /\ ctl \in [Controls -> Control]
         /\ max_active \in Nat
         /\ Holds(queue, ctl)
         /\ Exact(queue, ctl)
         /\ \A c \in mDownloads : c \in Controls /\ ctl[c].mState # "DELETED"
BY ControllerAssumption
   DEF IInv, ControllerTypeOK, PositionsExact, QueueIsLive, Holds, Exact, Live

\* And back, for the next state.
LEMMA Assemble ==
  ASSUME Kept, mDownloads' \subseteq Controls,
         \A c \in mDownloads' : ctl'[c].mState # "DELETED",
         \A c, d \in mDownloads' : HashOf(c) = HashOf(d) => c = d
  PROVE  PositionsExact' /\ QueueIsLive'
BY DEF Kept, PositionsExact, QueueIsLive, Holds, Exact, Live

\* The position stored in a download is where it is.
LEMMA PositionOf ==
  ASSUME IInv, NEW c \in mDownloads
  PROVE  /\ ctl[c].mQueuePosition \in 1 .. Len(queue)
         /\ queue[ctl[c].mQueuePosition] = c
BY Sound DEF Holds, Exact

\* Looking a hash up gives the download with that hash.
LEMMA FindFacts ==
  ASSUME NEW h, Downloading(h)
  PROVE  Find(h) \in mDownloads /\ HashOf(Find(h)) = h
BY DEF Downloading, Find

\* Controls that a step leaves alone, or places, are not newly misplaced.
LEMMA PlacedIsCalm ==
  ASSUME max_active' = max_active,
         \A c \in Controls : \/ ctl'[c].mState = "DELETED"
                             \/ Placed(ctl'[c], max_active)
                             \/ ctl'[c] = ctl[c]
  PROVE  Calm
BY DEF Calm, Misplaced, Placed, Live

\* A new order of the same elements, checked wherever it differs.
LEMMA ReorderStep ==
  ASSUME IInv, NEW Q \in Seq(Controls), NEW ps \in SUBSET (1 .. Len(Q)),
         Len(Q) = Len(queue), Holds(Q, ctl),
         \A p \in (1 .. Len(Q)) \ ps : Q[p] = queue[p],
         queue' = Q, ctl' = Checked(Q, ps, ctl, max_active), max_active' = max_active
  PROVE  /\ Kept
         /\ Calm
         /\ \A c \in Controls : ctl[c].mState # "DELETED" => ctl'[c].mState # "DELETED"
<1>1. /\ queue \in Seq(Controls) /\ ctl \in [Controls -> Control] /\ max_active \in Nat
      /\ Exact(queue, ctl)
  BY Sound
<1>2. ExactOutside(Q, ps, ctl)
  BY <1>1 DEF Exact, ExactOutside
<1>3. /\ ctl' \in [Controls -> Control]
      /\ Exact(Q, ctl')
      /\ Holds(Q, ctl')
      /\ \A c \in Controls : Placed(ctl'[c], max_active) \/ ctl'[c] = ctl[c]
  BY <1>1, <1>2, Settle, SMTT(30)
<1>4. Kept
  BY <1>3 DEF Kept
<1>5. Calm
  BY <1>3, PlacedIsCalm
<1> QED BY <1>3, <1>4, <1>5 DEF Holds

\* locked_bottomQueue keeps the queue sound.
LEMMA BottomStep ==
  ASSUME IInv, NEW pos \in 1 .. Len(queue), bottomQueue(pos), max_active' = max_active
  PROVE  /\ Kept
         /\ Calm
         /\ \A c \in Controls : ctl[c].mState # "DELETED" => ctl'[c].mState # "DELETED"
<1> DEFINE Q == ToBottom(queue, pos)
           ps == pos .. Len(queue)
<1>1. queue \in Seq(Controls) /\ Len(queue) \in Nat /\ Holds(queue, ctl)
  BY Sound
<1>2. /\ Q \in Seq(Controls) /\ Len(Q) = Len(queue) /\ Holds(Q, ctl)
      /\ \A p \in 1 .. pos - 1 : Q[p] = queue[p]
  BY <1>1, BottomHolds
<1>3. ps \in SUBSET (1 .. Len(Q)) /\ \A p \in (1 .. Len(Q)) \ ps : Q[p] = queue[p]
  BY <1>1, <1>2
<1>4. queue' = Q /\ ctl' = Checked(Q, ps, ctl, max_active)
  BY DEF bottomQueue
<1> HIDE DEF Q, ps
<1> QED BY <1>2, <1>3, <1>4, ReorderStep

\* locked_topQueue keeps the queue sound.
LEMMA TopStep ==
  ASSUME IInv, NEW pos \in 1 .. Len(queue), topQueue(pos), max_active' = max_active
  PROVE  /\ Kept
         /\ Calm
         /\ \A c \in Controls : ctl[c].mState # "DELETED" => ctl'[c].mState # "DELETED"
<1> DEFINE Q == ToTop(queue, pos)
           ps == 1 .. pos
<1>1. queue \in Seq(Controls) /\ Len(queue) \in Nat /\ Holds(queue, ctl)
  BY Sound
<1>2. /\ Q \in Seq(Controls) /\ Len(Q) = Len(queue) /\ Holds(Q, ctl)
      /\ \A p \in pos + 1 .. Len(queue) : Q[p] = queue[p]
  BY <1>1, TopHolds
<1>3. ps \in SUBSET (1 .. Len(Q)) /\ \A p \in (1 .. Len(Q)) \ ps : Q[p] = queue[p]
  BY <1>1, <1>2
<1>4. queue' = Q /\ ctl' = Checked(Q, ps, ctl, max_active)
  BY DEF topQueue
<1> HIDE DEF Q, ps
<1> QED BY <1>2, <1>3, <1>4, ReorderStep

\* locked_swapQueue keeps the queue sound.
LEMMA SwapStep ==
  ASSUME IInv, NEW i \in 1 .. Len(queue), NEW j \in 1 .. Len(queue), swapQueue(i, j),
         max_active' = max_active
  PROVE  /\ Kept
         /\ Calm
         /\ \A c \in Controls : ctl[c].mState # "DELETED" => ctl'[c].mState # "DELETED"
<1> DEFINE Q == Swapped(queue, i, j)
           ps == {i, j}
<1>1. queue \in Seq(Controls) /\ Holds(queue, ctl)
  BY Sound
<1>2. /\ Q \in Seq(Controls) /\ Len(Q) = Len(queue) /\ Holds(Q, ctl)
      /\ \A p \in (1 .. Len(queue)) \ ps : Q[p] = queue[p]
  BY <1>1, SwapHolds
<1>3. ps \in SUBSET (1 .. Len(Q)) /\ \A p \in (1 .. Len(Q)) \ ps : Q[p] = queue[p]
  BY <1>2
<1>4. queue' = Q /\ ctl' = Checked(Q, ps, ctl, max_active)
  BY DEF swapQueue
<1> HIDE DEF Q, ps
<1> QED BY <1>2, <1>3, <1>4, ReorderStep

\* locked_queueRemove takes out the right control: the one that is deleted.
LEMMA RemoveStep ==
  ASSUME IInv, NEW c \in mDownloads, queueRemove(c), max_active' = max_active
  PROVE  /\ Kept
         /\ Calm
         /\ PositionsExact' /\ QueueIsLive'
         /\ mDownloads' \subseteq Controls
<1> DEFINE pos == ctl[c].mQueuePosition
           Q == WithoutElement(queue, pos)
           F == [ctl EXCEPT ![c] = Deleted]
           ps == pos .. Len(Q)
<1>1. /\ queue \in Seq(Controls) /\ Len(queue) \in Nat /\ Holds(queue, ctl)
      /\ Exact(queue, ctl)
      /\ ctl \in [Controls -> Control] /\ max_active \in Nat
      /\ \A d \in mDownloads : d \in Controls /\ ctl[d].mState # "DELETED"
  BY Sound
<1>2. pos \in 1 .. Len(queue) /\ queue[pos] = c
  BY PositionOf
<1>3. /\ queue' = Q
      /\ ctl' = Checked(Q, ps, F, max_active)
      /\ mDownloads' = mDownloads \ {c}
  BY DEF queueRemove
<1> HIDE DEF pos
<1>4. /\ Q \in Seq(Controls) /\ Len(Q) = Len(queue) - 1
      /\ \A p \in 1 .. pos - 1 : Q[p] = queue[p]
      /\ F \in [Controls -> Control]
      /\ Holds(Q, F)
  BY <1>1, <1>2, RemoveHolds
<1>5. ps \in SUBSET (1 .. Len(Q))
  BY <1>2, <1>4
<1>6. ASSUME NEW p \in (1 .. Len(Q)) \ ps
      PROVE  F[Q[p]].mQueuePosition = p
  <2>1. p \in 1 .. pos - 1 /\ p \in 1 .. Len(queue) /\ p # pos
    BY <1>1, <1>2, <1>4
  <2>2. Q[p] = queue[p] /\ queue[p] # c /\ queue[p] \in Controls
    BY <2>1, <1>1, <1>2, <1>4 DEF Holds
  <2> QED BY <2>1, <2>2, <1>1 DEF Exact
<1>14. ExactOutside(Q, ps, F)
  BY <1>5, <1>6 DEF ExactOutside
<1>7. \A d \in Controls : d # c => F[d] = ctl[d]
  BY <1>1
<1>8. F[c].mState = "DELETED"
  BY <1>1 DEF Deleted
<1> HIDE DEF Q, F, ps
<1>9. /\ ctl' \in [Controls -> Control]
      /\ Exact(Q, ctl')
      /\ Holds(Q, ctl')
      /\ \A d \in Controls : Placed(ctl'[d], max_active) \/ ctl'[d] = F[d]
  BY <1>1, <1>3, <1>4, <1>14, Settle
<1>10. Kept
  BY <1>3, <1>4, <1>9 DEF Kept
<1>11. \A d \in Controls : ctl'[d].mState # "DELETED" <=> F[d].mState # "DELETED"
  BY <1>4, <1>9 DEF Holds
<1>12. Calm
  <2>1. \A d \in Controls : ctl'[d].mState = "DELETED" \/ Placed(ctl'[d], max_active)
                             \/ ctl'[d] = ctl[d]
    BY <1>7, <1>8, <1>9
  <2> QED BY <2>1, PlacedIsCalm
<1>13. PositionsExact' /\ QueueIsLive'
  <2>1. mDownloads' \subseteq Controls /\ \A d \in mDownloads' : ctl'[d].mState # "DELETED"
    BY <1>1, <1>3, <1>7, <1>11
  <2>2. \A d, e \in mDownloads' : HashOf(d) = HashOf(e) => d = e
    BY <1>3 DEF IInv, QueueIsLive
  <2> QED BY <2>1, <2>2, <1>10, Assemble
<1> QED BY <1>1, <1>3, <1>10, <1>12, <1>13

\* A new control enters at the end (locked_addToQueue) and replaces the
\* download of its hash in the map.
LEMMA InsertStep ==
  ASSUME IInv, NEW c \in Controls, c \notin Live, max_active' = max_active,
         addToQueue(c, [mState |-> "DOWNLOADING", mQueuePosition |-> 0, finished |-> FALSE]),
         mDownloads' = {d \in mDownloads : HashOf(d) # HashOf(c)} \cup {c}
  PROVE  /\ Kept
         /\ Calm
         /\ PositionsExact' /\ QueueIsLive'
         /\ mDownloads' \subseteq Controls
<1> DEFINE fc == [mState |-> "DOWNLOADING", mQueuePosition |-> 0, finished |-> FALSE]
           Q == Append(queue, c)
           F == [ctl EXCEPT ![c] = fc]
           ps == {Len(Q)}
<1>1. /\ queue \in Seq(Controls) /\ Len(queue) \in Nat /\ Holds(queue, ctl)
      /\ Exact(queue, ctl)
      /\ ctl \in [Controls -> Control] /\ max_active \in Nat
      /\ \A d \in mDownloads : d \in Controls /\ ctl[d].mState # "DELETED"
  BY Sound
<1>2. /\ queue' = Q
      /\ ctl' = Checked(Q, ps, F, max_active)
  BY DEF addToQueue
<1>3. /\ Q \in Seq(Controls) /\ Len(Q) = Len(queue) + 1 /\ Q[Len(Q)] = c
      /\ \A p \in 1 .. Len(queue) : Q[p] = queue[p]
  BY <1>1
<1>4. fc \in Control /\ fc.mState # "DELETED" /\ Placed(fc, max_active)
  BY <1>1 DEF Control, FileStates, Placed
<1> HIDE DEF fc, Q
<1>5. /\ F \in [Controls -> Control]
      /\ F[c] = fc
      /\ \A d \in Controls : d # c => F[d] = ctl[d]
  BY <1>1, <1>4
<1> HIDE DEF F
<1>6. \A p \in 1 .. Len(queue) : queue[p] \in Controls /\ queue[p] # c
  BY <1>1 DEF Holds, Live
<1>7. Holds(Q, F)
  <2>1. \A i, j \in 1 .. Len(Q) : Q[i] = Q[j] => i = j
    <3> SUFFICES ASSUME NEW i \in 1 .. Len(Q), NEW j \in 1 .. Len(Q), Q[i] = Q[j]
                 PROVE  i = j
      OBVIOUS
    <3>1. CASE i \in 1 .. Len(queue) /\ j \in 1 .. Len(queue)
      BY <3>1, <1>1, <1>3 DEF Holds
    <3>2. CASE ~(i \in 1 .. Len(queue) /\ j \in 1 .. Len(queue))
      BY <3>2, <1>1, <1>3, <1>6
    <3> QED BY <3>1, <3>2
  <2>2. ASSUME NEW d \in Controls
        PROVE  F[d].mState # "DELETED" <=> \E p \in 1 .. Len(Q) : Q[p] = d
    <3>1. CASE d = c
      BY <3>1, <1>1, <1>3, <1>4, <1>5
    <3>2. CASE d # c
      <4>1. (\E p \in 1 .. Len(Q) : Q[p] = d) <=> \E p \in 1 .. Len(queue) : queue[p] = d
        BY <3>2, <1>1, <1>3
      <4> QED BY <4>1, <3>2, <1>1, <1>5 DEF Holds
    <3> QED BY <3>1, <3>2
  <2> QED BY <2>1, <2>2 DEF Holds
<1>8. ExactOutside(Q, ps, F)
  <2>1. ps \subseteq 1 .. Len(Q)
    BY <1>1, <1>3
  <2>2. ASSUME NEW p \in (1 .. Len(Q)) \ ps
        PROVE  F[Q[p]].mQueuePosition = p
    <3>1. p \in 1 .. Len(queue)
      BY <1>1, <1>3
    <3> QED BY <3>1, <1>1, <1>3, <1>5, <1>6 DEF Exact
  <2> QED BY <2>1, <2>2 DEF ExactOutside
<1> HIDE DEF ps
<1>9. /\ ctl' \in [Controls -> Control]
      /\ Exact(Q, ctl')
      /\ Holds(Q, ctl')
      /\ \A d \in Controls : Placed(ctl'[d], max_active) \/ ctl'[d] = F[d]
  BY <1>1, <1>2, <1>3, <1>5, <1>7, <1>8, Settle
<1>10. Kept
  BY <1>2, <1>3, <1>9 DEF Kept
<1>11. \A d \in Controls : ctl'[d].mState # "DELETED" <=> F[d].mState # "DELETED"
  BY <1>7, <1>9 DEF Holds
<1>12. Calm
  <2>1. \A d \in Controls : Placed(ctl'[d], max_active) \/ ctl'[d] = ctl[d]
    BY <1>4, <1>5, <1>9
  <2> QED BY <2>1, PlacedIsCalm
<1>13. PositionsExact' /\ QueueIsLive'
  <2>1. mDownloads' \subseteq Controls /\ \A d \in mDownloads' : ctl'[d].mState # "DELETED"
    BY <1>1, <1>4, <1>5, <1>11
  <2>2. \A d, e \in mDownloads' : HashOf(d) = HashOf(e) => d = e
    BY DEF IInv, QueueIsLive
  <2> QED BY <2>1, <2>2, <1>10, Assemble
<1> QED BY <1>1, <1>10, <1>12, <1>13

\* setQueueSize checks every element whose place among the slots changes.
LEMMA ResizeStep ==
  ASSUME IInv, NEW s \in QueueSizes, setQueueSize(s)
  PROVE  /\ Kept
         /\ Calm
         /\ \A c \in Controls : ctl[c].mState # "DELETED" => ctl'[c].mState # "DELETED"
<1> DEFINE ps == {p \in 1 .. Len(queue) : /\ Lesser(s, max_active) < p
                                          /\ p <= Greater(s, max_active) + 1}
<1>1. /\ queue \in Seq(Controls) /\ ctl \in [Controls -> Control] /\ max_active \in Nat
      /\ Holds(queue, ctl) /\ Exact(queue, ctl)
  BY Sound
<1>2. s \in Nat
  BY ControllerAssumption
<1>3. ExactOutside(queue, ps, ctl)
  BY <1>1 DEF Exact, ExactOutside
<1>4. queue' = queue /\ max_active' = s /\ ctl' = Checked(queue, ps, ctl, s)
  BY DEF setQueueSize
<1>5. /\ ctl' \in [Controls -> Control]
      /\ Exact(queue, ctl')
      /\ Holds(queue, ctl')
      /\ \A c \in Controls : Placed(ctl'[c], s) \/ ctl'[c] = ctl[c]
  <2> HIDE DEF ps
  <2> QED BY <1>1, <1>2, <1>3, <1>4, Settle
<1>6. Kept
  BY <1>1, <1>4, <1>5 DEF Kept
<1>7. ASSUME NEW c \in Controls, Misplaced(c)'
      PROVE  Misplaced(c)
  <2>1. ctl'[c].mState # "DELETED" /\ ~Placed(ctl'[c], s)
    BY <1>7, <1>4 DEF Misplaced, Placed, Live
  <2>2. ctl'[c] = ctl[c]
    BY <2>1, <1>5
  <2>3. PICK p \in 1 .. Len(queue) : queue[p] = c
    BY <2>1, <2>2, <1>1 DEF Holds
  <2>4. ctl[c].mQueuePosition = p
    BY <2>3, <1>1 DEF Exact
  <2>5. p \notin ps
    <3> SUFFICES ASSUME p \in ps
                 PROVE  FALSE
      OBVIOUS
    <3>1. (CHOOSE r \in ps : queue[r] = c) = p
      BY <2>3, <1>1 DEF Holds
    <3>2. ctl'[c] = checkQueueElement(ctl[c], p, s)
      BY <3>1, <2>3, <1>4 DEF Checked
    <3>3. ctl[c] \in Control /\ ctl[c].mState # "DELETED" /\ p \in Nat
      BY <2>1, <2>2, <1>1
    <3>4. Placed(ctl'[c], s)
      BY <3>2, <3>3, <1>2, ElementFacts
    <3> QED BY <3>4, <2>1
  <2>6. p <= s <=> p <= max_active
    BY <2>5, <1>1, <1>2 DEF Lesser, Greater
  <2> QED BY <2>1, <2>2, <2>4, <2>6, <1>1, <1>2 DEF Misplaced, Placed, Live
<1>8. Calm
  BY <1>7 DEF Calm
<1> QED BY <1>1, <1>5, <1>6, <1>8 DEF Holds

-----------------------------------------------------------------------------
(* Every step keeps the invariant. *)

\* The invariant holds initially.
LEMMA InitInv == Init => IInv
<1> SUFFICES ASSUME Init PROVE IInv
  OBVIOUS
<1> USE DEF Init
<1>1. ControllerTypeOK
  <2>1. ctl \in [Controls -> Control]
    BY DEF Deleted, Control
  <2>2. mPendingChunkMaps \in [Hashes -> FileStates \cup {"none"}]
    OBVIOUS
  <2>3. asked \in [Users -> Hashes \cup {Idle}] /\ request \in [Threads -> Hashes \cup {Idle}]
    OBVIOUS
  <2>4. queue \in Seq(Controls) /\ mPendingRequests \in Seq([hash : Hashes, state : FileStates])
    OBVIOUS
  <2>5. mFtActive \in BOOLEAN
    OBVIOUS
  <2> QED BY <2>1, <2>2, <2>3, <2>4, <2>5 DEF ControllerTypeOK
<1>2. PositionsExact
  BY DEF PositionsExact
<1>3. QueueIsLive
  BY DEF QueueIsLive, Live, Deleted
<1>4. LeftDownloaded
  BY DEF LeftDownloaded
<1> QED BY <1>1, <1>2, <1>3, <1>4 DEF IInv

\* The variables that queue operations do not touch keep their types.
OtherTypes ==
  /\ max_active \in QueueSizes
  /\ mCompleted \subseteq Hashes
  /\ mDone \subseteq Hashes
  /\ mFtActive \in BOOLEAN
  /\ mPendingRequests \in Seq([hash : Hashes, state : FileStates])
  /\ mPendingChunkMaps \in [Hashes -> FileStates \cup {"none"}]
  /\ asked \in [Users -> Hashes \cup {Idle}]
  /\ request \in [Threads -> Hashes \cup {Idle}]
  /\ restoring \in Hashes \cup {Idle}
  /\ toCancel \subseteq Hashes
  /\ check \in {"no", "inactive", "priorities"}
  /\ left \subseteq Hashes
  /\ moved \in Nat

\* The invariant from its parts, for the next state.
LEMMA IInvParts ==
  ASSUME Kept, mDownloads' \subseteq Controls, OtherTypes', PositionsExact', QueueIsLive',
         LeftDownloaded'
  PROVE  IInv'
BY DEF IInv, ControllerTypeOK, Kept, OtherTypes

\* A step that reorders the queue, with the same downloads, keeps the invariant.
LEMMA ReorderInv ==
  ASSUME IInv, Kept, mDownloads' = mDownloads, OtherTypes', LeftDownloaded',
         \A c \in Controls : ctl[c].mState # "DELETED" => ctl'[c].mState # "DELETED"
  PROVE  IInv'
<1>1. mDownloads' \subseteq Controls /\ \A c \in mDownloads' : ctl'[c].mState # "DELETED"
  BY Sound
<1>2. \A c, d \in mDownloads' : HashOf(c) = HashOf(d) => c = d
  BY DEF IInv, QueueIsLive
<1> QED BY <1>1, <1>2, Assemble, IInvParts

\* Steps that leave the queue and the controls alone.
LEMMA QueueUnchanged ==
  ASSUME IInv, UNCHANGED queueVars, OtherTypes', LeftDownloaded'
  PROVE  IInv' /\ Calm
<1>1. Kept
  BY Sound DEF Kept, queueVars
<1>2. IInv'
  BY <1>1, ReorderInv DEF queueVars
<1>3. Calm
  BY PlacedIsCalm DEF queueVars
<1> QED BY <1>2, <1>3

\* Steps that change one download's state or finished flag, not its position.
LEMMA ControlChanged ==
  ASSUME IInv, NEW c \in mDownloads, NEW fc \in Control, fc.mState # "DELETED",
         fc.mQueuePosition = ctl[c].mQueuePosition, ctl' = [ctl EXCEPT ![c] = fc],
         queue' = queue, mDownloads' = mDownloads, max_active' = max_active,
         OtherTypes', LeftDownloaded'
  PROVE  IInv' /\ (fc.mState \in {"PAUSED", ctl[c].mState} => Calm)
<1>1. /\ queue \in Seq(Controls) /\ Holds(queue, ctl) /\ Exact(queue, ctl)
      /\ ctl \in [Controls -> Control]
      /\ c \in Controls /\ ctl[c].mState # "DELETED"
  BY Sound
<1>2. /\ ctl' \in [Controls -> Control]
      /\ ctl'[c] = fc
      /\ \A d \in Controls : d # c => ctl'[d] = ctl[d]
  BY <1>1
<1>3. \A d \in Controls : /\ ctl'[d].mState # "DELETED" <=> ctl[d].mState # "DELETED"
                           /\ ctl'[d].mQueuePosition = ctl[d].mQueuePosition
  BY <1>1, <1>2
<1>4. Kept
  <2>1. Holds(queue, ctl')
    BY <1>1, <1>3 DEF Holds
  <2>2. \A p \in 1 .. Len(queue) : queue[p] \in Controls
    BY <1>1
  <2>3. Exact(queue, ctl')
    BY <2>2, <1>1, <1>3 DEF Exact
  <2> QED BY <2>1, <2>3, <1>1, <1>2 DEF Kept
<1>5. IInv'
  BY <1>3, <1>4, ReorderInv
<1>6. ASSUME fc.mState \in {"PAUSED", ctl[c].mState}
      PROVE  Calm
  BY <1>6, <1>1, <1>2, <1>3 DEF Calm, Misplaced, Live
<1> QED BY <1>5, <1>6

\* Cancelling or completing: the download is removed, or nothing happens.
LEMMA CancelInv ==
  ASSUME IInv, NEW h, CancelDownload(h), max_active' = max_active, OtherTypes', CtrlFree,
         check' = check
  PROVE  IInv' /\ Calm
<1>1. LeftDownloaded'
  BY DEF LeftDownloaded, CtrlFree
<1>2. CASE Downloading(h) /\ ~ctl[Find(h)].finished
  <2>1. queueRemove(Find(h)) /\ Find(h) \in mDownloads
    BY <1>2, FindFacts DEF CancelDownload
  <2> QED BY <2>1, <1>1, RemoveStep, IInvParts
<1>3. CASE ~(Downloading(h) /\ ~ctl[Find(h)].finished)
  BY <1>1, <1>3, QueueUnchanged DEF CancelDownload, queueVars
<1> QED BY <1>2, <1>3

\* The calls of the user.
LEMMA UserInv ==
  ASSUME IInv, UserCall
  PROVE  IInv' /\ (Calm \/ \E h \in Hashes : start(h))
<1> USE DEF requestVars, checkVars
<1>0. OtherTypes
  BY DEF IInv, ControllerTypeOK, OtherTypes
<1>1. ASSUME NEW h \in Hashes, moveInQueue(h)
      PROVE  IInv' /\ Calm
  <2>1. OtherTypes' /\ LeftDownloaded' /\ max_active' = max_active /\ mDownloads' = mDownloads
    BY <1>0, <1>1 DEF moveInQueue, OtherTypes, LeftDownloaded, CtrlFree
  <2> DEFINE pos == ctl[Find(h)].mQueuePosition
  <2>2. pos \in 1 .. Len(queue) /\ Len(queue) \in Nat
    BY <1>1, FindFacts, PositionOf, Sound DEF moveInQueue
  <2>3. \/ topQueue(pos)
        \/ bottomQueue(pos)
        \/ pos > 1 /\ swapQueue(pos, pos - 1)
        \/ pos < Len(queue) /\ swapQueue(pos, pos + 1)
    BY <1>1 DEF moveInQueue
  <2> HIDE DEF pos
  <2>4. CASE topQueue(pos)
    BY <2>1, <2>2, <2>4, TopStep, ReorderInv
  <2>5. CASE bottomQueue(pos)
    BY <2>1, <2>2, <2>5, BottomStep, ReorderInv
  <2>6. CASE pos > 1 /\ swapQueue(pos, pos - 1)
    <3>1. pos - 1 \in 1 .. Len(queue)
      BY <2>2, <2>6
    <3> QED BY <2>1, <2>2, <2>6, <3>1, SwapStep, ReorderInv
  <2>7. CASE pos < Len(queue) /\ swapQueue(pos, pos + 1)
    <3>1. pos + 1 \in 1 .. Len(queue)
      BY <2>2, <2>7
    <3> QED BY <2>1, <2>2, <2>7, <3>1, SwapStep, ReorderInv
  <2> QED BY <2>3, <2>4, <2>5, <2>6, <2>7
<1>2. ASSUME NEW h \in Hashes, NEW s \in {"PAUSED", "DOWNLOADING"}, FileControl(h, s)
      PROVE  IInv' /\ (s = "PAUSED" => Calm)
  <2> DEFINE c == Find(h)
             fc == [ctl[c] EXCEPT !.mState = s]
  <2>1. /\ OtherTypes' /\ LeftDownloaded' /\ max_active' = max_active
        /\ mDownloads' = mDownloads /\ queue' = queue
    BY <1>0, <1>2 DEF FileControl, OtherTypes, LeftDownloaded, CtrlFree
  <2>2. c \in mDownloads /\ ctl[c] \in Control
    BY <1>2, FindFacts, Sound DEF FileControl
  <2>3. ctl' = [ctl EXCEPT ![c] = fc]
    BY <1>2 DEF FileControl
  <2>4. /\ fc \in Control /\ fc.mState = s
        /\ fc.mQueuePosition = ctl[c].mQueuePosition
    BY <2>2 DEF Control, FileStates
  <2> HIDE DEF c, fc
  <2> QED BY <2>1, <2>2, <2>3, <2>4, ControlChanged
<1>3. ASSUME NEW h \in Hashes, FileCancel(h)
      PROVE  IInv' /\ Calm
  <2>1. OtherTypes'
    BY <1>0, <1>3 DEF FileCancel, OtherTypes
  <2> QED BY <2>1, <1>3, CancelInv DEF FileCancel
<1>4. ASSUME NEW t \in Users, keepRequest(t)
      PROVE  IInv' /\ Calm
  <2>1. asked[t] \in Hashes
    BY <1>0, <1>4 DEF keepRequest, OtherTypes
  <2>2. mPendingRequests' \in Seq([hash : Hashes, state : FileStates])
    BY <2>1, <1>0, <1>4 DEF keepRequest, OtherTypes, FileStates
  <2>3. OtherTypes' /\ LeftDownloaded'
    BY <2>2, <1>0, <1>4 DEF keepRequest, OtherTypes, LeftDownloaded, CtrlFree, queueVars
  <2> QED BY <2>3, <1>4, QueueUnchanged DEF keepRequest
<1>5. ASSUME NEW s \in QueueSizes, setQueueSize(s)
      PROVE  IInv' /\ Calm
  <2>1. OtherTypes' /\ LeftDownloaded' /\ mDownloads' = mDownloads
    BY <1>0, <1>5 DEF setQueueSize, OtherTypes, LeftDownloaded, CtrlFree
  <2> QED BY <2>1, <1>5, ResizeStep, ReorderInv
<1>6. ASSUME NEW t \in Users, FileRequest(t)
      PROVE  IInv' /\ Calm
  <2>1. asked[t] \in Hashes
    BY <1>0, <1>6 DEF FileRequest, OtherTypes
  <2>2. OtherTypes' /\ LeftDownloaded'
    BY <2>1, <1>0, <1>6 DEF FileRequest, OtherTypes, LeftDownloaded, CtrlFree, Threads, queueVars
  <2> QED BY <2>2, <1>6, QueueUnchanged DEF FileRequest
<1>10. ASSUME NEW t \in Users, NEW h \in Hashes, alreadyHaveFile(t, h)
       PROVE  IInv' /\ Calm
  <2>1. OtherTypes' /\ LeftDownloaded'
    BY <1>0, <1>10 DEF alreadyHaveFile, OtherTypes, LeftDownloaded, CtrlFree, queueVars
  <2> QED BY <2>1, <1>10, QueueUnchanged DEF alreadyHaveFile
<1>11. ASSUME NEW h \in Hashes, forceCheck(h)
       PROVE  IInv' /\ Calm
  <2> DEFINE c == Find(h)
             fc == [ctl[c] EXCEPT !.finished = FALSE]
  <2>1. /\ OtherTypes' /\ LeftDownloaded' /\ max_active' = max_active
        /\ mDownloads' = mDownloads /\ queue' = queue
    BY <1>0, <1>11 DEF forceCheck, OtherTypes, LeftDownloaded, CtrlFree
  <2>2. c \in mDownloads /\ ctl[c] \in Control /\ ctl[c].mState # "DELETED"
    BY <1>11, FindFacts, Sound DEF forceCheck
  <2>3. ctl' = [ctl EXCEPT ![c] = fc]
    BY <1>11 DEF forceCheck
  <2>4. /\ fc \in Control /\ fc.mState = ctl[c].mState
        /\ fc.mQueuePosition = ctl[c].mQueuePosition
    BY <2>2 DEF Control
  <2> HIDE DEF c, fc
  <2> QED BY <2>1, <2>2, <2>3, <2>4, ControlChanged
<1>7. ASSUME FileClearCompleted
      PROVE  IInv' /\ Calm
  <2>1. OtherTypes' /\ LeftDownloaded'
    BY <1>0, <1>7 DEF FileClearCompleted, OtherTypes, LeftDownloaded, CtrlFree, queueVars
  <2> QED BY <2>1, <1>7, QueueUnchanged DEF FileClearCompleted
<1>8. ASSUME NEW h \in Hashes, pause(h)
      PROVE  IInv' /\ Calm
  BY <1>2, <1>8 DEF pause
<1>9. ASSUME NEW h \in Hashes, start(h)
      PROVE  IInv'
  BY <1>2, <1>9 DEF start
<1> QED BY <1>1, <1>3, <1>4, <1>5, <1>6, <1>7, <1>8, <1>9, <1>10, <1>11 DEF UserCall

\* The steps of data_tick.
LEMMA TickInv ==
  ASSUME IInv, DataTick
  PROVE  IInv' /\ (Calm \/ restoreState)
<1> USE DEF requestVars, checkVars
<1>0. OtherTypes /\ mDownloads \subseteq Controls
  BY DEF IInv, ControllerTypeOK, OtherTypes
<1>h. \A c \in mDownloads : HashOf(c) \in Hashes
  BY <1>0 DEF Controls, HashOf
<1>1. ASSUME handleAPendingRequest
      PROVE  IInv' /\ Calm
  <2>1. /\ Head(mPendingRequests) \in [hash : Hashes, state : FileStates]
        /\ Tail(mPendingRequests) \in Seq([hash : Hashes, state : FileStates])
    <3> DEFINE R == [hash : Hashes, state : FileStates]
    <3>1. mPendingRequests \in Seq(R) /\ mPendingRequests # <<>>
      BY <1>0, <1>1 DEF handleAPendingRequest, OtherTypes
    <3> HIDE DEF R
    <3>2. Head(mPendingRequests) \in R /\ Tail(mPendingRequests) \in Seq(R)
      BY <3>1
    <3> QED BY <3>2 DEF R
  <2>2. restoring' \in Hashes \cup {Idle} /\ request' \in [Threads -> Hashes \cup {Idle}]
    BY <2>1, <1>0, <1>1 DEF handleAPendingRequest, OtherTypes, Threads
  <2>3. OtherTypes' /\ LeftDownloaded'
    BY <2>1, <2>2, <1>0, <1>1
       DEF handleAPendingRequest, OtherTypes, LeftDownloaded, CtrlFree, queueVars
  <2> QED BY <2>3, <1>1, QueueUnchanged DEF handleAPendingRequest
<1>2. ASSUME restoreState
      PROVE  IInv'
  <2>1. /\ OtherTypes' /\ LeftDownloaded' /\ max_active' = max_active
        /\ mDownloads' = mDownloads /\ queue' = queue
    <3>1. mPendingChunkMaps' \in [Hashes -> FileStates \cup {"none"}]
      BY <1>0, <1>2 DEF restoreState, OtherTypes
    <3> QED BY <3>1, <1>0, <1>2 DEF restoreState, OtherTypes, LeftDownloaded, CtrlFree
  <2>2. CASE mPendingChunkMaps[restoring] # "none" /\ Downloading(restoring)
    <3> DEFINE c == Find(restoring)
               s == mPendingChunkMaps[restoring]
               fc == [ctl[c] EXCEPT !.mState = s]
    <3>1. c \in mDownloads /\ ctl[c] \in Control
      BY <2>2, FindFacts, Sound
    <3>2. s \in FileStates
      BY <2>2, <1>0, <1>2 DEF restoreState, OtherTypes
    <3>3. ctl' = [ctl EXCEPT ![c] = fc]
      BY <2>2, <1>2 DEF restoreState
    <3> HIDE DEF c, s
    <3>4. /\ fc \in Control /\ fc.mState # "DELETED"
          /\ fc.mQueuePosition = ctl[c].mQueuePosition
      BY <3>1, <3>2 DEF Control, FileStates
    <3> HIDE DEF fc
    <3> QED BY <2>1, <3>1, <3>3, <3>4, ControlChanged
  <2>3. CASE ~(mPendingChunkMaps[restoring] # "none" /\ Downloading(restoring))
    <3>1. ctl' = ctl
      BY <2>3, <1>2 DEF restoreState
    <3> QED BY <3>1, <2>1, QueueUnchanged DEF queueVars
  <2> QED BY <2>2, <2>3
<1>3. ASSUME cleanCacheDownloads
      PROVE  IInv' /\ Calm
  <2>1. toCancel' \subseteq Hashes
    BY <1>h, <1>3 DEF cleanCacheDownloads
  <2>2. OtherTypes' /\ LeftDownloaded'
    BY <2>1, <1>0, <1>3 DEF cleanCacheDownloads, OtherTypes, LeftDownloaded, CtrlFree, queueVars
  <2> QED BY <2>2, <1>3, QueueUnchanged DEF cleanCacheDownloads
<1>4. ASSUME cancelCache
      PROVE  IInv' /\ Calm
  <2>1. PICK h \in toCancel : CancelDownload(h) /\ toCancel' = toCancel \ {h}
    BY <1>4 DEF cancelCache
  <2>2. OtherTypes'
    BY <2>1, <1>0, <1>4 DEF cancelCache, OtherTypes
  <2> QED BY <2>1, <2>2, <1>4, CancelInv DEF cancelCache
<1>5. ASSUME tickTransfers
      PROVE  IInv' /\ Calm
  <2>1. mDone' \subseteq Hashes
    BY <1>h, <1>5 DEF tickTransfers
  <2>2. OtherTypes' /\ LeftDownloaded'
    BY <2>1, <1>0, <1>5 DEF tickTransfers, OtherTypes, LeftDownloaded, CtrlFree, queueVars
  <2> QED BY <2>2, <1>5, QueueUnchanged DEF tickTransfers
<1>6. ASSUME NEW h \in mDone, completeFile(h)
      PROVE  IInv' /\ Calm
  <2>1. OtherTypes' /\ LeftDownloaded' /\ max_active' = max_active
    BY <1>0, <1>6 DEF completeFile, OtherTypes, LeftDownloaded, CtrlFree
  <2>2. CASE Downloading(h) /\ ctl[Find(h)].finished
    <3>1. queueRemove(Find(h)) /\ Find(h) \in mDownloads
      BY <2>2, <1>6, FindFacts DEF completeFile
    <3> QED BY <3>1, <2>1, RemoveStep, IInvParts
  <2>3. CASE ~(Downloading(h) /\ ctl[Find(h)].finished)
    BY <2>1, <2>3, <1>6, QueueUnchanged DEF completeFile, queueVars
  <2> QED BY <2>2, <2>3
<1>7. ASSUME checkDownloadQueue
      PROVE  IInv' /\ Calm
  <2>1. PICK S \in SUBSET {c \in mDownloads : ctl[c].mState = "DOWNLOADING"} :
          left' = {HashOf(c) : c \in S \cup {d \in mDownloads : ctl[d].mState = "PAUSED"}}
    BY <1>7 DEF checkDownloadQueue
  <2>2. \A h \in left' : h \in Hashes /\ Downloading(h)
    BY <2>1, <1>h DEF Downloading
  <2>3. mDownloads' = mDownloads
    BY <1>7 DEF checkDownloadQueue, queueVars
  <2>4. LeftDownloaded'
    BY <2>2, <2>3 DEF LeftDownloaded, Downloading
  <2>5. OtherTypes'
    BY <2>2, <1>0, <1>7 DEF checkDownloadQueue, OtherTypes, queueVars
  <2> QED BY <2>4, <2>5, <1>7, QueueUnchanged DEF checkDownloadQueue
<1>8. ASSUME moveInactive
      PROVE  IInv' /\ Calm
  <2>1. PICK h \in left : /\ bottomQueue(ctl[Find(h)].mQueuePosition)
                          /\ left' = {g \in left \ {h} : ctl'[Find(g)].mState # "QUEUED"}
    BY <1>8 DEF moveInactive
  <2>2. Downloading(h)
    BY <1>8 DEF IInv, LeftDownloaded, moveInactive
  <2>3. ctl[Find(h)].mQueuePosition \in 1 .. Len(queue)
    BY <2>2, FindFacts, PositionOf
  <2>4. OtherTypes' /\ max_active' = max_active /\ mDownloads' = mDownloads
    BY <2>1, <1>0, <1>8 DEF moveInactive, OtherTypes
  <2>5. LeftDownloaded'
    BY <2>1, <2>4, <1>8 DEF IInv, LeftDownloaded, moveInactive, Downloading
  <2> QED BY <2>1, <2>3, <2>4, <2>5, BottomStep, ReorderInv
<1>9. ASSUME inactiveDone
      PROVE  IInv' /\ Calm
  <2>1. OtherTypes' /\ LeftDownloaded'
    BY <1>0, <1>9 DEF inactiveDone, OtherTypes, LeftDownloaded, queueVars
  <2> QED BY <2>1, <1>9, QueueUnchanged DEF inactiveDone
<1>10. ASSUME prioritize
       PROVE  IInv' /\ Calm
  <2>1. PICK i \in 1 .. Len(queue), j \in 1 .. Len(queue) : swapQueue(i, j)
    BY <1>10 DEF prioritize, to_move_before, to_move_after
  <2>2. OtherTypes' /\ LeftDownloaded' /\ max_active' = max_active /\ mDownloads' = mDownloads
    BY <1>0, <1>10 DEF prioritize, OtherTypes, LeftDownloaded
  <2> QED BY <2>1, <2>2, SwapStep, ReorderInv
<1>11. ASSUME prioritiesDone
       PROVE  IInv' /\ Calm
  <2>1. OtherTypes' /\ LeftDownloaded'
    BY <1>0, <1>11 DEF prioritiesDone, OtherTypes, LeftDownloaded, queueVars
  <2> QED BY <2>1, <1>11, QueueUnchanged DEF prioritiesDone
<1> QED BY <1>1, <1>2, <1>3, <1>4, <1>5, <1>6, <1>7, <1>8, <1>9, <1>10, <1>11 DEF DataTick

\* What saveList writes can be read again: a list of requests.
LEMMA SavedList ==
  ASSUME IInv, NEW n \in Nat, NEW s \in [1 .. n -> Saved]
  PROVE  [i \in 1 .. n |-> [hash |-> HashOf(s[i]), state |-> ctl[s[i]].mState]] \o SavedPending
           \in Seq([hash : Hashes, state : FileStates])
<1> DEFINE R == [hash : Hashes, state : FileStates]
           a == [i \in 1 .. n |-> [hash |-> HashOf(s[i]), state |-> ctl[s[i]].mState]]
<1>1. ASSUME NEW c \in mDownloads
      PROVE  HashOf(c) \in Hashes /\ ctl[c].mState \in FileStates
  BY Sound DEF Controls, HashOf, Control
<1>2. \A i \in 1 .. n : a[i] \in R
  BY <1>1 DEF Saved
<1>3. \A i \in 1 .. Len(mPendingRequests) : SavedPending[i] \in R
  <2>1. /\ mPendingRequests \in Seq(R)
        /\ mPendingChunkMaps \in [Hashes -> FileStates \cup {"none"}]
    BY DEF IInv, ControllerTypeOK
  <2> SUFFICES ASSUME NEW i \in 1 .. Len(mPendingRequests)
               PROVE  SavedPending[i] \in R
    OBVIOUS
  <2>2. mPendingRequests[i] \in R
    <3> HIDE DEF R
    <3> QED BY <2>1
  <2> QED BY <2>1, <2>2 DEF SavedPending
<1> DEFINE m == Len(mPendingRequests)
<1>4. m \in Nat
  BY DEF IInv, ControllerTypeOK
<1>5. a \in [1 .. n -> R] /\ SavedPending \in [1 .. m -> R]
  BY <1>2, <1>3 DEF SavedPending
<1> HIDE DEF R, a, m
<1>6. a \in Seq(R) /\ SavedPending \in Seq(R)
  BY <1>4, <1>5
<1>7. a \o SavedPending \in Seq(R)
  BY <1>6
<1> QED BY <1>7 DEF R, a

\* A restart: the queue is empty, and what was saved waits for activation.
LEMMA RestartInv ==
  ASSUME IInv, Restart
  PROVE  IInv' /\ Calm
<1> DEFINE R == [hash : Hashes, state : FileStates]
<1>1. PICK list \in Seq(R) : loadList(list)
  <2>1. PICK n \in 0 .. MaxPending : \E s \in [1 .. n -> Saved] :
          loadList([i \in 1 .. n |-> [hash |-> HashOf(s[i]), state |-> ctl[s[i]].mState]]
                     \o SavedPending)
    BY DEF Restart
  <2>2. PICK s \in [1 .. n -> Saved] :
          loadList([i \in 1 .. n |-> [hash |-> HashOf(s[i]), state |-> ctl[s[i]].mState]]
                     \o SavedPending)
    BY <2>1
  <2>3. n \in Nat
    BY ControllerAssumption
  <2> QED BY <2>2, <2>3, SavedList
<1>2. /\ queue' = <<>> /\ mDownloads' = {} /\ ctl' = [c \in Controls |-> Deleted]
      /\ max_active' = max_active
  BY DEF Restart
<1>3. ctl' \in [Controls -> Control] /\ \A c \in Controls : ctl'[c].mState = "DELETED"
  BY <1>2 DEF Deleted, Control
<1>4. OtherTypes'
  <2>1. mPendingRequests' \in Seq(R) /\ mPendingChunkMaps' \in [Hashes -> FileStates \cup {"none"}]
    BY <1>1 DEF loadList
  <2> QED BY <2>1 DEF IInv, ControllerTypeOK, OtherTypes, Restart, checkVars
<1>5. Kept
  BY <1>2, <1>3 DEF Kept, Holds, Exact
<1>6. PositionsExact' /\ QueueIsLive' /\ LeftDownloaded'
  BY <1>2, <1>3 DEF PositionsExact, QueueIsLive, Live, LeftDownloaded, Restart, CtrlFree, checkVars
<1>7. Calm
  BY <1>3 DEF Calm, Misplaced, Live
<1> QED BY <1>2, <1>4, <1>5, <1>6, <1>7, IInvParts

\* The steps outside the user's calls and data_tick.
LEMMA InsertInv ==
  ASSUME IInv, NEW t \in Threads, insertDownload(t)
  PROVE  IInv' /\ Calm
<1>0. OtherTypes
  BY DEF IInv, ControllerTypeOK, OtherTypes
<1>1. request[t] \in Hashes
  BY <1>0 DEF OtherTypes, insertDownload
<1>2. PICK k \in Copies :
        LET c == <<request[t], k>> IN
        /\ c \notin Live
        /\ addToQueue(c, [mState |-> "DOWNLOADING", mQueuePosition |-> 0, finished |-> FALSE])
        /\ mDownloads' = {d \in mDownloads : HashOf(d) # request[t]} \cup {c}
  BY DEF insertDownload
<1> DEFINE c == <<request[t], k>>
<1>3. c \in Controls /\ HashOf(c) = request[t]
  BY <1>1 DEF Controls, HashOf
<1>4. /\ OtherTypes' /\ LeftDownloaded' /\ max_active' = max_active
  BY <1>0 DEF insertDownload, OtherTypes, LeftDownloaded, CtrlFree, checkVars
<1>5. /\ c \notin Live
      /\ addToQueue(c, [mState |-> "DOWNLOADING", mQueuePosition |-> 0, finished |-> FALSE])
      /\ mDownloads' = {d \in mDownloads : HashOf(d) # HashOf(c)} \cup {c}
  BY <1>2, <1>3
<1> HIDE DEF c
<1> QED BY <1>3, <1>4, <1>5, InsertStep, IInvParts

\* Every step keeps the invariant, and only start and restoreState misplace a file.
LEMMA NextInv ==
  ASSUME IInv, [Next]_vars
  PROVE  IInv' /\ (Calm \/ restoreState \/ \E h \in Hashes : start(h))
<1>0. OtherTypes /\ LeftDownloaded
  BY DEF IInv, ControllerTypeOK, OtherTypes
<1>1. ASSUME NEW c \in mDownloads, finish(c)
      PROVE  IInv' /\ Calm
  <2> DEFINE fc == [ctl[c] EXCEPT !.finished = TRUE]
  <2>1. /\ OtherTypes' /\ max_active' = max_active
        /\ mDownloads' = mDownloads /\ queue' = queue /\ ctl' = [ctl EXCEPT ![c] = fc]
    BY <1>0, <1>1 DEF finish, OtherTypes, requestVars, checkVars
  <2>2. LeftDownloaded'
    BY <1>0, <1>1 DEF finish, LeftDownloaded, Downloading, checkVars
  <2>3. ctl[c] \in Control /\ ctl[c].mState # "DELETED"
    BY Sound
  <2>4. /\ fc \in Control /\ fc.mState = ctl[c].mState
        /\ fc.mQueuePosition = ctl[c].mQueuePosition
    BY <2>3 DEF Control
  <2> HIDE DEF fc
  <2> QED BY <2>1, <2>2, <2>3, <2>4, ControlChanged
<1>2. ASSUME activate
      PROVE  IInv' /\ Calm
  <2>1. OtherTypes'
    BY <1>0, <1>2 DEF activate, OtherTypes, checkVars, queueVars
  <2>2. LeftDownloaded'
    BY <1>0, <1>2 DEF activate, LeftDownloaded, Downloading, checkVars, queueVars
  <2> QED BY <2>1, <2>2, <1>2, QueueUnchanged DEF activate
<1>3. ASSUME UNCHANGED vars
      PROVE  IInv' /\ Calm
  <2>1. OtherTypes'
    BY <1>0, <1>3 DEF vars, OtherTypes, requestVars, checkVars, queueVars
  <2>2. LeftDownloaded'
    BY <1>0, <1>3 DEF vars, LeftDownloaded, Downloading, checkVars, queueVars
  <2>3. UNCHANGED queueVars
    BY <1>3 DEF vars
  <2> QED BY <2>1, <2>2, <2>3, QueueUnchanged
<1> QED BY <1>1, <1>2, <1>3, UserInv, TickInv, InsertInv, RestartInv DEF Next

-----------------------------------------------------------------------------
(* The theorems. *)

\* The inductive invariant of the queue holds in every behaviour of the
\* controller, for any number of files, threads and queue sizes.
THEOREM QueueInvariance == Spec => []IInv
<1>1. IInv /\ [Next]_vars => IInv'
  BY NextInv
<1> QED BY InitInv, <1>1, PTL DEF Spec

\* The members of ftController and of its file controls have their types.
THEOREM ControllerTypeCorrect == Spec => []ControllerTypeOK
<1>1. IInv => ControllerTypeOK
  BY DEF IInv
<1> QED BY QueueInvariance, <1>1, PTL

\* Every file control stores its own index in _queue, so locked_queueRemove
\* and locked_swapQueue always act on the file they are called for.
THEOREM PositionsCorrect == Spec => []PositionsExact
<1>1. IInv => PositionsExact
  BY DEF IInv
<1> QED BY QueueInvariance, <1>1, PTL

\* _queue holds each living file control once and no deleted one, and each
\* entry of mDownloads has a living control of its own.
THEOREM QueueSound == Spec => []QueueIsLive
<1>1. IInv => QueueIsLive
  BY DEF IInv
<1> QED BY QueueInvariance, <1>1, PTL

\* Only the user's start and handleAPendingRequest's restored state can put a
\* waiting file in an active slot or a downloaded one beyond the slots.
THEOREM StatesFollow == Spec => StateFollowsPosition
<1> DEFINE Follow == \A c \in Controls : Misplaced(c)' =>
                       Misplaced(c) \/ restoreState \/ (\E h \in Hashes : start(h))
<1>1. IInv /\ [Next]_vars => [Follow]_vars
  BY NextInv DEF Calm
<1> QED BY QueueInvariance, <1>1, PTL DEF Spec, StateFollowsPosition

=============================================================================
