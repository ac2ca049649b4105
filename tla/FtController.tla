---------------------------- MODULE FtController ----------------------------
(***************************************************************************)
(* The download queue of the controller (class ftController,               *)
(* ft/ftcontroller.{h,cc}): the vector _queue of file controls, the map    *)
(* mDownloads from hashes to file controls, the requests that wait for     *)
(* activation, the completed files, and the state each file is restored    *)
(* to after a restart.                                                     *)
(*                                                                         *)
(* A file control stores its own position (mQueuePosition), by which it is *)
(* moved and removed; its state follows the position: the first            *)
(* _max_active_downloads files are downloaded, the others wait.            *)
(*                                                                         *)
(* ctrlMutex is taken and released several times by FileRequest and        *)
(* handleAPendingRequest, so those are cut into steps.  The loops of       *)
(* checkDownloadQueue run with ctrlMutex held, one iteration a step.       *)
(* Positions count from 1 here, from 0 in the code.                        *)
(***************************************************************************)
EXTENDS Integers, Sequences, FiniteSets

CONSTANTS
  Hashes,           \* the files, as numbers in the order of std::map
  CacheHashes,      \* those requested with RS_FILE_REQ_CACHE
  Copies,           \* bound on the file controls of one hash, numbered
  MaxControls,      \* bound on the file controls of all hashes
  Users,            \* threads other than the controller's that call FileRequest
  QueueSizes,       \* the values of _max_active_downloads
  MinPrioritized,   \* _min_prioritized_transfers
  MaxPending        \* bound on the requests waiting for activation

Tick == "tick"      \* the controller's own thread
Idle == -1          \* a thread that handles no hash

ASSUME ControllerAssumption ==
  /\ Hashes \subseteq Nat
  /\ CacheHashes \subseteq Hashes
  /\ Copies \subseteq Nat
  /\ MaxControls \in Nat
  /\ Tick \notin Users
  /\ QueueSizes \subseteq Nat \ {0}
  /\ QueueSizes # {}
  /\ MinPrioritized \in Nat
  /\ MaxPending \in Nat

VARIABLES
  queue,            \* _queue
  mDownloads,       \* mDownloads: its file controls
  ctl,              \* what each file control holds
  max_active,       \* _max_active_downloads
  mCompleted,       \* mCompleted: its hashes
  mDone,            \* mDone
  mFtActive,        \* mFtActive
  mPendingRequests, \* mPendingRequests
  mPendingChunkMaps,\* mPendingChunkMaps: the saved state of each hash, or "none"
  asked,            \* the hash each user thread asked alreadyHaveFile about in FileRequest
  request,          \* the hash each thread is about to insert in FileRequest
  restoring,        \* the hash of handleAPendingRequest
  toCancel,         \* toCancel of cleanCacheDownloads
  check,            \* the loop of checkDownloadQueue that is running, or "no"
  left,             \* the inactive files that loop has not yet come to
  moved             \* nb_moved

queueVars == <<queue, mDownloads, ctl, max_active>>
requestVars == <<mFtActive, mPendingRequests, mPendingChunkMaps, asked, request, restoring>>
checkVars == <<check, left, moved>>
vars == <<queueVars, mCompleted, mDone, requestVars, toCancel, checkVars>>

Threads == Users \cup {Tick}

\* A file control is an object of its own: two of them may have the same hash.
Controls == Hashes \X Copies
HashOf(c) == c[1]

FileStates == {"DOWNLOADING", "QUEUED", "PAUSED"}
Control == [mState : FileStates \cup {"DELETED"}, mQueuePosition : Nat, finished : BOOLEAN]
Deleted == [mState |-> "DELETED", mQueuePosition |-> 0, finished |-> FALSE]
Live == {c \in Controls : ctl[c].mState # "DELETED"}

Downloading(h) == \E c \in mDownloads : HashOf(c) = h
Find(h) == CHOOSE c \in mDownloads : HashOf(c) = h

CtrlFree == check = "no"
TickIdle == request[Tick] = Idle /\ restoring = Idle /\ toCancel = {} /\ mDone = {}

-----------------------------------------------------------------------------
(* The queue.  Each operator gives a queue and the positions checked in it. *)

\* ftController::locked_checkQueueElement
checkQueueElement(fc, p, max) ==
  [mState |-> IF fc.mState = "PAUSED" THEN "PAUSED"
              ELSE IF p <= max THEN "DOWNLOADING" ELSE "QUEUED",
   mQueuePosition |-> p,
   finished |-> fc.finished]

\* The file controls after the elements at positions ps were checked.
Checked(q, ps, fcs, max) ==
  [c \in Controls |->
     IF \E p \in ps : q[p] = c
     THEN checkQueueElement(fcs[c], CHOOSE p \in ps : q[p] = c, max)
     ELSE fcs[c]]

WithoutElement(q, pos) == [p \in 1 .. Len(q) - 1 |-> IF p < pos THEN q[p] ELSE q[p + 1]]

ToBottom(q, pos) ==
  [p \in 1 .. Len(q) |-> IF p < pos THEN q[p] ELSE IF p < Len(q) THEN q[p + 1] ELSE q[pos]]

ToTop(q, pos) ==
  [p \in 1 .. Len(q) |-> IF p > pos THEN q[p] ELSE IF p > 1 THEN q[p - 1] ELSE q[pos]]

Swapped(q, i, j) ==
  [p \in 1 .. Len(q) |-> IF p = i THEN q[j] ELSE IF p = j THEN q[i] ELSE q[p]]

addToQueue(c, fc) ==
  LET q == Append(queue, c) IN
  /\ queue' = q
  /\ ctl' = Checked(q, {Len(q)}, [ctl EXCEPT ![c] = fc], max_active)

QueueRemoveForgets(c) ==
  /\ queue' = queue
  /\ ctl' = [ctl EXCEPT ![c] = Deleted]
  /\ mDownloads' = mDownloads \ {c}

\* locked_queueRemove, and the deletion of the file control that follows.
queueRemove(c) ==
  LET pos == ctl[c].mQueuePosition
      q   == WithoutElement(queue, pos) IN
  /\ queue' = q
  /\ ctl' = Checked(q, pos .. Len(q), [ctl EXCEPT ![c] = Deleted], max_active)
  /\ mDownloads' = mDownloads \ {c}

bottomQueue(pos) ==
  /\ queue' = ToBottom(queue, pos)
  /\ ctl' = Checked(queue', pos .. Len(queue), ctl, max_active)

topQueue(pos) ==
  /\ queue' = ToTop(queue, pos)
  /\ ctl' = Checked(queue', 1 .. pos, ctl, max_active)

SwapChecksOne(i, j) ==
  /\ i # j
  /\ queue' = Swapped(queue, i, j)
  /\ ctl' = Checked(queue', {i}, ctl, max_active)

swapQueue(i, j) ==
  /\ i # j
  /\ queue' = Swapped(queue, i, j)
  /\ ctl' = Checked(queue', {i, j}, ctl, max_active)

-----------------------------------------------------------------------------
(* Calls of the user. *)

moveInQueue(h) ==
  /\ CtrlFree
  /\ Downloading(h)
  /\ LET pos == ctl[Find(h)].mQueuePosition IN
       \/ topQueue(pos)
       \/ bottomQueue(pos)
       \/ pos > 1 /\ swapQueue(pos, pos - 1)
       \/ pos < Len(queue) /\ swapQueue(pos, pos + 1)
  /\ UNCHANGED <<mDownloads, max_active, mCompleted, mDone, requestVars, toCancel, checkVars>>

Lesser(a, b) == IF a < b THEN a ELSE b
Greater(a, b) == IF a < b THEN b ELSE a

SetQueueSizeUnchecked(s) ==
  /\ CtrlFree
  /\ max_active' = s
  /\ UNCHANGED <<queue, mDownloads, ctl, mCompleted, mDone, requestVars, toCancel, checkVars>>

setQueueSize(s) ==
  /\ CtrlFree
  /\ max_active' = s
  /\ ctl' = Checked(queue, {p \in 1 .. Len(queue) : Lesser(s, max_active) < p
                                      /\ p <= Greater(s, max_active) + 1}, ctl, s)
  /\ UNCHANGED <<queue, mDownloads, mCompleted, mDone, requestVars, toCancel, checkVars>>

\* FileControl with RS_FILE_CTRL_PAUSE and RS_FILE_CTRL_START
FileControl(h, state) ==
  /\ CtrlFree
  /\ Downloading(h)
  /\ ctl' = [ctl EXCEPT ![Find(h)].mState = state]
  /\ UNCHANGED <<queue, mDownloads, max_active, mCompleted, mDone, requestVars, toCancel, checkVars>>

StartChecking(h) == FileControl(h, "CHECKING_HASH")

pause(h) == FileControl(h, "PAUSED")
start(h) == FileControl(h, "DOWNLOADING")

\* FileControl with RS_FILE_CTRL_FORCE_CHECK, which the tick also does when the
\* hash of a finished file is wrong: every chunk is to be checked again.
forceCheck(h) ==
  /\ CtrlFree
  /\ Downloading(h)
  /\ ctl' = [ctl EXCEPT ![Find(h)].finished = FALSE]
  /\ UNCHANGED <<queue, mDownloads, max_active, mCompleted, mDone, requestVars, toCancel, checkVars>>

FileClearCompleted ==
  /\ CtrlFree
  /\ mCompleted' = {}
  /\ UNCHANGED <<queueVars, mDone, requestVars, toCancel, checkVars>>

\* The part of FileCancel under ctrlMutex: a finished file is not cancelled.
CancelDownload(h) ==
  IF Downloading(h) /\ ~ctl[Find(h)].finished
  THEN queueRemove(Find(h))
  ELSE UNCHANGED <<queue, ctl, mDownloads>>

FileCancel(h) ==
  /\ CtrlFree
  /\ CancelDownload(h)
  /\ UNCHANGED <<max_active, mCompleted, mDone, requestVars, toCancel, checkVars>>

-----------------------------------------------------------------------------
(* Requests.  FileRequest asks whether the file is complete, then whether *)
(* it is downloaded, lets go of ctrlMutex each time, searches sources and  *)
(* builds creator and module, and then inserts.                            *)

\* alreadyHaveFile as FileRequest calls it; a download that is finished but
\* still checked does not count as had.
alreadyHaveFile(t, h) ==
  /\ CtrlFree
  /\ asked[t] = Idle
  /\ request[t] = Idle
  /\ h \notin mCompleted
  /\ asked' = [asked EXCEPT ![t] = h]
  /\ UNCHANGED <<queueVars, mCompleted, mDone, mFtActive, mPendingRequests,
                 mPendingChunkMaps, request, restoring, toCancel, checkVars>>

\* FileRequest before activation: the request is kept for later.
keepRequest(t) ==
  /\ CtrlFree
  /\ asked[t] # Idle
  /\ ~mFtActive
  /\ Len(mPendingRequests) < MaxPending
  /\ mPendingRequests' = Append(mPendingRequests, [hash |-> asked[t], state |-> "DOWNLOADING"])
  /\ asked' = [asked EXCEPT ![t] = Idle]
  /\ UNCHANGED <<queueVars, mCompleted, mDone, mFtActive, mPendingChunkMaps, request,
                 restoring, toCancel, checkVars>>

FileRequest(t) ==
  /\ CtrlFree
  /\ asked[t] # Idle
  /\ mFtActive
  /\ asked' = [asked EXCEPT ![t] = Idle]
  /\ request' = [request EXCEPT ![t] = IF Downloading(asked[t]) THEN Idle ELSE asked[t]]
  /\ UNCHANGED <<queueVars, mCompleted, mDone, mFtActive, mPendingRequests,
                 mPendingChunkMaps, restoring, toCancel, checkVars>>

\* The last part of FileRequest: a new file control is queued and entered.
insertDownload(t) ==
  /\ CtrlFree
  /\ request[t] # Idle
  /\ \E k \in Copies :
       LET c == <<request[t], k>> IN
       /\ Len(queue) < MaxControls
       /\ c \notin Live
       /\ \A j \in Copies : <<request[t], j>> \notin Live => k <= j
       /\ addToQueue(c, [mState |-> "DOWNLOADING", mQueuePosition |-> 0, finished |-> FALSE])
       /\ mDownloads' = {d \in mDownloads : HashOf(d) # request[t]} \cup {c}
  /\ request' = [request EXCEPT ![t] = Idle]
  /\ UNCHANGED <<max_active, mCompleted, mDone, mFtActive, mPendingRequests,
                 mPendingChunkMaps, asked, restoring, toCancel, checkVars>>

activate ==
  /\ ~mFtActive
  /\ mFtActive' = TRUE
  /\ UNCHANGED <<queueVars, mCompleted, mDone, mPendingRequests, mPendingChunkMaps,
                 asked, request, restoring, toCancel, checkVars>>

\* The request leaves the list and FileRequest makes its checks.  Files are
\* completed by this thread only, so nothing comes between the two checks.
handleAPendingRequest ==
  /\ CtrlFree
  /\ TickIdle
  /\ mFtActive
  /\ mPendingRequests # <<>>
  /\ LET h == Head(mPendingRequests).hash IN
       /\ restoring' = h
       /\ request' = [request EXCEPT
            ![Tick] = IF h \in mCompleted \/ Downloading(h) THEN Idle ELSE h]
  /\ mPendingRequests' = Tail(mPendingRequests)
  /\ UNCHANGED <<queueVars, mCompleted, mDone, mFtActive, mPendingChunkMaps, asked,
                 toCancel, checkVars>>

\* The last part of handleAPendingRequest: the saved state is given back.
restoreState ==
  /\ CtrlFree
  /\ restoring # Idle
  /\ request[Tick] = Idle
  /\ ctl' = IF mPendingChunkMaps[restoring] # "none" /\ Downloading(restoring)
            THEN [ctl EXCEPT ![Find(restoring)].mState = mPendingChunkMaps[restoring]]
            ELSE ctl
  /\ mPendingChunkMaps' = [mPendingChunkMaps EXCEPT ![restoring] = "none"]
  /\ restoring' = Idle
  /\ UNCHANGED <<queue, mDownloads, max_active, mCompleted, mDone, mFtActive,
                 mPendingRequests, asked, request, toCancel, checkVars>>

-----------------------------------------------------------------------------
(* The rest of data_tick. *)

\* Some cache files that are not downloaded are older than TIMOUT_CACHE_FILE_TRANSFER.
cleanCacheDownloads ==
  /\ CtrlFree
  /\ TickIdle
  /\ \E S \in SUBSET {HashOf(c) : c \in {d \in mDownloads : HashOf(d) \in CacheHashes
                                           /\ ctl[d].mState # "DOWNLOADING"}} : toCancel' = S
  /\ UNCHANGED <<queueVars, mCompleted, mDone, requestVars, checkVars>>

cancelCache ==
  /\ CtrlFree
  /\ \E h \in toCancel : CancelDownload(h) /\ toCancel' = toCancel \ {h}
  /\ UNCHANGED <<max_active, mCompleted, mDone, requestVars, checkVars>>

\* The last chunk is received and checked, in another thread: ftFileCreator::finished() holds.
finish(c) ==
  /\ ~ctl[c].finished
  /\ ctl' = [ctl EXCEPT ![c].finished = TRUE]
  /\ UNCHANGED <<queue, mDownloads, max_active, mCompleted, mDone, requestVars, toCancel, checkVars>>

\* tickTransfers ticks the modules of files neither queued nor paused; those
\* that are finished and have the right hash report (FlagFileComplete).
tickTransfers ==
  /\ CtrlFree
  /\ TickIdle
  /\ \E S \in SUBSET {c \in mDownloads : ctl[c].finished /\ ctl[c].mState \notin {"QUEUED", "PAUSED"}} :
       mDone' = {HashOf(c) : c \in S}
  /\ UNCHANGED <<queueVars, mCompleted, requestVars, toCancel, checkVars>>

completeFile(h) ==
  /\ CtrlFree
  /\ mDone' = mDone \ {h}
  /\ IF Downloading(h) /\ ctl[Find(h)].finished
     THEN /\ queueRemove(Find(h))
          /\ mCompleted' = mCompleted \cup ({h} \ CacheHashes)
     ELSE UNCHANGED <<queue, ctl, mDownloads, mCompleted>>
  /\ UNCHANGED <<max_active, requestVars, toCancel, checkVars>>

\* checkDownloadQueue: the paused files, and some that had no traffic for
\* MAX_TIME_INACTIVE_REQUEUED, are to go to the bottom.
checkDownloadQueue ==
  /\ CtrlFree
  /\ TickIdle
  /\ Cardinality(mDownloads) > max_active
  /\ check' = "inactive"
  /\ \E S \in SUBSET {c \in mDownloads : ctl[c].mState = "DOWNLOADING"} :
       left' = {HashOf(c) : c \in S \cup {d \in mDownloads : ctl[d].mState = "PAUSED"}}
  /\ moved' = 0
  /\ UNCHANGED <<queueVars, mCompleted, mDone, requestVars, toCancel>>

\* A file that an earlier move sent back to waiting is no longer inactive.
moveInactive ==
  /\ check = "inactive"
  /\ moved <= max_active
  /\ \E h \in left :
       /\ \A g \in left : h <= g
       /\ bottomQueue(ctl[Find(h)].mQueuePosition)
       /\ left' = {g \in left \ {h} : ctl'[Find(g)].mState # "QUEUED"}
  /\ moved' = moved + 1
  /\ UNCHANGED <<mDownloads, max_active, mCompleted, mDone, requestVars, toCancel, check>>

inactiveDone ==
  /\ check = "inactive"
  /\ left = {} \/ moved > max_active
  /\ check' = "priorities"
  /\ left' = {}
  /\ moved' = 0
  /\ UNCHANGED <<queueVars, mCompleted, mDone, requestVars, toCancel>>

IsCache(p) == HashOf(queue[p]) \in CacheHashes
to_move_before == {p \in 1 .. Len(queue) : p <= MinPrioritized /\ IsCache(p)}
to_move_after == {p \in 1 .. Len(queue) : p > MinPrioritized /\ ~IsCache(p)}

\* The first cache file of the prioritized range and the first user file behind it.
prioritize ==
  /\ check = "priorities"
  /\ \E i \in to_move_before, j \in to_move_after :
       /\ \A p \in to_move_before : i <= p
       /\ \A p \in to_move_after : j <= p
       /\ swapQueue(i, j)
  /\ UNCHANGED <<mDownloads, max_active, mCompleted, mDone, requestVars, toCancel, checkVars>>

prioritiesDone ==
  /\ check = "priorities"
  /\ to_move_before = {} \/ to_move_after = {}
  /\ check' = "no"
  /\ UNCHANGED <<queueVars, mCompleted, mDone, requestVars, toCancel, left, moved>>

-----------------------------------------------------------------------------
(* The end of the program, with saveList, and its next start, with         *)
(* loadList: every saved file waits for activation.                        *)

Saved == {c \in mDownloads : HashOf(c) \notin CacheHashes}

\* saveList writes the downloads in the order of their hashes, not of the queue.
InMapOrder(s) ==
  /\ \A c \in Saved : \E i \in DOMAIN s : s[i] = c
  /\ \A i, j \in DOMAIN s : i < j => HashOf(s[i]) < HashOf(s[j])

SavedPending ==
  [i \in 1 .. Len(mPendingRequests) |->
     LET r == mPendingRequests[i] IN
     [hash |-> r.hash,
      state |-> IF mPendingChunkMaps[r.hash] # "none" THEN mPendingChunkMaps[r.hash] ELSE r.state]]

loadList(list) ==
  /\ mPendingRequests' = list
  /\ mPendingChunkMaps' \in [Hashes -> FileStates \cup {"none"}]
  /\ \A h \in Hashes :
       LET at == {i \in 1 .. Len(list) : list[i].hash = h} IN
       IF at = {} THEN mPendingChunkMaps'[h] = "none"
       ELSE \E i \in at : (\A j \in at : j <= i) /\ mPendingChunkMaps'[h] = list[i].state

Restart ==
  /\ CtrlFree
  /\ \E n \in 0 .. MaxPending : \E s \in [1 .. n -> Saved] :
       LET list == [i \in 1 .. n |-> [hash |-> HashOf(s[i]), state |-> ctl[s[i]].mState]]
                     \o SavedPending IN
       /\ InMapOrder(s)
       /\ Len(list) <= MaxPending
       /\ loadList(list)
  /\ queue' = <<>>
  /\ mDownloads' = {}
  /\ ctl' = [c \in Controls |-> Deleted]
  /\ mCompleted' = {}
  /\ mDone' = {}
  /\ mFtActive' = FALSE
  /\ asked' = [t \in Users |-> Idle]
  /\ request' = [t \in Threads |-> Idle]
  /\ restoring' = Idle
  /\ toCancel' = {}
  /\ UNCHANGED <<max_active, checkVars>>

-----------------------------------------------------------------------------
Init ==
  /\ queue = <<>>
  /\ mDownloads = {}
  /\ ctl = [c \in Controls |-> Deleted]
  /\ max_active \in QueueSizes
  /\ mCompleted = {}
  /\ mDone = {}
  /\ mFtActive = FALSE
  /\ mPendingRequests = <<>>
  /\ mPendingChunkMaps = [h \in Hashes |-> "none"]
  /\ asked = [t \in Users |-> Idle]
  /\ request = [t \in Threads |-> Idle]
  /\ restoring = Idle
  /\ toCancel = {}
  /\ check = "no"
  /\ left = {}
  /\ moved = 0

UserCall ==
  \/ \E h \in Hashes : moveInQueue(h) \/ pause(h) \/ start(h) \/ forceCheck(h) \/ FileCancel(h)
  \/ \E s \in QueueSizes : setQueueSize(s)
  \/ \E t \in Users, h \in Hashes : alreadyHaveFile(t, h)
  \/ \E t \in Users : keepRequest(t) \/ FileRequest(t)
  \/ FileClearCompleted

DataTick ==
  \/ handleAPendingRequest
  \/ restoreState
  \/ cleanCacheDownloads
  \/ cancelCache
  \/ tickTransfers
  \/ \E h \in mDone : completeFile(h)
  \/ checkDownloadQueue
  \/ moveInactive
  \/ inactiveDone
  \/ prioritize
  \/ prioritiesDone

Next ==
  \/ UserCall
  \/ DataTick
  \/ \E t \in Threads : insertDownload(t)
  \/ \E c \in mDownloads : finish(c)
  \/ activate
  \/ Restart

Spec == Init /\ [][Next]_vars

-----------------------------------------------------------------------------
(* Properties. *)

\* The members of the controller and of the file controls have their types.
ControllerTypeOK ==
  /\ queue \in Seq(Controls)
  /\ mDownloads \subseteq Controls
  /\ ctl \in [Controls -> Control]
  /\ max_active \in QueueSizes
  /\ mCompleted \subseteq Hashes
  /\ mDone \subseteq Hashes
  /\ mFtActive \in BOOLEAN
  /\ mPendingRequests \in Seq([hash : Hashes, state : FileStates])
  /\ mPendingChunkMaps \in [Hashes -> FileStates \cup {"none"}]
  /\ asked \in [Users -> Hashes \cup {Idle}]
  /\ request \in [Threads -> Hashes \cup {Idle}]
  /\ restoring \in Hashes \cup {Idle}
  /\ toCancel \subseteq Hashes
  /\ check \in {"no", "inactive", "priorities"}
  /\ left \subseteq Hashes
  /\ moved \in Nat

\* The position stored in a file control is its index in the queue, after any
\* sequence of moves, swaps, removals and insertions: files are moved and
\* removed by that position (locked_queueRemove, locked_swapQueue).
PositionsExact ==
  \A p \in 1 .. Len(queue) : ctl[queue[p]].mQueuePosition = p

\* The queue holds every file control that exists once, and no deleted one,
\* whose pointer would dangle; every download has a control of its own there.
QueueIsLive ==
  /\ \A c \in Controls : c \in Live <=> \E p \in 1 .. Len(queue) : queue[p] = c
  /\ \A i, j \in 1 .. Len(queue) : queue[i] = queue[j] => i = j
  /\ mDownloads \subseteq Live
  /\ \A c, d \in mDownloads : HashOf(c) = HashOf(d) => c = d

\* A file that waits in an active slot, or is downloaded beyond the slots.
Misplaced(c) ==
  /\ c \in Live
  /\ \/ ctl[c].mQueuePosition <= max_active /\ ctl[c].mState = "QUEUED"
     \/ ctl[c].mQueuePosition > max_active /\ ctl[c].mState = "DOWNLOADING"

\* No move, removal, insertion or change of the queue size leaves a file
\* waiting in an active slot or downloaded beyond the slots: only the user's
\* start and a restored state do (locked_checkQueueElement after each change).
StateFollowsPosition ==
  [][\A c \in Controls : Misplaced(c)' =>
        Misplaced(c) \/ restoreState \/ (\E h \in Hashes : start(h))]_vars
=============================================================================
