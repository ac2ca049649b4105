------------------------------- MODULE RsApi --------------------------------
(***************************************************************************)
(* The web interface of RetroShare: the server's state tokens              *)
(* (libresapi, StateTokenServer), resources that hand them out, and the    *)
(* browser's side (RsApi.js, RsXHRConnection.js, AutoUpdateMixin of        *)
(* gui.jsx).                                                               *)
(*                                                                         *)
(* An answer carries data and a token.  When the resource changes, the     *)
(* token is discarded.  The browser asks every three seconds which of its  *)
(* tokens are no longer valid, and fetches those resources again.          *)
(*                                                                         *)
(* Two kinds of resources.  "control" stands for those whose handler       *)
(* changes data and token, and reads both, under one mutex:                *)
(* RsControlModule and the results of FileSearchHandler.  "peers" is       *)
(* PeersHandler, whose data belong to other threads.                       *)
(***************************************************************************)
EXTENDS Integers, Sequences, FiniteSets, Bags

CONSTANTS
  ControlWidgets,       \* component instances that show control data
  PeersWidgets,         \* component instances that show the friends list
  MaxRequests,          \* bound: requests for resources on their way at once
  Peers,                \* ids of friends, which are ordered
  MaxChanges,           \* bound: changes of each resource
  MaxFlips              \* bound: friends going online or offline

Widgets == ControlWidgets \cup PeersWidgets

ASSUME RsApiAssumption ==
  /\ ControlWidgets \cap PeersWidgets = {}
  /\ Peers \subseteq Nat
  /\ MaxRequests \in Nat
  /\ MaxChanges \in Nat
  /\ MaxFlips \in Nat

VARIABLES
  \* the server
  mNextToken, mValidTokens,     \* of StateTokenServer
  mStateToken,                  \* the token of each resource, 0 if null
  version,                      \* how often the data of each resource changed
  online,                       \* the friends that are online
  mOnlinePeers,                 \* the list at PeersHandler's last update
  flips,                        \* changes of online so far
  friendOp,                     \* progress of another thread in addFriend
  handling,                     \* a request that holds ApiServer::mMtx
  \* the browser
  phase,                        \* life of each component instance
  shown,                        \* state.data of each instance
  tokenlisteners,               \* of RsApi.js
  requests,                     \* the requests for resources on their way
  poll                          \* the tick of RsApi.js and its request

serverVars == <<mNextToken, mValidTokens, mStateToken, version, online,
                mOnlinePeers, flips, friendOp, handling>>
clientVars == <<phase, shown, tokenlisteners, requests, poll>>
vars == <<mNextToken, mValidTokens, mStateToken, version, online,
          mOnlinePeers, flips, friendOp, handling,
          phase, shown, tokenlisteners, requests, poll>>

Resources == {"control", "peers"}
Path(w) == IF w \in PeersWidgets THEN "peers" ELSE "control"

\* What a request for the resource answers.
Data(r) == <<version[r], IF r = "peers" THEN online ELSE {}>>
DataType == Nat \X SUBSET Peers
NoData == <<-1, {}>>

Sent(w) == [st |-> "sent", w |-> w]
Answered(w, d, t) == [st |-> "answered", w |-> w, data |-> d, token |-> t]
Request ==
  [st : {"sent"}, w : Widgets]
    \cup [st : {"answered"}, w : Widgets, data : DataType, token : Nat]

\* The tokens of the answer keep their places in the list that was sent.
Timer == [st |-> "timer"]
PollState(p) ==
  \/ p = Timer
  \/ /\ p.st \in {"sent", "answered"}
     /\ p = [st |-> p.st, tokens |-> p.tokens]
     /\ p.tokens \in [DOMAIN p.tokens -> Nat]
     /\ IsFiniteSet(DOMAIN p.tokens)

Idle == [w |-> {}, data |-> NoData]

TypeOK ==
  /\ mNextToken \in Nat \ {0}
  /\ mValidTokens \in SUBSET Nat
  /\ mStateToken \in [Resources -> Nat]
  /\ version \in [Resources -> Nat]
  /\ online \in SUBSET Peers
  /\ mOnlinePeers \in SUBSET Peers
  /\ flips \in 0 .. MaxFlips
  /\ friendOp \in {"idle", "accepted", "notified"}
  /\ handling \in {Idle} \cup [w : {{w} : w \in Widgets}, data : DataType]
  /\ phase \in [Widgets -> {"new", "mounted", "gone"}]
  /\ shown \in [Widgets -> DataType \cup {NoData}]
  /\ tokenlisteners \in Seq([w : Widgets, token : Nat])
  /\ IsABag(requests) /\ BagToSet(requests) \subseteq Request
  /\ PollState(poll)

-----------------------------------------------------------------------------
(* State tokens *)

\* Mutant: the old token stays valid.
replaceTokenKeepsOld(r) ==
  /\ mStateToken' = [mStateToken EXCEPT ![r] = mNextToken]
  /\ mValidTokens' = mValidTokens \cup {mNextToken}
  /\ mNextToken' = mNextToken + 1

\* replaceToken, and discardToken followed by getNewToken: both of a null
\* token only make a new one.
replaceToken(r) ==
  /\ mStateToken' = [mStateToken EXCEPT ![r] = mNextToken]
  /\ mValidTokens' = (mValidTokens \ {mStateToken[r]}) \cup {mNextToken}
  /\ mNextToken' = mNextToken + 1

KeepTokens == UNCHANGED <<mNextToken, mValidTokens, mStateToken>>

-----------------------------------------------------------------------------
(* Changes of the resources, by threads of libretroshare *)

\* Mutant: the change is not announced.
changeControlSilently ==
  /\ version["control"] < MaxChanges
  /\ version' = [version EXCEPT !["control"] = @ + 1]
  /\ KeepTokens
  /\ UNCHANGED <<online, mOnlinePeers, flips, friendOp, handling>>
  /\ UNCHANGED clientVars

\* Data and token change under the handler's mutex.
changeControl ==
  /\ version["control"] < MaxChanges
  /\ version' = [version EXCEPT !["control"] = @ + 1]
  /\ replaceToken("control")
  /\ UNCHANGED <<online, mOnlinePeers, flips, friendOp, handling>>
  /\ UNCHANGED clientVars

\* AuthGPG::AllowConnection accepts the key ...
acceptFriend ==
  /\ friendOp = "idle"
  /\ version["peers"] < MaxChanges
  /\ version' = [version EXCEPT !["peers"] = @ + 1]
  /\ friendOp' = "accepted"
  /\ KeepTokens
  /\ UNCHANGED <<online, mOnlinePeers, flips, handling>>
  /\ UNCHANGED clientVars

\* ... and notifies PeersHandler ...
notifyListChange ==
  /\ friendOp = "accepted"
  /\ replaceToken("peers")
  /\ friendOp' = "notified"
  /\ UNCHANGED <<version, online, mOnlinePeers, flips, handling>>
  /\ UNCHANGED clientVars

\* ... and then the location, if there is one, is added.
addLocation ==
  /\ friendOp = "notified"
  /\ \/ /\ version["peers"] < MaxChanges
        /\ version' = [version EXCEPT !["peers"] = @ + 1]
     \/ UNCHANGED version
  /\ friendOp' = "idle"
  /\ KeepTokens
  /\ UNCHANGED <<online, mOnlinePeers, flips, handling>>
  /\ UNCHANGED clientVars

\* A friend connects or leaves; PeersHandler is not told.
flipOnline(p) ==
  /\ flips < MaxFlips
  /\ flips' = flips + 1
  /\ online' = IF p \in online THEN online \ {p} ELSE online \cup {p}
  /\ KeepTokens
  /\ UNCHANGED <<version, mOnlinePeers, friendOp, handling>>
  /\ UNCHANGED clientVars

\* The lists are in the order of ids: one is the beginning of the other.
BeginsWith(long, short) ==
  /\ short \subseteq long
  /\ \A p \in short, q \in long \ short : p < q

\* std::equal compares as many elements as are online now.  If the old list
\* is used up by then, it reads past its end.
Noticed ==
  IF BeginsWith(online, mOnlinePeers) /\ online # mOnlinePeers
  THEN BOOLEAN
  ELSE {~BeginsWith(mOnlinePeers, online)}

tick(noticed) ==
  IF noticed
  THEN /\ mOnlinePeers' = online
       /\ replaceToken("peers")
  ELSE /\ KeepTokens
       /\ UNCHANGED mOnlinePeers

-----------------------------------------------------------------------------
(* Requests at the server.  Each is handled under ApiServer::mMtx. *)

MtxFree == handling = Idle

\* The request r becomes what R says, or is over.
Becomes(r, R) == requests' = (requests (-) SetToBag({r})) (+) SetToBag(R)

\* RsControlModule::handleRunState, handlePassword and others.
handleControl(r) ==
  /\ MtxFree
  /\ r.st = "sent"
  /\ Path(r.w) = "control"
  /\ Becomes(r, {Answered(r.w, Data("control"), mStateToken["control"])})
  /\ UNCHANGED serverVars
  /\ UNCHANGED <<phase, shown, tokenlisteners, poll>>

\* PeersHandler::handleWildcard reads the lists ...
readPeers(r) ==
  /\ MtxFree
  /\ r.st = "sent"
  /\ Path(r.w) = "peers"
  /\ Becomes(r, {})
  /\ handling' = [w |-> {r.w}, data |-> Data("peers")]
  /\ KeepTokens
  /\ UNCHANGED <<version, online, mOnlinePeers, flips, friendOp>>
  /\ UNCHANGED <<phase, shown, tokenlisteners, poll>>

\* ... and then the token, which is made when there is none.
getCurrentStateToken(w) ==
  /\ handling.w = {w}
  /\ IF mStateToken["peers"] = 0 THEN replaceToken("peers") ELSE KeepTokens
  /\ requests' = requests (+) SetToBag({Answered(w, handling.data, mStateToken'["peers"])})
  /\ handling' = Idle
  /\ UNCHANGED <<version, online, mOnlinePeers, flips, friendOp>>
  /\ UNCHANGED <<phase, shown, tokenlisteners, poll>>

\* StateTokenServer::handleWildcard: ticks, then the tokens that are invalid.
handleTokens ==
  /\ MtxFree
  /\ poll.st = "sent"
  /\ \E noticed \in Noticed : tick(noticed)
  /\ LET Invalid == {i \in DOMAIN poll.tokens : poll.tokens[i] \notin mValidTokens'}
     IN poll' = [st |-> "answered", tokens |-> [i \in Invalid |-> poll.tokens[i]]]
  /\ UNCHANGED <<version, online, flips, friendOp, handling>>
  /\ UNCHANGED <<phase, shown, tokenlisteners, requests>>

-----------------------------------------------------------------------------
(* The browser.  Its script runs one callback at a time. *)

\* unregister_token_listener: the last entry takes the place of the removed
\* one.  OneListener shows that there is never more than one to remove.
unregister(T, w) ==
  LET I == {i \in DOMAIN T : T[i].w = w}
      i == CHOOSE j \in I : TRUE
      Popped == SubSeq(T, 1, Len(T) - 1)
  IN IF I = {} THEN T
     ELSE IF i = Len(T) THEN Popped
     ELSE [Popped EXCEPT ![i] = T[Len(T)]]

\* The requests of n listeners or more still find room.
Room(n) == BagCardinality(requests) + Cardinality(handling.w) + n <= MaxRequests

\* componentDidMount: the first request.
mount(w) ==
  /\ phase[w] = "new"
  /\ phase' = [phase EXCEPT ![w] = "mounted"]
  /\ Room(1)
  /\ requests' = requests (+) SetToBag({Sent(w)})
  /\ UNCHANGED serverVars
  /\ UNCHANGED <<shown, tokenlisteners, poll>>

\* componentWillUnmount.  A request on its way stays on its way.
unmount(w) ==
  /\ phase[w] = "mounted"
  /\ phase' = [phase EXCEPT ![w] = "gone"]
  /\ shown' = [shown EXCEPT ![w] = NoData]
  /\ tokenlisteners' = unregister(tokenlisteners, w)
  /\ UNCHANGED serverVars
  /\ UNCHANGED <<requests, poll>>

\* Mutant: the previous registration stays.
responseCallbackTwice(r) ==
  /\ r.st = "answered"
  /\ Becomes(r, {})
  /\ IF phase[r.w] = "mounted"
     THEN /\ shown' = [shown EXCEPT ![r.w] = r.data]
          /\ tokenlisteners' = Append(tokenlisteners, [w |-> r.w, token |-> r.token])
     ELSE UNCHANGED <<shown, tokenlisteners>>
  /\ UNCHANGED serverVars
  /\ UNCHANGED <<phase, poll>>

\* Mutant: isMounted is not asked.
responseCallbackUnmounted(r) ==
  /\ r.st = "answered"
  /\ Becomes(r, {})
  /\ shown' = [shown EXCEPT ![r.w] = r.data]
  /\ tokenlisteners' = Append(unregister(tokenlisteners, r.w),
                              [w |-> r.w, token |-> r.token])
  /\ UNCHANGED serverVars
  /\ UNCHANGED <<phase, poll>>

\* _aum_response_callback; an answer for a component that is gone is dropped.
responseCallback(r) ==
  /\ r.st = "answered"
  /\ Becomes(r, {})
  /\ IF phase[r.w] = "mounted"
     THEN /\ shown' = [shown EXCEPT ![r.w] = r.data]
          /\ tokenlisteners' = Append(unregister(tokenlisteners, r.w),
                                      [w |-> r.w, token |-> r.token])
     ELSE UNCHANGED <<shown, tokenlisteners>>
  /\ UNCHANGED serverVars
  /\ UNCHANGED <<phase, poll>>

\* onreadystatechange with another status than 200, before or after the
\* server handled the request.  RsApi.request passes on no error callback.
requestFailed(r) ==
  /\ Becomes(r, {})
  /\ UNCHANGED serverVars
  /\ UNCHANGED <<phase, shown, tokenlisteners, poll>>

\* tick of RsApi.js.
clientTick ==
  /\ poll = Timer
  /\ poll' = [st |-> "sent",
              tokens |-> [i \in 1 .. Len(tokenlisteners) |-> tokenlisteners[i].token]]
  /\ UNCHANGED serverVars
  /\ UNCHANGED <<phase, shown, tokenlisteners, requests>>

\* Every occurrence of a token in the answer calls every listener of it.
Calls == {c \in (DOMAIN poll.tokens) \X (DOMAIN tokenlisteners) :
            poll.tokens[c[1]] = tokenlisteners[c[2]].token}
CallsOf(w) == {c \in Calls : tokenlisteners[c[2]].w = w}

\* received_tokenstates: each call of a listener sends a request.
received_tokenstates ==
  /\ poll.st = "answered"
  /\ Room(Cardinality(Calls))
  /\ requests' = requests (+) [r \in {Sent(w) : w \in {v \in Widgets : CallsOf(v) # {}}}
                                 |-> Cardinality(CallsOf(r.w))]
  /\ poll' = Timer
  /\ UNCHANGED serverVars
  /\ UNCHANGED <<phase, shown, tokenlisteners>>

\* Mutant: the timer is not set again.
received_errorGivesUp ==
  /\ poll # Timer
  /\ poll' = [st |-> "stopped"]
  /\ UNCHANGED serverVars
  /\ UNCHANGED <<phase, shown, tokenlisteners, requests>>

\* received_error: try again.
received_error ==
  /\ poll # Timer
  /\ poll' = Timer
  /\ UNCHANGED serverVars
  /\ UNCHANGED <<phase, shown, tokenlisteners, requests>>

-----------------------------------------------------------------------------
Init ==
  /\ mNextToken = 3
  /\ mValidTokens = {1, 2}
  /\ mStateToken = [r \in Resources |-> IF r = "control" THEN 2 ELSE 0]
  /\ version = [r \in Resources |-> 0]
  /\ online = {}
  /\ mOnlinePeers = {}
  /\ flips = 0
  /\ friendOp = "idle"
  /\ handling = Idle
  /\ phase = [w \in Widgets |-> "new"]
  /\ shown = [w \in Widgets |-> NoData]
  /\ tokenlisteners = <<>>
  /\ requests = EmptyBag
  /\ poll = Timer

Server ==
  \/ changeControl
  \/ acceptFriend \/ notifyListChange \/ addLocation
  \/ \E p \in Peers : flipOnline(p)
  \/ \E r \in BagToSet(requests) : handleControl(r) \/ readPeers(r)
  \/ \E w \in PeersWidgets : getCurrentStateToken(w)
  \/ handleTokens

Browser ==
  \/ \E w \in Widgets : mount(w) \/ unmount(w)
  \/ \E r \in BagToSet(requests) : responseCallback(r) \/ requestFailed(r)
  \/ clientTick \/ received_tokenstates \/ received_error

Next == Server \/ Browser

Spec == Init /\ [][Next]_vars

\* The steps of the server's and the browser's threads are taken; a request
\* that is sent again and again is served and answered some time.
Fairness ==
  /\ WF_vars(notifyListChange) /\ WF_vars(addLocation)
  /\ WF_vars(\E w \in PeersWidgets : getCurrentStateToken(w))
  /\ WF_vars(clientTick)
  /\ SF_vars(handleTokens)
  /\ SF_vars(received_tokenstates)
  /\ \A w \in Widgets :
       /\ SF_vars(\E r \in BagToSet(requests) : r.w = w /\ (handleControl(r) \/ readPeers(r)))
       /\ SF_vars(\E r \in BagToSet(requests) : r.w = w /\ responseCallback(r))

FairSpec == Spec /\ Fairness

-----------------------------------------------------------------------------
\* A component is registered for one token at most, however its requests
\* overtake each other: unregister_token_listener, whose loop is only right
\* for a single entry, is called before each registration.
OneListener ==
  \A i, j \in DOMAIN tokenlisteners :
    tokenlisteners[i].w = tokenlisteners[j].w => i = j

\* No callback of a component that is gone is ever called: an answer that
\* comes after componentWillUnmount does not register it again.
ListenersMounted ==
  \A i \in DOMAIN tokenlisteners : phase[tokenlisteners[i].w] = "mounted"

\* A component whose token the server holds valid shows the data of the
\* server, whatever order answers arrive in: the token of an answer is never
\* newer than its data.  (For resources that change both under a mutex.)
FreshToken ==
  \A i \in DOMAIN tokenlisteners :
    LET w == tokenlisteners[i].w IN
    w \in ControlWidgets /\ tokenlisteners[i].token \in mValidTokens
      => shown[w] = Data("control")

Registered(w) == \E i \in DOMAIN tokenlisteners : tokenlisteners[i].w = w
Valid(w) == \E i \in DOMAIN tokenlisteners :
              tokenlisteners[i].w = w /\ tokenlisteners[i].token \in mValidTokens

\* What a component knows of the data it shows, read off its token.
Known(w) ==
  IF phase[w] # "mounted" THEN "absent"
  ELSE IF ~Registered(w) THEN "waiting"
  ELSE IF Valid(w) THEN "current" ELSE "outdated"

Promise == INSTANCE AutoUpdate WITH
  Widgets <- ControlWidgets,
  version <- version["control"],
  status <- [w \in ControlWidgets |-> Known(w)],
  shown <- [w \in ControlWidgets |-> shown[w][1]]

\* The token protocol implements AutoUpdate: a component that was told no
\* change shows the latest data, and every change is announced to all.
KeepsPromise == Promise!AuSpec

\* Polling brings every registered component that stays up to date, however many
\* polls and requests fail (received_error, and a token that stays invalid).  A
\* component is registered by the answer to its first request: if that fails, it
\* waits, and nothing is promised to it.
RefreshesAll == Promise!Refreshed
=============================================================================
