---------------------------- MODULE RsApiProofs ----------------------------
(***************************************************************************)
(* The token protocol of RsApi for any number of components and requests:  *)
(* who is registered, what a valid token tells, and that the protocol      *)
(* implements AutoUpdate.                                                  *)
(***************************************************************************)
EXTENDS RsApi, FiniteSetTheorems, TLAPS

Listener == [w : Widgets, token : Nat]

\* The types the other parts rest on.
Types ==
  /\ mNextToken \in Nat
  /\ mStateToken \in [Resources -> Nat]
  /\ version \in [Resources -> Nat]
  /\ online \in SUBSET Peers
  /\ handling \in {Idle} \cup [w : {{w} : w \in PeersWidgets}, data : DataType]
  /\ phase \in [Widgets -> {"new", "mounted", "gone"}]
  /\ shown \in [Widgets -> DataType \cup {NoData}]
  /\ tokenlisteners \in Seq(Listener)
  /\ BagToSet(requests) \subseteq Request

\* Tokens are made in order, and no two resources share one.
TokensDistinct ==
  /\ \A r \in Resources : mStateToken[r] < mNextToken
  /\ mStateToken["control"] # mStateToken["peers"]

\* What a token t of a control resource tells about the data d it came with:
\* as long as it is valid, they are the server's.
Fresh(d, t) ==
  /\ t < mNextToken
  /\ d[1] \in 0 .. version["control"]
  /\ t \in mValidTokens => t = mStateToken["control"] /\ d = Data("control")

\* This holds on the way ...
AnswersFresh ==
  \A r \in BagToSet(requests) :
    r.st = "answered" /\ r.w \in ControlWidgets => Fresh(r.data, r.token)

\* ... and where the answer is shown.
ListenersFresh ==
  \A i \in DOMAIN tokenlisteners :
    tokenlisteners[i].w \in ControlWidgets
      => Fresh(shown[tokenlisteners[i].w], tokenlisteners[i].token)

\* The inductive invariant.
Inv ==
  /\ Types
  /\ TokensDistinct
  /\ AnswersFresh
  /\ ListenersFresh
  /\ OneListener
  /\ ListenersMounted

LEMMA InitInv == Init => Inv
<1> SUFFICES ASSUME Init PROVE Inv
  OBVIOUS
<1>1. Types
  BY DEF Init, Types, Resources, Listener, EmptyBag, SetToBag, BagToSet
<1>2. TokensDistinct
  BY DEF Init, TokensDistinct, Resources
<1>3. AnswersFresh
  BY DEF Init, AnswersFresh, EmptyBag, SetToBag, BagToSet
<1>4. ListenersFresh /\ OneListener /\ ListenersMounted
  BY DEF Init, ListenersFresh, OneListener, ListenersMounted
<1>5. QED
  BY <1>1, <1>2, <1>3, <1>4 DEF Inv

-----------------------------------------------------------------------------
(* The list of listeners *)

\* What is left after unregister_token_listener: the entries of others, once.
LEMMA Unregister ==
  ASSUME NEW T \in Seq(Listener), NEW w,
         \A i, j \in DOMAIN T : T[i].w = T[j].w => i = j,
         NEW U, U = unregister(T, w)
  PROVE  /\ U \in Seq(Listener)
         /\ \A i, j \in DOMAIN U : U[i].w = U[j].w => i = j
         /\ \A i \in DOMAIN U : U[i].w # w /\ \E j \in DOMAIN T : U[i] = T[j]
         /\ \A j \in DOMAIN T : T[j].w # w => \E i \in DOMAIN U : U[i] = T[j]
<1> DEFINE I == {i \in DOMAIN T : T[i].w = w}
           i0 == CHOOSE j \in I : TRUE
           P == SubSeq(T, 1, Len(T) - 1)
<1>1. CASE I = {}
  <2>1. U = T
    BY <1>1 DEF unregister
  <2>2. \A i \in DOMAIN T : T[i].w # w
    BY <1>1
  <2>3. QED
    BY <2>1, <2>2
<1>2. CASE I # {}
  <2>1. i0 \in DOMAIN T /\ T[i0].w = w
    BY <1>2
  <2>2. /\ DOMAIN T = 1 .. Len(T)
        /\ Len(T) \in Nat
        /\ T \in [1 .. Len(T) -> Listener]
    OBVIOUS
  <2>3. U = IF i0 = Len(T) THEN P ELSE [P EXCEPT ![i0] = T[Len(T)]]
    BY <1>2 DEF unregister
  <2> HIDE DEF i0, I
  <2>4. \A j \in DOMAIN T : T[j].w = w => j = i0
    BY <2>1
  <2>5. i0 \in 1 .. Len(T) /\ Len(T) - 1 \in Nat
    BY <2>1, <2>2
  <2>6. P \in [1 .. Len(T) - 1 -> Listener] /\ \A i \in 1 .. Len(T) - 1 : P[i] = T[i]
    <3>1. P = [i \in 1 .. Len(T) - 1 |-> T[i]]
      BY <2>2, <2>5
    <3>2. \A i \in 1 .. Len(T) - 1 : T[i] \in Listener
      BY <2>2, <2>5
    <3> HIDE DEF P
    <3>3. QED
      BY <3>1, <3>2
  <2> HIDE DEF P
  \* The entry i of the new list was the entry From(i) of the old one.
  <2> DEFINE From(i) == IF i = i0 THEN Len(T) ELSE i
  <2>7. T[Len(T)] \in Listener
    BY <2>2, <2>5
  <2>8. U \in [1 .. Len(T) - 1 -> Listener] /\ \A i \in 1 .. Len(T) - 1 : U[i] = T[From(i)]
    BY <2>3, <2>5, <2>6, <2>7
  <2>9. \A i \in 1 .. Len(T) - 1 : From(i) \in 1 .. Len(T) /\ From(i) # i0
    BY <2>5
  <2>10. \A i, j \in 1 .. Len(T) - 1 : From(i) = From(j) => i = j
    BY <2>5
  <2>11. \A j \in 1 .. Len(T) : j # i0 => \E i \in 1 .. Len(T) - 1 : From(i) = j
    <3> SUFFICES ASSUME NEW j \in 1 .. Len(T), j # i0
                 PROVE  \E i \in 1 .. Len(T) - 1 : From(i) = j
      OBVIOUS
    <3>1. CASE j = Len(T)
      <4>1. i0 \in 1 .. Len(T) - 1 /\ From(i0) = j
        BY <3>1, <2>5
      <4>2. QED BY <4>1
    <3>2. CASE j # Len(T)
      <4>1. j \in 1 .. Len(T) - 1 /\ From(j) = j
        BY <3>2, <2>5
      <4>2. QED BY <4>1
    <3>3. QED BY <3>1, <3>2
  <2> HIDE DEF From
  <2>12. U \in Seq(Listener)
    BY <2>5, <2>8
  <2>13. DOMAIN U = 1 .. Len(T) - 1
    BY <2>8
  <2>14. \A i, j \in DOMAIN U : U[i].w = U[j].w => i = j
    BY <2>2, <2>8, <2>9, <2>10, <2>13
  <2>15. \A i \in DOMAIN U : U[i].w # w /\ \E j \in DOMAIN T : U[i] = T[j]
    BY <2>2, <2>4, <2>8, <2>9, <2>13
  <2>16. \A j \in DOMAIN T : T[j].w # w => \E i \in DOMAIN U : U[i] = T[j]
    BY <2>1, <2>2, <2>8, <2>11, <2>13
  <2>17. QED
    BY <2>12, <2>14, <2>15, <2>16
<1>3. QED
  BY <1>1, <1>2

-----------------------------------------------------------------------------
(* The server *)

\* A new token is valid, the resource's old one is not.
LEMMA ReplaceToken ==
  ASSUME Types, TokensDistinct, NEW r \in Resources, replaceToken(r),
         version' = version
           \/ (r = "control" /\ version' = [version EXCEPT !["control"] = @ + 1])
  PROVE  /\ TokensDistinct'
         /\ mNextToken' \in Nat /\ mStateToken' \in [Resources -> Nat]
         /\ \A d, t : t \in Nat /\ Fresh(d, t) => Fresh(d, t)'
<1> USE DEF Types, TokensDistinct, replaceToken, Resources
<1>1. mNextToken' \in Nat /\ mStateToken' \in [Resources -> Nat]
  OBVIOUS
<1>2. TokensDistinct'
  OBVIOUS
<1>3. ASSUME NEW d, NEW t, t \in Nat, Fresh(d, t)
      PROVE  Fresh(d, t)'
  <2>1. t < mNextToken'
    BY <1>3 DEF Fresh
  <2>2. version'["control"] \in Nat /\ version["control"] <= version'["control"]
    OBVIOUS
  <2>3. d[1] \in 0 .. version'["control"]
    BY <1>3, <2>2 DEF Fresh
  <2>4. ASSUME t \in mValidTokens'
        PROVE  t = mStateToken'["control"] /\ d = Data("control")'
    <3>1. t \in mValidTokens /\ t # mStateToken[r]
      BY <2>4, <1>3 DEF Fresh
    <3>2. t = mStateToken["control"] /\ d = Data("control")
      BY <3>1, <1>3 DEF Fresh
    <3>3. r = "peers" /\ version' = version
      BY <3>1, <3>2
    <3>4. QED
      BY <3>2, <3>3 DEF Data
  <2>5. QED
    BY <2>1, <2>3, <2>4 DEF Fresh
<1>4. QED
  BY <1>1, <1>2, <1>3

\* The data and the tokens of the control resources stay together.
LEMMA ServerTokens ==
  ASSUME Types, TokensDistinct, Server
  PROVE  /\ TokensDistinct'
         /\ mNextToken' \in Nat /\ mStateToken' \in [Resources -> Nat]
         /\ version' \in [Resources -> Nat]
         /\ \A d, t : t \in Nat /\ Fresh(d, t) => Fresh(d, t)'
<1> DEFINE Goal == /\ TokensDistinct'
                   /\ mNextToken' \in Nat /\ mStateToken' \in [Resources -> Nat]
                   /\ \A d, t : t \in Nat /\ Fresh(d, t) => Fresh(d, t)'
<1>1. ASSUME KeepTokens,
             version' = version \/ version' = [version EXCEPT !["peers"] = @ + 1]
      PROVE  Goal
  <2>1. version'["control"] = version["control"]
    BY <1>1 DEF Types, Resources
  <2>2. QED
    BY <1>1, <2>1 DEF Types, TokensDistinct, KeepTokens, Fresh, Data
<1>2. ASSUME NEW r \in Resources, replaceToken(r), version' = version
      PROVE  Goal
  BY <1>2, ReplaceToken
<1>3. CASE changeControl
  <2>1. Goal
    BY <1>3, ReplaceToken DEF changeControl, Resources
  <2>2. QED
    BY <1>3, <2>1 DEF changeControl, Types, Resources
<1>4. CASE acceptFriend
  BY <1>1, <1>4 DEF acceptFriend, Types, Resources
<1>5. CASE notifyListChange
  BY <1>2, <1>5 DEF notifyListChange, Types, Resources
<1>6. CASE addLocation
  BY <1>1, <1>6 DEF addLocation, Types, Resources
<1>7. ASSUME NEW p \in Peers, flipOnline(p) PROVE Goal /\ version' = version
  BY <1>1, <1>7 DEF flipOnline
<1>8. ASSUME NEW r, handleControl(r) \/ readPeers(r) PROVE Goal /\ version' = version
  BY <1>1, <1>8 DEF handleControl, readPeers, serverVars, KeepTokens
<1>9. ASSUME NEW w \in PeersWidgets, getCurrentStateToken(w)
      PROVE  Goal /\ version' = version
  BY <1>1, <1>2, <1>9 DEF getCurrentStateToken, Resources
<1>10. CASE handleTokens
  <2>1. version' = version
    BY <1>10 DEF handleTokens
  <2>2. KeepTokens \/ replaceToken("peers")
    BY <1>10 DEF handleTokens, tick
  <2>3. QED
    BY <1>1, <1>2, <2>1, <2>2 DEF Resources, Types
<1>11. CASE \/ \E p \in Peers : flipOnline(p)
            \/ \E r \in BagToSet(requests) : handleControl(r) \/ readPeers(r)
            \/ \E w \in PeersWidgets : getCurrentStateToken(w)
  <2> HIDE DEF Goal
  <2>1. Goal /\ version' = version
    BY <1>7, <1>8, <1>9, <1>11
  <2>2. QED
    BY <2>1 DEF Goal, Types
<1>12. QED
  BY <1>3, <1>4, <1>5, <1>6, <1>10, <1>11 DEF Server

-----------------------------------------------------------------------------
(* Requests on their way *)

LEMMA Added ==
  ASSUME NEW R
  PROVE  BagToSet(requests (+) SetToBag(R)) = BagToSet(requests) \cup R
BY DEF BagToSet, SetToBag, (+)

LEMMA Became ==
  ASSUME NEW r, NEW R, Becomes(r, R)
  PROVE  BagToSet(requests') \subseteq BagToSet(requests) \cup R
<1>1. DOMAIN (requests (-) SetToBag({r})) \subseteq DOMAIN requests
  BY DEF (-)
<1>2. DOMAIN requests' = DOMAIN (requests (-) SetToBag({r})) \cup DOMAIN SetToBag(R)
  BY DEF Becomes, (+)
<1>3. DOMAIN SetToBag(R) = R
  BY DEF SetToBag
<1>4. QED
  BY <1>1, <1>2, <1>3 DEF BagToSet

\* An answer about a control resource is made of what the server has, and
\* nothing changes meanwhile.
NewAnswer(r) ==
  /\ r \in Request
  /\ r.st = "answered" /\ r.w \in ControlWidgets
       => /\ r.data = Data("control") /\ r.token = mStateToken["control"]
          /\ UNCHANGED <<mNextToken, mValidTokens, mStateToken, version>>

LEMMA ServerRequests ==
  ASSUME Types, Server,
         mStateToken' \in [Resources -> Nat]
  PROVE  /\ online' \in SUBSET Peers
         /\ handling' \in {Idle} \cup [w : {{w} : w \in PeersWidgets}, data : DataType]
         /\ \A r \in BagToSet(requests') : r \in BagToSet(requests) \/ NewAnswer(r)
<1> DEFINE Goal == /\ online' \in SUBSET Peers
                   /\ handling' \in {Idle} \cup [w : {{w} : w \in PeersWidgets}, data : DataType]
                   /\ \A r \in BagToSet(requests') : r \in BagToSet(requests) \/ NewAnswer(r)
<1>1. ASSUME UNCHANGED <<handling, requests>>, online' \in SUBSET Peers
      PROVE  Goal
  BY <1>1 DEF Types
<1>2. CASE changeControl
  BY <1>1, <1>2 DEF changeControl, clientVars, Types
<1>3. CASE acceptFriend \/ notifyListChange \/ addLocation
  BY <1>1, <1>3 DEF acceptFriend, notifyListChange, addLocation, clientVars, Types
<1>4. ASSUME NEW p \in Peers, flipOnline(p) PROVE Goal
  BY <1>1, <1>4 DEF flipOnline, clientVars, Types
<1>5. ASSUME NEW r \in BagToSet(requests), handleControl(r) PROVE Goal
  <2> DEFINE a == Answered(r.w, Data("control"), mStateToken["control"])
  <2>1. r.w \in Widgets
    BY <1>5 DEF Types, Request
  <2>2. Data("control") \in DataType /\ mStateToken["control"] \in Nat
    BY DEF Data, DataType, Types, Resources
  <2>3. NewAnswer(a)
    BY <1>5, <2>1, <2>2 DEF NewAnswer, Answered, Request, handleControl, serverVars
  <2> HIDE DEF a
  <2>4. BagToSet(requests') \subseteq BagToSet(requests) \cup {a}
    BY <1>5, Became DEF handleControl, a
  <2>5. UNCHANGED <<online, handling>>
    BY <1>5 DEF handleControl, serverVars
  <2>6. QED
    BY <2>3, <2>4, <2>5 DEF Types
<1>6. ASSUME NEW r \in BagToSet(requests), readPeers(r) PROVE Goal
  <2>1. r.w \in PeersWidgets
    BY <1>6 DEF Types, Request, Widgets, readPeers, Path
  <2>2. Data("peers") \in DataType
    BY DEF Data, DataType, Types, Resources
  <2>3. BagToSet(requests') \subseteq BagToSet(requests)
    BY <1>6, Became DEF readPeers
  <2>4. online' = online /\ handling' = [w |-> {r.w}, data |-> Data("peers")]
    BY <1>6 DEF readPeers
  <2>5. QED
    BY <2>1, <2>2, <2>3, <2>4 DEF Types
<1>7. ASSUME NEW w \in PeersWidgets, getCurrentStateToken(w) PROVE Goal
  <2> DEFINE a == Answered(w, handling.data, mStateToken'["peers"])
  <2>1. handling.data \in DataType
    <3>1. handling # Idle
      BY <1>7 DEF Idle, getCurrentStateToken
    <3>2. handling \in [w : {{v} : v \in PeersWidgets}, data : DataType]
      BY <3>1 DEF Types
    <3>3. QED
      BY <3>2
  <2>2. mStateToken'["peers"] \in Nat
    BY DEF Resources
  <2>3. w \in Widgets /\ w \notin ControlWidgets
    BY RsApiAssumption DEF Widgets
  <2>4. NewAnswer(a)
    BY <2>1, <2>2, <2>3 DEF NewAnswer, Answered, Request
  <2>5. BagToSet(requests') = BagToSet(requests) \cup {a}
    BY <1>7, Added DEF getCurrentStateToken
  <2>6. online' = online /\ handling' = Idle
    BY <1>7 DEF getCurrentStateToken
  <2> HIDE DEF a
  <2>7. QED
    BY <2>4, <2>5, <2>6 DEF Types
<1>8. CASE handleTokens
  BY <1>1, <1>8 DEF handleTokens, Types
<1>9. CASE \/ \E p \in Peers : flipOnline(p)
           \/ \E r \in BagToSet(requests) : handleControl(r) \/ readPeers(r)
           \/ \E w \in PeersWidgets : getCurrentStateToken(w)
  <2> HIDE DEF Goal
  <2>1. Goal
    BY <1>4, <1>5, <1>6, <1>7, <1>9
  <2>2. QED
    BY <2>1 DEF Goal
<1>10. QED
  BY <1>2, <1>3, <1>8, <1>9 DEF Server

\* Server steps leave the browser's state alone.
LEMMA ServerOnly ==
  ASSUME Server
  PROVE  UNCHANGED <<phase, shown, tokenlisteners>>
<1>1. CASE changeControl \/ acceptFriend \/ notifyListChange \/ addLocation
  BY <1>1 DEF changeControl, acceptFriend, notifyListChange, addLocation, clientVars
<1>2. CASE \E p \in Peers : flipOnline(p)
  BY <1>2 DEF flipOnline, clientVars
<1>3. CASE \E r \in BagToSet(requests) : handleControl(r) \/ readPeers(r)
  BY <1>3 DEF handleControl, readPeers
<1>4. CASE handleTokens \/ \E w \in PeersWidgets : getCurrentStateToken(w)
  BY <1>4 DEF handleTokens, getCurrentStateToken
<1>5. QED
  BY <1>1, <1>2, <1>3, <1>4 DEF Server

LEMMA ServerKeepsInv ==
  ASSUME Inv, Server
  PROVE  Inv'
<1>1. Types /\ TokensDistinct
  BY DEF Inv
<1>2. /\ TokensDistinct'
      /\ mNextToken' \in Nat /\ mStateToken' \in [Resources -> Nat]
      /\ version' \in [Resources -> Nat]
      /\ \A d, t : t \in Nat /\ Fresh(d, t) => Fresh(d, t)'
  BY <1>1, ServerTokens
<1>3. UNCHANGED <<phase, shown, tokenlisteners>>
  BY ServerOnly
<1>4. /\ online' \in SUBSET Peers
      /\ handling' \in {Idle} \cup [w : {{w} : w \in PeersWidgets}, data : DataType]
      /\ \A r \in BagToSet(requests') : r \in BagToSet(requests) \/ NewAnswer(r)
  BY <1>1, <1>2, ServerRequests
<1>5. Types'
  <2>1. BagToSet(requests') \subseteq Request
    BY <1>1, <1>4 DEF Types, NewAnswer
  <2>2. QED
    BY <1>1, <1>2, <1>3, <1>4, <2>1 DEF Types
<1>6. AnswersFresh'
  <2> SUFFICES ASSUME NEW r \in BagToSet(requests'), r.st = "answered", r.w \in ControlWidgets
               PROVE  Fresh(r.data, r.token)'
    BY DEF AnswersFresh
  <2>1. CASE r \in BagToSet(requests)
    <3>1. Fresh(r.data, r.token)
      BY <2>1 DEF Inv, AnswersFresh
    <3>2. r.token \in Nat
      BY <2>1, <1>1 DEF Types, Request
    <3>3. QED
      BY <3>1, <3>2, <1>2
  <2>2. CASE NewAnswer(r)
    <3>1. r.data = Data("control") /\ r.token = mStateToken["control"]
      BY <2>2 DEF NewAnswer
    <3>2. UNCHANGED <<mNextToken, mValidTokens, mStateToken, version>>
      BY <2>2 DEF NewAnswer
    <3>3. QED
      BY <3>1, <3>2, <1>1 DEF Fresh, Data, Types, TokensDistinct, Resources
  <2>3. QED
    BY <1>4, <2>1, <2>2
<1>7. ListenersFresh'
  <2> SUFFICES ASSUME NEW i \in DOMAIN tokenlisteners, tokenlisteners[i].w \in ControlWidgets
               PROVE  Fresh(shown[tokenlisteners[i].w], tokenlisteners[i].token)'
    BY <1>3 DEF ListenersFresh
  <2>1. Fresh(shown[tokenlisteners[i].w], tokenlisteners[i].token)
    BY DEF Inv, ListenersFresh
  <2>2. tokenlisteners[i].token \in Nat
    <3>1. tokenlisteners \in Seq(Listener)
      BY <1>1 DEF Types
    <3>2. tokenlisteners[i] \in Listener
      BY <3>1
    <3>3. QED
      BY <3>2 DEF Listener
  <2> DEFINE d == shown[tokenlisteners[i].w]
             t == tokenlisteners[i].token
  <2>3. d' = d /\ t' = t
    BY <1>3
  <2>4. QED
    BY <1>2, <2>1, <2>2, <2>3 DEF Fresh, Data
<1>8. OneListener' /\ ListenersMounted'
  BY <1>3 DEF Inv, OneListener, ListenersMounted
<1>9. QED
  BY <1>2, <1>5, <1>6, <1>7, <1>8 DEF Inv

-----------------------------------------------------------------------------
(* The browser *)

\* As long as the server does nothing, what a token tells stays true.
LEMMA FreshStays ==
  ASSUME UNCHANGED serverVars, NEW d, NEW t
  PROVE  Fresh(d, t)' <=> Fresh(d, t)
BY DEF serverVars, Fresh, Data

\* Steps of the browser that do not touch the list of listeners.
LEMMA QuietKeepsInv ==
  ASSUME Inv,
         UNCHANGED serverVars, UNCHANGED <<shown, tokenlisteners>>,
         phase' \in [Widgets -> {"new", "mounted", "gone"}],
         \A w \in Widgets : phase[w] = "mounted" => phase'[w] = "mounted",
         \A r \in BagToSet(requests') :
           r \in BagToSet(requests) \/ \E w \in Widgets : r = Sent(w)
  PROVE  Inv'
<1>1. Types'
  BY DEF Inv, Types, serverVars, Request, Sent
<1>2. TokensDistinct'
  BY DEF Inv, TokensDistinct, serverVars
<1>3. AnswersFresh'
  <2> SUFFICES ASSUME NEW r \in BagToSet(requests'), r.st = "answered", r.w \in ControlWidgets
               PROVE  Fresh(r.data, r.token)'
    BY DEF AnswersFresh
  <2>1. r \in BagToSet(requests)
    BY DEF Sent
  <2>2. QED
    BY <2>1, FreshStays DEF Inv, AnswersFresh
<1>4. ListenersFresh'
  BY DEF Inv, ListenersFresh, Fresh, Data, serverVars
<1>5. OneListener'
  BY DEF Inv, OneListener
<1>6. ListenersMounted'
  <2>1. \A i \in DOMAIN tokenlisteners : tokenlisteners[i].w \in Widgets
    <3>1. \A i \in DOMAIN tokenlisteners : tokenlisteners[i] \in Listener
      BY DEF Inv, Types
    <3>2. QED
      BY <3>1 DEF Listener
  <2>2. QED
    BY <2>1 DEF Inv, ListenersMounted
<1>7. QED
  BY <1>1, <1>2, <1>3, <1>4, <1>5, <1>6 DEF Inv

\* What is in the list after an instance left it, T, and after it came back
\* with a token, if it did.
LEMMA ListKeepsInv ==
  ASSUME Inv, NEW w \in Widgets,
         NEW T, T = unregister(tokenlisteners, w),
         UNCHANGED serverVars,
         phase' \in [Widgets -> {"new", "mounted", "gone"}],
         \A v \in Widgets : v # w => phase'[v] = phase[v],
         NEW d \in DataType \cup {NoData}, shown' = [shown EXCEPT ![w] = d],
         BagToSet(requests') \subseteq BagToSet(requests),
         \/ tokenlisteners' = T
         \/ \E t \in Nat : /\ tokenlisteners' = Append(T, [w |-> w, token |-> t])
                           /\ w \in ControlWidgets => Fresh(d, t)
                           /\ phase'[w] = "mounted"
  PROVE  Inv'
<1>1. /\ tokenlisteners \in Seq(Listener)
      /\ \A i, j \in DOMAIN tokenlisteners :
           tokenlisteners[i].w = tokenlisteners[j].w => i = j
  BY DEF Inv, Types, OneListener
<1>2. /\ T \in Seq(Listener)
      /\ \A i, j \in DOMAIN T : T[i].w = T[j].w => i = j
      /\ \A i \in DOMAIN T : T[i].w # w /\ \E j \in DOMAIN tokenlisteners : T[i] = tokenlisteners[j]
  BY <1>1, Unregister
\* Each entry is of another instance, and was there, or is the new one.
<1>3. /\ tokenlisteners' \in Seq(Listener)
      /\ \A i \in DOMAIN tokenlisteners' :
           \/ i \in DOMAIN T /\ tokenlisteners'[i] = T[i]
           \/ /\ i \notin DOMAIN T /\ i = Len(T) + 1
              /\ tokenlisteners'[i].w = w /\ phase'[w] = "mounted"
              /\ w \in ControlWidgets => Fresh(d, tokenlisteners'[i].token)
  <2>1. CASE tokenlisteners' = T
    BY <2>1, <1>2
  <2>2. CASE tokenlisteners' # T
    <3>1. PICK t \in Nat : /\ tokenlisteners' = Append(T, [w |-> w, token |-> t])
                           /\ w \in ControlWidgets => Fresh(d, t)
                           /\ phase'[w] = "mounted"
      BY <2>2
    <3>2. [w |-> w, token |-> t] \in Listener
      BY DEF Listener
    <3>3. /\ tokenlisteners' \in Seq(Listener)
          /\ DOMAIN T = 1 .. Len(T) /\ Len(T) \in Nat
          /\ DOMAIN tokenlisteners' = 1 .. Len(T) + 1
          /\ \A i \in 1 .. Len(T) : tokenlisteners'[i] = T[i]
          /\ tokenlisteners'[Len(T) + 1] = [w |-> w, token |-> t]
      BY <3>1, <3>2, <1>2
    <3>4. ASSUME NEW i \in DOMAIN tokenlisteners', i \in DOMAIN T
          PROVE  tokenlisteners'[i] = T[i]
      BY <3>3, <3>4
    <3>5. ASSUME NEW i \in DOMAIN tokenlisteners', i \notin DOMAIN T
          PROVE  /\ i = Len(T) + 1
                 /\ tokenlisteners'[i].w = w
                 /\ tokenlisteners'[i].token = t
      BY <3>3, <3>5
    <3>6. ASSUME NEW i \in DOMAIN tokenlisteners', i \notin DOMAIN T
          PROVE  w \in ControlWidgets => Fresh(d, tokenlisteners'[i].token)
      BY <3>1, <3>5, <3>6
    <3>7. QED
      BY <3>1, <3>3, <3>4, <3>5, <3>6
  <2>3. QED
    BY <2>1, <2>2
<1>4. Types'
  <2>1. shown' \in [Widgets -> DataType \cup {NoData}]
    BY DEF Inv, Types
  <2>2. QED
    BY <1>3, <2>1 DEF Inv, Types, serverVars
<1>5. TokensDistinct'
  BY DEF Inv, TokensDistinct, serverVars
<1>6. AnswersFresh'
  BY FreshStays DEF Inv, AnswersFresh
<1>7. ListenersFresh'
  <2> SUFFICES ASSUME NEW i \in DOMAIN tokenlisteners', tokenlisteners'[i].w \in ControlWidgets
               PROVE  Fresh(shown[tokenlisteners[i].w], tokenlisteners[i].token)'
    BY DEF ListenersFresh
  <2> DEFINE v == tokenlisteners'[i].w
             t == tokenlisteners'[i].token
  <2>1. Fresh(shown'[v], t)
    <3>1. CASE i \in DOMAIN T /\ tokenlisteners'[i] = T[i]
      <4>1. PICK j \in DOMAIN tokenlisteners : T[i] = tokenlisteners[j]
        BY <3>1, <1>2
      <4>2. Fresh(shown[v], t)
        BY <3>1, <4>1 DEF Inv, ListenersFresh
      <4>3. v # w /\ v \in Widgets
        BY <3>1, <1>2 DEF Widgets
      <4>4. shown'[v] = shown[v]
        BY <4>3 DEF Inv, Types
      <4>5. QED
        BY <4>2, <4>4
    <3>2. CASE v = w /\ (w \in ControlWidgets => Fresh(d, t))
      <4>1. shown'[w] = d
        BY DEF Inv, Types
      <4>2. QED
        BY <3>2, <4>1
    <3>3. QED
      BY <1>3, <3>1, <3>2
  <2>2. QED
    BY <2>1 DEF Fresh, Data, serverVars
<1>8. OneListener'
  BY <1>2, <1>3 DEF OneListener
<1>9. ListenersMounted'
  <2> SUFFICES ASSUME NEW i \in DOMAIN tokenlisteners'
               PROVE  phase'[tokenlisteners'[i].w] = "mounted"
    BY DEF ListenersMounted
  <2>1. CASE i \in DOMAIN T /\ tokenlisteners'[i] = T[i]
    <3>1. PICK j \in DOMAIN tokenlisteners : T[i] = tokenlisteners[j]
      BY <2>1, <1>2
    <3>2. phase[T[i].w] = "mounted"
      BY <3>1 DEF Inv, ListenersMounted
    <3>3. T[i].w # w /\ T[i].w \in Widgets
      <4>1. T[i] \in Listener /\ T[i].w # w
        BY <2>1, <1>2
      <4>2. QED
        BY <4>1 DEF Listener
    <3>4. QED
      BY <2>1, <3>2, <3>3
  <2>2. QED
    BY <1>3, <2>1
<1>10. QED
  BY <1>4, <1>5, <1>6, <1>7, <1>8, <1>9 DEF Inv

LEMMA BrowserKeepsInv ==
  ASSUME Inv, Browser
  PROVE  Inv'
<1>1. Types
  BY DEF Inv
<1>2. ASSUME NEW w \in Widgets, mount(w) PROVE Inv'
  <2>1. BagToSet(requests') = BagToSet(requests) \cup {Sent(w)}
    BY <1>2, Added DEF mount
  <2>2. /\ phase' \in [Widgets -> {"new", "mounted", "gone"}]
        /\ \A v \in Widgets : phase[v] = "mounted" => phase'[v] = "mounted"
    BY <1>1, <1>2 DEF mount, Types
  <2>3. UNCHANGED serverVars /\ UNCHANGED <<shown, tokenlisteners>>
    BY <1>2 DEF mount
  <2>4. QED
    BY <2>1, <2>2, <2>3, QuietKeepsInv
<1>3. ASSUME NEW w \in Widgets, unmount(w) PROVE Inv'
  <2>1. /\ phase' \in [Widgets -> {"new", "mounted", "gone"}]
        /\ \A v \in Widgets : v # w => phase'[v] = phase[v]
    BY <1>1, <1>3 DEF unmount, Types
  <2>2. /\ UNCHANGED serverVars /\ requests' = requests
        /\ shown' = [shown EXCEPT ![w] = NoData]
        /\ tokenlisteners' = unregister(tokenlisteners, w)
    BY <1>3 DEF unmount
  <2> DEFINE T == unregister(tokenlisteners, w)
  <2> HIDE DEF T
  <2>3. tokenlisteners' = T /\ T = unregister(tokenlisteners, w)
    BY <2>2 DEF T
  <2>4. QED
    BY <2>1, <2>2, <2>3, ListKeepsInv
<1>4. ASSUME NEW r \in BagToSet(requests), responseCallback(r) PROVE Inv'
  <2>1. BagToSet(requests') \subseteq BagToSet(requests)
    BY <1>4, Became DEF responseCallback
  <2>2. UNCHANGED serverVars /\ phase' = phase
    BY <1>4 DEF responseCallback
  <2>3. /\ r.w \in Widgets /\ r.data \in DataType /\ r.token \in Nat
        /\ r.w \in ControlWidgets => Fresh(r.data, r.token)
    <3>1. r \in Request /\ r.st = "answered"
      BY <1>1, <1>4 DEF Types, responseCallback
    <3>2. QED
      BY <3>1 DEF Request, Inv, AnswersFresh
  <2>4. CASE phase[r.w] = "mounted"
    <3> DEFINE T == unregister(tokenlisteners, r.w)
    <3>1. /\ shown' = [shown EXCEPT ![r.w] = r.data]
          /\ tokenlisteners' = Append(T, [w |-> r.w, token |-> r.token])
      BY <1>4, <2>4 DEF responseCallback
    <3> HIDE DEF T
    <3>2. T = unregister(tokenlisteners, r.w)
      BY DEF T
    <3>3. phase' \in [Widgets -> {"new", "mounted", "gone"}] /\ phase'[r.w] = "mounted"
      BY <1>1, <2>2, <2>4 DEF Types
    <3>4. QED
      BY <2>1, <2>2, <2>3, <3>1, <3>2, <3>3, ListKeepsInv
  <2>5. CASE phase[r.w] # "mounted"
    <3>1. UNCHANGED <<shown, tokenlisteners>>
      BY <1>4, <2>5 DEF responseCallback
    <3>2. QED
      BY <1>1, <2>1, <2>2, <3>1, QuietKeepsInv DEF Types
  <2>6. QED
    BY <2>4, <2>5
<1>5. ASSUME NEW r \in BagToSet(requests), requestFailed(r) PROVE Inv'
  <2>1. BagToSet(requests') \subseteq BagToSet(requests)
    BY <1>5, Became DEF requestFailed
  <2>2. UNCHANGED serverVars /\ UNCHANGED <<phase, shown, tokenlisteners>>
    BY <1>5 DEF requestFailed
  <2>3. QED
    BY <1>1, <2>1, <2>2, QuietKeepsInv DEF Types
<1>6. CASE clientTick \/ received_error
  <2>1. UNCHANGED serverVars /\ UNCHANGED <<phase, shown, tokenlisteners, requests>>
    BY <1>6 DEF clientTick, received_error
  <2>2. QED
    BY <1>1, <2>1, QuietKeepsInv DEF Types
<1>7. CASE received_tokenstates
  <2>1. UNCHANGED serverVars /\ UNCHANGED <<phase, shown, tokenlisteners>>
    BY <1>7 DEF received_tokenstates
  <2>2. \A r \in BagToSet(requests') :
          r \in BagToSet(requests) \/ \E w \in Widgets : r = Sent(w)
    BY <1>7 DEF received_tokenstates, BagToSet, (+)
  <2>3. QED
    BY <1>1, <2>1, <2>2, QuietKeepsInv DEF Types
<1>8. QED
  BY <1>2, <1>3, <1>4, <1>5, <1>6, <1>7 DEF Browser

LEMMA StepInv == Inv /\ [Next]_vars => Inv'
<1> SUFFICES ASSUME Inv, [Next]_vars PROVE Inv'
  OBVIOUS
<1>1. CASE Server
  BY <1>1, ServerKeepsInv
<1>2. CASE Browser
  BY <1>2, BrowserKeepsInv
<1>3. CASE UNCHANGED vars
  <2>1. UNCHANGED serverVars /\ UNCHANGED <<phase, shown, tokenlisteners, requests>>
    BY <1>3 DEF vars, serverVars
  <2>2. QED
    BY <2>1, QuietKeepsInv DEF Inv, Types
<1>4. QED
  BY <1>1, <1>2, <1>3 DEF Next

\* The invariant holds in every state of the protocol.
THEOREM Invariant == Spec => []Inv
BY InitInv, StepInv, PTL DEF Spec

\* Never two registrations of a component, so that unregister_token_listener,
\* whose loop removes one, leaves none behind.
THEOREM RegisteredOnce == Spec => []OneListener
<1>1. Inv => OneListener
  BY DEF Inv
<1>2. QED
  BY <1>1, Invariant, PTL

\* Late answers never bring back a component that was unmounted.
THEOREM NoneComesBack == Spec => []ListenersMounted
<1>1. Inv => ListenersMounted
  BY DEF Inv
<1>2. QED
  BY <1>1, Invariant, PTL

\* A valid token means that the data shown are those of the server.
THEOREM ValidMeansFresh == Spec => []FreshToken
<1>1. Inv => FreshToken
  BY DEF Inv, ListenersFresh, Fresh, FreshToken
<1>2. QED
  BY <1>1, Invariant, PTL

-----------------------------------------------------------------------------
(* The protocol implements AutoUpdate *)

\* What a listener of a control resource has.
LEMMA ControlTokens ==
  ASSUME Inv, NEW i \in DOMAIN tokenlisteners, tokenlisteners[i].w \in ControlWidgets
  PROVE  /\ tokenlisteners[i].token \in Nat
         /\ tokenlisteners[i].token < mNextToken
         /\ tokenlisteners[i].token \in mValidTokens
              => /\ tokenlisteners[i].token = mStateToken["control"]
                 /\ shown[tokenlisteners[i].w] = Data("control")
<1>1. tokenlisteners[i] \in Listener
  BY DEF Inv, Types
<1>2. QED
  BY <1>1 DEF Inv, ListenersFresh, Fresh, Listener

\* A token of "peers" is none of theirs.
LEMMA OthersTokenChanges ==
  ASSUME Inv, replaceToken("peers"), UNCHANGED <<phase, tokenlisteners>>,
         NEW w \in ControlWidgets
  PROVE  Known(w)' = Known(w)
<1>1. \A i \in DOMAIN tokenlisteners : tokenlisteners[i].w = w
        => (tokenlisteners[i].token \in mValidTokens' <=> tokenlisteners[i].token \in mValidTokens)
  BY ControlTokens DEF replaceToken, Inv, Types, TokensDistinct
<1>2. Valid(w)' <=> Valid(w)
  BY <1>1 DEF Valid
<1>3. Registered(w)' <=> Registered(w)
  BY DEF Registered
<1>4. QED
  BY <1>2, <1>3 DEF Known

\* A change of the control data makes every current component outdated.
LEMMA ChangeAnnounced ==
  ASSUME Inv, replaceToken("control"), UNCHANGED <<phase, tokenlisteners>>,
         NEW w \in ControlWidgets
  PROVE  Known(w)' = IF Known(w) = "current" THEN "outdated" ELSE Known(w)
<1>1. \A i \in DOMAIN tokenlisteners : tokenlisteners[i].w = w
        => tokenlisteners[i].token \notin mValidTokens'
  BY ControlTokens DEF replaceToken, Inv, Types, TokensDistinct
<1>2. ~Valid(w)'
  BY <1>1 DEF Valid
<1>3. Registered(w)' <=> Registered(w)
  BY DEF Registered
<1>4. QED
  BY <1>2, <1>3 DEF Known

\* Whoever is in a list T is found, with his token, in the list U, and the
\* other way round.
SameOthers(T, U, w) ==
  /\ \A i \in DOMAIN T : T[i].w # w => \E j \in DOMAIN U : U[j] = T[i]
  /\ \A j \in DOMAIN U : U[j].w # w => \E i \in DOMAIN T : T[i] = U[j]

LEMMA OthersKnow ==
  ASSUME NEW w, SameOthers(tokenlisteners, tokenlisteners', w),
         UNCHANGED mValidTokens, NEW v, v # w, phase'[v] = phase[v]
  PROVE  Known(v)' = Known(v)
<1>1. Registered(v)' <=> Registered(v)
  BY DEF Registered, SameOthers
<1>2. Valid(v)' <=> Valid(v)
  BY DEF Valid, SameOthers
<1>3. QED
  BY <1>1, <1>2 DEF Known

LEMMA UnregisterOthers ==
  ASSUME Inv, NEW w, tokenlisteners' = unregister(tokenlisteners, w)
  PROVE  /\ SameOthers(tokenlisteners, tokenlisteners', w)
         /\ ~Registered(w)'
<1>1. /\ tokenlisteners \in Seq(Listener)
      /\ \A i, j \in DOMAIN tokenlisteners :
           tokenlisteners[i].w = tokenlisteners[j].w => i = j
  BY DEF Inv, Types, OneListener
<1>2. /\ \A i \in DOMAIN tokenlisteners' :
           tokenlisteners'[i].w # w /\ \E j \in DOMAIN tokenlisteners : tokenlisteners'[i] = tokenlisteners[j]
      /\ \A j \in DOMAIN tokenlisteners : tokenlisteners[j].w # w
           => \E i \in DOMAIN tokenlisteners' : tokenlisteners'[i] = tokenlisteners[j]
  BY <1>1, Unregister
<1>3. QED
  BY <1>2 DEF SameOthers, Registered

LEMMA RegisterOthers ==
  ASSUME Inv, NEW w \in Widgets, NEW t \in Nat,
         tokenlisteners' = Append(unregister(tokenlisteners, w), [w |-> w, token |-> t])
  PROVE  /\ SameOthers(tokenlisteners, tokenlisteners', w)
         /\ Registered(w)'
         /\ Valid(w)' <=> t \in mValidTokens'
<1> DEFINE T == unregister(tokenlisteners, w)
           e == [w |-> w, token |-> t]
<1>1. /\ tokenlisteners \in Seq(Listener)
      /\ \A i, j \in DOMAIN tokenlisteners :
           tokenlisteners[i].w = tokenlisteners[j].w => i = j
  BY DEF Inv, Types, OneListener
<1>2. /\ T \in Seq(Listener)
      /\ \A i \in DOMAIN T : T[i].w # w /\ \E j \in DOMAIN tokenlisteners : T[i] = tokenlisteners[j]
      /\ \A j \in DOMAIN tokenlisteners : tokenlisteners[j].w # w
           => \E i \in DOMAIN T : T[i] = tokenlisteners[j]
  BY <1>1, Unregister
<1>3. e \in Listener /\ e.w = w /\ e.token = t
  BY DEF Listener
<1>4. tokenlisteners' = Append(T, e)
  OBVIOUS
<1> HIDE DEF T, e
<1>5. /\ DOMAIN T = 1 .. Len(T) /\ Len(T) \in Nat
      /\ DOMAIN tokenlisteners' = 1 .. Len(T) + 1
      /\ \A i \in 1 .. Len(T) : tokenlisteners'[i] = T[i]
      /\ tokenlisteners'[Len(T) + 1] = e
  BY <1>2, <1>3, <1>4
<1>6. /\ \A i \in DOMAIN T : i \in DOMAIN tokenlisteners' /\ tokenlisteners'[i] = T[i]
      /\ \A i \in DOMAIN tokenlisteners' : i \in DOMAIN T \/ tokenlisteners'[i] = e
      /\ \E i \in DOMAIN tokenlisteners' : tokenlisteners'[i] = e
  BY <1>5
<1>7. SameOthers(tokenlisteners, tokenlisteners', w)
  BY <1>2, <1>3, <1>6 DEF SameOthers
<1>8. Registered(w)'
  BY <1>3, <1>6 DEF Registered
<1>9. Valid(w)' <=> t \in mValidTokens'
  BY <1>2, <1>3, <1>6 DEF Valid
<1>10. QED
  BY <1>7, <1>8, <1>9

\* What AutoUpdate sees.
LEMMA Unseen ==
  ASSUME version'["control"] = version["control"],
         \A w \in ControlWidgets : Known(w)' = Known(w) /\ shown'[w] = shown[w]
  PROVE  UNCHANGED Promise!auVars
BY DEF Promise!auVars

LEMMA ServerPromise ==
  ASSUME Inv, Server
  PROVE  [Promise!AuNext]_(Promise!auVars)
<1>1. UNCHANGED <<phase, shown, tokenlisteners>>
  BY ServerOnly
<1>2. Types
  BY DEF Inv
<1>3. ASSUME KeepTokens, version'["control"] = version["control"]
      PROVE  UNCHANGED Promise!auVars
  <2>1. \A w \in ControlWidgets : Known(w)' = Known(w)
    BY <1>1, <1>3 DEF KeepTokens, Known, Registered, Valid
  <2>2. QED
    BY <1>1, <1>3, <2>1, Unseen
<1>4. ASSUME replaceToken("peers"), version'["control"] = version["control"]
      PROVE  UNCHANGED Promise!auVars
  <2>1. \A w \in ControlWidgets : Known(w)' = Known(w)
    BY <1>1, <1>4, OthersTokenChanges
  <2>2. QED
    BY <1>1, <1>4, <2>1, Unseen
<1>5. CASE changeControl
  <2>1. \A w \in ControlWidgets :
          Known(w)' = IF Known(w) = "current" THEN "outdated" ELSE Known(w)
    BY <1>1, <1>5, ChangeAnnounced DEF changeControl
  <2>2. version'["control"] = version["control"] + 1
    BY <1>2, <1>5 DEF changeControl, Types, Resources
  <2>3. Promise!Change
    BY <1>1, <2>1, <2>2 DEF Promise!Change
  <2>4. QED
    BY <2>3 DEF Promise!AuNext
<1>6. CASE acceptFriend \/ notifyListChange \/ addLocation
  <2>1. version'["control"] = version["control"]
    BY <1>2, <1>6 DEF acceptFriend, notifyListChange, addLocation, Types, Resources
  <2>2. KeepTokens \/ replaceToken("peers")
    BY <1>6 DEF acceptFriend, notifyListChange, addLocation
  <2>3. QED
    BY <1>3, <1>4, <2>1, <2>2
<1>7. CASE \E p \in Peers : flipOnline(p)
  BY <1>3, <1>7 DEF flipOnline
<1>8. CASE \E r \in BagToSet(requests) : handleControl(r) \/ readPeers(r)
  BY <1>3, <1>8 DEF handleControl, readPeers, serverVars, KeepTokens
<1>9. CASE \E w \in PeersWidgets : getCurrentStateToken(w)
  BY <1>3, <1>4, <1>9 DEF getCurrentStateToken
<1>10. CASE handleTokens
  BY <1>3, <1>4, <1>10 DEF handleTokens, tick
<1>11. QED
  BY <1>5, <1>6, <1>7, <1>8, <1>9, <1>10 DEF Server

LEMMA BrowserPromise ==
  ASSUME Inv, Browser
  PROVE  [Promise!AuNext]_(Promise!auVars)
<1>1. Types
  BY DEF Inv
<1>2. ASSUME UNCHANGED serverVars, UNCHANGED <<phase, shown, tokenlisteners>>
      PROVE  UNCHANGED Promise!auVars
  BY <1>2, Unseen DEF serverVars, Known, Registered, Valid
<1>3. ASSUME NEW w \in Widgets, mount(w)
      PROVE  [Promise!AuNext]_(Promise!auVars)
  <2>1. /\ UNCHANGED <<version, mValidTokens, shown, tokenlisteners>>
        /\ phase[w] = "new" /\ phase' = [phase EXCEPT ![w] = "mounted"]
    BY <1>3 DEF mount, serverVars
  <2>2. Known(w) = "absent" /\ Known(w)' = "waiting"
    <3>1. ~Registered(w)'
      BY <2>1 DEF Registered, Inv, ListenersMounted
    <3>2. phase'[w] = "mounted"
      BY <1>1, <2>1 DEF Types
    <3>3. QED
      BY <2>1, <3>1, <3>2 DEF Known
  <2>3. \A v \in ControlWidgets : v # w => Known(v)' = Known(v)
    BY <1>1, <2>1 DEF Known, Registered, Valid, Types
  <2>4. CASE w \in ControlWidgets
    <3>1. Promise!Appear(w)
      BY <2>1, <2>2, <2>3, <2>4 DEF Promise!Appear
    <3>2. QED
      BY <2>4, <3>1 DEF Promise!AuNext
  <2>5. CASE w \notin ControlWidgets
    BY <2>1, <2>3, <2>5, Unseen
  <2>6. QED
    BY <2>4, <2>5
<1>4. ASSUME NEW w \in Widgets, unmount(w)
      PROVE  [Promise!AuNext]_(Promise!auVars)
  <2>1. /\ UNCHANGED <<version, mValidTokens>>
        /\ phase' = [phase EXCEPT ![w] = "gone"]
        /\ shown' = [shown EXCEPT ![w] = NoData]
        /\ tokenlisteners' = unregister(tokenlisteners, w)
    BY <1>4 DEF unmount, serverVars
  <2>2. Known(w)' = "absent" /\ shown'[w] = NoData
    BY <1>1, <2>1 DEF Known, Types
  <2>3. \A v \in ControlWidgets : v # w => Known(v)' = Known(v) /\ shown'[v] = shown[v]
    <3>1. SameOthers(tokenlisteners, tokenlisteners', w)
      BY <2>1, UnregisterOthers
    <3>2. \A v \in Widgets : v # w => phase'[v] = phase[v] /\ shown'[v] = shown[v]
      BY <1>1, <2>1 DEF Types
    <3>3. QED
      BY <2>1, <3>1, <3>2, OthersKnow DEF Widgets
  <2>4. CASE w \in ControlWidgets
    <3>1. NoData[1] = Promise!Nothing
      BY DEF NoData, Promise!Nothing
    <3>2. /\ Known(w)' = "absent" /\ shown'[w][1] = Promise!Nothing
          /\ version'["control"] = version["control"]
          /\ \A v \in ControlWidgets : v # w => Known(v)' = Known(v) /\ shown'[v][1] = shown[v][1]
      BY <2>1, <2>2, <2>3, <3>1
    <3> HIDE DEF Promise!Nothing
    <3>3. /\ [v \in ControlWidgets |-> Known(v)]'
               = [[v \in ControlWidgets |-> Known(v)] EXCEPT ![w] = "absent"]
          /\ [v \in ControlWidgets |-> shown[v][1]]'
               = [[v \in ControlWidgets |-> shown[v][1]] EXCEPT ![w] = Promise!Nothing]
      BY <3>2
    <3>4. Promise!Disappear(w)
      BY <3>2, <3>3 DEF Promise!Disappear
    <3>5. QED
      BY <2>4, <3>4 DEF Promise!AuNext
  <2>5. CASE w \notin ControlWidgets
    BY <2>1, <2>3, <2>5, Unseen
  <2>6. QED
    BY <2>4, <2>5
<1>5. ASSUME NEW r \in BagToSet(requests), responseCallback(r)
      PROVE  [Promise!AuNext]_(Promise!auVars)
  <2>1. UNCHANGED serverVars /\ phase' = phase
    BY <1>5 DEF responseCallback
  <2>2. CASE phase[r.w] # "mounted"
    BY <1>2, <1>5, <2>1, <2>2 DEF responseCallback
  <2>3. CASE phase[r.w] = "mounted"
    <3>1. /\ r.w \in Widgets /\ r.data \in DataType /\ r.token \in Nat
          /\ r.w \in ControlWidgets => Fresh(r.data, r.token)
      <4>1. r \in Request /\ r.st = "answered"
        BY <1>1, <1>5 DEF Types, responseCallback
      <4>2. QED
        BY <4>1 DEF Request, Inv, AnswersFresh
    <3>2. /\ shown' = [shown EXCEPT ![r.w] = r.data]
          /\ tokenlisteners' = Append(unregister(tokenlisteners, r.w),
                                      [w |-> r.w, token |-> r.token])
      BY <1>5, <2>3 DEF responseCallback
    <3>3. /\ SameOthers(tokenlisteners, tokenlisteners', r.w)
          /\ Registered(r.w)'
          /\ Valid(r.w)' <=> r.token \in mValidTokens'
      BY <3>1, <3>2, RegisterOthers
    <3>4. /\ UNCHANGED <<version, mValidTokens>>
          /\ shown'[r.w] = r.data
          /\ \A v \in ControlWidgets : v # r.w => Known(v)' = Known(v) /\ shown'[v] = shown[v]
      <4>1. \A v \in Widgets : v # r.w => shown'[v] = shown[v]
        BY <1>1, <3>1, <3>2 DEF Types
      <4>2. shown'[r.w] = r.data
        BY <1>1, <3>1, <3>2 DEF Types
      <4>3. UNCHANGED <<version, mValidTokens>>
        BY <2>1 DEF serverVars
      <4>4. QED
        BY <2>1, <3>3, <4>1, <4>2, <4>3, OthersKnow DEF Widgets
    <3>5. CASE r.w \in ControlWidgets
      <4> DEFINE s == IF r.token \in mValidTokens THEN "current" ELSE "outdated"
                 v == r.data[1]
      <4>1. Known(r.w) # "absent" /\ Known(r.w)' = s
        BY <2>1, <2>3, <3>3, <3>4 DEF Known
      <4>2. v \in 0 .. version["control"]
        BY <3>1, <3>5 DEF Fresh
      <4>3. s = "current" => v = version["control"]
        BY <3>1, <3>5 DEF Fresh, Data
      <4>4. s \in {"current", "outdated"}
        OBVIOUS
      <4>5. shown'[r.w][1] = v
        BY <3>4
      <4> HIDE DEF s, v
      <4>6. Promise!Show(r.w)
        BY <3>4, <3>5, <4>1, <4>2, <4>3, <4>4, <4>5 DEF Promise!Show
      <4>7. QED
        BY <3>5, <4>6 DEF Promise!AuNext
    <3>6. CASE r.w \notin ControlWidgets
      BY <3>4, <3>6, Unseen
    <3>7. QED
      BY <3>5, <3>6
  <2>4. QED
    BY <2>2, <2>3
<1>6. CASE \/ \E r \in BagToSet(requests) : requestFailed(r)
           \/ clientTick \/ received_tokenstates \/ received_error
  BY <1>2, <1>6 DEF requestFailed, clientTick, received_tokenstates, received_error
<1>7. QED
  BY <1>3, <1>4, <1>5, <1>6 DEF Browser

\* The token protocol implements AutoUpdate, with any number of components:
\* no change of the data is ever hidden from a component that shows them.
THEOREM Implements == Spec => KeepsPromise
<1>1. Init => Promise!AuInit
  <2> SUFFICES ASSUME Init PROVE Promise!AuInit
    OBVIOUS
  <2>1. \A w \in ControlWidgets : Known(w) = "absent" /\ shown[w][1] = -1
    BY DEF Init, Known, NoData, Widgets
  <2>2. QED
    BY <2>1 DEF Init, Promise!AuInit, Promise!Nothing, Resources
<1>2. Inv /\ [Next]_vars => [Promise!AuNext]_(Promise!auVars)
  <2> SUFFICES ASSUME Inv, [Next]_vars
               PROVE  [Promise!AuNext]_(Promise!auVars)
    OBVIOUS
  <2>1. CASE Server
    BY <2>1, ServerPromise
  <2>2. CASE Browser
    BY <2>2, BrowserPromise
  <2>3. CASE UNCHANGED vars
    BY <2>3, Unseen DEF vars, Known, Registered, Valid
  <2>4. QED
    BY <2>1, <2>2, <2>3 DEF Next
<1>3. QED
  BY <1>1, <1>2, Invariant, PTL DEF Spec, KeepsPromise, Promise!AuSpec


-----------------------------------------------------------------------------
(* Types *)

LEMMA PlusIsABag ==
  ASSUME NEW B, NEW C, IsABag(B), IsABag(C)
  PROVE  IsABag(B (+) C)
BY DEF IsABag, (+)

LEMMA MinusIsABag ==
  ASSUME NEW B, NEW C, IsABag(B), IsABag(C)
  PROVE  IsABag(B (-) C)
BY DEF IsABag, (-)

LEMMA SetIsABag ==
  ASSUME NEW S
  PROVE  IsABag(SetToBag(S))
BY DEF IsABag, SetToBag

LEMMA BecomesIsABag ==
  ASSUME IsABag(requests), NEW r, NEW R, Becomes(r, R)
  PROVE  IsABag(requests')
BY PlusIsABag, MinusIsABag, SetIsABag DEF Becomes

\* What Types leaves out of the server.
ServerTypes ==
  /\ mNextToken > 0
  /\ mValidTokens \in SUBSET Nat
  /\ mOnlinePeers \in SUBSET Peers
  /\ flips \in 0 .. MaxFlips
  /\ friendOp \in {"idle", "accepted", "notified"}

\* Requests are a bag, and a poll has a finite list.
NetTypes ==
  /\ IsABag(requests)
  /\ PollState(poll)

LEMMA ServerTypesStay ==
  ASSUME Types, ServerTypes, Next \/ UNCHANGED vars
  PROVE  ServerTypes'
<1> USE RsApiAssumption DEF ServerTypes
<1>1. ASSUME NEW r \in Resources, replaceToken(r)
      PROVE  mNextToken' > 0 /\ mValidTokens' \in SUBSET Nat
  <2>1. /\ mNextToken \in Nat /\ mNextToken' = mNextToken + 1
        /\ mValidTokens' \subseteq mValidTokens \cup {mNextToken}
    BY <1>1 DEF replaceToken, Types
  <2> QED
    BY <2>1
<1>2. CASE changeControl
  BY <1>1, <1>2 DEF changeControl, Resources
<1>3. CASE acceptFriend
  BY <1>3 DEF acceptFriend, KeepTokens
<1>4. CASE notifyListChange
  BY <1>1, <1>4 DEF notifyListChange, Resources
<1>5. CASE addLocation
  BY <1>5 DEF addLocation, KeepTokens
<1>6. ASSUME NEW p \in Peers, flipOnline(p) PROVE ServerTypes'
  BY <1>6 DEF flipOnline, KeepTokens
<1>7. ASSUME NEW r, handleControl(r) \/ readPeers(r) PROVE ServerTypes'
  BY <1>7 DEF handleControl, readPeers, serverVars, KeepTokens
<1>8. ASSUME NEW w, getCurrentStateToken(w) PROVE ServerTypes'
  BY <1>1, <1>8 DEF getCurrentStateToken, KeepTokens, Resources
<1>9. CASE handleTokens
  BY <1>1, <1>9 DEF handleTokens, tick, KeepTokens, Resources, Types
<1>10. CASE UNCHANGED serverVars
  BY <1>10 DEF serverVars
<1>11. CASE Browser
  BY <1>10, <1>11 DEF Browser, mount, unmount, responseCallback, requestFailed, clientTick,
     received_tokenstates, received_error
<1>12. CASE UNCHANGED vars
  BY <1>10, <1>12 DEF vars, serverVars
<1> QED
  BY <1>2, <1>3, <1>4, <1>5, <1>6, <1>7, <1>8, <1>9, <1>11, <1>12 DEF Next, Server

\* The listeners called by one answer are finitely many.
LEMMA CallsFinite ==
  ASSUME Types, PollState(poll), poll.st = "answered", NEW w
  PROVE  /\ IsFiniteSet(CallsOf(w))
         /\ CallsOf(w) # {} => Cardinality(CallsOf(w)) \in {n \in Nat : n > 0}
<1>1. IsFiniteSet(DOMAIN poll.tokens)
  BY DEF PollState, Timer
<1>2. IsFiniteSet(DOMAIN tokenlisteners)
  <2>1. DOMAIN tokenlisteners = 1 .. Len(tokenlisteners) /\ Len(tokenlisteners) \in Nat
    BY DEF Types
  <2> QED
    BY <2>1, FS_Interval
<1>3. IsFiniteSet((DOMAIN poll.tokens) \X (DOMAIN tokenlisteners))
  BY <1>1, <1>2, FS_Product
<1>4. CallsOf(w) \in SUBSET ((DOMAIN poll.tokens) \X (DOMAIN tokenlisteners))
  BY DEF CallsOf, Calls
<1>5. IsFiniteSet(CallsOf(w))
  BY <1>3, <1>4, FS_Subset
<1>6. /\ Cardinality(CallsOf(w)) \in Nat
      /\ Cardinality(CallsOf(w)) = 0 <=> CallsOf(w) = {}
  BY <1>5, FS_CardinalityType, FS_EmptySet
<1> QED
  BY <1>5, <1>6

LEMMA NetTypesStay ==
  ASSUME Types, NetTypes, Next \/ UNCHANGED vars
  PROVE  NetTypes'
<1>1. IsABag(requests) /\ PollState(poll)
  BY DEF NetTypes
<1>2. ASSUME UNCHANGED poll, IsABag(requests') PROVE NetTypes'
  BY <1>1, <1>2 DEF NetTypes, PollState
<1>3. ASSUME NEW r, NEW R, Becomes(r, R), UNCHANGED poll PROVE NetTypes'
  BY <1>1, <1>2, <1>3, BecomesIsABag
<1>4. CASE \/ changeControl \/ acceptFriend \/ notifyListChange \/ addLocation
           \/ \E p \in Peers : flipOnline(p)
  BY <1>1, <1>2, <1>4 DEF changeControl, acceptFriend, notifyListChange, addLocation,
     flipOnline, clientVars
<1>5. ASSUME NEW r, handleControl(r) \/ readPeers(r) PROVE NetTypes'
  BY <1>3, <1>5 DEF handleControl, readPeers
<1>6. ASSUME NEW w, getCurrentStateToken(w) PROVE NetTypes'
  <2>1. /\ UNCHANGED poll
        /\ requests' = requests (+) SetToBag({Answered(w, handling.data, mStateToken'["peers"])})
    BY <1>6 DEF getCurrentStateToken
  <2> QED
    BY <1>1, <1>2, <2>1, PlusIsABag, SetIsABag
<1>7. CASE handleTokens
  <2> DEFINE Invalid == {i \in DOMAIN poll.tokens : poll.tokens[i] \notin mValidTokens'}
             left == [i \in Invalid |-> poll.tokens[i]]
  <2>1. /\ poll' = [st |-> "answered", tokens |-> left]
        /\ poll.st = "sent" /\ requests' = requests
    BY <1>7 DEF handleTokens
  <2>2. poll.tokens \in [DOMAIN poll.tokens -> Nat] /\ IsFiniteSet(DOMAIN poll.tokens)
    BY <1>1, <2>1 DEF PollState, Timer
  <2>3. Invalid \in SUBSET DOMAIN poll.tokens
    OBVIOUS
  <2>4. IsFiniteSet(Invalid)
    BY <2>2, <2>3, FS_Subset
  <2>5. left \in [Invalid -> Nat] /\ DOMAIN left = Invalid
    BY <2>2, <2>3
  <2> HIDE DEF left, Invalid
  <2>6. PollState(poll')
    BY <2>1, <2>4, <2>5 DEF PollState
  <2> QED
    BY <1>1, <2>1, <2>6 DEF NetTypes, PollState
<1>8. ASSUME NEW w, mount(w) \/ unmount(w) PROVE NetTypes'
  <2>1. CASE mount(w)
    BY <1>1, <1>2, <2>1, PlusIsABag, SetIsABag DEF mount
  <2>2. CASE unmount(w)
    BY <1>1, <1>2, <2>2 DEF unmount
  <2> QED
    BY <1>8, <2>1, <2>2
<1>9. ASSUME NEW r, responseCallback(r) \/ requestFailed(r) PROVE NetTypes'
  BY <1>3, <1>9 DEF responseCallback, requestFailed
<1>10. CASE clientTick
  <2> DEFINE asked == [i \in 1 .. Len(tokenlisteners) |-> tokenlisteners[i].token]
  <2>1. poll' = [st |-> "sent", tokens |-> asked] /\ requests' = requests
    BY <1>10 DEF clientTick
  <2>2. Len(tokenlisteners) \in Nat
        /\ \A i \in 1 .. Len(tokenlisteners) : tokenlisteners[i].token \in Nat
    <3>1. Len(tokenlisteners) \in Nat
          /\ \A i \in 1 .. Len(tokenlisteners) : tokenlisteners[i] \in Listener
      BY DEF Types
    <3> QED
      BY <3>1 DEF Listener
  <2>3. /\ asked \in [1 .. Len(tokenlisteners) -> Nat]
        /\ DOMAIN asked = 1 .. Len(tokenlisteners)
    BY <2>2
  <2>4. IsFiniteSet(1 .. Len(tokenlisteners))
    BY <2>2, FS_Interval
  <2> HIDE DEF asked
  <2>5. PollState(poll')
    BY <2>1, <2>3, <2>4 DEF PollState
  <2> QED
    BY <1>1, <2>1, <2>5 DEF NetTypes, PollState
<1>11. CASE received_tokenstates
  <2> DEFINE W == {v \in Widgets : CallsOf(v) # {}}
             sent == [r \in {Sent(w) : w \in W} |-> Cardinality(CallsOf(r.w))]
  <2>1. poll.st = "answered" /\ requests' = requests (+) sent /\ poll' = Timer
    BY <1>11 DEF received_tokenstates
  <2>2. IsABag(sent)
    <3>1. ASSUME NEW w \in W
          PROVE  Sent(w).w = w /\ Cardinality(CallsOf(w)) \in {n \in Nat : n > 0}
      BY <1>1, <2>1, CallsFinite DEF Sent
    <3>2. ASSUME NEW r \in {Sent(w) : w \in W}
          PROVE  Cardinality(CallsOf(r.w)) \in {n \in Nat : n > 0}
      BY <3>1
    <3> HIDE DEF W
    <3> QED
      BY <3>2 DEF IsABag
  <2> HIDE DEF sent
  <2> QED
    BY <1>1, <2>1, <2>2, PlusIsABag DEF NetTypes, PollState
<1>12. CASE received_error
  BY <1>1, <1>12 DEF received_error, NetTypes, PollState
<1>13. CASE UNCHANGED vars
  BY <1>1, <1>13 DEF vars, NetTypes, PollState
<1> QED
  BY <1>4, <1>5, <1>6, <1>7, <1>8, <1>9, <1>10, <1>11, <1>12, <1>13 DEF Next, Server, Browser

\* The variables of StateTokenServer, of the resources and of the browser's
\* script have their types; requests on their way stay a bag, also when a request
\* fails or is sent again by each call of a listener.
THEOREM ApiTypeCorrect == Spec => []TypeOK
<1>1. Init => ServerTypes
  BY RsApiAssumption DEF Init, ServerTypes
<1>2. Init => NetTypes
  BY DEF Init, NetTypes, PollState, IsABag, EmptyBag, SetToBag
<1>3. Inv /\ ServerTypes /\ [Next]_vars => ServerTypes'
  BY ServerTypesStay DEF Inv
<1>4. Inv /\ NetTypes /\ [Next]_vars => NetTypes'
  BY NetTypesStay DEF Inv
<1>5. Inv /\ ServerTypes /\ NetTypes => TypeOK
  BY DEF Inv, Types, ServerTypes, NetTypes, Listener, Widgets, TypeOK
<1>6. QED
  BY <1>1, <1>2, <1>3, <1>4, <1>5, InitInv, StepInv, PTL DEF Spec

=============================================================================
