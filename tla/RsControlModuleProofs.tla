----------------------- MODULE RsControlModuleProofs ------------------------
(***************************************************************************)
(* RsControlModule for any number of API threads and any requests: who     *)
(* holds which mutex, the hand-over of passwords, and that the circular    *)
(* waits are never over.                                                   *)
(***************************************************************************)
EXTENDS RsControlModule, TLAPS

\* The types the other parts rest on.
Threads ==
  /\ client \in [Clients -> {"idle"} \cup AllRequests \cup InHandler]
  /\ dataMtx \in Clients \cup {Run, NoOne}
  /\ pgpMtx \in Clients \cup {Run, NoOne}

\* How the mutexes follow the places of the threads (an auxiliary fact).
MutexesHeld ==
  /\ pgpMtx = Run <=> run \in {"ask", "wait", "try"}
  /\ dataMtx = Run <=> run = "blocked"
  /\ \A c \in Clients : dataMtx = c <=> client[c] = "reading"
  /\ \A c, d \in Clients : client[c] \in InHandler /\ client[d] \in InHandler => c = d

\* The inductive invariant.
Inv == Threads /\ MutexesHeld /\ PasswordIsThere /\ ApiNeverAsks

LEMMA InitInv == Init => Inv
<1> SUFFICES ASSUME Init PROVE Inv
  OBVIOUS
<1> USE ControlAssumption DEF Init, Run, NoOne
<1>1. Threads BY DEF Threads
<1>2. MutexesHeld BY DEF MutexesHeld, InHandler
<1>3. PasswordIsThere /\ ApiNeverAsks BY DEF PasswordIsThere, ApiNeverAsks
<1>4. QED BY <1>1, <1>2, <1>3 DEF Inv

\* The steps of the module's thread leave the handlers where they are.
LEMMA RunKeepsInv ==
  ASSUME Inv, RunThread
  PROVE  Inv'
<1> USE ControlAssumption DEF Inv, Threads, MutexesHeld, PasswordIsThere, ApiNeverAsks,
                              InHandler, data, others, setRunState,
                              DataFree, PgpFree, NoOne, Run
<1>1. CASE initialise
  <2>1. /\ run = "init" /\ run' \in {"fatal", "top"}
        /\ UNCHANGED <<mWantPassword, mPassword, mFixedPassword, client, dataMtx, pgpMtx>>
    BY <1>1 DEF initialise
  <2>2. QED BY <2>1
<1>2. CASE startSelection BY <1>2 DEF startSelection
<1>3. CASE selectAccount BY <1>3 DEF selectAccount
<1>4. CASE loadCertificates BY <1>4 DEF loadCertificates
<1>5. CASE askForPassword BY <1>5 DEF askForPassword
<1>6. CASE takePassword BY <1>6 DEF takePassword
<1>7. CASE decrypt BY <1>7 DEF decrypt
<1>8. CASE startUp BY <1>8 DEF startUp
<1>9. CASE loadMainModules BY <1>9 DEF loadMainModules
<1>10. CASE upAndRunning BY <1>10 DEF upAndRunning
<1>11. CASE shutDown BY <1>11 DEF shutDown
<1>12. QED BY <1>1, <1>2, <1>3, <1>4, <1>5, <1>6, <1>7, <1>8, <1>9, <1>10, <1>11 DEF RunThread

-----------------------------------------------------------------------------
(* The steps of a handler *)

Places == {"idle"} \cup AllRequests \cup InHandler

\* What a move of an API thread does to the table of threads.
LEMMA Move ==
  ASSUME Threads, NEW c \in Clients, NEW place \in Places, Goes(c, place)
  PROVE  /\ client' \in [Clients -> Places]
         /\ client'[c] = place
         /\ \A d \in Clients \ {c} : client'[d] = client[d]
BY DEF Threads, Goes, Places

\* Only one handler is at work, when a thread begins one with mMtx free, goes
\* on with its own, or moves to a place outside.
LEMMA OneHandler ==
  ASSUME Inv, NEW c \in Clients, NEW place \in Places, Goes(c, place),
         ApiFree \/ client[c] \in InHandler \/ place \notin InHandler
  PROVE  \A a, b \in Clients : client'[a] \in InHandler /\ client'[b] \in InHandler => a = b
<1>1. Threads /\ MutexesHeld BY DEF Inv
<1>2. /\ client'[c] = place
      /\ \A d \in Clients \ {c} : client'[d] = client[d]
  BY <1>1, Move
<1>3. QED BY <1>1, <1>2 DEF MutexesHeld, ApiFree

\* A handler takes mDataMtx to read, and gives it back.
LEMMA HandlerStep ==
  ASSUME Inv, NEW c \in Clients, NEW place \in Places, Goes(c, place),
         ApiFree \/ client[c] \in InHandler \/ place \notin InHandler,
         run' = run, pgpMtx' = pgpMtx,
         \/ dataMtx' = dataMtx /\ (client[c] = "reading" <=> place = "reading")
         \/ DataFree /\ dataMtx' = c /\ place = "reading"
         \/ client[c] = "reading" /\ dataMtx' = NoOne /\ place # "reading"
  PROVE  Threads' /\ MutexesHeld'
<1>1. Threads /\ MutexesHeld BY DEF Inv
<1>2. /\ client' \in [Clients -> Places]
      /\ client'[c] = place
      /\ \A d \in Clients \ {c} : client'[d] = client[d]
  BY <1>1, Move
<1>3. Threads' BY <1>1, <1>2 DEF Threads, Places
<1>4. \A d \in Clients : dataMtx' = d <=> client'[d] = "reading"
  BY <1>1, <1>2, ControlAssumption DEF MutexesHeld, DataFree
<1>5. dataMtx' = Run <=> run' = "blocked"
  BY <1>1, <1>2, ControlAssumption DEF MutexesHeld, DataFree, Run, NoOne
<1>6. \A a, b \in Clients : client'[a] \in InHandler /\ client'[b] \in InHandler => a = b
  BY OneHandler
<1>7. QED BY <1>1, <1>3, <1>4, <1>5, <1>6 DEF MutexesHeld

\* The rest of the invariant, for a handler that changes no password.
LEMMA PasswordsKept ==
  ASSUME Inv, NEW c \in Clients, NEW place \in Places, Goes(c, place), place # "signing",
         run' = run, UNCHANGED <<mWantPassword, mPassword, mFixedPassword>>
  PROVE  PasswordIsThere' /\ ApiNeverAsks'
<1>1. /\ client'[c] = place
      /\ \A d \in Clients \ {c} : client'[d] = client[d]
  BY Move DEF Inv
<1>2. QED BY <1>1 DEF Inv, PasswordIsThere, ApiNeverAsks

LEMMA ServeKeepsInv ==
  ASSUME Inv, NEW c \in Clients, Serve(c)
  PROVE  Inv'
<1> USE DEF runVars, data, Done
<1>1. ASSUME NEW place \in Places, Goes(c, place), place \notin {"reading", "signing"},
             ApiFree \/ client[c] \in InHandler \/ place \notin InHandler,
             client[c] # "reading",
             UNCHANGED <<run, dataMtx, pgpMtx, mWantPassword, mPassword, mFixedPassword>>
      PROVE  Inv'
  BY <1>1, HandlerStep, PasswordsKept DEF Inv
<1>2. CASE \/ handleQuery(c) \/ handleLogin(c) \/ handleShutdown(c) \/ chooseLocation(c)
  BY <1>1, <1>2
  DEF handleQuery, handleLogin, handleShutdown, chooseLocation, Places, InHandler
<1>3. CASE handleImportPgp(c)
  BY <1>1, <1>3 DEF handleImportPgp, Places, InHandler
<1>4. CASE handleCreateLocation(c) \/ GeneratePGPCertificate(c)
  BY <1>1, <1>4 DEF handleCreateLocation, GeneratePGPCertificate, Places, InHandler
<1>5. CASE GenerateSSLCertificate(c)
  BY <1>1, <1>5 DEF GenerateSSLCertificate, Places, InHandler
<1>6. CASE handleIdentities(c)
  <2>1. CASE Done(c) /\ UNCHANGED dataMtx
    BY <1>1, <1>6, <2>1 DEF handleIdentities, Places, InHandler
  <2>2. CASE Goes(c, "reading") /\ dataMtx' = c
    <3>1. /\ "reading" \in Places
          /\ ApiFree /\ DataFree
          /\ UNCHANGED <<run, pgpMtx, mWantPassword, mPassword, mFixedPassword>>
      BY <1>6 DEF handleIdentities, Places, InHandler
    <3>2. Threads' /\ MutexesHeld' BY <2>2, <3>1, HandlerStep
    <3>3. PasswordIsThere' /\ ApiNeverAsks' BY <2>2, <3>1, PasswordsKept
    <3>4. QED BY <3>2, <3>3 DEF Inv
  <2>3. QED BY <1>6, <2>1, <2>2 DEF handleIdentities
<1>7. CASE GetPGPLogins(c)
  <2>1. /\ "idle" \in Places /\ "idle" \notin InHandler
        /\ client[c] = "reading" /\ Goes(c, "idle") /\ dataMtx' = NoOne
        /\ UNCHANGED <<run, pgpMtx, mWantPassword, mPassword, mFixedPassword>>
    BY <1>7 DEF GetPGPLogins, Places, InHandler
  <2>2. Threads' /\ MutexesHeld' BY <2>1, HandlerStep
  <2>3. PasswordIsThere' /\ ApiNeverAsks' BY <2>1, PasswordsKept
  <2>4. QED BY <2>2, <2>3 DEF Inv
<1>8. CASE handlePassword(c)
  <2>1. /\ "idle" \in Places /\ "idle" \notin InHandler
        /\ client[c] = "set_password" /\ Goes(c, "idle")
        /\ UNCHANGED <<run, dataMtx, pgpMtx, mFixedPassword>>
        /\ mPassword' \/ UNCHANGED <<mPassword, mWantPassword>>
    BY <1>8 DEF handlePassword, Places, InHandler
  <2>2. Threads' /\ MutexesHeld' BY <2>1, HandlerStep
  <2>3. PasswordIsThere' BY <2>1 DEF Inv, PasswordIsThere
  <2>4. ApiNeverAsks' BY <2>1, Move DEF Inv, ApiNeverAsks
  <2>5. QED BY <2>2, <2>3, <2>4 DEF Inv
<1>9. CASE fixPassword(c)
  <2>1. /\ "signing" \in Places
        /\ client[c] = "fixing" /\ client[c] \in InHandler /\ Goes(c, "signing")
        /\ UNCHANGED <<run, dataMtx, pgpMtx, mWantPassword, mPassword>>
        /\ mFixedPassword'
    BY <1>9 DEF fixPassword, Places, InHandler
  <2>2. Threads' /\ MutexesHeld' BY <2>1, HandlerStep
  <2>3. PasswordIsThere' /\ ApiNeverAsks'
    BY <2>1 DEF Inv, PasswordIsThere, ApiNeverAsks
  <2>4. QED BY <2>2, <2>3 DEF Inv
<1>10. CASE unfixPassword(c)
  <2>1. PICK place \in {"idle", "choosing"} : Goes(c, place)
    BY <1>10 DEF unfixPassword
  <2>2. /\ place \in Places /\ place \notin {"reading", "signing"}
        /\ client[c] \in {"unfixing", "giving_up"} /\ client[c] \in InHandler
        /\ UNCHANGED <<run, dataMtx, pgpMtx, mWantPassword, mPassword>>
    BY <1>10, <2>1 DEF unfixPassword, Places, InHandler
  <2>3. Threads' /\ MutexesHeld' BY <2>1, <2>2, HandlerStep
  <2>4. PasswordIsThere' BY <2>2 DEF Inv, PasswordIsThere
  <2>5. \A d \in Clients : client[d] \in InHandler => d = c
    BY <2>2 DEF Inv, MutexesHeld
  <2>6. /\ client'[c] = place
        /\ \A d \in Clients \ {c} : client'[d] = client[d]
    BY <2>1, <2>2, Move DEF Inv
  <2>7. ApiNeverAsks' BY <2>2, <2>5, <2>6 DEF ApiNeverAsks, InHandler
  <2>8. QED BY <2>3, <2>4, <2>7 DEF Inv
<1>11. CASE useBeforeInit(c)
  BY <1>11 DEF useBeforeInit, Inv, Threads, MutexesHeld, PasswordIsThere, ApiNeverAsks
<1>12. QED
  BY <1>2, <1>3, <1>4, <1>5, <1>6, <1>7, <1>8, <1>9, <1>10, <1>11 DEF Serve

LEMMA NextKeepsInv == Inv /\ [Next]_vars => Inv'
<1> SUFFICES ASSUME Inv, [Next]_vars PROVE Inv'
  OBVIOUS
<1>1. CASE RunThread BY <1>1, RunKeepsInv
<1>2. ASSUME NEW c \in Clients, Serve(c) PROVE Inv'
  BY <1>2, ServeKeepsInv
<1>3. ASSUME NEW c \in Clients, NEW r \in Requests, send(c, r) PROVE Inv'
  <2>1. r \in AllRequests BY ControlAssumption
  <2>2. /\ client[c] = "idle" /\ Goes(c, r) /\ r \in Places
        /\ r \notin InHandler
        /\ UNCHANGED <<run, dataMtx, pgpMtx, mWantPassword, mPassword, mFixedPassword>>
    BY <1>3, <2>1 DEF send, Goes, Places, AllRequests, InHandler, runVars, data
  <2>3. r \notin {"reading", "signing"} BY <2>2 DEF InHandler
  <2>4. Threads' /\ MutexesHeld' BY <2>2, <2>3, HandlerStep
  <2>5. PasswordIsThere' /\ ApiNeverAsks' BY <2>2, <2>3, PasswordsKept
  <2>6. QED BY <2>4, <2>5 DEF Inv
<1>4. CASE stopServers \/ endProcess \/ UNCHANGED vars
  BY <1>4
  DEF stopServers, endProcess, vars, runVars, data, Inv, Threads, MutexesHeld,
      PasswordIsThere, ApiNeverAsks
<1>5. QED BY <1>1, <1>2, <1>3, <1>4 DEF Next

\* The thread in askForPassword finds a password when its flag is cleared.
THEOREM PasswordHandedOver == Spec => []PasswordIsThere
<1>1. Inv => PasswordIsThere BY DEF Inv
<1>2. QED BY <1>1, InitInv, NextKeepsInv, PTL DEF Spec

\* handleCreateLocation never waits for a password with mMtx held.
THEOREM LocationsNeedNoPassword == Spec => []ApiNeverAsks
<1>1. Inv => ApiNeverAsks BY DEF Inv
<1>2. QED BY <1>1, InitInv, NextKeepsInv, PTL DEF Spec

-----------------------------------------------------------------------------
(* The circular waits *)

LEMMA RunStaysStuck ==
  ASSUME Inv, Stuck, RunThread
  PROVE  Stuck'
<1> USE DEF Inv, Threads, MutexesHeld, DataFree, PgpFree, NoOne, Run
<1>1. CASE run = "blocked"
  BY <1>1 DEF Stuck, SelfStuck, RunThread, initialise, startSelection, selectAccount,
     loadCertificates, askForPassword, takePassword, decrypt, startUp, loadMainModules,
     upAndRunning, shutDown
<1>2. CASE IdentitiesStuck
  <2>1. ~DataFree BY <1>2, ControlAssumption DEF IdentitiesStuck
  <2>2. QED
    BY <1>2, <2>1 DEF IdentitiesStuck, RunThread, initialise, startSelection, selectAccount,
       loadCertificates, askForPassword, takePassword, decrypt, startUp, loadMainModules,
       upAndRunning, shutDown
<1>3. CASE ApiStuck
  BY <1>3 DEF ApiStuck, RunThread, initialise, startSelection, selectAccount,
     loadCertificates, askForPassword, takePassword, decrypt, startUp, loadMainModules,
     upAndRunning, shutDown
<1>4. QED BY <1>1, <1>2, <1>3 DEF Stuck, SelfStuck

LEMMA ServeStaysStuck ==
  ASSUME Inv, Stuck, NEW c \in Clients, Serve(c)
  PROVE  Stuck'
<1>1. run' = run
  BY DEF Serve, handleQuery, handlePassword, handleLogin, handleShutdown, handleIdentities,
     GetPGPLogins, handleImportPgp, handleCreateLocation, GeneratePGPCertificate,
     fixPassword, GenerateSSLCertificate, unfixPassword, chooseLocation, useBeforeInit, runVars
<1>2. CASE SelfStuck BY <1>1, <1>2 DEF Stuck, SelfStuck
<1>3. CASE IdentitiesStuck
  <2>1. ~DataFree /\ ~PgpFree
    BY <1>3, ControlAssumption DEF IdentitiesStuck, Inv, MutexesHeld, DataFree, PgpFree, NoOne, Run
  <2>2. UNCHANGED dataMtx
    BY <2>1 DEF Serve, handleQuery, handlePassword, handleLogin, handleShutdown,
       handleIdentities, GetPGPLogins, handleImportPgp, handleCreateLocation,
       GeneratePGPCertificate, fixPassword, GenerateSSLCertificate, unfixPassword,
       chooseLocation, useBeforeInit
  <2>3. QED BY <1>1, <1>3, <2>2 DEF IdentitiesStuck, Stuck
<1>4. CASE ApiStuck
  <2>1. PICK d \in Clients : client[d] \in {"importing", "generating", "signing"}
    BY <1>4 DEF ApiStuck
  <2>2. ~PgpFree /\ ~ApiFree
    BY <1>4, <2>1, ControlAssumption
    DEF ApiStuck, ApiFree, InHandler, Inv, MutexesHeld, PgpFree, NoOne, Run
  <2>3. c # d
    BY <1>4, <2>1, <2>2
    DEF ApiStuck, Serve, handleQuery, handlePassword, handleLogin, handleShutdown,
       handleIdentities, GetPGPLogins, handleImportPgp, handleCreateLocation,
       GeneratePGPCertificate, fixPassword, GenerateSSLCertificate, unfixPassword,
       chooseLocation, useBeforeInit
  <2>4. client[c] \notin InHandler
    BY <2>1, <2>3 DEF Inv, MutexesHeld, InHandler
  <2>5. QED
    BY <2>2, <2>4
    DEF Serve, handleQuery, handlePassword, handleLogin, handleShutdown,
       handleIdentities, GetPGPLogins, handleImportPgp, handleCreateLocation,
       GeneratePGPCertificate, fixPassword, GenerateSSLCertificate, unfixPassword,
       chooseLocation, useBeforeInit, InHandler
<1>5. QED BY <1>2, <1>3, <1>4 DEF Stuck

LEMMA StuckStays == Inv /\ Stuck /\ [Next]_vars => Stuck'
<1> SUFFICES ASSUME Inv, Stuck, [Next]_vars PROVE Stuck'
  OBVIOUS
<1>1. CASE RunThread BY <1>1, RunStaysStuck
<1>2. ASSUME NEW c \in Clients, Serve(c) PROVE Stuck'
  BY <1>2, ServeStaysStuck
<1>3. ASSUME NEW c \in Clients, NEW r \in Requests, send(c, r) PROVE Stuck'
  <2>1. /\ client[c] = "idle" /\ client' = [client EXCEPT ![c] = r]
        /\ UNCHANGED <<run, mWantPassword, dataMtx>>
    BY <1>3 DEF send, runVars, data
  <2>2. CASE ApiStuck
    <3>1. PICK d \in Clients : client[d] \in {"importing", "generating", "signing"}
      BY <2>2 DEF ApiStuck
    <3>2. client'[d] = client[d] BY <2>1, <3>1
    <3>3. QED BY <2>1, <2>2, <3>1, <3>2 DEF ApiStuck, Stuck
  <2>3. QED BY <2>1, <2>2 DEF Stuck, IdentitiesStuck, SelfStuck
<1>4. CASE stopServers \/ endProcess \/ UNCHANGED vars
  BY <1>4 DEF stopServers, endProcess, vars, runVars, data, Stuck, IdentitiesStuck,
     SelfStuck, ApiStuck
<1>5. QED BY <1>1, <1>2, <1>3, <1>4 DEF Next

\* Once the login and a handler wait for each other, or the login for itself,
\* they do for ever.
THEOREM StuckIsForEver == Spec => StuckForEver
<1>1. Inv /\ [Next]_vars => [Stuck => Stuck']_vars BY StuckStays
<1>2. QED BY <1>1, InitInv, NextKeepsInv, PTL DEF Spec, StuckForEver
-----------------------------------------------------------------------------
(* Announcements *)

TokenType == mStateToken \in {0, 1}

\* What a step does to the token, and to what requests answer.
TokenStep ==
  \/ mStateToken' = 1 - mStateToken
  \/ UNCHANGED <<mRunState, mWantPassword, mStateToken>>

LEMMA RunAnnounces == RunThread => TokenStep
<1> SUFFICES ASSUME RunThread PROVE TokenStep
  OBVIOUS
<1> USE DEF TokenStep, data, setRunState, replaceToken
<1>1. CASE initialise BY <1>1 DEF initialise
<1>2. CASE startSelection BY <1>2 DEF startSelection
<1>3. CASE selectAccount \/ loadCertificates \/ decrypt \/ loadMainModules \/ shutDown
  BY <1>3 DEF selectAccount, loadCertificates, decrypt, loadMainModules, shutDown
<1>4. CASE askForPassword BY <1>4 DEF askForPassword
<1>5. CASE takePassword BY <1>5 DEF takePassword
<1>6. CASE startUp \/ upAndRunning BY <1>6 DEF startUp, upAndRunning
<1>7. QED BY <1>1, <1>2, <1>3, <1>4, <1>5, <1>6 DEF RunThread

LEMMA ServeAnnounces ==
  ASSUME NEW c \in Clients, Serve(c)
  PROVE  TokenStep
<1> USE DEF TokenStep, data
<1>1. CASE handlePassword(c) BY <1>1 DEF handlePassword, replaceToken
<1>2. CASE \/ handleQuery(c) \/ handleLogin(c) \/ handleShutdown(c) \/ handleIdentities(c)
           \/ GetPGPLogins(c) \/ handleImportPgp(c) \/ handleCreateLocation(c)
  BY <1>2 DEF handleQuery, handleLogin, handleShutdown, handleIdentities, GetPGPLogins,
     handleImportPgp, handleCreateLocation
<1>3. CASE \/ GeneratePGPCertificate(c) \/ fixPassword(c) \/ GenerateSSLCertificate(c)
           \/ unfixPassword(c) \/ chooseLocation(c) \/ useBeforeInit(c)
  BY <1>3 DEF GeneratePGPCertificate, fixPassword, GenerateSSLCertificate, unfixPassword,
     chooseLocation, useBeforeInit
<1>4. QED BY <1>1, <1>2, <1>3 DEF Serve

LEMMA NextAnnounces == [Next]_vars => TokenStep
<1> SUFFICES ASSUME [Next]_vars PROVE TokenStep
  OBVIOUS
<1>1. CASE RunThread BY <1>1, RunAnnounces
<1>2. ASSUME NEW c \in Clients, Serve(c) PROVE TokenStep
  BY <1>2, ServeAnnounces
<1>3. ASSUME NEW c \in Clients, NEW r \in Requests, send(c, r) PROVE TokenStep
  BY <1>3 DEF send, data, TokenStep
<1>4. CASE stopServers \/ endProcess \/ UNCHANGED vars
  BY <1>4 DEF stopServers, endProcess, vars, data, TokenStep
<1>5. QED BY <1>1, <1>2, <1>3, <1>4 DEF Next

\* Every change of the run state, and of whether a password is wanted, comes
\* with a new token.
THEOREM ChangesAnnounced == Spec => Announced
<1>1. Init => TokenType BY DEF Init, TokenType
<1>2. TokenType /\ [Next]_vars => TokenType'
  BY NextAnnounces DEF TokenType, TokenStep
<1>3. TokenType /\ [Next]_vars
        => [<<mRunState, mWantPassword>>' # <<mRunState, mWantPassword>>
              => mStateToken' # mStateToken]_vars
  BY NextAnnounces DEF TokenType, TokenStep
<1>4. QED BY <1>1, <1>2, <1>3, PTL DEF Spec, Announced

-----------------------------------------------------------------------------
(* Types *)

\* The flags.
Flags ==
  /\ haveAccount \in BOOLEAN
  /\ sslPasswd \in BOOLEAN
  /\ mWantPassword \in BOOLEAN
  /\ mPassword \in BOOLEAN
  /\ mFixedPassword \in BOOLEAN
  /\ mProcessShouldExit \in BOOLEAN

\* The rest, without where the API threads are.
Values ==
  /\ run \in {"init", "top", "select", "load", "ask", "wait", "try", "logged_in",
              "starting", "started", "running", "stopping", "stopped", "fatal", "blocked"}
  /\ tries \in 0 .. MaxTries - 1
  /\ mRunState \in RunStates
  /\ mLoadPeerId \in {"null", "known", "unknown"}
  /\ mStateToken \in {0, 1}
  /\ main \in {"waiting", "stopping", "ended", "crashed"}

LEMMA FlagsStay ==
  ASSUME Flags, Next \/ UNCHANGED vars
  PROVE  Flags'
<1> USE DEF Flags, runVars, data, others, setRunState
<1>1. CASE RunThread
  <2>1. UNCHANGED <<mFixedPassword, mProcessShouldExit>>
    BY <1>1 DEF RunThread, initialise, startSelection, selectAccount, loadCertificates,
       askForPassword, takePassword, decrypt, startUp, loadMainModules, upAndRunning, shutDown
  <2>2. haveAccount' = haveAccount \/ haveAccount' \in BOOLEAN
    BY <1>1, Zenon DEF RunThread, initialise, startSelection, selectAccount, loadCertificates,
       askForPassword, takePassword, decrypt, startUp, loadMainModules, upAndRunning, shutDown
  <2>3. sslPasswd' = sslPasswd \/ sslPasswd' \in BOOLEAN
    BY <1>1, Zenon DEF RunThread, initialise, startSelection, selectAccount, loadCertificates,
       askForPassword, takePassword, decrypt, startUp, loadMainModules, upAndRunning, shutDown
  <2>4. mWantPassword' = mWantPassword \/ mWantPassword' \in BOOLEAN
    BY <1>1, Zenon DEF RunThread, initialise, startSelection, selectAccount, loadCertificates,
       askForPassword, takePassword, decrypt, startUp, loadMainModules, upAndRunning, shutDown
  <2>5. mPassword' = mPassword \/ mPassword' \in BOOLEAN
    BY <1>1, Zenon DEF RunThread, initialise, startSelection, selectAccount, loadCertificates,
       askForPassword, takePassword, decrypt, startUp, loadMainModules, upAndRunning, shutDown
  <2> QED
    BY <2>1, <2>2, <2>3, <2>4, <2>5, Zenon
<1>2. ASSUME NEW c \in Clients, Serve(c)
      PROVE  Flags'
  <2>1. CASE handlePassword(c) BY <2>1, Zenon DEF handlePassword
  <2>2. CASE \/ handleQuery(c) \/ handleLogin(c) \/ handleShutdown(c) \/ handleIdentities(c)
             \/ GetPGPLogins(c) \/ handleImportPgp(c) \/ handleCreateLocation(c)
    BY <2>2, Zenon DEF handleQuery, handleLogin, handleShutdown, handleIdentities,
       GetPGPLogins, handleImportPgp, handleCreateLocation
  <2>3. CASE \/ GeneratePGPCertificate(c) \/ fixPassword(c) \/ GenerateSSLCertificate(c)
             \/ unfixPassword(c) \/ chooseLocation(c) \/ useBeforeInit(c)
    BY <2>3, Zenon DEF GeneratePGPCertificate, fixPassword, GenerateSSLCertificate,
       unfixPassword, chooseLocation, useBeforeInit
  <2> QED BY <1>2, <2>1, <2>2, <2>3 DEF Serve
<1>3. ASSUME NEW c \in Clients, NEW r \in Requests, send(c, r) PROVE Flags'
  BY <1>3, Zenon DEF send
<1>4. CASE stopServers \/ endProcess \/ UNCHANGED vars
  BY <1>4, Zenon DEF stopServers, endProcess, vars
<1> QED BY <1>1, <1>2, <1>3, <1>4 DEF Next

LEMMA ValuesStay ==
  ASSUME Values, Next \/ UNCHANGED vars
  PROVE  Values'
<1> USE ControlAssumption DEF Values, runVars, data, others, setRunState, replaceToken, RunStates
<1>1. CASE RunThread
  <2>1. CASE initialise BY <2>1 DEF initialise
  <2>2. CASE startSelection BY <2>2 DEF startSelection
  <2>3. CASE selectAccount BY <2>3 DEF selectAccount
  <2>4. CASE loadCertificates BY <2>4 DEF loadCertificates
  <2>5. CASE askForPassword BY <2>5 DEF askForPassword
  <2>6. CASE takePassword BY <2>6 DEF takePassword
  <2>7. CASE decrypt BY <2>7 DEF decrypt
  <2>8. CASE startUp \/ upAndRunning BY <2>8 DEF startUp, upAndRunning
  <2>9. CASE loadMainModules \/ shutDown BY <2>9 DEF loadMainModules, shutDown
  <2> QED BY <1>1, <2>1, <2>2, <2>3, <2>4, <2>5, <2>6, <2>7, <2>8, <2>9 DEF RunThread
<1>2. ASSUME NEW c \in Clients, Serve(c)
      PROVE  Values'
  <2>1. CASE handlePassword(c) BY <2>1 DEF handlePassword
  <2>2. CASE \/ handleQuery(c) \/ handleLogin(c) \/ handleShutdown(c) \/ handleIdentities(c)
             \/ GetPGPLogins(c) \/ handleImportPgp(c) \/ handleCreateLocation(c)
    BY <2>2 DEF handleQuery, handleLogin, handleShutdown, handleIdentities,
       GetPGPLogins, handleImportPgp, handleCreateLocation
  <2>3. CASE \/ GeneratePGPCertificate(c) \/ fixPassword(c) \/ GenerateSSLCertificate(c)
             \/ unfixPassword(c) \/ chooseLocation(c) \/ useBeforeInit(c)
    BY <2>3 DEF GeneratePGPCertificate, fixPassword, GenerateSSLCertificate,
       unfixPassword, chooseLocation, useBeforeInit
  <2> QED BY <1>2, <2>1, <2>2, <2>3 DEF Serve
<1>3. ASSUME NEW c \in Clients, NEW r \in Requests, send(c, r) PROVE Values'
  BY <1>3 DEF send
<1>4. CASE stopServers \/ endProcess \/ UNCHANGED vars
  BY <1>4 DEF stopServers, endProcess, vars
<1> QED BY <1>1, <1>2, <1>3, <1>4 DEF Next

\* The variables of RsControlModule and of its threads have their types; a
\* key is decrypted with no more than MaxTries passwords.
THEOREM ControlTypeCorrect == Spec => []TypeOK
<1>1. Init => Flags
  BY Zenon DEF Init, Flags
<1>2. Init => Values
  BY ControlAssumption DEF Init, Values, RunStates
<1>3. Flags /\ [Next]_vars => Flags'
  BY FlagsStay
<1>4. Values /\ [Next]_vars => Values'
  BY ValuesStay
<1>5. Inv /\ Flags /\ Values => TypeOK
  BY DEF Inv, Threads, Flags, Values, TypeOK
<1>6. QED
  BY <1>1, <1>2, <1>3, <1>4, <1>5, InitInv, NextKeepsInv, PTL DEF Spec
=============================================================================
