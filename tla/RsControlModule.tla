-------------------------- MODULE RsControlModule ---------------------------
(***************************************************************************)
(* Start-up, login and shutdown of retroshare-nogui through the API        *)
(* (libresapi, class RsControlModule).                                     *)
(*                                                                         *)
(* Three kinds of threads: the module's own thread (run), which starts     *)
(* libretroshare and blocks in askForPassword while a key is decrypted;    *)
(* the API threads (the HTTP server's and the terminal's), which handle    *)
(* one request each under ApiServer::mMtx; and the main thread, which      *)
(* waits for the exit flag.  They share mDataMtx and, inside               *)
(* libretroshare, PGPHandler::pgphandlerMtx.                               *)
(*                                                                         *)
(* A step that holds a mutex only for itself needs it free.  The variables *)
(* dataMtx and pgpMtx tell who holds a mutex while it waits for something. *)
(***************************************************************************)
EXTENDS Integers

CONSTANTS
  Clients,              \* the API threads
  Requests,             \* the requests they send
  MaxTries              \* how often a key's password is asked for

Run == "run"            \* the module's own thread
NoOne == "no one"       \* holder of a free mutex

AllRequests == {"runstate", "password", "set_password", "locations", "login",
                "login_unknown", "identities", "import_pgp", "create_location",
                "shutdown"}

ASSUME ControlAssumption ==
  /\ {Run, NoOne} \cap Clients = {}
  /\ Requests \subseteq AllRequests
  /\ MaxTries \in Nat \ {0}

VARIABLES
  run,                  \* where the module's thread is
  tries,                \* passwords tried for the key being decrypted
  haveAccount,          \* initResult = RS_INIT_HAVE_ACCOUNT
  sslPasswd,            \* is RsInitConfig::passwd set?
  mRunState,
  mLoadPeerId,          \* the account to load: "null", "known" or "unknown"
  mWantPassword,
  mPassword,            \* is it set?
  mFixedPassword,       \* is it set?
  mStateToken,          \* changes between 0 and 1 when it is replaced
  mProcessShouldExit,
  main,                 \* where the main thread is
  client,               \* the request of each API thread, and where it is
  dataMtx,              \* who waits with mDataMtx held
  pgpMtx                \* who waits with pgphandlerMtx held

runVars == <<run, tries, haveAccount, sslPasswd>>
data == <<mRunState, mLoadPeerId, mWantPassword, mPassword, mFixedPassword, mStateToken>>
others == <<mProcessShouldExit, main>>
vars == <<run, tries, haveAccount, sslPasswd, mRunState, mLoadPeerId, mWantPassword,
          mPassword, mFixedPassword, mStateToken, mProcessShouldExit, main, client,
          dataMtx, pgpMtx>>

RunStates == {"waiting_init", "fatal_error", "waiting_account_select",
              "waiting_startup", "running_ok"}

\* Places in a handler where it waits, with ApiServer::mMtx held.
InHandler == {"reading", "importing", "generating", "fixing", "signing",
              "unfixing", "giving_up", "choosing"}

TypeOK ==
  /\ run \in {"init", "top", "select", "load", "ask", "wait", "try", "logged_in",
              "starting", "started", "running", "stopping", "stopped", "fatal", "blocked"}
  /\ tries \in 0 .. MaxTries - 1
  /\ haveAccount \in BOOLEAN
  /\ sslPasswd \in BOOLEAN
  /\ mRunState \in RunStates
  /\ mLoadPeerId \in {"null", "known", "unknown"}
  /\ mWantPassword \in BOOLEAN
  /\ mPassword \in BOOLEAN
  /\ mFixedPassword \in BOOLEAN
  /\ mStateToken \in {0, 1}
  /\ mProcessShouldExit \in BOOLEAN
  /\ main \in {"waiting", "stopping", "ended", "crashed"}
  /\ client \in [Clients -> {"idle"} \cup AllRequests \cup InHandler]
  /\ dataMtx \in Clients \cup {Run, NoOne}
  /\ pgpMtx \in Clients \cup {Run, NoOne}

DataFree == dataMtx = NoOne
PgpFree == pgpMtx = NoOne
ApiFree == \A c \in Clients : client[c] \notin InHandler
Alive == main \notin {"ended", "crashed"}

replaceToken == mStateToken' = 1 - mStateToken

-----------------------------------------------------------------------------
(* The module's thread *)

setRunState(s) ==
  /\ DataFree
  /\ mRunState' = s
  /\ replaceToken
  /\ UNCHANGED <<mLoadPeerId, mWantPassword, mPassword, mFixedPassword>>

\* InitRetroShare fails, or finds an account to log in to by itself, or not.
initialise ==
  /\ run = "init"
  /\ \/ /\ setRunState("fatal_error")
        /\ run' = "fatal"
        /\ UNCHANGED haveAccount
     \/ /\ haveAccount' \in BOOLEAN
        /\ run' = "top"
        /\ UNCHANGED data
  /\ UNCHANGED <<tries, sslPasswd, client, dataMtx, pgpMtx>>
  /\ UNCHANGED others

\* The top of the login loop.
startSelection ==
  /\ run = "top"
  /\ IF haveAccount THEN UNCHANGED data ELSE setRunState("waiting_account_select")
  /\ run' = "select"
  /\ UNCHANGED <<tries, haveAccount, sslPasswd, client, dataMtx, pgpMtx>>
  /\ UNCHANGED others

\* The loop that waits for an account.  With an unknown one, setRunState
\* locks mDataMtx a second time.
selectAccount ==
  /\ run = "select"
  /\ \/ /\ mProcessShouldExit
        /\ run' = "stopped"
        /\ UNCHANGED dataMtx
     \/ /\ ~mProcessShouldExit
        /\ haveAccount \/ (DataFree /\ mLoadPeerId = "known")
        /\ run' = "load"
        /\ UNCHANGED dataMtx
     \/ /\ ~mProcessShouldExit
        /\ ~haveAccount /\ DataFree /\ mLoadPeerId = "unknown"
        /\ run' = "blocked"
        /\ dataMtx' = Run
  /\ UNCHANGED <<tries, haveAccount, sslPasswd, client, pgpMtx>>
  /\ UNCHANGED data
  /\ UNCHANGED others

\* LockAndLoadCertificates, up to the decryption of the password file: it may
\* fail, find the password in memory or in the system's key store, or begin
\* to decrypt with pgphandlerMtx held.
loadCertificates ==
  /\ run = "load"
  /\ \/ /\ run' = "top"
        /\ UNCHANGED <<tries, sslPasswd, pgpMtx>>
     \/ /\ PgpFree
        /\ run' = "logged_in"
        /\ sslPasswd' = FALSE
        /\ UNCHANGED <<tries, pgpMtx>>
     \/ /\ ~sslPasswd
        /\ PgpFree
        /\ pgpMtx' = Run
        /\ run' = "ask"
        /\ tries' = 0
        /\ UNCHANGED sslPasswd
  /\ UNCHANGED <<haveAccount, client, dataMtx>>
  /\ UNCHANGED data
  /\ UNCHANGED others

\* The first part of askForPassword.
askForPassword ==
  /\ run = "ask"
  /\ DataFree
  /\ IF mFixedPassword
     THEN /\ run' = "try"
          /\ UNCHANGED data
     ELSE /\ run' = "wait"
          /\ mWantPassword' = TRUE
          /\ mPassword' = FALSE
          /\ replaceToken
          /\ UNCHANGED <<mRunState, mLoadPeerId, mFixedPassword>>
  /\ UNCHANGED <<tries, haveAccount, sslPasswd, client, dataMtx, pgpMtx>>
  /\ UNCHANGED others

\* Mutant: the loop leaves at once.
takePasswordEarly ==
  /\ run = "wait"
  /\ DataFree
  /\ run' = "try"
  /\ mPassword' = FALSE
  /\ IF mPassword THEN replaceToken ELSE UNCHANGED mStateToken
  /\ UNCHANGED <<mRunState, mLoadPeerId, mWantPassword, mFixedPassword>>
  /\ UNCHANGED <<tries, haveAccount, sslPasswd, client, dataMtx, pgpMtx>>
  /\ UNCHANGED others

\* Its loop.  Without a password it returns false, and decryption goes on
\* with an empty one.
takePassword ==
  /\ run = "wait"
  /\ DataFree
  /\ ~mWantPassword
  /\ run' = "try"
  /\ mPassword' = FALSE
  /\ IF mPassword THEN replaceToken ELSE UNCHANGED mStateToken
  /\ UNCHANGED <<mRunState, mLoadPeerId, mWantPassword, mFixedPassword>>
  /\ UNCHANGED <<tries, haveAccount, sslPasswd, client, dataMtx, pgpMtx>>
  /\ UNCHANGED others

\* Mutant: the password is asked for once too often.
decryptOnceMore ==
  /\ run = "try"
  /\ \/ /\ run' \in {"logged_in", "top"}
        /\ pgpMtx' = NoOne
        /\ tries' = 0
     \/ /\ tries < MaxTries
        /\ tries' = tries + 1
        /\ run' = "ask"
        /\ UNCHANGED pgpMtx
  /\ UNCHANGED <<haveAccount, sslPasswd, client, dataMtx>>
  /\ UNCHANGED data
  /\ UNCHANGED others

\* The password is right, and wiped after the login; or what it decrypts does
\* not open the certificate, and stays in memory; or it is asked for again.
decrypt ==
  /\ run = "try"
  /\ \/ /\ run' = "logged_in"
        /\ sslPasswd' = FALSE
        /\ pgpMtx' = NoOne
        /\ tries' = 0
     \/ /\ run' = "top"
        /\ sslPasswd' \in BOOLEAN
        /\ pgpMtx' = NoOne
        /\ tries' = 0
     \/ /\ tries + 1 < MaxTries
        /\ tries' = tries + 1
        /\ run' = "ask"
        /\ UNCHANGED <<sslPasswd, pgpMtx>>
  /\ UNCHANGED <<haveAccount, client, dataMtx>>
  /\ UNCHANGED data
  /\ UNCHANGED others

startUp ==
  /\ run = "logged_in"
  /\ setRunState("waiting_startup")
  /\ run' = "starting"
  /\ UNCHANGED <<tries, haveAccount, sslPasswd, client, dataMtx, pgpMtx>>
  /\ UNCHANGED others

\* ApiServer::loadMainModules takes ApiServer::mMtx.
loadMainModules ==
  /\ run = "starting"
  /\ ApiFree
  /\ run' = "started"
  /\ UNCHANGED <<tries, haveAccount, sslPasswd, client, dataMtx, pgpMtx>>
  /\ UNCHANGED data
  /\ UNCHANGED others

upAndRunning ==
  /\ run = "started"
  /\ setRunState("running_ok")
  /\ run' = "running"
  /\ UNCHANGED <<tries, haveAccount, sslPasswd, client, dataMtx, pgpMtx>>
  /\ UNCHANGED others

\* rsGlobalShutDown begins, and ends.
shutDown ==
  /\ \/ run = "running" /\ mProcessShouldExit /\ run' = "stopping"
     \/ run = "stopping" /\ run' = "stopped"
  /\ UNCHANGED <<tries, haveAccount, sslPasswd, client, dataMtx, pgpMtx>>
  /\ UNCHANGED data
  /\ UNCHANGED others

-----------------------------------------------------------------------------
(* The API threads *)

send(c, r) ==
  /\ main = "waiting"
  /\ client[c] = "idle"
  /\ client' = [client EXCEPT ![c] = r]
  /\ UNCHANGED <<dataMtx, pgpMtx>>
  /\ UNCHANGED runVars
  /\ UNCHANGED data
  /\ UNCHANGED others

Goes(c, place) == client' = [client EXCEPT ![c] = place]
Done(c) == Goes(c, "idle")

\* handleRunState, handleLocations, and handlePassword without a password.
handleQuery(c) ==
  /\ client[c] \in {"runstate", "locations", "password"}
  /\ ApiFree /\ DataFree
  /\ Done(c)
  /\ UNCHANGED <<dataMtx, pgpMtx>>
  /\ UNCHANGED runVars
  /\ UNCHANGED data
  /\ UNCHANGED others

\* Mutant: the flag is cleared, the password is not stored.
handlePasswordForgets(c) ==
  /\ client[c] = "set_password"
  /\ ApiFree /\ DataFree
  /\ Done(c)
  /\ IF mWantPassword
     THEN /\ mWantPassword' = FALSE
          /\ replaceToken
          /\ UNCHANGED mPassword
     ELSE UNCHANGED <<mPassword, mWantPassword, mStateToken>>
  /\ UNCHANGED <<mRunState, mLoadPeerId, mFixedPassword, dataMtx, pgpMtx>>
  /\ UNCHANGED runVars
  /\ UNCHANGED others

\* Mutant: the password is stored, the flag stays.
handlePasswordKeepsFlag(c) ==
  /\ client[c] = "set_password"
  /\ ApiFree /\ DataFree
  /\ Done(c)
  /\ IF mWantPassword
     THEN /\ mPassword' = TRUE
          /\ replaceToken
     ELSE UNCHANGED <<mPassword, mStateToken>>
  /\ UNCHANGED <<mRunState, mLoadPeerId, mWantPassword, mFixedPassword, dataMtx, pgpMtx>>
  /\ UNCHANGED runVars
  /\ UNCHANGED others

\* Mutant: the change is not announced.
handlePasswordSilently(c) ==
  /\ client[c] = "set_password"
  /\ ApiFree /\ DataFree
  /\ Done(c)
  /\ IF mWantPassword
     THEN mPassword' = TRUE /\ mWantPassword' = FALSE
     ELSE UNCHANGED <<mPassword, mWantPassword>>
  /\ UNCHANGED <<mRunState, mLoadPeerId, mFixedPassword, mStateToken, dataMtx, pgpMtx>>
  /\ UNCHANGED runVars
  /\ UNCHANGED others

\* handlePassword with a password.
handlePassword(c) ==
  /\ client[c] = "set_password"
  /\ ApiFree /\ DataFree
  /\ Done(c)
  /\ IF mWantPassword
     THEN /\ mPassword' = TRUE
          /\ mWantPassword' = FALSE
          /\ replaceToken
     ELSE UNCHANGED <<mPassword, mWantPassword, mStateToken>>
  /\ UNCHANGED <<mRunState, mLoadPeerId, mFixedPassword, dataMtx, pgpMtx>>
  /\ UNCHANGED runVars
  /\ UNCHANGED others

handleLogin(c) ==
  /\ client[c] \in {"login", "login_unknown"}
  /\ ApiFree /\ DataFree
  /\ Done(c)
  /\ mLoadPeerId' = IF mRunState # "waiting_account_select" THEN mLoadPeerId
                    ELSE IF client[c] = "login" THEN "known" ELSE "unknown"
  /\ UNCHANGED <<mRunState, mWantPassword, mPassword, mFixedPassword, mStateToken>>
  /\ UNCHANGED <<dataMtx, pgpMtx>>
  /\ UNCHANGED runVars
  /\ UNCHANGED others

handleShutdown(c) ==
  /\ client[c] = "shutdown"
  /\ ApiFree
  /\ Done(c)
  /\ mProcessShouldExit' = TRUE
  /\ UNCHANGED <<main, dataMtx, pgpMtx>>
  /\ UNCHANGED runVars
  /\ UNCHANGED data

\* handleIdentities holds mDataMtx while the key ring is read ...
handleIdentities(c) ==
  /\ client[c] = "identities"
  /\ ApiFree /\ DataFree
  /\ IF mRunState \in {"waiting_init", "fatal_error"}
     THEN Done(c) /\ UNCHANGED dataMtx
     ELSE Goes(c, "reading") /\ dataMtx' = c
  /\ UNCHANGED pgpMtx
  /\ UNCHANGED runVars
  /\ UNCHANGED data
  /\ UNCHANGED others

\* Mutant: mDataMtx is not released.
GetPGPLoginsKeepsLock(c) ==
  /\ client[c] = "reading"
  /\ PgpFree
  /\ Done(c)
  /\ UNCHANGED <<dataMtx, pgpMtx>>
  /\ UNCHANGED runVars
  /\ UNCHANGED data
  /\ UNCHANGED others

\* ... for which pgphandlerMtx is needed.
GetPGPLogins(c) ==
  /\ client[c] = "reading"
  /\ PgpFree
  /\ Done(c)
  /\ dataMtx' = NoOne
  /\ UNCHANGED pgpMtx
  /\ UNCHANGED runVars
  /\ UNCHANGED data
  /\ UNCHANGED others

\* handleImportPgp, whose identity is announced to no one.
handleImportPgp(c) ==
  /\ \/ client[c] = "import_pgp" /\ ApiFree /\ Goes(c, "importing")
     \/ client[c] = "importing" /\ PgpFree /\ Done(c)
  /\ UNCHANGED <<dataMtx, pgpMtx>>
  /\ UNCHANGED runVars
  /\ UNCHANGED data
  /\ UNCHANGED others

\* handleCreateLocation: bad parameters, a new key, or an existing one.
handleCreateLocation(c) ==
  /\ client[c] = "create_location"
  /\ ApiFree
  /\ \E place \in {"idle", "generating", "fixing"} : Goes(c, place)
  /\ UNCHANGED <<dataMtx, pgpMtx>>
  /\ UNCHANGED runVars
  /\ UNCHANGED data
  /\ UNCHANGED others

GeneratePGPCertificate(c) ==
  /\ client[c] = "generating"
  /\ PgpFree
  /\ \E place \in {"idle", "fixing"} : Goes(c, place)
  /\ UNCHANGED <<dataMtx, pgpMtx>>
  /\ UNCHANGED runVars
  /\ UNCHANGED data
  /\ UNCHANGED others

\* Mutant: the password is not given to the callback.
fixPasswordNot(c) ==
  /\ client[c] = "fixing"
  /\ DataFree
  /\ Goes(c, "signing")
  /\ UNCHANGED data
  /\ UNCHANGED <<dataMtx, pgpMtx>>
  /\ UNCHANGED runVars
  /\ UNCHANGED others

\* The password is given to the password callback ...
fixPassword(c) ==
  /\ client[c] = "fixing"
  /\ DataFree
  /\ mFixedPassword' = TRUE
  /\ Goes(c, "signing")
  /\ UNCHANGED <<mRunState, mLoadPeerId, mWantPassword, mPassword, mStateToken>>
  /\ UNCHANGED <<dataMtx, pgpMtx>>
  /\ UNCHANGED runVars
  /\ UNCHANGED others

\* ... so that askForPassword, called back with pgphandlerMtx held, has it.
GenerateSSLCertificate(c) ==
  /\ client[c] = "signing"
  /\ PgpFree /\ DataFree
  /\ \E place \in {"unfixing", "giving_up"} : Goes(c, place)
  /\ UNCHANGED <<dataMtx, pgpMtx>>
  /\ UNCHANGED runVars
  /\ UNCHANGED data
  /\ UNCHANGED others

unfixPassword(c) ==
  /\ client[c] \in {"unfixing", "giving_up"}
  /\ DataFree
  /\ mFixedPassword' = FALSE
  /\ IF client[c] = "unfixing" THEN Goes(c, "choosing") ELSE Done(c)
  /\ UNCHANGED <<mRunState, mLoadPeerId, mWantPassword, mPassword, mStateToken>>
  /\ UNCHANGED <<dataMtx, pgpMtx>>
  /\ UNCHANGED runVars
  /\ UNCHANGED others

\* LoadPassword, and the login is triggered.
chooseLocation(c) ==
  /\ client[c] = "choosing"
  /\ DataFree
  /\ sslPasswd' = TRUE
  /\ mLoadPeerId' = "known"
  /\ Done(c)
  /\ UNCHANGED <<mRunState, mWantPassword, mPassword, mFixedPassword, mStateToken>>
  /\ UNCHANGED <<run, tries, haveAccount, dataMtx, pgpMtx>>
  /\ UNCHANGED others

\* Before InitRetroShare there is neither rsAccounts nor AuthGPG, and these
\* handlers do not look at the run state.
useBeforeInit(c) ==
  /\ client[c] \in {"importing", "generating", "signing"}
  /\ run \in {"init", "fatal"}
  /\ main' = "crashed"
  /\ UNCHANGED <<mProcessShouldExit, client, dataMtx, pgpMtx>>
  /\ UNCHANGED runVars
  /\ UNCHANGED data

-----------------------------------------------------------------------------
(* The main thread of retroshare-nogui *)

stopServers ==
  /\ main = "waiting"
  /\ mProcessShouldExit
  /\ main' = "stopping"
  /\ UNCHANGED <<mProcessShouldExit, client, dataMtx, pgpMtx>>
  /\ UNCHANGED runVars
  /\ UNCHANGED data

\* Mutant: the module's thread is joined.
endProcessJoins ==
  /\ main = "stopping"
  /\ \A c \in Clients : client[c] = "idle"
  /\ run = "stopped"
  /\ main' = "ended"
  /\ UNCHANGED <<mProcessShouldExit, client, dataMtx, pgpMtx>>
  /\ UNCHANGED runVars
  /\ UNCHANGED data

\* The API threads are joined, the module's thread is not.
endProcess ==
  /\ main = "stopping"
  /\ \A c \in Clients : client[c] = "idle"
  /\ main' = "ended"
  /\ UNCHANGED <<mProcessShouldExit, client, dataMtx, pgpMtx>>
  /\ UNCHANGED runVars
  /\ UNCHANGED data

-----------------------------------------------------------------------------
Init ==
  /\ run = "init"
  /\ tries = 0
  /\ haveAccount = FALSE
  /\ sslPasswd = FALSE
  /\ mRunState = "waiting_init"
  /\ mLoadPeerId = "null"
  /\ mWantPassword = FALSE
  /\ mPassword = FALSE
  /\ mFixedPassword = FALSE
  /\ mStateToken = 0
  /\ mProcessShouldExit = FALSE
  /\ main = "waiting"
  /\ client = [c \in Clients |-> "idle"]
  /\ dataMtx = NoOne
  /\ pgpMtx = NoOne

RunThread ==
  /\ Alive
  /\ \/ initialise \/ startSelection \/ selectAccount \/ loadCertificates
     \/ askForPassword \/ takePassword \/ decrypt
     \/ startUp \/ loadMainModules \/ upAndRunning \/ shutDown

Serve(c) ==
  /\ Alive
  /\ \/ handleQuery(c) \/ handlePassword(c) \/ handleLogin(c) \/ handleShutdown(c)
     \/ handleIdentities(c) \/ GetPGPLogins(c) \/ handleImportPgp(c)
     \/ handleCreateLocation(c) \/ GeneratePGPCertificate(c) \/ fixPassword(c)
     \/ GenerateSSLCertificate(c) \/ unfixPassword(c) \/ chooseLocation(c)
     \/ useBeforeInit(c)

Next ==
  \/ RunThread
  \/ \E c \in Clients : Serve(c) \/ \E r \in Requests : send(c, r)
  \/ stopServers \/ endProcess

Spec == Init /\ [][Next]_vars

\* The threads run, and no one waits for ever for a mutex that is free again
\* and again.  Users need not do anything.
FairSpec ==
  /\ Spec
  /\ SF_vars(RunThread)
  /\ \A c \in Clients : SF_vars(Serve(c))
  /\ WF_vars(stopServers \/ endProcess)

-----------------------------------------------------------------------------
\* When the flag is cleared for the thread that waits in askForPassword, a
\* password is there for it: no other thread clears the flag or takes the
\* password in between, so the function never returns false.
PasswordIsThere == run = "wait" /\ ~mWantPassword => mPassword

\* GenerateSSLCertificate, called by an API thread with ApiServer::mMtx held,
\* finds mFixedPassword set and never has to wait for a password that could
\* only come through the API.
ApiNeverAsks == \A c \in Clients : client[c] = "signing" => mFixedPassword

\* Whatever the requests runstate and password answer changes together with
\* the state token, so every client will ask again.
Announced ==
  [][<<mRunState, mWantPassword>>' # <<mRunState, mWantPassword>>
       => mStateToken' # mStateToken]_vars

-----------------------------------------------------------------------------
(* Who waits for whom *)

\* The login waits for mDataMtx or for a password, with pgphandlerMtx held;
\* a handler waits for pgphandlerMtx.
IdentitiesStuck == run \in {"ask", "wait"} /\ dataMtx \in Clients
ApiStuck ==
  /\ run = "wait" /\ mWantPassword
  /\ \E c \in Clients : client[c] \in {"importing", "generating", "signing"}
\* The login waits for the mutex it holds itself.
SelfStuck == run = "blocked"

Stuck == IdentitiesStuck \/ ApiStuck \/ SelfStuck

\* These waits are never over: nothing the program does, askForPassword's
\* loop and the exit flag included, gets it out of them.
StuckForEver == [][Stuck => Stuck']_vars

\* Every request is answered, unless the program has ended or one of these
\* waits has begun: there is no other way to hang the API.
AnsweredUnlessStuck ==
  \A c \in Clients : client[c] # "idle" ~> (client[c] = "idle" \/ Stuck \/ ~Alive)

\* A password that was given is used, unless one of these waits has begun.
PasswordUsed == mPassword ~> (~mPassword \/ Stuck \/ ~Alive)

\* After a shutdown request the process ends, even when the login waits for
\* a password, unless one of these waits has begun.
EndsUnlessStuck == mProcessShouldExit ~> (~Alive \/ Stuck)

\* RsControlModule.h: a thread of its own calls into "things which block like
\* askForPassword()", so that every request is answered.
Answered == \A c \in Clients : client[c] # "idle" ~> (client[c] = "idle" \/ ~Alive)
=============================================================================
