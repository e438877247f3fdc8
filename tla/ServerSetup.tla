---------------------------- MODULE ServerSetup ----------------------------
(***************************************************************************)
(* The configuration of the server (rest): the first setup, the general    *)
(* and the SCIM setup, config.json and its mutex, the start of the server  *)
(* with its key files and its TLS endpoint, and the reload on SIGHUP.      *)
(*                                                                         *)
(* The handlers change the shared Context without a lock; SaveConfig takes *)
(* mu, copies the Context, and writes config.json, which is empty or cut   *)
(* short until the write is done.  A step is what a handler does between   *)
(* two calls that take time: asking a cloud service, hashing, writing a    *)
(* file, sending on a channel, fetching metadata.                          *)
(*                                                                         *)
(* Of the Context the model keeps the fields whose loss would show: the    *)
(* setup flag, one name, TLS, SCIM with its token, the id of the JWT keys. *)
(* The token of the SCIM client is set with the one of the Context.  The   *)
(* user store is the account "admin"; UserAccounts models the rest.        *)
(***************************************************************************)
EXTENDS Naturals

CONSTANTS
    Requests,    \* requests in flight
    Hostnames,   \* host names, the empty one among them
    NoName,      \* the empty host name
    LocalHost,   \* the host name for which TLS is not enabled
    HasCloud,    \* a cloud type whose tag or instance id opens the setup
    Tokens,      \* SCIM tokens
    NoToken,     \* SCIM was never enabled
    MaxEvents,   \* bound: crashes, failed writes, unreadable files and reloads
    Missing,     \* a file that does not exist
    Torn,        \* a file written in part
    Nothing      \* no image, no configuration loaded

ASSUME NamesAreKnown == NoName \in Hostnames /\ LocalHost # NoName

ASSUME Parameters ==
    /\ MaxEvents \in Nat /\ HasCloud \in BOOLEAN /\ NoToken \notin Tokens

\* Each start with no config.json draws a key id, each start without keys a pair.
Generations == 0 .. MaxEvents + 1

Config == [completed : BOOLEAN, hostname : Hostnames, enableTLS : BOOLEAN,
           scim : BOOLEAN, token : Tokens \cup {NoToken}, kid : Generations]

\* What a reload takes over.
Reloaded == [completed : BOOLEAN, hostname : Hostnames]

ASSUME Sentinels ==
    /\ {Missing, Torn, Nothing} \cap (Config \cup Reloaded \cup Generations) = {}
    /\ Missing # Torn

KeyFile == Generations \cup {Missing, Torn}

\* "hash" and "saveUsers" belong to the first setup, "enable" to the general one.
Request == [pc : {"idle", "verify", "hash", "saveUsers", "save", "write", "enable"},
            hostname : Hostnames, setup : BOOLEAN, image : Config \cup {Nothing}]

VARIABLES
    phase,        \* where the server is: down, writing its key files, or up
    config,       \* the Context
    file,         \* config.json
    writing,      \* the mutex mu: the requests that hold it
    privatePem, publicPem,    \* pki/private.pem and pki/public.pem
    setupCode,    \* the setup code file exists
    admin,        \* the user store has the account "admin"
    adminSaved,   \* so has users.json
    userStore,    \* the Context has a user store
    request,      \* local variables of each request
    tls,          \* StartServer: waiting for a signal, starting TLS, serving it
    loaded,       \* ReloadConfig: the Context it has read, before it is taken over
    kids, events, \* counters: key ids drawn, disturbances so far
    saveFailed,   \* history: the last write of config.json failed
    overlapped,   \* history: a reload overlapped a change of the configuration
    enabledTwice, \* history: two requests enabled TLS at once
    setupAnswered,\* history: a first setup was answered as completed
    setupFailed,  \* history: a first setup could not be saved
    interrupted,  \* history: a write of config.json or of a key file was cut short
    killed,       \* history: the process was stopped, or could not write its keys
    issued        \* history: tokens issued since config.json exists

keyFiles == <<privatePem, publicPem>>
accounts == <<admin, adminSaved, userStore>>
serverVars == <<phase, keyFiles, kids, killed>>
history == <<setupAnswered, setupFailed, issued>>
vars == <<serverVars, config, file, writing, setupCode, accounts, request, tls, loaded,
          events, saveFailed, overlapped, enabledTwice, interrupted,
          history>>

Idle == [pc |-> "idle", hostname |-> NoName, setup |-> FALSE, image |-> Nothing]

EmptyContext(kid) == [completed |-> FALSE, hostname |-> NoName, enableTLS |-> FALSE,
                      scim |-> FALSE, token |-> NoToken, kid |-> kid]

CanEnableTLS(hostname) == hostname # LocalHost

Up == phase = "up"
Return(r) == request' = [request EXCEPT ![r] = Idle]
Goto(r, pc) == request' = [request EXCEPT ![r].pc = pc]
CanArrive(r) == Up /\ request[r].pc = "idle"

\* A crash, a write that fails, a reload.
CountEvent == events < MaxEvents /\ events' = events + 1

\* A step that changes the configuration while a reload is under way.
NoteOverlap == overlapped' = (overlapped \/ loaded # Nothing)

-----------------------------------------------------------------------------
(* SaveConfig, called by every handler that changed the Context.           *)

\* Mutant: the setup flag is not saved.
ImageWithoutSetup(c) == [c EXCEPT !.completed = FALSE]

SavedImage(c) == c

\* Mutant: no mutex.
LockAnyway(r) == writing' = writing \cup {r}

\* mu.Lock()
Lock(r) == writing = {} /\ writing' = {r}

\* Mutant: an error path that returns with the mutex held.
KeepLock(r) == writing' = writing

\* defer mu.Unlock()
Unlock(r) == writing' = writing \ {r}

saveUnchanged == <<serverVars, setupCode, accounts, tls, enabledTwice, issued>>

\* The copy is made, the file truncated.
BeginSave(r) ==
    /\ request[r].pc = "save"
    /\ Lock(r)
    /\ request' = [request EXCEPT ![r].pc = "write", ![r].image = SavedImage(config)]
    /\ file' = Torn
    /\ NoteOverlap
    /\ UNCHANGED <<saveUnchanged, config, loaded, events, saveFailed, interrupted,
                   setupAnswered, setupFailed>>

\* contextHandler answers what the flag is by then.
EndSave(r) ==
    /\ request[r].pc = "write"
    /\ file' = request[r].image
    /\ Unlock(r)
    /\ Return(r)
    /\ saveFailed' = FALSE
    /\ setupAnswered' = (setupAnswered \/ (request[r].setup /\ config.completed))
    /\ NoteOverlap
    /\ UNCHANGED <<saveUnchanged, config, loaded, events, interrupted, setupFailed>>

\* The error of SaveConfig: a first setup takes its flag back.
SaveReturnsError(r) ==
    /\ CountEvent
    /\ Return(r)
    /\ saveFailed' = TRUE
    /\ config' = IF request[r].setup THEN [config EXCEPT !.completed = FALSE] ELSE config
    /\ setupFailed' = (setupFailed \/ request[r].setup)
    /\ NoteOverlap
    /\ UNCHANGED <<saveUnchanged, loaded, setupAnswered>>

\* The file cannot be opened; the mutex is taken and released in this step.
SaveRefused(r) ==
    /\ request[r].pc = "save" /\ writing = {}
    /\ SaveReturnsError(r)
    /\ UNCHANGED <<file, writing, interrupted>>

\* The write is cut short, or its owner cannot be changed after it.
SaveFails(r) ==
    /\ request[r].pc = "write"
    /\ SaveReturnsError(r)
    /\ Unlock(r)
    /\ \/ interrupted' = TRUE /\ UNCHANGED file
       \/ file' = request[r].image /\ UNCHANGED interrupted

-----------------------------------------------------------------------------
(* contextHandler (POST): the first setup.                                 *)

setupUnchanged == <<serverVars, file, writing, setupCode, tls, loaded,
                    saveFailed, enabledTwice, interrupted, issued>>

\* Without a setup code file the setup counts as completed, in memory only.
ContextPost(r) ==
    LET completed == config.completed \/ ~setupCode IN
    /\ CanArrive(r)
    /\ config' = [config EXCEPT !.completed = completed]
    /\ IF completed THEN UNCHANGED request ELSE Goto(r, "verify")
    /\ NoteOverlap
    /\ UNCHANGED <<setupUnchanged, accounts, events, setupAnswered, setupFailed>>

\* The wrong secret, tag or instance; no password; or no user store to ask.
SetupRefused(r) ==
    /\ request[r].pc = "verify"
    /\ Return(r)
    /\ UNCHANGED <<setupUnchanged, config, accounts, events, overlapped,
                   setupAnswered, setupFailed>>

\* The cloud service or the secret grants access.  A known admin is updated in
\* the slice, a new one is hashed first.
SetupGranted(r, hostname) ==
    /\ request[r].pc = "verify"
    /\ HasCloud \/ setupCode
    /\ userStore
    /\ request' = [request EXCEPT ![r] = [Idle EXCEPT !.hostname = hostname, !.setup = TRUE,
                                             !.pc = IF admin THEN "saveUsers" ELSE "hash"]]
    /\ UNCHANGED <<setupUnchanged, config, accounts, events, overlapped,
                   setupAnswered, setupFailed>>

AdminAppended(r) ==
    /\ request[r].pc = "hash"
    /\ admin' = TRUE
    /\ Goto(r, "saveUsers")
    /\ UNCHANGED <<setupUnchanged, config, adminSaved, userStore, events, overlapped,
                   setupAnswered, setupFailed>>

\* Mutant: a known admin is not saved again.
SaveNothing == UNCHANGED <<admin, adminSaved, userStore>>

\* SaveUsers
SaveUsers == adminSaved' = TRUE /\ UNCHANGED <<admin, userStore>>

\* users.json is written, the Context changed; SaveConfig comes next.
SetupChanges(r) ==
    /\ request[r].pc = "saveUsers"
    /\ SaveUsers
    /\ config' = [config EXCEPT !.completed = TRUE, !.hostname = request[r].hostname]
    /\ Goto(r, "save")
    /\ NoteOverlap
    /\ UNCHANGED <<setupUnchanged, events, setupAnswered, setupFailed>>

SaveUsersFails(r) ==
    /\ request[r].pc = "saveUsers"
    /\ CountEvent
    /\ Return(r)
    /\ UNCHANGED <<setupUnchanged, config, accounts, overlapped, setupAnswered, setupFailed>>

-----------------------------------------------------------------------------
(* setupHandler and scimSetupHandler (POST), behind the authentication,    *)
(* which refuses every request until the setup is completed and panics     *)
(* without a user store; they need an account that is signed in.           *)

Admitted == config.completed /\ userStore /\ admin

handlerUnchanged == <<serverVars, file, writing, setupCode, accounts, loaded, events,
                      saveFailed, interrupted, history>>

Signals(hostname, enable) ==
    /\ enable /\ ~config.enableTLS
    /\ tls # "serving"
    /\ CanEnableTLS(hostname)

\* The name is changed at once; TLS only when the waiter has taken the signal.
GeneralSetup(r, hostname, enable) ==
    /\ CanArrive(r) /\ Admitted
    /\ IF Signals(hostname, enable)
       THEN /\ config' = [config EXCEPT !.hostname = hostname]
            /\ Goto(r, "enable")
            /\ enabledTwice' = (\/ enabledTwice \/ tls = "starting"
                                \/ \E q \in Requests : request[q].pc = "enable")
       ELSE /\ config' = [config EXCEPT !.hostname = hostname, !.enableTLS = enable]
            /\ Goto(r, "save")
            /\ UNCHANGED enabledTwice
    /\ NoteOverlap
    /\ UNCHANGED <<handlerUnchanged, tls>>

\* enableTLSWaiter <- true meets <-enableTLSWaiter of StartServer.
SignalTaken(r) ==
    /\ request[r].pc = "enable"
    /\ tls = "waiting"
    /\ tls' = "starting"
    /\ config' = [config EXCEPT !.enableTLS = TRUE]
    /\ Goto(r, "save")
    /\ NoteOverlap
    /\ UNCHANGED <<handlerUnchanged, enabledTwice>>

\* StartServer starts the endpoint and sets TLSWaiterCompleted.
ServeTLS ==
    /\ Up /\ tls = "starting"
    /\ tls' = "serving"
    /\ UNCHANGED <<handlerUnchanged, config, request, overlapped, enabledTwice>>

\* A change of the flag, a new token, or nothing to save.
ScimSetup(r, enabled, regenerate) ==
    /\ CanArrive(r) /\ Admitted
    /\ \E token \in Tokens \cup {NoToken} :
         /\ IF regenerate \/ (enabled /\ config.token = NoToken)
            THEN token \notin {NoToken, config.token}
            ELSE token = config.token
         /\ config' = [config EXCEPT !.scim = enabled, !.token = token]
    /\ IF config' # config THEN Goto(r, "save") ELSE UNCHANGED request
    /\ NoteOverlap
    /\ UNCHANGED <<handlerUnchanged, tls, enabledTwice>>

\* authHandler signs a token for the admin.
IssueToken ==
    /\ Up /\ admin /\ userStore /\ file # Missing
    /\ issued' = issued \cup {[kid |-> config.kid, key |-> privatePem]}
    /\ UNCHANGED <<serverVars, config, file, writing, setupCode, accounts, request, tls,
                   loaded, events, saveFailed, overlapped, enabledTwice,
                   interrupted, setupAnswered, setupFailed>>

\* The operator removes the setup code.
RemoveSetupCode ==
    /\ setupCode
    /\ setupCode' = FALSE
    /\ UNCHANGED <<serverVars, config, file, writing, accounts, request, tls, loaded,
                   events, saveFailed, overlapped, enabledTwice,
                   interrupted, history>>

-----------------------------------------------------------------------------
(* Start: NewContext, getJWTKeys, StartServer.                             *)

\* Mutant: the public key is not read back.
PrivateKeyUsable == privatePem \in Generations

\* Both files are there and decode.
KeysUsable == {privatePem, publicPem} \subseteq Generations

startUnchanged == <<writing, setupCode, adminSaved, overlapped, request,
                    loaded, enabledTwice, saveFailed, history>>

ReadsConfig(c) ==
    \/ file = Missing /\ kids < MaxEvents + 1 /\ kids' = kids + 1 /\ c = EmptyContext(kids')
    \/ file \notin {Missing, Torn} /\ c = file /\ UNCHANGED kids

\* The users are read from users.json before the Context is made.
Start(c) ==
    /\ phase = "down"
    /\ ReadsConfig(c)
    /\ config' = c
    /\ admin' = adminSaved /\ userStore' = TRUE
    /\ tls' = IF c.enableTLS /\ CanEnableTLS(c.hostname) THEN "starting" ELSE "waiting"
    /\ \/ privatePem = Missing /\ phase' = "private"
       \/ privatePem # Missing /\ KeysUsable /\ phase' = "up"
    /\ killed' = FALSE
    /\ UNCHANGED <<startUnchanged, file, keyFiles, events, interrupted>>

keyUnchanged == <<startUnchanged, config, file, admin, userStore, tls, kids, killed>>

\* createJWTKeys: first the private key, then the public one of the pair.
WritePrivateKey ==
    /\ phase = "private"
    /\ privatePem' = kids  \* a pair that no earlier start has made
    /\ phase' = "public"
    /\ UNCHANGED <<keyUnchanged, publicPem, events, interrupted>>

\* Mutant: the error of the second write is not looked at.
WritePublicKeyUnchecked ==
    /\ phase = "public"
    /\ publicPem' \in {privatePem, Missing}
    /\ phase' = "up"
    /\ UNCHANGED <<keyUnchanged, privatePem, events, interrupted>>

WritePublicKey ==
    /\ phase = "public"
    /\ publicPem' = privatePem
    /\ phase' = "up"
    /\ UNCHANGED <<keyUnchanged, privatePem, events, interrupted>>

\* The process ends: what is not in a file is gone.
Dies ==
    /\ phase' = "down"
    /\ config' = EmptyContext(0)
    /\ admin' = FALSE /\ userStore' = FALSE /\ tls' = "waiting" /\ loaded' = Nothing
    /\ writing' = {} /\ request' = [r \in Requests |-> Idle]
    /\ enabledTwice' = FALSE
    /\ UNCHANGED <<kids, file, setupCode, adminSaved, overlapped, saveFailed, history>>

\* The server gives up or dies; the file is not there or cut short.
KeyWriteFails ==
    /\ phase \in {"private", "public"}
    /\ CountEvent
    /\ Dies
    /\ \E outcome \in {Missing, Torn} :
         IF phase = "private"
         THEN privatePem' = outcome /\ UNCHANGED publicPem
         ELSE publicPem' = outcome /\ UNCHANGED privatePem
    /\ interrupted' = (interrupted \/ phase = "public" \/ privatePem' = Torn)
    /\ killed' = TRUE

\* A write of config.json that was under way stays cut short.
DiesWhileUp ==
    /\ Up
    /\ CountEvent
    /\ Dies
    /\ interrupted' = (interrupted \/ file = Torn)
    /\ UNCHANGED keyFiles

Crash == DiesWhileUp /\ killed' = TRUE

-----------------------------------------------------------------------------
(* ReloadConfig, on SIGHUP.                                                *)

CanReload == Up /\ loaded = Nothing

\* GetConfig: config.json, or an empty Context.
ReadsFile(c) ==
    \/ file = Missing /\ c = [completed |-> FALSE, hostname |-> NoName]
    \/ file \notin {Missing, Torn}
       /\ c = [completed |-> file.completed, hostname |-> file.hostname]

Unsaved == \E r \in Requests : request[r].pc \in {"save", "write", "enable"}

\* What was read is taken over: the name and the setup flag.
TakesOver(c) == config' = [config EXCEPT !.hostname = c.hostname, !.completed = c.completed]

reloadUnchanged == <<serverVars, file, writing, setupCode, admin, adminSaved, request,
                     tls, saveFailed, enabledTwice, interrupted, history>>

\* GetConfig; then NewContext loads the SAML providers, which takes time.
BeginReload ==
    /\ CanReload /\ CountEvent
    /\ \E c \in Reloaded : ReadsFile(c) /\ loaded' = c
    /\ overlapped' = (overlapped \/ Unsaved)
    /\ UNCHANGED <<reloadUnchanged, config, userStore>>

EndReload ==
    /\ Up /\ loaded # Nothing
    /\ TakesOver(loaded)
    /\ loaded' = Nothing
    /\ UNCHANGED <<reloadUnchanged, userStore, events, overlapped>>

\* Another file is unreadable: the error is logged, and the Context taken over
\* as far as it was filled, which is without a user store.
ReloadLosesUsers ==
    /\ CanReload /\ CountEvent
    /\ \E c \in Reloaded : ReadsFile(c) /\ TakesOver(c)
    /\ userStore' = FALSE
    /\ overlapped' = (overlapped \/ Unsaved)
    /\ UNCHANGED <<reloadUnchanged, loaded>>

\* Mutant: an error of any file leaves no Context.
NilOnEveryError == TRUE

\* NewContext has no Context to return when config.json does not decode.
ReloadedIsNil == file = Torn

\* The error is logged and the nil Context used: the process panics.
ReloadPanics ==
    /\ CanReload /\ ReloadedIsNil
    /\ DiesWhileUp
    /\ UNCHANGED killed

-----------------------------------------------------------------------------
Init ==
    /\ phase = "down" /\ config = EmptyContext(0)
    /\ file = Missing /\ writing = {}
    /\ privatePem = Missing /\ publicPem = Missing
    /\ setupCode = TRUE
    /\ admin = FALSE /\ adminSaved = FALSE /\ userStore = FALSE
    /\ request = [r \in Requests |-> Idle]
    /\ tls = "waiting" /\ loaded = Nothing
    /\ kids = 0 /\ events = 0
    /\ saveFailed = FALSE /\ overlapped = FALSE /\ enabledTwice = FALSE
    /\ setupAnswered = FALSE /\ setupFailed = FALSE /\ interrupted = FALSE
    /\ killed = TRUE /\ issued = {}

SaveStep(r) == BeginSave(r) \/ EndSave(r) \/ SaveRefused(r) \/ SaveFails(r)

SetupStep(r) ==
    \/ SetupRefused(r) \/ AdminAppended(r) \/ SetupChanges(r) \/ SaveUsersFails(r)
    \/ \E hostname \in Hostnames : SetupGranted(r, hostname)

\* What a request that has arrived does next.
Proceed(r) == SaveStep(r) \/ SetupStep(r) \/ SignalTaken(r)

Arrive(r) ==
    \/ ContextPost(r)
    \/ \E hostname \in Hostnames, enable \in BOOLEAN : GeneralSetup(r, hostname, enable)
    \/ \E enabled, regenerate \in BOOLEAN : ScimSetup(r, enabled, regenerate)

StartStep == (\E c \in Config : Start(c)) \/ WritePrivateKey \/ WritePublicKey

Reload == BeginReload \/ EndReload \/ ReloadLosesUsers \/ ReloadPanics

Next ==
    \/ \E r \in Requests : Arrive(r) \/ Proceed(r)
    \/ StartStep \/ KeyWriteFails \/ ServeTLS
    \/ IssueToken \/ RemoveSetupCode
    \/ Reload \/ Crash

Spec == Init /\ [][Next]_vars

-----------------------------------------------------------------------------
(* Properties.                                                             *)

\* The type of the state, and that key files which the server uses are a pair.
TypeOK ==
    /\ phase \in {"down", "private", "public", "up"}
    /\ config \in Config /\ file \in Config \cup {Missing, Torn}
    /\ writing \in SUBSET Requests
    /\ privatePem \in KeyFile /\ publicPem \in KeyFile
    /\ setupCode \in BOOLEAN
    /\ admin \in BOOLEAN /\ adminSaved \in BOOLEAN /\ userStore \in BOOLEAN
    /\ request \in [Requests -> Request]
    /\ tls \in {"waiting", "starting", "serving"}
    /\ loaded \in Reloaded \cup {Nothing}
    /\ kids \in Generations /\ events \in 0 .. MaxEvents
    /\ saveFailed \in BOOLEAN /\ overlapped \in BOOLEAN /\ enabledTwice \in BOOLEAN
    /\ setupAnswered \in BOOLEAN /\ setupFailed \in BOOLEAN /\ interrupted \in BOOLEAN /\ killed \in BOOLEAN
    /\ issued \in SUBSET [kid : Generations, key : KeyFile]
    /\ Up => privatePem \in Generations /\ publicPem = privatePem

\* config.json lags behind the Context only by a setup flag that was set because
\* there is no setup code.
Follows(image, c) ==
    \/ image = c
    \/ ~setupCode /\ image = [c EXCEPT !.completed = image.completed] /\ c.completed

\* When no request is in flight config.json holds the Context, whatever the order in
\* which requests changed it and saved it (SaveConfig, config.go:15); only a write that
\* failed and a reload that overlapped a change can part them.
FileFollowsConfig ==
    Up /\ file # Missing /\ ~saveFailed /\ ~overlapped
       /\ (\A r \in Requests : request[r].pc \in {"idle", "verify"})
       => file # Torn /\ Follows(file, config)

\* A setup that was answered as completed stays so, in memory and after a restart
\* (contextHandler, setup.go:97), unless another setup could not be saved or a reload
\* overlapped it.
AnsweredSetupIsKept ==
    Up /\ setupAnswered /\ ~setupFailed /\ ~overlapped
       => config.completed /\ (file \in Config => file.completed)

\* While the setup code is in force, the setup counts as completed, in memory, in
\* config.json or in what is about to be taken over or written, only if the account of
\* the administrator is in users.json (contextHandler, setup.go:83-97): no crash or
\* failed write leaves a server that is closed and has nobody to log in.
CompletedHasAdmin ==
    setupCode /\ ~adminSaved =>
        /\ ~config.completed
        /\ file \in Config => ~file.completed
        /\ loaded \in Reloaded => ~loaded.completed
        /\ \A r \in Requests : request[r].image \in Config => ~request[r].image.completed

\* A token signed once config.json exists is verified by every later incarnation of
\* the server: id and keys survive restarts, setups and reloads (getJWTKeys, rsa.go:25;
\* SaveConfig; the key test of authMiddleware, middleware.go:40).
TokensStayValid ==
    Up => \A token \in issued : token.kid = config.kid /\ token.key = publicPem

\* A server that is down starts again, unless a write of config.json or of the key files
\* was cut short (GetConfig, config.go:71; getJWTKeys, rsa.go:30).
StartsAgain ==
    phase = "down" /\ ~interrupted =>
        /\ file # Torn
        /\ privatePem = Missing \/ KeysUsable

\* What the server has written before it ends, it goes on with: tokens stay valid and the
\* files can be read.
SurvivesRestarts == TokensStayValid /\ StartsAgain

\* A request that waits has what it waits for: the mutex is held only by one that is
\* writing, and StartServer receives the signal to enable TLS (config.go:16,
\* server.go:64).  The one exception is two requests that enable TLS at once: the second
\* signal has no receiver (setup.go:150), and that request is never answered.
NoRequestIsStuck ==
    \A r \in Requests :
        /\ request[r].pc = "save" => \A q \in writing : request[q].pc = "write"
        /\ request[r].pc = "enable" => tls = "waiting" \/ enabledTwice

\* A reload ends the server only while config.json is being written or after a write of it
\* has failed, whatever else it cannot read (ReloadConfig, signals.go:29-33, which logs the
\* error of NewContext and goes on).
ReloadKeepsServing ==
    /\ phase = "down" /\ ~killed => file = Torn
    /\ Up /\ file = Torn => writing # {} \/ saveFailed

-----------------------------------------------------------------------------
(* What makes the invariants inductive.                                    *)

\* The public key is written last, and only of the pair that is there.
KeysArePaired ==
    /\ publicPem \in Generations => publicPem = privatePem
    /\ privatePem = Missing => publicPem = Missing
    /\ phase = "private" => privatePem = Missing
    /\ phase = "public" => privatePem \in Generations /\ publicPem = Missing

\* Nobody is served before the server is up.
DownIsQuiet ==
    ~Up => /\ \A r \in Requests : request[r].pc = "idle" /\ request[r].image = Nothing
           /\ writing = {} /\ loaded = Nothing

\* What a request writes is a copy of the Context.
CopiesAreMade == \A r \in Requests : request[r].pc = "write" => request[r].image \in Config

\* The mutex is held by a request that writes, a signal has a receiver.
LocksAreHeld ==
    /\ \A q \in writing : request[q].pc = "write"
    /\ \A r \in Requests : request[r].pc = "enable" => tls = "waiting" \/ enabledTwice
    /\ \A r, q \in Requests :
         request[r].pc = "enable" /\ request[q].pc = "enable" => r = q \/ enabledTwice

\* config.json is in part only while it is written, or after that has failed.
TornFiles ==
    /\ phase \in {"private", "public"} => file # Torn
    /\ Up /\ file = Torn => writing # {} \/ saveFailed
    /\ phase = "down" /\ ~killed => file = Torn
    /\ \A r \in Requests : request[r].pc = "write" => writing = {r}

\* The key id never changes once it is in config.json, nor the keys once they are used.
IdsAreKept ==
    /\ phase # "down" /\ file \in Config => file.kid = config.kid
    /\ \A r \in Requests : request[r].image \in Config => request[r].image.kid = config.kid
    /\ issued # {} => file # Missing /\ phase \in {"down", "up"} /\ KeysUsable
    /\ \A token \in issued :
         /\ token.key = privatePem
         /\ file \in Config => token.kid = file.kid
         /\ Up => token.kid = config.kid

\* A change that is not in config.json yet belongs to a request that will save it, the
\* copy that is being written lacks none, and a reload has read what is there.
FileIsCurrent ==
    phase # "down" /\ ~overlapped =>
        /\ loaded # Nothing => ~Unsaved /\ ReadsFile(loaded)
        /\ (\A r \in Requests : request[r].pc \notin {"save", "enable"}) =>
             /\ \A r \in Requests : request[r].pc = "write" => Follows(request[r].image, config)
             /\ (\A r \in Requests : request[r].pc # "write") /\ ~saveFailed /\ file # Missing
                    => file # Torn /\ Follows(file, config)

\* The setup counts as completed from the change of the Context on, in every copy too.
SetupIsHeld ==
    ~setupFailed /\ ~overlapped =>
        /\ \A r \in Requests :
             /\ request[r].pc \in {"save", "write", "enable"} => config.completed
             /\ request[r].pc = "write" => request[r].image.completed
        /\ setupAnswered =>
             /\ file # Missing /\ (file \in Config => file.completed)
             /\ phase # "down" => config.completed

Strengthenings ==
    /\ KeysArePaired /\ DownIsQuiet /\ CopiesAreMade /\ LocksAreHeld
    /\ TornFiles /\ IdsAreKept /\ FileIsCurrent /\ SetupIsHeld
=============================================================================
