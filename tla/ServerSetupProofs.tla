------------------------- MODULE ServerSetupProofs -------------------------
(* Theorems about ServerSetup, for any requests, names, tokens and events.   *)
EXTENDS ServerSetup, TLAPS

-----------------------------------------------------------------------------
(* The records: a field that is changed keeps the type of the whole.       *)

\* The fields that setups change are set to values of their types.
LEMMA CompletedChanges ==
    ASSUME NEW c \in Config, NEW completed \in BOOLEAN
    PROVE  [c EXCEPT !.completed = completed] \in Config
BY DEF Config

LEMMA HostnameChanges ==
    ASSUME NEW c \in Config, NEW hostname \in Hostnames
    PROVE  [c EXCEPT !.hostname = hostname] \in Config
BY DEF Config

LEMMA TLSChanges ==
    ASSUME NEW c \in Config, NEW enable \in BOOLEAN
    PROVE  [c EXCEPT !.enableTLS = enable] \in Config
BY DEF Config

LEMMA HostnameAndTLSChange ==
    ASSUME NEW c \in Config, NEW hostname \in Hostnames, NEW enable \in BOOLEAN
    PROVE  [c EXCEPT !.hostname = hostname, !.enableTLS = enable] \in Config
BY DEF Config

LEMMA ScimChanges ==
    ASSUME NEW c \in Config, NEW scim \in BOOLEAN, NEW token \in Tokens \cup {NoToken}
    PROVE  [c EXCEPT !.scim = scim, !.token = token] \in Config
BY DEF Config

\* A setup completes the Context, a reload takes it over.
LEMMA SetupAndReloadChange ==
    ASSUME NEW c \in Config, NEW completed \in BOOLEAN, NEW hostname \in Hostnames
    PROVE  /\ [c EXCEPT !.completed = completed, !.hostname = hostname] \in Config
           /\ [c EXCEPT !.hostname = hostname, !.completed = completed] \in Config
BY DEF Config

\* An empty Context is one (context.go:106).
LEMMA EmptyIsConfig == ASSUME NEW kid \in Generations PROVE EmptyContext(kid) \in Config
BY NamesAreKnown DEF EmptyContext, Config

\* No pair and no key id is drawn more often than the bound says.
LEMMA FirstGeneration == 0 \in Generations
BY Parameters DEF Generations

\* A request that has returned.
LEMMA IdleIsRequest == Idle \in Request
BY NamesAreKnown DEF Idle, Request

\* A request goes on to another point.
LEMMA RequestGoes ==
    ASSUME NEW q \in Request,
           NEW pc \in {"idle", "verify", "hash", "saveUsers", "save", "write", "enable"}
    PROVE  [q EXCEPT !.pc = pc] \in Request
BY DEF Request

\* The requests stay requests when one returns, goes on, is granted the setup,
\* or copies the Context.
LEMMA RequestsStay ==
    ASSUME NEW f \in [Requests -> Request], NEW r \in Requests,
           NEW pc \in {"idle", "verify", "hash", "saveUsers", "save", "write", "enable"},
           NEW hostname \in Hostnames, NEW c \in Config, NEW setup \in BOOLEAN
    PROVE  /\ [f EXCEPT ![r] = Idle] \in [Requests -> Request]
           /\ [f EXCEPT ![r].pc = pc] \in [Requests -> Request]
           /\ [f EXCEPT ![r] = [Idle EXCEPT !.hostname = hostname, !.setup = setup,
                                            !.pc = pc]] \in [Requests -> Request]
           /\ [f EXCEPT ![r].pc = pc, ![r].image = c] \in [Requests -> Request]
<1>1. [f EXCEPT ![r] = Idle] \in [Requests -> Request]
  BY IdleIsRequest
<1>2. [f EXCEPT ![r].pc = pc] \in [Requests -> Request]
  BY RequestGoes
<1>3. [Idle EXCEPT !.hostname = hostname, !.setup = setup, !.pc = pc] \in Request
  BY IdleIsRequest DEF Request
<1>4. [f EXCEPT ![r] = [Idle EXCEPT !.hostname = hostname, !.setup = setup, !.pc = pc]]
        \in [Requests -> Request]
  BY <1>3
<1>5. ASSUME NEW q \in Request PROVE [q EXCEPT !.pc = pc, !.image = c] \in Request
  BY DEF Request
<1>6. [f EXCEPT ![r].pc = pc, ![r].image = c] \in [Requests -> Request]
  BY <1>5
<1>7. QED
  BY <1>1, <1>2, <1>4, <1>6

\* A request goes on to another point, the others stay where they are.
LEMMA GotoTypes ==
    ASSUME request \in [Requests -> Request], NEW r \in Requests,
           NEW pc \in {"idle", "verify", "hash", "saveUsers", "save", "write", "enable"},
           Goto(r, pc)
    PROVE  request' \in [Requests -> Request]
BY RequestGoes DEF Goto

-----------------------------------------------------------------------------
(* Types.  The strengthening says which key files a start can find, and that *)
(* nobody is served before the server is up.                               *)

Typed == TypeOK /\ KeysArePaired /\ DownIsQuiet /\ CopiesAreMade

\* Requests are served when the server is up, and leave its state and keys alone.
LEMMA ServedWhenUp ==
    ASSUME Typed, NEW r \in Requests, Arrive(r) \/ Proceed(r)
    PROVE  Up /\ UNCHANGED serverVars
<1>1. CASE ContextPost(r)
  BY <1>1 DEF ContextPost, CanArrive, setupUnchanged
<1>2. ASSUME NEW hostname \in Hostnames, NEW enable \in BOOLEAN,
             GeneralSetup(r, hostname, enable)
      PROVE  Up /\ UNCHANGED serverVars
  BY <1>2 DEF GeneralSetup, CanArrive, handlerUnchanged
<1>3. ASSUME NEW enabled \in BOOLEAN, NEW regenerate \in BOOLEAN,
             ScimSetup(r, enabled, regenerate)
      PROVE  Up /\ UNCHANGED serverVars
  BY <1>3 DEF ScimSetup, CanArrive, handlerUnchanged
<1>4. CASE SaveStep(r)
  BY <1>4 DEF Typed, DownIsQuiet, SaveStep, BeginSave, EndSave, SaveRefused, SaveFails,
              SaveReturnsError, saveUnchanged
<1>5. CASE SetupStep(r)
  BY <1>5 DEF Typed, DownIsQuiet, SetupStep, SetupRefused, AdminAppended, SetupChanges,
              SaveUsersFails, SetupGranted, setupUnchanged
<1>6. CASE SignalTaken(r)
  BY <1>6 DEF Typed, DownIsQuiet, SignalTaken, handlerUnchanged
<1>7. QED
  BY <1>1, <1>2, <1>3, <1>4, <1>5, <1>6 DEF Arrive, Proceed
\* What a request changes of the accounts, the names and the configuration keeps
\* its type; what it leaves to the start of the server follows from ServedWhenUp.
LEMMA SaveTypes ==
    ASSUME TypeOK, CopiesAreMade, NEW r \in Requests, SaveStep(r), UNCHANGED serverVars
    PROVE  TypeOK'
<1>0. request \in [Requests -> Request] /\ config \in Config
  BY DEF TypeOK
<1>1. CASE BeginSave(r)
  <2>1. request' \in [Requests -> Request]
    <3>1. request' = [request EXCEPT ![r].pc = "write", ![r].image = config]
      BY <1>1 DEF BeginSave, SavedImage
    <3> QED BY <1>0, <3>1, RequestsStay, NamesAreKnown
  <2> QED BY <1>1, <2>1 DEF TypeOK, BeginSave, Lock, saveUnchanged, accounts, NoteOverlap, serverVars, keyFiles, Up
<1>2. CASE EndSave(r)
  <2>1. request' \in [Requests -> Request]
    BY <1>0, <1>2, IdleIsRequest DEF EndSave, Return
  <2>2. file' \in Config \cup {Missing, Torn}
    BY <1>2 DEF EndSave, CopiesAreMade
  <2>3. setupAnswered' \in BOOLEAN /\ overlapped' \in BOOLEAN /\ writing' \in SUBSET Requests
    BY <1>2 DEF TypeOK, EndSave, NoteOverlap, Unlock
  <2>4. saveFailed' \in BOOLEAN /\ UNCHANGED <<saveUnchanged, config, loaded, events, interrupted, setupFailed>>
    BY <1>2 DEF EndSave
  <2> QED BY <2>1, <2>2, <2>3, <2>4 DEF TypeOK, saveUnchanged, accounts, serverVars, keyFiles, Up
<1> DEFINE failed == SaveReturnsError(r) /\ writing' \in SUBSET Requests
                     /\ file' \in Config \cup {Missing, Torn} /\ interrupted' \in BOOLEAN
<1>3. ASSUME failed PROVE TypeOK'
  <2>1. request' \in [Requests -> Request]
    BY <1>0, <1>3, IdleIsRequest DEF SaveReturnsError, Return
  <2>2. config' \in Config
    <3>1. [config EXCEPT !.completed = FALSE] \in Config
      BY <1>0, CompletedChanges
    <3>2. config' \in {config, [config EXCEPT !.completed = FALSE]}
      BY <1>3 DEF SaveReturnsError
    <3> QED BY <1>0, <3>1, <3>2
  <2>3. events' \in 0 .. MaxEvents
    BY <1>3, Parameters DEF TypeOK, SaveReturnsError, CountEvent
  <2> QED BY <1>3, <2>1, <2>2, <2>3 DEF TypeOK, SaveReturnsError, saveUnchanged, accounts, NoteOverlap, serverVars, keyFiles, Up
<1>4. CASE SaveRefused(r)
  BY <1>4, <1>3 DEF SaveRefused, TypeOK
<1>5. CASE SaveFails(r)
  <2>1. request[r].image \in Config
    BY <1>5 DEF SaveFails, CopiesAreMade
  <2>2. file' \in Config \cup {Missing, Torn}
    BY <1>5, <2>1 DEF SaveFails, TypeOK
  <2> QED BY <1>5, <1>3, <2>2 DEF TypeOK, SaveFails, Unlock
<1> QED BY <1>1, <1>2, <1>4, <1>5 DEF SaveStep

\* The first setup.
LEMMA SetupTypes ==
    ASSUME TypeOK, NEW r \in Requests, SetupStep(r) \/ ContextPost(r), UNCHANGED serverVars
    PROVE  TypeOK'
<1>0. request \in [Requests -> Request] /\ config \in Config
  BY DEF TypeOK
<1>1. ASSUME config' \in Config, request' \in [Requests -> Request], events' \in 0 .. MaxEvents,
             UNCHANGED <<setupUnchanged, userStore, setupAnswered, setupFailed>>,
             overlapped' \in BOOLEAN, admin' \in BOOLEAN, adminSaved' \in BOOLEAN
      PROVE  TypeOK'
  BY <1>1 DEF TypeOK, setupUnchanged, serverVars, keyFiles, Up
<1>2. CASE ContextPost(r)
  <2>1. config' \in Config
    <3> DEFINE completed == config.completed \/ ~setupCode
    <3>1. completed \in BOOLEAN
      OBVIOUS
    <3>2. config' = [config EXCEPT !.completed = completed]
      BY <1>2 DEF ContextPost
    <3> HIDE DEF completed
    <3> QED BY <1>0, <3>1, <3>2, CompletedChanges
  <2>2. request' \in [Requests -> Request]
    BY <1>0, <1>2, GotoTypes DEF ContextPost
  <2> QED BY <1>1, <1>2, <2>1, <2>2 DEF TypeOK, ContextPost, accounts, NoteOverlap
<1>3. CASE SetupRefused(r)
  <2>1. request' \in [Requests -> Request]
    BY <1>0, <1>3, IdleIsRequest DEF SetupRefused, Return
  <2> QED BY <1>1, <1>3, <2>1 DEF TypeOK, SetupRefused, accounts
<1>4. CASE AdminAppended(r)
  <2>1. request' \in [Requests -> Request]
    BY <1>0, <1>4, GotoTypes DEF AdminAppended
  <2> QED BY <1>1, <1>4, <2>1 DEF TypeOK, AdminAppended
<1>5. CASE SetupChanges(r)
  <2>1. request' \in [Requests -> Request]
    BY <1>0, <1>5, GotoTypes DEF SetupChanges
  <2>2. config' \in Config
    <3>1. request[r].hostname \in Hostnames
      BY <1>0 DEF Request
    <3> QED BY <1>0, <1>5, <3>1, SetupAndReloadChange DEF SetupChanges
  <2> QED BY <1>1, <1>5, <2>1, <2>2 DEF TypeOK, SetupChanges, SaveUsers, NoteOverlap
<1>6. CASE SaveUsersFails(r)
  <2>1. request' \in [Requests -> Request]
    BY <1>0, <1>6, IdleIsRequest DEF SaveUsersFails, Return
  <2>2. events' \in 0 .. MaxEvents
    BY <1>6, Parameters DEF TypeOK, SaveUsersFails, CountEvent
  <2> QED BY <1>1, <1>6, <2>1, <2>2 DEF TypeOK, SaveUsersFails, accounts
<1>7. ASSUME NEW hostname \in Hostnames, SetupGranted(r, hostname) PROVE TypeOK'
  <2>1. request' \in [Requests -> Request]
    <3> DEFINE pc == IF admin THEN "saveUsers" ELSE "hash"
    <3>1. request' = [request EXCEPT ![r] = [Idle EXCEPT !.hostname = hostname,
                                                 !.setup = TRUE, !.pc = pc]]
      BY <1>7 DEF SetupGranted
    <3>2. pc \in {"idle", "verify", "hash", "saveUsers", "save", "write", "enable"}
      OBVIOUS
    <3> HIDE DEF pc
    <3> QED BY ZenonT(40), <1>0, <3>1, <3>2, RequestsStay
  <2> QED BY <1>1, <1>7, <2>1 DEF TypeOK, SetupGranted, accounts
<1> QED BY <1>2, <1>3, <1>4, <1>5, <1>6, <1>7 DEF SetupStep

\* The general and the SCIM setup.
LEMMA HandlerTypes ==
    ASSUME TypeOK, NEW r \in Requests, UNCHANGED serverVars,
           \/ \E hostname \in Hostnames, enable \in BOOLEAN : GeneralSetup(r, hostname, enable)
           \/ \E enabled, regenerate \in BOOLEAN : ScimSetup(r, enabled, regenerate)
           \/ SignalTaken(r)
    PROVE  TypeOK'
<1>0. request \in [Requests -> Request] /\ config \in Config
  BY DEF TypeOK
<1>1. ASSUME config' \in Config, request' \in [Requests -> Request],
             UNCHANGED handlerUnchanged, tls' \in {"waiting", "starting", "serving"},
             overlapped' \in BOOLEAN, enabledTwice' \in BOOLEAN
      PROVE  TypeOK'
  BY <1>1 DEF TypeOK, handlerUnchanged, serverVars, keyFiles, accounts, history, Up
<1>2. ASSUME NEW hostname \in Hostnames, NEW enable \in BOOLEAN,
             GeneralSetup(r, hostname, enable)
      PROVE  TypeOK'
  <2>1. config' \in Config
    BY ZenonT(40), <1>0, <1>2, HostnameChanges, HostnameAndTLSChange DEF GeneralSetup
  <2>2. request' \in [Requests -> Request]
    BY <1>0, <1>2, GotoTypes DEF GeneralSetup
  <2> QED BY <1>1, <1>2, <2>1, <2>2 DEF TypeOK, GeneralSetup, NoteOverlap
<1>3. ASSUME NEW enabled \in BOOLEAN, NEW regenerate \in BOOLEAN,
             ScimSetup(r, enabled, regenerate)
      PROVE  TypeOK'
  <2>1. config' \in Config
    BY ZenonT(40), <1>0, <1>3, ScimChanges DEF ScimSetup, TypeOK, Config
  <2>2. request' \in [Requests -> Request]
    BY <1>0, <1>3, GotoTypes DEF ScimSetup
  <2> QED BY <1>1, <1>3, <2>1, <2>2 DEF TypeOK, ScimSetup, NoteOverlap
<1>4. CASE SignalTaken(r)
  <2>1. config' \in Config
    BY <1>0, <1>4, TLSChanges DEF SignalTaken
  <2>2. request' \in [Requests -> Request]
    BY <1>0, <1>4, GotoTypes DEF SignalTaken
  <2> QED BY <1>1, <1>4, <2>1, <2>2 DEF TypeOK, SignalTaken, NoteOverlap
<1> QED BY <1>2, <1>3, <1>4

\* Starting the server, with the files that an earlier incarnation left.
LEMMA StartTypes ==
    ASSUME TypeOK, KeysArePaired, StartStep
    PROVE  TypeOK'
<1>1. ASSUME NEW c \in Config, Start(c) PROVE TypeOK'
  <2>1. kids' \in Generations
    BY <1>1, Parameters DEF TypeOK, Start, ReadsConfig, Generations
  <2>2. /\ config' \in Config /\ admin' \in BOOLEAN /\ userStore' \in BOOLEAN
        /\ killed' \in BOOLEAN /\ tls' \in {"waiting", "starting", "serving"}
        /\ phase' \in {"private", "up"}
    BY <1>1 DEF TypeOK, Start
  <2>3. UNCHANGED <<startUnchanged, file, keyFiles, events, interrupted>>
    BY <1>1 DEF Start
  <2>4. phase' = "up" => KeysUsable
    BY <1>1 DEF Start
  <2>5. Up' => privatePem \in Generations /\ publicPem = privatePem
    BY <2>4 DEF Up, KeysUsable, KeysArePaired
  <2> QED BY <2>1, <2>2, <2>3, <2>5 DEF TypeOK, startUnchanged, keyFiles, history
<1>2. CASE WritePrivateKey
  <2>1. phase' = "public" /\ privatePem' \in KeyFile
    BY <1>2 DEF WritePrivateKey, TypeOK, KeyFile
  <2>2. UNCHANGED <<keyUnchanged, publicPem, events, interrupted>>
    BY <1>2 DEF WritePrivateKey
  <2> QED BY <2>1, <2>2 DEF TypeOK, keyUnchanged, startUnchanged, history, Up
<1>3. CASE WritePublicKey
  <2>1. phase' = "up" /\ publicPem' = privatePem /\ privatePem \in Generations
    BY <1>3 DEF WritePublicKey, KeysArePaired
  <2>2. UNCHANGED <<keyUnchanged, privatePem, events, interrupted>>
    BY <1>3 DEF WritePublicKey
  <2> QED BY <2>1, <2>2 DEF TypeOK, keyUnchanged, startUnchanged, history, Up
<1> QED BY <1>1, <1>2, <1>3 DEF StartStep

\* A server that dies.
LEMMA DeathTypes ==
    ASSUME TypeOK, Dies, CountEvent, privatePem' \in KeyFile, publicPem' \in KeyFile,
           interrupted' \in BOOLEAN, killed' \in BOOLEAN
    PROVE  TypeOK'
<1>1. config' \in Config
  BY FirstGeneration, EmptyIsConfig DEF Dies
<1>2. request' \in [Requests -> Request]
  BY IdleIsRequest DEF Dies
<1>3. events' \in 0 .. MaxEvents
  BY Parameters DEF TypeOK, CountEvent
<1>4. /\ phase' = "down" /\ admin' \in BOOLEAN /\ userStore' \in BOOLEAN
      /\ tls' \in {"waiting", "starting", "serving"} /\ loaded' = Nothing /\ writing' = {}
      /\ enabledTwice' \in BOOLEAN
  BY DEF Dies
<1>5. UNCHANGED <<kids, file, setupCode, adminSaved, overlapped, saveFailed, history>>
  BY DEF Dies
<1> QED BY <1>1, <1>2, <1>3, <1>4, <1>5 DEF TypeOK, history, Up

\* A crash, also that of a failed write of the keys and of a reload.
LEMMA CrashTypes ==
    ASSUME TypeOK, KeyWriteFails \/ Crash \/ ReloadPanics
    PROVE  TypeOK'
<1>1. CASE KeyWriteFails
  <2>1. privatePem' \in KeyFile /\ publicPem' \in KeyFile
    BY <1>1 DEF KeyWriteFails, TypeOK, KeyFile
  <2>2. interrupted' \in BOOLEAN /\ killed' \in BOOLEAN
    BY <1>1 DEF KeyWriteFails
  <2>3. Dies /\ CountEvent
    BY <1>1 DEF KeyWriteFails
  <2> QED BY <2>1, <2>2, <2>3, DeathTypes
<1>2. ASSUME DiesWhileUp, killed' \in BOOLEAN PROVE TypeOK'
  <2>1. privatePem' \in KeyFile /\ publicPem' \in KeyFile
    BY <1>2 DEF DiesWhileUp, keyFiles, TypeOK
  <2>2. interrupted' \in BOOLEAN
    BY <1>2 DEF DiesWhileUp
  <2>3. Dies /\ CountEvent
    BY <1>2 DEF DiesWhileUp
  <2> QED BY <1>2, <2>1, <2>2, <2>3, DeathTypes
<1>3. CASE Crash
  BY <1>2, <1>3 DEF Crash
<1>4. CASE ReloadPanics
  BY <1>2, <1>4 DEF ReloadPanics, TypeOK
<1> QED BY <1>1, <1>3, <1>4

\* A reload that does not panic.
LEMMA ReloadTypes ==
    ASSUME TypeOK, BeginReload \/ EndReload \/ ReloadLosesUsers
    PROVE  TypeOK'
<1>1. ASSUME UNCHANGED reloadUnchanged, config' \in Config, userStore' \in BOOLEAN,
             loaded' \in Reloaded \cup {Nothing}, events' \in 0 .. MaxEvents,
             overlapped' \in BOOLEAN
      PROVE  TypeOK'
  BY <1>1 DEF TypeOK, reloadUnchanged, serverVars, keyFiles, history, Up
<1>2. ASSUME NEW c \in Reloaded, TakesOver(c) PROVE config' \in Config
  BY <1>2, SetupAndReloadChange DEF TakesOver, TypeOK, Reloaded
<1>3. CASE BeginReload
  <2>1. events' \in 0 .. MaxEvents
    BY <1>3, Parameters DEF BeginReload, CountEvent, TypeOK
  <2>2. loaded' \in Reloaded \cup {Nothing} /\ overlapped' \in BOOLEAN
    BY <1>3 DEF BeginReload, TypeOK
  <2>3. UNCHANGED <<reloadUnchanged, config, userStore>>
    BY <1>3 DEF BeginReload
  <2>4. config' \in Config /\ userStore' \in BOOLEAN
    BY <2>3 DEF TypeOK
  <2> QED BY <1>1, <2>1, <2>2, <2>3, <2>4
<1>4. CASE EndReload
  <2>1. loaded \in Reloaded
    BY <1>4 DEF EndReload, TypeOK
  <2>2. config' \in Config
    BY <1>2, <1>4, <2>1 DEF EndReload
  <2> QED BY <1>1, <1>4, <2>2 DEF EndReload, TypeOK
<1>5. CASE ReloadLosesUsers
  <2>1. events' \in 0 .. MaxEvents
    BY <1>5, Parameters DEF ReloadLosesUsers, CountEvent, TypeOK
  <2>2. config' \in Config
    BY <1>2, <1>5 DEF ReloadLosesUsers
  <2>3. overlapped' \in BOOLEAN /\ userStore' \in BOOLEAN
    BY <1>5 DEF ReloadLosesUsers, TypeOK
  <2>4. UNCHANGED <<reloadUnchanged, loaded>>
    BY <1>5 DEF ReloadLosesUsers
  <2>5. loaded' \in Reloaded \cup {Nothing}
    BY <2>4 DEF TypeOK
  <2> QED BY <1>1, <2>1, <2>2, <2>3, <2>4, <2>5
<1> QED BY <1>3, <1>4, <1>5

\* The endpoint, the tokens and the operator.
LEMMA OtherTypes ==
    ASSUME TypeOK, ServeTLS \/ IssueToken \/ RemoveSetupCode
    PROVE  TypeOK'
<1>1. CASE ServeTLS
  BY <1>1 DEF TypeOK, ServeTLS, handlerUnchanged, serverVars, keyFiles, accounts, history, Up
<1>2. CASE IssueToken
  <2>1. issued' \in SUBSET [kid : Generations, key : KeyFile]
    BY <1>2 DEF TypeOK, IssueToken, Config
  <2> QED BY <1>2, <2>1 DEF TypeOK, IssueToken, serverVars, keyFiles, accounts, Up
<1>3. CASE RemoveSetupCode
  <2>1. UNCHANGED <<serverVars, config, file, writing, accounts, request, tls, loaded,
                   events, saveFailed, overlapped, enabledTwice, interrupted, history>>
    BY <1>3 DEF RemoveSetupCode
  <2>2. setupCode' \in BOOLEAN
    BY <1>3 DEF RemoveSetupCode
  <2> QED BY <2>1, <2>2 DEF TypeOK, serverVars, keyFiles, accounts, history, Up
<1> QED BY <1>1, <1>2, <1>3

\* The first state has the types, and no key file.
LEMMA InitTyped == Init => Typed
<1> SUFFICES ASSUME Init PROVE Typed
  OBVIOUS
<1>1. config \in Config
  BY FirstGeneration, EmptyIsConfig DEF Init
<1>2. request \in [Requests -> Request]
  BY IdleIsRequest DEF Init
<1>3. kids \in Generations /\ events \in 0 .. MaxEvents
  BY FirstGeneration, Parameters DEF Init
<1>4. TypeOK
  BY <1>1, <1>2, <1>3 DEF TypeOK, Init, KeyFile, Up
<1>5. \A r \in Requests : request[r].pc = "idle" /\ request[r].image = Nothing
  BY DEF Init, Idle
<1>6. KeysArePaired
  BY Sentinels DEF KeysArePaired, Init
<1>7. DownIsQuiet /\ CopiesAreMade
  BY <1>5 DEF DownIsQuiet, CopiesAreMade, Init
<1> QED BY <1>4, <1>6, <1>7 DEF Typed

-----------------------------------------------------------------------------
(* What one request changes of the requests and of the mutex.              *)

\* Only this request has moved, to pc.
Moved(r, pc) ==
    /\ \A p \in Requests : p # r => request'[p] = request[p]
    /\ request'[r].pc = pc

\* A step to another place of the handler, or its end, moves one request.
LEMMA GotoMoves ==
    ASSUME request \in [Requests -> Request], NEW r \in Requests,
           NEW pc \in {"idle", "verify", "hash", "saveUsers", "save", "write", "enable"},
           Goto(r, pc)
    PROVE  Moved(r, pc) /\ request'[r].image = request[r].image
<1>1. request' = [request EXCEPT ![r] = [request[r] EXCEPT !.pc = pc]]
  BY DEF Goto
<1>2. request'[r] = [request[r] EXCEPT !.pc = pc]
  BY <1>1
<1>3. request[r] \in Request
  OBVIOUS
<1>4. [request[r] EXCEPT !.pc = pc].pc = pc
      /\ [request[r] EXCEPT !.pc = pc].image = request[r].image
  BY <1>3 DEF Request
<1> QED BY <1>1, <1>2, <1>4 DEF Moved

LEMMA ReturnMoves ==
    ASSUME request \in [Requests -> Request], NEW r \in Requests, Return(r)
    PROVE  Moved(r, "idle") /\ request'[r].image = Nothing
<1>1. request'[r] = Idle
  BY DEF Return
<1>2. Idle.pc = "idle" /\ Idle.image = Nothing
  BY DEF Idle
<1> QED BY <1>1, <1>2 DEF Return, Moved

\* A request copies the Context and takes the mutex, and writes then; any other step
\* of a request copies nothing, takes no mutex, and releases the one it holds.
LEMMA RequestStep ==
    ASSUME Typed, NEW r \in Requests, Arrive(r) \/ Proceed(r)
    PROVE  /\ \A p \in Requests : p # r => request'[p] = request[p]
           /\ \/ /\ request'[r].pc = "write" /\ request'[r].image = config
                 /\ writing = {} /\ writing' = {r}
              \/ /\ request'[r].pc # "write"
                 /\ request'[r].image \in {request[r].image, Nothing}
                 /\ writing' \subseteq writing
                 /\ request[r].pc = "write" => r \notin writing'
<1>0. request \in [Requests -> Request] /\ config \in Config
  BY DEF Typed, TypeOK
<1> DEFINE Others == \A p \in Requests : p # r => request'[p] = request[p]
           Copies == /\ request'[r].pc = "write" /\ request'[r].image = config
                     /\ writing = {} /\ writing' = {r}
           Moves == /\ request'[r].pc # "write"
                    /\ request'[r].image \in {request[r].image, Nothing}
                    /\ writing' \subseteq writing
                    /\ request[r].pc = "write" => r \notin writing'
<1> SUFFICES Others /\ (Copies \/ Moves)
  OBVIOUS
<1>1. ASSUME NEW pc \in {"idle", "verify", "hash", "saveUsers", "save", "enable"},
             Goto(r, pc), UNCHANGED writing, request[r].pc # "write"
      PROVE  Others /\ Moves
  BY <1>0, <1>1, GotoMoves DEF Moved
<1>2. ASSUME Return(r), writing' \subseteq writing, request[r].pc = "write" => r \notin writing'
      PROVE  Others /\ Moves
  BY <1>0, <1>2, ReturnMoves DEF Moved
<1>3. ASSUME UNCHANGED <<request, writing>>, request[r].pc = "idle"
      PROVE  Others /\ Moves
  BY <1>3
<1>4. CASE ContextPost(r)
  BY <1>1, <1>3, <1>4 DEF ContextPost, CanArrive, setupUnchanged
<1>5. ASSUME NEW hostname \in Hostnames, NEW enable \in BOOLEAN,
             GeneralSetup(r, hostname, enable)
      PROVE  Others /\ Moves
  BY <1>1, <1>5 DEF GeneralSetup, CanArrive, handlerUnchanged
<1>6. ASSUME NEW enabled \in BOOLEAN, NEW regenerate \in BOOLEAN,
             ScimSetup(r, enabled, regenerate)
      PROVE  Others /\ Moves
  <2>1. Goto(r, "save") \/ UNCHANGED request
    BY <1>6 DEF ScimSetup
  <2>2. UNCHANGED writing /\ request[r].pc = "idle"
    BY <1>6 DEF ScimSetup, CanArrive, handlerUnchanged
  <2> QED BY <1>1, <1>3, <2>1, <2>2
<1>7. CASE BeginSave(r)
  <2>1. request' = [request EXCEPT ![r].pc = "write", ![r].image = config]
    BY <1>7 DEF BeginSave, SavedImage
  <2>2. Others
    BY <1>0, <2>1
  <2>3. request[r] \in Request
    BY <1>0
  <2>4. request'[r] = [request[r] EXCEPT !.pc = "write", !.image = config]
    BY <1>0, <2>1
  <2>5. request'[r].pc = "write" /\ request'[r].image = config
    BY <2>3, <2>4 DEF Request
  <2> QED BY <1>7, <2>2, <2>5 DEF BeginSave, Lock
<1>8. CASE EndSave(r)
  BY <1>2, <1>8 DEF EndSave, Unlock
<1>9. CASE SaveRefused(r)
  BY <1>2, <1>9 DEF SaveRefused, SaveReturnsError
<1>10. CASE SaveFails(r)
  BY <1>2, <1>10 DEF SaveFails, SaveReturnsError, Unlock
<1>11. CASE SetupRefused(r)
  BY <1>2, <1>11 DEF SetupRefused, setupUnchanged
<1>12. CASE AdminAppended(r)
  BY <1>1, <1>12 DEF AdminAppended, setupUnchanged
<1>13. CASE SetupChanges(r)
  BY <1>1, <1>13 DEF SetupChanges, setupUnchanged
<1>14. CASE SaveUsersFails(r)
  BY <1>2, <1>14 DEF SaveUsersFails, setupUnchanged
<1>15. ASSUME NEW hostname \in Hostnames, SetupGranted(r, hostname)
       PROVE  Others /\ Moves
  <2> DEFINE pc == IF admin THEN "saveUsers" ELSE "hash"
             q == [Idle EXCEPT !.hostname = hostname, !.setup = TRUE, !.pc = pc]
  <2>1. request' = [request EXCEPT ![r] = q] /\ UNCHANGED writing /\ request[r].pc = "verify"
    BY <1>15 DEF SetupGranted, setupUnchanged
  <2>2. q.pc = pc /\ q.image = Nothing
    BY DEF Idle
  <2>3. pc # "write"
    OBVIOUS
  <2> HIDE DEF q, pc
  <2> QED BY <1>0, <2>1, <2>2, <2>3
<1>16. CASE SignalTaken(r)
  BY <1>1, <1>16 DEF SignalTaken, handlerUnchanged
<1> QED
  BY <1>4, <1>5, <1>6, <1>7, <1>8, <1>9, <1>10, <1>11, <1>12, <1>13, <1>14, <1>15, <1>16
  DEF Arrive, Proceed, SaveStep, SetupStep

-----------------------------------------------------------------------------
(* The types hold.                                                         *)

\* A request keeps the types and the strengthening.
LEMMA RequestKeepsTyped ==
    ASSUME Typed, NEW r \in Requests, Arrive(r) \/ Proceed(r)
    PROVE  Typed'
<1>1. Up /\ UNCHANGED serverVars
  BY ServedWhenUp
<1>2. TypeOK'
  BY <1>1, SaveTypes, SetupTypes, HandlerTypes DEF Typed, Arrive, Proceed
<1>3. KeysArePaired'
  BY <1>1 DEF Typed, KeysArePaired, serverVars, keyFiles
<1>4. DownIsQuiet'
  BY <1>1 DEF DownIsQuiet, Up, serverVars
<1>5. CopiesAreMade'
  <2> SUFFICES ASSUME NEW p \in Requests, request'[p].pc = "write"
               PROVE  request'[p].image \in Config
    BY DEF CopiesAreMade
  <2>1. CASE p = r
    BY <2>1, RequestStep DEF Typed, TypeOK
  <2>2. CASE p # r
    BY <2>2, RequestStep DEF Typed, CopiesAreMade
  <2> QED BY <2>1, <2>2
<1> QED BY <1>2, <1>3, <1>4, <1>5 DEF Typed

\* So does a start: the pair is written in order, and nobody is served.
LEMMA StartKeepsTyped == ASSUME Typed, StartStep PROVE Typed'
<1>1. TypeOK'
  BY StartTypes DEF Typed
<1>2. ~Up /\ UNCHANGED <<request, writing, loaded>>
  BY DEF StartStep, Start, WritePrivateKey, WritePublicKey, Up, keyUnchanged, startUnchanged
<1>3. KeysArePaired'
  <2>1. ASSUME NEW c \in Config, Start(c) PROVE KeysArePaired'
    BY <2>1 DEF Typed, KeysArePaired, Start, keyFiles
  <2>2. CASE WritePrivateKey
    <3>1. publicPem = Missing /\ privatePem' = kids /\ publicPem' = Missing
      BY <2>2 DEF Typed, KeysArePaired, WritePrivateKey
    <3>2. kids # Missing /\ kids \in Generations /\ Missing \notin Generations
      BY Sentinels DEF Typed, TypeOK
    <3> QED BY <2>2, <3>1, <3>2 DEF KeysArePaired, WritePrivateKey
  <2>3. CASE WritePublicKey
    <3>1. privatePem \in Generations /\ UNCHANGED privatePem /\ publicPem' = privatePem
      BY <2>3 DEF Typed, KeysArePaired, WritePublicKey
    <3> QED BY <2>3, <3>1, Sentinels DEF KeysArePaired, WritePublicKey
  <2> QED BY <2>1, <2>2, <2>3 DEF StartStep
<1>4. DownIsQuiet' /\ CopiesAreMade'
  BY <1>2 DEF Typed, DownIsQuiet, CopiesAreMade
<1> QED BY <1>1, <1>3, <1>4 DEF Typed

\* So does a crash: a key file that could not be written leaves no pair.
LEMMA CrashKeepsTyped ==
    ASSUME Typed, KeyWriteFails \/ Crash \/ ReloadPanics
    PROVE  Typed'
<1>1. TypeOK'
  BY CrashTypes DEF Typed
<1>2. Dies
  BY DEF KeyWriteFails, Crash, ReloadPanics, DiesWhileUp
<1>3. \A r \in Requests : request'[r].pc = "idle" /\ request'[r].image = Nothing
  BY <1>2 DEF Dies, Idle
<1>4. DownIsQuiet' /\ CopiesAreMade'
  BY <1>2, <1>3 DEF Dies, DownIsQuiet, CopiesAreMade
<1>5. KeysArePaired'
  <2>1. phase' = "down"
    BY <1>2 DEF Dies
  <2>2. CASE KeyWriteFails
    <3>1. Missing \notin Generations /\ Torn \notin Generations /\ Missing # Torn
      BY Sentinels
    <3>2. CASE phase = "private"
      BY <2>1, <2>2, <3>1, <3>2 DEF KeyWriteFails, Typed, KeysArePaired
    <3>3. CASE phase = "public"
      BY <2>1, <2>2, <3>1, <3>3 DEF KeyWriteFails, Typed, KeysArePaired
    <3> QED BY <2>2, <3>2, <3>3 DEF KeyWriteFails
  <2>3. CASE DiesWhileUp
    BY <2>1, <2>3 DEF DiesWhileUp, Typed, KeysArePaired, keyFiles
  <2> QED BY <2>2, <2>3 DEF Crash, ReloadPanics
<1> QED BY <1>1, <1>4, <1>5 DEF Typed

\* So do a reload and what else the server does.
LEMMA OthersKeepTyped ==
    ASSUME Typed, \/ BeginReload \/ EndReload \/ ReloadLosesUsers
                  \/ ServeTLS \/ IssueToken \/ RemoveSetupCode
    PROVE  Typed'
<1>1. TypeOK'
  BY ReloadTypes, OtherTypes DEF Typed
<1>2. UNCHANGED <<serverVars, request, writing>> /\ (loaded' = loaded \/ Up)
  BY DEF BeginReload, EndReload, ReloadLosesUsers, CanReload, reloadUnchanged,
         ServeTLS, handlerUnchanged, IssueToken, RemoveSetupCode
<1>3. KeysArePaired'
  BY <1>2 DEF Typed, KeysArePaired, serverVars, keyFiles
<1>4. DownIsQuiet'
  BY <1>2 DEF Typed, DownIsQuiet, Up, serverVars
<1>5. CopiesAreMade'
  BY <1>2 DEF Typed, CopiesAreMade
<1> QED BY <1>1, <1>3, <1>4, <1>5 DEF Typed

\* Every step keeps the types and what they need.
LEMMA NextTyped == Typed /\ [Next]_vars => Typed'
<1>1. CASE UNCHANGED vars
  <2> SUFFICES ASSUME Typed PROVE Typed'
    OBVIOUS
  <2>1. TypeOK'
    BY <1>1 DEF vars, serverVars, keyFiles, accounts, history, Typed, TypeOK, Up
  <2>2. KeysArePaired' /\ DownIsQuiet' /\ CopiesAreMade'
    BY <1>1 DEF vars, serverVars, keyFiles, Typed, KeysArePaired, DownIsQuiet,
                CopiesAreMade, Up
  <2> QED BY <2>1, <2>2 DEF Typed
<1>2. CASE Next
  BY <1>2, RequestKeepsTyped, StartKeepsTyped, CrashKeepsTyped, OthersKeepTyped
  DEF Next, Reload
<1> QED BY <1>1, <1>2

\* They hold in every reachable state.
LEMMA AlwaysTyped == Spec => []Typed
BY InitTyped, NextTyped, PTL DEF Spec

\* Context, files, requests and history keep their types, and the key files of a server
\* that is up are a pair (config.go:15-79, setup.go:55-158, rsa.go:25-60).
THEOREM ServerTypes == Spec => []TypeOK
BY AlwaysTyped, PTL DEF Typed

-----------------------------------------------------------------------------
(* The mutex and the signal.                                               *)

\* A request leaves no mutex held and no signal without a receiver.
LEMMA RequestKeepsLocks ==
    ASSUME Typed, LocksAreHeld, NEW r \in Requests, Arrive(r) \/ Proceed(r)
    PROVE  LocksAreHeld'
<1>0. request \in [Requests -> Request] /\ enabledTwice \in BOOLEAN
  BY DEF Typed, TypeOK
<1>1. \A q \in writing' : request'[q].pc = "write"
  <2> SUFFICES ASSUME NEW q \in writing' PROVE request'[q].pc = "write"
    OBVIOUS
  <2>1. CASE q = r
    BY <2>1, RequestStep DEF LocksAreHeld
  <2>2. CASE q # r
    BY <2>2, RequestStep DEF LocksAreHeld, Typed, TypeOK
  <2> QED BY <2>1, <2>2
<1> DEFINE Receiver == \A p \in Requests : request[p].pc = "enable" => tls = "waiting" \/ enabledTwice
           Single == \A p, q \in Requests :
                       request[p].pc = "enable" /\ request[q].pc = "enable" => p = q \/ enabledTwice
<1>2. Receiver /\ Single
  BY DEF LocksAreHeld
<1> SUFFICES Receiver' /\ Single'
  BY <1>1 DEF LocksAreHeld
<1>3. ASSUME request'[r].pc # "enable", UNCHANGED <<tls, enabledTwice>> PROVE Receiver' /\ Single'
  BY <1>2, <1>3, RequestStep
<1>4. CASE SaveStep(r)
  <2>1. UNCHANGED <<tls, enabledTwice>>
    BY <1>4 DEF SaveStep, BeginSave, EndSave, SaveRefused, SaveFails, SaveReturnsError,
                saveUnchanged
  <2>2. request'[r].pc \in {"idle", "write"}
    <3>1. CASE BeginSave(r)
      BY <1>0, <3>1, RequestStep DEF BeginSave
    <3>2. CASE Return(r)
      BY <1>0, <3>2, ReturnMoves DEF Moved
    <3> QED BY <1>4, <3>1, <3>2 DEF SaveStep, EndSave, SaveRefused, SaveFails, SaveReturnsError
  <2> QED BY <1>3, <2>1, <2>2
<1>5. CASE SetupStep(r) \/ ContextPost(r)
  <2>1. UNCHANGED <<tls, enabledTwice>>
    BY <1>5 DEF SetupStep, ContextPost, SetupRefused, AdminAppended, SetupChanges,
                SaveUsersFails, SetupGranted, setupUnchanged
  <2>2. request'[r].pc # "enable"
    <3>1. CASE Return(r)
      BY <1>0, <3>1, ReturnMoves DEF Moved
    <3>2. ASSUME NEW pc \in {"verify", "saveUsers", "save"}, Goto(r, pc)
          PROVE  request'[r].pc # "enable"
      BY <1>0, <3>2, GotoMoves DEF Moved
    <3>3. ASSUME UNCHANGED request, request[r].pc = "idle" PROVE request'[r].pc # "enable"
      BY <3>3
    <3>4. ASSUME NEW hostname \in Hostnames, SetupGranted(r, hostname)
          PROVE  request'[r].pc # "enable"
      <4>1. request'[r] = [Idle EXCEPT !.hostname = hostname, !.setup = TRUE,
                                       !.pc = IF admin THEN "saveUsers" ELSE "hash"]
        BY <1>0, <3>4 DEF SetupGranted
      <4>2. request'[r].pc = IF admin THEN "saveUsers" ELSE "hash"
        BY <4>1 DEF Idle
      <4> QED BY <4>2
    <3>5. CASE ContextPost(r)
      BY <3>2, <3>3, <3>5 DEF ContextPost, CanArrive
    <3>6. CASE SetupStep(r)
      BY <3>1, <3>2, <3>4, <3>6 DEF SetupStep, SetupRefused, AdminAppended, SetupChanges,
                                     SaveUsersFails
    <3> QED BY <1>5, <3>5, <3>6
  <2> QED BY <1>3, <2>1, <2>2
<1>6. ASSUME NEW hostname \in Hostnames, NEW enable \in BOOLEAN,
             GeneralSetup(r, hostname, enable)
      PROVE  Receiver' /\ Single'
  <2>1. UNCHANGED tls
    BY <1>6 DEF GeneralSetup
  <2>2. CASE Signals(hostname, enable)
    <3>1. enabledTwice' = (\/ enabledTwice \/ tls = "starting"
                           \/ \E q \in Requests : request[q].pc = "enable")
      BY <1>6, <2>2 DEF GeneralSetup
    <3>2. tls \in {"waiting", "starting"}
      BY <2>2 DEF Signals, Typed, TypeOK
    <3>3. request[r].pc = "idle"
      BY <1>6 DEF GeneralSetup, CanArrive
    <3>4. Receiver'
      BY <2>1, <3>1, <3>2 DEF Typed, TypeOK
    <3>5. Single'
      <4> SUFFICES ASSUME NEW p \in Requests, NEW q \in Requests, p # q,
                          request'[p].pc = "enable", request'[q].pc = "enable"
                   PROVE  enabledTwice'
        OBVIOUS
      <4>1. p # r \/ q # r
        OBVIOUS
      <4>2. request[p].pc = "enable" \/ request[q].pc = "enable"
        BY <4>1, RequestStep
      <4> QED BY <3>1, <4>2
    <3> QED BY <3>4, <3>5
  <2>3. CASE ~Signals(hostname, enable)
    <3>1. Goto(r, "save") /\ UNCHANGED enabledTwice
      BY <1>6, <2>3 DEF GeneralSetup
    <3>2. request'[r].pc # "enable"
      BY <1>0, <3>1, GotoMoves DEF Moved
    <3> QED BY <1>3, <2>1, <3>1, <3>2
  <2> QED BY <2>2, <2>3
<1>7. ASSUME NEW enabled \in BOOLEAN, NEW regenerate \in BOOLEAN,
             ScimSetup(r, enabled, regenerate)
      PROVE  Receiver' /\ Single'
  <2>1. Goto(r, "save") \/ UNCHANGED request
    BY <1>7 DEF ScimSetup
  <2>2. request[r].pc = "idle" /\ UNCHANGED <<tls, enabledTwice>>
    BY <1>7 DEF ScimSetup, CanArrive
  <2>3. request'[r].pc # "enable"
    BY <1>0, <2>1, <2>2, GotoMoves DEF Moved
  <2> QED BY <1>3, <2>2, <2>3
<1>8. CASE SignalTaken(r)
  <2>1. request[r].pc = "enable" /\ Goto(r, "save") /\ UNCHANGED enabledTwice
    BY <1>8 DEF SignalTaken
  <2>2. request'[r].pc # "enable"
    BY <1>0, <2>1, GotoMoves DEF Moved
  <2>3. \A p \in Requests : request'[p].pc = "enable" => p # r /\ request[p].pc = "enable"
    BY <2>2, RequestStep
  <2>4. \A p \in Requests : request'[p].pc = "enable" => enabledTwice
    BY <1>2, <2>1, <2>3
  <2>5. Receiver'
    BY <2>1, <2>4
  <2>6. Single'
    BY <2>1, <2>4
  <2> QED BY <2>5, <2>6
<1> HIDE DEF Receiver, Single
<1> QED BY <1>4, <1>5, <1>6, <1>7, <1>8 DEF Arrive, Proceed

\* Every step keeps the mutex with a request that writes and the signal with a receiver.
LEMMA NextLocks == Typed /\ LocksAreHeld /\ [Next]_vars => LocksAreHeld'
<1> SUFFICES ASSUME Typed, LocksAreHeld, [Next]_vars PROVE LocksAreHeld'
  OBVIOUS
<1>1. ASSUME NEW r \in Requests, Arrive(r) \/ Proceed(r) PROVE LocksAreHeld'
  BY <1>1, RequestKeepsLocks
<1>2. CASE StartStep
  <2>1. ~Up /\ UNCHANGED <<request, writing>>
    BY <1>2 DEF StartStep, Start, WritePrivateKey, WritePublicKey, Up, keyUnchanged,
                startUnchanged
  <2> QED BY <2>1 DEF Typed, DownIsQuiet, LocksAreHeld
<1>3. CASE KeyWriteFails \/ Crash \/ ReloadPanics
  <2>1. Dies
    BY <1>3 DEF KeyWriteFails, Crash, ReloadPanics, DiesWhileUp
  <2>2. writing' = {} /\ \A r \in Requests : request'[r].pc = "idle"
    BY <2>1 DEF Dies, Idle
  <2> QED BY <2>2 DEF LocksAreHeld
<1>4. CASE ServeTLS
  <2>1. UNCHANGED <<request, writing, enabledTwice>> /\ tls = "starting"
    BY <1>4 DEF ServeTLS, handlerUnchanged
  <2> QED BY <2>1 DEF LocksAreHeld
<1>5. CASE BeginReload \/ EndReload \/ ReloadLosesUsers \/ IssueToken \/ RemoveSetupCode
  <2>1. UNCHANGED <<request, writing, enabledTwice, tls>>
    BY <1>5 DEF BeginReload, EndReload, ReloadLosesUsers, reloadUnchanged, IssueToken,
                RemoveSetupCode
  <2> QED BY <2>1 DEF LocksAreHeld
<1>6. CASE UNCHANGED vars
  BY <1>6 DEF vars, LocksAreHeld
<1> QED BY <1>1, <1>2, <1>3, <1>4, <1>5, <1>6 DEF Next, Reload

\* Nobody holds or waits at the start.
LEMMA InitLocks == Init => LocksAreHeld
BY DEF Init, Idle, LocksAreHeld

\* A request waits neither for a mutex that nobody is about to release nor, unless two
\* requests enable TLS at once, for a receiver that is gone (config.go:16, server.go:64).
THEOREM NoRequestWaitsInVain == Spec => []NoRequestIsStuck
<1>1. LocksAreHeld => NoRequestIsStuck
  BY DEF LocksAreHeld, NoRequestIsStuck
<1> QED BY <1>1, AlwaysTyped, InitLocks, NextLocks, PTL DEF Spec

-----------------------------------------------------------------------------
(* A closed server has an administrator.                                   *)

\* The only step that completes the setup while the code is in force has saved the
\* administrator first; every other one hands on what was there.
LEMMA RequestKeepsSetup ==
    ASSUME Typed, CompletedHasAdmin, NEW r \in Requests, Arrive(r) \/ Proceed(r),
           setupCode', ~adminSaved'
    PROVE  /\ setupCode /\ ~adminSaved
           /\ ~config'.completed
           /\ file' \in Config => ~file'.completed
           /\ UNCHANGED loaded
<1>0. config \in Config /\ setupCode \in BOOLEAN /\ adminSaved \in BOOLEAN
  BY DEF Typed, TypeOK
<1> DEFINE Kept == /\ setupCode /\ ~adminSaved
                   /\ ~config'.completed
                   /\ file' \in Config => ~file'.completed
                   /\ UNCHANGED loaded
<1> SUFFICES Kept
  OBVIOUS
<1>1. ASSUME UNCHANGED <<setupCode, adminSaved, file, loaded>>,
             config'.completed = config.completed
      PROVE  Kept
  BY <1>1 DEF CompletedHasAdmin
<1>2. CASE ContextPost(r)
  <2>1. UNCHANGED <<setupCode, adminSaved, file, loaded>>
    BY <1>2 DEF ContextPost, setupUnchanged, accounts
  <2>2. setupCode /\ ~adminSaved /\ ~config.completed
    BY <2>1 DEF CompletedHasAdmin
  <2>3. config' = [config EXCEPT !.completed = FALSE]
    BY <1>2, <2>2 DEF ContextPost
  <2>4. ~config'.completed
    BY <1>0, <2>3 DEF Config
  <2> QED BY <2>1, <2>2, <2>4 DEF CompletedHasAdmin
<1>3. ASSUME NEW hostname \in Hostnames, NEW enable \in BOOLEAN,
             GeneralSetup(r, hostname, enable)
      PROVE  Kept
  <2>1. UNCHANGED <<setupCode, adminSaved, file, loaded>>
    BY <1>3 DEF GeneralSetup, handlerUnchanged, accounts
  <2>2. \/ config' = [config EXCEPT !.hostname = hostname]
        \/ config' = [config EXCEPT !.hostname = hostname, !.enableTLS = enable]
    BY <1>3 DEF GeneralSetup
  <2>3. config'.completed = config.completed
    BY <1>0, <2>2 DEF Config
  <2> QED BY <1>1, <2>1, <2>3
<1>4. ASSUME NEW enabled \in BOOLEAN, NEW regenerate \in BOOLEAN,
             ScimSetup(r, enabled, regenerate)
      PROVE  Kept
  <2>1. UNCHANGED <<setupCode, adminSaved, file, loaded>>
    BY <1>4 DEF ScimSetup, handlerUnchanged, accounts
  <2>2. \E token \in Tokens \cup {NoToken} :
           config' = [config EXCEPT !.scim = enabled, !.token = token]
    BY <1>4 DEF ScimSetup
  <2>3. config'.completed = config.completed
    BY <1>0, <2>2 DEF Config
  <2> QED BY <1>1, <2>1, <2>3
<1>5. CASE BeginSave(r)
  <2>1. UNCHANGED <<setupCode, adminSaved, config, loaded>> /\ file' = Torn
    BY <1>5 DEF BeginSave, saveUnchanged, accounts
  <2>2. Torn \notin Config
    BY Sentinels
  <2> QED BY <2>1, <2>2 DEF CompletedHasAdmin
<1>6. CASE EndSave(r)
  <2>1. UNCHANGED <<setupCode, adminSaved, config, loaded>>
    BY <1>6 DEF EndSave, saveUnchanged, accounts
  <2>2. file' = request[r].image
    BY <1>6 DEF EndSave
  <2> QED BY <2>1, <2>2 DEF CompletedHasAdmin
<1>7. ASSUME SaveReturnsError(r), file' \in {file, request[r].image} PROVE Kept
  <2>1. UNCHANGED <<setupCode, adminSaved, loaded>>
    BY <1>7 DEF SaveReturnsError, saveUnchanged, accounts
  <2>2. setupCode /\ ~adminSaved /\ ~config.completed
    BY <2>1 DEF CompletedHasAdmin
  <2>3. config' \in {config, [config EXCEPT !.completed = FALSE]}
    BY <1>7 DEF SaveReturnsError
  <2>4. ~config'.completed
    BY <1>0, <2>2, <2>3 DEF Config
  <2> QED BY <1>7, <2>1, <2>2, <2>4 DEF CompletedHasAdmin
<1>8. CASE SaveRefused(r)
  BY <1>7, <1>8 DEF SaveRefused
<1>9. CASE SaveFails(r)
  BY <1>7, <1>9 DEF SaveFails
<1>10. CASE SetupRefused(r) \/ AdminAppended(r) \/ SaveUsersFails(r)
  <2>1. UNCHANGED <<setupCode, adminSaved, file, loaded, config>>
    BY <1>10 DEF SetupRefused, AdminAppended, SaveUsersFails, setupUnchanged, accounts
  <2> QED BY <1>1, <2>1
<1>11. ASSUME NEW hostname \in Hostnames, SetupGranted(r, hostname) PROVE Kept
  <2>1. UNCHANGED <<setupCode, adminSaved, file, loaded, config>>
    BY <1>11 DEF SetupGranted, setupUnchanged, accounts
  <2> QED BY <1>1, <2>1
<1>12. CASE SetupChanges(r)
  BY <1>12 DEF SetupChanges, SaveUsers
<1>13. CASE SignalTaken(r)
  <2>1. UNCHANGED <<setupCode, adminSaved, file, loaded>>
    BY <1>13 DEF SignalTaken, handlerUnchanged, accounts
  <2>2. config' = [config EXCEPT !.enableTLS = TRUE]
    BY <1>13 DEF SignalTaken
  <2>3. config'.completed = config.completed
    BY <1>0, <2>2 DEF Config
  <2> QED BY <1>1, <2>1, <2>3
<1> HIDE DEF Kept
<1> QED
  BY <1>2, <1>3, <1>4, <1>5, <1>6, <1>8, <1>9, <1>10, <1>11, <1>12, <1>13
  DEF Arrive, Proceed, SaveStep, SetupStep

\* Every step keeps the administrator of a completed setup in users.json.
LEMMA NextSetup == Typed /\ CompletedHasAdmin /\ [Next]_vars => CompletedHasAdmin'
<1> SUFFICES ASSUME Typed, CompletedHasAdmin, [Next]_vars, setupCode', ~adminSaved'
             PROVE  /\ ~config'.completed
                    /\ file' \in Config => ~file'.completed
                    /\ loaded' \in Reloaded => ~loaded'.completed
                    /\ \A p \in Requests :
                         request'[p].image \in Config => ~request'[p].image.completed
  BY DEF CompletedHasAdmin
<1> DEFINE Closed == /\ ~config'.completed
                     /\ file' \in Config => ~file'.completed
                     /\ loaded' \in Reloaded => ~loaded'.completed
                     /\ \A p \in Requests :
                          request'[p].image \in Config => ~request'[p].image.completed
<1> SUFFICES Closed
  OBVIOUS
<1>0. config \in Config /\ Nothing \notin Config /\ Nothing \notin Reloaded
  BY Sentinels DEF Typed, TypeOK
<1>1. ASSUME NEW r \in Requests, Arrive(r) \/ Proceed(r) PROVE Closed
  <2>1. /\ setupCode /\ ~adminSaved /\ ~config'.completed
        /\ file' \in Config => ~file'.completed
        /\ UNCHANGED loaded
    BY <1>1, RequestKeepsSetup
  <2>2. /\ ~config.completed
        /\ loaded \in Reloaded => ~loaded.completed
        /\ \A p \in Requests : request[p].image \in Config => ~request[p].image.completed
    BY <2>1 DEF CompletedHasAdmin
  <2>3. ASSUME NEW p \in Requests, request'[p].image \in Config
        PROVE  ~request'[p].image.completed
    <3>1. CASE p = r
      <4>1. request'[r].image \in {config, request[r].image, Nothing}
        BY <1>1, RequestStep
      <4> QED BY <1>0, <2>2, <2>3, <3>1, <4>1
    <3>2. CASE p # r
      BY <1>1, <2>2, <2>3, <3>2, RequestStep
    <3> QED BY <3>1, <3>2
  <2> QED BY <2>1, <2>2, <2>3
<1>2. ASSUME UNCHANGED <<setupCode, adminSaved, file, request>>, ~config'.completed,
             loaded' \in Reloaded => ~loaded'.completed
      PROVE  Closed
  BY <1>2 DEF CompletedHasAdmin
<1>3. ASSUME UNCHANGED <<setupCode, adminSaved>>
      PROVE  /\ ~config.completed
             /\ (file \in Config => ~file.completed)
             /\ loaded \in Reloaded => ~loaded.completed
  BY <1>3 DEF CompletedHasAdmin
<1>4. ASSUME NEW c \in Config, Start(c) PROVE Closed
  <2>1. UNCHANGED <<setupCode, adminSaved, file, request, loaded>> /\ config' = c
    BY <1>4 DEF Start, startUnchanged
  <2>2. ~c.completed
    <3>1. CASE c = file
      BY <1>3, <2>1, <3>1
    <3>2. CASE c = EmptyContext(kids')
      BY <3>2 DEF EmptyContext
    <3> QED BY <1>4, <3>1, <3>2 DEF Start, ReadsConfig
  <2> QED BY <1>2, <1>3, <2>1, <2>2
<1>5. CASE WritePrivateKey \/ WritePublicKey
  <2>1. UNCHANGED <<setupCode, adminSaved, file, request, loaded, config>>
    BY <1>5 DEF WritePrivateKey, WritePublicKey, keyUnchanged, startUnchanged
  <2> QED BY <1>2, <1>3, <2>1
<1>6. CASE KeyWriteFails \/ Crash \/ ReloadPanics
  <2>1. Dies
    BY <1>6 DEF KeyWriteFails, Crash, ReloadPanics, DiesWhileUp
  <2>2. UNCHANGED <<setupCode, adminSaved, file>> /\ config' = EmptyContext(0)
        /\ loaded' = Nothing /\ request' = [r \in Requests |-> Idle]
    BY <2>1 DEF Dies
  <2>3. ~config'.completed
    BY <2>2 DEF EmptyContext
  <2>4. \A p \in Requests : request'[p].image \notin Config
    BY <1>0, <2>2 DEF Idle
  <2> QED BY <1>0, <1>3, <2>2, <2>3, <2>4
<1>7. ASSUME NEW c \in Reloaded, ReadsFile(c), UNCHANGED <<setupCode, adminSaved>>
      PROVE  ~c.completed
  <2>1. CASE c = [completed |-> FALSE, hostname |-> NoName]
    BY <2>1
  <2>2. CASE file \notin {Missing, Torn} /\ c = [completed |-> file.completed,
                                                 hostname |-> file.hostname]
    BY <1>3, <1>7, <2>2 DEF Typed, TypeOK
  <2> QED BY <1>7, <2>1, <2>2 DEF ReadsFile
<1>8. ASSUME NEW c \in Reloaded, TakesOver(c), ~c.completed PROVE ~config'.completed
  BY <1>0, <1>8 DEF TakesOver, Config, Reloaded
<1>9. CASE BeginReload
  <2>1. UNCHANGED <<setupCode, adminSaved, file, request, config>>
    BY <1>9 DEF BeginReload, reloadUnchanged
  <2>2. ~loaded'.completed
    BY <1>7, <1>9, <2>1 DEF BeginReload
  <2> QED BY <1>2, <1>3, <2>1, <2>2
<1>10. CASE EndReload
  <2>1. UNCHANGED <<setupCode, adminSaved, file, request>> /\ loaded' = Nothing
    BY <1>10 DEF EndReload, reloadUnchanged
  <2>2. loaded \in Reloaded
    BY <1>10 DEF EndReload, Typed, TypeOK
  <2>3. ~config'.completed
    BY <1>3, <1>8, <1>10, <2>1, <2>2 DEF EndReload
  <2> QED BY <1>0, <1>2, <2>1, <2>3
<1>11. CASE ReloadLosesUsers
  <2>1. UNCHANGED <<setupCode, adminSaved, file, request, loaded>>
    BY <1>11 DEF ReloadLosesUsers, reloadUnchanged
  <2>2. ~config'.completed
    BY <1>7, <1>8, <1>11, <2>1 DEF ReloadLosesUsers
  <2> QED BY <1>2, <1>3, <2>1, <2>2
<1>12. CASE ServeTLS \/ IssueToken
  <2>1. UNCHANGED <<setupCode, adminSaved, file, request, config, loaded>>
    BY <1>12 DEF ServeTLS, IssueToken, handlerUnchanged, accounts
  <2> QED BY <1>2, <1>3, <2>1
<1>13. CASE RemoveSetupCode
  BY <1>13 DEF RemoveSetupCode
<1>14. CASE UNCHANGED vars
  <2>1. UNCHANGED <<setupCode, adminSaved, file, request, config, loaded>>
    BY <1>14 DEF vars, accounts
  <2> QED BY <1>2, <1>3, <2>1
<1> HIDE DEF Closed
<1> QED
  BY <1>1, <1>4, <1>5, <1>6, <1>9, <1>10, <1>11, <1>12, <1>13, <1>14
  DEF Next, StartStep, Reload

\* Nothing is completed at the start.
LEMMA InitSetup == Init => CompletedHasAdmin
<1> SUFFICES ASSUME Init PROVE CompletedHasAdmin
  OBVIOUS
<1>1. ~config.completed /\ file \notin Config /\ loaded \notin Reloaded
  BY Sentinels DEF Init, EmptyContext
<1>2. \A r \in Requests : request[r].image \notin Config
  BY Sentinels DEF Init, Idle
<1> QED BY <1>1, <1>2 DEF CompletedHasAdmin

\* Whatever fails or crashes on the way, and whatever is reloaded, the server closes
\* its setup only when the administrator is in users.json (setup.go:83-97).
THEOREM ClosedServerHasAdmin == Spec => []CompletedHasAdmin
BY AlwaysTyped, InitSetup, NextSetup, PTL DEF Spec

-----------------------------------------------------------------------------
(* What the steps do to config.json, the Context and the requests.         *)

\* Common to the steps of requests.
Served(r) ==
    /\ Up /\ UNCHANGED <<serverVars, setupCode, loaded, issued>>
    /\ config'.kid = config.kid
    /\ overlapped => overlapped'
    /\ \A p \in Requests : p # r => request'[p] = request[p]

\* SaveConfig has the mutex.
Begins(r) ==
    /\ request[r].pc = "save" /\ request'[r].pc = "write" /\ request'[r].image = config
    /\ writing = {} /\ writing' = {r}
    /\ file' = Torn
    /\ NoteOverlap
    /\ UNCHANGED <<config, saveFailed, setupAnswered, setupFailed>>

\* SaveConfig is done.
Ends(r) ==
    /\ request[r].pc = "write" /\ request'[r].pc = "idle" /\ request'[r].image = Nothing
    /\ writing' = writing \ {r}
    /\ file' = request[r].image
    /\ NoteOverlap
    /\ ~saveFailed'
    /\ UNCHANGED <<config, setupFailed>>

\* SaveConfig has failed.
Fails(r) ==
    /\ request[r].pc \in {"save", "write"} /\ (request[r].pc = "save" => writing = {})
    /\ request'[r].pc = "idle" /\ request'[r].image = Nothing
    /\ writing' = writing \ {r}
    /\ file' \in {file, request[r].image} /\ (request[r].pc = "save" => file' = file)
    /\ NoteOverlap
    /\ saveFailed'
    /\ setupFailed => setupFailed'
    /\ config' = config \/ setupFailed'
    /\ UNCHANGED setupAnswered

\* The Context is changed, and will be saved.
Changes(r) ==
    /\ request[r].pc \in {"idle", "saveUsers", "enable"}
    /\ request'[r].pc \in {"save", "enable"} /\ request'[r].image = request[r].image
    /\ \/ config'.completed
       \/ request[r].pc = "enable" /\ config'.completed = config.completed
    /\ NoteOverlap
    /\ UNCHANGED <<file, writing, saveFailed, setupAnswered, setupFailed>>

\* Nothing is to be saved.
Waits(r) ==
    /\ {request[r].pc, request'[r].pc} \subseteq {"idle", "verify", "hash", "saveUsers"}
    /\ request'[r].image \in {request[r].image, Nothing}
    /\ \/ config' = config
       \/ (config' = [config EXCEPT !.completed = TRUE] /\ ~setupCode /\ NoteOverlap)
    /\ UNCHANGED <<file, writing, saveFailed, setupAnswered, setupFailed>>

\* A step of a save makes the copy, writes it or fails.
LEMMA SaveKinds ==
    ASSUME Typed, NEW r \in Requests, SaveStep(r)
    PROVE  Served(r) /\ (Begins(r) \/ Ends(r) \/ Fails(r))
<1>0. /\ request \in [Requests -> Request] /\ config \in Config
      /\ Up /\ UNCHANGED serverVars
      /\ \A p \in Requests : p # r => request'[p] = request[p]
  BY ServedWhenUp, RequestStep DEF Typed, TypeOK, Proceed
<1>1. CASE BeginSave(r)
  <2>1. UNCHANGED <<setupCode, loaded, issued, config>> /\ NoteOverlap
    BY <1>1 DEF BeginSave, saveUnchanged
  <2>2. Served(r)
    BY <1>0, <2>1 DEF Served, NoteOverlap
  <2>3. request'[r].pc = "write" /\ request'[r].image = config
    <3>1. request' = [request EXCEPT ![r].pc = "write", ![r].image = config]
      BY <1>1 DEF BeginSave, SavedImage
    <3>2. request'[r] = [request[r] EXCEPT !.pc = "write", !.image = config]
      BY <1>0, <3>1
    <3>3. request[r] \in Request
      BY <1>0
    <3> QED BY <3>2, <3>3 DEF Request
  <2>4. Begins(r)
    BY <1>1, <2>3 DEF Begins, BeginSave, Lock
  <2> QED BY <2>2, <2>4
<1>2. CASE EndSave(r)
  <2>1. UNCHANGED <<setupCode, loaded, issued, config>> /\ NoteOverlap
    BY <1>2 DEF EndSave, saveUnchanged
  <2>2. Served(r)
    BY <1>0, <2>1 DEF Served, NoteOverlap
  <2>3. request'[r].pc = "idle" /\ request'[r].image = Nothing
    BY <1>0, <1>2, ReturnMoves DEF EndSave, Moved
  <2>4. Ends(r)
    BY <1>2, <2>3 DEF Ends, EndSave, Unlock
  <2> QED BY <2>2, <2>4
<1>3. ASSUME SaveReturnsError(r), request[r].pc \in {"save", "write"},
             writing' = writing \ {r}, request[r].pc = "save" => writing = {},
             file' \in {file, request[r].image}, request[r].pc = "save" => file' = file
      PROVE  Served(r) /\ Fails(r)
  <2>1. UNCHANGED <<setupCode, loaded, issued, setupAnswered>> /\ NoteOverlap /\ saveFailed'
    BY <1>3 DEF SaveReturnsError, saveUnchanged
  <2>2. config' = config \/ (config' = [config EXCEPT !.completed = FALSE] /\ setupFailed')
    BY <1>3 DEF SaveReturnsError
  <2>3. config'.kid = config.kid
    BY <1>0, <2>2 DEF Config
  <2>4. Served(r)
    BY <1>0, <2>1, <2>3 DEF Served, NoteOverlap
  <2>5. request'[r].pc = "idle" /\ request'[r].image = Nothing
    BY <1>0, <1>3, ReturnMoves DEF SaveReturnsError, Moved
  <2>6. setupFailed => setupFailed'
    <3>1. setupFailed' = (setupFailed \/ request[r].setup)
      BY <1>3 DEF SaveReturnsError
    <3> QED BY <3>1
  <2>7. Fails(r)
    BY <1>3, <2>1, <2>2, <2>5, <2>6 DEF Fails
  <2> QED BY <2>4, <2>7
<1>4. CASE SaveRefused(r)
  <2>1. writing' = writing \ {r} /\ UNCHANGED file
    BY <1>4 DEF SaveRefused
  <2>2. SaveReturnsError(r) /\ request[r].pc = "save" /\ writing = {}
    BY <1>4 DEF SaveRefused
  <2> QED BY <1>3, <2>1, <2>2
<1>5. CASE SaveFails(r)
  <2>1. writing' = writing \ {r}
    BY <1>5 DEF SaveFails, Unlock
  <2>2. SaveReturnsError(r) /\ request[r].pc = "write" /\ file' \in {file, request[r].image}
    BY <1>5 DEF SaveFails
  <2> QED BY <1>3, <2>1, <2>2
<1> QED BY <1>1, <1>2, <1>4, <1>5 DEF SaveStep

\* A step of the first setup changes the Context or waits.
LEMMA SetupKinds ==
    ASSUME Typed, NEW r \in Requests, SetupStep(r) \/ ContextPost(r)
    PROVE  Served(r) /\ (Changes(r) \/ Waits(r))
<1>0. /\ request \in [Requests -> Request] /\ config \in Config
      /\ setupCode \in BOOLEAN
      /\ Up /\ UNCHANGED serverVars
      /\ \A p \in Requests : p # r => request'[p] = request[p]
  BY ServedWhenUp, RequestStep DEF Typed, TypeOK, Proceed, Arrive
<1>1. UNCHANGED <<setupCode, loaded, issued, file, writing, saveFailed>>
  BY DEF SetupStep, ContextPost, SetupRefused, AdminAppended, SetupChanges, SaveUsersFails,
         SetupGranted, setupUnchanged
<1>2. UNCHANGED <<setupAnswered, setupFailed>> /\ (overlapped => overlapped')
  <2>1. overlapped' = overlapped \/ overlapped' = (overlapped \/ loaded # Nothing)
    BY DEF SetupStep, ContextPost, SetupRefused, AdminAppended, SetupChanges,
           SaveUsersFails, SetupGranted, NoteOverlap
  <2>2. UNCHANGED <<setupAnswered, setupFailed>>
    BY DEF SetupStep, ContextPost, SetupRefused, AdminAppended, SetupChanges,
           SaveUsersFails, SetupGranted, setupUnchanged
  <2>3. overlapped => overlapped'
    BY <2>1
  <2> QED BY <2>2, <2>3
<1>3. ASSUME config'.kid = config.kid, Changes(r) \/ Waits(r)
      PROVE  Served(r) /\ (Changes(r) \/ Waits(r))
  BY <1>0, <1>1, <1>2, <1>3 DEF Served
<1> DEFINE Quiet == {"idle", "verify", "hash", "saveUsers"}
<1>4. ASSUME NEW pc \in Quiet, Goto(r, pc), request[r].pc \in Quiet
      PROVE  {request[r].pc, request'[r].pc} \subseteq Quiet /\ request'[r].image = request[r].image
  BY <1>0, <1>4, GotoMoves DEF Moved
<1>5. ASSUME Return(r), request[r].pc \in Quiet
      PROVE  {request[r].pc, request'[r].pc} \subseteq Quiet /\ request'[r].image = Nothing
  BY <1>0, <1>5, ReturnMoves DEF Moved
<1>6. CASE ContextPost(r)
  <2>1. request[r].pc = "idle"
    BY <1>6 DEF ContextPost, CanArrive
  <2>2. {request[r].pc, request'[r].pc} \subseteq Quiet /\ request'[r].image = request[r].image
    BY <1>4, <1>6, <2>1 DEF ContextPost
  <2>3. CASE config.completed \/ setupCode
    <3>1. (config.completed \/ ~setupCode) = config.completed
      BY <1>0, <2>3 DEF Config
    <3>2. config' = [config EXCEPT !.completed = config.completed]
      BY <1>6, <3>1 DEF ContextPost
    <3>3. config' = config
      BY <1>0, <3>2 DEF Config
    <3>4. Waits(r)
      BY <1>1, <1>2, <2>2, <3>3 DEF Waits
    <3> QED BY <1>3, <3>3, <3>4
  <2>4. CASE ~config.completed /\ ~setupCode
    <3>1. (config.completed \/ ~setupCode) = TRUE
      BY <2>4
    <3>2. config' = [config EXCEPT !.completed = TRUE] /\ NoteOverlap
      BY <1>6, <3>1 DEF ContextPost
    <3>3. config'.kid = config.kid
      BY <1>0, <3>2 DEF Config
    <3>4. Waits(r)
      BY <1>1, <1>2, <2>2, <2>4, <3>2 DEF Waits
    <3> QED BY <1>3, <3>3, <3>4
  <2> QED BY <2>3, <2>4
<1>7. CASE SetupRefused(r) \/ SaveUsersFails(r)
  <2>1. Return(r) /\ request[r].pc \in Quiet /\ config' = config
    BY <1>7 DEF SetupRefused, SaveUsersFails
  <2>2. Waits(r)
    BY <1>1, <1>2, <1>5, <2>1 DEF Waits
  <2> QED BY <1>3, <2>1, <2>2
<1>8. CASE AdminAppended(r)
  <2>1. Goto(r, "saveUsers") /\ request[r].pc \in Quiet /\ config' = config
    BY <1>8 DEF AdminAppended
  <2>2. Waits(r)
    BY <1>1, <1>2, <1>4, <2>1 DEF Waits
  <2> QED BY <1>3, <2>1, <2>2
<1>9. ASSUME NEW hostname \in Hostnames, SetupGranted(r, hostname)
      PROVE  Served(r) /\ (Changes(r) \/ Waits(r))
  <2> DEFINE pc == IF admin THEN "saveUsers" ELSE "hash"
             q == [Idle EXCEPT !.hostname = hostname, !.setup = TRUE, !.pc = pc]
  <2>1. request' = [request EXCEPT ![r] = q] /\ request[r].pc = "verify" /\ config' = config
    BY <1>9 DEF SetupGranted
  <2>2. q.pc \in Quiet /\ q.image = Nothing
    BY DEF Idle
  <2> HIDE DEF q
  <2>3. request'[r] = q
    BY <1>0, <2>1
  <2>4. Waits(r)
    BY <1>1, <1>2, <2>1, <2>2, <2>3 DEF Waits
  <2> QED BY <1>3, <2>1, <2>4
<1>10. CASE SetupChanges(r)
  <2>1. /\ config' = [config EXCEPT !.completed = TRUE, !.hostname = request[r].hostname]
        /\ Goto(r, "save") /\ request[r].pc = "saveUsers" /\ NoteOverlap
    BY <1>10 DEF SetupChanges
  <2>2. config'.kid = config.kid /\ config'.completed
    BY <1>0, <2>1 DEF Config
  <2>3. request'[r].pc = "save" /\ request'[r].image = request[r].image
    BY <1>0, <2>1, GotoMoves DEF Moved
  <2>4. Changes(r)
    BY <1>1, <1>2, <2>1, <2>2, <2>3 DEF Changes
  <2> QED BY <1>3, <2>2, <2>4
<1> HIDE DEF Quiet
<1> QED BY <1>6, <1>7, <1>8, <1>9, <1>10 DEF SetupStep

\* So does a step of the setup pages.
LEMMA HandlerKinds ==
    ASSUME Typed, NEW r \in Requests,
           \/ \E hostname \in Hostnames, enable \in BOOLEAN : GeneralSetup(r, hostname, enable)
           \/ \E enabled, regenerate \in BOOLEAN : ScimSetup(r, enabled, regenerate)
           \/ SignalTaken(r)
    PROVE  Served(r) /\ (Changes(r) \/ Waits(r))
<1>0. /\ request \in [Requests -> Request] /\ config \in Config
      /\ Up /\ UNCHANGED serverVars
      /\ \A p \in Requests : p # r => request'[p] = request[p]
  BY ServedWhenUp, RequestStep DEF Typed, TypeOK, Proceed, Arrive
<1>1. /\ UNCHANGED <<setupCode, loaded, issued, file, writing, saveFailed>>
      /\ UNCHANGED <<setupAnswered, setupFailed>> /\ NoteOverlap
  BY DEF GeneralSetup, ScimSetup, SignalTaken, handlerUnchanged, history
<1>2. overlapped => overlapped'
  BY <1>1 DEF NoteOverlap
<1>3. ASSUME NEW pc \in {"save", "enable"}, Goto(r, pc), config'.kid = config.kid,
             request[r].pc \in {"idle", "enable"},
             \/ config'.completed
             \/ request[r].pc = "enable" /\ config'.completed = config.completed
      PROVE  Served(r) /\ Changes(r)
  <2>1. request'[r].pc = pc /\ request'[r].image = request[r].image
    BY <1>0, <1>3, GotoMoves DEF Moved
  <2>2. Changes(r)
    BY <1>1, <1>3, <2>1 DEF Changes
  <2> QED BY <1>0, <1>1, <1>2, <1>3, <2>2 DEF Served
<1>4. ASSUME NEW hostname \in Hostnames, NEW enable \in BOOLEAN,
             GeneralSetup(r, hostname, enable)
      PROVE  Served(r) /\ Changes(r)
  <2>1. config.completed /\ request[r].pc = "idle"
    BY <1>4 DEF GeneralSetup, Admitted, CanArrive
  <2>2. \/ config' = [config EXCEPT !.hostname = hostname]
        \/ config' = [config EXCEPT !.hostname = hostname, !.enableTLS = enable]
    BY <1>4 DEF GeneralSetup
  <2>3. config'.kid = config.kid /\ config'.completed
    BY <1>0, <2>1, <2>2 DEF Config
  <2>4. Goto(r, "save") \/ Goto(r, "enable")
    BY <1>4 DEF GeneralSetup
  <2> QED BY <1>3, <2>1, <2>3, <2>4
<1>5. ASSUME NEW enabled \in BOOLEAN, NEW regenerate \in BOOLEAN,
             ScimSetup(r, enabled, regenerate)
      PROVE  Served(r) /\ (Changes(r) \/ Waits(r))
  <2>1. config.completed /\ request[r].pc = "idle"
    BY <1>5 DEF ScimSetup, Admitted, CanArrive
  <2>2. PICK token \in Tokens \cup {NoToken} :
          config' = [config EXCEPT !.scim = enabled, !.token = token]
    BY <1>5 DEF ScimSetup
  <2>3. config'.kid = config.kid /\ config'.completed
    BY <1>0, <2>1, <2>2 DEF Config
  <2>4. Goto(r, "save") \/ (config' = config /\ UNCHANGED request)
    <3>1. IF config' # config THEN Goto(r, "save") ELSE UNCHANGED request
      BY <1>5 DEF ScimSetup
    <3> HIDE DEF Goto
    <3> QED BY <3>1
  <2>5. CASE Goto(r, "save")
    BY <1>3, <2>1, <2>3, <2>5
  <2>6. CASE config' = config /\ UNCHANGED request
    <3>1. Waits(r)
      BY <1>1, <2>1, <2>6 DEF Waits
    <3> QED BY <1>0, <1>1, <1>2, <2>3, <3>1 DEF Served
  <2> QED BY <2>4, <2>5, <2>6
<1>6. CASE SignalTaken(r)
  <2>1. config' = [config EXCEPT !.enableTLS = TRUE] /\ Goto(r, "save") /\ request[r].pc = "enable"
    BY <1>6 DEF SignalTaken
  <2>2. config'.kid = config.kid /\ config'.completed = config.completed
    BY <1>0, <2>1 DEF Config
  <2> QED BY <1>3, <2>1, <2>2
<1> QED BY <1>4, <1>5, <1>6

\* A step of a request is of one of these kinds.
LEMMA RequestKinds ==
    ASSUME Typed, NEW r \in Requests, Arrive(r) \/ Proceed(r)
    PROVE  Served(r) /\ (Begins(r) \/ Ends(r) \/ Fails(r) \/ Changes(r) \/ Waits(r))
BY SaveKinds, SetupKinds, HandlerKinds DEF Arrive, Proceed

\* What is left of the server when it dies.
LEMMA DeathStep ==
    ASSUME KeyWriteFails \/ Crash \/ ReloadPanics
    PROVE  /\ phase' = "down" /\ loaded' = Nothing
           /\ \A p \in Requests : request'[p].pc = "idle" /\ request'[p].image = Nothing
           /\ UNCHANGED <<file, overlapped, saveFailed, setupAnswered, setupFailed, issued>>
<1>1. Dies
  BY DEF KeyWriteFails, Crash, ReloadPanics, DiesWhileUp
<1> QED BY <1>1 DEF Dies, Idle, history

\* The steps that leave requests, files and start as they are.
LEMMA OtherStep ==
    ASSUME \/ BeginReload \/ EndReload \/ ReloadLosesUsers
           \/ ServeTLS \/ IssueToken \/ RemoveSetupCode \/ UNCHANGED vars
    PROVE  /\ UNCHANGED <<phase, keyFiles, killed, file, writing, request, saveFailed>>
           /\ UNCHANGED <<setupAnswered, setupFailed>>
<1>1. CASE BeginReload \/ EndReload \/ ReloadLosesUsers
  BY <1>1 DEF BeginReload, EndReload, ReloadLosesUsers, reloadUnchanged, serverVars, history
<1>2. CASE ServeTLS
  BY <1>2 DEF ServeTLS, handlerUnchanged, serverVars, history
<1>3. CASE IssueToken
  BY <1>3 DEF IssueToken, serverVars
<1>4. CASE RemoveSetupCode
  BY <1>4 DEF RemoveSetupCode, serverVars, history
<1>5. CASE UNCHANGED vars
  BY <1>5 DEF vars, serverVars, history
<1> QED BY <1>1, <1>2, <1>3, <1>4, <1>5

\* All steps, as the proofs below distinguish them.
LEMMA Steps ==
    ASSUME [Next]_vars
    PROVE  \/ \E r \in Requests : Arrive(r) \/ Proceed(r)
           \/ \E c \in Config : Start(c)
           \/ WritePrivateKey \/ WritePublicKey
           \/ KeyWriteFails \/ Crash \/ ReloadPanics
           \/ \/ BeginReload \/ EndReload \/ ReloadLosesUsers
              \/ ServeTLS \/ IssueToken \/ RemoveSetupCode \/ UNCHANGED vars
BY DEF Next, StartStep, Reload

-----------------------------------------------------------------------------
(* A reload ends the server only over a torn file.                         *)

LEMMA NextTorn == Typed /\ TornFiles /\ [Next]_vars => TornFiles'
<1> SUFFICES ASSUME Typed, TornFiles, [Next]_vars PROVE TornFiles'
  OBVIOUS
<1>0. Torn \notin Config
  BY Sentinels
<1>1. ASSUME NEW r \in Requests, Arrive(r) \/ Proceed(r) PROVE TornFiles'
  <2>1. Served(r) /\ (Begins(r) \/ Ends(r) \/ Fails(r) \/ Changes(r) \/ Waits(r))
    BY <1>1, RequestKinds
  <2>2. phase = "up" /\ phase' = "up"
    BY <2>1 DEF Served, Up, serverVars
  <2>3. \A p \in Requests : p # r => request'[p] = request[p]
    BY <2>1 DEF Served
  <2>4. \A p \in Requests : request[p].pc = "write" => writing = {p}
    BY DEF TornFiles
  <2>5. file = Torn => writing # {} \/ saveFailed
    BY <2>2 DEF TornFiles, Up
  <2>6. CASE Begins(r)
    <3>1. \A p \in Requests : request'[p].pc = "write" => writing' = {p}
      BY <2>3, <2>4, <2>6 DEF Begins
    <3>2. writing' # {}
      BY <2>6 DEF Begins
    <3> QED BY <2>2, <3>1, <3>2 DEF TornFiles, Up
  <2>7. CASE Ends(r)
    <3>1. file' \in Config
      BY <2>7 DEF Ends, Typed, CopiesAreMade
    <3>2. \A p \in Requests : request'[p].pc # "write"
      BY <2>3, <2>4, <2>7 DEF Ends
    <3> QED BY <1>0, <2>2, <3>1, <3>2 DEF TornFiles, Up
  <2>8. CASE Fails(r)
    <3>1. saveFailed' /\ writing' = writing \ {r} /\ request'[r].pc = "idle"
      BY <2>8 DEF Fails
    <3>2. \A p \in Requests : request'[p].pc = "write" => writing' = {p}
      BY <2>3, <2>4, <3>1
    <3> QED BY <2>2, <3>1, <3>2 DEF TornFiles, Up
  <2>9. CASE Changes(r) \/ Waits(r)
    <3>1. UNCHANGED <<file, writing, saveFailed>> /\ request'[r].pc # "write"
      BY <2>9 DEF Changes, Waits
    <3>2. \A p \in Requests : request'[p].pc = "write" => writing' = {p}
      BY <2>3, <2>4, <3>1
    <3> QED BY <2>2, <2>5, <3>1, <3>2 DEF TornFiles, Up
  <2> QED BY <2>1, <2>6, <2>7, <2>8, <2>9
<1>2. ASSUME NEW c \in Config, Start(c) PROVE TornFiles'
  <2>1. phase' \in {"private", "up"} /\ file # Torn /\ UNCHANGED <<file, request>>
    BY <1>2, Sentinels DEF Start, ReadsConfig, startUnchanged
  <2>2. \A p \in Requests : request'[p].pc # "write"
    BY <1>2, <2>1 DEF Start, Typed, DownIsQuiet, Up
  <2> QED BY <2>1, <2>2 DEF TornFiles
<1>3. CASE WritePrivateKey \/ WritePublicKey
  <2>1. phase' \in {"public", "up"} /\ file # Torn /\ UNCHANGED <<file, request>> /\ ~Up
    BY <1>3 DEF WritePrivateKey, WritePublicKey, TornFiles, keyUnchanged, startUnchanged, Up
  <2>2. \A p \in Requests : request'[p].pc # "write"
    BY <2>1 DEF Typed, DownIsQuiet
  <2> QED BY <2>1, <2>2 DEF TornFiles
<1>4. CASE KeyWriteFails \/ Crash \/ ReloadPanics
  <2>1. killed' \/ file = Torn
    BY <1>4 DEF KeyWriteFails, Crash, ReloadPanics, ReloadedIsNil
  <2> QED BY <1>4, <2>1, DeathStep DEF TornFiles, Up
<1>5. CASE \/ BeginReload \/ EndReload \/ ReloadLosesUsers
           \/ ServeTLS \/ IssueToken \/ RemoveSetupCode \/ UNCHANGED vars
  BY <1>5, OtherStep DEF TornFiles, Up
<1> QED BY <1>1, <1>2, <1>3, <1>4, <1>5, Steps

\* No file is in part at the start.
LEMMA InitTorn == Init => TornFiles
BY DEF Init, Idle, TornFiles, Up

\* TornFiles holds in every reachable state.
LEMMA AlwaysTorn == Spec => []TornFiles
BY AlwaysTyped, InitTorn, NextTorn, PTL DEF Spec

\* However reloads, failed writes and crashes are mixed, the server is ended by a reload
\* only over a config.json that is written at that moment or could not be (signals.go:29-33).
THEOREM ReloadsKeepServing == Spec => []ReloadKeepsServing
<1>1. TornFiles => ReloadKeepsServing
  BY DEF TornFiles, ReloadKeepsServing
<1> QED BY <1>1, AlwaysTorn, PTL

-----------------------------------------------------------------------------
(* What was issued is accepted after a restart.                            *)

\* A reload keeps the key id, and with it all that is not in the file it reads.
LEMMA ReloadStep ==
    ASSUME Typed, BeginReload \/ EndReload \/ ReloadLosesUsers
    PROVE  /\ Up /\ config'.kid = config.kid /\ UNCHANGED issued
           /\ config' = config \/ \E c \in Reloaded : TakesOver(c)
<1>0. config \in Config
  BY DEF Typed, TypeOK
<1>1. Up /\ UNCHANGED issued
  BY DEF BeginReload, EndReload, ReloadLosesUsers, CanReload, reloadUnchanged, history
<1>2. config' = config \/ \E c \in Reloaded : TakesOver(c)
  <2>1. CASE EndReload
    BY <2>1 DEF EndReload, Typed, TypeOK
  <2> QED BY <2>1 DEF BeginReload, ReloadLosesUsers
<1>3. ASSUME NEW c \in Reloaded, TakesOver(c) PROVE config'.kid = config.kid
  BY <1>0, <1>3 DEF TakesOver, Config
<1> QED BY <1>1, <1>2, <1>3

\* The ids, of the file, the copies and the tokens, from those of the state before.
LEMMA IdsStay ==
    ASSUME Typed, IdsAreKept, Up, UNCHANGED <<phase, keyFiles, issued>>,
           config'.kid = config.kid,
           file' \in Config => file'.kid = config.kid,
           file' = Missing => file = Missing,
           \A r \in Requests :
              request'[r].image \in Config => request'[r].image.kid = config.kid
    PROVE  IdsAreKept'
<1>1. \A token \in issued : token.key = privatePem /\ token.kid = config.kid
  BY DEF IdsAreKept
<1>2. issued # {} => file # Missing /\ KeysUsable
  BY DEF IdsAreKept
<1>3. UNCHANGED KeysUsable
  BY DEF KeysUsable, keyFiles
<1> QED BY <1>1, <1>2, <1>3 DEF IdsAreKept, Up, keyFiles

\* Every step keeps the id of the keys and the keys that were used.
LEMMA NextIds == Typed /\ IdsAreKept /\ [Next]_vars => IdsAreKept'
<1> SUFFICES ASSUME Typed, IdsAreKept, [Next]_vars PROVE IdsAreKept'
  OBVIOUS
<1>0. /\ {Torn, Missing, Nothing} \cap Config = {} /\ Missing # Torn
      /\ \A r \in Requests : request[r].image \in Config => request[r].image.kid = config.kid
      /\ config \in Config
  BY Sentinels DEF IdsAreKept, Typed, TypeOK
<1>1. ASSUME NEW r \in Requests, Arrive(r) \/ Proceed(r) PROVE IdsAreKept'
  <2>1. Served(r) /\ (Begins(r) \/ Ends(r) \/ Fails(r) \/ Changes(r) \/ Waits(r))
    BY <1>1, RequestKinds
  <2>2. /\ Up /\ UNCHANGED <<phase, keyFiles, issued>> /\ config'.kid = config.kid
        /\ \A p \in Requests : p # r => request'[p] = request[p]
    BY <2>1 DEF Served, serverVars
  <2>3. file \in Config => file.kid = config.kid
    BY <2>2 DEF IdsAreKept, Up
  <2>4. request[r].pc = "write" => request[r].image \in Config
    BY DEF Typed, CopiesAreMade
  <2>5. file' \in {Torn, file} \/ (request[r].pc = "write" /\ file' = request[r].image)
    <3>1. Fails(r) => file' = file \/ (request[r].pc = "write" /\ file' = request[r].image)
      BY DEF Fails
    <3> QED BY <2>1, <3>1 DEF Begins, Ends, Changes, Waits
  <2>6. request'[r].image \in {config, request[r].image, Nothing}
    BY <2>1 DEF Begins, Ends, Fails, Changes, Waits
  <2>7. (file' \in Config => file'.kid = config.kid) /\ (file' = Missing => file = Missing)
    BY <1>0, <2>3, <2>4, <2>5
  <2>8. \A p \in Requests : request'[p].image \in Config => request'[p].image.kid = config.kid
    BY <1>0, <2>2, <2>6
  <2> QED BY <2>2, <2>7, <2>8, IdsStay
<1>2. ASSUME NEW c \in Config, Start(c) PROVE IdsAreKept'
  <2>1. /\ ~Up /\ phase = "down" /\ config' = c /\ phase' \in {"private", "up"}
        /\ UNCHANGED <<file, keyFiles, request, issued>>
    BY <1>2 DEF Start, startUnchanged, Up, history
  <2>2. \A p \in Requests : request'[p].image \notin Config
    BY <1>0, <2>1 DEF Typed, DownIsQuiet
  <2>3. file = Missing \/ (file # Torn /\ c = file)
    BY <1>2 DEF Start, ReadsConfig
  <2>4. issued # {} => file # Missing /\ KeysUsable /\ c = file
    BY <2>3 DEF IdsAreKept
  <2>5. issued # {} => phase' = "up"
    <3>1. KeysUsable => privatePem # Missing
      BY Sentinels DEF KeysUsable
    <3> QED BY <1>2, <2>4, <3>1 DEF Start
  <2>6. \A token \in issued : token.key = privatePem /\ (file \in Config => token.kid = file.kid)
    BY DEF IdsAreKept
  <2>7. file' \in Config => file'.kid = config'.kid
    BY <1>0, <2>1, <2>3
  <2>8. UNCHANGED KeysUsable
    BY <2>1 DEF KeysUsable, keyFiles
  <2>9. \A token \in issued' : token.key = privatePem' /\ token.kid = config'.kid
    BY <2>1, <2>4, <2>6 DEF keyFiles
  <2>10. issued' # {} => file' # Missing /\ phase' \in {"down", "up"} /\ KeysUsable'
    BY <2>1, <2>4, <2>5, <2>8
  <2> QED BY <2>2, <2>7, <2>9, <2>10 DEF IdsAreKept
<1>3. CASE WritePrivateKey \/ WritePublicKey
  <2>1. /\ phase \in {"private", "public"} /\ UNCHANGED <<file, config, request, issued>>
        /\ issued = {}
    BY <1>3 DEF WritePrivateKey, WritePublicKey, keyUnchanged, startUnchanged, history,
                IdsAreKept
  <2> QED BY <1>0, <2>1 DEF IdsAreKept
<1>4. CASE KeyWriteFails \/ Crash \/ ReloadPanics
  <2>1. /\ phase' = "down" /\ UNCHANGED <<file, issued>>
        /\ \A p \in Requests : request'[p].image \notin Config
    BY <1>0, <1>4, DeathStep
  <2>2. issued = {} \/ UNCHANGED keyFiles
    BY <1>4 DEF KeyWriteFails, Crash, ReloadPanics, DiesWhileUp, IdsAreKept
  <2>3. UNCHANGED keyFiles => UNCHANGED KeysUsable /\ UNCHANGED privatePem
    BY DEF KeysUsable, keyFiles
  <2> QED BY <2>1, <2>2, <2>3 DEF IdsAreKept, Up
<1>5. CASE IssueToken
  <2>1. /\ Up /\ UNCHANGED <<phase, keyFiles, file, config, request>> /\ file # Missing
        /\ issued' = issued \cup {[kid |-> config.kid, key |-> privatePem]}
    BY <1>5 DEF IssueToken, serverVars
  <2>2. KeysUsable /\ UNCHANGED KeysUsable
    BY <2>1 DEF KeysUsable, Typed, TypeOK, keyFiles
  <2>3. \A token \in issued' : token.key = privatePem /\ token.kid = config.kid
    BY <2>1 DEF IdsAreKept
  <2>4. file \in Config => file.kid = config.kid
    BY <2>1 DEF IdsAreKept, Up
  <2> QED BY <1>0, <2>1, <2>2, <2>3, <2>4 DEF IdsAreKept, keyFiles, Up
<1>6. CASE BeginReload \/ EndReload \/ ReloadLosesUsers
  <2>1. /\ Up /\ config'.kid = config.kid /\ UNCHANGED issued
        /\ UNCHANGED <<phase, keyFiles, file, request>>
    BY <1>6, ReloadStep, OtherStep
  <2>2. file \in Config => file.kid = config.kid
    BY <2>1 DEF IdsAreKept, Up
  <2> QED BY <1>0, <2>1, <2>2, IdsStay
<1>7. CASE ServeTLS \/ RemoveSetupCode \/ UNCHANGED vars
  <2>1. UNCHANGED <<phase, keyFiles, file, request, config, issued>>
    BY <1>7 DEF ServeTLS, handlerUnchanged, RemoveSetupCode, vars, serverVars, history
  <2>2. UNCHANGED KeysUsable
    BY <2>1 DEF KeysUsable, keyFiles
  <2> QED BY <2>1, <2>2 DEF IdsAreKept, Up, keyFiles
<1> QED BY <1>1, <1>2, <1>3, <1>4, <1>5, <1>6, <1>7, Steps

\* Nothing has been issued at the start.
LEMMA InitIds == Init => IdsAreKept
BY Sentinels DEF Init, Idle, IdsAreKept

\* IdsAreKept holds in every reachable state.
LEMMA AlwaysIds == Spec => []IdsAreKept
BY AlwaysTyped, InitIds, NextIds, PTL DEF Spec

\* A server that is down has files it can start from, unless a write was cut short.
LEMMA NextStartsAgain ==
    Typed /\ TornFiles /\ StartsAgain /\ [Next]_vars => StartsAgain'
<1> SUFFICES ASSUME Typed, TornFiles, StartsAgain, [Next]_vars PROVE StartsAgain'
  OBVIOUS
<1>1. ASSUME NEW r \in Requests, Arrive(r) \/ Proceed(r) PROVE StartsAgain'
  <2>1. phase' = "up"
    BY <1>1, ServedWhenUp DEF Up, serverVars
  <2> QED BY <2>1 DEF StartsAgain
<1>2. ASSUME NEW c \in Config, Start(c) PROVE StartsAgain'
  BY <1>2 DEF Start, StartsAgain
<1>3. CASE WritePrivateKey \/ WritePublicKey
  BY <1>3 DEF WritePrivateKey, WritePublicKey, StartsAgain
<1>4. CASE KeyWriteFails
  <2>1. UNCHANGED file /\ file # Torn
    BY <1>4, DeathStep DEF KeyWriteFails, TornFiles
  <2>2. ~interrupted' => privatePem' = Missing
    BY <1>4 DEF KeyWriteFails
  <2> QED BY <2>1, <2>2 DEF StartsAgain
<1>5. CASE Crash \/ ReloadPanics
  <2>1. Up /\ UNCHANGED keyFiles /\ interrupted' = (interrupted \/ file = Torn)
    BY <1>5 DEF Crash, ReloadPanics, DiesWhileUp
  <2>2. UNCHANGED file
    BY <1>5, DeathStep
  <2>3. KeysUsable /\ UNCHANGED KeysUsable
    BY <2>1 DEF KeysUsable, Typed, TypeOK, keyFiles
  <2> QED BY <2>1, <2>2, <2>3 DEF StartsAgain
<1>6. CASE \/ BeginReload \/ EndReload \/ ReloadLosesUsers
           \/ ServeTLS \/ IssueToken \/ RemoveSetupCode \/ UNCHANGED vars
  <2>1. UNCHANGED <<phase, file, keyFiles, interrupted>>
    BY <1>6, OtherStep DEF BeginReload, EndReload, ReloadLosesUsers, reloadUnchanged,
       ServeTLS, handlerUnchanged, IssueToken, RemoveSetupCode, vars
  <2>2. UNCHANGED KeysUsable /\ UNCHANGED privatePem
    BY <2>1 DEF KeysUsable, keyFiles
  <2> QED BY <2>1, <2>2 DEF StartsAgain
<1> QED BY <1>1, <1>2, <1>3, <1>4, <1>5, <1>6, Steps

\* The first start is not prevented.
LEMMA InitStartsAgain == Init => StartsAgain
BY Sentinels DEF Init, StartsAgain

\* Tokens outlive restarts, setups and reloads, and a server that is down can start again
\* (rsa.go:25, config.go:71, middleware.go:40).
THEOREM RestartsAreSurvived == Spec => []SurvivesRestarts
<1>1. Spec => []StartsAgain
  BY AlwaysTyped, AlwaysTorn, InitStartsAgain, NextStartsAgain, PTL DEF Spec
<1>2. Typed /\ IdsAreKept => TokensStayValid
  BY DEF Typed, TypeOK, IdsAreKept, TokensStayValid
<1> QED BY <1>1, <1>2, AlwaysTyped, AlwaysIds, PTL DEF SurvivesRestarts

-----------------------------------------------------------------------------
(* config.json follows the Context.                                        *)

\* Without a setup code the setup counts as completed at the next request (setup.go:55).
LEMMA FollowsCompletion ==
    ASSUME NEW c \in Config, NEW image \in Config, ~setupCode, Follows(image, c)
    PROVE  Follows(image, [c EXCEPT !.completed = TRUE])
<1> DEFINE d == [c EXCEPT !.completed = TRUE]
<1>1. d.completed
  BY DEF Config
<1>2. image = [c EXCEPT !.completed = image.completed]
  BY DEF Follows, Config
<1>3. [d EXCEPT !.completed = image.completed] = [c EXCEPT !.completed = image.completed]
  BY DEF Config
<1> HIDE DEF d
<1>4. Follows(image, d)
  BY <1>1, <1>2, <1>3 DEF Follows
<1> QED BY <1>4 DEF d

\* A reload that takes over a file which has only lost the setup flag yields the file.
LEMMA TakenOver ==
    ASSUME file \in Config, config \in Config, NEW c \in Reloaded, ReadsFile(c), TakesOver(c),
           Follows(file, config)
    PROVE  config' = file
<1>1. c.completed = file.completed /\ c.hostname = file.hostname
  BY Sentinels DEF ReadsFile
<1>2. config' = [config EXCEPT !.hostname = file.hostname, !.completed = file.completed]
  BY <1>1 DEF TakesOver
<1>3. file = [config EXCEPT !.completed = file.completed]
  BY DEF Follows, Config
<1>4. file.hostname = config.hostname
  BY <1>3 DEF Config
<1>5. config' = [config EXCEPT !.completed = file.completed]
  BY <1>2, <1>4 DEF Config
<1> QED BY <1>3, <1>5

\* Every step leaves a change that is not saved to a request that will save it.
LEMMA NextCurrent == Typed /\ TornFiles /\ FileIsCurrent /\ [Next]_vars => FileIsCurrent'
<1> SUFFICES ASSUME Typed, TornFiles, FileIsCurrent, [Next]_vars, phase' # "down", ~overlapped'
             PROVE  FileIsCurrent'
  BY DEF FileIsCurrent
<1> DEFINE Pending == \E r \in Requests : request[r].pc \in {"save", "enable"}
           Copies == \A r \in Requests :
                        request[r].pc = "write" => Follows(request[r].image, config)
           Writer == \E r \in Requests : request[r].pc = "write"
           Current == ~Writer /\ ~saveFailed /\ file # Missing
                         => file # Torn /\ Follows(file, config)
           Read == loaded # Nothing => ~Unsaved /\ ReadsFile(loaded)
<1>0. /\ config \in Config /\ request \in [Requests -> Request]
      /\ file \in Config \cup {Missing, Torn}
      /\ \A p \in Requests : request[p].pc = "write" => writing = {p} /\ request[p].image \in Config
  BY DEF Typed, TypeOK, TornFiles, CopiesAreMade
<1>1. ASSUME Read', Pending' \/ (Copies' /\ Current') PROVE FileIsCurrent'
  BY <1>1 DEF FileIsCurrent
<1>2. phase # "down" /\ ~overlapped => Read /\ (Pending \/ (Copies /\ Current))
  BY DEF FileIsCurrent
<1>3. Unsaved <=> Pending \/ Writer
  BY DEF Unsaved
<1>4. ASSUME NEW r \in Requests, Arrive(r) \/ Proceed(r) PROVE FileIsCurrent'
  <2>1. Served(r) /\ (Begins(r) \/ Ends(r) \/ Fails(r) \/ Changes(r) \/ Waits(r))
    BY <1>4, RequestKinds
  <2>2. /\ phase # "down" /\ ~overlapped /\ UNCHANGED <<loaded, setupCode>>
        /\ \A p \in Requests : p # r => request'[p] = request[p]
    BY <2>1 DEF Served, Up
  <2>3. NoteOverlap => loaded = Nothing
    BY DEF NoteOverlap
  <2>4. NoteOverlap => Read'
    BY <2>2, <2>3
  <2>5. CASE Begins(r)
    <3>1. \A p \in Requests : request'[p].pc = "write" => p = r
      BY <1>0, <2>2, <2>5 DEF Begins
    <3>2. Copies'
      BY <2>5, <3>1 DEF Begins, Follows
    <3>3. Writer' /\ NoteOverlap
      BY <2>5 DEF Begins
    <3> QED BY <1>1, <2>4, <3>2, <3>3
  <2>6. CASE Ends(r)
    <3>1. \A p \in Requests : request'[p].pc # "write"
      BY <1>0, <2>2, <2>6 DEF Ends
    <3>2. Pending => Pending'
      BY <2>2, <2>6 DEF Ends
    <3>3. ASSUME ~Pending PROVE file' # Torn /\ Follows(file', config')
      <4>1. Follows(request[r].image, config) /\ request[r].image \in Config
        BY <1>0, <1>2, <2>2, <2>6, <3>3 DEF Ends
      <4> QED BY <2>6, <4>1, Sentinels DEF Ends
    <3>4. ASSUME ~Pending PROVE Follows(file, config)'
      BY <2>2, <3>3, <3>4 DEF Follows
    <3>5. NoteOverlap
      BY <2>6 DEF Ends
    <3> QED BY <1>1, <2>4, <3>1, <3>2, <3>3, <3>4, <3>5
  <2>7. CASE Fails(r)
    <3>1. \A p \in Requests : request'[p].pc # "write"
      BY <1>0, <2>2, <2>7 DEF Fails
    <3>2. saveFailed' /\ NoteOverlap
      BY <2>7 DEF Fails
    <3> QED BY <1>1, <2>4, <3>1, <3>2
  <2>8. CASE Changes(r)
    <3>1. Pending' /\ NoteOverlap
      BY <2>8 DEF Changes
    <3> QED BY <1>1, <2>4, <3>1
  <2>9. CASE Waits(r)
    <3>1. /\ UNCHANGED <<file, saveFailed>>
          /\ {request[r].pc, request'[r].pc} \cap {"save", "write", "enable"} = {}
      BY <2>9 DEF Waits
    <3>2. (Pending' <=> Pending) /\ (Writer' <=> Writer) /\ (Unsaved' <=> Unsaved)
      BY <2>2, <3>1 DEF Unsaved
    <3>3. Read'
      BY <1>2, <2>2, <3>1, <3>2 DEF ReadsFile
    <3>4. ASSUME NEW image \in Config, Follows(image, config)
          PROVE  \/ image = config'
                 \/ /\ ~setupCode' /\ config'.completed
                    /\ image = [config' EXCEPT !.completed = image.completed]
      <4>1. CASE config' = config
        BY <2>2, <3>4, <4>1 DEF Follows
      <4>2. CASE config' = [config EXCEPT !.completed = TRUE] /\ ~setupCode
        <5>1. Follows(image, config')
          BY <1>0, <3>4, <4>2, FollowsCompletion
        <5> QED BY <2>2, <5>1 DEF Follows
      <4> QED BY <2>9, <4>1, <4>2 DEF Waits
    <3>5. ASSUME ~Pending PROVE Copies'
      <4> SUFFICES ASSUME NEW p \in Requests, request'[p].pc = "write"
                   PROVE  Follows(request[p].image, config)'
        OBVIOUS
      <4>1. p # r /\ request'[p] = request[p]
        BY <2>2, <3>1
      <4>2. request[p].image \in Config /\ Follows(request[p].image, config)
        BY <1>0, <1>2, <2>2, <3>5, <4>1
      <4> QED BY <3>4, <4>1, <4>2 DEF Follows
    <3>6. ASSUME ~Pending PROVE Current'
      <4> SUFFICES ASSUME ~Writer, ~saveFailed, file # Missing
                   PROVE  file # Torn /\ Follows(file, config)'
        BY <3>1, <3>2
      <4>1. file # Torn /\ Follows(file, config)
        BY <1>2, <2>2, <3>6
      <4> QED BY <1>0, <3>1, <3>4, <4>1 DEF Follows
    <3> QED BY <1>1, <3>2, <3>3, <3>5, <3>6
  <2> QED BY <2>1, <2>5, <2>6, <2>7, <2>8, <2>9
<1>5. ASSUME NEW c \in Config, Start(c) PROVE FileIsCurrent'
  <2>1. /\ ~Up /\ config' = c /\ UNCHANGED <<file, request, loaded>>
        /\ file = Missing \/ (file # Torn /\ c = file)
    BY <1>5 DEF Start, startUnchanged, Up, ReadsConfig
  <2>2. loaded = Nothing /\ ~Writer
    BY <2>1 DEF Typed, DownIsQuiet
  <2>3. Read' /\ Copies' /\ Current'
    BY <2>1, <2>2 DEF Follows
  <2> QED BY <1>1, <2>3
<1>6. ASSUME UNCHANGED <<file, request, loaded, config, saveFailed, overlapped>>,
             UNCHANGED setupCode \/ ~setupCode', phase # "down"
      PROVE  FileIsCurrent'
  <2>1. Read' = Read /\ Pending' = Pending /\ Writer' = Writer
    BY <1>6 DEF Unsaved, ReadsFile
  <2>2. ASSUME NEW image, Follows(image, config)
        PROVE  \/ image = config
               \/ /\ ~setupCode' /\ config.completed
                  /\ image = [config EXCEPT !.completed = image.completed]
    BY <1>6, <2>2 DEF Follows
  <2>3. Copies => Copies'
    BY <1>6, <2>2 DEF Follows
  <2>4. Current => Current'
    BY <1>6, <2>1, <2>2 DEF Follows
  <2> QED BY <1>1, <1>2, <1>6, <2>1, <2>3, <2>4
<1>7. CASE WritePrivateKey \/ WritePublicKey
  BY <1>6, <1>7 DEF WritePrivateKey, WritePublicKey, keyUnchanged, startUnchanged
<1>8. CASE KeyWriteFails \/ Crash \/ ReloadPanics
  BY <1>8, DeathStep
<1>9. CASE BeginReload
  <2>1. /\ Up /\ ~overlapped /\ ~Unsaved
        /\ UNCHANGED <<file, request, config, saveFailed, setupCode>>
        /\ ReadsFile(loaded')
    BY <1>9 DEF BeginReload, CanReload, reloadUnchanged
  <2>2. ~Pending /\ ~Writer /\ Current
    BY <1>2, <1>3, <2>1 DEF Up
  <2>3. Current' /\ Copies'
    BY <2>1, <2>2 DEF Follows
  <2>4. Read'
    BY <2>1 DEF Unsaved, ReadsFile
  <2> QED BY <1>1, <2>3, <2>4
<1>10. ASSUME NEW c \in Reloaded, Up, ~overlapped, ~Unsaved, ReadsFile(c), TakesOver(c),
              UNCHANGED <<file, request, saveFailed, setupCode>>, loaded' = Nothing
       PROVE  FileIsCurrent'
  <2>1. ~Pending /\ ~Writer /\ Current
    BY <1>2, <1>3, <1>10 DEF Up
  <2>2. ASSUME ~saveFailed, file # Missing PROVE file # Torn /\ config' = file
    <3>1. file \in Config /\ Follows(file, config) /\ file # Torn
      BY <1>0, <2>1, <2>2
    <3> QED BY <1>0, <1>10, <3>1, TakenOver
  <2>3. Current' /\ Copies' /\ Read'
    BY <1>10, <2>1, <2>2 DEF Follows
  <2> QED BY <1>1, <2>3
<1>11. CASE EndReload
  <2>1. /\ Up /\ ~overlapped /\ loaded # Nothing /\ loaded' = Nothing /\ TakesOver(loaded)
        /\ UNCHANGED <<file, request, saveFailed, setupCode>>
    BY <1>11 DEF EndReload, reloadUnchanged
  <2>2. loaded \in Reloaded /\ ~Unsaved /\ ReadsFile(loaded)
    BY <1>2, <2>1 DEF Typed, TypeOK, Up
  <2> QED BY <1>10, <2>1, <2>2
<1>12. CASE ReloadLosesUsers
  <2>1. /\ Up /\ ~overlapped /\ ~Unsaved /\ loaded' = Nothing
        /\ UNCHANGED <<file, request, saveFailed, setupCode>>
        /\ \E c \in Reloaded : ReadsFile(c) /\ TakesOver(c)
    BY <1>12 DEF ReloadLosesUsers, CanReload, reloadUnchanged
  <2> QED BY <1>10, <2>1
<1>13. CASE ServeTLS \/ IssueToken \/ RemoveSetupCode \/ UNCHANGED vars
  <2>1. /\ UNCHANGED <<phase, file, request, loaded, config, saveFailed, overlapped>>
        /\ UNCHANGED setupCode \/ ~setupCode'
    BY <1>13 DEF ServeTLS, IssueToken, RemoveSetupCode, handlerUnchanged, serverVars, vars
  <2> QED BY <1>6, <2>1
<1> HIDE DEF Pending, Copies, Writer, Current, Read
<1> QED BY <1>4, <1>5, <1>7, <1>8, <1>9, <1>11, <1>12, <1>13, Steps

\* Nothing is changed at the start.
LEMMA InitCurrent == Init => FileIsCurrent
BY DEF Init, FileIsCurrent

\* FileIsCurrent holds in every reachable state.
LEMMA AlwaysCurrent == Spec => []FileIsCurrent
BY AlwaysTyped, AlwaysTorn, InitCurrent, NextCurrent, PTL DEF Spec

\* In whatever order requests change the Context and save it, config.json holds it when
\* they are done (config.go:15).
THEOREM FileIsFollowing == Spec => []FileFollowsConfig
<1>1. FileIsCurrent => FileFollowsConfig
  BY DEF FileIsCurrent, FileFollowsConfig, Up
<1> QED BY <1>1, AlwaysCurrent, PTL

-----------------------------------------------------------------------------
(* An answered setup is kept.                                              *)

LEMMA NextHeld ==
    Typed /\ FileIsCurrent /\ SetupIsHeld /\ [Next]_vars => SetupIsHeld'
<1> SUFFICES ASSUME Typed, FileIsCurrent, SetupIsHeld, [Next]_vars,
                    ~setupFailed', ~overlapped'
             PROVE  SetupIsHeld'
  BY DEF SetupIsHeld
<1> DEFINE Held == \A r \in Requests :
                     /\ request[r].pc \in {"save", "write", "enable"} => config.completed
                     /\ request[r].pc = "write" => request[r].image.completed
           Kept == setupAnswered =>
                     /\ file # Missing /\ (file \in Config => file.completed)
                     /\ phase # "down" => config.completed
<1>0. /\ config \in Config /\ {Missing, Torn, Nothing} \cap Config = {} /\ Missing # Torn
      /\ file \in Config \cup {Missing, Torn}
      /\ \A p \in Requests : request[p].pc = "write" => request[p].image \in Config
  BY Sentinels DEF Typed, TypeOK, CopiesAreMade
<1>1. ASSUME Held', Kept' PROVE SetupIsHeld'
  BY <1>1 DEF SetupIsHeld
<1>2. ~setupFailed /\ ~overlapped => Held /\ Kept
  BY DEF SetupIsHeld
<1>3. ASSUME NEW r \in Requests, Arrive(r) \/ Proceed(r) PROVE SetupIsHeld'
  <2>1. Served(r) /\ (Begins(r) \/ Ends(r) \/ Fails(r) \/ Changes(r) \/ Waits(r))
    BY <1>3, RequestKinds
  <2>2. /\ phase = "up" /\ phase' = "up" /\ ~overlapped
        /\ \A p \in Requests : p # r => request'[p] = request[p]
    BY <2>1 DEF Served, Up, serverVars
  <2>3. Held /\ Kept
    <3>1. setupFailed => setupFailed'
      BY <2>1 DEF Begins, Ends, Fails, Changes, Waits
    <3> QED BY <1>2, <2>2, <3>1
  <2>4. CASE Begins(r)
    <3>1. Held'
      BY <2>2, <2>3, <2>4 DEF Begins
    <3>2. Kept'
      BY <1>0, <2>2, <2>3, <2>4 DEF Begins
    <3> QED BY <1>1, <3>1, <3>2
  <2>5. CASE Ends(r)
    <3>1. Held'
      BY <2>2, <2>3, <2>5 DEF Ends
    <3>2. Kept'
      BY <1>0, <2>2, <2>3, <2>5 DEF Ends
    <3> QED BY <1>1, <3>1, <3>2
  <2>6. CASE Fails(r)
    <3>1. Held'
      BY <2>2, <2>3, <2>6 DEF Fails
    <3>2. Kept'
      BY <1>0, <2>2, <2>3, <2>6 DEF Fails
    <3> QED BY <1>1, <3>1, <3>2
  <2>7. CASE Changes(r)
    <3>1. config'.completed /\ request'[r].pc # "write"
      BY <2>3, <2>7 DEF Changes
    <3>2. Held'
      BY <2>2, <2>3, <3>1
    <3>3. Kept'
      BY <2>2, <2>3, <2>7, <3>1 DEF Changes
    <3> QED BY <1>1, <3>2, <3>3
  <2>8. CASE Waits(r)
    <3>1. config.completed => config'.completed
      BY <1>0, <2>8 DEF Waits, Config
    <3>2. request'[r].pc \notin {"save", "write", "enable"} /\ UNCHANGED <<file, setupAnswered>>
      BY <2>8 DEF Waits
    <3>3. Held'
      BY <2>2, <2>3, <3>1, <3>2
    <3>4. Kept'
      BY <2>2, <2>3, <3>1, <3>2
    <3> QED BY <1>1, <3>3, <3>4
  <2> QED BY <2>1, <2>4, <2>5, <2>6, <2>7, <2>8
<1>4. ASSUME NEW c \in Config, Start(c) PROVE SetupIsHeld'
  <2>1. /\ ~Up /\ config' = c
        /\ UNCHANGED <<file, request, setupAnswered, setupFailed, overlapped>>
        /\ file = Missing \/ (file # Torn /\ c = file)
    BY <1>4 DEF Start, startUnchanged, history, Up, ReadsConfig
  <2>2. \A p \in Requests : request[p].pc = "idle"
    BY <2>1 DEF Typed, DownIsQuiet
  <2>3. Held'
    BY <2>1, <2>2
  <2>4. Kept'
    BY <1>0, <1>2, <2>1
  <2> QED BY <1>1, <2>3, <2>4
<1>5. CASE WritePrivateKey \/ WritePublicKey
  <2>1. /\ phase # "down"
        /\ UNCHANGED <<file, request, config, setupAnswered, setupFailed, overlapped>>
    BY <1>5 DEF WritePrivateKey, WritePublicKey, keyUnchanged, startUnchanged, history
  <2> QED BY <1>1, <1>2, <2>1
<1>6. CASE KeyWriteFails \/ Crash \/ ReloadPanics
  <2>1. /\ phase' = "down" /\ \A p \in Requests : request'[p].pc = "idle"
        /\ UNCHANGED <<file, setupAnswered, setupFailed, overlapped>>
    BY <1>6, DeathStep
  <2> QED BY <1>1, <1>2, <2>1
<1>7. ASSUME NEW c \in Reloaded, Up, ~overlapped, ~Unsaved, ReadsFile(c), TakesOver(c),
             UNCHANGED <<phase, file, request, setupAnswered, setupFailed>>
      PROVE  SetupIsHeld'
  <2>1. Kept
    BY <1>2, <1>7
  <2>2. Held'
    BY <1>7 DEF Unsaved
  <2>3. ASSUME setupAnswered PROVE config'.completed
    <3>1. c.completed = file.completed /\ file \in Config
      BY <1>0, <1>7, <2>1, <2>3 DEF ReadsFile
    <3>2. c.completed
      BY <2>1, <2>3, <3>1
    <3> QED BY <1>0, <1>7, <3>2 DEF TakesOver, Config, Reloaded
  <2>4. Kept'
    BY <1>7, <2>1, <2>3
  <2> QED BY <1>1, <2>2, <2>4
<1>8. CASE EndReload
  <2>1. Up /\ ~overlapped /\ loaded # Nothing /\ TakesOver(loaded)
    BY <1>8 DEF EndReload
  <2>2. loaded \in Reloaded /\ ~Unsaved /\ ReadsFile(loaded)
    BY <2>1 DEF Typed, TypeOK, Up, FileIsCurrent
  <2> QED BY <1>7, <1>8, <2>1, <2>2, OtherStep
<1>9. CASE ReloadLosesUsers
  <2>1. Up /\ ~overlapped /\ ~Unsaved /\ \E c \in Reloaded : ReadsFile(c) /\ TakesOver(c)
    BY <1>9 DEF ReloadLosesUsers, CanReload
  <2> QED BY <1>7, <1>9, <2>1, OtherStep
<1>10. CASE BeginReload \/ ServeTLS \/ IssueToken \/ RemoveSetupCode \/ UNCHANGED vars
  <2>1. UNCHANGED config /\ (overlapped => overlapped')
    <3>1. CASE BeginReload
      BY <3>1 DEF BeginReload
    <3>2. CASE ServeTLS
      BY <3>2 DEF ServeTLS, handlerUnchanged
    <3>3. CASE IssueToken \/ RemoveSetupCode \/ UNCHANGED vars
      BY <3>3 DEF IssueToken, RemoveSetupCode, vars
    <3> QED BY <1>10, <3>1, <3>2, <3>3
  <2>2. UNCHANGED <<phase, file, request, setupAnswered, setupFailed>>
    BY <1>10, OtherStep
  <2> QED BY <1>1, <1>2, <2>1, <2>2
<1> HIDE DEF Held, Kept
<1> QED BY <1>3, <1>4, <1>5, <1>6, <1>8, <1>9, <1>10, Steps

\* No setup was answered at the start.
LEMMA InitHeld == Init => SetupIsHeld
BY DEF Init, Idle, SetupIsHeld

\* SetupIsHeld holds in every reachable state.
LEMMA AlwaysHeld == Spec => []SetupIsHeld
BY AlwaysTyped, AlwaysCurrent, InitHeld, NextHeld, PTL DEF Spec

\* A setup that was answered as completed stays so, in memory and after restarts
\* (setup.go:97).
THEOREM AnsweredSetupsAreKept == Spec => []AnsweredSetupIsKept
<1>1. SetupIsHeld => AnsweredSetupIsKept
  BY DEF SetupIsHeld, AnsweredSetupIsKept, Up
<1> QED BY <1>1, AlwaysHeld, PTL
=============================================================================
