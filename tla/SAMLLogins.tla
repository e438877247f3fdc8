----------------------------- MODULE SAMLLogins -----------------------------
(***************************************************************************)
(* SAML (auth/saml) with the pages that set providers up (rest/setup.go)   *)
(* and the requests of a login (rest/auth.go): the address to log in at,   *)
(* the assertion that the identity provider posts, the callback.           *)
(*                                                                         *)
(* The providers are a slice of the Context without a lock.  A service     *)
(* provider is made from a provider when it is first needed; the map of    *)
(* them is read without mu and written with it, and mu is held while       *)
(* metadata is fetched.  The requests fetch, read a body and write files:  *)
(* these are the places where other steps come between.                    *)
(*                                                                         *)
(* Metadata is its address; an assertion is an account.  Time is left out: *)
(* a session that has expired is refused, and a refused callback changes   *)
(* nothing.  The users that logins add are in UserAccounts, and the write  *)
(* of config.json is in ServerSetup: here a save is one step.  The key     *)
(* pair that signs requests is in SAMLKeyPair.                             *)
(***************************************************************************)
EXTENDS Naturals, FiniteSets, SequencesExt

CONSTANTS
    Requests,   \* requests in flight
    URLs,       \* metadata URLs
    Flags,      \* the values of AllowMissingAttributes, which are only compared
    Accounts,   \* accounts that assertions name
    MaxIDs,     \* bound: providers ever added
    MaxChanges, \* bound: POSTs, PUTs and DELETEs of providers
    MaxLogins,  \* bound: assertions accepted
    MaxFaults,  \* bound: crashes and failed writes
    Absent,     \* no entry in the map, no value
    Nil,        \* an entry that has been taken back
    NoHolder    \* mu is free

IDs == 1 .. MaxIDs
Provider == [id : IDs, url : URLs, allow : Flags]
Entry == [url : URLs, allow : Flags]  \* what a service provider was made from
Session == [code : 1 .. MaxLogins, provider : IDs, account : Accounts]

ASSUME Sentinels ==
    /\ {Absent, Nil} \cap Entry = {} /\ Absent # Nil
    /\ Absent \notin Provider \cup Session
    /\ NoHolder \notin Requests

ASSUME Bounds == {MaxIDs, MaxChanges, MaxLogins, MaxFaults} \subseteq Nat

VARIABLES
    providers,      \* Context.SAML.Providers
    disk,           \* the providers in config.json
    serviceProvider,\* saml.serviceProvider
    mu,             \* the mutex of saml
    sessions,       \* saml.sessions
    request,        \* local variables of each request
    nextID, changes, faults, \* counters
    lastSet,        \* history: what requests for each provider have last set
    shifted,        \* history: providers that a misplaced change may have hit or missed
    unsaved,        \* history: an error has left a change out of the file
    loadFailed,     \* history: providers whose metadata could not be loaded
    assertions      \* history: the sessions of the assertions that were accepted

setup == <<providers, nextID, changes, lastSet, shifted>>
sp == <<serviceProvider, mu, loadFailed>>
logging == <<sessions, assertions>>
saving == <<disk, faults, unsaved>>
vars == <<setup, sp, logging, saving, request>>

Idle == [pc |-> "idle", provider |-> Absent, index |-> 0, session |-> Absent]

CanArrive(r) == request[r].pc = "idle"
CanChange(r) == CanArrive(r) /\ changes < MaxChanges /\ changes' = changes + 1
Return(r) == request' = [request EXCEPT ![r] = Idle]
Goto(r, pc) == request' = [request EXCEPT ![r].pc = pc]

IndexOf(id) == SelectInSeq(providers, LAMBDA p : p.id = id)

-----------------------------------------------------------------------------
(* ensureSPLoaded and loadSP, for the two requests that need a service     *)
(* provider, GetAuthURL and samlHandler.  The two differ only in what they *)
(* do with it at "use".                                                    *)

ensureUnchanged == <<setup, logging, saving>>

\* The provider is copied.  No entry: load it.  An entry that agrees on the missing
\* attributes is used; one that does not is taken back first.  An entry that has been
\* taken back before is dereferenced: the request panics and changes nothing.
EnsureSPLoaded(r, k) ==
    LET provider == providers[k]
        entry == serviceProvider[provider.id]
        fresh == entry # Absent /\ entry.allow = provider.allow
    IN
    /\ CanArrive(r)
    /\ entry # Nil
    /\ request' = [request EXCEPT ![r] = [Idle EXCEPT !.provider = provider,
                                             !.pc = IF fresh THEN "use" ELSE "load"]]
    /\ serviceProvider' = [serviceProvider EXCEPT
                             ![provider.id] = IF entry = Absent \/ fresh THEN @ ELSE Nil]
    /\ UNCHANGED <<ensureUnchanged, mu, loadFailed>>

\* loadSP takes mu and fetches the metadata.
BeginLoad(r) ==
    /\ request[r].pc = "load"
    /\ mu = NoHolder
    /\ mu' = r
    /\ Goto(r, "fetch")
    /\ UNCHANGED <<ensureUnchanged, serviceProvider, loadFailed>>

\* Mutant: an entry without the missing attributes.
EntryOfURL(provider) ==
    serviceProvider' = [serviceProvider EXCEPT ![provider.id] = [url |-> provider.url]]

\* Mutant: an entry that was taken back is not made again.
AddEntry(provider) ==
    serviceProvider' = [serviceProvider EXCEPT
        ![provider.id] = IF @ = Nil THEN Nil ELSE [url |-> provider.url, allow |-> provider.allow]]

StoreEntry(provider) ==
    serviceProvider' = [serviceProvider EXCEPT
        ![provider.id] = [url |-> provider.url, allow |-> provider.allow]]

LoadSucceeds(r) ==
    /\ request[r].pc = "fetch"
    /\ StoreEntry(request[r].provider)
    /\ mu' = NoHolder
    /\ loadFailed' = loadFailed \ {request[r].provider.id}
    /\ Goto(r, "use")
    /\ UNCHANGED ensureUnchanged

\* Mutant: the return with an error keeps mu.
KeepMu == mu' = mu

ReleaseMu == mu' = NoHolder

\* No answer, no certificates, no address to sign on.
LoadFails(r) ==
    /\ request[r].pc = "fetch"
    /\ ReleaseMu
    /\ loadFailed' = loadFailed \cup {request[r].provider.id}
    /\ Return(r)
    /\ UNCHANGED <<ensureUnchanged, serviceProvider>>

EntryOf(r) == serviceProvider[request[r].provider.id]

-----------------------------------------------------------------------------
(* GetAuthURL, samlHandler, CreateSession and the callback.                *)

loginUnchanged == <<setup, saving, serviceProvider, loadFailed>>

\* GetAuthURL answers the address; samlHandler refuses a bad form or an assertion that
\* does not hold; both panic on an entry that is nil.
UseEnds(r) ==
    /\ request[r].pc = "use"
    /\ Return(r)
    /\ UNCHANGED <<loginUnchanged, mu, logging>>

AssertionAccepted(r, account) ==
    LET session == [code |-> Cardinality(assertions) + 1,
                    provider |-> request[r].provider.id, account |-> account] IN
    /\ request[r].pc = "use"
    /\ EntryOf(r) # Nil
    /\ Cardinality(assertions) < MaxLogins
    /\ assertions' = assertions \cup {session}
    /\ request' = [request EXCEPT ![r] = [Idle EXCEPT !.pc = "session", !.session = session]]
    /\ UNCHANGED <<loginUnchanged, mu, sessions>>

\* Waits for mu, which a load holds as long as the fetch takes.
CreateSession(r) ==
    /\ request[r].pc = "session"
    /\ mu = NoHolder
    /\ sessions' = sessions \cup {request[r].session}
    /\ Return(r)
    /\ UNCHANGED <<loginUnchanged, mu, assertions>>

\* Mutant: the session is looked up by its code alone.
AnySession(session, id) == TRUE

\* GetAuthenticatedUser: the key is the provider and the code.
SessionOf(session, id) == session.provider = id

\* authMethodsByID (POST): the provider must still be there.  The user is added or
\* changed next, which takes a write of users.json, and the token names the user.
Callback(r, id, session) ==
    /\ CanArrive(r)
    /\ IndexOf(id) # 0
    /\ SessionOf(session, id)
    /\ request' = [request EXCEPT ![r] = [Idle EXCEPT !.pc = "token",
                                             !.session = [session EXCEPT !.provider = id]]]
    /\ UNCHANGED <<loginUnchanged, mu, logging>>

\* The token is answered, or an error when the user cannot be saved.
CallbackReturns(r) ==
    /\ request[r].pc = "token"
    /\ Return(r)
    /\ UNCHANGED <<loginUnchanged, mu, logging>>

-----------------------------------------------------------------------------
(* samlSetupHandler and samlSetupElementHandler.                           *)

setupUnchanged == <<sp, logging>>

GoSave(r) == request' = [request EXCEPT ![r] = [Idle EXCEPT !.pc = "save"]]

\* POST: the metadata is fetched, then the provider appended under a new id.
AddProvider(r, url, allow) ==
    /\ CanChange(r)
    /\ nextID \in IDs
    /\ request' = [request EXCEPT ![r] = [Idle EXCEPT !.pc = "add",
                        !.provider = [id |-> nextID, url |-> url, allow |-> allow]]]
    /\ nextID' = nextID + 1
    /\ UNCHANGED <<setupUnchanged, saving, providers, lastSet, shifted>>

ProviderAdded(r) ==
    /\ request[r].pc = "add"
    /\ providers' = Append(providers, request[r].provider)
    /\ lastSet' = [lastSet EXCEPT ![request[r].provider.id] = request[r].provider]
    /\ GoSave(r)
    /\ UNCHANGED <<setupUnchanged, saving, nextID, changes, shifted>>

SavesFlag(provider, allow) == provider.allow # allow

\* PUT: the missing attributes are changed at once, a new URL is fetched first.
\* The index is kept across the fetch.
UpdateProvider(r, k, url, allow) ==
    LET wanted == [providers[k] EXCEPT !.allow = allow] IN
    /\ CanChange(r)
    /\ providers' = [providers EXCEPT ![k] = wanted]
    /\ lastSet' = [lastSet EXCEPT ![wanted.id].allow = allow]
    /\ request' = [request EXCEPT ![r] =
         IF url # providers[k].url
         THEN [Idle EXCEPT !.pc = "replace", !.index = k,
                           !.provider = [wanted EXCEPT !.url = url]]
         ELSE IF SavesFlag(providers[k], allow) THEN [Idle EXCEPT !.pc = "save"] ELSE Idle]
    /\ UNCHANGED <<setupUnchanged, saving, nextID, shifted>>

\* Mutant: the provider is written back as it was copied.
ReplaceWhole(r) ==
    providers' = [providers EXCEPT ![request[r].index] = request[r].provider]

ReplaceURL(r) ==
    providers' = [providers EXCEPT ![request[r].index].url = request[r].provider.url]

\* The position may belong to another provider by now; past the end, it panics.
ProviderUpdated(r) ==
    LET k == request[r].index
        id == request[r].provider.id
    IN
    /\ request[r].pc = "replace"
    /\ IF k > Len(providers)
       THEN Return(r) /\ UNCHANGED <<providers, lastSet, shifted>>
       ELSE /\ ReplaceURL(r)
            /\ lastSet' = IF IndexOf(id) = 0 THEN lastSet
                          ELSE [lastSet EXCEPT ![id].url = request[r].provider.url]
            /\ shifted' = IF IndexOf(id) = k THEN shifted
                          ELSE shifted \cup {id, providers[k].id}
            /\ GoSave(r)
    /\ UNCHANGED <<setupUnchanged, saving, nextID, changes>>

\* The metadata of the new URL cannot be read.  The missing attributes stay changed.
MetadataRefused(r) ==
    /\ request[r].pc \in {"add", "replace"}
    /\ Return(r)
    /\ unsaved' = (unsaved \/ disk # providers)
    /\ UNCHANGED <<setupUnchanged, setup, disk, faults>>

\* DELETE
DeleteProvider(r, k) ==
    /\ CanChange(r)
    /\ providers' = RemoveAt(providers, k)
    /\ lastSet' = [lastSet EXCEPT ![providers[k].id] = Absent]
    /\ shifted' = shifted \ {providers[k].id}
    /\ GoSave(r)
    /\ UNCHANGED <<setupUnchanged, saving, nextID>>

SaveConfig(r) ==
    /\ request[r].pc = "save"
    /\ disk' = providers
    /\ unsaved' = FALSE
    /\ Return(r)
    /\ UNCHANGED <<setupUnchanged, setup, faults>>

SaveConfigFails(r) ==
    /\ request[r].pc = "save"
    /\ faults < MaxFaults
    /\ faults' = faults + 1
    /\ unsaved' = (unsaved \/ disk # providers)
    /\ Return(r)
    /\ UNCHANGED <<setupUnchanged, setup, disk>>

-----------------------------------------------------------------------------
(* Crash and restart.  New loads what it can of every provider.            *)

IdsOf(set) == {p.id : p \in set}

\* New: the service providers that it made.
LoadedOf(loaded) ==
    [id \in IDs |-> IF id \notin IdsOf(loaded) THEN Absent
                   ELSE LET p == CHOOSE p \in loaded : p.id = id
                        IN [url |-> p.url, allow |-> p.allow]]

AsConfigured(saved) ==
    [id \in IDs |-> IF id \notin IdsOf(ToSet(saved)) THEN Absent
                   ELSE CHOOSE p \in ToSet(saved) : p.id = id]

Restart ==
    /\ faults < MaxFaults
    /\ faults' = faults + 1
    /\ providers' = disk
    /\ \E loaded \in SUBSET ToSet(disk) :
         /\ serviceProvider' = LoadedOf(loaded)
         /\ loadFailed' = IdsOf(ToSet(disk) \ loaded)
    /\ mu' = NoHolder
    /\ sessions' = {}
    /\ request' = [r \in Requests |-> Idle]
    /\ lastSet' = AsConfigured(disk)
    /\ shifted' = {}
    /\ unsaved' = FALSE
    /\ UNCHANGED <<disk, nextID, changes, assertions>>

-----------------------------------------------------------------------------
\* A server that starts with one provider, whose metadata it could read or not.
Init ==
    /\ providers \in {<<p>> : p \in {q \in Provider : q.id = 1}}
    /\ disk = providers
    /\ \E loaded \in SUBSET ToSet(providers) :
         /\ serviceProvider = LoadedOf(loaded)
         /\ loadFailed = IdsOf(ToSet(providers) \ loaded)
    /\ mu = NoHolder /\ sessions = {}
    /\ request = [r \in Requests |-> Idle]
    /\ nextID = 2 /\ changes = 0 /\ faults = 0
    /\ lastSet = AsConfigured(providers)
    /\ shifted = {} /\ unsaved = FALSE
    /\ assertions = {}

LoginStep(r) ==
    \/ \E k \in DOMAIN providers : EnsureSPLoaded(r, k)
    \/ BeginLoad(r) \/ LoadSucceeds(r) \/ LoadFails(r)
    \/ UseEnds(r) \/ CreateSession(r) \/ CallbackReturns(r)
    \/ \E account \in Accounts : AssertionAccepted(r, account)
    \/ \E session \in sessions, id \in IDs : Callback(r, id, session)

SetupStep(r) ==
    \/ \E url \in URLs, allow \in Flags : AddProvider(r, url, allow)
    \/ \E k \in DOMAIN providers, url \in URLs, allow \in Flags : UpdateProvider(r, k, url, allow)
    \/ \E k \in DOMAIN providers : DeleteProvider(r, k)
    \/ ProviderAdded(r) \/ ProviderUpdated(r) \/ MetadataRefused(r)
    \/ SaveConfig(r) \/ SaveConfigFails(r)

Next == (\E r \in Requests : LoginStep(r) \/ SetupStep(r)) \/ Restart

Spec == Init /\ [][Next]_vars

-----------------------------------------------------------------------------
(* Properties.                                                             *)

\* The local variables of a request, and what it holds at each step.
Request ==
    {q \in [pc : {"idle", "load", "fetch", "use", "session", "token", "add", "replace", "save"},
            provider : Provider \cup {Absent}, index : Nat, session : Session \cup {Absent}] :
        /\ q.pc \in {"load", "fetch", "use", "add", "replace"} => q.provider # Absent
        /\ q.pc \in {"session", "token"} => q.session # Absent
        /\ q.pc = "replace" => q.index > 0}

\* The types of the state.
TypeOK ==
    /\ providers \in Seq(Provider) /\ disk \in Seq(Provider)
    /\ serviceProvider \in [IDs -> Entry \cup {Absent, Nil}]
    /\ mu \in Requests \cup {NoHolder}
    /\ sessions \subseteq Session /\ assertions \subseteq Session
    /\ request \in [Requests -> Request]
    /\ nextID \in 1 .. MaxIDs + 1 /\ changes \in 0 .. MaxChanges /\ faults \in 0 .. MaxFaults
    /\ lastSet \in [IDs -> Provider \cup {Absent}]
    /\ shifted \subseteq IDs /\ unsaved \in BOOLEAN /\ loadFailed \subseteq IDs

\* An entry is taken back only by a request that goes on to make it again: a nil entry,
\* on which every login of the provider panics (middleware.go:26), is there only while
\* that request waits or fetches, or when the fetch has failed.
NilIsBeingReloaded ==
    \A id \in IDs : serviceProvider[id] = Nil =>
        \/ id \in loadFailed
        \/ \E r \in Requests : request[r].pc \in {"load", "fetch"} /\ request[r].provider.id = id

\* Each provider has the URL and the flag that a request for this very provider has set
\* last, whatever PUTs and POSTs overlap (samlSetupElementHandler, setup.go:316-359); only a
\* DELETE that moves the positions under a waiting PUT misplaces a change.
ProviderIsLastSet ==
    \A k \in DOMAIN providers :
        providers[k].id \notin shifted => providers[k] = lastSet[providers[k].id]

\* When no change is in flight config.json has the providers, unless the last save failed
\* or a PUT was refused after it had changed the flag (setup.go:335-344).
FileFollowsProviders ==
    (\A r \in Requests : request[r].pc \notin {"save", "replace"}) /\ ~unsaved => disk = providers

\* The providers, in memory and in config.json, are those that the requests have set.
ProvidersAreKept == ProviderIsLastSet /\ FileFollowsProviders

\* A token is made only from an assertion that was accepted from the provider of the
\* callback, for the account that it named (session.go:8, rest/auth.go:208-225).
TokensComeFromAssertions ==
    \A r \in Requests : request[r].pc = "token" => request[r].session \in assertions

\* mu is held only by a request that fetches, so no login waits for ever to load its
\* provider or to create its session (middleware.go:40, session.go:23).
NoLoginIsStuck == mu # NoHolder => request[mu].pc = "fetch"

-----------------------------------------------------------------------------
(* What makes the invariants inductive.                                    *)

\* An id is given once, and the providers of a list have ids of their own.
HasOwnIds(list) ==
    /\ \A k \in DOMAIN list : list[k].id < nextID
    /\ \A j, k \in DOMAIN list : list[j].id = list[k].id => j = k

\* Also a provider that is about to be added has an id of its own.
IdsAreNew ==
    /\ HasOwnIds(providers) /\ HasOwnIds(disk)
    /\ \A r \in Requests : request[r].pc = "add" =>
         /\ request[r].provider.id < nextID
         /\ \A k \in DOMAIN providers : providers[k].id # request[r].provider.id
         /\ \A q \in Requests : /\ request[q].pc = "add"
                               /\ request[q].provider.id = request[r].provider.id => q = r

\* A provider of the list has been set, under its id.
ProvidersAreSet ==
    \A k \in DOMAIN providers : lastSet[providers[k].id] # Absent

\* A session, and what will be one, is of an assertion.
SessionsComeFromAssertions ==
    /\ IsFiniteSet(assertions) /\ sessions \subseteq assertions
    /\ \A r \in Requests : request[r].pc = "session" => request[r].session \in assertions

\* When the file is behind, somebody will save, or write to a position that is there and save.
SomebodySaves ==
    disk = providers \/ unsaved \/ \E r \in Requests :
        \/ request[r].pc = "save"
        \/ request[r].pc = "replace" /\ request[r].index <= Len(providers)

Strengthenings ==
    IdsAreNew /\ ProvidersAreSet /\ SessionsComeFromAssertions /\ SomebodySaves
=============================================================================
