----------------------------- MODULE KeyCaches ------------------------------
(***************************************************************************)
(* How the server finds the key that verifies a token of a provider: the   *)
(* caches of discovery documents and key sets (auth/oidc/store), and the   *)
(* requests that walk them (authMiddleware for every provider, a callback  *)
(* for one).  A cache is read without the lock and set under it; between   *)
(* the two lies a request to the provider, so requests for one document    *)
(* overlap and their answers are set in any order.  The caches are saved   *)
(* with oidcstore.json and survive a restart.                              *)
(*                                                                         *)
(* Time is counted in ticks.  A provider publishes one key at a time, at   *)
(* one location; it changes the key, or the location with it, at a tick.   *)
(* A request waits for a provider at most Timeout, and for nothing else.   *)
(***************************************************************************)
EXTENDS Integers, SequencesExt

CONSTANTS
    Requests,      \* requests in flight
    Providers,     \* c.OIDCProviders, a sequence
    DiscoveryTTL,  \* how long a discovery document is cached: 12 hours
    JwksTTL,       \* how long a key set is cached: 20 minutes
    Timeout,       \* of a request to a provider: 5 seconds
    MaxTime,       \* bound: ticks
    MaxChanges,    \* bound: changes of keys and locations
    Absent         \* not in the cache

Provider == ToSet(Providers)

ASSUME Parameters ==
    /\ Providers \in Seq(Provider) /\ IsInjective(Providers) /\ Len(Providers) > 0
    /\ {DiscoveryTTL, JwksTTL, Timeout, MaxTime, MaxChanges} \subseteq Nat
    /\ Timeout > 0 /\ DiscoveryTTL > 0 /\ JwksTTL > 0

Versions == 0 .. MaxChanges

\* What a provider publishes: where its keys are, and the key that is there.
Publication == [location : Versions, version : Versions]

VARIABLES
    clock,
    published,       \* what each provider has published, tick by tick
    discoveryCache,  \* the location of each provider's keys, and until when it holds
    jwksCache,       \* the key at each location, and until when it holds
    saved,           \* the caches in oidcstore.json
    request          \* local variables of each request

caches == <<discoveryCache, jwksCache>>
vars == <<clock, published, caches, saved, request>>

Idle == [pc |-> "idle", targets |-> <<>>, discoveries |-> <<>>, jwks |-> <<>>, started |-> 0]

Return(r) == request' = [request EXCEPT ![r] = Idle]

\* What p has published during the ticks of a request that is answered now.
LocationsSince(p, started) == {published[p][t + 1].location : t \in started .. clock}

\* The keys of p were at the location by then.
WasAt(p, location, t) == \E s \in 0 .. t : published[p][s + 1].location = location

\* A location that was left keeps its last key.
ServedAt(p, location, t) ==
    LET times == {s \in 0 .. t : published[p][s + 1].location = location} IN
    published[p][Max(times) + 1].version

KeysSince(p, location, started) ==
    {ServedAt(p, location, t) : t \in {s \in started .. clock : WasAt(p, location, s)}}

\* Mutant: the expiration is not looked at.
IsThere(entry, now) == entry # Absent

\* Expiration.After(time.Now())
IsFresh(entry, now) == entry # Absent /\ entry.expiration > now

-----------------------------------------------------------------------------
(* GetDiscoveryURI.                                                        *)

\* The middleware asks for all documents first, then for all keys.
NextTarget(r) == request[r].targets[Len(request[r].discoveries) + 1]

GotDiscovery(r, location) ==
    request' = [request EXCEPT
        ![r].discoveries = Append(@, location), ![r].started = 0,
        ![r].pc = IF Len(request[r].discoveries) + 1 = Len(request[r].targets)
                  THEN "jwks" ELSE "discovery"]

HitDiscovery(r) ==
    /\ request[r].pc = "discovery"
    /\ IsFresh(discoveryCache[NextTarget(r)], clock)
    /\ GotDiscovery(r, discoveryCache[NextTarget(r)].location)
    /\ UNCHANGED <<clock, published, caches, saved>>

AskDiscovery(r) ==
    /\ request[r].pc = "discovery"
    /\ ~IsFresh(discoveryCache[NextTarget(r)], clock)
    /\ request' = [request EXCEPT ![r].pc = "fetchDiscovery", ![r].started = clock]
    /\ UNCHANGED <<clock, published, caches, saved>>

\* The answer is as old as the request at most; it is set although another may be newer.
DiscoveryAnswered(r) ==
    LET p == NextTarget(r) IN
    /\ request[r].pc = "fetchDiscovery"
    /\ \E location \in LocationsSince(p, request[r].started) :
         /\ discoveryCache' = [discoveryCache EXCEPT ![p] =
                [location |-> location, expiration |-> clock + DiscoveryTTL]]
         /\ GotDiscovery(r, location)
    /\ UNCHANGED <<clock, published, jwksCache, saved>>

-----------------------------------------------------------------------------
(* GetJwks, GetAllJwks.                                                    *)

NextKeys(r) == Len(request[r].jwks) + 1

\* The provider and the location that come next.
KeysProvider(r) == request[r].targets[NextKeys(r)]
KeysLocation(r) == request[r].discoveries[NextKeys(r)]

GotKeys(r, version) ==
    request' = [request EXCEPT
        ![r].jwks = Append(@, version), ![r].started = 0,
        ![r].pc = IF NextKeys(r) = Len(request[r].targets) THEN "verify" ELSE "jwks"]

CachedKeys(r) == jwksCache[KeysProvider(r)][KeysLocation(r)]

\* "Return cached keys only when they are still valid; otherwise fetch fresh keys."
HitKeys(r) ==
    /\ request[r].pc = "jwks"
    /\ IsFresh(CachedKeys(r), clock)
    /\ GotKeys(r, CachedKeys(r).version)
    /\ UNCHANGED <<clock, published, caches, saved>>

AskKeys(r) ==
    /\ request[r].pc = "jwks"
    /\ ~IsFresh(CachedKeys(r), clock)
    /\ request' = [request EXCEPT ![r].pc = "fetchKeys", ![r].started = clock]
    /\ UNCHANGED <<clock, published, caches, saved>>

\* Mutant: the keys are cached as long as the discovery document.
CachedAsDiscovery(version) == [version |-> version, expiration |-> clock + DiscoveryTTL]

CachedFor(version) == [version |-> version, expiration |-> clock + JwksTTL]

KeysAnswered(r) ==
    LET p == KeysProvider(r)
        location == KeysLocation(r) IN
    /\ request[r].pc = "fetchKeys"
    /\ \E version \in KeysSince(p, location, request[r].started) :
         /\ jwksCache' = [jwksCache EXCEPT ![p][location] = CachedFor(version)]
         /\ GotKeys(r, version)
    /\ UNCHANGED <<clock, published, discoveryCache, saved>>

\* A provider that does not answer fails the request, whichever provider its token is of.
FetchFails(r) ==
    /\ request[r].pc \in {"fetchDiscovery", "fetchKeys"}
    /\ Return(r)
    /\ UNCHANGED <<clock, published, caches, saved>>

-----------------------------------------------------------------------------
(* The requests: authMiddleware and the callback.                          *)

Walk(r, targets) ==
    /\ request[r].pc = "idle"
    /\ request' = [request EXCEPT ![r] = [Idle EXCEPT !.pc = "discovery", !.targets = targets]]
    /\ UNCHANGED <<clock, published, caches, saved>>

authMiddleware(r) == Walk(r, Providers)

callback(r) == \E p \in Provider : Walk(r, <<p>>)

\* The key of some provider has the id that the token names.
GetPublicKeyForToken(r, kid) ==
    \E k \in DOMAIN request[r].jwks :
        request[r].targets[k] = kid.provider /\ request[r].jwks[k] = kid.version

\* The token is verified, and the request answered.
Verify(r) ==
    /\ request[r].pc = "verify"
    /\ Return(r)
    /\ UNCHANGED <<clock, published, caches, saved>>

\* SaveOIDCStore, after a callback or a renewal.
SaveOIDCStore ==
    /\ saved' = caches
    /\ UNCHANGED <<clock, published, caches, request>>

\* NewStore
Restart ==
    /\ discoveryCache' = saved[1] /\ jwksCache' = saved[2]
    /\ request' = [r \in Requests |-> Idle]
    /\ UNCHANGED <<clock, published, saved>>

-----------------------------------------------------------------------------
\* Keys and locations are numbered in the order in which they are published; the bound is on
\* all providers together.
MayPublish(p) ==
    LET now == Last(published[p]) IN
    {now} \cup
        IF now.version < MaxChanges /\ \A q \in Provider \ {p} : Last(published[q]).version = 0
        THEN {[now EXCEPT !.version = @ + 1],
              [location |-> now.location + 1, version |-> now.version + 1]}
        ELSE {}

\* A request goes on as long as it can without a provider, and waits for one no longer
\* than the timeout of the client.
Waits(r) ==
    \/ request[r].pc = "idle"
    \/ /\ request[r].pc \in {"fetchDiscovery", "fetchKeys"}
       /\ clock < request[r].started + Timeout

\* What is left of an image of the caches at that time.  An entry that is no longer fresh
\* is replaced and never used; the model forgets it.
FreshPart(image, now) ==
    <<[p \in Provider |-> IF IsFresh(image[1][p], now) THEN image[1][p] ELSE Absent],
      [p \in Provider |-> [l \in Versions |->
          IF IsFresh(image[2][p][l], now) THEN image[2][p][l] ELSE Absent]]>>

Tick ==
    /\ clock < MaxTime
    /\ \A r \in Requests : Waits(r)
    /\ clock' = clock + 1
    /\ \E p \in Provider : \E publication \in MayPublish(p) :
         published' = [q \in Provider |->
             Append(published[q], IF q = p THEN publication ELSE Last(published[q]))]
    /\ discoveryCache' = FreshPart(caches, clock + 1)[1]
    /\ jwksCache' = FreshPart(caches, clock + 1)[2]
    /\ saved' = FreshPart(saved, clock + 1)
    /\ UNCHANGED request

NoCaches == <<[p \in Provider |-> Absent], [p \in Provider |-> [l \in Versions |-> Absent]]>>

Init ==
    /\ clock = 0
    /\ published = [p \in Provider |-> <<[location |-> 0, version |-> 0]>>]
    /\ discoveryCache = NoCaches[1] /\ jwksCache = NoCaches[2] /\ saved = NoCaches
    /\ request = [r \in Requests |-> Idle]

RequestStep(r) ==
    \/ authMiddleware(r) \/ callback(r)
    \/ HitDiscovery(r) \/ AskDiscovery(r) \/ DiscoveryAnswered(r)
    \/ HitKeys(r) \/ AskKeys(r) \/ KeysAnswered(r) \/ FetchFails(r)
    \/ Verify(r)

Next == (\E r \in Requests : RequestStep(r)) \/ SaveOIDCStore \/ Restart \/ Tick

Spec == Init /\ [][Next]_vars

-----------------------------------------------------------------------------
(* Properties.                                                             *)

CachedLocation == [location : Versions, expiration : Nat]
CachedKey == [version : Versions, expiration : Nat]

\* The types of the state; nothing is cached for longer than its kind, in memory or in
\* oidcstore.json.
TypeOK ==
    /\ clock \in 0 .. MaxTime
    /\ \A p \in Provider : published[p] \in Seq(Publication) /\ Len(published[p]) = clock + 1
    /\ \A image \in {caches, saved} :
         /\ image[1] \in [Provider -> CachedLocation \cup {Absent}]
         /\ image[2] \in [Provider -> [Versions -> CachedKey \cup {Absent}]]
         /\ \A p \in Provider :
              /\ image[1][p] # Absent => image[1][p].expiration <= clock + DiscoveryTTL
              /\ \A l \in Versions :
                   image[2][p][l] # Absent => image[2][p][l].expiration <= clock + JwksTTL
    /\ \A r \in Requests :
         /\ request[r].discoveries \in Seq(Versions) /\ request[r].jwks \in Seq(Versions)
         /\ request[r].started \in 0 .. clock

\* The ticks of the last age ticks.
Since(age) == {t \in 0 .. clock : clock - t < age}

\* A token is accepted or refused as its provider itself would have answered a moment ago:
\* by a key set that is no older than its cache and the requests that this one waited for,
\* at a location no older than that of its own cache (authMiddleware, middleware.go:53-80;
\* discovery.go:15, jwks.go:17), whatever answers overlap, change order or survive a restart.
VerdictsAreCurrent ==
    \A r \in Requests : request[r].pc = "verify" =>
        LET n == Len(request[r].targets) IN
        \A p \in ToSet(request[r].targets), version \in Versions :
            \E d \in Since(DiscoveryTTL + 2 * n * Timeout), t \in Since(JwksTTL + n * Timeout) :
                LET location == published[p][d + 1].location IN
                /\ WasAt(p, location, t)
                /\ GetPublicKeyForToken(r, [provider |-> p, version |-> version])
                       = (ServedAt(p, location, t) = version)
=============================================================================
