-------------------------- MODULE KeyCachesProofs ---------------------------
(* Theorems about KeyCaches, for any requests and list of providers, any times *)
(* and any number of changes.                                                  *)
EXTENDS KeyCaches, SequenceTheorems, FiniteSetTheorems, WellFoundedInduction, TLAPS

-----------------------------------------------------------------------------
(* What was published, whatever the history is.                             *)

\* Where p had its keys by a tick, and the last one there, in a history.
WasIn(history, p, location, t) == \E s \in 0 .. t : history[p][s + 1].location = location
ServedIn(history, p, location, t) ==
    LET times == {s \in 0 .. t : history[p][s + 1].location = location} IN
    history[p][Max(times) + 1].version

\* p had its keys at the location at a tick from the given one on.
Heard(history, now, p, location, from) ==
    \E d \in 0 .. now : d >= from /\ history[p][d + 1].location = location

\* The location of p held the key at a tick from the given one on.
Served(history, now, p, location, version, from) ==
    \E t \in 0 .. now : t >= from /\ WasIn(history, p, location, t)
                                  /\ ServedIn(history, p, location, t) = version

\* A set of ticks has a last one, which FiniteSetsExt chooses.
LEMMA HasGreatest ==
    ASSUME NEW n \in Nat, NEW I, I \subseteq 0 .. n, I # {}
    PROVE  Max(I) \in I /\ \A i \in I : i <= Max(I)
<1> DEFINE R == StrictSubsetOrdering(Nat)
           T == {0 .. n - i : i \in I}
<1>1. T \subseteq FiniteSubsetsOf(Nat)
  <2>1. \A i \in I : IsFiniteSet(0 .. n - i) /\ 0 .. n - i \subseteq Nat
    BY FS_Interval
  <2> QED BY <2>1 DEF FiniteSubsetsOf
<1>2. T # {}
  OBVIOUS
<1>3. PICK X \in T : \A Y \in T : <<Y, X>> \notin R
  <2> HIDE DEF T, R
  <2>1. IsWellFoundedOn(R, FiniteSubsetsOf(Nat))
    BY FS_StrictSubsetOrderingWellFounded DEF R
  <2> QED BY <1>1, <1>2, <2>1, WFMin
<1>4. PICK x \in I : X = 0 .. n - x
  BY <1>3
<1>5. \A y \in I : x >= y
  <2> SUFFICES ASSUME NEW y \in I, y > x PROVE FALSE
    BY <1>4
  <2>1. 0 .. n - y \subseteq 0 .. n - x /\ 0 .. n - y # 0 .. n - x
    <3>1. n - x \in 0 .. n - x /\ n - x \notin 0 .. n - y
      BY <1>4
    <3> QED BY <3>1, <1>4
  <2>2. <<0 .. n - y, X>> \notin R
    BY <1>3
  <2>3. 0 .. n - y \subseteq Nat /\ 0 .. n - x \subseteq Nat
    OBVIOUS
  <2> QED BY <1>4, <2>1, <2>2, <2>3 DEF StrictSubsetOrdering
<1>6. \A x2, y2 \in I : x2 >= y2 <=> y2 <= x2
  OBVIOUS
<1> DEFINE m == CHOOSE z \in I : \A y \in I : z >= y
<1>7. m \in I /\ \A y \in I : m >= y
  BY <1>4, <1>5
<1>8. Max(I) = m
  BY DEF Max
<1> QED BY <1>6, <1>7, <1>8

\* What was published stays: a history that goes on says the same of its past.
LEMMA HistoryStays ==
    ASSUME NEW old, NEW new, NEW p, NEW now \in Nat,
           \A s \in 0 .. now : new[p][s + 1] = old[p][s + 1],
           NEW location, NEW t \in 0 .. now
    PROVE  /\ WasIn(new, p, location, t) <=> WasIn(old, p, location, t)
           /\ WasIn(old, p, location, t) =>
                ServedIn(new, p, location, t) = ServedIn(old, p, location, t)
<1> DEFINE I == {s \in 0 .. t : old[p][s + 1].location = location}
           J == {s \in 0 .. t : new[p][s + 1].location = location}
<1>1. \A s \in 0 .. t : new[p][s + 1] = old[p][s + 1]
  OBVIOUS
<1>2. I = J
  BY <1>1
<1>3. WasIn(new, p, location, t) <=> WasIn(old, p, location, t)
  BY <1>1 DEF WasIn
<1>4. ASSUME WasIn(old, p, location, t)
      PROVE  ServedIn(new, p, location, t) = ServedIn(old, p, location, t)
  <2>1. I # {} /\ I \subseteq 0 .. t /\ t \in Nat
    <3>1. PICK s \in 0 .. t : old[p][s + 1].location = location
      BY <1>4 DEF WasIn
    <3>2. s \in I
      BY <3>1
    <3>3. I \subseteq 0 .. t /\ t \in Nat
      OBVIOUS
    <3> HIDE DEF I
    <3> QED BY <3>2, <3>3
  <2> HIDE DEF I, J
  <2>2. Max(I) \in I
    BY <2>1, HasGreatest
  <2>3. Max(I) \in 0 .. t /\ Max(I) = Max(J)
    BY <1>2, <2>1, <2>2
  <2>4. new[p][Max(J) + 1] = old[p][Max(I) + 1]
    BY <1>1, <2>3
  <2> QED BY <2>4 DEF ServedIn, I, J
<1> QED BY <1>3, <1>4

\* A history goes on.
GoesOn(old, was, new, now) ==
    /\ was \in Nat /\ now \in Nat /\ was <= now
    /\ \A p \in Provider : \A s \in 0 .. was : new[p][s + 1] = old[p][s + 1]

\* What was heard stays heard, of an earlier tick too.
LEMMA StillHeard ==
    ASSUME NEW old, NEW was, NEW new, NEW now, GoesOn(old, was, new, now),
           NEW p \in Provider, NEW location, NEW from \in Int, NEW earlier \in Int,
           earlier <= from, Heard(old, was, p, location, from)
    PROVE  Heard(new, now, p, location, earlier)
<1>1. PICK d \in 0 .. was : d >= from /\ old[p][d + 1].location = location
  BY DEF Heard
<1>2. d \in 0 .. now /\ d >= earlier /\ new[p][d + 1].location = location
  BY <1>1 DEF GoesOn
<1> QED BY <1>2 DEF Heard

\* The same of keys.
LEMMA StillServed ==
    ASSUME NEW old, NEW was, NEW new, NEW now, GoesOn(old, was, new, now),
           NEW p \in Provider, NEW location, NEW version, NEW from \in Int,
           NEW earlier \in Int, earlier <= from, Served(old, was, p, location, version, from)
    PROVE  Served(new, now, p, location, version, earlier)
<1>1. PICK t \in 0 .. was : t >= from /\ WasIn(old, p, location, t)
                                      /\ ServedIn(old, p, location, t) = version
  BY DEF Served
<1>2. t \in 0 .. now /\ t >= earlier
  BY <1>1 DEF GoesOn
<1>3. WasIn(new, p, location, t) /\ ServedIn(new, p, location, t) = version
  BY <1>1, HistoryStays DEF GoesOn
<1> QED BY <1>2, <1>3 DEF Served

-----------------------------------------------------------------------------
(* What is known of the caches and of a request.                            *)

\* The history has a publication for each tick; a location has its number from the key
\* that was the first there.
Published(history, now) ==
    \A p \in Provider :
        /\ history[p] \in Seq(Publication) /\ Len(history[p]) = now + 1
        /\ \A t \in 1 .. now + 1 : history[p][t].location <= history[p][t].version

\* An entry was published when its request was made, or later.
LocationKnown(history, now, p, entry) ==
    entry # Absent =>
        /\ entry.expiration <= now + DiscoveryTTL
        /\ Heard(history, now, p, entry.location, entry.expiration - DiscoveryTTL - Timeout)
KeyKnown(history, now, p, location, entry) ==
    entry # Absent =>
        /\ entry.expiration <= now + JwksTTL
        /\ Served(history, now, p, location, entry.version,
                  entry.expiration - JwksTTL - Timeout)

\* The caches, in memory or in oidcstore.json.
Cached(history, now, image) ==
    /\ image[1] \in [Provider -> CachedLocation \cup {Absent}]
    /\ image[2] \in [Provider -> [Versions -> CachedKey \cup {Absent}]]
    /\ \A p \in Provider :
          /\ LocationKnown(history, now, p, image[1][p])
          /\ \A l \in Versions : KeyKnown(history, now, p, l, image[2][p][l])

Fetching == {"fetchDiscovery", "fetchKeys"}

Request ==
    [pc : {"idle", "discovery", "fetchDiscovery", "jwks", "fetchKeys", "verify"},
     targets : Seq(Provider), discoveries : Seq(Versions), jwks : Seq(Versions), started : Nat]

\* The documents of all targets come before the keys of any; a target is there once.
InOrder(q, now) ==
    /\ IsInjective(q.targets) /\ q.started \in 0 .. now
    /\ q.pc \in {"discovery", "fetchDiscovery"} =>
          Len(q.discoveries) < Len(q.targets) /\ q.jwks = <<>>
    /\ q.pc \in {"jwks", "fetchKeys"} =>
          Len(q.discoveries) = Len(q.targets) /\ Len(q.jwks) < Len(q.targets)
    /\ q.pc = "verify" =>
          Len(q.discoveries) = Len(q.targets) /\ Len(q.jwks) = Len(q.targets)
    /\ q.pc = "idle" => q.discoveries = <<>> /\ q.jwks = <<>>
    /\ q.pc \in Fetching => now <= q.started + Timeout

\* Since when a request has not waited for the provider it is at.
Asked(q, now) == IF q.pc \in Fetching THEN q.started ELSE now

\* What a request has was published not longer ago than its cache holds it and the request
\* has waited since: for the provider it is at, and for each one after the k-th.
LocationsHeard(history, now, q) ==
    \A k \in 1 .. Len(q.discoveries) :
        Heard(history, now, q.targets[k], q.discoveries[k],
              Asked(q, now) + 1 - DiscoveryTTL
                  - Timeout * (Len(q.discoveries) - k + 1 + Len(q.jwks)))
KeysServed(history, now, q) ==
    \A k \in 1 .. Len(q.jwks) :
        Served(history, now, q.targets[k], q.discoveries[k], q.jwks[k],
               Asked(q, now) + 1 - JwksTTL - Timeout * (Len(q.jwks) - k + 1))

Answered(history, now, q) ==
    InOrder(q, now) /\ LocationsHeard(history, now, q) /\ KeysServed(history, now, q)

\* The inductive invariant.
CacheInv ==
    /\ clock \in 0 .. MaxTime
    /\ Published(published, clock)
    /\ Cached(published, clock, caches) /\ Cached(published, clock, saved)
    /\ request \in [Requests -> Request]
    /\ \A r \in Requests : Answered(published, clock, request[r])

\* The constants are numbers, and a list of providers.
LEMMA CacheBounds ==
    /\ DiscoveryTTL \in Nat /\ JwksTTL \in Nat /\ Timeout \in Nat
    /\ MaxTime \in Nat /\ MaxChanges \in Nat
    /\ Timeout > 0 /\ DiscoveryTTL > 0 /\ JwksTTL > 0
    /\ IsInjective(Providers)
BY Parameters

\* Waiting for one more provider takes a timeout longer.
LEMMA OneMoreWait ==
    ASSUME NEW n \in Nat
    PROVE  Timeout * n \in Nat /\ Timeout * (n + 1) = Timeout * n + Timeout
<1>1. Timeout \in Nat
  BY CacheBounds
<1> QED BY <1>1

\* A wait for a provider that ends now began no earlier than a timeout ago: what was true as
\* of its start is true as of now, with one more wait.
LEMMA OneWaitEarlier ==
    ASSUME NEW n \in Nat, NEW ttl \in Nat, NEW asked \in Nat, NEW now \in Nat,
           now <= asked + Timeout
    PROVE  /\ asked + 1 - ttl - Timeout * n \in Int
           /\ now + 1 - ttl - Timeout * (n + 1) \in Int
           /\ now + 1 - ttl - Timeout * (n + 1) <= asked + 1 - ttl - Timeout * n
<1> DEFINE w == Timeout * n
           v == Timeout * (n + 1)
<1>1. w \in Nat /\ v = w + Timeout /\ Timeout \in Nat
  BY OneMoreWait, CacheBounds
<1> HIDE DEF w, v
<1>2. /\ asked + 1 - ttl - w \in Int /\ now + 1 - ttl - v \in Int
      /\ now + 1 - ttl - v <= asked + 1 - ttl - w
  BY <1>1
<1> QED BY <1>2 DEF w, v

\* What is waited is a number.
LEMMA WaitIsNumber ==
    ASSUME NEW n \in Int
    PROVE  Timeout * n \in Int
BY CacheBounds

\* Waiting for more providers takes longer.
LEMMA WaitsAddUp ==
    ASSUME NEW m \in Nat, NEW n \in Nat, m <= n
    PROVE  Timeout * m <= Timeout * n
<1>1. PICK e \in Nat : n = m + e
  <2>1. n - m \in Nat /\ n = m + (n - m)
    OBVIOUS
  <2> QED BY <2>1
<1>2. Timeout * (m + e) = Timeout * m + Timeout * e
  BY CacheBounds
<1>3. Timeout * e \in Nat /\ Timeout * m \in Nat
  BY CacheBounds
<1> QED BY <1>1, <1>2, <1>3

-----------------------------------------------------------------------------
(* What a step does to one request.                                         *)

\* The parts of a request.
LEMMA CheckParts ==
    ASSUME NEW q \in Request
    PROVE  /\ q.targets \in Seq(Provider) /\ Len(q.targets) \in Nat
           /\ \A k \in 1 .. Len(q.targets) : q.targets[k] \in Provider
           /\ q.discoveries \in Seq(Versions) /\ Len(q.discoveries) \in Nat
           /\ \A k \in 1 .. Len(q.discoveries) : q.discoveries[k] \in Versions
           /\ q.jwks \in Seq(Versions) /\ Len(q.jwks) \in Nat
           /\ \A k \in 1 .. Len(q.jwks) : q.jwks[k] \in Versions
           /\ q.started \in Nat
BY DEF Request

\* A request has not waited longer than the timeout for the provider it is at.
LEMMA AskedLately ==
    ASSUME NEW q \in Request, NEW now \in Nat, InOrder(q, now)
    PROVE  Asked(q, now) \in Nat /\ Asked(q, now) <= now /\ now <= Asked(q, now) + Timeout
BY CacheBounds, CheckParts DEF InOrder, Asked

\* What was heard from a tick on was heard from an earlier one on.
LEMMA HeardFromEarlier ==
    ASSUME NEW history, NEW now \in Nat, NEW p, NEW location, NEW from \in Int,
           NEW earlier \in Int, earlier <= from, Heard(history, now, p, location, from)
    PROVE  Heard(history, now, p, location, earlier)
BY DEF Heard

\* The same of keys.
LEMMA ServedFromEarlier ==
    ASSUME NEW history, NEW now \in Nat, NEW p, NEW location, NEW version, NEW from \in Int,
           NEW earlier \in Int, earlier <= from,
           Served(history, now, p, location, version, from)
    PROVE  Served(history, now, p, location, version, earlier)
BY DEF Served

\* A list with one more element.
LEMMA OneMoreAnswer ==
    ASSUME NEW S, NEW list \in Seq(S), NEW e \in S
    PROVE  /\ Append(list, e) \in Seq(S) /\ Len(Append(list, e)) = Len(list) + 1
           /\ \A k \in 1 .. Len(list) : Append(list, e)[k] = list[k]
           /\ Append(list, e)[Len(list) + 1] = e
OBVIOUS

\* GetDiscoveryURI has returned (discovery.go:13-43).
LEMMA LocationGot ==
    ASSUME NEW history, NEW now \in Nat, NEW q \in Request, Answered(history, now, q),
           q.pc \in {"discovery", "fetchDiscovery"}, NEW location \in Versions,
           Heard(history, now, q.targets[Len(q.discoveries) + 1], location,
                 now + 1 - DiscoveryTTL - Timeout),
           NEW u \in Request, u.targets = q.targets, u.jwks = q.jwks, u.started = 0,
           u.discoveries = Append(q.discoveries, location),
           u.pc = IF Len(q.discoveries) + 1 = Len(q.targets) THEN "jwks" ELSE "discovery"
    PROVE  Answered(history, now, u)
<1> DEFINE n == Len(q.discoveries)
<1>1. /\ n \in Nat /\ n + 1 <= Len(q.targets) /\ Len(q.targets) \in Nat /\ q.jwks = <<>>
      /\ u.discoveries \in Seq(Versions) /\ Len(u.discoveries) = n + 1
      /\ \A k \in 1 .. n : u.discoveries[k] = q.discoveries[k]
      /\ u.discoveries[n + 1] = location
  <2>1. q.discoveries \in Seq(Versions) /\ n \in Nat /\ Len(q.targets) \in Nat
    BY CheckParts
  <2>2. n < Len(q.targets) /\ q.jwks = <<>>
    BY DEF Answered, InOrder
  <2>3. n + 1 <= Len(q.targets)
    <3> HIDE DEF n
    <3> QED BY <2>1, <2>2
  <2>4. /\ u.discoveries \in Seq(Versions) /\ Len(u.discoveries) = n + 1
        /\ \A k \in 1 .. n : u.discoveries[k] = q.discoveries[k]
        /\ u.discoveries[n + 1] = location
    BY <2>1, OneMoreAnswer
  <2> QED BY <2>1, <2>2, <2>3, <2>4
<1>2. u.pc \in {"jwks", "discovery"} /\ (u.pc = "jwks" <=> n + 1 = Len(q.targets))
  <2>1. CASE n + 1 = Len(q.targets)
    <3>1. u.pc = "jwks"
      BY <2>1
    <3> QED BY <2>1, <3>1
  <2>2. CASE n + 1 # Len(q.targets)
    <3>1. u.pc = "discovery"
      BY <2>2
    <3> QED BY <2>2, <3>1
  <2> QED BY <2>1, <2>2
<1>3. Len(u.jwks) = 0 /\ u.jwks = <<>>
  BY <1>1
<1>4. InOrder(u, now)
  BY <1>1, <1>2, <1>3 DEF InOrder, Answered, Fetching
<1>5. Asked(u, now) = now
  BY <1>2 DEF Asked, Fetching
<1>6. LocationsHeard(history, now, u)
  <2> SUFFICES ASSUME NEW k \in 1 .. n + 1
               PROVE  Heard(history, now, u.targets[k], u.discoveries[k],
                            now + 1 - DiscoveryTTL - Timeout * (n + 1 - k + 1))
    BY <1>1, <1>3, <1>5 DEF LocationsHeard
  <2>1. CASE k = n + 1
    <3>1. Timeout * (n + 1 - k + 1) = Timeout
      BY <1>1, <2>1, CacheBounds
    <3> QED BY <1>1, <2>1, <3>1
  <2>2. CASE k \in 1 .. n
    <3> DEFINE m == n - k + 1
               from == Asked(q, now) + 1 - DiscoveryTTL - Timeout * m
               earlier == now + 1 - DiscoveryTTL - Timeout * (m + 1)
    <3>1. m \in Nat /\ n + 1 - k + 1 = m + 1 /\ n - k + 1 + Len(q.jwks) = m
      BY <1>1, <1>3, <2>2
    <3>2. Heard(history, now, q.targets[k], q.discoveries[k], from)
      BY <1>1, <2>2, <3>1 DEF Answered, LocationsHeard
    <3>3. Asked(q, now) \in Nat /\ now <= Asked(q, now) + Timeout
      BY AskedLately DEF Answered
    <3> HIDE DEF m
    <3>4. from \in Int /\ earlier \in Int /\ earlier <= from
      BY <3>1, <3>3, OneWaitEarlier, CacheBounds
    <3> HIDE DEF from
    <3>5. \A x : x = earlier => Heard(history, now, q.targets[k], q.discoveries[k], x)
      <4> HIDE DEF earlier
      <4> QED BY <3>2, <3>4, HeardFromEarlier
    <3> QED BY <1>1, <2>2, <3>1, <3>5
  <2> QED BY <1>1, <2>1, <2>2
<1>7. KeysServed(history, now, u)
  BY <1>3 DEF KeysServed
<1> QED BY <1>4, <1>6, <1>7 DEF Answered

\* GetJwks has returned (jwks.go:13-45).
LEMMA KeysGot ==
    ASSUME NEW history, NEW now \in Nat, NEW q \in Request, Answered(history, now, q),
           q.pc \in {"jwks", "fetchKeys"}, NEW version \in Versions,
           Served(history, now, q.targets[Len(q.jwks) + 1], q.discoveries[Len(q.jwks) + 1],
                  version, now + 1 - JwksTTL - Timeout),
           NEW u \in Request, u.targets = q.targets, u.discoveries = q.discoveries,
           u.started = 0, u.jwks = Append(q.jwks, version),
           u.pc = IF Len(q.jwks) + 1 = Len(q.targets) THEN "verify" ELSE "jwks"
    PROVE  Answered(history, now, u)
<1> DEFINE n == Len(q.discoveries)
           j == Len(q.jwks)
<1>1. /\ n \in Nat /\ n = Len(q.targets) /\ j \in Nat /\ j + 1 <= n
      /\ u.jwks \in Seq(Versions) /\ Len(u.jwks) = j + 1
      /\ \A k \in 1 .. j : u.jwks[k] = q.jwks[k]
      /\ u.jwks[j + 1] = version
  <2>1. q.jwks \in Seq(Versions) /\ n \in Nat /\ j \in Nat
    BY CheckParts
  <2>2. n = Len(q.targets) /\ j < n
    BY DEF Answered, InOrder
  <2>3. j + 1 <= n
    <3> HIDE DEF n, j
    <3> QED BY <2>1, <2>2
  <2>4. /\ u.jwks \in Seq(Versions) /\ Len(u.jwks) = j + 1
        /\ \A k \in 1 .. j : u.jwks[k] = q.jwks[k]
        /\ u.jwks[j + 1] = version
    BY <2>1, OneMoreAnswer
  <2> QED BY <2>1, <2>2, <2>3, <2>4
<1>2. u.pc \in {"jwks", "verify"} /\ (u.pc = "verify" <=> j + 1 = Len(q.targets))
  <2>1. CASE j + 1 = Len(q.targets)
    <3>1. u.pc = "verify"
      BY <2>1
    <3> QED BY <2>1, <3>1
  <2>2. CASE j + 1 # Len(q.targets)
    <3>1. u.pc = "jwks"
      BY <2>2
    <3> QED BY <2>2, <3>1
  <2> QED BY <2>1, <2>2
<1>3. InOrder(u, now)
  BY <1>1, <1>2 DEF InOrder, Answered, Fetching
<1>4. Asked(u, now) = now
  BY <1>2 DEF Asked, Fetching
<1>5. Asked(q, now) \in Nat /\ now <= Asked(q, now) + Timeout
  BY AskedLately DEF Answered
<1>6. LocationsHeard(history, now, u)
  <2> SUFFICES ASSUME NEW k \in 1 .. n
               PROVE  Heard(history, now, u.targets[k], u.discoveries[k],
                            now + 1 - DiscoveryTTL - Timeout * (n - k + 1 + (j + 1)))
    BY <1>1, <1>4 DEF LocationsHeard
  <2> DEFINE m == n - k + 1 + j
             from == Asked(q, now) + 1 - DiscoveryTTL - Timeout * m
             earlier == now + 1 - DiscoveryTTL - Timeout * (m + 1)
  <2>1. m \in Nat /\ n - k + 1 + (j + 1) = m + 1
    <3>1. n \in Nat /\ j \in Nat
      BY <1>1
    <3> HIDE DEF n, j
    <3> QED BY <3>1
  <2>2. Heard(history, now, q.targets[k], q.discoveries[k], from)
    BY <1>1, <2>1 DEF Answered, LocationsHeard
  <2> HIDE DEF m
  <2>3. from \in Int /\ earlier \in Int /\ earlier <= from
    BY <1>5, <2>1, OneWaitEarlier, CacheBounds
  <2> HIDE DEF from
  <2>4. \A x : x = earlier => Heard(history, now, q.targets[k], q.discoveries[k], x)
    <3> HIDE DEF earlier
    <3> QED BY <2>2, <2>3, HeardFromEarlier
  <2> QED BY <2>1, <2>4
<1>7. KeysServed(history, now, u)
  <2> SUFFICES ASSUME NEW k \in 1 .. Len(u.jwks)
               PROVE  Served(history, now, u.targets[k], u.discoveries[k], u.jwks[k],
                             Asked(u, now) + 1 - JwksTTL - Timeout * (Len(u.jwks) - k + 1))
    BY DEF KeysServed
  <2>1. k \in 1 .. j + 1 /\ Len(u.jwks) - k + 1 = j + 1 - k + 1
    BY <1>1
  <2>2. CASE k = j + 1
    <3>1. Timeout * (Len(u.jwks) - k + 1) = Timeout
      BY <1>1, <2>2, CacheBounds
    <3> QED BY <1>1, <1>4, <2>2, <3>1
  <2>3. CASE k \in 1 .. j
    <3> DEFINE m == j - k + 1
               from == Asked(q, now) + 1 - JwksTTL - Timeout * m
               earlier == now + 1 - JwksTTL - Timeout * (m + 1)
    <3>1. m \in Nat /\ Len(u.jwks) - k + 1 = m + 1
      BY <1>1, <2>3
    <3>2. Served(history, now, q.targets[k], q.discoveries[k], q.jwks[k], from)
      BY <1>1, <2>3, <3>1 DEF Answered, KeysServed
    <3> HIDE DEF m
    <3>3. from \in Int /\ earlier \in Int /\ earlier <= from
      BY <1>5, <3>1, OneWaitEarlier, CacheBounds
    <3> HIDE DEF from
    <3>4. \A x : x = earlier =>
             Served(history, now, q.targets[k], q.discoveries[k], q.jwks[k], x)
      <4> HIDE DEF earlier
      <4> QED BY <3>2, <3>3, ServedFromEarlier
    <3> QED BY <1>1, <1>4, <2>3, <3>1, <3>4
  <2> QED BY <1>1, <2>1, <2>2, <2>3
<1> QED BY <1>3, <1>6, <1>7 DEF Answered

\* A request to a provider begins.
LEMMA AskBegins ==
    ASSUME NEW history, NEW now \in Nat, NEW q \in Request, Answered(history, now, q),
           NEW u \in Request, u.targets = q.targets, u.discoveries = q.discoveries,
           u.jwks = q.jwks, u.started = now,
           \/ q.pc = "discovery" /\ u.pc = "fetchDiscovery"
           \/ q.pc = "jwks" /\ u.pc = "fetchKeys"
    PROVE  Answered(history, now, u)
<1>1. Asked(u, now) = now /\ Asked(q, now) = now
  BY DEF Asked, Fetching
<1>2. InOrder(u, now)
  BY CacheBounds DEF Answered, InOrder, Fetching
<1>3. LocationsHeard(history, now, u) /\ KeysServed(history, now, u)
  BY <1>1 DEF Answered, LocationsHeard, KeysServed
<1> QED BY <1>2, <1>3 DEF Answered

\* A request that has just begun, or is not there.
LEMMA NothingAnswered ==
    ASSUME NEW history, NEW now \in Nat, NEW u \in Request,
           u.discoveries = <<>>, u.jwks = <<>>, u.started = 0, IsInjective(u.targets),
           u.pc = "idle" \/ (u.pc = "discovery" /\ Len(u.targets) > 0)
    PROVE  Answered(history, now, u)
<1>1. Len(u.discoveries) = 0 /\ Len(u.jwks) = 0
  OBVIOUS
<1>2. InOrder(u, now)
  BY <1>1 DEF InOrder, Fetching
<1>3. LocationsHeard(history, now, u) /\ KeysServed(history, now, u)
  BY <1>1 DEF LocationsHeard, KeysServed
<1> QED BY <1>2, <1>3 DEF Answered

\* A tick goes by while the request waits, or is not there.
LEMMA RequestWaits ==
    ASSUME NEW old, NEW was \in Nat, NEW new, GoesOn(old, was, new, was + 1),
           NEW q \in Request, Answered(old, was, q),
           \/ q.pc = "idle"
           \/ q.pc \in Fetching /\ was < q.started + Timeout
    PROVE  Answered(new, was + 1, q)
<1>1. q.started \in 0 .. was + 1
  BY DEF Answered, InOrder
<1>2. InOrder(q, was + 1)
  BY <1>1, CacheBounds DEF Answered, InOrder, Fetching
<1>3. CASE q.pc = "idle"
  <2>1. Len(q.discoveries) = 0 /\ Len(q.jwks) = 0
    BY <1>3 DEF Answered, InOrder
  <2> QED BY <1>2, <2>1 DEF Answered, LocationsHeard, KeysServed
<1>4. CASE q.pc \in Fetching
  <2>1. Asked(q, was) = q.started /\ Asked(q, was + 1) = q.started /\ q.started \in Nat
    BY <1>4, CheckParts DEF Asked
  <2>2. LocationsHeard(new, was + 1, q)
    <3> DEFINE from(k) == q.started + 1 - DiscoveryTTL
                              - Timeout * (Len(q.discoveries) - k + 1 + Len(q.jwks))
    <3> SUFFICES ASSUME NEW k \in 1 .. Len(q.discoveries)
                 PROVE  Heard(new, was + 1, q.targets[k], q.discoveries[k], from(k))
      BY <2>1 DEF LocationsHeard
    <3>1. Heard(old, was, q.targets[k], q.discoveries[k], from(k))
      BY <2>1 DEF Answered, LocationsHeard
    <3>2. from(k) \in Int /\ from(k) <= from(k)
      <4> DEFINE n == Len(q.discoveries) - k + 1 + Len(q.jwks)
      <4>1. n \in Int
        BY CheckParts
      <4> HIDE DEF n
      <4>2. Timeout * n \in Int
        BY <4>1, WaitIsNumber
      <4>3. \A x \in Int : x <= x
        OBVIOUS
      <4>4. \A x \in Int : q.started + 1 - DiscoveryTTL - x \in Int
        BY <2>1, CacheBounds
      <4>5. from(k) \in Int
        BY <4>2, <4>4 DEF n
      <4> QED BY <4>3, <4>5
    <3>3. q.targets[k] \in Provider
      BY <1>4, CheckParts DEF Answered, InOrder, Fetching
    <3> HIDE DEF from
    <3> QED BY <3>1, <3>2, <3>3, StillHeard
  <2>3. KeysServed(new, was + 1, q)
    <3> DEFINE from(k) == q.started + 1 - JwksTTL - Timeout * (Len(q.jwks) - k + 1)
    <3> SUFFICES ASSUME NEW k \in 1 .. Len(q.jwks)
                 PROVE  Served(new, was + 1, q.targets[k], q.discoveries[k], q.jwks[k],
                               from(k))
      BY <2>1 DEF KeysServed
    <3>1. Served(old, was, q.targets[k], q.discoveries[k], q.jwks[k], from(k))
      BY <2>1 DEF Answered, KeysServed
    <3>2. from(k) \in Int /\ from(k) <= from(k)
      <4> DEFINE n == Len(q.jwks) - k + 1
      <4>1. n \in Int
        BY CheckParts
      <4> HIDE DEF n
      <4>2. Timeout * n \in Int
        BY <4>1, WaitIsNumber
      <4>3. \A x \in Int : x <= x
        OBVIOUS
      <4>4. \A x \in Int : q.started + 1 - JwksTTL - x \in Int
        BY <2>1, CacheBounds
      <4>5. from(k) \in Int
        BY <4>2, <4>4 DEF n
      <4> QED BY <4>3, <4>5
    <3>3. q.targets[k] \in Provider
      BY <1>4, CheckParts DEF Answered, InOrder, Fetching
    <3> HIDE DEF from
    <3> QED BY <3>1, <3>2, <3>3, StillServed
  <2> QED BY <1>2, <2>2, <2>3 DEF Answered
<1> QED BY <1>3, <1>4

-----------------------------------------------------------------------------
(* What a step does to the caches.                                          *)

\* What is cached stays true of a history that goes on.
LEMMA CachesStay ==
    ASSUME NEW old, NEW was, NEW new, NEW now, GoesOn(old, was, new, now),
           NEW image, Cached(old, was, image)
    PROVE  Cached(new, now, image)
<1>1. was \in Nat /\ now \in Nat /\ was <= now
  BY DEF GoesOn
<1>2. ASSUME NEW p \in Provider, image[1][p] # Absent
      PROVE  LocationKnown(new, now, p, image[1][p])
  <2> DEFINE e == image[1][p]
             from == e.expiration - DiscoveryTTL - Timeout
  <2>1. e \in CachedLocation
    BY <1>2 DEF Cached
  <2>2. e.expiration <= was + DiscoveryTTL /\ Heard(old, was, p, e.location, from)
    BY <1>2 DEF Cached, LocationKnown
  <2>3. e.expiration \in Nat
    BY <2>1 DEF CachedLocation
  <2>4. from \in Int /\ from <= from /\ e.expiration <= now + DiscoveryTTL
    BY <1>1, <2>2, <2>3, CacheBounds
  <2> HIDE DEF from, e
  <2>5. Heard(new, now, p, e.location, from)
    BY <2>2, <2>4, StillHeard
  <2> QED BY <2>4, <2>5 DEF LocationKnown, e, from
<1>3. ASSUME NEW p \in Provider, NEW l \in Versions, image[2][p][l] # Absent
      PROVE  KeyKnown(new, now, p, l, image[2][p][l])
  <2> DEFINE e == image[2][p][l]
             from == e.expiration - JwksTTL - Timeout
  <2>1. e \in CachedKey
    BY <1>3 DEF Cached
  <2>2. e.expiration <= was + JwksTTL /\ Served(old, was, p, l, e.version, from)
    BY <1>3 DEF Cached, KeyKnown
  <2>3. e.expiration \in Nat
    BY <2>1 DEF CachedKey
  <2>4. from \in Int /\ from <= from /\ e.expiration <= now + JwksTTL
    BY <1>1, <2>2, <2>3, CacheBounds
  <2> HIDE DEF from, e
  <2>5. Served(new, now, p, l, e.version, from)
    BY <2>2, <2>4, StillServed
  <2> QED BY <2>4, <2>5 DEF KeyKnown, e, from
<1>4. \A p \in Provider : LocationKnown(new, now, p, image[1][p])
  BY <1>2 DEF LocationKnown
<1>5. \A p \in Provider : \A l \in Versions : KeyKnown(new, now, p, l, image[2][p][l])
  BY <1>3 DEF KeyKnown
<1> QED BY <1>4, <1>5 DEF Cached

\* What is left of the caches is true.
LEMMA FreshIsKnown ==
    ASSUME NEW history, NEW now, NEW image, Cached(history, now, image), NEW x
    PROVE  Cached(history, now, FreshPart(image, x))
<1> DEFINE part == FreshPart(image, x)
<1>1. part[1] = [p \in Provider |-> IF IsFresh(image[1][p], x) THEN image[1][p] ELSE Absent]
  BY DEF FreshPart
<1>2. part[2] = [p \in Provider |-> [l \in Versions |->
                    IF IsFresh(image[2][p][l], x) THEN image[2][p][l] ELSE Absent]]
  BY DEF FreshPart
<1> HIDE DEF part
<1>3. /\ part[1] \in [Provider -> CachedLocation \cup {Absent}]
      /\ \A p \in Provider : LocationKnown(history, now, p, part[1][p])
  <2>1. \A p \in Provider : image[1][p] \in CachedLocation \cup {Absent}
    BY DEF Cached
  <2>2. \A p \in Provider : part[1][p] = image[1][p] \/ part[1][p] = Absent
    BY <1>1
  <2>3. \A p \in Provider : LocationKnown(history, now, p, part[1][p])
    BY <2>2 DEF Cached, LocationKnown
  <2> QED BY <1>1, <2>1, <2>3
<1>4. ASSUME NEW p \in Provider
      PROVE  /\ part[2][p] \in [Versions -> CachedKey \cup {Absent}]
             /\ \A l \in Versions : KeyKnown(history, now, p, l, part[2][p][l])
  <2>1. \A l \in Versions : image[2][p][l] \in CachedKey \cup {Absent}
    BY DEF Cached
  <2>2. part[2][p] = [l \in Versions |->
                         IF IsFresh(image[2][p][l], x) THEN image[2][p][l] ELSE Absent]
    BY <1>2
  <2>3. \A l \in Versions : part[2][p][l] = image[2][p][l] \/ part[2][p][l] = Absent
    BY <2>2
  <2>4. \A l \in Versions : KeyKnown(history, now, p, l, part[2][p][l])
    BY <2>3 DEF Cached, KeyKnown
  <2> QED BY <2>1, <2>2, <2>4
<1>5. part[2] \in [Provider -> [Versions -> CachedKey \cup {Absent}]]
  BY <1>2, <1>4
<1>6. Cached(history, now, part)
  BY <1>3, <1>4, <1>5 DEF Cached
<1> QED BY <1>6 DEF part

\* A discovery document is cached.
LEMMA LocationIsCached ==
    ASSUME NEW history, NEW now \in Nat, NEW documents, NEW keys,
           Cached(history, now, <<documents, keys>>),
           NEW p \in Provider, NEW location \in Versions,
           Heard(history, now, p, location, now - Timeout)
    PROVE  Cached(history, now,
               <<[documents EXCEPT ![p] = [location |-> location,
                                           expiration |-> now + DiscoveryTTL]], keys>>)
<1> DEFINE e == [location |-> location, expiration |-> now + DiscoveryTTL]
           new == [documents EXCEPT ![p] = e]
<1>1. e \in CachedLocation
  BY CacheBounds DEF CachedLocation
<1>2. LocationKnown(history, now, p, e)
  <2>1. e.expiration = now + DiscoveryTTL /\ e.location = location
    OBVIOUS
  <2>2. e.expiration - DiscoveryTTL - Timeout = now - Timeout
    BY <2>1, CacheBounds
  <2> HIDE DEF e
  <2>3. e.expiration <= now + DiscoveryTTL
    BY <2>1, CacheBounds
  <2> QED BY <2>1, <2>2, <2>3 DEF LocationKnown
<1> HIDE DEF e
<1>3. documents \in [Provider -> CachedLocation \cup {Absent}]
  BY DEF Cached
<1>4. /\ new \in [Provider -> CachedLocation \cup {Absent}]
      /\ \A q \in Provider : new[q] = IF q = p THEN e ELSE documents[q]
  BY <1>1, <1>3
<1> HIDE DEF new
<1>5. \A q \in Provider : LocationKnown(history, now, q, new[q])
  BY <1>2, <1>4 DEF Cached
<1>6. Cached(history, now, <<new, keys>>)
  BY <1>4, <1>5 DEF Cached
<1> QED BY <1>6 DEF new, e

\* A key set is cached.
LEMMA KeysAreCached ==
    ASSUME NEW history, NEW now \in Nat, NEW documents, NEW keys,
           Cached(history, now, <<documents, keys>>),
           NEW p \in Provider, NEW location \in Versions, NEW version \in Versions,
           Served(history, now, p, location, version, now - Timeout)
    PROVE  Cached(history, now,
               <<documents, [keys EXCEPT ![p][location] = [version |-> version,
                                                   expiration |-> now + JwksTTL]]>>)
<1> DEFINE e == [version |-> version, expiration |-> now + JwksTTL]
           new == [keys EXCEPT ![p][location] = e]
<1>1. e \in CachedKey
  BY CacheBounds DEF CachedKey
<1>2. KeyKnown(history, now, p, location, e)
  <2>1. e.expiration = now + JwksTTL /\ e.version = version
    OBVIOUS
  <2>2. e.expiration - JwksTTL - Timeout = now - Timeout
    BY <2>1, CacheBounds
  <2> HIDE DEF e
  <2>3. e.expiration <= now + JwksTTL
    BY <2>1, CacheBounds
  <2> QED BY <2>1, <2>2, <2>3 DEF KeyKnown
<1> HIDE DEF e
<1>3. keys \in [Provider -> [Versions -> CachedKey \cup {Absent}]]
  BY DEF Cached
<1>4. /\ new \in [Provider -> [Versions -> CachedKey \cup {Absent}]]
      /\ \A q \in Provider : \A l \in Versions :
            new[q][l] = IF q = p /\ l = location THEN e ELSE keys[q][l]
  BY <1>1, <1>3
<1> HIDE DEF new
<1>5. \A q \in Provider : \A l \in Versions : KeyKnown(history, now, q, l, new[q][l])
  BY <1>2, <1>4 DEF Cached
<1>6. Cached(history, now, <<documents, new>>)
  BY <1>4, <1>5 DEF Cached
<1> QED BY <1>6 DEF new, e

-----------------------------------------------------------------------------
(* The steps.                                                               *)

\* What the invariant says in the words of the model.
LEMMA InWords ==
    ASSUME CacheInv
    PROVE  /\ clock \in Nat
           /\ \A r \in Requests : request[r] \in Request /\ Answered(published, clock, request[r])
           /\ \A p, l, t : WasAt(p, l, t) <=> WasIn(published, p, l, t)
           /\ \A p, l, t : ServedAt(p, l, t) = ServedIn(published, p, l, t)
<1>1. MaxTime \in Nat
  BY CacheBounds
<1> QED BY <1>1 DEF CacheInv, WasAt, ServedAt, WasIn, ServedIn

\* A step of one request.
LEMMA OneAnswered ==
    ASSUME CacheInv, NEW r \in Requests, UNCHANGED <<clock, published>>,
           Cached(published, clock, caches)', Cached(published, clock, saved)',
           NEW u \in Request, request' = [request EXCEPT ![r] = u],
           Answered(published, clock, u)
    PROVE  CacheInv'
<1>1. request \in [Requests -> Request]
  BY DEF CacheInv
<1>2. request' \in [Requests -> Request]
  BY <1>1
<1>3. \A s \in Requests : request'[s] = IF s = r THEN u ELSE request[s]
  BY <1>1
<1>4. \A s \in Requests : Answered(published, clock, request'[s])
  BY <1>3 DEF CacheInv
<1>5. clock' = clock /\ published' = published
  OBVIOUS
<1>6. \A s \in Requests : Answered(published, clock, request[s])'
  BY <1>4, <1>5
<1>7. clock' \in 0 .. MaxTime /\ Published(published, clock)'
  BY <1>5 DEF CacheInv, Published
<1> QED BY <1>2, <1>6, <1>7 DEF CacheInv

\* A step that leaves the caches as they are.
LEMMA CachesUnchanged ==
    ASSUME CacheInv, UNCHANGED <<clock, published, caches, saved>>
    PROVE  Cached(published, clock, caches)' /\ Cached(published, clock, saved)'
BY DEF CacheInv

\* The records of a request that got a location, keys, or began to wait.
WithLocation(q, list, pc) == [q EXCEPT !.discoveries = list, !.started = 0, !.pc = pc]
WithKeys(q, list, pc) == [q EXCEPT !.jwks = list, !.started = 0, !.pc = pc]
WithAsk(q, now, pc) == [q EXCEPT !.pc = pc, !.started = now]
WithTargets(q, targets) == [q EXCEPT !.pc = "discovery", !.targets = targets]

\* A request with providers to ask.
LEMMA TargetsRecord ==
    ASSUME NEW q \in Request, NEW targets \in Seq(Provider), NEW u, u = WithTargets(q, targets)
    PROVE  /\ u \in Request /\ u.pc = "discovery" /\ u.targets = targets
           /\ u.discoveries = q.discoveries /\ u.jwks = q.jwks /\ u.started = q.started
BY DEF Request, WithTargets

\* A request with one more location.
LEMMA LocationRecord ==
    ASSUME NEW q \in Request, NEW list \in Seq(Versions), NEW pc \in {"jwks", "discovery"},
           NEW u, u = WithLocation(q, list, pc)
    PROVE  /\ u \in Request /\ u.targets = q.targets /\ u.jwks = q.jwks /\ u.started = 0
           /\ u.discoveries = list /\ u.pc = pc
BY DEF Request, WithLocation

\* A request with one more key.
LEMMA KeysRecord ==
    ASSUME NEW q \in Request, NEW list \in Seq(Versions), NEW pc \in {"jwks", "verify"},
           NEW u, u = WithKeys(q, list, pc)
    PROVE  /\ u \in Request /\ u.targets = q.targets /\ u.discoveries = q.discoveries
           /\ u.started = 0 /\ u.jwks = list /\ u.pc = pc
BY DEF Request, WithKeys

\* A request that waits for a provider.
LEMMA AskRecord ==
    ASSUME NEW q \in Request, NEW now \in Nat, NEW pc \in Fetching,
           NEW u, u = WithAsk(q, now, pc)
    PROVE  /\ u \in Request /\ u.targets = q.targets /\ u.discoveries = q.discoveries
           /\ u.jwks = q.jwks /\ u.started = now /\ u.pc = pc
BY DEF Request, Fetching, WithAsk

\* The request goes on with a location.
LEMMA GotDiscoveryKeeps ==
    ASSUME CacheInv, NEW r \in Requests, UNCHANGED <<clock, published>>,
           Cached(published, clock, caches)', Cached(published, clock, saved)',
           request[r].pc \in {"discovery", "fetchDiscovery"},
           NEW location \in Versions, GotDiscovery(r, location),
           Heard(published, clock, NextTarget(r), location, clock + 1 - DiscoveryTTL - Timeout)
    PROVE  CacheInv'
<1> DEFINE q == request[r]
           pc == IF Len(q.discoveries) + 1 = Len(q.targets) THEN "jwks" ELSE "discovery"
           list == Append(q.discoveries, location)
           u == WithLocation(q, list, pc)
<1>1. q \in Request /\ Answered(published, clock, q) /\ clock \in Nat
  BY InWords
<1>2. request \in [Requests -> Request]
  BY DEF CacheInv
<1>3. request' = [request EXCEPT ![r] = u]
  BY <1>2 DEF GotDiscovery, WithLocation
<1>4. list \in Seq(Versions)
  BY <1>1, CheckParts
<1>5. pc \in {"jwks", "discovery"}
  OBVIOUS
<1>6. Heard(published, clock, q.targets[Len(q.discoveries) + 1], location,
            clock + 1 - DiscoveryTTL - Timeout)
  BY DEF NextTarget
<1>7. q.pc \in {"discovery", "fetchDiscovery"}
  OBVIOUS
<1>8. u = WithLocation(q, list, pc)
  OBVIOUS
<1>9. /\ u \in Request /\ u.targets = q.targets /\ u.jwks = q.jwks /\ u.started = 0
      /\ u.discoveries = list /\ u.pc = pc
  <2> HIDE DEF u, q, list, pc
  <2> QED BY <1>1, <1>4, <1>5, <1>8, LocationRecord
<1> HIDE DEF u
<1>10. Answered(published, clock, u)
  <2>1. u.discoveries = Append(q.discoveries, location)
    BY <1>9
  <2>2. u.pc = IF Len(q.discoveries) + 1 = Len(q.targets) THEN "jwks" ELSE "discovery"
    BY <1>9
  <2> HIDE DEF q, list, pc
  <2> QED BY <1>1, <1>6, <1>7, <1>9, <2>1, <2>2, LocationGot
<1> HIDE DEF q, list, pc
<1> QED BY <1>3, <1>9, <1>10, OneAnswered

\* GetDiscoveryURI finds the document in the cache.
LEMMA HitDiscoveryKeeps ==
    ASSUME CacheInv, NEW r \in Requests, HitDiscovery(r)
    PROVE  CacheInv'
<1> DEFINE p == NextTarget(r)
           e == discoveryCache[p]
<1>1. request[r].pc = "discovery" /\ UNCHANGED <<clock, published, caches, saved>>
  BY DEF HitDiscovery
<1>2. e # Absent /\ e.expiration > clock /\ GotDiscovery(r, e.location)
  BY DEF HitDiscovery, IsFresh
<1>3. p \in Provider
  <2>1. request[r] \in Request /\ Answered(published, clock, request[r])
    BY InWords
  <2> QED BY <1>1, <2>1, CheckParts DEF NextTarget, Answered, InOrder
<1>4. e \in CachedLocation /\ LocationKnown(published, clock, p, e)
  BY <1>2, <1>3 DEF CacheInv, Cached, caches
<1> HIDE DEF e, p
<1>5. e.location \in Versions /\ e.expiration \in Nat /\ clock \in Nat
  BY <1>4, InWords DEF CachedLocation
<1>6. Heard(published, clock, p, e.location, e.expiration - DiscoveryTTL - Timeout)
  BY <1>2, <1>4 DEF LocationKnown
<1> DEFINE from == e.expiration - DiscoveryTTL - Timeout
           earlier == clock + 1 - DiscoveryTTL - Timeout
<1>7. from \in Int /\ earlier \in Int /\ earlier <= from
  BY <1>2, <1>5, CacheBounds
<1>8. Heard(published, clock, p, e.location, earlier)
  <2> HIDE DEF from, earlier
  <2>1. Heard(published, clock, p, e.location, from)
    BY <1>6 DEF from
  <2> QED BY <1>5, <1>7, <2>1, HeardFromEarlier
<1>9. Cached(published, clock, caches)' /\ Cached(published, clock, saved)'
  BY <1>1, CachesUnchanged
<1> QED BY <1>1, <1>2, <1>5, <1>8, <1>9, GotDiscoveryKeeps DEF p

\* A provider answers with what it publishes since it was asked (discovery.go:20-41).
LEMMA DiscoveryAnsweredKeeps ==
    ASSUME CacheInv, NEW r \in Requests, DiscoveryAnswered(r)
    PROVE  CacheInv'
<1> DEFINE p == NextTarget(r)
           q == request[r]
<1>1. /\ q.pc = "fetchDiscovery" /\ q \in Request /\ Answered(published, clock, q)
      /\ clock \in Nat /\ UNCHANGED <<clock, published, jwksCache, saved>>
  BY InWords DEF DiscoveryAnswered
<1>2. PICK location \in LocationsSince(p, q.started) :
         /\ discoveryCache' = [discoveryCache EXCEPT ![p] =
                [location |-> location, expiration |-> clock + DiscoveryTTL]]
         /\ GotDiscovery(r, location)
  BY DEF DiscoveryAnswered
<1>3. PICK t \in q.started .. clock : location = published[p][t + 1].location
  BY <1>2 DEF LocationsSince
<1>4. p \in Provider
  BY <1>1, CheckParts DEF NextTarget, Answered, InOrder
<1>5. q.started \in 0 .. clock /\ clock <= q.started + Timeout
  BY <1>1 DEF Answered, InOrder, Fetching
<1>6. t \in 0 .. clock /\ t >= clock - Timeout
  BY <1>1, <1>5, CacheBounds
<1>7. location \in Versions
  <2>1. published[p] \in Seq(Publication) /\ t + 1 \in 1 .. Len(published[p])
    BY <1>1, <1>4, <1>6 DEF CacheInv, Published
  <2>2. published[p][t + 1] \in Publication
    BY <2>1
  <2> QED BY <1>3, <2>2 DEF Publication
<1>8. Heard(published, clock, p, location, clock - Timeout)
  BY <1>3, <1>6 DEF Heard
<1>9. Heard(published, clock, p, location, clock + 1 - DiscoveryTTL - Timeout)
  <2> DEFINE from == clock - Timeout
             earlier == clock + 1 - DiscoveryTTL - Timeout
  <2>1. from \in Int /\ earlier \in Int /\ earlier <= from
    BY <1>1, CacheBounds
  <2> HIDE DEF from, earlier
  <2>2. Heard(published, clock, p, location, from)
    BY <1>8 DEF from
  <2>3. Heard(published, clock, p, location, earlier)
    BY <1>1, <2>1, <2>2, HeardFromEarlier
  <2> QED BY <2>3 DEF earlier
<1>10. Cached(published, clock, caches)'
  <2>1. Cached(published, clock, <<discoveryCache, jwksCache>>)
    BY DEF CacheInv, caches
  <2> HIDE DEF p
  <2>2. Cached(published, clock,
            <<[discoveryCache EXCEPT ![p] = [location |-> location,
                                             expiration |-> clock + DiscoveryTTL]], jwksCache>>)
    BY <1>1, <1>4, <1>7, <1>8, <2>1, LocationIsCached
  <2>3. Cached(published, clock, <<discoveryCache', jwksCache>>)
    BY <1>2, <2>2
  <2> QED BY <1>1, <2>3 DEF caches
<1>11. Cached(published, clock, saved)'
  BY <1>1 DEF CacheInv
<1> QED BY <1>1, <1>2, <1>7, <1>9, <1>10, <1>11, GotDiscoveryKeeps DEF p, q

\* The request goes on with a key.
LEMMA GotKeysKeeps ==
    ASSUME CacheInv, NEW r \in Requests, UNCHANGED <<clock, published>>,
           Cached(published, clock, caches)', Cached(published, clock, saved)',
           request[r].pc \in {"jwks", "fetchKeys"},
           NEW version \in Versions, GotKeys(r, version),
           Served(published, clock, KeysProvider(r), KeysLocation(r), version,
                  clock + 1 - JwksTTL - Timeout)
    PROVE  CacheInv'
<1> DEFINE q == request[r]
           pc == IF Len(q.jwks) + 1 = Len(q.targets) THEN "verify" ELSE "jwks"
           list == Append(q.jwks, version)
           u == WithKeys(q, list, pc)
<1>1. q \in Request /\ Answered(published, clock, q) /\ clock \in Nat
  BY InWords
<1>2. request \in [Requests -> Request]
  BY DEF CacheInv
<1>3. request' = [request EXCEPT ![r] = u]
  BY <1>2 DEF GotKeys, NextKeys, WithKeys
<1>4. list \in Seq(Versions)
  BY <1>1, CheckParts
<1>5. pc \in {"jwks", "verify"}
  OBVIOUS
<1>6. Served(published, clock, q.targets[Len(q.jwks) + 1], q.discoveries[Len(q.jwks) + 1],
             version, clock + 1 - JwksTTL - Timeout)
  BY DEF KeysProvider, KeysLocation, NextKeys
<1>7. q.pc \in {"jwks", "fetchKeys"}
  OBVIOUS
<1>8. u = WithKeys(q, list, pc)
  OBVIOUS
<1>9. /\ u \in Request /\ u.targets = q.targets /\ u.discoveries = q.discoveries
      /\ u.started = 0 /\ u.jwks = list /\ u.pc = pc
  <2> HIDE DEF u, q, list, pc
  <2> QED BY <1>1, <1>4, <1>5, <1>8, KeysRecord
<1> HIDE DEF u
<1>10. Answered(published, clock, u)
  <2>1. u.jwks = Append(q.jwks, version)
    BY <1>9
  <2>2. u.pc = IF Len(q.jwks) + 1 = Len(q.targets) THEN "verify" ELSE "jwks"
    BY <1>9
  <2> HIDE DEF q, list, pc
  <2> QED BY <1>1, <1>6, <1>7, <1>9, <2>1, <2>2, KeysGot
<1> HIDE DEF q, list, pc
<1> QED BY <1>3, <1>9, <1>10, OneAnswered

\* Where the keys of a request are, and that it is still to get them.
LEMMA KeysPlace ==
    ASSUME CacheInv, NEW r \in Requests, request[r].pc \in {"jwks", "fetchKeys"}
    PROVE  KeysProvider(r) \in Provider /\ KeysLocation(r) \in Versions
<1>1. request[r] \in Request /\ Answered(published, clock, request[r])
  BY InWords
<1> QED BY <1>1, CheckParts DEF KeysProvider, KeysLocation, NextKeys, Answered, InOrder

\* GetJwks finds the keys in the cache.
LEMMA HitKeysKeeps ==
    ASSUME CacheInv, NEW r \in Requests, HitKeys(r)
    PROVE  CacheInv'
<1> DEFINE p == KeysProvider(r)
           l == KeysLocation(r)
           e == jwksCache[p][l]
<1>1. request[r].pc = "jwks" /\ UNCHANGED <<clock, published, caches, saved>>
  BY DEF HitKeys
<1>2. e # Absent /\ e.expiration > clock /\ GotKeys(r, e.version)
  BY DEF HitKeys, IsFresh, CachedKeys
<1>3. p \in Provider /\ l \in Versions
  BY <1>1, KeysPlace
<1> HIDE DEF p, l
<1>4. e \in CachedKey /\ KeyKnown(published, clock, p, l, e)
  BY <1>2, <1>3 DEF CacheInv, Cached, caches
<1> HIDE DEF e
<1>5. e.version \in Versions /\ e.expiration \in Nat /\ clock \in Nat
  BY <1>4, InWords DEF CachedKey
<1>6. Served(published, clock, p, l, e.version, e.expiration - JwksTTL - Timeout)
  BY <1>2, <1>4 DEF KeyKnown
<1> DEFINE from == e.expiration - JwksTTL - Timeout
           earlier == clock + 1 - JwksTTL - Timeout
<1>7. from \in Int /\ earlier \in Int /\ earlier <= from
  BY <1>2, <1>5, CacheBounds
<1>8. Served(published, clock, p, l, e.version, earlier)
  <2> HIDE DEF from, earlier
  <2>1. Served(published, clock, p, l, e.version, from)
    BY <1>6 DEF from
  <2> QED BY <1>5, <1>7, <2>1, ServedFromEarlier
<1>9. Cached(published, clock, caches)' /\ Cached(published, clock, saved)'
  BY <1>1, CachesUnchanged
<1> QED BY <1>1, <1>2, <1>5, <1>8, <1>9, GotKeysKeeps DEF p, l

\* A provider answers with the keys at the location since it was asked (jwks.go:22-43).
LEMMA KeysAnsweredKeeps ==
    ASSUME CacheInv, NEW r \in Requests, KeysAnswered(r)
    PROVE  CacheInv'
<1> DEFINE p == KeysProvider(r)
           l == KeysLocation(r)
           q == request[r]
<1>1. /\ q.pc = "fetchKeys" /\ q \in Request /\ Answered(published, clock, q)
      /\ clock \in Nat /\ UNCHANGED <<clock, published, discoveryCache, saved>>
  BY InWords DEF KeysAnswered
<1>2. PICK version \in KeysSince(p, l, q.started) :
         /\ jwksCache' = [jwksCache EXCEPT ![p][l] = CachedFor(version)]
         /\ GotKeys(r, version)
  BY DEF KeysAnswered
<1>3. PICK t \in q.started .. clock : WasAt(p, l, t) /\ version = ServedAt(p, l, t)
  BY <1>2 DEF KeysSince
<1>4. p \in Provider /\ l \in Versions
  BY <1>1, KeysPlace
<1>5. q.started \in 0 .. clock /\ clock <= q.started + Timeout
  BY <1>1 DEF Answered, InOrder, Fetching
<1>6. t \in 0 .. clock /\ t >= clock - Timeout
  BY <1>1, <1>5, CacheBounds
<1> HIDE DEF p, l, q
<1>7. version \in Versions
  <2> DEFINE I == {s \in 0 .. t : published[p][s + 1].location = l}
  <2>1. I \subseteq 0 .. t /\ I # {} /\ t \in Nat
    <3>1. PICK s \in 0 .. t : published[p][s + 1].location = l
      BY <1>3 DEF WasAt
    <3>2. s \in I /\ I \subseteq 0 .. t /\ t \in Nat
      BY <1>6, <3>1
    <3> HIDE DEF I
    <3> QED BY <3>2
  <2>2. version = published[p][Max(I) + 1].version
    BY <1>3 DEF ServedAt
  <2> HIDE DEF I
  <2>3. Max(I) \in 0 .. t
    BY <2>1, HasGreatest
  <2>4. published[p] \in Seq(Publication) /\ Max(I) + 1 \in 1 .. Len(published[p])
    BY <1>1, <1>4, <1>6, <2>3 DEF CacheInv, Published
  <2>5. published[p][Max(I) + 1] \in Publication
    BY <2>4
  <2> QED BY <2>2, <2>5 DEF Publication
<1>8. Served(published, clock, p, l, version, clock - Timeout)
  <2>1. WasIn(published, p, l, t) /\ ServedIn(published, p, l, t) = version
    BY <1>3, InWords
  <2> QED BY <1>6, <2>1 DEF Served
<1>9. Served(published, clock, p, l, version, clock + 1 - JwksTTL - Timeout)
  <2> DEFINE from == clock - Timeout
             earlier == clock + 1 - JwksTTL - Timeout
  <2>1. from \in Int /\ earlier \in Int /\ earlier <= from
    BY <1>1, CacheBounds
  <2> HIDE DEF from, earlier
  <2>2. Served(published, clock, p, l, version, from)
    BY <1>8 DEF from
  <2>3. Served(published, clock, p, l, version, earlier)
    BY <1>1, <2>1, <2>2, ServedFromEarlier
  <2> QED BY <2>3 DEF earlier
<1>10. Cached(published, clock, caches)'
  <2>1. Cached(published, clock, <<discoveryCache, jwksCache>>)
    BY DEF CacheInv, caches
  <2>2. Cached(published, clock,
            <<discoveryCache, [jwksCache EXCEPT ![p][l] = [version |-> version,
                                                   expiration |-> clock + JwksTTL]]>>)
    BY <1>1, <1>4, <1>7, <1>8, <2>1, KeysAreCached
  <2>3. Cached(published, clock, <<discoveryCache, jwksCache'>>)
    BY <1>2, <2>2 DEF CachedFor
  <2> QED BY <1>1, <2>3 DEF caches
<1>11. Cached(published, clock, saved)'
  BY <1>1 DEF CacheInv
<1> QED BY <1>1, <1>2, <1>7, <1>9, <1>10, <1>11, GotKeysKeeps DEF p, l, q

\* A request to a provider begins (discovery.go:15-20, jwks.go:17-22).
LEMMA AskKeeps ==
    ASSUME CacheInv, NEW r \in Requests, AskDiscovery(r) \/ AskKeys(r)
    PROVE  CacheInv'
<1> DEFINE q == request[r]
<1>1. PICK pc \in Fetching :
         /\ UNCHANGED <<clock, published, caches, saved>>
         /\ request' = [request EXCEPT ![r].pc = pc, ![r].started = clock]
         /\ \/ q.pc = "discovery" /\ pc = "fetchDiscovery"
            \/ q.pc = "jwks" /\ pc = "fetchKeys"
  BY DEF AskDiscovery, AskKeys, Fetching
<1>2. /\ q \in Request /\ Answered(published, clock, q) /\ clock \in Nat
      /\ request \in [Requests -> Request]
  BY InWords DEF CacheInv
<1> DEFINE u == WithAsk(q, clock, pc)
<1>3. request' = [request EXCEPT ![r] = u]
  BY <1>1, <1>2 DEF WithAsk
<1>4. u = WithAsk(q, clock, pc)
  OBVIOUS
<1> HIDE DEF u, q
<1>5. /\ u \in Request /\ u.targets = q.targets /\ u.discoveries = q.discoveries
      /\ u.jwks = q.jwks /\ u.started = clock /\ u.pc = pc
  BY <1>2, <1>4, AskRecord
<1>6. Answered(published, clock, u)
  BY <1>1, <1>2, <1>5, AskBegins
<1>7. Cached(published, clock, caches)' /\ Cached(published, clock, saved)'
  BY <1>1, CachesUnchanged
<1> QED BY <1>1, <1>3, <1>5, <1>6, <1>7, OneAnswered

\* A request that is not there.
LEMMA IdleAnswered ==
    ASSUME NEW history, NEW now \in Nat
    PROVE  Idle \in Request /\ Answered(history, now, Idle)
<1>1. /\ Idle \in Request /\ Idle.pc = "idle" /\ Idle.targets = <<>>
      /\ Idle.discoveries = <<>> /\ Idle.jwks = <<>> /\ Idle.started = 0
  BY DEF Idle, Request
<1>2. IsInjective(Idle.targets)
  BY <1>1 DEF IsInjective
<1> QED BY <1>1, <1>2, NothingAnswered

\* A request returns.
LEMMA ReturnKeeps ==
    ASSUME CacheInv, NEW r \in Requests, FetchFails(r) \/ Verify(r)
    PROVE  CacheInv'
<1>1. /\ request' = [request EXCEPT ![r] = Idle]
      /\ UNCHANGED <<clock, published, caches, saved>>
  BY DEF FetchFails, Verify, Return
<1>2. Idle \in Request /\ Answered(published, clock, Idle)
  BY InWords, IdleAnswered
<1>3. Cached(published, clock, caches)' /\ Cached(published, clock, saved)'
  BY <1>1, CachesUnchanged
<1> QED BY <1>1, <1>2, <1>3, OneAnswered

\* A list of providers has providers.
LEMMA Targets ==
    /\ Providers \in Seq(Provider) /\ Len(Providers) > 0 /\ IsInjective(Providers)
    /\ \A p \in Provider : <<p>> \in Seq(Provider) /\ Len(<<p>>) > 0 /\ IsInjective(<<p>>)
<1>1. Providers \in Seq(Provider) /\ Len(Providers) > 0 /\ IsInjective(Providers)
  BY Parameters DEF Provider
<1>2. \A p \in Provider : <<p>> \in Seq(Provider) /\ Len(<<p>>) > 0 /\ IsInjective(<<p>>)
  BY DEF IsInjective
<1> QED BY <1>1, <1>2

\* A request begins, of all providers or of one.
LEMMA WalkStarts ==
    ASSUME CacheInv, NEW r \in Requests, authMiddleware(r) \/ callback(r)
    PROVE  CacheInv'
<1>1. PICK targets \in Seq(Provider) :
         /\ IsInjective(targets) /\ Len(targets) > 0 /\ Walk(r, targets)
  BY Targets DEF authMiddleware, callback
<1> DEFINE u == WithTargets(Idle, targets)
<1>2. request' = [request EXCEPT ![r] = u] /\ UNCHANGED <<clock, published, caches, saved>>
  BY <1>1 DEF Walk, WithTargets
<1>3. /\ u \in Request /\ u.pc = "discovery" /\ u.targets = targets
      /\ u.discoveries = <<>> /\ u.jwks = <<>> /\ u.started = 0
  <2>1. Idle \in Request /\ Idle.discoveries = <<>> /\ Idle.jwks = <<>> /\ Idle.started = 0
    BY DEF Idle, Request
  <2>2. u = WithTargets(Idle, targets)
    OBVIOUS
  <2> HIDE DEF u
  <2> QED BY <2>1, <2>2, TargetsRecord
<1> HIDE DEF u
<1>4. Answered(published, clock, u)
  BY <1>1, <1>3, InWords, NothingAnswered
<1>5. Cached(published, clock, caches)' /\ Cached(published, clock, saved)'
  BY <1>2, CachesUnchanged
<1> QED BY <1>2, <1>3, <1>4, <1>5, OneAnswered

\* The caches are saved, and read again by a server that starts.
LEMMA SaveAndRestartKeep ==
    ASSUME CacheInv, SaveOIDCStore \/ Restart
    PROVE  CacheInv'
<1>1. UNCHANGED <<clock, published>>
  BY DEF SaveOIDCStore, Restart
<1>2. Cached(published, clock, caches)' /\ Cached(published, clock, saved)'
  <2>1. CASE SaveOIDCStore
    BY <1>1, <2>1 DEF SaveOIDCStore, CacheInv
  <2>2. CASE Restart
    <3>1. caches' = <<saved[1], saved[2]>> /\ saved' = saved
      BY <2>2 DEF Restart, caches
    <3>2. Cached(published, clock, <<saved[1], saved[2]>>)
      BY DEF CacheInv, Cached
    <3> QED BY <1>1, <3>1, <3>2 DEF CacheInv
  <2> QED BY <2>1, <2>2
<1>3. /\ request' \in [Requests -> Request]
      /\ \A r \in Requests : Answered(published, clock, request'[r])
  BY InWords, IdleAnswered DEF SaveOIDCStore, Restart, CacheInv
<1> QED BY <1>1, <1>2, <1>3 DEF CacheInv

\* What a provider may publish next is a publication.
LEMMA NextPublication ==
    ASSUME CacheInv, NEW p \in Provider, NEW publication \in MayPublish(p)
    PROVE  publication \in Publication /\ publication.location <= publication.version
<1> DEFINE now == Last(published[p])
<1>1. /\ published[p] \in Seq(Publication) /\ Len(published[p]) = clock + 1 /\ clock \in Nat
      /\ \A t \in 1 .. clock + 1 : published[p][t].location <= published[p][t].version
  BY InWords DEF CacheInv, Published
<1>2. now \in Publication /\ now.location <= now.version
  BY <1>1 DEF Last
<1> HIDE DEF now
<1>3. \/ publication = now
      \/ now.version < MaxChanges /\ publication = [now EXCEPT !.version = @ + 1]
      \/ /\ now.version < MaxChanges
         /\ publication = [location |-> now.location + 1, version |-> now.version + 1]
  BY DEF MayPublish, now
<1> QED BY <1>2, <1>3, CacheBounds DEF Publication, Versions

\* The history after a tick.
LEMMA TickGoesOn ==
    ASSUME CacheInv, Tick
    PROVE  Published(published', clock + 1) /\ GoesOn(published, clock, published', clock + 1)
<1> DEFINE After(p, publication) ==
               [q \in Provider |->
                   Append(published[q], IF q = p THEN publication ELSE Last(published[q]))]
<1>1. PICK p \in Provider : \E publication \in MayPublish(p) : published' = After(p, publication)
  BY DEF Tick
<1>2. PICK publication \in MayPublish(p) : published' = After(p, publication)
  BY <1>1
<1>3. publication \in Publication /\ publication.location <= publication.version
  BY NextPublication
<1>4. ASSUME NEW q \in Provider
      PROVE  /\ published'[q] \in Seq(Publication) /\ Len(published'[q]) = clock + 2
             /\ \A t \in 1 .. clock + 2 : published'[q][t].location <= published'[q][t].version
             /\ \A s \in 0 .. clock : published'[q][s + 1] = published[q][s + 1]
  <2> DEFINE e == IF q = p THEN publication ELSE Last(published[q])
             h == published[q]
  <2>1. /\ h \in Seq(Publication) /\ Len(h) = clock + 1 /\ clock \in Nat
        /\ \A t \in 1 .. clock + 1 : h[t].location <= h[t].version
    BY InWords DEF CacheInv, Published
  <2>2. e \in Publication /\ e.location <= e.version
    <3>1. Last(h) \in Publication /\ Last(h).location <= Last(h).version
      BY <2>1 DEF Last
    <3> QED BY <1>3, <3>1
  <2>3. published'[q] = Append(h, e)
    BY <1>2
  <2> HIDE DEF e, h
  <2>4. /\ Append(h, e) \in Seq(Publication) /\ Len(Append(h, e)) = clock + 2
        /\ \A t \in 1 .. clock + 1 : Append(h, e)[t] = h[t]
        /\ Append(h, e)[clock + 2] = e
    BY <2>1, <2>2
  <2>5. ASSUME NEW t \in 1 .. clock + 2
        PROVE  Append(h, e)[t].location <= Append(h, e)[t].version
    <3>1. CASE t = clock + 2
      BY <2>2, <2>4, <3>1
    <3>2. CASE t # clock + 2
      <4>1. t \in 1 .. clock + 1
        BY <2>1, <3>2
      <4> QED BY <2>1, <2>4, <4>1
    <3> QED BY <3>1, <3>2
  <2>6. \A s \in 0 .. clock : Append(h, e)[s + 1] = h[s + 1]
    BY <2>1, <2>4
  <2> QED BY <2>3, <2>4, <2>5, <2>6 DEF h
<1>5. clock \in Nat /\ clock + 1 + 1 = clock + 2
  BY InWords
<1>6. Published(published', clock + 1)
  BY <1>4, <1>5 DEF Published
<1>7. GoesOn(published, clock, published', clock + 1)
  BY <1>4, <1>5 DEF GoesOn
<1> QED BY <1>6, <1>7

\* A tick.
LEMMA TickKeeps ==
    ASSUME CacheInv, Tick
    PROVE  CacheInv'
<1>1. /\ clock' = clock + 1 /\ clock < MaxTime /\ request' = request
      /\ discoveryCache' = FreshPart(caches, clock + 1)[1]
      /\ jwksCache' = FreshPart(caches, clock + 1)[2]
      /\ saved' = FreshPart(saved, clock + 1)
  BY DEF Tick
<1>2. Published(published', clock + 1) /\ GoesOn(published, clock, published', clock + 1)
  BY TickGoesOn
<1>3. Cached(published', clock + 1, caches) /\ Cached(published', clock + 1, saved)
  BY <1>2, CachesStay DEF CacheInv
<1>4. Cached(published', clock + 1, saved')
  BY <1>1, <1>3, FreshIsKnown
<1>5. Cached(published', clock + 1, caches')
  <2>1. caches' = FreshPart(caches, clock + 1)
    BY <1>1 DEF FreshPart, caches
  <2> QED BY <1>3, <2>1, FreshIsKnown
<1>6. \A r \in Requests : Answered(published', clock + 1, request[r])
  <2> SUFFICES ASSUME NEW r \in Requests PROVE Answered(published', clock + 1, request[r])
    OBVIOUS
  <2>1. request[r] \in Request /\ Answered(published, clock, request[r]) /\ clock \in Nat
    BY InWords
  <2>2. \/ request[r].pc = "idle"
        \/ request[r].pc \in Fetching /\ clock < request[r].started + Timeout
    BY DEF Tick, Waits, Fetching
  <2> QED BY <1>2, <2>1, <2>2, RequestWaits
<1>7. clock + 1 \in 0 .. MaxTime
  BY <1>1, InWords, CacheBounds
<1> QED BY <1>1, <1>2, <1>4, <1>5, <1>6, <1>7 DEF CacheInv

\* The first state.
LEMMA CacheInit == Init => CacheInv
<1> SUFFICES ASSUME Init PROVE CacheInv
  OBVIOUS
<1>1. clock = 0 /\ clock \in 0 .. MaxTime
  BY CacheBounds DEF Init
<1>2. Published(published, clock)
  BY <1>1, CacheBounds DEF Init, Published, Publication, Versions
<1>3. Cached(published, clock, NoCaches)
  BY DEF NoCaches, Cached, LocationKnown, KeyKnown
<1>4. caches = NoCaches /\ saved = NoCaches
  BY DEF Init, NoCaches, caches
<1>5. /\ request \in [Requests -> Request]
      /\ \A r \in Requests : Answered(published, clock, request[r])
  BY <1>1, IdleAnswered DEF Init
<1> QED BY <1>1, <1>2, <1>3, <1>4, <1>5 DEF CacheInv

\* Each step keeps the invariant.
LEMMA CacheNext == CacheInv /\ [Next]_vars => CacheInv'
<1> SUFFICES ASSUME CacheInv, [Next]_vars PROVE CacheInv'
  OBVIOUS
<1>1. ASSUME NEW r \in Requests, RequestStep(r) PROVE CacheInv'
  BY <1>1, WalkStarts, HitDiscoveryKeeps, AskKeeps, DiscoveryAnsweredKeeps, HitKeysKeeps,
     KeysAnsweredKeeps, ReturnKeeps DEF RequestStep
<1>2. CASE SaveOIDCStore \/ Restart
  BY <1>2, SaveAndRestartKeep
<1>3. CASE Tick
  BY <1>3, TickKeeps
<1>4. CASE UNCHANGED vars
  <2>1. UNCHANGED <<clock, published, caches, saved, request>>
    BY <1>4 DEF vars
  <2> QED BY <2>1 DEF CacheInv
<1> QED BY <1>1, <1>2, <1>3, <1>4 DEF Next

\* The invariant always holds.
LEMMA CacheInvHolds == Spec => []CacheInv
BY CacheInit, CacheNext, PTL DEF Spec

-----------------------------------------------------------------------------
(* The properties.                                                          *)

\* Nothing is cached for longer than its kind, in memory or in oidcstore.json.
THEOREM CacheTypes == Spec => []TypeOK
<1>1. ASSUME CacheInv PROVE TypeOK
  <2>1. \A p \in Provider : published[p] \in Seq(Publication) /\ Len(published[p]) = clock + 1
    BY <1>1 DEF CacheInv, Published
  <2>2. ASSUME NEW image \in {caches, saved}
        PROVE  /\ image[1] \in [Provider -> CachedLocation \cup {Absent}]
               /\ image[2] \in [Provider -> [Versions -> CachedKey \cup {Absent}]]
               /\ \A p \in Provider :
                    /\ image[1][p] # Absent => image[1][p].expiration <= clock + DiscoveryTTL
                    /\ \A l \in Versions :
                         image[2][p][l] # Absent => image[2][p][l].expiration <= clock + JwksTTL
    <3>1. Cached(published, clock, image)
      BY <1>1 DEF CacheInv
    <3> QED BY <3>1 DEF Cached, LocationKnown, KeyKnown
  <2>3. \A r \in Requests :
          /\ request[r].discoveries \in Seq(Versions) /\ request[r].jwks \in Seq(Versions)
          /\ request[r].started \in 0 .. clock
    BY <1>1, InWords, CheckParts DEF Answered, InOrder
  <2>4. clock \in 0 .. MaxTime
    BY <1>1 DEF CacheInv
  <2> QED BY <2>1, <2>2, <2>3, <2>4 DEF TypeOK
<1> QED BY <1>1, CacheInvHolds, PTL

\* What a request has for one provider that it asked.
LEMMA AnswersAreCurrent ==
    ASSUME NEW history, NEW now \in Nat, NEW q \in Request, Answered(history, now, q),
           q.pc = "verify", NEW k \in 1 .. Len(q.targets)
    PROVE  /\ Heard(history, now, q.targets[k], q.discoveries[k],
                    now + 1 - (DiscoveryTTL + 2 * Len(q.targets) * Timeout))
           /\ Served(history, now, q.targets[k], q.discoveries[k], q.jwks[k],
                     now + 1 - (JwksTTL + Len(q.targets) * Timeout))
<1> DEFINE n == Len(q.targets)
<1>1. n \in Nat /\ Len(q.discoveries) = n /\ Len(q.jwks) = n /\ Asked(q, now) = now
  BY CheckParts DEF Answered, InOrder, Asked, Fetching
<1>2. Heard(history, now, q.targets[k], q.discoveries[k],
            now + 1 - DiscoveryTTL - Timeout * (n - k + 1 + n))
  BY <1>1 DEF Answered, LocationsHeard
<1>3. Served(history, now, q.targets[k], q.discoveries[k], q.jwks[k],
             now + 1 - JwksTTL - Timeout * (n - k + 1))
  BY <1>1 DEF Answered, KeysServed
<1>4. k \in 1 .. n
  OBVIOUS
<1> HIDE DEF n
<1>5. Heard(history, now, q.targets[k], q.discoveries[k],
            now + 1 - (DiscoveryTTL + 2 * n * Timeout))
  <2> DEFINE m == n - k + 1 + n
             b == 2 * n
             from == now + 1 - DiscoveryTTL - Timeout * m
             earlier == now + 1 - (DiscoveryTTL + b * Timeout)
  <2>1. m \in Nat /\ b \in Nat /\ m <= b
    BY <1>1, <1>4
  <2>2. Heard(history, now, q.targets[k], q.discoveries[k], from)
    BY <1>2
  <2> HIDE DEF m, b
  <2>3. Timeout * m \in Nat /\ b * Timeout = Timeout * b /\ Timeout * b \in Nat
    BY <2>1, CacheBounds
  <2>4. Timeout * m <= Timeout * b
    BY <2>1, WaitsAddUp
  <2>5. from \in Int /\ earlier \in Int /\ earlier <= from
    BY <2>3, <2>4, CacheBounds
  <2> HIDE DEF from, earlier
  <2>6. Heard(history, now, q.targets[k], q.discoveries[k], earlier)
    BY <2>2, <2>5, HeardFromEarlier
  <2> QED BY <2>6 DEF earlier, b
<1>6. Served(history, now, q.targets[k], q.discoveries[k], q.jwks[k],
             now + 1 - (JwksTTL + n * Timeout))
  <2> DEFINE m == n - k + 1
             from == now + 1 - JwksTTL - Timeout * m
             earlier == now + 1 - (JwksTTL + n * Timeout)
  <2>1. m \in Nat /\ m <= n
    BY <1>1, <1>4
  <2>2. Served(history, now, q.targets[k], q.discoveries[k], q.jwks[k], from)
    BY <1>3
  <2> HIDE DEF m
  <2>3. Timeout * m \in Nat /\ n * Timeout = Timeout * n /\ Timeout * n \in Nat
    BY <1>1, <2>1, CacheBounds
  <2>4. Timeout * m <= Timeout * n
    BY <1>1, <2>1, WaitsAddUp
  <2>5. from \in Int /\ earlier \in Int /\ earlier <= from
    BY <2>3, <2>4, CacheBounds
  <2> HIDE DEF from, earlier
  <2>6. Served(history, now, q.targets[k], q.discoveries[k], q.jwks[k], earlier)
    BY <2>2, <2>5, ServedFromEarlier
  <2> QED BY <2>6 DEF earlier
<1> QED BY <1>5, <1>6 DEF n

\* The key that is looked for is the one of its provider, which is asked once.
LEMMA KeyOfProvider ==
    ASSUME NEW r \in Requests, request[r] \in Request, InOrder(request[r], clock),
           request[r].pc = "verify", NEW k \in 1 .. Len(request[r].targets), NEW version
    PROVE  GetPublicKeyForToken(r, [provider |-> request[r].targets[k], version |-> version])
               <=> request[r].jwks[k] = version
<1> DEFINE q == request[r]
<1>1. /\ Len(q.targets) \in Nat /\ DOMAIN q.targets = 1 .. Len(q.targets)
      /\ DOMAIN q.jwks = 1 .. Len(q.targets)
      /\ \A i, j \in 1 .. Len(q.targets) : q.targets[i] = q.targets[j] => i = j
  BY CheckParts DEF InOrder, IsInjective
<1> QED BY <1>1 DEF GetPublicKeyForToken

\* A token is accepted or refused as its provider would have done a moment ago, whatever
\* answers overlap or survive a restart (middleware.go:53-80, discovery.go:15, jwks.go:17).
THEOREM CurrentVerdicts == Spec => []VerdictsAreCurrent
<1>1. ASSUME CacheInv PROVE VerdictsAreCurrent
  <2> SUFFICES ASSUME NEW r \in Requests, request[r].pc = "verify",
                      NEW p \in ToSet(request[r].targets), NEW version \in Versions
               PROVE  LET n == Len(request[r].targets) IN
                      \E d \in Since(DiscoveryTTL + 2 * n * Timeout),
                         t \in Since(JwksTTL + n * Timeout) :
                          LET location == published[p][d + 1].location IN
                          /\ WasAt(p, location, t)
                          /\ GetPublicKeyForToken(r, [provider |-> p, version |-> version])
                                 = (ServedAt(p, location, t) = version)
    BY DEF VerdictsAreCurrent
  <2> DEFINE q == request[r]
             n == Len(q.targets)
             a == DiscoveryTTL + 2 * n * Timeout
             b == JwksTTL + n * Timeout
  <2>1. q \in Request /\ Answered(published, clock, q) /\ clock \in Nat /\ q.pc = "verify"
    BY <1>1, InWords
  <2>2. n \in Nat /\ a \in Int /\ b \in Int
    <3>1. n \in Nat
      BY <2>1, CheckParts
    <3> HIDE DEF n
    <3>2. 2 * n \in Nat
      BY <3>1
    <3>3. \A m \in Nat : m * Timeout \in Int
      BY CacheBounds, WaitIsNumber
    <3>4. 2 * n * Timeout \in Int /\ n * Timeout \in Int
      BY <3>1, <3>2, <3>3
    <3> QED BY <3>1, <3>4, CacheBounds
  <2>3. PICK k \in 1 .. n : q.targets[k] = p
    BY <2>1, CheckParts DEF ToSet
  <2>4. Heard(published, clock, p, q.discoveries[k], clock + 1 - a)
    BY <2>1, <2>3, AnswersAreCurrent
  <2>5. Served(published, clock, p, q.discoveries[k], q.jwks[k], clock + 1 - b)
    BY <2>1, <2>3, AnswersAreCurrent
  <2>6. GetPublicKeyForToken(r, [provider |-> p, version |-> version]) <=> q.jwks[k] = version
    BY <2>1, <2>3, KeyOfProvider DEF Answered
  <2> HIDE DEF a, b
  <2>7. PICK d \in Since(a) : published[p][d + 1].location = q.discoveries[k]
    BY <2>1, <2>2, <2>4 DEF Heard, Since
  <2>8. PICK t \in Since(b) : /\ WasIn(published, p, q.discoveries[k], t)
                              /\ ServedIn(published, p, q.discoveries[k], t) = q.jwks[k]
    BY <2>1, <2>2, <2>5 DEF Served, Since
  <2>9. WasAt(p, q.discoveries[k], t) /\ ServedAt(p, q.discoveries[k], t) = q.jwks[k]
    BY <1>1, <2>8, InWords
  <2>10. GetPublicKeyForToken(r, [provider |-> p, version |-> version])
            = (ServedAt(p, q.discoveries[k], t) = version)
    BY <2>6, <2>9 DEF GetPublicKeyForToken
  <2> QED BY <2>7, <2>9, <2>10 DEF a, b
<1> QED BY <1>1, CacheInvHolds, PTL
=============================================================================
