----------------------------- MODULE SAMLProofs -----------------------------
(* Theorems about SAMLLogins and SAMLKeyPair, for any requests, URLs, flags,   *)
(* accounts and pairs, and any number of providers, changes, logins, faults.   *)
EXTENDS SAMLLogins, SAMLKeyPair, SequenceTheorems, FiniteSetTheorems, WellFoundedInduction, TLAPS

-----------------------------------------------------------------------------
(* A set of numbers has a least one.  The induction is over a set, the       *)
(* initial segments up to its numbers ordered by inclusion, and not over a   *)
(* formula: the order is one that the library proves well-founded.           *)

\* The least of a set of numbers, which FiniteSetsExt chooses.
LEMMA HasLeast ==
    ASSUME NEW I, I \subseteq Nat, I # {}
    PROVE  Min(I) \in I /\ \A i \in I : Min(I) <= i
<1> DEFINE R == StrictSubsetOrdering(Nat)
           T == {0 .. i : i \in I}
<1>1. T \subseteq FiniteSubsetsOf(Nat)
  <2>1. \A i \in Nat : IsFiniteSet(0 .. i)
    BY FS_Interval
  <2>2. \A i \in Nat : 0 .. i \subseteq Nat
    OBVIOUS
  <2> QED BY <2>1, <2>2 DEF FiniteSubsetsOf
<1>2. T # {}
  OBVIOUS
<1>3. PICK X \in T : \A Y \in T : <<Y, X>> \notin R
  <2> HIDE DEF T, R
  <2>1. IsWellFoundedOn(R, FiniteSubsetsOf(Nat))
    BY FS_StrictSubsetOrderingWellFounded DEF R
  <2> QED BY <1>1, <1>2, <2>1, WFMin
<1>4. PICK x \in I : X = 0 .. x
  BY <1>3
<1>5. \A y \in I : x <= y
  <2> SUFFICES ASSUME NEW y \in I, y < x PROVE FALSE
    BY <1>4
  <2>1. 0 .. y \subseteq 0 .. x /\ 0 .. y # 0 .. x
    <3>1. x \in 0 .. x /\ x \notin 0 .. y
      OBVIOUS
    <3> QED BY <3>1
  <2>2. <<0 .. y, X>> \notin R
    BY <1>3
  <2> QED BY <1>4, <2>1, <2>2 DEF StrictSubsetOrdering
<1> QED BY <1>5 DEF Min

\* SelectInSeq, once its test is a set of positions: the first of them, 0 if there is none.
LEMMA FirstPosition ==
    ASSUME NEW I, I \subseteq Nat
    PROVE  LET k == IF I # {} THEN Min(I) ELSE 0 IN
           \/ k = 0 /\ I = {}
           \/ k \in I /\ \A i \in I : k <= i
BY HasLeast

-----------------------------------------------------------------------------
(* Lists that change.                                                       *)

\* An element taken out: the ones behind it move up.
LEMMA Removed ==
    ASSUME NEW S, NEW s \in Seq(S), NEW k \in 1 .. Len(s)
    PROVE  /\ RemoveAt(s, k) \in Seq(S)
           /\ Len(RemoveAt(s, k)) = Len(s) - 1
           /\ \A i \in 1 .. Len(s) - 1 : RemoveAt(s, k)[i] = IF i < k THEN s[i] ELSE s[i + 1]
<1> DEFINE before == SubSeq(s, 1, k - 1)
           after == SubSeq(s, k + 1, Len(s))
<1>1. /\ before \in Seq(S) /\ Len(before) = k - 1
      /\ \A i \in 1 .. k - 1 : before[i] = s[i]
  BY SubSeqProperties
<1>2. /\ after \in Seq(S) /\ Len(after) = Len(s) - k
      /\ \A i \in 1 .. Len(s) - k : after[i] = s[k + i]
  BY SubSeqProperties
<1>3. RemoveAt(s, k) = before \o after
  BY DEF RemoveAt
<1> HIDE DEF before, after
<1>4. /\ before \o after \in Seq(S) /\ Len(before \o after) = Len(before) + Len(after)
      /\ \A i \in 1 .. Len(before) + Len(after) :
           (before \o after)[i] = IF i <= Len(before) THEN before[i] ELSE after[i - Len(before)]
  BY <1>1, <1>2, ConcatProperties
<1> DEFINE rest == before \o after
<1> HIDE DEF rest
<1>5. rest \in Seq(S) /\ Len(rest) = Len(s) - 1
  BY <1>1, <1>2, <1>4 DEF rest
<1>6. \A i \in 1 .. Len(s) - 1 : rest[i] = IF i < k THEN s[i] ELSE s[i + 1]
  <2> TAKE i \in 1 .. Len(s) - 1
  <2>1. rest[i] = IF i <= k - 1 THEN before[i] ELSE after[i - (k - 1)]
    BY <1>1, <1>2, <1>4 DEF rest
  <2>2. CASE i < k
    BY <1>1, <2>1, <2>2
  <2>3. CASE ~(i < k)
    <3>1. i - (k - 1) \in 1 .. Len(s) - k /\ k + (i - (k - 1)) = i + 1
      BY <2>3
    <3>2. rest[i] = after[i - (k - 1)]
      BY <2>1, <2>3
    <3> QED BY <1>2, <2>3, <3>1, <3>2
  <2> QED BY <2>2, <2>3
<1> QED BY <1>3, <1>5, <1>6 DEF rest

\* An element replaced, in the notation of functions.
LEMMA ReplacedInPlace ==
    ASSUME NEW S, NEW s \in Seq(S), NEW k \in 1 .. Len(s), NEW e \in S
    PROVE  /\ [s EXCEPT ![k] = e] \in Seq(S)
           /\ Len([s EXCEPT ![k] = e]) = Len(s)
           /\ \A i \in 1 .. Len(s) : [s EXCEPT ![k] = e][i] = IF i = k THEN e ELSE s[i]
OBVIOUS

-----------------------------------------------------------------------------
(* Types.                                                                  *)

\* The bounds are numbers.
LEMMA BoundTypes ==
    MaxIDs \in Nat /\ MaxChanges \in Nat /\ MaxLogins \in Nat /\ MaxFaults \in Nat
BY Bounds

\* A request that arrives, returns or saves.
LEMMA SimpleRequests ==
    /\ Idle \in Request /\ Idle.pc = "idle"
    /\ [Idle EXCEPT !.pc = "save"] \in Request
    /\ [Idle EXCEPT !.pc = "save"].pc = "save"
BY DEF Request, Idle

\* A request with a provider.
LEMMA ProviderRequests ==
    ASSUME NEW pc \in {"load", "use", "add"}, NEW p \in Provider, NEW q,
           q = [Idle EXCEPT !.provider = p, !.pc = pc]
    PROVE  /\ q \in Request /\ q.pc = pc /\ q.provider = p
BY Sentinels DEF Request, Idle

\* A PUT that fetches the metadata of the new URL.
LEMMA ReplaceRequest ==
    ASSUME NEW p \in Provider, NEW k \in Nat, k > 0, NEW q,
           q = [Idle EXCEPT !.pc = "replace", !.index = k, !.provider = p]
    PROVE  /\ q \in Request /\ q.pc = "replace" /\ q.provider = p /\ q.index = k
<1>1. q = [pc |-> "replace", provider |-> p, index |-> k, session |-> Absent]
  BY DEF Idle
<1>2. p # Absent
  BY Sentinels
<1> QED BY <1>1, <1>2 DEF Request

\* A request with a session.
LEMMA SessionRequests ==
    ASSUME NEW pc \in {"session", "token"}, NEW s \in Session, NEW q,
           q = [Idle EXCEPT !.pc = pc, !.session = s]
    PROVE  /\ q \in Request /\ q.pc = pc /\ q.session = s
BY Sentinels DEF Request, Idle

\* A request that goes on with the provider it has.
LEMMA NextStep ==
    ASSUME NEW q \in Request, q.pc \in {"load", "fetch"}, NEW pc \in {"fetch", "use"}
    PROVE  /\ [q EXCEPT !.pc = pc] \in Request
           /\ [q EXCEPT !.pc = pc].pc = pc
           /\ [q EXCEPT !.pc = pc].provider = q.provider
BY DEF Request

\* What a request holds.
LEMMA Holds ==
    ASSUME NEW q \in Request
    PROVE  /\ q.pc \in {"load", "fetch", "use", "add", "replace"} => q.provider \in Provider
           /\ q.pc \in {"session", "token"} => q.session \in Session
           /\ q.index \in Nat
           /\ q.pc = "replace" => q.index > 0
BY DEF Request

\* The map that New makes.
LEMMA LoadedTypes ==
    ASSUME NEW loaded \in SUBSET Provider
    PROVE  /\ LoadedOf(loaded) \in [IDs -> Entry \cup {Absent}]
           /\ IdsOf(loaded) \subseteq IDs
<1>1. IdsOf(loaded) \subseteq IDs
  BY DEF IdsOf, Provider
<1>2. ASSUME NEW id \in IDs, id \in IdsOf(loaded)
      PROVE  LET c == CHOOSE p \in loaded : p.id = id IN [url |-> c.url, allow |-> c.allow] \in Entry
  <2>1. \E p \in loaded : p.id = id
    BY <1>2 DEF IdsOf
  <2> DEFINE c == CHOOSE p \in loaded : p.id = id
  <2>2. c \in Provider
    BY <2>1
  <2> HIDE DEF c
  <2>3. [url |-> c.url, allow |-> c.allow] \in Entry
    BY <2>2 DEF Provider, Entry
  <2> QED BY <2>3 DEF c
<1> QED BY <1>1, <1>2 DEF LoadedOf

\* The providers of a list, by id.
LEMMA ConfiguredTypes ==
    ASSUME NEW list \in Seq(Provider)
    PROVE  /\ ToSet(list) \subseteq Provider
           /\ AsConfigured(list) \in [IDs -> Provider \cup {Absent}]
<1>1. ToSet(list) \subseteq Provider
  BY DEF ToSet
<1>2. ASSUME NEW id \in IDs, id \in IdsOf(ToSet(list))
      PROVE  (CHOOSE p \in ToSet(list) : p.id = id) \in Provider
  BY <1>1, <1>2 DEF IdsOf
<1> QED BY <1>1, <1>2 DEF AsConfigured

\* The provider of a position has an id.
LEMMA PositionTypes ==
    ASSUME providers \in Seq(Provider), NEW k \in DOMAIN providers
    PROVE  /\ providers[k] \in Provider /\ providers[k].id \in IDs
           /\ k \in 1 .. Len(providers) /\ k \in Nat
           /\ providers[k].url \in URLs /\ providers[k].allow \in Flags
<1>1. providers[k] \in Provider /\ k \in 1 .. Len(providers)
  OBVIOUS
<1> QED BY <1>1 DEF Provider

\* The loop over the providers finds the first one with the id (setup.go:304-308).
LEMMA Found ==
    ASSUME TypeOK, NEW id
    PROVE  \/ IndexOf(id) = 0 /\ \A k \in DOMAIN providers : providers[k].id # id
           \/ IndexOf(id) \in DOMAIN providers /\ providers[IndexOf(id)].id = id
<1> DEFINE I == {k \in 1 .. Len(providers) : providers[k].id = id}
<1>1. IndexOf(id) = IF I # {} THEN Min(I) ELSE 0
  BY DEF IndexOf, SelectInSeq
<1>2. I \subseteq Nat /\ DOMAIN providers = 1 .. Len(providers)
  BY DEF TypeOK
<1>3. (IndexOf(id) = 0 /\ I = {}) \/ IndexOf(id) \in I
  <2> HIDE DEF I
  <2> QED BY <1>1, <1>2, FirstPosition
<1> QED BY <1>2, <1>3

\* The list without one of its providers.
LEMMA AllButOne ==
    ASSUME TypeOK, NEW k \in DOMAIN providers, NEW list, list = RemoveAt(providers, k)
    PROVE  /\ DOMAIN providers = 1 .. Len(providers) /\ Len(providers) \in Nat
           /\ DOMAIN list = 1 .. Len(providers) - 1
           /\ \A i \in DOMAIN list : list[i] = IF i < k THEN providers[i] ELSE providers[i + 1]
<1>1. DOMAIN providers = 1 .. Len(providers) /\ Len(providers) \in Nat
  BY DEF TypeOK
<1>2. /\ list \in Seq(Provider) /\ Len(list) = Len(providers) - 1
      /\ \A i \in 1 .. Len(providers) - 1 :
           list[i] = IF i < k THEN providers[i] ELSE providers[i + 1]
  BY <1>1, Removed DEF TypeOK
<1> QED BY <1>1, <1>2

\* The first state has the types.
LEMMA InitTypes == Init => TypeOK
<1> SUFFICES ASSUME Init PROVE TypeOK
  OBVIOUS
<1>1. PICK p \in Provider : p.id = 1 /\ providers = <<p>>
  BY DEF Init
<1>2. providers \in Seq(Provider) /\ disk = providers
  BY <1>1 DEF Init
<1>3. 1 \in IDs /\ nextID \in 1 .. MaxIDs + 1
  <2>1. 1 \in IDs
    BY <1>1 DEF Provider
  <2> QED BY <2>1, Bounds DEF Init, IDs
<1>4. PICK loaded \in SUBSET ToSet(providers) :
        /\ serviceProvider = LoadedOf(loaded)
        /\ loadFailed = IdsOf(ToSet(providers) \ loaded)
  BY DEF Init
<1>5. ToSet(providers) \subseteq Provider /\ lastSet \in [IDs -> Provider \cup {Absent}]
  BY <1>2, ConfiguredTypes DEF Init
<1>6. /\ serviceProvider \in [IDs -> Entry \cup {Absent, Nil}]
      /\ loadFailed \subseteq IDs
  <2>1. LoadedOf(loaded) \in [IDs -> Entry \cup {Absent}]
    BY <1>5, LoadedTypes
  <2>2. IdsOf(ToSet(providers) \ loaded) \subseteq IDs
    BY <1>5, LoadedTypes
  <2> QED BY <1>4, <2>1, <2>2
<1>7. request \in [Requests -> Request]
  BY SimpleRequests DEF Init
<1>8. changes \in 0 .. MaxChanges /\ faults \in 0 .. MaxFaults
  BY Bounds DEF Init
<1> QED BY <1>2, <1>3, <1>5, <1>6, <1>7, <1>8 DEF Init, TypeOK

\* A request that looks at a provider and its entry.
LEMMA EnsureTypes ==
    ASSUME TypeOK, NEW r \in Requests, NEW k \in DOMAIN providers, EnsureSPLoaded(r, k)
    PROVE  TypeOK'
<1> DEFINE p == providers[k]
           entry == serviceProvider[p.id]
           fresh == entry # Absent /\ entry.allow = p.allow
           pc == IF fresh THEN "use" ELSE "load"
           q == [Idle EXCEPT !.provider = p, !.pc = pc]
<1>1. p \in Provider /\ p.id \in IDs
  BY PositionTypes DEF TypeOK
<1>2. request' = [request EXCEPT ![r] = q]
  BY DEF EnsureSPLoaded
<1>3. q \in Request
  <2>1. pc \in {"load", "use", "add"}
    OBVIOUS
  <2> HIDE DEF p, pc
  <2> QED BY ZenonT(40), <1>1, <2>1, ProviderRequests
<1>4. serviceProvider' \in [IDs -> Entry \cup {Absent, Nil}]
  BY <1>1 DEF EnsureSPLoaded, TypeOK
<1> HIDE DEF q
<1>5. request' \in [Requests -> Request]
  BY <1>2, <1>3 DEF TypeOK
<1> QED BY <1>4, <1>5 DEF EnsureSPLoaded, TypeOK, ensureUnchanged, setup, logging, saving

\* The other steps of a request that needs a service provider.
LEMMA LoadTypes ==
    ASSUME TypeOK, NEW r \in Requests, BeginLoad(r) \/ LoadSucceeds(r) \/ LoadFails(r)
    PROVE  TypeOK'
<1> USE DEF ensureUnchanged, setup, logging, saving
<1>1. request[r] \in Request
  BY DEF TypeOK
<1>2. CASE BeginLoad(r)
  <2>1. [request[r] EXCEPT !.pc = "fetch"] \in Request
    BY <1>1, <1>2, NextStep DEF BeginLoad
  <2>2. request' \in [Requests -> Request]
    BY <1>2, <2>1 DEF BeginLoad, Goto, TypeOK
  <2> QED BY <1>2, <2>2 DEF BeginLoad, TypeOK
<1>3. CASE LoadSucceeds(r)
  <2>1. [request[r] EXCEPT !.pc = "use"] \in Request
    BY <1>1, <1>3, NextStep DEF LoadSucceeds
  <2>2. request' \in [Requests -> Request]
    BY <1>3, <2>1 DEF LoadSucceeds, Goto, TypeOK
  <2>3. request[r].provider \in Provider
    BY <1>1, <1>3, Holds DEF LoadSucceeds
  <2>4. [url |-> request[r].provider.url, allow |-> request[r].provider.allow] \in Entry
    BY <2>3 DEF Provider, Entry
  <2>5. serviceProvider' \in [IDs -> Entry \cup {Absent, Nil}]
    BY <1>3, <2>4 DEF LoadSucceeds, StoreEntry, TypeOK
  <2> QED BY <1>3, <2>2, <2>5 DEF LoadSucceeds, TypeOK
<1>4. CASE LoadFails(r)
  <2>1. request' \in [Requests -> Request]
    BY <1>4, SimpleRequests DEF LoadFails, Return, TypeOK
  <2>2. request[r].provider.id \in IDs
    BY <1>1, <1>4, Holds DEF LoadFails, Provider
  <2> QED BY <1>4, <2>1, <2>2 DEF LoadFails, ReleaseMu, TypeOK
<1> QED BY <1>2, <1>3, <1>4

\* Assertions, sessions and callbacks.
LEMMA LoginTypes ==
    ASSUME TypeOK, SessionsComeFromAssertions, NEW r \in Requests,
           \/ UseEnds(r) \/ CreateSession(r) \/ CallbackReturns(r)
           \/ \E account \in Accounts : AssertionAccepted(r, account)
           \/ \E session \in sessions, id \in IDs : Callback(r, id, session)
    PROVE  TypeOK'
<1> USE DEF loginUnchanged, setup, logging, saving
<1>1. request[r] \in Request
  BY DEF TypeOK
<1>2. CASE UseEnds(r) \/ CallbackReturns(r)
  <2>1. request' \in [Requests -> Request]
    BY <1>2, SimpleRequests DEF UseEnds, CallbackReturns, Return, TypeOK
  <2> QED BY <1>2, <2>1 DEF UseEnds, CallbackReturns, TypeOK
<1>3. CASE CreateSession(r)
  <2>1. request' \in [Requests -> Request]
    BY <1>3, SimpleRequests DEF CreateSession, Return, TypeOK
  <2>2. request[r].session \in Session
    BY <1>1, <1>3, Holds DEF CreateSession
  <2> QED BY <1>3, <2>1, <2>2 DEF CreateSession, TypeOK
<1>4. ASSUME NEW account \in Accounts, AssertionAccepted(r, account) PROVE TypeOK'
  <2> DEFINE session == [code |-> Cardinality(assertions) + 1,
                         provider |-> request[r].provider.id, account |-> account]
             q == [Idle EXCEPT !.pc = "session", !.session = session]
  <2>1. Cardinality(assertions) + 1 \in 1 .. MaxLogins
    <3>1. Cardinality(assertions) \in Nat
      BY FS_CardinalityType DEF SessionsComeFromAssertions
    <3>2. Cardinality(assertions) < MaxLogins /\ MaxLogins \in Nat
      BY <1>4, BoundTypes DEF AssertionAccepted
    <3> QED BY <3>1, <3>2
  <2>2. request[r].provider.id \in IDs
    BY <1>1, <1>4, Holds DEF AssertionAccepted, Provider
  <2>3. session \in Session
    BY <2>1, <2>2 DEF Session
  <2>4. request' = [request EXCEPT ![r] = q] /\ assertions' = assertions \cup {session}
    BY <1>4 DEF AssertionAccepted
  <2>5. q \in Request
    <3> HIDE DEF session
    <3> QED BY ZenonT(40), <2>3, SessionRequests
  <2> HIDE DEF session, q
  <2>6. request' \in [Requests -> Request] /\ assertions' \subseteq Session
    BY <2>3, <2>4, <2>5 DEF TypeOK
  <2> QED BY <1>4, <2>6 DEF AssertionAccepted, TypeOK
<1>5. ASSUME NEW session \in sessions, NEW id \in IDs, Callback(r, id, session) PROVE TypeOK'
  <2> DEFINE s == [session EXCEPT !.provider = id]
             q == [Idle EXCEPT !.pc = "token", !.session = s]
  <2>1. s \in Session
    BY DEF Session, TypeOK
  <2>2. q \in Request
    <3> HIDE DEF s
    <3> QED BY ZenonT(40), <2>1, SessionRequests
  <2>3. request' = [request EXCEPT ![r] = q]
    BY <1>5 DEF Callback
  <2> HIDE DEF q
  <2>4. request' \in [Requests -> Request]
    BY <2>2, <2>3 DEF TypeOK
  <2> QED BY <1>5, <2>4 DEF Callback, TypeOK
<1> QED BY <1>2, <1>3, <1>4, <1>5

\* Providers that are added.
LEMMA AddTypes ==
    ASSUME TypeOK, NEW r \in Requests,
           \/ \E url \in URLs, allow \in Flags : AddProvider(r, url, allow)
           \/ ProviderAdded(r)
    PROVE  TypeOK'
<1> USE DEF setupUnchanged, sp, logging, saving
<1>1. ASSUME NEW url \in URLs, NEW allow \in Flags, AddProvider(r, url, allow) PROVE TypeOK'
  <2> DEFINE p == [id |-> nextID, url |-> url, allow |-> allow]
             q == [Idle EXCEPT !.pc = "add", !.provider = p]
  <2>1. p \in Provider
    BY <1>1 DEF AddProvider, Provider
  <2>2. q \in Request
    <3> DEFINE s == [Idle EXCEPT !.provider = p, !.pc = "add"]
    <3>1. s \in Request
      <4> HIDE DEF p
      <4> QED BY <2>1, ProviderRequests
    <3>2. q = s
      BY DEF Idle
    <3> QED BY <3>1, <3>2
  <2>3. request' = [request EXCEPT ![r] = q]
    BY <1>1 DEF AddProvider
  <2> HIDE DEF q
  <2>4. request' \in [Requests -> Request]
    BY <2>2, <2>3 DEF TypeOK
  <2>5. nextID' \in 1 .. MaxIDs + 1 /\ changes' \in 0 .. MaxChanges
    <3>1. nextID' = nextID + 1 /\ nextID \in 1 .. MaxIDs
      BY <1>1 DEF AddProvider, IDs
    <3>2. changes' = changes + 1 /\ changes < MaxChanges /\ changes \in 0 .. MaxChanges
      BY <1>1 DEF AddProvider, CanChange, TypeOK
    <3> QED BY <3>1, <3>2, BoundTypes
  <2> QED BY <1>1, <2>4, <2>5 DEF AddProvider, TypeOK
<1>2. CASE ProviderAdded(r)
  <2>1. request[r].provider \in Provider
    BY <1>2, Holds DEF ProviderAdded, TypeOK
  <2>2. providers' \in Seq(Provider)
    BY <1>2, <2>1 DEF ProviderAdded, TypeOK
  <2>3. lastSet' \in [IDs -> Provider \cup {Absent}]
    BY <1>2, <2>1 DEF ProviderAdded, TypeOK
  <2>4. request' \in [Requests -> Request]
    BY <1>2, SimpleRequests DEF ProviderAdded, GoSave, TypeOK
  <2> QED BY <1>2, <2>2, <2>3, <2>4 DEF ProviderAdded, TypeOK
<1> QED BY <1>1, <1>2

\* A field of a provider that is set.
LEMMA FieldSet ==
    ASSUME NEW p \in Provider, NEW url \in URLs, NEW allow \in Flags
    PROVE  /\ [p EXCEPT !.allow = allow] \in Provider
           /\ [p EXCEPT !.allow = allow].id = p.id
           /\ [p EXCEPT !.allow = allow].url = p.url
           /\ [p EXCEPT !.url = url] \in Provider
           /\ [p EXCEPT !.url = url].id = p.id
           /\ [p EXCEPT !.url = url].allow = p.allow
BY DEF Provider

\* A PUT, which sets the flag.
LEMMA UpdateTypes ==
    ASSUME TypeOK, ProvidersAreSet, NEW r \in Requests, NEW k \in DOMAIN providers,
           NEW url \in URLs, NEW allow \in Flags, UpdateProvider(r, k, url, allow)
    PROVE  TypeOK'
<1> DEFINE wanted == [providers[k] EXCEPT !.allow = allow]
           put == [wanted EXCEPT !.url = url]
           q == IF url # providers[k].url
                THEN [Idle EXCEPT !.pc = "replace", !.index = k, !.provider = put]
                ELSE IF SavesFlag(providers[k], allow) THEN [Idle EXCEPT !.pc = "save"] ELSE Idle
<1>1. providers[k] \in Provider /\ providers[k].id \in IDs /\ k \in 1 .. Len(providers)
  BY PositionTypes DEF TypeOK
<1>2. wanted \in Provider /\ wanted.id = providers[k].id
  BY <1>1, FieldSet
<1>3. put \in Provider
  <2> HIDE DEF wanted
  <2> QED BY <1>2, FieldSet
<1>4. providers' \in Seq(Provider)
  <2>1. providers' = [providers EXCEPT ![k] = wanted]
    BY DEF UpdateProvider
  <2> HIDE DEF wanted
  <2> QED BY <1>1, <1>2, <2>1, ReplacedInPlace DEF TypeOK
<1>5. lastSet' \in [IDs -> Provider \cup {Absent}]
  <2>1. lastSet[providers[k].id] \in Provider
    BY <1>1 DEF TypeOK, ProvidersAreSet
  <2>2. [lastSet[providers[k].id] EXCEPT !.allow = allow] \in Provider
    BY <2>1, FieldSet
  <2>3. lastSet' = [lastSet EXCEPT ![providers[k].id] =
                       [lastSet[providers[k].id] EXCEPT !.allow = allow]]
    BY <1>1, <1>2 DEF UpdateProvider, TypeOK
  <2> QED BY <2>2, <2>3 DEF TypeOK
<1>6. q \in Request
  <2>1. [Idle EXCEPT !.pc = "replace", !.index = k, !.provider = put] \in Request
    <3>1. k \in Nat /\ k > 0
      BY <1>1
    <3> HIDE DEF put, wanted, q
    <3> QED BY ZenonT(40), <1>3, <3>1, ReplaceRequest
  <2> QED BY <2>1, SimpleRequests
<1>7. request' = [request EXCEPT ![r] = q]
  BY DEF UpdateProvider
<1> HIDE DEF q, wanted
<1>8. request' \in [Requests -> Request]
  BY <1>6, <1>7 DEF TypeOK
<1>9. changes' \in 0 .. MaxChanges
  BY BoundTypes DEF UpdateProvider, CanChange, TypeOK
<1> QED
  BY <1>4, <1>5, <1>8, <1>9 DEF UpdateProvider, TypeOK, setupUnchanged, sp, logging, saving

\* The answer of the new URL of a PUT: the provider at the position that was kept.
LEMMA UpdatedTypes ==
    ASSUME TypeOK, ProvidersAreSet, NEW r \in Requests, ProviderUpdated(r)
    PROVE  TypeOK'
<1> DEFINE k == request[r].index
           id == request[r].provider.id
           url == request[r].provider.url
<1>1. request[r].provider \in Provider /\ k \in Nat /\ id \in IDs /\ url \in URLs
  <2>1. request[r].provider \in Provider /\ k \in Nat
    BY Holds DEF ProviderUpdated, TypeOK
  <2> QED BY <2>1 DEF Provider
<1>2. request' \in [Requests -> Request]
  BY SimpleRequests DEF ProviderUpdated, Return, GoSave, TypeOK
<1>3. CASE k > Len(providers)
  BY <1>2, <1>3 DEF ProviderUpdated, TypeOK, setupUnchanged, sp, logging, saving
<1>4. CASE ~(k > Len(providers))
  <2>1. k \in 1 .. Len(providers)
    BY <1>1, <1>4, Holds DEF ProviderUpdated, TypeOK
  <2>2. providers[k] \in Provider /\ providers[k].id \in IDs
    BY <2>1, PositionTypes DEF TypeOK
  <2>3. providers' \in Seq(Provider)
    <3>1. [providers[k] EXCEPT !.url = url] \in Provider
      BY <1>1, <2>2 DEF Provider
    <3>2. providers' = [providers EXCEPT ![k] = [providers[k] EXCEPT !.url = url]]
      BY <1>4, <2>1 DEF ProviderUpdated, ReplaceURL, TypeOK
    <3> QED BY <2>1, <3>1, <3>2, ReplacedInPlace DEF TypeOK
  <2>4. lastSet' \in [IDs -> Provider \cup {Absent}]
    <3>1. CASE IndexOf(id) = 0
      BY <1>4, <3>1 DEF ProviderUpdated, TypeOK
    <3>2. CASE IndexOf(id) # 0
      <4>1. IndexOf(id) \in DOMAIN providers /\ providers[IndexOf(id)].id = id
        BY <3>2, Found
      <4>2. lastSet[id] \in Provider
        BY <1>1, <4>1 DEF TypeOK, ProvidersAreSet
      <4>3. [lastSet[id] EXCEPT !.url = url] \in Provider
        BY <1>1, <4>2 DEF Provider
      <4>4. lastSet' = [lastSet EXCEPT ![id] = [lastSet[id] EXCEPT !.url = url]]
        BY <1>1, <1>4, <3>2 DEF ProviderUpdated, TypeOK
      <4> QED BY <4>3, <4>4 DEF TypeOK
    <3> QED BY <3>1, <3>2
  <2>5. shifted' \subseteq IDs
    BY <1>1, <1>4, <2>2 DEF ProviderUpdated, TypeOK
  <2> QED
    BY <1>2, <2>3, <2>4, <2>5 DEF ProviderUpdated, TypeOK, setupUnchanged, sp, logging, saving
<1> QED BY <1>3, <1>4

\* A DELETE.
LEMMA DeleteTypes ==
    ASSUME TypeOK, NEW r \in Requests, NEW k \in DOMAIN providers, DeleteProvider(r, k)
    PROVE  TypeOK'
<1>1. k \in 1 .. Len(providers) /\ providers[k].id \in IDs
  BY PositionTypes DEF TypeOK
<1>2. providers' \in Seq(Provider)
  BY <1>1, Removed DEF DeleteProvider, TypeOK
<1>3. request' \in [Requests -> Request]
  BY SimpleRequests DEF DeleteProvider, GoSave, TypeOK
<1>4. changes' \in 0 .. MaxChanges
  BY BoundTypes DEF DeleteProvider, CanChange, TypeOK
<1> QED
  BY <1>1, <1>2, <1>3, <1>4 DEF DeleteProvider, TypeOK, setupUnchanged, sp, logging, saving

\* Metadata that is refused, and the writes of config.json.
LEMMA SaveTypes ==
    ASSUME TypeOK, NEW r \in Requests, MetadataRefused(r) \/ SaveConfig(r) \/ SaveConfigFails(r)
    PROVE  TypeOK'
<1> USE DEF setupUnchanged, sp, logging, setup
<1>1. request' \in [Requests -> Request]
  BY SimpleRequests DEF MetadataRefused, SaveConfig, SaveConfigFails, Return, TypeOK
<1>2. unsaved' \in BOOLEAN /\ disk' \in Seq(Provider)
  BY DEF MetadataRefused, SaveConfig, SaveConfigFails, TypeOK
<1>3. faults' \in 0 .. MaxFaults
  BY BoundTypes DEF MetadataRefused, SaveConfig, SaveConfigFails, TypeOK
<1> QED BY <1>1, <1>2, <1>3 DEF MetadataRefused, SaveConfig, SaveConfigFails, TypeOK

\* A restart.
LEMMA RestartTypes ==
    ASSUME TypeOK, Restart
    PROVE  TypeOK'
<1>1. PICK loaded \in SUBSET ToSet(disk) :
        /\ serviceProvider' = LoadedOf(loaded)
        /\ loadFailed' = IdsOf(ToSet(disk) \ loaded)
  BY DEF Restart
<1>2. ToSet(disk) \subseteq Provider /\ lastSet' \in [IDs -> Provider \cup {Absent}]
  BY ConfiguredTypes DEF Restart, TypeOK
<1>3. LoadedOf(loaded) \in [IDs -> Entry \cup {Absent}]
  BY <1>2, LoadedTypes
<1>4. IdsOf(ToSet(disk) \ loaded) \subseteq IDs
  BY <1>2, LoadedTypes
<1>5. request' \in [Requests -> Request]
  BY SimpleRequests DEF Restart
<1>6. faults' \in 0 .. MaxFaults
  BY BoundTypes DEF Restart, TypeOK
<1> QED BY <1>1, <1>2, <1>3, <1>4, <1>5, <1>6 DEF Restart, TypeOK

\* Every step keeps the types.
LEMMA NextTypes ==
    TypeOK /\ ProvidersAreSet /\ SessionsComeFromAssertions /\ [Next]_vars => TypeOK'
<1> SUFFICES ASSUME TypeOK, ProvidersAreSet, SessionsComeFromAssertions, [Next]_vars
             PROVE  TypeOK'
  OBVIOUS
<1>1. ASSUME NEW r \in Requests, LoginStep(r) PROVE TypeOK'
  BY <1>1, EnsureTypes, LoadTypes, LoginTypes DEF LoginStep
<1>2. ASSUME NEW r \in Requests, SetupStep(r) PROVE TypeOK'
  BY <1>2, AddTypes, UpdateTypes, UpdatedTypes, DeleteTypes, SaveTypes DEF SetupStep
<1>3. CASE UNCHANGED vars
  BY <1>3 DEF TypeOK, vars, setup, sp, logging, saving
<1> QED BY <1>1, <1>2, <1>3, RestartTypes DEF Next

-----------------------------------------------------------------------------
(* The steps, as far as the providers go.                                  *)

\* A request that is at none of the steps that add, change or save a provider.
Aside(q) == q.pc \notin {"add", "replace", "save"}

\* Logging in leaves the providers, the file and the setup requests alone.
LEMMA LoginIsAside ==
    ASSUME TypeOK, NEW r \in Requests, LoginStep(r)
    PROVE  /\ Aside(request[r]) /\ Aside(request'[r])
           /\ \A x \in Requests \ {r} : request'[x] = request[x]
           /\ UNCHANGED <<setup, disk, unsaved>>
<1> USE DEF ensureUnchanged, loginUnchanged, saving, Aside
<1>1. ASSUME NEW k \in DOMAIN providers, EnsureSPLoaded(r, k)
      PROVE  /\ Aside(request[r]) /\ Aside(request'[r])
             /\ \A x \in Requests \ {r} : request'[x] = request[x]
             /\ UNCHANGED <<setup, disk, unsaved>>
  <2> DEFINE p == providers[k]
             entry == serviceProvider[p.id]
             fresh == entry # Absent /\ entry.allow = p.allow
             pc == IF fresh THEN "use" ELSE "load"
             q == [Idle EXCEPT !.provider = p, !.pc = pc]
  <2>1. request' = [request EXCEPT ![r] = q]
    BY <1>1 DEF EnsureSPLoaded
  <2>2. q.pc = pc /\ pc \in {"use", "load"}
    BY DEF Idle
  <2> HIDE DEF q, pc
  <2> QED BY <1>1, <2>1, <2>2 DEF EnsureSPLoaded, CanArrive, TypeOK
<1>2. CASE BeginLoad(r) \/ LoadSucceeds(r)
  <2>1. PICK pc \in {"fetch", "use"} : request' = [request EXCEPT ![r].pc = pc]
    BY <1>2 DEF BeginLoad, LoadSucceeds, Goto
  <2>2. request[r].pc \in {"load", "fetch"} /\ request[r] \in Request
    BY <1>2 DEF BeginLoad, LoadSucceeds, TypeOK
  <2>3. request' = [request EXCEPT ![r] = [request[r] EXCEPT !.pc = pc]]
    BY <2>1 DEF TypeOK
  <2>4. [request[r] EXCEPT !.pc = pc].pc = pc
    BY <2>2, NextStep
  <2> QED BY <1>2, <2>2, <2>3, <2>4 DEF BeginLoad, LoadSucceeds, TypeOK
<1>3. CASE LoadFails(r) \/ UseEnds(r) \/ CreateSession(r) \/ CallbackReturns(r)
  <2>1. request' = [request EXCEPT ![r] = Idle]
    BY <1>3 DEF LoadFails, UseEnds, CreateSession, CallbackReturns, Return
  <2> QED
    BY <1>3, <2>1, SimpleRequests DEF LoadFails, UseEnds, CreateSession, CallbackReturns, TypeOK
<1>4. ASSUME NEW account \in Accounts, AssertionAccepted(r, account)
      PROVE  /\ Aside(request[r]) /\ Aside(request'[r])
             /\ \A x \in Requests \ {r} : request'[x] = request[x]
             /\ UNCHANGED <<setup, disk, unsaved>>
  <2> DEFINE session == [code |-> Cardinality(assertions) + 1,
                         provider |-> request[r].provider.id, account |-> account]
             q == [Idle EXCEPT !.pc = "session", !.session = session]
  <2>1. request' = [request EXCEPT ![r] = q]
    BY <1>4 DEF AssertionAccepted
  <2>2. q.pc = "session"
    BY DEF Idle
  <2> HIDE DEF q
  <2> QED BY <1>4, <2>1, <2>2 DEF AssertionAccepted, TypeOK
<1>5. ASSUME NEW session \in sessions, NEW id \in IDs, Callback(r, id, session)
      PROVE  /\ Aside(request[r]) /\ Aside(request'[r])
             /\ \A x \in Requests \ {r} : request'[x] = request[x]
             /\ UNCHANGED <<setup, disk, unsaved>>
  <2> DEFINE q == [Idle EXCEPT !.pc = "token", !.session = [session EXCEPT !.provider = id]]
  <2>1. request' = [request EXCEPT ![r] = q]
    BY <1>5 DEF Callback
  <2>2. q.pc = "token"
    BY DEF Idle
  <2> HIDE DEF q
  <2> QED BY <1>5, <2>1, <2>2 DEF Callback, CanArrive, TypeOK
<1> QED BY <1>1, <1>2, <1>3, <1>4, <1>5 DEF LoginStep

\* What a request that sets providers up leaves alone.
LEMMA SetupIsAside ==
    ASSUME TypeOK, NEW r \in Requests, SetupStep(r)
    PROVE  /\ \A x \in Requests \ {r} : request'[x] = request[x]
           /\ UNCHANGED <<sp, logging>>
<1>1. PICK q : request' = [request EXCEPT ![r] = q]
  BY DEF SetupStep, AddProvider, ProviderAdded, UpdateProvider, ProviderUpdated, MetadataRefused,
         DeleteProvider, SaveConfig, SaveConfigFails, GoSave, Return
<1>2. UNCHANGED <<sp, logging>>
  BY DEF SetupStep, AddProvider, ProviderAdded, UpdateProvider, ProviderUpdated, MetadataRefused,
         DeleteProvider, SaveConfig, SaveConfigFails, setupUnchanged
<1> QED BY <1>1, <1>2 DEF TypeOK

\* POST: the request with its new provider.
LEMMA AddStep ==
    ASSUME TypeOK, NEW r \in Requests, NEW url \in URLs, NEW allow \in Flags,
           AddProvider(r, url, allow)
    PROVE  /\ Aside(request[r]) /\ request'[r].pc = "add" /\ request'[r].provider.id = nextID
           /\ nextID \in IDs /\ nextID' = nextID + 1
           /\ UNCHANGED <<providers, disk, unsaved, lastSet, shifted>>
<1> DEFINE q == [Idle EXCEPT !.pc = "add",
                             !.provider = [id |-> nextID, url |-> url, allow |-> allow]]
<1>1. request' = [request EXCEPT ![r] = q]
  BY DEF AddProvider
<1>2. q.pc = "add" /\ q.provider.id = nextID
  BY DEF Idle
<1> HIDE DEF q
<1> QED BY <1>1, <1>2 DEF AddProvider, CanChange, CanArrive, Aside, TypeOK, saving

\* The new provider is appended.
LEMMA AddedStep ==
    ASSUME TypeOK, NEW r \in Requests, ProviderAdded(r)
    PROVE  /\ request[r].pc = "add" /\ request'[r].pc = "save"
           /\ request[r].provider \in Provider /\ request[r].provider.id \in IDs
           /\ providers' = Append(providers, request[r].provider)
           /\ lastSet' = [lastSet EXCEPT ![request[r].provider.id] = request[r].provider]
           /\ UNCHANGED <<disk, unsaved, nextID, shifted>>
<1>1. request[r].provider \in Provider
  BY Holds DEF ProviderAdded, TypeOK
<1>2. request[r].provider.id \in IDs
  BY <1>1 DEF Provider
<1>3. request'[r].pc = "save"
  BY SimpleRequests DEF ProviderAdded, GoSave, TypeOK
<1> QED BY <1>1, <1>2, <1>3 DEF ProviderAdded, saving

\* PUT: the flag is set; a new URL is fetched next, and without one the change is saved.
LEMMA UpdateStep ==
    ASSUME TypeOK, NEW r \in Requests, NEW k \in DOMAIN providers,
           NEW url \in URLs, NEW allow \in Flags, UpdateProvider(r, k, url, allow)
    PROVE  /\ Aside(request[r])
           /\ \/ request'[r].pc = "replace" /\ request'[r].index = k
              \/ request'[r].pc = "save"
              \/ request'[r].pc = "idle" /\ providers' = providers
           /\ providers' = [providers EXCEPT ![k] = [providers[k] EXCEPT !.allow = allow]]
           /\ lastSet' = [lastSet EXCEPT ![providers[k].id].allow = allow]
           /\ UNCHANGED <<disk, unsaved, nextID, shifted>>
<1> DEFINE wanted == [providers[k] EXCEPT !.allow = allow]
           put == [wanted EXCEPT !.url = url]
           q == IF url # providers[k].url
                THEN [Idle EXCEPT !.pc = "replace", !.index = k, !.provider = put]
                ELSE IF SavesFlag(providers[k], allow) THEN [Idle EXCEPT !.pc = "save"] ELSE Idle
<1>1. providers[k] \in Provider
  BY PositionTypes DEF TypeOK
<1>2. request' = [request EXCEPT ![r] = q] /\ providers' = [providers EXCEPT ![k] = wanted]
  BY DEF UpdateProvider
<1>3. wanted.id = providers[k].id
  BY <1>1, FieldSet
<1>4. ~SavesFlag(providers[k], allow) => providers' = providers
  <2> SUFFICES ASSUME ~SavesFlag(providers[k], allow) PROVE providers' = providers
    OBVIOUS
  <2>1. wanted = providers[k]
    BY <1>1 DEF SavesFlag, Provider
  <2> HIDE DEF wanted
  <2> QED BY <1>2, <2>1 DEF TypeOK
<1>5. \/ q.pc = "replace" /\ q.index = k
      \/ q.pc = "save"
      \/ q.pc = "idle" /\ ~SavesFlag(providers[k], allow)
  <2>1. LET i == [Idle EXCEPT !.pc = "replace", !.index = k, !.provider = put]
        IN  i.pc = "replace" /\ i.index = k
    BY DEF Idle
  <2> QED BY <2>1, SimpleRequests
<1>6. request'[r] = q
  <2> HIDE DEF q
  <2> QED BY <1>2 DEF TypeOK
<1>7. Aside(request[r])
  BY DEF UpdateProvider, CanChange, CanArrive, Aside
<1> HIDE DEF q, wanted
<1> QED BY <1>2, <1>3, <1>4, <1>5, <1>6, <1>7 DEF UpdateProvider, saving, wanted

\* The metadata of the new URL: nothing, when the position is gone, or the URL of the
\* provider at the position.
LEMMA UpdatedStep ==
    ASSUME TypeOK, NEW r \in Requests, ProviderUpdated(r)
    PROVE  LET k == request[r].index
               id == request[r].provider.id
               url == request[r].provider.url
           IN  /\ request[r].pc = "replace" /\ ~Aside(request[r])
               /\ id \in IDs /\ url \in URLs
               /\ UNCHANGED <<disk, unsaved, nextID>>
               /\ \/ /\ k > Len(providers) /\ request'[r].pc = "idle"
                     /\ UNCHANGED <<providers, lastSet, shifted>>
                  \/ /\ k \in DOMAIN providers /\ request'[r].pc = "save"
                     /\ providers' = [providers EXCEPT ![k] = [providers[k] EXCEPT !.url = url]]
                     /\ lastSet' = IF IndexOf(id) = 0 THEN lastSet
                                   ELSE [lastSet EXCEPT ![id].url = url]
                     /\ shifted' = IF IndexOf(id) = k THEN shifted
                                   ELSE shifted \cup {id, providers[k].id}
<1> DEFINE k == request[r].index
           url == request[r].provider.url
<1>1. request[r].provider \in Provider /\ k \in Nat /\ k > 0
  BY Holds DEF ProviderUpdated, TypeOK
<1>2. request[r].provider.id \in IDs /\ url \in URLs
  BY <1>1 DEF Provider
<1>3. request[r].pc = "replace" /\ ~Aside(request[r]) /\ UNCHANGED <<disk, unsaved, nextID>>
  BY DEF ProviderUpdated, saving, Aside
<1>4. CASE k > Len(providers)
  <2>1. request'[r].pc = "idle"
    BY <1>4, SimpleRequests DEF ProviderUpdated, Return, TypeOK
  <2> QED BY <1>2, <1>3, <1>4, <2>1 DEF ProviderUpdated
<1>5. CASE ~(k > Len(providers))
  <2>1. k \in DOMAIN providers
    BY <1>1, <1>5 DEF TypeOK
  <2>2. request'[r].pc = "save"
    BY <1>5, SimpleRequests DEF ProviderUpdated, GoSave, TypeOK
  <2>3. providers' = [providers EXCEPT ![k] = [providers[k] EXCEPT !.url = url]]
    BY <1>5, <2>1 DEF ProviderUpdated, ReplaceURL, TypeOK
  <2> QED BY <1>2, <1>3, <1>5, <2>1, <2>2, <2>3 DEF ProviderUpdated
<1> QED BY <1>4, <1>5

\* DELETE.
LEMMA DeleteStep ==
    ASSUME TypeOK, NEW r \in Requests, NEW k \in DOMAIN providers, DeleteProvider(r, k)
    PROVE  /\ Aside(request[r]) /\ request'[r].pc = "save"
           /\ providers' = RemoveAt(providers, k)
           /\ lastSet' = [lastSet EXCEPT ![providers[k].id] = Absent]
           /\ shifted' = shifted \ {providers[k].id}
           /\ UNCHANGED <<disk, unsaved, nextID>>
<1>1. request'[r].pc = "save"
  BY SimpleRequests DEF DeleteProvider, GoSave, TypeOK
<1> QED BY <1>1 DEF DeleteProvider, CanChange, CanArrive, Aside, saving

\* Metadata refused and the writes of the file.
LEMMA SaveStep ==
    ASSUME TypeOK, NEW r \in Requests, MetadataRefused(r) \/ SaveConfig(r) \/ SaveConfigFails(r)
    PROVE  /\ request'[r].pc = "idle"
           /\ UNCHANGED <<providers, nextID, lastSet, shifted>>
           /\ \/ disk' = providers /\ unsaved' = FALSE
              \/ disk' = disk /\ (disk # providers => unsaved')
<1>1. request'[r].pc = "idle"
  BY SimpleRequests DEF MetadataRefused, SaveConfig, SaveConfigFails, Return, TypeOK
<1> QED BY <1>1 DEF MetadataRefused, SaveConfig, SaveConfigFails, setup

-----------------------------------------------------------------------------
(* The ids of the providers.                                               *)

\* No provider is added or removed and no request begins to add one.
KeepsIds ==
    /\ UNCHANGED nextID
    /\ DOMAIN providers' = DOMAIN providers
    /\ \A k \in DOMAIN providers : providers'[k].id = providers[k].id
    /\ disk' = disk \/ (disk' = providers /\ UNCHANGED providers)
    /\ \A x \in Requests : request'[x].pc = "add" => request'[x] = request[x]

\* Such a step keeps the ids apart.
LEMMA SameIds == IdsAreNew /\ KeepsIds => IdsAreNew'
<1> SUFFICES ASSUME IdsAreNew, KeepsIds PROVE IdsAreNew'
  OBVIOUS
<1>1. HasOwnIds(providers)' /\ HasOwnIds(disk)'
  BY DEF IdsAreNew, HasOwnIds, KeepsIds
<1> QED BY <1>1 DEF IdsAreNew, KeepsIds

\* The ids in the first state.
LEMMA InitIds == Init => IdsAreNew /\ ProvidersAreSet /\ ProviderIsLastSet
<1> SUFFICES ASSUME Init PROVE IdsAreNew /\ ProvidersAreSet /\ ProviderIsLastSet
  OBVIOUS
<1>1. PICK p \in Provider : p.id = 1 /\ providers = <<p>>
  BY DEF Init
<1>2. DOMAIN providers = {1} /\ providers[1] = p /\ nextID = 2 /\ disk = providers
  BY <1>1 DEF Init
<1>3. HasOwnIds(providers) /\ HasOwnIds(disk)
  BY <1>1, <1>2 DEF HasOwnIds
<1>4. \A r \in Requests : request[r].pc # "add"
  BY SimpleRequests DEF Init
<1>5. lastSet[p.id] = p
  <2>1. ToSet(providers) = {p}
    BY <1>1 DEF ToSet
  <2>2. AsConfigured(providers)[p.id] = CHOOSE q \in ToSet(providers) : q.id = p.id
    BY <2>1 DEF AsConfigured, IdsOf, Provider
  <2> QED BY <2>1, <2>2 DEF Init
<1>6. p # Absent
  BY Sentinels
<1> QED BY <1>2, <1>3, <1>4, <1>5, <1>6 DEF IdsAreNew, ProvidersAreSet, ProviderIsLastSet

\* Every step keeps the ids apart.
LEMMA NextIds == TypeOK /\ TypeOK' /\ IdsAreNew /\ [Next]_vars => IdsAreNew'
<1> SUFFICES ASSUME TypeOK, TypeOK', IdsAreNew, [Next]_vars PROVE IdsAreNew'
  OBVIOUS
<1>1. ASSUME NEW r \in Requests, LoginStep(r) PROVE IdsAreNew'
  BY <1>1, LoginIsAside, SameIds DEF Aside, setup, KeepsIds
<1>2. ASSUME NEW r \in Requests, SetupStep(r) PROVE IdsAreNew'
  <2>0. \A x \in Requests \ {r} : request'[x] = request[x]
    BY <1>2, SetupIsAside
  <2>1. ASSUME NEW url \in URLs, NEW allow \in Flags, AddProvider(r, url, allow) PROVE IdsAreNew'
    <3>1. /\ request'[r].pc = "add" /\ request'[r].provider.id = nextID
          /\ nextID' = nextID + 1 /\ nextID \in Nat
          /\ UNCHANGED <<providers, disk>>
      BY <2>1, AddStep DEF TypeOK
    <3>2. \A x \in Requests \ {r} : request'[x] = request[x]
      BY <2>0
    <3>3. \A k \in DOMAIN providers : providers[k].id \in Nat /\ providers[k].id < nextID
      BY PositionTypes DEF TypeOK, IdsAreNew, HasOwnIds, IDs
    <3>4. \A k \in DOMAIN disk : disk[k].id \in Nat /\ disk[k].id < nextID
      <4>1. \A k \in DOMAIN disk : disk[k] \in Provider
        BY DEF TypeOK
      <4> QED BY <4>1 DEF Provider, IDs, IdsAreNew, HasOwnIds
    <3>5. \A x \in Requests : request[x].pc = "add" =>
            request[x].provider.id \in Nat /\ request[x].provider.id < nextID
      <4>1. \A x \in Requests : request[x].pc = "add" => request[x].provider \in Provider
        BY Holds DEF TypeOK
      <4> QED BY <4>1 DEF Provider, IDs, IdsAreNew
    <3>6. HasOwnIds(providers)' /\ HasOwnIds(disk)'
      BY <3>1, <3>3, <3>4 DEF IdsAreNew, HasOwnIds
    <3> QED BY <3>1, <3>2, <3>3, <3>5, <3>6 DEF IdsAreNew
  <2>2. CASE ProviderAdded(r)
    <3> DEFINE p == request[r].provider
    <3>1. /\ request[r].pc = "add" /\ request'[r].pc = "save"
          /\ p \in Provider /\ providers' = Append(providers, p)
          /\ UNCHANGED <<disk, nextID>>
      BY <2>2, AddedStep
    <3>2. \A x \in Requests \ {r} : request'[x] = request[x]
      BY <2>0
    <3>3. p.id < nextID /\ \A k \in DOMAIN providers : providers[k].id # p.id
      BY <3>1 DEF IdsAreNew
    <3>4. /\ DOMAIN providers' = 1 .. Len(providers) + 1
          /\ DOMAIN providers = 1 .. Len(providers) /\ Len(providers) \in Nat
          /\ \A k \in DOMAIN providers : providers'[k] = providers[k]
          /\ providers'[Len(providers) + 1] = p
      BY <3>1 DEF TypeOK
    <3> HIDE DEF p
    <3>5. HasOwnIds(providers)' /\ HasOwnIds(disk)'
      BY <3>1, <3>3, <3>4 DEF IdsAreNew, HasOwnIds
    <3>6. ASSUME NEW x \in Requests, request'[x].pc = "add"
          PROVE  /\ (request[x].provider.id < nextID)'
                 /\ \A k \in DOMAIN providers' : providers'[k].id # request'[x].provider.id
                 /\ \A y \in Requests : /\ request'[y].pc = "add"
                                       /\ request'[y].provider.id = request'[x].provider.id => y = x
      <4>1. x # r /\ request'[x] = request[x] /\ request[x].provider.id # p.id
        BY <3>1, <3>2, <3>6 DEF IdsAreNew, p
      <4> QED BY <3>1, <3>2, <3>4, <3>6, <4>1 DEF IdsAreNew
    <3> QED BY <3>5, <3>6 DEF IdsAreNew
  <2>3. ASSUME NEW k \in DOMAIN providers, NEW url \in URLs, NEW allow \in Flags,
               UpdateProvider(r, k, url, allow)
        PROVE  IdsAreNew'
    <3> DEFINE wanted == [providers[k] EXCEPT !.allow = allow]
    <3>1. \/ request'[r].pc = "replace" /\ request'[r].index = k
          \/ request'[r].pc = "save"
          \/ request'[r].pc = "idle" /\ providers' = providers
      BY <2>3, UpdateStep
    <3>2. providers' = [providers EXCEPT ![k] = wanted] /\ UNCHANGED <<disk, nextID>>
      BY <2>3 DEF UpdateProvider, saving
    <3>3. wanted.id = providers[k].id
      BY PositionTypes, FieldSet DEF TypeOK
    <3>4. \A x \in Requests : request'[x].pc = "add" => request'[x] = request[x]
      BY <2>0, <3>1
    <3> HIDE DEF wanted
    <3>5. /\ DOMAIN providers' = DOMAIN providers
          /\ \A j \in DOMAIN providers : providers'[j].id = providers[j].id
      BY <3>2, <3>3 DEF TypeOK
    <3> QED BY <3>2, <3>4, <3>5, SameIds DEF KeepsIds
  <2>4. CASE ProviderUpdated(r)
    <3> DEFINE k == request[r].index
               url == request[r].provider.url
    <3>1. /\ request'[r].pc # "add" /\ UNCHANGED <<disk, nextID>> /\ url \in URLs
          /\ \/ UNCHANGED providers
             \/ /\ k \in DOMAIN providers
                /\ providers' = [providers EXCEPT ![k] = [providers[k] EXCEPT !.url = url]]
      BY <2>4, UpdatedStep
    <3>2. \A x \in Requests : request'[x].pc = "add" => request'[x] = request[x]
      BY <2>0, <3>1
    <3>3. CASE UNCHANGED providers
      BY <3>1, <3>2, <3>3, SameIds DEF KeepsIds
    <3>4. CASE /\ k \in DOMAIN providers
               /\ providers' = [providers EXCEPT ![k] = [providers[k] EXCEPT !.url = url]]
      <4>1. [providers[k] EXCEPT !.url = url].id = providers[k].id
        BY <3>1, <3>4, PositionTypes DEF Provider, TypeOK
      <4>2. DOMAIN providers' = DOMAIN providers
        BY <3>4 DEF TypeOK
      <4>3. \A j \in DOMAIN providers : providers'[j].id = providers[j].id
        BY <3>4, <4>1 DEF TypeOK
      <4>4. disk' = disk /\ UNCHANGED nextID
        BY <3>1
      <4> HIDE DEF k, url
      <4> QED BY <3>2, <4>2, <4>3, <4>4, SameIds DEF KeepsIds
    <3> QED BY <3>1, <3>3, <3>4
  <2>5. ASSUME NEW k \in DOMAIN providers, DeleteProvider(r, k) PROVE IdsAreNew'
    <3>1. /\ request'[r].pc # "add" /\ UNCHANGED <<disk, nextID>>
          /\ providers' = RemoveAt(providers, k)
      BY <2>5, DeleteStep
    <3>2. /\ DOMAIN providers = 1 .. Len(providers) /\ Len(providers) \in Nat
          /\ DOMAIN providers' = 1 .. Len(providers) - 1
          /\ \A i \in DOMAIN providers' :
               providers'[i] = IF i < k THEN providers[i] ELSE providers[i + 1]
      BY <3>1, AllButOne
    <3>3. k \in Nat
      BY <3>2
    <3>4. \A i \in DOMAIN providers' : \E j \in DOMAIN providers :
            providers'[i] = providers[j] /\ j = IF i < k THEN i ELSE i + 1
      BY <3>2, <3>3
    <3>5. HasOwnIds(providers)'
      BY <3>1, <3>2, <3>3, <3>4 DEF IdsAreNew, HasOwnIds
    <3>6. HasOwnIds(disk)'
      BY <3>1 DEF IdsAreNew, HasOwnIds
    <3>7. \A x \in Requests : request'[x].pc = "add" => request'[x] = request[x]
      BY <2>0, <3>1
    <3> QED BY <3>1, <3>4, <3>5, <3>6, <3>7 DEF IdsAreNew
  <2>6. CASE MetadataRefused(r) \/ SaveConfig(r) \/ SaveConfigFails(r)
    BY <2>0, <2>6, SaveStep, SameIds DEF KeepsIds
  <2> QED BY <1>2, <2>1, <2>2, <2>3, <2>4, <2>5, <2>6 DEF SetupStep
<1>3. CASE Restart
  <2>1. \A r \in Requests : request'[r].pc # "add"
    BY <1>3, SimpleRequests DEF Restart
  <2>2. HasOwnIds(providers)' /\ HasOwnIds(disk)'
    BY <1>3 DEF Restart, IdsAreNew, HasOwnIds
  <2> QED BY <2>1, <2>2 DEF IdsAreNew
<1>4. CASE UNCHANGED vars
  BY <1>4 DEF IdsAreNew, HasOwnIds, vars, setup, saving
<1> QED BY <1>1, <1>2, <1>3, <1>4 DEF Next

-----------------------------------------------------------------------------
(* What the providers were set to.                                         *)

\* A provider of the list is set; so is, as requests have set it, one that no misplaced
\* change has hit.
LEMMA NextSet ==
    TypeOK /\ TypeOK' /\ IdsAreNew /\ ProvidersAreSet /\ ProviderIsLastSet /\ [Next]_vars
        => ProvidersAreSet' /\ ProviderIsLastSet'
<1> DEFINE Goal == ProvidersAreSet' /\ ProviderIsLastSet'
<1> SUFFICES ASSUME TypeOK, TypeOK', IdsAreNew, ProvidersAreSet, ProviderIsLastSet, [Next]_vars
             PROVE  Goal
  OBVIOUS
<1>1. \A j \in DOMAIN providers :
        /\ providers[j] \in Provider /\ providers[j].id \in IDs
        /\ providers[j] # Absent /\ lastSet[providers[j].id] \in Provider
  BY PositionTypes, Sentinels DEF ProvidersAreSet, TypeOK
<1>2. \A i, j \in DOMAIN providers : providers[i].id = providers[j].id => i = j
  BY DEF IdsAreNew, HasOwnIds
<1>3. ASSUME UNCHANGED <<providers, lastSet, shifted>> PROVE Goal
  BY <1>3 DEF ProvidersAreSet, ProviderIsLastSet
<1>4. ASSUME NEW r \in Requests, ProviderAdded(r) PROVE Goal
  <2> DEFINE p == request[r].provider
  <2>1. /\ p \in Provider /\ p.id \in IDs /\ providers' = Append(providers, p)
        /\ lastSet' = [lastSet EXCEPT ![p.id] = p] /\ UNCHANGED shifted
    BY <1>4, AddedStep
  <2>2. \A j \in DOMAIN providers : providers[j].id # p.id
    BY <1>4, AddedStep DEF IdsAreNew
  <2>3. p # Absent
    BY <2>1, Sentinels
  <2> HIDE DEF p
  <2>4. lastSet'[p.id] = p /\ \A i \in IDs \ {p.id} : lastSet'[i] = lastSet[i]
    BY <2>1 DEF TypeOK
  <2>5. \A j \in DOMAIN providers' :
          \/ providers'[j] = p
          \/ j \in DOMAIN providers /\ providers'[j] = providers[j]
    BY <2>1 DEF TypeOK
  <2> QED BY <1>1, <2>1, <2>2, <2>3, <2>4, <2>5 DEF ProvidersAreSet, ProviderIsLastSet
<1>5. ASSUME NEW r \in Requests, NEW k \in DOMAIN providers, NEW url \in URLs,
             NEW allow \in Flags, UpdateProvider(r, k, url, allow)
      PROVE  Goal
  <2> DEFINE id == providers[k].id
             wanted == [providers[k] EXCEPT !.allow = allow]
             set == [lastSet[id] EXCEPT !.allow = allow]
  <2>1. wanted \in Provider /\ wanted.id = id /\ set \in Provider
    BY <1>1, FieldSet
  <2>2. set # Absent /\ id \in IDs
    BY <1>1, <2>1, Sentinels
  <2>3. id \notin shifted => set = wanted
    BY DEF ProviderIsLastSet
  <2>4. providers' = [providers EXCEPT ![k] = wanted] /\ UNCHANGED shifted
    BY <1>5 DEF UpdateProvider
  <2>5. lastSet' = [lastSet EXCEPT ![id] = set]
    BY <1>1, <1>5, UpdateStep DEF TypeOK
  <2> HIDE DEF id, wanted, set
  <2>6. lastSet'[id] = set /\ \A i \in IDs \ {id} : lastSet'[i] = lastSet[i]
    BY <2>2, <2>5 DEF TypeOK
  <2>7. \A j \in DOMAIN providers' : j \in DOMAIN providers /\
          \/ j = k /\ providers'[j] = wanted
          \/ j # k /\ providers'[j] = providers[j]
    BY <2>4 DEF TypeOK
  <2>8. \A j \in DOMAIN providers : j # k => providers[j].id # id
    BY <1>2 DEF id
  <2> QED
    BY <1>1, <2>1, <2>2, <2>3, <2>4, <2>6, <2>7, <2>8 DEF ProvidersAreSet, ProviderIsLastSet
<1>6. ASSUME NEW r \in Requests, ProviderUpdated(r) PROVE Goal
  <2> DEFINE k == request[r].index
             id == request[r].provider.id
             url == request[r].provider.url
  <2>1. CASE UNCHANGED <<providers, lastSet, shifted>>
    BY <1>3, <2>1
  <2>2. CASE ~UNCHANGED <<providers, lastSet, shifted>>
    <3> DEFINE put == [providers[k] EXCEPT !.url = url]
               set == [lastSet[id] EXCEPT !.url = url]
    <3>1. /\ id \in IDs /\ url \in URLs /\ k \in DOMAIN providers
          /\ providers' = [providers EXCEPT ![k] = put]
          /\ shifted' = IF IndexOf(id) = k THEN shifted ELSE shifted \cup {id, providers[k].id}
      BY <1>6, <2>2, UpdatedStep
    <3>2. lastSet' = IF IndexOf(id) = 0 THEN lastSet ELSE [lastSet EXCEPT ![id] = set]
      BY <1>6, <2>2, <3>1, UpdatedStep DEF TypeOK
    <3>3. put \in Provider /\ put.id = providers[k].id /\ put # Absent
      BY <1>1, <3>1, Sentinels DEF Provider
    <3>4. IndexOf(id) # 0 => lastSet[id] \in Provider
      BY <1>1, Found
    <3>5. IndexOf(id) # 0 => set \in Provider /\ set # Absent
      BY <3>1, <3>4, Sentinels DEF Provider
    <3>6. IndexOf(id) = k => id = providers[k].id /\ k # 0
      <4>1. k # 0
        BY <3>1 DEF TypeOK
      <4> QED BY <4>1, Found
    <3>7. IndexOf(id) = k /\ id \notin shifted => put = set
      BY <3>1, <3>6 DEF ProviderIsLastSet
    <3> HIDE DEF k, id, url, put, set
    <3>8. \A j \in DOMAIN providers' : j \in DOMAIN providers /\
            \/ j = k /\ providers'[j] = put
            \/ j # k /\ providers'[j] = providers[j]
      BY <3>1 DEF TypeOK
    <3>9. /\ \A i \in IDs \ {id} : lastSet'[i] = lastSet[i]
          /\ lastSet'[id] = IF IndexOf(id) = 0 THEN lastSet[id] ELSE set
      BY <3>1, <3>2 DEF TypeOK
    <3>10. ProvidersAreSet'
      BY <1>1, <3>1, <3>3, <3>5, <3>8, <3>9, Sentinels DEF ProvidersAreSet
    <3>11. \A j \in DOMAIN providers : j # k => providers[j].id # providers[k].id
      BY <1>2, <3>1
    <3>12. ASSUME NEW j \in DOMAIN providers', providers'[j].id \notin shifted'
           PROVE  providers'[j] = lastSet'[providers'[j].id]
      <4>1. CASE j = k
        <5>1. providers'[j] = put /\ put.id = providers[k].id
          BY <3>3, <3>8, <4>1
        <5>2. IndexOf(id) = k /\ id \notin shifted
          BY <3>1, <3>6, <3>12, <5>1
        <5> QED BY <3>6, <3>7, <3>9, <5>1, <5>2
      <4>2. CASE j # k
        <5>1. j \in DOMAIN providers /\ providers'[j] = providers[j]
          BY <3>8, <4>2
        <5>2. providers[j].id # id /\ providers[j].id \notin shifted
          BY <3>1, <3>6, <3>11, <3>12, <4>2, <5>1
        <5> QED BY <1>1, <3>9, <5>1, <5>2 DEF ProviderIsLastSet
      <4> QED BY <4>1, <4>2
    <3> QED BY <3>10, <3>12 DEF ProviderIsLastSet
  <2> QED BY <2>1, <2>2
<1>7. ASSUME NEW r \in Requests, NEW k \in DOMAIN providers, DeleteProvider(r, k) PROVE Goal
  <2> DEFINE id == providers[k].id
  <2>1. /\ providers' = RemoveAt(providers, k)
        /\ lastSet' = [lastSet EXCEPT ![id] = Absent] /\ shifted' = shifted \ {id}
    BY <1>7, DeleteStep
  <2>2. /\ DOMAIN providers = 1 .. Len(providers) /\ Len(providers) \in Nat
        /\ DOMAIN providers' = 1 .. Len(providers) - 1
        /\ \A i \in DOMAIN providers' :
             providers'[i] = IF i < k THEN providers[i] ELSE providers[i + 1]
    BY <2>1, AllButOne
  <2>3. \A i \in DOMAIN providers' : \E j \in DOMAIN providers \ {k} : providers'[i] = providers[j]
    <3> TAKE i \in DOMAIN providers'
    <3>1. k \in Nat
      BY <2>2
    <3>2. CASE i < k
      BY <2>2, <3>1, <3>2
    <3>3. CASE ~(i < k)
      <4>1. i + 1 \in DOMAIN providers \ {k} /\ providers'[i] = providers[i + 1]
        BY <2>2, <3>1, <3>3
      <4> QED BY <4>1
    <3> QED BY <3>2, <3>3
  <2>4. \A j \in DOMAIN providers \ {k} : providers[j].id # id
    BY <1>2
  <2> HIDE DEF id
  <2>5. \A i \in IDs \ {id} : lastSet'[i] = lastSet[i]
    BY <2>1 DEF TypeOK
  <2>6. \A i \in DOMAIN providers' :
          /\ providers'[i].id \in IDs \ {id}
          /\ lastSet'[providers'[i].id] # Absent
          /\ providers'[i].id \notin shifted' => providers'[i] = lastSet'[providers'[i].id]
    <3> TAKE i \in DOMAIN providers'
    <3>1. PICK j \in DOMAIN providers \ {k} : providers'[i] = providers[j]
      BY <2>3
    <3> QED BY <1>1, <2>1, <2>4, <2>5, <3>1 DEF ProvidersAreSet, ProviderIsLastSet
  <2> QED BY <2>6 DEF ProvidersAreSet, ProviderIsLastSet
<1>8. CASE Restart
  <2>1. providers' = disk /\ lastSet' = AsConfigured(disk)
    BY <1>8 DEF Restart
  <2>2. \A k \in DOMAIN disk : disk[k] \in Provider /\ disk[k].id \in IDs /\ disk[k] \in ToSet(disk)
    <3>1. \A k \in DOMAIN disk : disk[k] \in Provider /\ disk[k] \in ToSet(disk)
      BY DEF ToSet, TypeOK
    <3> QED BY <3>1 DEF Provider
  <2>3. \A p, q \in ToSet(disk) : p.id = q.id => p = q
    BY DEF ToSet, TypeOK, IdsAreNew, HasOwnIds
  <2>4. \A p \in ToSet(disk) : p.id \in IDs => AsConfigured(disk)[p.id] = p
    BY <2>3 DEF AsConfigured, IdsOf
  <2> QED BY <2>1, <2>2, <2>4, Sentinels DEF ProvidersAreSet, ProviderIsLastSet
<1>9. ASSUME NEW r \in Requests, LoginStep(r) PROVE Goal
  BY <1>3, <1>9, LoginIsAside DEF setup
<1>10. ASSUME NEW r \in Requests, NEW url \in URLs, NEW allow \in Flags, AddProvider(r, url, allow)
       PROVE  Goal
  BY <1>3, <1>10, AddStep
<1>11. ASSUME NEW r \in Requests, MetadataRefused(r) \/ SaveConfig(r) \/ SaveConfigFails(r)
       PROVE  Goal
  BY <1>3, <1>11, SaveStep
<1>12. CASE UNCHANGED vars
  BY <1>3, <1>12 DEF vars, setup
<1> HIDE DEF Goal
<1> QED BY <1>4, <1>5, <1>6, <1>7, <1>8, <1>9, <1>10, <1>11, <1>12 DEF Next, SetupStep

-----------------------------------------------------------------------------
(* Saving.                                                                 *)

\* A file that is behind is caught up with, unless an error has been answered.
LEMMA NextSaves == TypeOK /\ TypeOK' /\ SomebodySaves /\ [Next]_vars => SomebodySaves'
<1> SUFFICES ASSUME TypeOK, TypeOK', SomebodySaves, [Next]_vars PROVE SomebodySaves'
  OBVIOUS
<1>1. ASSUME NEW r \in Requests, request'[r].pc = "save" PROVE SomebodySaves'
  BY <1>1 DEF SomebodySaves
<1>2. ASSUME NEW r \in Requests, \A x \in Requests \ {r} : request'[x] = request[x],
             request[r].pc # "save",
             request[r].pc = "replace" => request[r].index > Len(providers),
             UNCHANGED <<providers, disk, unsaved>>
      PROVE  SomebodySaves'
  <2>1. CASE disk = providers \/ unsaved
    BY <1>2, <2>1 DEF SomebodySaves
  <2>2. ASSUME NEW x \in Requests, request[x].pc = "save" PROVE SomebodySaves'
    BY <1>2, <2>2 DEF SomebodySaves
  <2>3. ASSUME NEW x \in Requests, request[x].pc = "replace", request[x].index <= Len(providers)
        PROVE  SomebodySaves'
    <3>1. x # r
      BY <1>2, <2>3, Holds DEF TypeOK
    <3> QED BY <1>2, <2>3, <3>1 DEF SomebodySaves
  <2> QED BY <2>1, <2>2, <2>3 DEF SomebodySaves
<1>3. ASSUME NEW r \in Requests, LoginStep(r) PROVE SomebodySaves'
  BY <1>2, <1>3, LoginIsAside DEF Aside, setup
<1>4. ASSUME NEW r \in Requests, SetupStep(r) PROVE SomebodySaves'
  <2>0. \A x \in Requests \ {r} : request'[x] = request[x]
    BY <1>4, SetupIsAside
  <2>1. ASSUME NEW url \in URLs, NEW allow \in Flags, AddProvider(r, url, allow)
        PROVE  SomebodySaves'
    BY <1>2, <2>0, <2>1, AddStep DEF Aside
  <2>2. CASE ProviderAdded(r)
    BY <1>1, <2>2, AddedStep
  <2>3. ASSUME NEW k \in DOMAIN providers, NEW url \in URLs, NEW allow \in Flags,
               UpdateProvider(r, k, url, allow)
        PROVE  SomebodySaves'
    <3>1. Aside(request[r]) /\ UNCHANGED <<disk, unsaved>>
      BY <2>3, UpdateStep
    <3>2. \/ request'[r].pc = "replace" /\ request'[r].index = k
          \/ request'[r].pc = "save"
          \/ request'[r].pc = "idle" /\ providers' = providers
      BY <2>3, UpdateStep
    <3>3. Len(providers') = Len(providers) /\ k \in 1 .. Len(providers)
      BY <2>3, ReplacedInPlace DEF UpdateProvider, TypeOK
    <3>4. CASE request'[r].pc = "replace" /\ request'[r].index = k
      BY <3>3, <3>4 DEF SomebodySaves
    <3>5. CASE request'[r].pc = "idle" /\ providers' = providers
      BY <1>2, <2>0, <3>1, <3>5 DEF Aside
    <3> QED BY <1>1, <3>2, <3>4, <3>5
  <2>4. CASE ProviderUpdated(r)
    <3>1. request[r].pc = "replace" /\ UNCHANGED <<disk, unsaved>>
      BY <2>4, UpdatedStep
    <3>2. CASE request'[r].pc = "save"
      BY <1>1, <3>2
    <3>3. CASE request'[r].pc # "save"
      <4>1. request[r].index > Len(providers) /\ UNCHANGED providers
        BY <2>4, <3>3, UpdatedStep
      <4> QED BY <1>2, <2>0, <3>1, <4>1
    <3> QED BY <3>2, <3>3
  <2>5. ASSUME NEW k \in DOMAIN providers, DeleteProvider(r, k) PROVE SomebodySaves'
    BY <1>1, <2>5, DeleteStep
  <2>6. CASE MetadataRefused(r) \/ SaveConfig(r) \/ SaveConfigFails(r)
    <3>1. \/ disk' = providers /\ unsaved' = FALSE
          \/ disk' = disk /\ (disk # providers => unsaved')
      BY <2>6, SaveStep
    <3>2. UNCHANGED providers
      BY <2>6, SaveStep
    <3>3. disk' = providers' \/ unsaved'
      BY <3>1, <3>2
    <3> QED BY <3>3 DEF SomebodySaves
  <2> QED BY <1>4, <2>1, <2>2, <2>3, <2>4, <2>5, <2>6 DEF SetupStep
<1>5. CASE Restart
  BY <1>5 DEF Restart, SomebodySaves
<1>6. CASE UNCHANGED vars
  BY <1>6 DEF SomebodySaves, vars, setup, saving
<1> QED BY <1>3, <1>4, <1>5, <1>6 DEF Next

-----------------------------------------------------------------------------
(* Assertions and tokens.                                                  *)

\* A request that sets providers up has nothing to do with logins, before and after.
LEMMA SetupRequests ==
    ASSUME TypeOK, NEW r \in Requests, SetupStep(r)
    PROVE  /\ request[r].pc \notin {"load", "fetch", "use", "session", "token"}
           /\ request'[r].pc \notin {"load", "fetch", "use", "session", "token"}
<1>1. ASSUME NEW url \in URLs, NEW allow \in Flags, AddProvider(r, url, allow)
      PROVE  request[r].pc = "idle" /\ request'[r].pc = "add"
  BY <1>1, AddStep DEF AddProvider, CanChange, CanArrive
<1>2. ASSUME NEW k \in DOMAIN providers, NEW url \in URLs, NEW allow \in Flags,
             UpdateProvider(r, k, url, allow)
      PROVE  request[r].pc = "idle" /\ request'[r].pc \in {"replace", "save", "idle"}
  <2>1. \/ request'[r].pc = "replace" /\ request'[r].index = k
        \/ request'[r].pc = "save"
        \/ request'[r].pc = "idle" /\ providers' = providers
    BY <1>2, UpdateStep
  <2> QED BY <1>2, <2>1 DEF UpdateProvider, CanChange, CanArrive
<1>3. ASSUME NEW k \in DOMAIN providers, DeleteProvider(r, k)
      PROVE  request[r].pc = "idle" /\ request'[r].pc = "save"
  BY <1>3, DeleteStep DEF DeleteProvider, CanChange, CanArrive
<1>4. ProviderAdded(r) => request[r].pc = "add" /\ request'[r].pc = "save"
  BY AddedStep
<1>5. ProviderUpdated(r) => request[r].pc = "replace" /\ request'[r].pc \in {"idle", "save"}
  BY UpdatedStep
<1>6. MetadataRefused(r) \/ SaveConfig(r) \/ SaveConfigFails(r) =>
        request[r].pc \in {"add", "replace", "save"} /\ request'[r].pc = "idle"
  BY SaveStep DEF MetadataRefused, SaveConfig, SaveConfigFails
<1> QED BY <1>1, <1>2, <1>3, <1>4, <1>5, <1>6 DEF SetupStep

\* Sessions and tokens are of assertions.
Tokens == SessionsComeFromAssertions /\ TokensComeFromAssertions

\* Every step keeps sessions and tokens to the assertions.
LEMMA NextTokens == TypeOK /\ Tokens /\ [Next]_vars => Tokens'
<1> SUFFICES ASSUME TypeOK, Tokens, [Next]_vars PROVE Tokens'
  OBVIOUS
<1> USE DEF Tokens, SessionsComeFromAssertions, TokensComeFromAssertions
<1>1. ASSUME NEW r \in Requests, \A x \in Requests \ {r} : request'[x] = request[x],
             request'[r].pc \in {"session", "token"} => request'[r].session \in assertions',
             IsFiniteSet(assertions'), assertions \subseteq assertions',
             sessions' \subseteq assertions'
      PROVE  Tokens'
  BY <1>1
<1>2. ASSUME NEW r \in Requests, LoginStep(r) PROVE Tokens'
  <2>0. \A x \in Requests \ {r} : request'[x] = request[x]
    BY <1>2, LoginIsAside
  <2>1. ASSUME NEW k \in DOMAIN providers, EnsureSPLoaded(r, k) PROVE Tokens'
    <3>1. request'[r].pc \in {"use", "load"}
      <4> DEFINE p == providers[k]
                 entry == serviceProvider[p.id]
                 fresh == entry # Absent /\ entry.allow = p.allow
                 pc == IF fresh THEN "use" ELSE "load"
                 q == [Idle EXCEPT !.provider = p, !.pc = pc]
      <4>1. request' = [request EXCEPT ![r] = q]
        BY <2>1 DEF EnsureSPLoaded
      <4>2. q.pc = pc /\ pc \in {"use", "load"}
        BY DEF Idle
      <4> HIDE DEF q, pc
      <4> QED BY <4>1, <4>2 DEF TypeOK
    <3> QED BY <1>1, <2>0, <2>1, <3>1 DEF EnsureSPLoaded, ensureUnchanged, logging
  <2>2. CASE BeginLoad(r) \/ LoadSucceeds(r)
    <3>1. PICK pc \in {"fetch", "use"} : request' = [request EXCEPT ![r].pc = pc]
      BY <2>2 DEF BeginLoad, LoadSucceeds, Goto
    <3>2. request[r].pc \in {"load", "fetch"} /\ request[r] \in Request
      BY <2>2 DEF BeginLoad, LoadSucceeds, TypeOK
    <3>3. request' = [request EXCEPT ![r] = [request[r] EXCEPT !.pc = pc]]
      BY <3>1 DEF TypeOK
    <3>4. [request[r] EXCEPT !.pc = pc].pc = pc
      BY <3>2, NextStep
    <3>5. request'[r].pc = pc
      BY <3>3, <3>4 DEF TypeOK
    <3> QED BY <1>1, <2>0, <2>2, <3>5 DEF BeginLoad, LoadSucceeds, ensureUnchanged, logging
  <2>3. CASE LoadFails(r) \/ UseEnds(r) \/ CallbackReturns(r)
    <3>1. request' = [request EXCEPT ![r] = Idle] /\ UNCHANGED logging
      BY <2>3 DEF LoadFails, UseEnds, CallbackReturns, Return, ensureUnchanged
    <3>2. request'[r].pc = "idle"
      BY <3>1, SimpleRequests DEF TypeOK
    <3> QED BY <1>1, <2>0, <3>1, <3>2 DEF logging
  <2>4. CASE CreateSession(r)
    <3>1. request'[r].pc = "idle"
      BY <2>4, SimpleRequests DEF CreateSession, Return, TypeOK
    <3> QED BY <1>1, <2>0, <2>4, <3>1 DEF CreateSession
  <2>5. ASSUME NEW account \in Accounts, AssertionAccepted(r, account) PROVE Tokens'
    <3> DEFINE session == [code |-> Cardinality(assertions) + 1,
                           provider |-> request[r].provider.id, account |-> account]
               q == [Idle EXCEPT !.pc = "session", !.session = session]
    <3>1. /\ request' = [request EXCEPT ![r] = q] /\ assertions' = assertions \cup {session}
          /\ UNCHANGED sessions
      BY <2>5 DEF AssertionAccepted
    <3>2. q.session = session
      BY DEF Idle
    <3>3. request'[r] = q
      <4> HIDE DEF q
      <4> QED BY <3>1 DEF TypeOK
    <3> HIDE DEF session, q
    <3>4. IsFiniteSet(assertions')
      BY <3>1, FS_AddElement
    <3> QED BY <1>1, <2>0, <3>1, <3>2, <3>3, <3>4
  <2>6. ASSUME NEW session \in sessions, NEW id \in IDs, Callback(r, id, session) PROVE Tokens'
    <3> DEFINE s == [session EXCEPT !.provider = id]
               q == [Idle EXCEPT !.pc = "token", !.session = s]
    <3>1. request' = [request EXCEPT ![r] = q] /\ UNCHANGED logging
      BY <2>6 DEF Callback, loginUnchanged
    <3>2. s = session
      <4>1. session \in Session /\ session.provider = id
        BY <2>6 DEF Callback, SessionOf, TypeOK
      <4> QED BY <4>1 DEF Session
    <3>3. q.session = s
      BY DEF Idle
    <3>4. request'[r] = q
      <4> HIDE DEF q
      <4> QED BY <3>1 DEF TypeOK
    <3> HIDE DEF s, q
    <3> QED BY <1>1, <2>0, <3>1, <3>2, <3>3, <3>4 DEF logging
  <2> QED BY <1>2, <2>1, <2>2, <2>3, <2>4, <2>5, <2>6 DEF LoginStep
<1>3. ASSUME NEW r \in Requests, SetupStep(r) PROVE Tokens'
  BY <1>1, <1>3, SetupIsAside, SetupRequests DEF logging
<1>4. CASE Restart
  <2>1. \A r \in Requests : request'[r].pc = "idle"
    BY <1>4, SimpleRequests DEF Restart
  <2> QED BY <1>4, <2>1 DEF Restart
<1>5. CASE UNCHANGED vars
  BY <1>5 DEF vars, logging
<1> QED BY <1>2, <1>3, <1>4, <1>5 DEF Next

-----------------------------------------------------------------------------
(* The mutex and the entries that are taken back.                          *)

\* A request on its way to an entry.
Loading(q) == q.pc \in {"load", "fetch"}

\* The steps of a request that loads.
LEMMA LoadSteps ==
    ASSUME TypeOK, NEW r \in Requests
    PROVE  /\ BeginLoad(r) =>
                /\ mu' = r /\ request[r].pc = "load" /\ request'[r].pc = "fetch"
                /\ request'[r].provider = request[r].provider
                /\ UNCHANGED <<serviceProvider, loadFailed>>
           /\ LoadSucceeds(r) =>
                /\ mu' = NoHolder
                /\ serviceProvider' = [serviceProvider EXCEPT ![request[r].provider.id] =
                        [url |-> request[r].provider.url, allow |-> request[r].provider.allow]]
                /\ loadFailed' = loadFailed \ {request[r].provider.id}
           /\ LoadFails(r) =>
                /\ mu' = NoHolder
                /\ loadFailed' = loadFailed \cup {request[r].provider.id}
                /\ UNCHANGED serviceProvider
<1>1. ASSUME BeginLoad(r)
      PROVE  request'[r].pc = "fetch" /\ request'[r].provider = request[r].provider
  <2>1. request' = [request EXCEPT ![r] = [request[r] EXCEPT !.pc = "fetch"]]
    BY <1>1 DEF BeginLoad, Goto, TypeOK
  <2>2. /\ [request[r] EXCEPT !.pc = "fetch"].pc = "fetch"
        /\ [request[r] EXCEPT !.pc = "fetch"].provider = request[r].provider
    BY <1>1, NextStep DEF BeginLoad, TypeOK
  <2> QED BY <2>1, <2>2 DEF TypeOK
<1>2. BeginLoad(r) =>
        mu' = r /\ request[r].pc = "load" /\ UNCHANGED <<serviceProvider, loadFailed>>
  BY DEF BeginLoad
<1>3. LoadSucceeds(r) =>
        /\ mu' = NoHolder
        /\ serviceProvider' = [serviceProvider EXCEPT ![request[r].provider.id] =
                [url |-> request[r].provider.url, allow |-> request[r].provider.allow]]
        /\ loadFailed' = loadFailed \ {request[r].provider.id}
  BY DEF LoadSucceeds, StoreEntry
<1>4. LoadFails(r) =>
        /\ mu' = NoHolder
        /\ loadFailed' = loadFailed \cup {request[r].provider.id}
        /\ UNCHANGED serviceProvider
  BY DEF LoadFails, ReleaseMu
<1> QED BY <1>1, <1>2, <1>3, <1>4

\* The first look at an entry: it is left, or taken back by a request that loads it next.
LEMMA EnsureStep ==
    ASSUME TypeOK, NEW r \in Requests, NEW k \in DOMAIN providers, EnsureSPLoaded(r, k)
    PROVE  LET id == providers[k].id IN
           /\ request[r].pc = "idle" /\ UNCHANGED <<mu, loadFailed>>
           /\ id \in IDs /\ serviceProvider[id] # Nil
           /\ \/ UNCHANGED serviceProvider
              \/ /\ serviceProvider' = [serviceProvider EXCEPT ![id] = Nil]
                 /\ request'[r].pc = "load" /\ request'[r].provider.id = id
<1> DEFINE p == providers[k]
           entry == serviceProvider[p.id]
           fresh == entry # Absent /\ entry.allow = p.allow
           pc == IF fresh THEN "use" ELSE "load"
           q == [Idle EXCEPT !.provider = p, !.pc = pc]
<1>1. request' = [request EXCEPT ![r] = q]
  BY DEF EnsureSPLoaded
<1>2. q.pc = pc /\ q.provider = p
  BY DEF Idle
<1>3. request'[r] = q
  <2> HIDE DEF q
  <2> QED BY <1>1 DEF TypeOK
<1>4. p.id \in IDs
  BY PositionTypes DEF TypeOK
<1>5. CASE entry = Absent \/ fresh
  <2>1. UNCHANGED serviceProvider
    BY <1>4, <1>5 DEF EnsureSPLoaded, TypeOK
  <2> QED BY <1>4, <2>1 DEF EnsureSPLoaded, CanArrive
<1>6. CASE ~(entry = Absent \/ fresh)
  <2>1. serviceProvider' = [serviceProvider EXCEPT ![p.id] = Nil]
    BY <1>4, <1>6 DEF EnsureSPLoaded, TypeOK
  <2>2. request'[r].pc = "load" /\ request'[r].provider = p
    BY <1>2, <1>3, <1>6
  <2> QED BY <1>4, <2>1, <2>2 DEF EnsureSPLoaded, CanArrive
<1> QED BY <1>5, <1>6

\* All other steps of a request leave the entries and the mutex alone, and are not those of
\* one that loads.
LEMMA OtherSteps ==
    ASSUME TypeOK, NEW r \in Requests,
           \/ UseEnds(r) \/ CreateSession(r) \/ CallbackReturns(r)
           \/ \E account \in Accounts : AssertionAccepted(r, account)
           \/ \E session \in sessions, id \in IDs : Callback(r, id, session)
           \/ SetupStep(r)
    PROVE  ~Loading(request[r]) /\ UNCHANGED <<serviceProvider, mu, loadFailed>>
<1> USE DEF Loading
<1>1. CASE SetupStep(r)
  BY <1>1, SetupIsAside, SetupRequests DEF sp
<1>2. CASE UseEnds(r) \/ CreateSession(r) \/ CallbackReturns(r)
  BY <1>2 DEF UseEnds, CreateSession, CallbackReturns, loginUnchanged
<1>3. ASSUME NEW account \in Accounts, AssertionAccepted(r, account)
      PROVE  ~Loading(request[r]) /\ UNCHANGED <<serviceProvider, mu, loadFailed>>
  BY <1>3 DEF AssertionAccepted, loginUnchanged
<1>4. ASSUME NEW session \in sessions, NEW id \in IDs, Callback(r, id, session)
      PROVE  ~Loading(request[r]) /\ UNCHANGED <<serviceProvider, mu, loadFailed>>
  BY <1>4 DEF Callback, CanArrive, loginUnchanged
<1> QED BY <1>1, <1>2, <1>3, <1>4

\* A step of one request.
LEMMA OneRequest ==
    ASSUME TypeOK, NEW r \in Requests, LoginStep(r) \/ SetupStep(r)
    PROVE  \A x \in Requests \ {r} : request'[x] = request[x]
BY LoginIsAside, SetupIsAside

\* A map without nil entries.
LEMMA LoadedIsNotNil ==
    ASSUME NEW loaded \in SUBSET Provider, NEW id \in IDs
    PROVE  LoadedOf(loaded)[id] # Nil
<1>1. LoadedOf(loaded)[id] \in Entry \cup {Absent}
  BY LoadedTypes
<1> QED BY <1>1, Sentinels

\* Every step keeps the mutex with a request that fetches.
LEMMA NextMutex == TypeOK /\ NoLoginIsStuck /\ [Next]_vars => NoLoginIsStuck'
<1> SUFFICES ASSUME TypeOK, NoLoginIsStuck, [Next]_vars PROVE NoLoginIsStuck'
  OBVIOUS
<1> USE DEF NoLoginIsStuck
<1>1. ASSUME NEW r \in Requests, LoginStep(r) \/ SetupStep(r) PROVE NoLoginIsStuck'
  <2>1. \A x \in Requests \ {r} : request'[x] = request[x]
    BY <1>1, OneRequest
  <2>2. mu \in Requests \cup {NoHolder}
    BY DEF TypeOK
  <2>3. CASE BeginLoad(r)
    BY <2>3, LoadSteps
  <2>4. CASE LoadSucceeds(r) \/ LoadFails(r)
    BY <2>4, LoadSteps
  <2>5. ASSUME request[r].pc # "fetch", UNCHANGED mu PROVE NoLoginIsStuck'
    BY <2>1, <2>2, <2>5
  <2>6. ASSUME NEW k \in DOMAIN providers, EnsureSPLoaded(r, k) PROVE NoLoginIsStuck'
    BY <2>5, <2>6, EnsureStep
  <2> QED BY <1>1, <2>3, <2>4, <2>5, <2>6, OtherSteps DEF LoginStep, Loading
<1>2. CASE Restart
  BY <1>2 DEF Restart
<1>3. CASE UNCHANGED vars
  BY <1>3 DEF vars, sp
<1> QED BY <1>1, <1>2, <1>3 DEF Next

\* Every step keeps each nil entry with a request that loads it or a load that failed.
LEMMA NextNil == TypeOK /\ NilIsBeingReloaded /\ [Next]_vars => NilIsBeingReloaded'
<1> SUFFICES ASSUME TypeOK, NilIsBeingReloaded, [Next]_vars PROVE NilIsBeingReloaded'
  OBVIOUS
<1> USE DEF NilIsBeingReloaded, Loading
<1>1. ASSUME NEW r \in Requests, LoginStep(r) \/ SetupStep(r) PROVE NilIsBeingReloaded'
  <2>1. \A x \in Requests \ {r} : request'[x] = request[x]
    BY <1>1, OneRequest
  <2>2. CASE BeginLoad(r)
    <3>1. Loading(request'[r]) /\ request'[r].provider = request[r].provider
          /\ UNCHANGED <<serviceProvider, loadFailed>>
      BY <2>2, LoadSteps
    <3> QED BY <2>1, <3>1
  <2>3. CASE LoadSucceeds(r)
    <3> DEFINE id == request[r].provider.id
               entry == [url |-> request[r].provider.url, allow |-> request[r].provider.allow]
    <3>1. request[r].provider \in Provider
      BY <2>3, Holds DEF LoadSucceeds, TypeOK
    <3>2. entry # Nil
      <4>1. entry \in Entry
        BY <3>1 DEF Provider, Entry
      <4> QED BY <4>1, Sentinels
    <3>3. serviceProvider' = [serviceProvider EXCEPT ![id] = entry] /\ loadFailed' = loadFailed \ {id}
      BY <2>3, LoadSteps
    <3> HIDE DEF entry
    <3>4. \A i \in IDs : serviceProvider'[i] = Nil => i # id /\ serviceProvider[i] = Nil
      BY <3>2, <3>3 DEF TypeOK
    <3> QED BY <2>1, <3>3, <3>4
  <2>4. CASE LoadFails(r)
    <3>1. /\ loadFailed' = loadFailed \cup {request[r].provider.id}
          /\ UNCHANGED serviceProvider
      BY <2>4, LoadSteps
    <3> QED BY <2>1, <3>1
  <2>5. ASSUME ~Loading(request[r]), UNCHANGED <<serviceProvider, loadFailed>>
        PROVE  NilIsBeingReloaded'
    BY <2>1, <2>5
  <2>6. ASSUME NEW k \in DOMAIN providers, EnsureSPLoaded(r, k) PROVE NilIsBeingReloaded'
    <3> DEFINE id == providers[k].id
    <3>1. /\ request[r].pc = "idle" /\ UNCHANGED loadFailed
          /\ \/ UNCHANGED serviceProvider
             \/ /\ serviceProvider' = [serviceProvider EXCEPT ![id] = Nil]
                /\ request'[r].pc = "load" /\ request'[r].provider.id = id
      BY <2>6, EnsureStep
    <3>2. CASE UNCHANGED serviceProvider
      BY <2>5, <3>1, <3>2
    <3>3. CASE /\ serviceProvider' = [serviceProvider EXCEPT ![id] = Nil]
               /\ request'[r].pc = "load" /\ request'[r].provider.id = id
      <4>1. \A i \in IDs : i # id => serviceProvider'[i] = serviceProvider[i]
        BY <3>3 DEF TypeOK
      <4> QED BY <2>1, <3>1, <3>3, <4>1
    <3> QED BY <3>1, <3>2, <3>3
  <2> QED BY <1>1, <2>2, <2>3, <2>4, <2>5, <2>6, OtherSteps DEF LoginStep
<1>2. CASE Restart
  <2>1. PICK loaded \in SUBSET ToSet(disk) : serviceProvider' = LoadedOf(loaded)
    BY <1>2 DEF Restart
  <2>2. loaded \in SUBSET Provider
    BY ConfiguredTypes DEF TypeOK
  <2> QED BY <2>1, <2>2, LoadedIsNotNil
<1>3. CASE UNCHANGED vars
  BY <1>3 DEF vars, sp
<1> QED BY <1>1, <1>2, <1>3 DEF Next

-----------------------------------------------------------------------------
(* The theorems.                                                           *)

\* What all the proofs rest on: the types, the ids, what the providers were set to, and
\* the assertions behind sessions.
IInv == TypeOK /\ IdsAreNew /\ ProvidersAreSet /\ ProviderIsLastSet /\ Tokens

\* The first state.
LEMMA InitIInv == Init => IInv
<1>1. Init => IsFiniteSet(assertions) /\ sessions \subseteq assertions
  BY FS_EmptySet DEF Init
<1>2. Init => \A r \in Requests : request[r].pc = "idle"
  BY SimpleRequests DEF Init
<1>3. Init => Tokens
  BY <1>1, <1>2 DEF Tokens, SessionsComeFromAssertions, TokensComeFromAssertions
<1> QED BY <1>3, InitTypes, InitIds DEF IInv

\* Every step.
LEMMA NextIInv == IInv /\ [Next]_vars => IInv'
<1> SUFFICES ASSUME IInv, [Next]_vars PROVE IInv'
  OBVIOUS
<1>1. TypeOK'
  BY NextTypes DEF IInv, Tokens
<1>2. Tokens'
  BY NextTokens DEF IInv
<1>3. IdsAreNew'
  BY <1>1, NextIds DEF IInv
<1>4. ProvidersAreSet' /\ ProviderIsLastSet'
  BY <1>1, NextSet DEF IInv
<1> QED BY <1>1, <1>2, <1>3, <1>4 DEF IInv

\* The inductive invariant holds.
LEMMA Inductive == Spec => []IInv
<1>1. Init => IInv
  BY InitIInv
<1>2. IInv /\ [Next]_vars => IInv'
  BY NextIInv
<1> QED BY <1>1, <1>2, PTL DEF Spec

\* The slice, the map, the sessions and the requests keep their types: no index, provider
\* or session that a request works with is missing (auth/saml/types.go, rest/setup.go).
THEOREM SAMLTypes == Spec => []TypeOK
<1>1. IInv => TypeOK
  BY DEF IInv
<1> QED BY <1>1, Inductive, PTL

\* A token is made only from an assertion that was accepted from the provider of the
\* callback (session.go:8-32, rest/auth.go:208-225).
THEOREM TokensAreOfAssertions == Spec => []TokensComeFromAssertions
<1>1. IInv => TokensComeFromAssertions
  BY DEF IInv, Tokens
<1> QED BY <1>1, Inductive, PTL

\* The providers in memory are what requests for them have set last, those in the file are
\* the same unless a change is under way or an error was answered (setup.go:236-359).
THEOREM ProvidersStayAsSet == Spec => []ProvidersAreKept
<1>1. Init => SomebodySaves
  BY DEF Init, SomebodySaves
<1>2. IInv /\ IInv' /\ SomebodySaves /\ [Next]_vars => SomebodySaves'
  BY NextSaves DEF IInv
<1>3. IInv /\ SomebodySaves => ProvidersAreKept
  BY DEF IInv, SomebodySaves, ProvidersAreKept, FileFollowsProviders
<1> QED BY <1>1, <1>2, <1>3, Inductive, PTL DEF Spec

\* A nil entry is one that a request is about to make again, or whose metadata could not be
\* read (middleware.go:19-101).
THEOREM NilEntriesAreReloaded == Spec => []NilIsBeingReloaded
<1>1. Init => NilIsBeingReloaded
  <2> SUFFICES ASSUME Init PROVE NilIsBeingReloaded
    OBVIOUS
  <2>1. PICK loaded \in SUBSET ToSet(providers) : serviceProvider = LoadedOf(loaded)
    BY DEF Init
  <2>2. loaded \in SUBSET Provider
    BY InitTypes, ConfiguredTypes DEF TypeOK
  <2> QED BY <2>1, <2>2, LoadedIsNotNil DEF NilIsBeingReloaded
<1>2. IInv /\ NilIsBeingReloaded /\ [Next]_vars => NilIsBeingReloaded'
  BY NextNil DEF IInv
<1> QED BY <1>1, <1>2, Inductive, PTL DEF Spec

\* The mutex is with a request that fetches, so it is given back (middleware.go:40-101).
THEOREM MutexIsGivenBack == Spec => []NoLoginIsStuck
<1>1. Init => NoLoginIsStuck
  BY DEF Init, NoLoginIsStuck
<1>2. IInv /\ NoLoginIsStuck /\ [Next]_vars => NoLoginIsStuck'
  BY NextMutex DEF IInv
<1> QED BY <1>1, <1>2, Inductive, PTL DEF Spec

-----------------------------------------------------------------------------
(* The pair of keys: types.                                                *)

\* The pair that the code draws is a new one (keypair.go:68).
LEMMA DrawnIsAPair ==
    ASSUME \E p \in Pairs : p \in Unused
    PROVE  (CHOOSE p \in Pairs : p \in Unused) \in Pairs
OBVIOUS

\* The first state has the types.
LEMMA InitPairTypes == KeyInit => KeyTypeOK
<1> SUFFICES ASSUME KeyInit PROVE KeyTypeOK
  OBVIOUS
<1>1. \A r \in Signers : signer[r] = NotSigning
  BY DEF KeyInit
<1>2. signer \in [Signers -> [pc : Steps, pair : Pairs \cup {NoPair}]]
  BY DEF KeyInit, NotSigning, Steps
<1>3. \A r \in Signers :
        signer[r].pc \in {"key", "keyOpen", "crt", "crtOpen"} <=> signer[r].pair # NoPair
  <2>1. \A r \in Signers : signer[r].pc = "idle" /\ signer[r].pair = NoPair
    <3>1. NotSigning.pc = "idle" /\ NotSigning.pair = NoPair
      BY DEF NotSigning
    <3> QED BY <1>1, <3>1
  <2>2. "idle" \notin {"key", "keyOpen", "crt", "crtOpen"}
    OBVIOUS
  <2> QED BY <2>1, <2>2
<1>4. failures \in 0 .. MaxFailures
  BY FailuresBound DEF KeyInit
<1> QED BY <1>2, <1>3, <1>4 DEF KeyInit, KeyTypeOK

\* Every step keeps the types.
LEMMA NextPairTypes == KeyTypeOK /\ [KeyNext]_keyVars => KeyTypeOK'
<1> SUFFICES ASSUME KeyTypeOK, [KeyNext]_keyVars PROVE KeyTypeOK'
  OBVIOUS
<1> USE FileSentinels, FailuresBound DEF KeyTypeOK, Steps
<1>1. ASSUME NEW r \in Signers, CheckKey(r) PROVE KeyTypeOK'
  <2>1. CASE samlKey = NoFile
    BY <1>1, <2>1 DEF CheckKey, Decide, Proceed
  <2>2. CASE samlKey # NoFile
    BY <1>1, <2>2 DEF CheckKey, Proceed
  <2> QED BY <2>1, <2>2
<1>2. ASSUME NEW r \in Signers, CheckCertificate(r) PROVE KeyTypeOK'
  <2>1. CASE CertificateMissing
    BY <1>2, <2>1 DEF CheckCertificate, Decide, Proceed
  <2>2. CASE ~CertificateMissing
    BY <1>2, <2>2 DEF CheckCertificate, Leave, NotSigning
  <2> QED BY <2>1, <2>2
<1>3. ASSUME NEW r \in Signers, GenerateKeyPair(r) PROVE KeyTypeOK'
  <2> DEFINE p == CHOOSE p \in Pairs : p \in Unused
  <2>1. p \in Pairs /\ p # NoPair
    BY <1>3, DrawnIsAPair DEF GenerateKeyPair
  <2>2. signer' = [signer EXCEPT ![r] = [pc |-> "key", pair |-> p]]
    BY <1>3 DEF GenerateKeyPair, FirstFile
  <2>3. UNCHANGED <<samlKey, samlCrt, failures, raced>>
    BY <1>3 DEF GenerateKeyPair
  <2> HIDE DEF p
  <2> QED BY <2>1, <2>2, <2>3
<1>4. ASSUME NEW r \in Signers, OpenKey(r) PROVE KeyTypeOK'
  BY <1>4 DEF OpenKey, Proceed
<1>5. ASSUME NEW r \in Signers, WriteKey(r) PROVE KeyTypeOK'
  BY <1>5 DEF WriteKey, Proceed
<1>6. ASSUME NEW r \in Signers, OpenCertificate(r) PROVE KeyTypeOK'
  BY <1>6 DEF OpenCertificate, Proceed
<1>7. ASSUME NEW r \in Signers, WriteCertificate(r) PROVE KeyTypeOK'
  BY <1>7 DEF WriteCertificate, Leave, NotSigning
<1>8. ASSUME NEW r \in Signers, GenerationFails(r) PROVE KeyTypeOK'
  BY <1>8 DEF GenerationFails, Leave, NotSigning
<1>9. CASE Crash
  BY <1>9 DEF Crash, NotSigning
<1>10. CASE UNCHANGED keyVars
  BY <1>10 DEF keyVars
<1> QED
  BY <1>1, <1>2, <1>3, <1>4, <1>5, <1>6, <1>7, <1>8, <1>9, <1>10 DEF KeyNext, Continue

\* Files, requests and counters keep their types (keypair.go:30-121).
THEOREM KeyPairTypes == KeySpec => []KeyTypeOK
<1> QED BY InitPairTypes, NextPairTypes, PTL DEF KeySpec

-----------------------------------------------------------------------------
(* The pair of keys: the files are of one pair.                            *)

PairInv == KeyTypeOK /\ KeyStrengthenings /\ KeyPairMatches

\* Nothing is on disk before the first request.
LEMMA InitPair == KeyInit => PairInv
<1> SUFFICES ASSUME KeyInit PROVE PairInv
  OBVIOUS
<1>1. \A r \in Signers : signer[r].pc = "idle"
  BY DEF KeyInit, NotSigning
<1>2. KeyComesFirst /\ KeyPairMatches
  BY <1>1 DEF KeyInit, KeyComesFirst, KeyPairMatches
<1>3. OneGenerator
  BY <1>1 DEF OneGenerator, Generating
<1> QED
  BY <1>2, <1>3, InitPairTypes DEF PairInv, KeyStrengthenings

\* A request that decides to make a pair is alone, or raced says so.
LEMMA DecidePair ==
    ASSUME PairInv, KeyTypeOK', NEW r \in Signers, Decide(r), ~Generating(r),
           samlKey = NoFile \/ samlCrt = NoFile, UNCHANGED <<samlKey, samlCrt>>
    PROVE  PairInv'
<1>1. samlCrt = NoFile
  BY DEF PairInv, KeyStrengthenings, KeyComesFirst
<1>2. signer'[r].pc = "generate" /\ \A q \in Signers \ {r} : signer'[q] = signer[q]
  BY DEF Decide, Proceed, PairInv, KeyTypeOK
<1>3. ~raced' => \A q \in Signers : ~Generating(q)
  BY DEF Decide
<1>4. ~raced' => \A q \in Signers : Generating(q)' => q = r
  BY <1>2, <1>3 DEF Generating
<1>5. OneGenerator'
  BY <1>1, <1>2, <1>4 DEF OneGenerator
<1>6. KeyComesFirst'
  BY <1>1, <1>2 DEF PairInv, KeyStrengthenings, KeyComesFirst
<1>7. KeyPairMatches'
  BY <1>1 DEF KeyPairMatches
<1> QED BY <1>5, <1>6, <1>7 DEF PairInv, KeyStrengthenings

\* A request that does not generate goes on or returns.
LEMMA QuietPair ==
    ASSUME PairInv, KeyTypeOK', NEW r \in Signers, ~Generating(r), ~Generating(r)',
           \A q \in Signers \ {r} : signer'[q] = signer[q],
           UNCHANGED <<samlKey, samlCrt, raced>>
    PROVE  PairInv'
<1>1. \A q \in Signers : Generating(q)' <=> Generating(q)
  BY DEF Generating
<1>2. \A q \in Signers : Generating(q) => signer'[q] = signer[q]
  OBVIOUS
<1>3. OneGenerator'
  BY <1>1, <1>2 DEF PairInv, KeyStrengthenings, OneGenerator
<1>4. KeyComesFirst'
  <2>1. \A q \in Signers :
          signer'[q].pc \in {"crt", "crtOpen"} => signer[q].pc \in {"crt", "crtOpen"}
    BY <1>1, <1>2 DEF Generating
  <2> QED BY <2>1 DEF PairInv, KeyStrengthenings, KeyComesFirst
<1>5. KeyPairMatches'
  BY <1>1 DEF PairInv, KeyPairMatches, Quiet
<1> QED BY <1>3, <1>4, <1>5 DEF PairInv, KeyStrengthenings

\* A request stops in the middle: the files stay as far as they are.
LEMMA FailPair ==
    ASSUME PairInv, KeyTypeOK', NEW r \in Signers, Generating(r), ~Generating(r)',
           \A q \in Signers \ {r} : signer'[q] = signer[q],
           UNCHANGED <<samlKey, samlCrt, raced>>
    PROVE  PairInv'
<1>1. ~raced => samlCrt = NoFile \/ samlCrt = Torn
  BY DEF PairInv, KeyStrengthenings, OneGenerator
<1>2. \A q \in Signers : Generating(q)' => Generating(q) /\ signer'[q] = signer[q]
  BY DEF Generating
<1>3. OneGenerator'
  BY <1>2 DEF PairInv, KeyStrengthenings, OneGenerator
<1>4. KeyComesFirst'
  <2>1. \A q \in Signers :
          signer'[q].pc \in {"crt", "crtOpen"} => signer[q].pc \in {"crt", "crtOpen"}
    BY <1>2 DEF Generating
  <2> QED BY <2>1 DEF PairInv, KeyStrengthenings, KeyComesFirst
<1>5. KeyPairMatches'
  BY <1>1 DEF KeyPairMatches
<1> QED BY <1>3, <1>4, <1>5 DEF PairInv, KeyStrengthenings

\* A step of the request that generates, to another step of it: OneGenerator speaks of
\* that request alone, unless there was a race.
LEMMA WritePair ==
    ASSUME PairInv, KeyTypeOK', NEW r \in Signers, Generating(r), Generating(r)',
           \A q \in Signers \ {r} : signer'[q] = signer[q],
           raced' = raced, KeyComesFirst',
           ~raced => /\ signer'[r].pc # "crtOpen" => samlCrt' = NoFile
                     /\ signer'[r].pc \in {"crt", "crtOpen"} => samlKey' = signer'[r].pair
                     /\ signer'[r].pc = "crtOpen" => samlCrt' = Torn
    PROVE  PairInv'
<1>1. \A q \in Signers : Generating(q)' <=> Generating(q)
  BY DEF Generating
<1>2. ~raced => \A q \in Signers : Generating(q) => q = r
  BY DEF PairInv, KeyStrengthenings, OneGenerator
<1>3. OneGenerator'
  BY <1>1, <1>2 DEF OneGenerator
<1>4. KeyPairMatches'
  BY DEF KeyPairMatches, Quiet
<1> QED BY <1>3, <1>4 DEF PairInv, KeyStrengthenings

\* Every step keeps the invariant.
LEMMA NextPair == PairInv /\ [KeyNext]_keyVars => PairInv'
<1> SUFFICES ASSUME PairInv, [KeyNext]_keyVars PROVE PairInv'
  OBVIOUS
<1>0. KeyTypeOK /\ KeyTypeOK'
  BY NextPairTypes DEF PairInv
<1>1. ASSUME NEW r \in Signers, CheckKey(r) PROVE PairInv'
  <2>1. ~Generating(r)
    BY <1>1 DEF CheckKey, Generating
  <2>2. CASE samlKey = NoFile
    BY <1>0, <1>1, <2>1, <2>2, DecidePair DEF CheckKey
  <2>3. CASE samlKey # NoFile
    <3>1. signer'[r].pc = "check" /\ \A q \in Signers \ {r} : signer'[q] = signer[q]
      BY <1>0, <1>1, <2>3 DEF CheckKey, Proceed, KeyTypeOK
    <3>2. ~Generating(r)' /\ UNCHANGED <<samlKey, samlCrt, raced>>
      BY <1>1, <2>3, <3>1 DEF CheckKey, Generating
    <3> QED BY <1>0, <2>1, <3>1, <3>2, QuietPair
  <2> QED BY <2>2, <2>3
<1>2. ASSUME NEW r \in Signers, CheckCertificate(r) PROVE PairInv'
  <2>1. ~Generating(r)
    BY <1>2 DEF CheckCertificate, Generating
  <2>2. CASE CertificateMissing
    BY <1>0, <1>2, <2>1, <2>2, DecidePair DEF CheckCertificate, CertificateMissing
  <2>3. CASE ~CertificateMissing
    <3>1. signer'[r].pc = "idle" /\ \A q \in Signers \ {r} : signer'[q] = signer[q]
      BY <1>0, <1>2, <2>3 DEF CheckCertificate, Leave, NotSigning, KeyTypeOK
    <3>2. ~Generating(r)' /\ UNCHANGED <<samlKey, samlCrt, raced>>
      BY <1>2, <2>3, <3>1 DEF CheckCertificate, Generating
    <3> QED BY <1>0, <2>1, <3>1, <3>2, QuietPair
  <2> QED BY <2>2, <2>3
<1>3. ASSUME NEW r \in Signers, GenerateKeyPair(r) PROVE PairInv'
  <2>1. signer[r].pc = "generate" /\ signer'[r].pc = "key"
    BY <1>0, <1>3 DEF GenerateKeyPair, FirstFile, KeyTypeOK
  <2>2. \A q \in Signers \ {r} : signer'[q] = signer[q]
    BY <1>0, <1>3 DEF GenerateKeyPair, KeyTypeOK
  <2>3. UNCHANGED <<samlKey, samlCrt, raced>>
    BY <1>3 DEF GenerateKeyPair
  <2>4. Generating(r) /\ Generating(r)'
    BY <2>1 DEF Generating
  <2>5. ~raced => samlCrt = NoFile
    BY <2>1, <2>4 DEF PairInv, KeyStrengthenings, OneGenerator
  <2>6. KeyComesFirst'
    BY <2>1, <2>2, <2>3 DEF PairInv, KeyStrengthenings, KeyComesFirst
  <2> QED BY <1>0, <2>1, <2>2, <2>3, <2>4, <2>5, <2>6, WritePair
<1>4. ASSUME NEW r \in Signers, OpenKey(r) PROVE PairInv'
  <2>1. signer[r].pc = "key" /\ signer'[r].pc = "keyOpen"
    BY <1>0, <1>4 DEF OpenKey, Proceed, KeyTypeOK
  <2>2. \A q \in Signers \ {r} : signer'[q] = signer[q]
    BY <1>0, <1>4 DEF OpenKey, Proceed, KeyTypeOK
  <2>3. samlKey' = Torn /\ UNCHANGED <<samlCrt, raced>>
    BY <1>4 DEF OpenKey
  <2>4. Generating(r) /\ Generating(r)'
    BY <2>1 DEF Generating
  <2>5. ~raced => samlCrt = NoFile
    BY <2>1, <2>4 DEF PairInv, KeyStrengthenings, OneGenerator
  <2>6. KeyComesFirst'
    BY <2>3, FileSentinels DEF KeyComesFirst
  <2> QED BY <1>0, <2>1, <2>2, <2>3, <2>4, <2>5, <2>6, WritePair
<1>5. ASSUME NEW r \in Signers, WriteKey(r) PROVE PairInv'
  <2>1. signer[r].pc = "keyOpen" /\ signer'[r].pc = "crt" /\ signer'[r].pair = signer[r].pair
    BY <1>0, <1>5 DEF WriteKey, Proceed, KeyTypeOK
  <2>2. \A q \in Signers \ {r} : signer'[q] = signer[q]
    BY <1>0, <1>5 DEF WriteKey, Proceed, KeyTypeOK
  <2>3. samlKey' = signer[r].pair /\ UNCHANGED <<samlCrt, raced>>
    BY <1>5 DEF WriteKey
  <2>4. Generating(r) /\ Generating(r)'
    BY <2>1 DEF Generating
  <2>5. ~raced => samlCrt = NoFile
    BY <2>1, <2>4 DEF PairInv, KeyStrengthenings, OneGenerator
  <2>6. KeyComesFirst'
    BY <1>0, <2>1, <2>3, FileSentinels DEF KeyComesFirst, KeyTypeOK
  <2> QED BY <1>0, <2>1, <2>2, <2>3, <2>4, <2>5, <2>6, WritePair
<1>6. ASSUME NEW r \in Signers, OpenCertificate(r) PROVE PairInv'
  <2>1. signer[r].pc = "crt" /\ signer'[r].pc = "crtOpen" /\ signer'[r].pair = signer[r].pair
    BY <1>0, <1>6 DEF OpenCertificate, Proceed, KeyTypeOK
  <2>2. \A q \in Signers \ {r} : signer'[q] = signer[q]
    BY <1>0, <1>6 DEF OpenCertificate, Proceed, KeyTypeOK
  <2>3. samlCrt' = Torn /\ UNCHANGED <<samlKey, raced>>
    BY <1>6 DEF OpenCertificate
  <2>4. Generating(r) /\ Generating(r)'
    BY <2>1 DEF Generating
  <2>5. ~raced => samlKey = signer[r].pair
    BY <2>1, <2>4 DEF PairInv, KeyStrengthenings, OneGenerator
  <2>6. KeyComesFirst'
    BY <2>1, <2>3 DEF PairInv, KeyStrengthenings, KeyComesFirst
  <2> QED BY <1>0, <2>1, <2>2, <2>3, <2>4, <2>5, <2>6, WritePair
<1>7. ASSUME NEW r \in Signers, WriteCertificate(r) PROVE PairInv'
  <2>1. signer[r].pc = "crtOpen" /\ signer'[r].pc = "idle"
    BY <1>0, <1>7 DEF WriteCertificate, Leave, NotSigning, KeyTypeOK
  <2>2. \A q \in Signers \ {r} : signer'[q] = signer[q]
    BY <1>0, <1>7 DEF WriteCertificate, Leave, KeyTypeOK
  <2>3. samlCrt' = signer[r].pair /\ UNCHANGED <<samlKey, raced>>
    BY <1>7 DEF WriteCertificate
  <2>4. Generating(r)
    BY <2>1 DEF Generating
  <2>5. ~raced => samlKey = signer[r].pair /\ \A q \in Signers : Generating(q) => q = r
    BY <2>1, <2>4 DEF PairInv, KeyStrengthenings, OneGenerator
  <2>6. \A q \in Signers : Generating(q)' => q # r /\ Generating(q)
    BY <2>1, <2>2 DEF Generating
  <2>7. OneGenerator'
    BY <2>3, <2>5, <2>6 DEF OneGenerator
  <2>8. KeyPairMatches'
    BY <2>3, <2>5 DEF KeyPairMatches
  <2>9. KeyComesFirst'
    BY <2>1, <2>3 DEF PairInv, KeyStrengthenings, KeyComesFirst
  <2> QED BY <1>0, <2>7, <2>8, <2>9 DEF PairInv, KeyStrengthenings
<1>8. ASSUME NEW r \in Signers, GenerationFails(r) PROVE PairInv'
  <2>1. signer'[r].pc = "idle" /\ \A q \in Signers \ {r} : signer'[q] = signer[q]
    BY <1>0, <1>8 DEF GenerationFails, Leave, NotSigning, KeyTypeOK
  <2>2. Generating(r) /\ ~Generating(r)' /\ UNCHANGED <<samlKey, samlCrt, raced>>
    BY <1>8, <2>1 DEF GenerationFails, Generating
  <2> QED BY <1>0, <2>1, <2>2, FailPair
<1>9. CASE Crash
  <2>1. \A r \in Signers : signer'[r].pc = "idle"
    BY <1>9 DEF Crash, NotSigning
  <2>2. \A r \in Signers : ~Generating(r)'
    BY <2>1 DEF Generating
  <2>3. UNCHANGED <<samlKey, samlCrt, raced>>
    BY <1>9 DEF Crash
  <2>4. ASSUME NEW r \in Signers, Generating(r), ~raced PROVE samlCrt = NoFile \/ samlCrt = Torn
    BY <2>4 DEF PairInv, KeyStrengthenings, OneGenerator
  <2>5. KeyPairMatches'
    BY <2>3, <2>4 DEF PairInv, KeyPairMatches, Quiet
  <2>6. OneGenerator'
    BY <2>2 DEF OneGenerator
  <2>7. KeyComesFirst'
    BY <2>1, <2>3 DEF PairInv, KeyStrengthenings, KeyComesFirst
  <2> QED BY <1>0, <2>5, <2>6, <2>7 DEF PairInv, KeyStrengthenings
<1>10. CASE UNCHANGED keyVars
  BY <1>10 DEF keyVars, PairInv, KeyTypeOK, KeyStrengthenings, KeyComesFirst, OneGenerator,
               KeyPairMatches, Quiet, Generating
<1> QED
  BY <1>1, <1>2, <1>3, <1>4, <1>5, <1>6, <1>7, <1>8, <1>9, <1>10 DEF KeyNext, Continue

\* A key and a certificate that stay are of one pair, unless two requests made pairs at the
\* same time or the certificate was cut off (keypair.go:31-40, 111-118).
THEOREM PairsMatch == KeySpec => []KeyPairMatches
<1>1. PairInv => KeyPairMatches
  BY DEF PairInv
<1> QED BY <1>1, InitPair, NextPair, PTL DEF KeySpec
=============================================================================
