--------------------------- MODULE OIDCProviders ---------------------------
(***************************************************************************)
(* The list of OIDC providers (c.OIDCProviders): the setup pages that add  *)
(* and delete them (rest/auth.go), and those who read the list for longer: *)
(* the renewal worker, which keeps the slice of the start                  *)
(* (auth/oidc/store/renewal), and authMiddleware, which ranges over it and *)
(* waits for each provider in turn (rest/middleware.go).  Nothing is       *)
(* locked.                                                                 *)
(*                                                                         *)
(* A Go slice is an array and a length.  append writes into the array if   *)
(* it has room and else moves to a new one; a deletion moves the elements  *)
(* behind the deleted one up in the array itself.  Other slices of that    *)
(* array see both.  How much room there is, is the runtime's choice.       *)
(*                                                                         *)
(* A step is what a request does between two calls that wait: the body of  *)
(* the request, the fetch of a discovery document, the file.  What becomes *)
(* of the documents that a walk fetches is in KeyCaches, how config.json   *)
(* is written in ServerSetup.                                              *)
(***************************************************************************)
EXTENDS Naturals, FiniteSets, SequencesExt

CONSTANTS
    Providers,    \* providers, by their ids
    Requests,     \* requests in flight
    NoProvider,   \* an element of an array that was never set
    MaxRoom,      \* bound: elements an array has beyond those in use
    MaxFaults     \* bound: saves that fail and restarts

ASSUME Parameters ==
    /\ NoProvider \notin Providers
    /\ MaxRoom \in Nat /\ MaxFaults \in Nat

VARIABLES
    arrays,      \* the arrays made so far, each of its capacity
    served,      \* the slice c.OIDCProviders
    renewed,     \* the slice r.oidcProviders of the renewal worker
    disk,        \* the providers in config.json
    request,     \* local variables of each request
    created,     \* ids given so far
    faults,      \* counter
    atStart,     \* history: the providers of the start
    leftBehind,  \* history: providers that were the last of the list at a deletion
    outgrown     \* history: an addition has moved the list to a new array

lists == <<arrays, served, created, leftBehind, outgrown>>
file == <<disk, faults>>
start == <<renewed, atStart>>
vars == <<lists, start, file, request>>

\* Histories of a walk: the providers there from its beginning till now and not seen yet,
\* those there at any time of it, those seen that were not there, and how many were deleted
\* from the array it ranges over at a position it has passed.
Idle == [pc |-> "idle", slice |-> [array |-> 1, len |-> 0], k |-> 0,
         missing |-> {}, arisen |-> {}, strange |-> {}, overtaken |-> 0]

Elements(s) == SubSeq(arrays[s.array], 1, s.len)

\* getOIDCProvider finds the providers of the slice it is given.
Found(s) == ToSet(Elements(s))

Room(n) == [i \in 1 .. n |-> NoProvider]

-----------------------------------------------------------------------------
(* oidcProviderHandler (POST), oidcProviderElementHandler (DELETE)         *)

\* The requests in the middle of a walk, when p comes.
WalksSee(p) ==
    [q \in Requests |-> IF request[q].pc = "walk"
                        THEN [request[q] EXCEPT !.arisen = @ \cup {p}] ELSE request[q]]

AddProvider(r, p) ==
    LET list == Append(Elements(served), p)
        capacity == Len(arrays[served.array]) IN
    /\ request[r].pc = "idle"
    /\ p \notin created
    /\ created' = created \cup {p}
    /\ IF served.len < capacity
       THEN /\ arrays' = [arrays EXCEPT ![served.array] =
                             list \o SubSeq(@, Len(list) + 1, capacity)]
            /\ served' = [served EXCEPT !.len = @ + 1]
            /\ UNCHANGED outgrown
       ELSE /\ \E n \in 0 .. MaxRoom : arrays' = Append(arrays, list \o Room(n))
            /\ served' = [array |-> Len(arrays) + 1, len |-> Len(list)]
            /\ outgrown' = TRUE
    /\ request' = [WalksSee(p) EXCEPT ![r] = [Idle EXCEPT !.pc = "save"]]
    /\ UNCHANGED <<start, file, leftBehind>>

\* Mutant: what is behind the end is cleared, as slices.Delete does.
ShiftAndClear(array, k, n) ==
    [i \in DOMAIN array |-> IF i \in k .. n - 1 THEN array[i + 1]
                            ELSE IF i = n THEN NoProvider ELSE array[i]]

\* Mutant: the last element does not move.
ShiftTooFew(array, k, n) ==
    [i \in DOMAIN array |-> IF i \in k .. n - 2 THEN array[i + 1] ELSE array[i]]

\* append(c.OIDCProviders[:match], c.OIDCProviders[match+1:]...)
Shift(array, k, n) == [i \in DOMAIN array |-> IF i \in k .. n - 1 THEN array[i + 1] ELSE array[i]]

\* Mutant: the list is copied without the provider.
RemoveFromCopy(k) ==
    /\ arrays' = Append(arrays, RemoveAt(Elements(served), k))
    /\ served' = [array |-> Len(arrays) + 1, len |-> served.len - 1]

RemoveInPlace(k) ==
    /\ arrays' = [arrays EXCEPT ![served.array] = Shift(@, k, served.len)]
    /\ served' = [served EXCEPT !.len = @ - 1]

WalksLose(p, k) ==
    [q \in Requests |->
        IF request[q].pc # "walk" THEN request[q]
        ELSE [request[q] EXCEPT
                !.missing = @ \ {p},
                !.overtaken = IF request[q].slice.array = served.array /\ k <= request[q].k
                              THEN @ + 1 ELSE @]]

DeleteProvider(r, k) ==
    LET p == Elements(served)[k] IN
    /\ request[r].pc = "idle"
    /\ RemoveInPlace(k)
    /\ request' = [WalksLose(p, k) EXCEPT ![r] = [Idle EXCEPT !.pc = "save"]]
    /\ leftBehind' = leftBehind \cup {Last(Elements(served))}
    /\ UNCHANGED <<start, file, created, outgrown>>

SaveConfig(r) ==
    /\ request[r].pc = "save"
    /\ disk' = Elements(served)
    /\ request' = [request EXCEPT ![r] = Idle]
    /\ UNCHANGED <<lists, start, faults>>

\* The request is answered with an error; the list stays changed.
SaveConfigFails(r) ==
    /\ request[r].pc = "save"
    /\ faults < MaxFaults
    /\ faults' = faults + 1
    /\ request' = [request EXCEPT ![r] = Idle]
    /\ UNCHANGED <<lists, start, disk>>

-----------------------------------------------------------------------------
(* authMiddleware: range evaluates the slice once, its elements one by one *)

\* After the last provider the key of the token is looked for.
Walking(walk) == [walk EXCEPT !.pc = IF walk.k = walk.slice.len THEN "verify" ELSE "walk"]

BeginWalk(r) ==
    /\ request[r].pc = "idle"
    /\ request' = [request EXCEPT ![r] = Walking(
          [Idle EXCEPT !.slice = served, !.missing = Found(served), !.arisen = Found(served)])]
    /\ UNCHANGED <<lists, start, file>>

\* The next provider is copied and its document fetched.
WalkOn(r) ==
    LET walk == request[r]
        p == arrays[walk.slice.array][walk.k + 1] IN
    /\ walk.pc = "walk"
    /\ request' = [request EXCEPT ![r] = Walking(
          [walk EXCEPT !.k = @ + 1, !.missing = @ \ {p},
                       !.strange = @ \cup ({p} \ walk.arisen)])]
    /\ UNCHANGED <<lists, start, file>>

\* A document cannot be fetched, or the token has been verified.
Return(r) ==
    /\ request[r].pc \in {"walk", "verify"}
    /\ request' = [request EXCEPT ![r] = Idle]
    /\ UNCHANGED <<lists, start, file>>

-----------------------------------------------------------------------------
\* The array that the decoder makes of config.json, and its slice, which NewRenewal gets.
Decoded(list) == {list \o Room(n) : n \in IF list = <<>> THEN {0} ELSE 0 .. MaxRoom}
Whole(list) == [array |-> 1, len |-> Len(list)]

NoRequests == [r \in Requests |-> Idle]

Restart ==
    /\ faults < MaxFaults
    /\ faults' = faults + 1
    /\ \E array \in Decoded(disk) : arrays' = <<array>>
    /\ served' = Whole(disk) /\ renewed' = Whole(disk)
    /\ atStart' = ToSet(disk) /\ leftBehind' = {} /\ outgrown' = FALSE
    /\ request' = NoRequests
    /\ UNCHANGED <<disk, created>>

\* A server that was configured before, or not.
Init ==
    /\ disk \in {list \in SeqOf(Providers, Cardinality(Providers)) : IsInjective(list)}
    /\ \E array \in Decoded(disk) : arrays = <<array>>
    /\ served = Whole(disk) /\ renewed = Whole(disk)
    /\ atStart = ToSet(disk) /\ created = ToSet(disk) /\ leftBehind = {} /\ outgrown = FALSE
    /\ faults = 0
    /\ request = NoRequests

Next ==
    \/ \E r \in Requests :
          \/ \E p \in Providers : AddProvider(r, p)
          \/ \E k \in 1 .. served.len : DeleteProvider(r, k)
          \/ SaveConfig(r) \/ SaveConfigFails(r)
          \/ BeginWalk(r) \/ WalkOn(r) \/ Return(r)
    \/ Restart

Spec == Init /\ [][Next]_vars

-----------------------------------------------------------------------------
(* Properties                                                              *)

IsSlice(s) == s.array \in DOMAIN arrays /\ s.len \in 0 .. Len(arrays[s.array])

\* Types; whatever two slices do to one array, the list that is served has each provider
\* once.
TypeOK ==
    /\ \A a \in DOMAIN arrays : ToSet(arrays[a]) \subseteq Providers \cup {NoProvider}
    /\ IsSlice(served) /\ IsSlice(renewed)
    /\ IsInjective(Elements(served)) /\ Found(served) \subseteq created
    /\ \A r \in Requests :
          /\ request[r].pc \in {"idle", "walk", "verify", "save"}
          /\ request[r].pc = "walk" => IsSlice(request[r].slice)
          /\ request[r].k \in 0 .. request[r].slice.len
    /\ faults \in 0 .. MaxFaults

\* A token is checked against every provider that was there during the whole walk, except
\* one for each provider that was deleted at a position the walk had passed: the others
\* move up under the loop (auth.go:150, middleware.go:63-70).  A token of the provider that
\* is passed over is refused once.
WalkMissesOnlyShiftedProviders ==
    \A r \in Requests : request[r].pc = "verify" =>
        Cardinality(request[r].missing) <= request[r].overtaken

\* A token is checked against no provider that was deleted before the check began, and no
\* document of a provider that never was is asked for: what is behind the end of the slice
\* is an old provider and not an empty one (auth.go:150, middleware.go:64).
WalkSeesProviders ==
    \A r \in Requests : request[r].strange = {}

\* The sessions of a provider that was there at the start are renewed for as long as it is
\* there: deletions and additions write to the array of the worker, but never hide one of
\* its providers from it (new.go:26, auth.go:119 and 150, renew.go:86-93).
StartProvidersAreRenewed == atStart \cap Found(served) \subseteq Found(renewed)

\* The worker renews sessions of a provider that was deleted only if it was the last of the
\* list at that or another deletion, because the element behind the new end stays in the
\* array, or if the list has outgrown the array.
DeletedIsNotRenewed == ~outgrown => Found(renewed) \subseteq Found(served) \cup leftBehind

\* What a check of a token sees of the list while others change it.
WalkSeesTheList == WalkMissesOnlyShiftedProviders /\ WalkSeesProviders

\* What the renewal worker sees of it.
WorkerFollowsTheList == StartProvidersAreRenewed /\ DeletedIsNotRenewed

-----------------------------------------------------------------------------
(* What makes the invariants inductive.                                    *)

RequestState ==
    [pc : {"idle", "walk", "verify", "save"}, slice : [array : Nat, len : Nat], k : Nat,
     missing : SUBSET Providers, arisen : SUBSET Providers, strange : SUBSET Providers,
     overtaken : Nat]

\* The list is in the array that was made last, the slice of the start in the first one.
ArraysAreInOrder ==
    /\ arrays \in Seq(Seq(Providers \cup {NoProvider})) /\ served.array = Len(arrays)
    /\ renewed.array = 1
    /\ outgrown = (Len(arrays) > 1)
    /\ {served, renewed} \subseteq [array : Nat, len : Nat]
    /\ request \in [Requests -> RequestState]

\* An id that is not given yet is nowhere.
IdsAreCreated ==
    /\ created \subseteq Providers /\ atStart \subseteq created
    /\ disk \in Seq(created) /\ IsInjective(disk)

\* As long as the list is in the array of the worker, the providers of the start are where
\* the worker looks, and what it sees behind the end of the list was once the last of it.
WorkerSharesTheArray ==
    ~outgrown =>
        /\ \A i \in 1 .. served.len : arrays[1][i] \in atStart => i <= renewed.len
        /\ \A i \in served.len + 1 .. renewed.len : arrays[1][i] \in leftBehind

\* What a walk may still see.
Ahead(walk) == {arrays[walk.slice.array][i] : i \in walk.k + 1 .. walk.slice.len}

\* The providers of the list that a walk through its array has passed.
Passed(walk) == {arrays[walk.slice.array][i] : i \in (1 .. served.len) \cap (1 .. walk.k)}

\* Also a provider that is behind the end may be seen, but nothing that never was.
SeesProviders(walk) ==
    /\ walk.k < walk.slice.len
    /\ Found(walk.slice) \cup Found(served) \subseteq walk.arisen

\* What a walk has not seen of the list is ahead of it in the array, but for one provider
\* for each deletion.  Once the list has moved, its array stays as it is.
IsOvertaken(walk) ==
    /\ walk.missing \subseteq Found(served)
    /\ IF walk.slice.array = served.array
       THEN /\ \A i \in 1 .. served.len :
                  arrays[served.array][i] \in walk.missing => i <= walk.slice.len
            /\ Cardinality(walk.missing \cap Passed(walk)) <= walk.overtaken
       ELSE Cardinality(walk.missing \ Ahead(walk)) <= walk.overtaken

WalksGoThroughTheList ==
    \A r \in Requests : request[r].pc = "walk" =>
        SeesProviders(request[r]) /\ IsOvertaken(request[r])

Strengthenings ==
    ArraysAreInOrder /\ IdsAreCreated /\ WorkerSharesTheArray /\ WalksGoThroughTheList
=============================================================================
