----------------------------- MODULE Licensing ------------------------------
(***************************************************************************)
(* How many users the server may have (licensing, rest/license.go, the     *)
(* background refresh of rest/context.go, the check of rest/users.go).     *)
(*                                                                         *)
(* The cloud that the machine runs in is guessed from the metadata         *)
(* requests that are answered.  Marketplace images take the number from    *)
(* the instance type; the others look a licence up, by a key that is drawn *)
(* once, kept in license.key, and joined with an identifier of the         *)
(* machine or its account.  An administrator is shown the key by "get      *)
(* more" and buys a licence for it.  No lock is held: the start, the daily *)
(* refresh and several "get more" requests do the same steps at once, and  *)
(* each metadata request, each look-up and each file access may fail.      *)
(*                                                                         *)
(* Licences are not withdrawn, instance types and tags do not change.      *)
(***************************************************************************)
EXTENDS Naturals, FiniteSets

CONSTANTS
    Requests,       \* requests in flight, and the background refresh
    Clouds,         \* where the machine may run
    AWSSize,        \* the suffix of its instance type, on AWS
    AzureCPUs,      \* the CPU count in its size, on Azure
    Keys,           \* keys that may be drawn
    TagKey,         \* the key that the tag of an AWS instance holds
    LicensedUsers,  \* what every licence that is sold is for
    MaxFaults,      \* bound: requests, look-ups and file accesses that fail
    MaxLicences,    \* bound: licences sold
    MaxExternal,    \* bound: users that come by an external login
    Absent, Torn,   \* no key file; one written in part
    NoKey           \* no key read

CloudTypes == {"aws-marketplace", "aws", "azure", "azure-byol", "digitalocean", "gcp", ""}

ASSUME Parameters ==
    /\ Clouds \subseteq CloudTypes
    /\ AzureCPUs \in Nat
    /\ LicensedUsers \in Nat /\ LicensedUsers > 3
    /\ {MaxFaults, MaxLicences, MaxExternal} \subseteq Nat
    /\ IsFiniteSet(Requests) /\ Requests # {}

ASSUME Sentinels ==
    /\ {Absent, NoKey} \cap (Keys \cup {TagKey, Torn}) = {}
    /\ TagKey \notin Keys /\ Torn \notin Keys \cup {TagKey} /\ Absent # NoKey

userLicense == 3

\* A licence key: what is in the file or the tag, and whose identifier follows it.
Identifiers == {"none", "own", "empty"}
LicenseKey == [key : Keys \cup {TagKey, Torn}, id : Identifiers]

VARIABLES
    cloud, tagged,     \* the machine: where it runs; its license tag is set
    up,                \* the server has started
    cloudType,         \* the Context: what the start took the machine for
    licenseUserCount,  \* the Context: the licence in force
    maxUsers,          \* the user store: the licence of the start, which stays
    keyFile,           \* license.key
    licences,          \* the licence server: the keys that a licence was sold for
    users,             \* the number of users
    request,           \* local variables of each request
    faults, external, \* counters
    answered,          \* history: the keys that were shown
    shown,             \* history: those shown with nothing failed
    best,              \* history: the largest licence found with nothing failed
    highest,           \* history: the largest licence in force so far
    excused,           \* history: the last refresh had a failure or was overtaken
    raced              \* history: the key file was made twice, or read while it was made

machine == <<cloud, tagged>>
context == <<up, cloudType, licenseUserCount, maxUsers>>
counts == <<best, highest, excused>>
keysShown == <<answered, shown>>
userVars == <<users, external>>
vars == <<machine, context, keyFile, licences, userVars, request, faults, keysShown,
          counts, raced>>

Idle == [pc |-> "idle", goal |-> "refresh", type |-> "", key |-> NoKey, id |-> "none",
         count |-> 0, faulty |-> FALSE, overtaken |-> FALSE]

Return(r) == request' = [request EXCEPT ![r] = Idle]
Goto(r, pc) == request' = [request EXCEPT ![r].pc = pc]

\* A step in which something fails when fails is TRUE.
MayFail(fails) == IF fails THEN faults < MaxFaults /\ faults' = faults + 1
                  ELSE UNCHANGED faults

-----------------------------------------------------------------------------
(* Where the machine runs.                                                 *)

\* What each test of the metadata service says, unless its requests fail.
isOnAWSMarketPlace(failed) == cloud = "aws-marketplace" /\ "marketplace" \notin failed
isOnAWS(failed) == cloud \in {"aws-marketplace", "aws"} /\ "identity" \notin failed
isOnAzure(failed) == cloud \in {"azure", "azure-byol"} /\ "versions" \notin failed
hasPlan(failed) == cloud = "azure" /\ "plan" \notin failed
isOnDigitalOcean(failed) == cloud = "digitalocean" /\ "interfaces" \notin failed
isOnGCP(failed) == cloud = "gcp" /\ "project" \notin failed

Tests == {"marketplace", "identity", "versions", "plan", "interfaces", "project"}

guessInfrastructure(failed) ==
    IF isOnAWSMarketPlace(failed) THEN "aws-marketplace"
    ELSE IF isOnAWS(failed) THEN "aws"
    ELSE IF isOnAzure(failed) THEN IF hasPlan(failed) THEN "azure" ELSE "azure-byol"
    ELSE IF isOnDigitalOcean(failed) THEN "digitalocean"
    ELSE IF isOnGCP(failed) THEN "gcp"
    ELSE ""

\* What the machine may be taken for.
Guesses == {guessInfrastructure(failed) : failed \in SUBSET Tests}

AWSUsers == [nano |-> 3, micro |-> 10, small |-> 25, medium |-> 50, large |-> 100,
             xlarge |-> 250]

GetMaxUsersAWS(size) == IF size \in DOMAIN AWSUsers THEN AWSUsers[size] ELSE 3

\* Of the number after the letters of the size.
GetMaxUsersAzure(cpus) == IF cpus = 0 THEN 15 ELSE cpus * 25

\* The licences that an instance type gives, and those that must be looked up.
Marketplaces == {"aws-marketplace", "azure"}

InstanceUsers(type) ==
    IF type = "azure" THEN GetMaxUsersAzure(AzureCPUs) ELSE GetMaxUsersAWS(AWSSize)

\* RefreshLicense returns early: the count stays what the start has found.
RefreshIsSkipped == cloudType \in Marketplaces

-----------------------------------------------------------------------------
(* The key: getAWSLicenseKey and its like, getLicenseKeyFromFile.          *)

keyUnchanged == <<machine, context, licences, userVars, keysShown, counts>>

\* A key that was never drawn.
Drawn == {keyFile} \cup {request[r].key : r \in Requests} \cup {k.key : k \in answered}

\* Mutant: the key is shown without an identifier on every cloud.
OnlyToLookUp(r) ==
    /\ request[r].type \in {"aws", "azure-byol", "digitalocean", "gcp"}
    /\ request[r].goal # "answer"

\* "get more" knows no identifier on Azure (GetLicenseKey).
HasIdentifier(r) ==
    \/ request[r].type \in {"aws", "digitalocean", "gcp"}
    \/ request[r].type = "azure-byol" /\ request[r].goal # "answer"

\* An identity document that is refused leaves an empty account.
IdentifierAnswers(r) ==
    IF ~HasIdentifier(r) THEN {"none"}
    ELSE {"own", "error"} \cup (IF request[r].type = "aws" THEN {"empty"} ELSE {})

\* No key: the count is the default, or an empty key is answered.
NoLicenseKey(r) ==
    IF request[r].goal = "answer" THEN Return(r)
    ELSE request' = [request EXCEPT ![r].pc = "assign", ![r].count = userLicense,
                                    ![r].faulty = TRUE]

\* The identifier is asked for first, on AWS the tag, and the account after the file.
Identify(r) ==
    /\ request[r].pc = "identify"
    /\ \E id \in IdentifierAnswers(r), tagFails \in BOOLEAN :
         LET aws == request[r].type = "aws"
             fails == id \in {"error", "empty"} \/ (aws /\ tagged /\ tagFails) IN
         /\ MayFail(fails)
         /\ IF id = "error" /\ ~aws THEN NoLicenseKey(r)
            ELSE LET fromTag == aws /\ tagged /\ ~tagFails IN
                 request' = [request EXCEPT
                    ![r].id = id, ![r].faulty = @ \/ fails,
                    ![r].key = IF fromTag THEN TagKey ELSE NoKey,
                    ![r].pc = IF fromTag THEN "complete" ELSE "file"]
    /\ UNCHANGED <<keyUnchanged, keyFile, raced>>

\* Mutant: every start draws a key.
NotAtStart == up /\ keyFile # Absent

FileExists == keyFile # Absent

\* A file that another request is writing is read as it is.
ReadKeyFile(r) ==
    /\ request[r].pc = "file"
    /\ IF FileExists
       THEN /\ request' = [request EXCEPT ![r].key = keyFile, ![r].pc = "complete"]
            /\ raced' = (raced \/ \E q \in Requests : request[q].pc = "write")
       ELSE /\ \E k \in Keys \ Drawn :
                 request' = [request EXCEPT ![r].key = k, ![r].pc = "open"]
            /\ UNCHANGED raced
    /\ UNCHANGED <<keyUnchanged, keyFile, faults>>

\* os.WriteFile truncates the file, then writes it.
OpenKeyFile(r) ==
    /\ request[r].pc = "open"
    /\ keyFile' = Torn
    /\ raced' = (raced \/ FileExists)
    /\ Goto(r, "write")
    /\ UNCHANGED <<keyUnchanged, faults>>

\* Mutant: the key that was drawn is written, and an empty one returned.
KeyNotReturned(r) ==
    /\ request[r].pc = "write"
    /\ keyFile' = request[r].key
    /\ request' = [request EXCEPT ![r].pc = "complete", ![r].key = NoKey]
    /\ UNCHANGED <<keyUnchanged, faults, raced>>

WriteKeyFile(r) ==
    /\ request[r].pc = "write"
    /\ keyFile' = request[r].key
    /\ Goto(r, "complete")
    /\ UNCHANGED <<keyUnchanged, faults, raced>>

\* The file cannot be read, opened or written.
KeyFileFails(r) ==
    /\ request[r].pc \in {"file", "open", "write"}
    /\ MayFail(TRUE)
    /\ NoLicenseKey(r)
    /\ UNCHANGED <<keyUnchanged, keyFile, raced>>

-----------------------------------------------------------------------------
(* The count: GetMaxUsers at the start, RefreshLicense later.              *)

\* The machine is tested again at every refresh.
Begin(r, goal) ==
    /\ request[r].pc = "idle"
    /\ \E type \in Guesses, sizeFails \in BOOLEAN :
         LET fails == type # cloud \/ (type \in Marketplaces /\ sizeFails) IN
         /\ MayFail(fails)
         /\ request' = [request EXCEPT ![r] = [Idle EXCEPT
               !.goal = goal, !.type = type, !.faulty = fails,
               !.pc = IF type \in Marketplaces THEN "assign" ELSE "identify",
               !.count = IF type \notin Marketplaces THEN 0
                         ELSE IF sizeFails THEN userLicense ELSE InstanceUsers(type)]]
    /\ UNCHANGED <<keyUnchanged, keyFile, raced>>

\* GetMaxUsers, before the server serves.
Start(r) == ~up /\ (\A q \in Requests : request[q].pc = "idle") /\ Begin(r, "start")

\* The loop in the background, and the action "get-more" of licenseHandler.
Refresh(r, goal) == up /\ ~RefreshIsSkipped /\ Begin(r, goal)

LicenseKeyOf(r) == [key |-> request[r].key, id |-> request[r].id]

\* getLicense: a licence that was not sold is an error as any other.
LookUp(r) ==
    /\ request[r].pc = "complete" /\ request[r].goal # "answer"
    /\ IF request[r].id = "error" THEN NoLicenseKey(r) /\ UNCHANGED faults
       ELSE \E fails \in BOOLEAN :
              /\ MayFail(fails)
              /\ request' = [request EXCEPT ![r].pc = "assign", ![r].faulty = @ \/ fails,
                    ![r].count = IF ~fails /\ LicenseKeyOf(r) \in licences
                                 THEN LicensedUsers ELSE userLicense]
    /\ UNCHANGED <<keyUnchanged, keyFile, raced>>

\* Requests that have their answer, which is older than the one assigned now.
Overtake(r) ==
    [q \in Requests |-> IF q # r /\ request[q].pc = "assign"
                        THEN [request[q] EXCEPT !.overtaken = TRUE] ELSE request[q]]

larger(m, n) == IF m > n THEN m ELSE n

\* "get more" goes on to the key, of the machine that the start has found.
Assign(r) ==
    LET goal == request[r].goal
        type == IF goal = "start" THEN request[r].type ELSE cloudType IN
    /\ request[r].pc = "assign"
    /\ licenseUserCount' = request[r].count
    /\ maxUsers' = IF goal = "start" THEN request[r].count ELSE maxUsers
    /\ cloudType' = type
    /\ up' = TRUE
    /\ request' = [Overtake(r) EXCEPT ![r] =
          IF goal = "get-more"
          THEN [Idle EXCEPT !.pc = "identify", !.goal = "answer", !.type = type] ELSE Idle]
    /\ excused' = (request[r].faulty \/ request[r].overtaken)
    /\ best' = IF request[r].faulty THEN best ELSE larger(best, request[r].count)
    /\ highest' = larger(highest, request[r].count)
    /\ UNCHANGED <<machine, keyFile, licences, userVars, faults, keysShown, raced>>

\* On a marketplace image only the key is asked for.
AskForKey(r) ==
    /\ up /\ RefreshIsSkipped /\ request[r].pc = "idle"
    /\ request' = [request EXCEPT ![r] = [Idle EXCEPT
                      !.pc = "identify", !.goal = "answer", !.type = cloudType]]
    /\ UNCHANGED <<keyUnchanged, keyFile, faults, raced>>

\* The key is shown to the administrator; a key that failed in part may be another one.
Answer(r) ==
    /\ request[r].pc = "complete" /\ request[r].goal = "answer"
    /\ Return(r)
    /\ IF request[r].id = "error" THEN UNCHANGED keysShown
       ELSE /\ answered' = answered \cup {LicenseKeyOf(r)}
            /\ shown' = IF request[r].faulty \/ cloudType # cloud THEN shown
                        ELSE shown \cup {LicenseKeyOf(r)}
    /\ UNCHANGED <<machine, context, keyFile, licences, userVars, faults, counts, raced>>

\* A licence is bought for a key that was shown.
BuyLicence(key) ==
    /\ Cardinality(licences) < MaxLicences
    /\ licences' = licences \cup {key}
    /\ UNCHANGED <<machine, context, keyFile, userVars, request, faults, keysShown,
                   counts, raced>>

-----------------------------------------------------------------------------
(* Users: usersHandler (POST) and those who come otherwise.                *)

\* Mutant: one user too many.
OneTooMany(limit) == users <= limit

LicenceLeft(limit) == users < limit

\* An administrator is held to the licence in force, SCIM to the one of the start; the
\* request goes on to check the login and to hash the password.
CheckLicence(r) ==
    /\ up /\ request[r].pc = "idle"
    /\ LicenceLeft(licenseUserCount) \/ LicenceLeft(maxUsers)
    /\ Goto(r, "addUser")
    /\ UNCHANGED <<keyUnchanged, keyFile, faults, raced>>

AddUser(r) ==
    /\ request[r].pc = "addUser"
    /\ users' \in {users, users + 1}  \* a login that is taken adds nobody
    /\ Return(r)
    /\ UNCHANGED <<machine, context, keyFile, licences, external, faults, keysShown,
                   counts, raced>>

\* addOrModifyExternalUser, a login that is not known yet: no licence is asked.
ExternalLogin ==
    /\ up /\ external < MaxExternal
    /\ external' = external + 1 /\ users' = users + 1
    /\ UNCHANGED <<machine, context, keyFile, licences, request, faults, keysShown,
                   counts, raced>>

DeleteUser ==
    /\ up /\ users > 1
    /\ users' = users - 1
    /\ UNCHANGED <<machine, context, keyFile, licences, external, request, faults,
                   keysShown, counts, raced>>

-----------------------------------------------------------------------------
\* Every file stays as it is.
Crash ==
    /\ up \/ \E r \in Requests : request[r].pc # "idle"
    /\ up' = FALSE /\ cloudType' = "" /\ licenseUserCount' = 0 /\ maxUsers' = 0
    /\ request' = [r \in Requests |-> Idle]
    /\ excused' = TRUE
    /\ UNCHANGED <<machine, keyFile, licences, userVars, faults, keysShown, best, highest,
                   raced>>

Init ==
    /\ cloud \in Clouds
    /\ tagged \in (IF cloud = "aws" THEN BOOLEAN ELSE {FALSE})
    /\ up = FALSE /\ cloudType = "" /\ licenseUserCount = 0 /\ maxUsers = 0
    /\ keyFile = Absent /\ licences = {}
    /\ users = 1 /\ external = 0
    /\ request = [r \in Requests |-> Idle]
    /\ faults = 0
    /\ answered = {} /\ shown = {}
    /\ best = 0 /\ highest = 0 /\ excused = TRUE /\ raced = FALSE

KeyStep(r) ==
    Identify(r) \/ ReadKeyFile(r) \/ OpenKeyFile(r) \/ WriteKeyFile(r) \/ KeyFileFails(r)

LicenceStep(r) ==
    \/ Start(r) \/ Refresh(r, "refresh") \/ Refresh(r, "get-more")
    \/ LookUp(r) \/ Assign(r) \/ AskForKey(r) \/ Answer(r)

UserStep(r) == CheckLicence(r) \/ AddUser(r)

Next ==
    \/ \E r \in Requests : KeyStep(r) \/ LicenceStep(r) \/ UserStep(r)
    \/ \E key \in answered : BuyLicence(key)
    \/ ExternalLogin \/ DeleteUser \/ Crash

Spec == Init /\ [][Next]_vars

-----------------------------------------------------------------------------
(* Properties.                                                             *)

Request == [pc : {"idle", "identify", "file", "open", "write", "complete", "assign", "addUser"},
            goal : {"start", "refresh", "get-more", "answer"}, type : CloudTypes,
            key : Keys \cup {TagKey, Torn, NoKey}, id : Identifiers \cup {"error"},
            count : Nat, faulty : BOOLEAN, overtaken : BOOLEAN]

\* The types of the state, and that a request which completes a licence key has one.
TypeOK ==
    /\ cloud \in CloudTypes /\ tagged \in BOOLEAN
    /\ up \in BOOLEAN /\ cloudType \in CloudTypes /\ licenseUserCount \in Nat /\ maxUsers \in Nat
    /\ keyFile \in Keys \cup {Absent, Torn}
    /\ licences \subseteq LicenseKey
    /\ users \in Nat /\ external \in 0 .. MaxExternal /\ faults \in 0 .. MaxFaults
    /\ request \in [Requests -> Request]
    /\ \A r \in Requests :
         /\ request[r].pc = "complete" => request[r].key # NoKey
         /\ request[r].pc \in {"open", "write"} => request[r].key \in Keys
    /\ shown \subseteq answered /\ answered \subseteq LicenseKey
    /\ best \in Nat /\ highest \in Nat /\ excused \in BOOLEAN /\ raced \in BOOLEAN

\* The key that an administrator was shown is the one that every later refresh looks up,
\* so that a licence bought for it takes effect, across failures of other requests, torn
\* key files and restarts (GetLicenseKey, license.go:117; getMaxUsers, license.go:73).  Two
\* exceptions: the first key was made by two requests at once, and Azure without a plan,
\* where "get more" shows the key without the identifier that the look-up joins to it.
ShownKeyIsLookedUp ==
    ~raced /\ cloud # "azure-byol" =>
        \A r \in Requests :
            request[r].pc = "complete" /\ request[r].goal # "answer" /\ ~request[r].faulty
                => \A key \in shown : key = LicenseKeyOf(r)

\* A server has a smaller licence in force than a sound refresh has found before only when
\* the last refresh had a failure of its own, or was overtaken by a newer one (context.go:61,
\* rest/license.go:13): the next sound one brings the licence back.
LicenceDropsOnlyByFailure ==
    up /\ licenseUserCount < best => excused \/ raced

\* Administrators and SCIM create no more users than the largest licence so far, but for one
\* more for each other request that was let through before the user was added (users.go:111,
\* scim/users.go:179); external logins come on top.
UsersWithinLicence ==
    up => users <= highest + external + (Cardinality(Requests) - 1)

-----------------------------------------------------------------------------
(* What makes the invariants inductive.                                    *)

\* A start is alone, a request for the key knows the machine as the Context does, and what
\* has not failed knows it as it is.
GoalsAreSound ==
    /\ tagged => cloud = "aws"
    /\ \A r \in Requests : request[r].pc = "idle" => request[r].goal = "refresh"
    /\ \A r \in Requests : request[r].pc # "idle" =>
         /\ (request[r].goal = "start") = ~up
         /\ request[r].goal = "start" => \A q \in Requests \ {r} : request[q].pc = "idle"
         /\ request[r].goal = "answer" => request[r].type = cloudType
         /\ request[r].goal # "answer" /\ request[r].pc # "addUser" =>
              /\ request[r].pc # "assign" => request[r].type \notin Marketplaces
              /\ ~request[r].faulty => request[r].type = cloud

HasTag == cloud = "aws" /\ tagged

\* The identifier and the origin of a key, when nothing failed.
KeysAreSound ==
    \A r \in Requests :
        ~request[r].faulty /\ request[r].pc \in {"file", "open", "write", "complete"} =>
            /\ request[r].id = IF HasIdentifier(r) THEN "own" ELSE "none"
            /\ (request[r].pc = "complete" /\ request[r].key = TagKey)
                  = (request[r].type = "aws" /\ tagged)

\* The keys that were read, shown or sold come from the tag or are the one in the file;
\* nobody has read the file while it is written.
OneKeyFile ==
    ~raced =>
        /\ \A r \in Requests :
              request[r].pc = "complete" => request[r].key \in {TagKey, keyFile}
        /\ \A key \in answered : key.key \in {TagKey, keyFile}
        /\ \A q \in Requests : request[q].pc = "write" =>
              /\ keyFile = Torn
              /\ \A r \in Requests \ {q} : request[r].pc # "write"
              /\ \A r \in Requests : request[r].pc = "complete" => request[r].key = TagKey
              /\ \A key \in answered : key.key = TagKey

\* What was shown is the key of the machine, but for the identifier on Azure.
ShownIsSound ==
    \A key \in shown :
        /\ (key.key = TagKey) = HasTag
        /\ key.id = IF cloud \in {"aws", "digitalocean", "gcp"} THEN "own" ELSE "none"

\* The key that a look-up with nothing failed asks for, and what it finds.
MachineKey ==
    [key |-> IF HasTag THEN TagKey ELSE keyFile,
     id |-> IF cloud \in {"aws", "azure-byol", "digitalocean", "gcp"} THEN "own" ELSE "none"]

SoundCount ==
    IF cloud \in Marketplaces THEN InstanceUsers(cloud)
    ELSE IF MachineKey \in licences THEN LicensedUsers ELSE userLicense

\* What was found with nothing failed is never more than what would be found now, and no
\* less than the best so far unless it was overtaken.
CountsGrow ==
    /\ licences \subseteq answered
    /\ ~raced =>
         /\ best <= SoundCount
         /\ \A r \in Requests : request[r].pc = "assign" /\ ~request[r].faulty =>
              /\ request[r].count <= SoundCount
              /\ request[r].overtaken \/ best <= request[r].count

\* Requests that were let through and have not added their user.
LetThrough == {r \in Requests : request[r].pc = "addUser"}

\* A user that is about to be added counts as one; there is one before the first licence.
UsersAreCounted ==
    /\ licenseUserCount <= highest /\ maxUsers <= highest
    /\ \A r \in Requests : request[r].pc = "assign" => request[r].count > 0
    /\ IF highest = 0 THEN ~up /\ users = 1 /\ LetThrough = {}
       ELSE users + Cardinality(LetThrough)
              <= highest + external + (Cardinality(Requests) - 1)

Strengthenings ==
    /\ GoalsAreSound /\ KeysAreSound /\ OneKeyFile /\ ShownIsSound
    /\ CountsGrow /\ UsersAreCounted
=============================================================================
