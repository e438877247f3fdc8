-------------------------- MODULE LicensingProofs --------------------------
(* Theorems about Licensing, on any cloud, for any requests, instance type,  *)
(* keys and licence, and any number of failures and restarts.                *)
EXTENDS Licensing, FiniteSetTheorems, TLAPS

-----------------------------------------------------------------------------
(* The operators.                                                          *)

\* Every instance type gives some users.
LEMMA InstanceUsersType ==
    ASSUME NEW type
    PROVE  InstanceUsers(type) \in Nat /\ InstanceUsers(type) > 0
<1>1. GetMaxUsersAzure(AzureCPUs) \in Nat /\ GetMaxUsersAzure(AzureCPUs) > 0
  <2>1. AzureCPUs \in Nat
    BY Parameters
  <2>2. CASE AzureCPUs = 0
    BY <2>2 DEF GetMaxUsersAzure
  <2>3. CASE AzureCPUs # 0
    <3>1. AzureCPUs * 25 \in Nat /\ AzureCPUs * 25 > 0
      BY <2>1, <2>3
    <3> QED BY <3>1, <2>3 DEF GetMaxUsersAzure
  <2> QED BY <2>2, <2>3
<1>2. GetMaxUsersAWS(AWSSize) \in Nat /\ GetMaxUsersAWS(AWSSize) > 0
  <2>1. DOMAIN AWSUsers = {"nano", "micro", "small", "medium", "large", "xlarge"}
    BY DEF AWSUsers
  <2>2. /\ AWSUsers.nano = 3 /\ AWSUsers.micro = 10 /\ AWSUsers.small = 25
        /\ AWSUsers.medium = 50 /\ AWSUsers.large = 100 /\ AWSUsers.xlarge = 250
    BY DEF AWSUsers
  <2>3. CASE AWSSize \notin DOMAIN AWSUsers
    BY <2>3 DEF GetMaxUsersAWS
  <2>4. CASE AWSSize \in DOMAIN AWSUsers
    <3>1. GetMaxUsersAWS(AWSSize) = AWSUsers[AWSSize]
      BY <2>4 DEF GetMaxUsersAWS
    <3>2. AWSUsers[AWSSize] \in {3, 10, 25, 50, 100, 250}
      BY <2>1, <2>2, <2>4
    <3> QED BY <3>1, <3>2
  <2> QED BY <2>3, <2>4
<1> QED BY <1>1, <1>2 DEF InstanceUsers

\* A guess names a cloud, or none.
LEMMA GuessesAreTypes == Guesses \subseteq CloudTypes
BY DEF Guesses, guessInfrastructure, CloudTypes

\* A step in which something may fail stays within the bound.
LEMMA FailureCount ==
    ASSUME TypeOK, NEW fails \in BOOLEAN, MayFail(fails)
    PROVE  faults' \in 0 .. MaxFaults
<1>1. faults \in 0 .. MaxFaults /\ MaxFaults \in Nat
  BY Parameters DEF TypeOK
<1> QED BY <1>1 DEF MayFail

\* A request at rest.
LEMMA IdleType ==
    /\ Idle \in Request
    /\ Idle.pc = "idle" /\ Idle.goal = "refresh" /\ Idle.faulty = FALSE
    /\ Idle.overtaken = FALSE /\ Idle.key = NoKey /\ Idle.id = "none" /\ Idle.type = ""
BY DEF Idle, Request, CloudTypes, Identifiers

-----------------------------------------------------------------------------
(* What the steps of a request do.                                         *)

\* The other requests stay as they are.
Others(r) ==
    /\ request' \in [Requests -> Request]
    /\ \A q \in Requests \ {r} : request'[q] = request[q]

\* The request has no key: it is over, or assigns the default.
Keyless(r) ==
    \/ request[r].goal = "answer" /\ request'[r] = Idle
    \/ /\ request[r].goal # "answer"
       /\ request'[r].pc = "assign" /\ request'[r].goal = request[r].goal
       /\ request'[r].type = request[r].type
       /\ request'[r].faulty = TRUE /\ request'[r].count = userLicense

\* The fields that the steps to the key leave alone.
SameErrand(r) ==
    /\ request'[r].goal = request[r].goal /\ request'[r].type = request[r].type
    /\ request'[r].overtaken = request[r].overtaken

\* A request that is replaced.
LEMMA ReplaceOne ==
    ASSUME TypeOK, NEW r \in Requests, NEW q \in Request,
           request' = [request EXCEPT ![r] = q]
    PROVE  Others(r) /\ request'[r] = q
BY DEF Others, TypeOK

\* A look-up without a key gives the default to a refresh and ends a request for the key.
LEMMA KeylessKinds ==
    ASSUME TypeOK, NEW r \in Requests, NoLicenseKey(r)
    PROVE  Others(r) /\ Keyless(r)
<1>1. request[r] \in Request /\ request \in [Requests -> Request]
  BY DEF TypeOK
<1>2. CASE request[r].goal = "answer"
  <2>1. request' = [request EXCEPT ![r] = Idle]
    BY <1>2 DEF NoLicenseKey, Return
  <2>2. Others(r) /\ request'[r] = Idle
    BY <2>1, IdleType, ReplaceOne
  <2> QED BY <2>2, <1>2 DEF Keyless
<1>3. CASE request[r].goal # "answer"
  <2> DEFINE q == [request[r] EXCEPT !.pc = "assign", !.count = userLicense, !.faulty = TRUE]
  <2>1. request' = [request EXCEPT ![r] = q]
    BY <1>1, <1>3 DEF NoLicenseKey
  <2>2. q \in Request
    BY <1>1 DEF Request, userLicense
  <2>3. /\ q.pc = "assign" /\ q.goal = request[r].goal /\ q.type = request[r].type
        /\ q.faulty = TRUE /\ q.count = userLicense
    BY <1>1 DEF Request
  <2> HIDE DEF q
  <2>4. Others(r) /\ request'[r] = q
    BY <2>1, <2>2, ReplaceOne
  <2> QED BY <2>3, <2>4, <1>3 DEF Keyless
<1> QED BY <1>2, <1>3

\* The identifier of the machine is found, or the request goes on without it or with no key.
LEMMA IdentifyKinds ==
    ASSUME TypeOK, NEW r \in Requests, Identify(r)
    PROVE  /\ Others(r) /\ request[r].pc = "identify" /\ faults' \in 0 .. MaxFaults
           /\ UNCHANGED <<keyUnchanged, keyFile, raced>>
           /\ \/ Keyless(r)
              \/ /\ SameErrand(r)
                 /\ ~request'[r].faulty =>
                      /\ ~request[r].faulty
                      /\ request'[r].id = IF HasIdentifier(r) THEN "own" ELSE "none"
                      /\ (request'[r].pc = "complete") = (request[r].type = "aws" /\ tagged)
                 /\ \/ request'[r].pc = "complete" /\ request'[r].key = TagKey
                    \/ request'[r].pc = "file"
<1>1. PICK id \in IdentifierAnswers(r), tagFails \in BOOLEAN :
         LET aws == request[r].type = "aws"
             fails == id \in {"error", "empty"} \/ (aws /\ tagged /\ tagFails) IN
         /\ MayFail(fails)
         /\ IF id = "error" /\ ~aws THEN NoLicenseKey(r)
            ELSE LET fromTag == aws /\ tagged /\ ~tagFails IN
                 request' = [request EXCEPT
                    ![r].id = id, ![r].faulty = @ \/ fails,
                    ![r].key = IF fromTag THEN TagKey ELSE NoKey,
                    ![r].pc = IF fromTag THEN "complete" ELSE "file"]
  BY DEF Identify
<1> DEFINE aws == request[r].type = "aws"
           fails == id \in {"error", "empty"} \/ (aws /\ tagged /\ tagFails)
           fromTag == aws /\ tagged /\ ~tagFails
           f == request[r].faulty \/ fails
           k == IF fromTag THEN TagKey ELSE NoKey
           p == IF fromTag THEN "complete" ELSE "file"
           q == [request[r] EXCEPT !.id = id, !.faulty = f, !.key = k, !.pc = p]
<1>2. request[r] \in Request /\ request \in [Requests -> Request] /\ tagged \in BOOLEAN
  BY DEF TypeOK
<1>3. request[r].pc = "identify" /\ UNCHANGED <<keyUnchanged, keyFile, raced>>
  BY DEF Identify
<1>4. id \in {"none", "own", "empty", "error"}
  BY DEF IdentifierAnswers
<1>5. fails \in BOOLEAN /\ fromTag \in BOOLEAN /\ f \in BOOLEAN
  BY <1>2 DEF Request
<1>6. faults' \in 0 .. MaxFaults
  BY <1>1, <1>5, FailureCount
<1>7. CASE id = "error" /\ ~aws
  <2>1. NoLicenseKey(r)
    BY <1>1, <1>7
  <2> QED BY <2>1, <1>3, <1>6, KeylessKinds
<1>8. CASE ~(id = "error" /\ ~aws)
  <2>1. request' = [request EXCEPT ![r] = q]
    BY <1>1, <1>2, <1>8
  <2>2. k \in {TagKey, NoKey} /\ p \in {"complete", "file"}
    OBVIOUS
  <2>3. /\ ~f => ~request[r].faulty /\ ~fails
        /\ ~fails => id = IF HasIdentifier(r) THEN "own" ELSE "none"
        /\ ~fails => (fromTag = (request[r].type = "aws" /\ tagged))
    <3>1. ~fails => id \in {"none", "own"}
      BY <1>4
    <3>2. ~fails => id = IF HasIdentifier(r) THEN "own" ELSE "none"
      BY <3>1 DEF IdentifierAnswers
    <3> QED BY <3>2
  <2>4. \/ fromTag /\ p = "complete" /\ k = TagKey
        \/ ~fromTag /\ p = "file"
    OBVIOUS
  <2> HIDE DEF fails, fromTag, f, k, p
  <2>5. q \in Request
    BY <1>2, <1>4, <1>5, <2>2 DEF Request, Identifiers
  <2>6. /\ q.pc = p /\ q.key = k /\ q.id = id /\ q.faulty = f
        /\ q.goal = request[r].goal /\ q.type = request[r].type
        /\ q.overtaken = request[r].overtaken
    BY <1>2 DEF Request
  <2> HIDE DEF q
  <2>7. Others(r) /\ request'[r] = q
    BY <2>1, <2>5, ReplaceOne
  <2>8. SameErrand(r)
    BY <2>6, <2>7 DEF SameErrand
  <2>9. ~request'[r].faulty =>
           /\ ~request[r].faulty
           /\ request'[r].id = IF HasIdentifier(r) THEN "own" ELSE "none"
           /\ (request'[r].pc = "complete") = (request[r].type = "aws" /\ tagged)
    <3>1. (p = "complete") = fromTag
      BY <2>4, <1>5
    <3> QED BY <3>1, <2>3, <2>6, <2>7
  <2>10. \/ request'[r].pc = "complete" /\ request'[r].key = TagKey
         \/ request'[r].pc = "file"
    BY <2>4, <2>6, <2>7
  <2> QED BY <1>3, <1>6, <2>7, <2>8, <2>9, <2>10
<1> QED BY <1>7, <1>8

\* The key of the file is read, or one is drawn that no file has.
LEMMA ReadKinds ==
    ASSUME TypeOK, NEW r \in Requests, ReadKeyFile(r)
    PROVE  /\ Others(r) /\ SameErrand(r) /\ request[r].pc = "file"
           /\ request'[r].id = request[r].id /\ request'[r].faulty = request[r].faulty
           /\ UNCHANGED <<keyUnchanged, keyFile, faults>>
           /\ \/ /\ keyFile # Absent /\ request'[r].key = keyFile
                 /\ request'[r].pc = "complete"
                 /\ raced' = (raced \/ \E q \in Requests : request[q].pc = "write")
              \/ /\ request'[r].key \in Keys /\ request'[r].pc = "open"
                 /\ raced' = raced
<1>1. request[r] \in Request /\ request \in [Requests -> Request]
  BY DEF TypeOK
<1>2. request[r].pc = "file" /\ UNCHANGED <<keyUnchanged, keyFile, faults>>
  BY DEF ReadKeyFile
<1>3. CASE FileExists
  <2> DEFINE q == [request[r] EXCEPT !.key = keyFile, !.pc = "complete"]
  <2>1. keyFile # Absent /\ keyFile \in Keys \cup {Torn}
    BY <1>3 DEF FileExists, TypeOK
  <2>2. q \in Request
    BY <1>1, <2>1 DEF Request
  <2>3. /\ request' = [request EXCEPT ![r] = q]
        /\ raced' = (raced \/ \E p \in Requests : request[p].pc = "write")
    BY <1>1, <1>3 DEF ReadKeyFile
  <2>4. /\ q.goal = request[r].goal /\ q.type = request[r].type
        /\ q.overtaken = request[r].overtaken
        /\ q.id = request[r].id /\ q.faulty = request[r].faulty
        /\ q.key = keyFile /\ q.pc = "complete"
    BY <1>1 DEF Request
  <2> HIDE DEF q
  <2>5. Others(r) /\ request'[r] = q
    BY <2>2, <2>3, ReplaceOne
  <2> QED BY <1>2, <2>1, <2>3, <2>4, <2>5 DEF SameErrand
<1>4. CASE ~FileExists
  <2>1. PICK k \in Keys \ Drawn :
           request' = [request EXCEPT ![r].key = k, ![r].pc = "open"]
    BY <1>4 DEF ReadKeyFile
  <2> DEFINE q == [request[r] EXCEPT !.key = k, !.pc = "open"]
  <2>2. q \in Request
    BY <1>1 DEF Request
  <2>3. request' = [request EXCEPT ![r] = q] /\ raced' = raced
    BY <1>1, <1>4, <2>1 DEF ReadKeyFile
  <2>4. /\ q.goal = request[r].goal /\ q.type = request[r].type
        /\ q.overtaken = request[r].overtaken
        /\ q.id = request[r].id /\ q.faulty = request[r].faulty
        /\ q.key = k /\ q.pc = "open"
    BY <1>1 DEF Request
  <2> HIDE DEF q
  <2>5. Others(r) /\ request'[r] = q
    BY <2>2, <2>3, ReplaceOne
  <2> QED BY <1>2, <2>3, <2>4, <2>5 DEF SameErrand
<1> QED BY <1>3, <1>4

\* A request that goes on to another place.
LEMMA GotoKinds ==
    ASSUME TypeOK, NEW r \in Requests, Goto(r, "write") \/ Goto(r, "complete")
                                          \/ Goto(r, "addUser")
    PROVE  /\ Others(r) /\ SameErrand(r)
           /\ request'[r].key = request[r].key /\ request'[r].id = request[r].id
           /\ request'[r].faulty = request[r].faulty
           /\ Goto(r, "write") => request'[r].pc = "write"
           /\ Goto(r, "complete") => request'[r].pc = "complete"
           /\ Goto(r, "addUser") => request'[r].pc = "addUser"
<1>1. request[r] \in Request /\ request \in [Requests -> Request]
  BY DEF TypeOK
<1>2. ASSUME NEW p \in {"write", "complete", "addUser"}, Goto(r, p)
      PROVE  /\ Others(r) /\ SameErrand(r)
             /\ request'[r].key = request[r].key /\ request'[r].id = request[r].id
             /\ request'[r].faulty = request[r].faulty
             /\ request'[r].pc = p
  <2> DEFINE q == [request[r] EXCEPT !.pc = p]
  <2>1. q \in Request
    BY <1>1 DEF Request
  <2>2. request' = [request EXCEPT ![r] = q]
    BY <1>1, <1>2 DEF Goto
  <2>3. /\ q.goal = request[r].goal /\ q.type = request[r].type
        /\ q.overtaken = request[r].overtaken
        /\ q.id = request[r].id /\ q.faulty = request[r].faulty
        /\ q.key = request[r].key /\ q.pc = p
    BY <1>1 DEF Request
  <2> HIDE DEF q
  <2>4. Others(r) /\ request'[r] = q
    BY <2>1, <2>2, ReplaceOne
  <2> QED BY <2>3, <2>4 DEF SameErrand
<1> QED BY <1>2

\* What a request that starts, or asks for the key again, finds out about the machine.
LEMMA BeginKinds ==
    ASSUME TypeOK, NEW r \in Requests, NEW goal \in {"start", "refresh", "get-more"},
           Begin(r, goal)
    PROVE  /\ Others(r) /\ request[r].pc = "idle" /\ faults' \in 0 .. MaxFaults
           /\ UNCHANGED <<keyUnchanged, keyFile, raced>>
           /\ request'[r].goal = goal /\ request'[r].overtaken = FALSE
           /\ ~request'[r].faulty => request'[r].type = cloud
           /\ \/ /\ request'[r].pc = "assign" /\ request'[r].type \in Marketplaces
                 /\ request'[r].count > 0
                 /\ ~request'[r].faulty => request'[r].count = InstanceUsers(cloud)
              \/ request'[r].pc = "identify" /\ request'[r].type \notin Marketplaces
<1>1. PICK type \in Guesses, sizeFails \in BOOLEAN :
         LET fails == type # cloud \/ (type \in Marketplaces /\ sizeFails) IN
         /\ MayFail(fails)
         /\ request' = [request EXCEPT ![r] = [Idle EXCEPT
               !.goal = goal, !.type = type, !.faulty = fails,
               !.pc = IF type \in Marketplaces THEN "assign" ELSE "identify",
               !.count = IF type \notin Marketplaces THEN 0
                         ELSE IF sizeFails THEN userLicense ELSE InstanceUsers(type)]]
  BY DEF Begin
<1> DEFINE fails == type # cloud \/ (type \in Marketplaces /\ sizeFails)
           p == IF type \in Marketplaces THEN "assign" ELSE "identify"
           n == IF type \notin Marketplaces THEN 0
                ELSE IF sizeFails THEN userLicense ELSE InstanceUsers(type)
           q == [Idle EXCEPT !.goal = goal, !.type = type, !.faulty = fails, !.pc = p,
                             !.count = n]
<1>2. request[r].pc = "idle" /\ UNCHANGED <<keyUnchanged, keyFile, raced>>
  BY DEF Begin
<1>3. type \in CloudTypes /\ fails \in BOOLEAN
  BY GuessesAreTypes
<1>4. faults' \in 0 .. MaxFaults
  BY <1>1, <1>3, FailureCount
<1>5. InstanceUsers(type) \in Nat /\ InstanceUsers(type) > 0
  BY InstanceUsersType
<1>6. /\ n \in Nat
      /\ type \in Marketplaces => n > 0
      /\ type \in Marketplaces /\ ~fails => n = InstanceUsers(cloud)
  BY <1>5 DEF userLicense
<1>7. ~fails => type = cloud
  OBVIOUS
<1>8. \/ p = "assign" /\ type \in Marketplaces
      \/ p = "identify" /\ type \notin Marketplaces
  OBVIOUS
<1>9. request' = [request EXCEPT ![r] = q]
  BY <1>1
<1> HIDE DEF fails, n, p
<1>10. q \in Request
  BY <1>3, <1>6, <1>8, IdleType DEF Request
<1>11. /\ q.goal = goal /\ q.overtaken = FALSE /\ q.faulty = fails /\ q.type = type
       /\ q.pc = p /\ q.count = n
  BY DEF Idle
<1> HIDE DEF q
<1>12. Others(r) /\ request'[r] = q
  BY <1>9, <1>10, ReplaceOne
<1>13. ~request'[r].faulty => request'[r].type = cloud
  BY <1>7, <1>11, <1>12
<1>14. \/ /\ request'[r].pc = "assign" /\ request'[r].type \in Marketplaces
          /\ request'[r].count > 0
          /\ ~request'[r].faulty => request'[r].count = InstanceUsers(cloud)
       \/ request'[r].pc = "identify" /\ request'[r].type \notin Marketplaces
  BY <1>6, <1>8, <1>11, <1>12
<1> QED BY <1>2, <1>4, <1>11, <1>12, <1>13, <1>14

\* A look-up with nothing failed finds what the licences say; otherwise there is a default.
LEMMA LookUpKinds ==
    ASSUME TypeOK, NEW r \in Requests, LookUp(r)
    PROVE  /\ Others(r) /\ request[r].pc = "complete" /\ request[r].goal # "answer"
           /\ faults' \in 0 .. MaxFaults /\ UNCHANGED <<keyUnchanged, keyFile, raced>>
           /\ \/ Keyless(r)
              \/ /\ SameErrand(r) /\ request'[r].pc = "assign"
                 /\ request'[r].count > 0
                 /\ ~request'[r].faulty =>
                      /\ ~request[r].faulty
                      /\ request'[r].count = IF LicenseKeyOf(r) \in licences
                                             THEN LicensedUsers ELSE userLicense
<1>1. /\ request[r] \in Request /\ request \in [Requests -> Request]
      /\ faults \in 0 .. MaxFaults
  BY DEF TypeOK
<1>2. /\ request[r].pc = "complete" /\ request[r].goal # "answer"
      /\ UNCHANGED <<keyUnchanged, keyFile, raced>>
  BY DEF LookUp
<1>3. CASE request[r].id = "error"
  <2>1. NoLicenseKey(r) /\ faults' = faults
    BY <1>3 DEF LookUp
  <2> QED BY <2>1, <1>1, <1>2, KeylessKinds
<1>4. CASE request[r].id # "error"
  <2>1. PICK fails \in BOOLEAN :
           /\ MayFail(fails)
           /\ request' = [request EXCEPT ![r].pc = "assign", ![r].faulty = @ \/ fails,
                 ![r].count = IF ~fails /\ LicenseKeyOf(r) \in licences
                              THEN LicensedUsers ELSE userLicense]
    BY <1>4 DEF LookUp
  <2> DEFINE f == request[r].faulty \/ fails
             n == IF ~fails /\ LicenseKeyOf(r) \in licences
                  THEN LicensedUsers ELSE userLicense
             q == [request[r] EXCEPT !.pc = "assign", !.faulty = f, !.count = n]
  <2>2. faults' \in 0 .. MaxFaults
    BY <2>1, FailureCount
  <2>3. /\ n \in Nat /\ n > 0
        /\ ~f => /\ ~request[r].faulty
                 /\ n = IF LicenseKeyOf(r) \in licences THEN LicensedUsers ELSE userLicense
    BY Parameters DEF userLicense
  <2>4. f \in BOOLEAN
    BY <1>1 DEF Request
  <2>5. request' = [request EXCEPT ![r] = q]
    BY <1>1, <2>1
  <2> HIDE DEF f, n
  <2>6. q \in Request
    BY <1>1, <2>3, <2>4 DEF Request
  <2>7. /\ q.pc = "assign" /\ q.faulty = f /\ q.count = n
        /\ q.goal = request[r].goal /\ q.type = request[r].type
        /\ q.overtaken = request[r].overtaken
    BY <1>1 DEF Request
  <2> HIDE DEF q
  <2>8. Others(r) /\ request'[r] = q
    BY <2>5, <2>6, ReplaceOne
  <2>9. SameErrand(r)
    BY <2>7, <2>8 DEF SameErrand
  <2> QED BY <1>2, <2>2, <2>3, <2>7, <2>8, <2>9
<1> QED BY <1>3, <1>4

\* The others only learn that they are overtaken.
OvertakesOthers(r) ==
    \A q \in Requests \ {r} :
        /\ request'[q].pc = request[q].pc /\ request'[q].goal = request[q].goal
        /\ request'[q].type = request[q].type /\ request'[q].key = request[q].key
        /\ request'[q].id = request[q].id /\ request'[q].faulty = request[q].faulty
        /\ request'[q].count = request[q].count
        /\ request[q].pc = "assign" => request'[q].overtaken = TRUE

\* What was found comes into force and overtakes what the others have found.
LEMMA AssignKinds ==
    ASSUME TypeOK, NEW r \in Requests, Assign(r)
    PROVE  /\ request' \in [Requests -> Request] /\ request[r].pc = "assign"
           /\ OvertakesOthers(r)
           /\ request'[r].faulty = FALSE
           /\ \/ /\ request[r].goal = "get-more" /\ request'[r].pc = "identify"
                 /\ request'[r].goal = "answer" /\ request'[r].type = cloudType'
              \/ request[r].goal # "get-more" /\ request'[r] = Idle
           /\ up' = TRUE
           /\ cloudType' = IF request[r].goal = "start" THEN request[r].type ELSE cloudType
           /\ licenseUserCount' = request[r].count /\ maxUsers' \in {maxUsers, request[r].count}
           /\ excused' = (request[r].faulty \/ request[r].overtaken)
           /\ best' = IF request[r].faulty THEN best ELSE larger(best, request[r].count)
           /\ highest' = larger(highest, request[r].count)
           /\ machine' = machine /\ keyFile' = keyFile /\ licences' = licences
           /\ userVars' = userVars /\ faults' = faults /\ keysShown' = keysShown
           /\ raced' = raced
<1> DEFINE goal == request[r].goal
           type == IF goal = "start" THEN request[r].type ELSE cloudType
           q0 == IF goal = "get-more"
                 THEN [Idle EXCEPT !.pc = "identify", !.goal = "answer", !.type = type]
                 ELSE Idle
<1>1. request \in [Requests -> Request] /\ cloudType \in CloudTypes
  BY DEF TypeOK
<1>2. request' = [Overtake(r) EXCEPT ![r] = q0]
  BY DEF Assign
<1>3. type \in CloudTypes
  BY <1>1 DEF Request
<1>4. /\ q0 \in Request /\ q0.faulty = FALSE
      /\ \/ goal = "get-more" /\ q0.pc = "identify" /\ q0.goal = "answer" /\ q0.type = type
         \/ goal # "get-more" /\ q0 = Idle
  <2> HIDE DEF type
  <2> QED BY <1>3, IdleType DEF Request, Idle
<1>5. Overtake(r) \in [Requests -> Request]
  <2>1. ASSUME NEW q \in Requests
        PROVE  Overtake(r)[q] \in Request
    <3>1. request[q] \in Request
      BY <1>1
    <3>2. [request[q] EXCEPT !.overtaken = TRUE] \in Request
      BY <3>1 DEF Request
    <3>3. Overtake(r)[q] \in {request[q], [request[q] EXCEPT !.overtaken = TRUE]}
      BY DEF Overtake
    <3> QED BY <3>1, <3>2, <3>3
  <2>2. Overtake(r) = [q \in Requests |-> Overtake(r)[q]]
    BY DEF Overtake
  <2> HIDE DEF Overtake
  <2> QED BY <2>1, <2>2
<1>6. request' \in [Requests -> Request] /\ request'[r] = q0
  <2> HIDE DEF q0
  <2> QED BY <1>2, <1>4, <1>5
<1>7. ASSUME NEW q \in Requests \ {r}
      PROVE  /\ request'[q].pc = request[q].pc /\ request'[q].goal = request[q].goal
             /\ request'[q].type = request[q].type /\ request'[q].key = request[q].key
             /\ request'[q].id = request[q].id /\ request'[q].faulty = request[q].faulty
             /\ request'[q].count = request[q].count
             /\ request[q].pc = "assign" => request'[q].overtaken = TRUE
  <2>1. request'[q] = Overtake(r)[q]
    <3> HIDE DEF q0
    <3> QED BY <1>2, <1>5
  <2>2. request'[q] = IF request[q].pc = "assign"
                      THEN [request[q] EXCEPT !.overtaken = TRUE] ELSE request[q]
    BY <2>1 DEF Overtake
  <2>3. request[q] \in Request
    BY <1>1
  <2> QED BY <2>2, <2>3 DEF Request
<1>8. /\ up' = TRUE /\ cloudType' = type /\ request[r].pc = "assign"
      /\ licenseUserCount' = request[r].count /\ maxUsers' \in {maxUsers, request[r].count}
      /\ excused' = (request[r].faulty \/ request[r].overtaken)
      /\ best' = IF request[r].faulty THEN best ELSE larger(best, request[r].count)
      /\ highest' = larger(highest, request[r].count)
      /\ machine' = machine /\ keyFile' = keyFile /\ licences' = licences
      /\ userVars' = userVars /\ faults' = faults /\ keysShown' = keysShown
      /\ raced' = raced
  BY DEF Assign
<1>9. \/ /\ request[r].goal = "get-more" /\ request'[r].pc = "identify"
         /\ request'[r].goal = "answer" /\ request'[r].type = cloudType'
      \/ request[r].goal # "get-more" /\ request'[r] = Idle
  BY <1>4, <1>6, <1>8
<1>10. request'[r].faulty = FALSE
  BY <1>4, <1>6
<1>11. OvertakesOthers(r)
  BY <1>7 DEF OvertakesOthers
<1> QED BY <1>6, <1>8, <1>9, <1>10, <1>11

\* A request for the key knows the machine as the Context does.
LEMMA AskKinds ==
    ASSUME TypeOK, NEW r \in Requests, AskForKey(r)
    PROVE  /\ Others(r) /\ up /\ request[r].pc = "idle"
           /\ request'[r].pc = "identify" /\ request'[r].goal = "answer"
           /\ request'[r].type = cloudType /\ request'[r].faulty = FALSE
           /\ UNCHANGED <<keyUnchanged, keyFile, faults, raced>>
<1> DEFINE q == [Idle EXCEPT !.pc = "identify", !.goal = "answer", !.type = cloudType]
<1>1. q \in Request
  BY IdleType DEF TypeOK, Request
<1>2. q.pc = "identify" /\ q.goal = "answer" /\ q.type = cloudType /\ q.faulty = FALSE
  BY DEF Idle
<1>3. /\ request' = [request EXCEPT ![r] = q] /\ up /\ request[r].pc = "idle"
      /\ UNCHANGED <<keyUnchanged, keyFile, faults, raced>>
  BY DEF AskForKey
<1> HIDE DEF q
<1>4. Others(r) /\ request'[r] = q
  BY <1>1, <1>3, ReplaceOne
<1> QED BY <1>2, <1>3, <1>4

\* A request that is over.
LEMMA ReturnKinds ==
    ASSUME TypeOK, NEW r \in Requests, Return(r)
    PROVE  Others(r) /\ request'[r] = Idle
<1>1. request' = [request EXCEPT ![r] = Idle]
  BY DEF Return
<1> QED BY <1>1, IdleType, ReplaceOne

\* The key that is shown has a value and an identifier.
LEMMA AnswerKinds ==
    ASSUME TypeOK, NEW r \in Requests, Answer(r)
    PROVE  /\ Others(r) /\ request'[r] = Idle
           /\ request[r].pc = "complete" /\ request[r].goal = "answer"
           /\ \/ UNCHANGED keysShown
              \/ /\ LicenseKeyOf(r) \in LicenseKey
                 /\ answered' = answered \cup {LicenseKeyOf(r)}
                 /\ \/ shown' = shown
                    \/ /\ ~request[r].faulty /\ cloudType = cloud
                       /\ shown' = shown \cup {LicenseKeyOf(r)}
           /\ UNCHANGED <<machine, context, keyFile, licences, userVars, faults, counts, raced>>
<1>1. /\ request[r].pc = "complete" /\ request[r].goal = "answer" /\ Return(r)
      /\ UNCHANGED <<machine, context, keyFile, licences, userVars, faults, counts, raced>>
  BY DEF Answer
<1>2. Others(r) /\ request'[r] = Idle
  BY <1>1, ReturnKinds
<1>3. request[r].id # "error" => LicenseKeyOf(r) \in LicenseKey
  <2>1. request[r] \in Request /\ request[r].key # NoKey
    BY <1>1 DEF TypeOK
  <2>2. request[r].key \in Keys \cup {TagKey, Torn} /\ request[r].id \in Identifiers \cup {"error"}
    BY <2>1 DEF Request
  <2> QED BY <2>2 DEF LicenseKeyOf, LicenseKey
<1>4. \/ UNCHANGED keysShown
      \/ /\ request[r].id # "error"
         /\ answered' = answered \cup {LicenseKeyOf(r)}
         /\ \/ shown' = shown
            \/ /\ ~request[r].faulty /\ cloudType = cloud
               /\ shown' = shown \cup {LicenseKeyOf(r)}
  BY DEF Answer
<1> QED BY <1>1, <1>2, <1>3, <1>4

\* The license is left when a request to add a user is let through.
LEMMA CheckKinds ==
    ASSUME TypeOK, NEW r \in Requests, CheckLicence(r)
    PROVE  /\ Others(r) /\ SameErrand(r) /\ up /\ request[r].pc = "idle"
           /\ request'[r].pc = "addUser"
           /\ users < licenseUserCount \/ users < maxUsers
           /\ UNCHANGED <<keyUnchanged, keyFile, faults, raced>>
<1>1. /\ Goto(r, "addUser") /\ up /\ request[r].pc = "idle"
      /\ UNCHANGED <<keyUnchanged, keyFile, faults, raced>>
      /\ users < licenseUserCount \/ users < maxUsers
  BY DEF CheckLicence, LicenceLeft
<1>2. Others(r) /\ SameErrand(r) /\ request'[r].pc = "addUser"
  BY <1>1, GotoKinds
<1> QED BY <1>1, <1>2

\* A user is added, unless the login is taken.
LEMMA AddKinds ==
    ASSUME TypeOK, NEW r \in Requests, AddUser(r)
    PROVE  /\ Others(r) /\ request'[r] = Idle /\ request[r].pc = "addUser"
           /\ users' \in {users, users + 1}
           /\ UNCHANGED <<machine, context, keyFile, licences, external, faults, keysShown,
                          counts, raced>>
<1>1. /\ Return(r) /\ request[r].pc = "addUser" /\ users' \in {users, users + 1}
      /\ UNCHANGED <<machine, context, keyFile, licences, external, faults, keysShown,
                     counts, raced>>
  BY DEF AddUser
<1> QED BY <1>1, ReturnKinds

\* A crash leaves every request at rest.
LEMMA CrashKinds ==
    ASSUME TypeOK, Crash
    PROVE  /\ request' \in [Requests -> Request] /\ \A r \in Requests : request'[r] = Idle
           /\ up' = FALSE /\ cloudType' = "" /\ licenseUserCount' = 0 /\ maxUsers' = 0
           /\ excused' = TRUE
           /\ UNCHANGED <<machine, keyFile, licences, userVars, faults, keysShown, best,
                          highest, raced>>
BY IdleType DEF Crash

\* Starts and refreshes begin in the same way.
LEMMA StartOrRefresh ==
    ASSUME NEW r \in Requests,
           Start(r) \/ Refresh(r, "refresh") \/ Refresh(r, "get-more")
    PROVE  \E goal \in {"start", "refresh", "get-more"} :
              /\ Begin(r, goal) /\ (goal = "start") = ~up
              /\ goal = "start" => \A q \in Requests : request[q].pc = "idle"
<1>1. CASE Start(r)
  <2>1. Begin(r, "start") /\ ~up /\ \A q \in Requests : request[q].pc = "idle"
    BY <1>1 DEF Start
  <2> QED BY <2>1
<1>2. ASSUME NEW goal \in {"refresh", "get-more"}, Refresh(r, goal)
      PROVE  Begin(r, goal) /\ up
  BY <1>2 DEF Refresh
<1> QED BY <1>1, <1>2

-----------------------------------------------------------------------------
(* Types.                                                                  *)

RequestsAreTyped ==
    /\ request \in [Requests -> Request]
    /\ \A r \in Requests :
         /\ request[r].pc = "complete" => request[r].key # NoKey
         /\ request[r].pc \in {"open", "write"} => request[r].key \in Keys

StateIsTyped ==
    /\ cloud \in CloudTypes /\ tagged \in BOOLEAN
    /\ up \in BOOLEAN /\ cloudType \in CloudTypes /\ licenseUserCount \in Nat /\ maxUsers \in Nat
    /\ licences \subseteq LicenseKey
    /\ users \in Nat /\ external \in 0 .. MaxExternal
    /\ shown \subseteq answered /\ answered \subseteq LicenseKey
    /\ best \in Nat /\ highest \in Nat /\ excused \in BOOLEAN

FilesAreTyped ==
    keyFile \in Keys \cup {Absent, Torn} /\ raced \in BOOLEAN /\ faults \in 0 .. MaxFaults

\* The type invariant in three parts, and the same of the next state.
LEMMA TypeParts == TypeOK <=> StateIsTyped /\ FilesAreTyped /\ RequestsAreTyped
BY DEF TypeOK, StateIsTyped, FilesAreTyped, RequestsAreTyped

LEMMA TypePartsThen == TypeOK' <=> StateIsTyped' /\ FilesAreTyped' /\ RequestsAreTyped'
BY DEF TypeOK, StateIsTyped, FilesAreTyped, RequestsAreTyped

\* Requests keep their types when the one that moves has a key where it needs one.
LEMMA RequestsStayTyped ==
    ASSUME TypeOK, NEW r \in Requests, Others(r),
           request'[r].pc = "complete" => request'[r].key # NoKey,
           request'[r].pc \in {"open", "write"} => request'[r].key \in Keys
    PROVE  RequestsAreTyped'
<1>1. \A q \in Requests : request'[q] = request[q] \/ q = r
  BY DEF Others
<1>2. RequestsAreTyped
  BY TypeParts
<1> QED BY <1>1, <1>2 DEF RequestsAreTyped, Others

\* So they do when it goes on without a key.
LEMMA KeylessStaysTyped ==
    ASSUME TypeOK, NEW r \in Requests, Others(r), Keyless(r)
    PROVE  RequestsAreTyped'
<1>1. request'[r].pc \in {"idle", "assign"}
  BY IdleType DEF Keyless
<1> QED BY <1>1, RequestsStayTyped

\* What most steps of a look-up leave alone keeps its type.
LEMMA UnchangedStaysTyped ==
    ASSUME TypeOK, UNCHANGED keyUnchanged
    PROVE  StateIsTyped'
<1>1. StateIsTyped
  BY TypeParts
<1> QED BY <1>1 DEF StateIsTyped, keyUnchanged, machine, context, userVars, keysShown, counts

\* Every step keeps the types.
LEMMA TypesAreKept ==
    ASSUME TypeOK, [Next]_vars
    PROVE  TypeOK'
<1>0. /\ StateIsTyped /\ FilesAreTyped /\ RequestsAreTyped
      /\ \A r \in Requests : request[r] \in Request
  BY TypeParts DEF RequestsAreTyped
<1>1. ASSUME NEW r \in Requests, Identify(r)
      PROVE  TypeOK'
  <2>1. /\ Others(r) /\ faults' \in 0 .. MaxFaults
        /\ UNCHANGED <<keyUnchanged, keyFile, raced>>
        /\ \/ Keyless(r)
           \/ request'[r].pc = "complete" /\ request'[r].key = TagKey
           \/ request'[r].pc = "file"
    BY <1>1, IdentifyKinds
  <2>2. RequestsAreTyped'
    <3>1. TagKey # NoKey
      BY Sentinels
    <3> QED BY <2>1, <3>1, KeylessStaysTyped, RequestsStayTyped
  <2>3. StateIsTyped' /\ FilesAreTyped'
    BY <1>0, <2>1, UnchangedStaysTyped DEF FilesAreTyped
  <2> QED BY <2>2, <2>3, TypePartsThen
<1>2. ASSUME NEW r \in Requests, ReadKeyFile(r)
      PROVE  TypeOK'
  <2>1. /\ Others(r) /\ UNCHANGED <<keyUnchanged, keyFile, faults>>
        /\ \/ /\ keyFile # Absent /\ request'[r].key = keyFile
              /\ request'[r].pc = "complete"
              /\ raced' = (raced \/ \E q \in Requests : request[q].pc = "write")
           \/ /\ request'[r].key \in Keys /\ request'[r].pc = "open"
              /\ raced' = raced
    BY <1>2, ReadKinds
  <2>2. RequestsAreTyped'
    <3>1. keyFile # NoKey
      BY <1>0, Sentinels DEF FilesAreTyped
    <3> QED BY <2>1, <3>1, RequestsStayTyped
  <2>3. StateIsTyped' /\ FilesAreTyped'
    BY <1>0, <2>1, UnchangedStaysTyped DEF FilesAreTyped
  <2> QED BY <2>2, <2>3, TypePartsThen
<1>3. ASSUME NEW r \in Requests, OpenKeyFile(r) \/ WriteKeyFile(r)
      PROVE  TypeOK'
  <2>1. /\ request[r].pc \in {"open", "write"} /\ UNCHANGED <<keyUnchanged, faults>>
        /\ keyFile' \in {Torn, request[r].key} /\ raced' \in BOOLEAN
        /\ Goto(r, "write") \/ Goto(r, "complete")
    BY <1>0, <1>3 DEF OpenKeyFile, WriteKeyFile, FilesAreTyped
  <2>2. Others(r) /\ request'[r].key = request[r].key /\ request[r].key \in Keys
    BY <1>0, <2>1, GotoKinds DEF RequestsAreTyped
  <2>3. RequestsAreTyped'
    BY <2>2, Sentinels, RequestsStayTyped
  <2>4. StateIsTyped' /\ FilesAreTyped'
    BY <1>0, <2>1, <2>2, UnchangedStaysTyped DEF FilesAreTyped
  <2> QED BY <2>3, <2>4, TypePartsThen
<1>4. ASSUME NEW r \in Requests, KeyFileFails(r)
      PROVE  TypeOK'
  <2>1. NoLicenseKey(r) /\ MayFail(TRUE) /\ UNCHANGED <<keyUnchanged, keyFile, raced>>
    BY <1>4 DEF KeyFileFails
  <2>2. RequestsAreTyped'
    BY <2>1, KeylessKinds, KeylessStaysTyped
  <2>3. StateIsTyped' /\ FilesAreTyped'
    BY <1>0, <2>1, FailureCount, UnchangedStaysTyped DEF FilesAreTyped
  <2> QED BY <2>2, <2>3, TypePartsThen
<1>5. ASSUME NEW r \in Requests,
             Start(r) \/ Refresh(r, "refresh") \/ Refresh(r, "get-more")
      PROVE  TypeOK'
  <2>1. PICK goal \in {"start", "refresh", "get-more"} : Begin(r, goal)
    BY <1>5, StartOrRefresh
  <2>2. /\ Others(r) /\ faults' \in 0 .. MaxFaults
        /\ UNCHANGED <<keyUnchanged, keyFile, raced>>
        /\ request'[r].pc \in {"assign", "identify"}
    BY <2>1, BeginKinds
  <2>3. RequestsAreTyped'
    BY <2>2, RequestsStayTyped
  <2>4. StateIsTyped' /\ FilesAreTyped'
    BY <1>0, <2>2, UnchangedStaysTyped DEF FilesAreTyped
  <2> QED BY <2>3, <2>4, TypePartsThen
<1>6. ASSUME NEW r \in Requests, LookUp(r)
      PROVE  TypeOK'
  <2>1. /\ Others(r) /\ faults' \in 0 .. MaxFaults
        /\ UNCHANGED <<keyUnchanged, keyFile, raced>>
        /\ Keyless(r) \/ request'[r].pc = "assign"
    BY <1>6, LookUpKinds
  <2>2. RequestsAreTyped'
    BY <2>1, KeylessStaysTyped, RequestsStayTyped
  <2>3. StateIsTyped' /\ FilesAreTyped'
    BY <1>0, <2>1, UnchangedStaysTyped DEF FilesAreTyped
  <2> QED BY <2>2, <2>3, TypePartsThen
<1>7. ASSUME NEW r \in Requests, Assign(r)
      PROVE  TypeOK'
  <2> DEFINE n == request[r].count
  <2>1. /\ request' \in [Requests -> Request] /\ OvertakesOthers(r)
        /\ request'[r].pc = "identify" \/ request'[r] = Idle
        /\ up' = TRUE
        /\ cloudType' = IF request[r].goal = "start" THEN request[r].type ELSE cloudType
        /\ licenseUserCount' = n /\ maxUsers' \in {maxUsers, n}
        /\ excused' = (request[r].faulty \/ request[r].overtaken)
        /\ best' = IF request[r].faulty THEN best ELSE larger(best, n)
        /\ highest' = larger(highest, n)
        /\ machine' = machine /\ keyFile' = keyFile /\ licences' = licences
        /\ userVars' = userVars /\ faults' = faults /\ keysShown' = keysShown
        /\ raced' = raced
    BY <1>7, AssignKinds
  <2>2. n \in Nat /\ request[r].type \in CloudTypes
    BY <1>0 DEF Request
  <2>3. RequestsAreTyped'
    <3>1. request'[r].pc \notin {"complete", "open", "write"}
      BY <2>1, IdleType
    <3> QED BY <1>0, <2>1, <3>1 DEF RequestsAreTyped, OvertakesOthers
  <2>4. best' \in Nat /\ highest' \in Nat /\ excused' \in BOOLEAN
    <3>1. larger(best, n) \in Nat /\ larger(highest, n) \in Nat
      BY <1>0, <2>2 DEF StateIsTyped, larger
    <3>2. request[r].faulty \in BOOLEAN /\ request[r].overtaken \in BOOLEAN
      BY <1>0 DEF Request
    <3> QED BY <1>0, <2>1, <3>1, <3>2 DEF StateIsTyped
  <2>5. cloudType' \in CloudTypes /\ licenseUserCount' \in Nat /\ maxUsers' \in Nat
    BY <1>0, <2>1, <2>2 DEF StateIsTyped
  <2>6. StateIsTyped'
    <3> HIDE DEF n
    <3> QED BY <1>0, <2>1, <2>4, <2>5 DEF StateIsTyped, machine, userVars, keysShown
  <2>7. FilesAreTyped'
    BY <1>0, <2>1 DEF FilesAreTyped
  <2> QED BY <2>3, <2>6, <2>7, TypePartsThen
<1>8. ASSUME NEW r \in Requests, AskForKey(r)
      PROVE  TypeOK'
  <2>1. /\ Others(r) /\ request'[r].pc = "identify"
        /\ UNCHANGED <<keyUnchanged, keyFile, faults, raced>>
    BY <1>8, AskKinds
  <2>2. StateIsTyped' /\ FilesAreTyped'
    BY <1>0, <2>1, UnchangedStaysTyped DEF FilesAreTyped
  <2> QED BY <2>1, <2>2, RequestsStayTyped, TypePartsThen
<1>9. ASSUME NEW r \in Requests, Answer(r)
      PROVE  TypeOK'
  <2>1. /\ Others(r) /\ request'[r] = Idle
        /\ \/ UNCHANGED keysShown
           \/ /\ LicenseKeyOf(r) \in LicenseKey
              /\ answered' = answered \cup {LicenseKeyOf(r)}
              /\ shown' \in {shown, shown \cup {LicenseKeyOf(r)}}
        /\ UNCHANGED <<machine, context, keyFile, licences, userVars, faults, counts, raced>>
    <3> HIDE DEF LicenseKeyOf, LicenseKey
    <3> QED BY <1>9, AnswerKinds
  <2>2. RequestsAreTyped'
    BY <2>1, IdleType, RequestsStayTyped
  <2>3. shown' \subseteq answered' /\ answered' \subseteq LicenseKey
    BY <1>0, <2>1 DEF StateIsTyped, keysShown
  <2>4. StateIsTyped'
    BY <1>0, <2>1, <2>3 DEF StateIsTyped, machine, context, userVars, counts
  <2>5. FilesAreTyped'
    BY <1>0, <2>1 DEF FilesAreTyped
  <2> QED BY <2>2, <2>4, <2>5, TypePartsThen
<1>10. ASSUME NEW r \in Requests, CheckLicence(r)
      PROVE  TypeOK'
  <2>1. /\ Others(r) /\ request'[r].pc = "addUser"
        /\ UNCHANGED <<keyUnchanged, keyFile, faults, raced>>
    BY <1>10, CheckKinds
  <2>2. StateIsTyped' /\ FilesAreTyped'
    BY <1>0, <2>1, UnchangedStaysTyped DEF FilesAreTyped
  <2> QED BY <2>1, <2>2, RequestsStayTyped, TypePartsThen
<1>11. ASSUME NEW r \in Requests, AddUser(r)
      PROVE  TypeOK'
  <2>1. /\ Others(r) /\ request'[r] = Idle /\ users' \in {users, users + 1}
        /\ UNCHANGED <<machine, context, keyFile, licences, external, faults, keysShown,
                       counts, raced>>
    BY <1>11, AddKinds
  <2>2. RequestsAreTyped'
    BY <2>1, IdleType, RequestsStayTyped
  <2>3. StateIsTyped'
    BY <1>0, <2>1 DEF StateIsTyped, machine, context, keysShown, counts
  <2>4. FilesAreTyped'
    BY <1>0, <2>1 DEF FilesAreTyped
  <2> QED BY <2>2, <2>3, <2>4, TypePartsThen
<1>12. ASSUME NEW key \in answered, BuyLicence(key)
      PROVE  TypeOK'
  <2>1. /\ licences' = licences \cup {key}
        /\ UNCHANGED <<machine, context, keyFile, userVars, request, faults, keysShown,
                       counts, raced>>
    BY <1>12 DEF BuyLicence
  <2>2. StateIsTyped'
    BY <1>0, <2>1 DEF StateIsTyped, machine, context, userVars, keysShown, counts
  <2>3. FilesAreTyped' /\ RequestsAreTyped'
    BY <1>0, <2>1 DEF FilesAreTyped, RequestsAreTyped
  <2> QED BY <2>2, <2>3, TypePartsThen
<1>13. CASE ExternalLogin \/ DeleteUser
  <2>1. /\ users' \in Nat /\ external' \in 0 .. MaxExternal
        /\ UNCHANGED <<machine, context, keyFile, licences, request, faults, keysShown,
                       counts, raced>>
    BY <1>0, <1>13, Parameters DEF ExternalLogin, DeleteUser, StateIsTyped
  <2>2. StateIsTyped'
    BY <1>0, <2>1 DEF StateIsTyped, machine, context, keysShown, counts
  <2>3. FilesAreTyped' /\ RequestsAreTyped'
    BY <1>0, <2>1 DEF FilesAreTyped, RequestsAreTyped
  <2> QED BY <2>2, <2>3, TypePartsThen
<1>14. CASE Crash
  <2>1. /\ request' \in [Requests -> Request] /\ \A r \in Requests : request'[r] = Idle
        /\ up' = FALSE /\ cloudType' = "" /\ licenseUserCount' = 0 /\ maxUsers' = 0
        /\ excused' = TRUE
        /\ UNCHANGED <<machine, keyFile, licences, userVars, faults, keysShown, best,
                       highest, raced>>
    BY <1>14, CrashKinds
  <2>2. StateIsTyped'
    BY <1>0, <2>1 DEF StateIsTyped, machine, userVars, keysShown, CloudTypes
  <2>3. FilesAreTyped' /\ RequestsAreTyped'
    BY <1>0, <2>1, IdleType DEF FilesAreTyped, RequestsAreTyped
  <2> QED BY <2>2, <2>3, TypePartsThen
<1>15. CASE UNCHANGED vars
  BY <1>15 DEF vars, machine, context, userVars, keysShown, counts, TypeOK, LicenseKeyOf
<1> QED
  BY <1>1, <1>2, <1>3, <1>4, <1>5, <1>6, <1>7, <1>8, <1>9, <1>10, <1>11, <1>12, <1>13,
     <1>14, <1>15 DEF Next, KeyStep, LicenceStep, UserStep

\* The types hold at the start.
LEMMA InitTypes == Init => TypeOK
<1> SUFFICES ASSUME Init PROVE TypeOK
  OBVIOUS
<1>1. cloud \in CloudTypes /\ tagged \in BOOLEAN
  BY Parameters DEF Init
<1>2. 0 \in 0 .. MaxExternal /\ 0 \in 0 .. MaxFaults
  <2>1. MaxExternal \in Nat /\ MaxFaults \in Nat
    BY Parameters
  <2> QED BY <2>1
<1>3. StateIsTyped
  BY <1>1, <1>2 DEF Init, StateIsTyped, CloudTypes
<1>4. FilesAreTyped
  BY <1>2 DEF Init, FilesAreTyped
<1>5. RequestsAreTyped
  BY IdleType DEF Init, RequestsAreTyped
<1> QED BY <1>3, <1>4, <1>5, TypeParts

\* The state keeps its types, and a request that completes a licence key has one.
THEOREM LicensingTypes == Spec => []TypeOK
<1>1. Init => TypeOK
  BY InitTypes
<1>2. TypeOK /\ [Next]_vars => TypeOK'
  BY TypesAreKept
<1> QED BY <1>1, <1>2, PTL DEF Spec

-----------------------------------------------------------------------------
(* What the requests know of the machine.                                  *)

\* What GoalsAreSound says of one request.
GoalIsSound(r) ==
    /\ request[r].pc = "idle" => request[r].goal = "refresh"
    /\ request[r].pc # "idle" =>
         /\ (request[r].goal = "start") = ~up
         /\ request[r].goal = "answer" => request[r].type = cloudType
         /\ request[r].goal # "answer" /\ request[r].pc # "addUser" =>
              /\ request[r].pc # "assign" => request[r].type \notin Marketplaces
              /\ ~request[r].faulty => request[r].type = cloud

\* GoalsAreSound request by request, and the same of the next state.
LEMMA GoalParts ==
    GoalsAreSound <=>
      /\ tagged => cloud = "aws"
      /\ \A r \in Requests : GoalIsSound(r)
      /\ \A r \in Requests : request[r].pc # "idle" /\ request[r].goal = "start" =>
           \A q \in Requests \ {r} : request[q].pc = "idle"
BY DEF GoalsAreSound, GoalIsSound

LEMMA GoalPartsThen ==
    GoalsAreSound' <=>
      /\ tagged' => cloud' = "aws"
      /\ \A r \in Requests : GoalIsSound(r)'
      /\ \A r \in Requests : request'[r].pc # "idle" /\ request'[r].goal = "start" =>
           \A q \in Requests \ {r} : request'[q].pc = "idle"
BY DEF GoalsAreSound, GoalIsSound

\* One request moves, on a server that stays as it is.
LEMMA OneKeepsGoals ==
    ASSUME TypeOK, GoalsAreSound, NEW r \in Requests, Others(r),
           UNCHANGED <<machine, context>>, GoalIsSound(r)',
           request'[r].pc # "idle" =>
              \/ request[r].pc # "idle"
              \/ up
              \/ \A q \in Requests : request[q].pc = "idle"
    PROVE  GoalsAreSound'
<1>1. \A q \in Requests \ {r} : request'[q] = request[q]
  BY DEF Others
<1>2. UNCHANGED <<cloud, tagged, up, cloudType>>
  BY DEF machine, context
<1>3. \A q \in Requests : GoalIsSound(q)
  BY GoalParts
<1>4. \A q \in Requests : GoalIsSound(q)'
  <2>1. ASSUME NEW q \in Requests \ {r}
        PROVE  GoalIsSound(q)'
    BY <1>1, <1>2, <1>3 DEF GoalIsSound
  <2> QED BY <2>1
<1>5. up \in BOOLEAN
  BY DEF TypeOK
<1>6. ASSUME NEW q \in Requests, request'[q].pc # "idle", request'[q].goal = "start",
             NEW p \in Requests \ {q}
      PROVE  request'[p].pc = "idle"
  <2>1. ~up
    BY <1>2, <1>4, <1>5, <1>6 DEF GoalIsSound
  <2>2. \A o \in Requests : request[o].pc # "idle" =>
           \A n \in Requests \ {o} : request[n].pc = "idle"
    BY <1>3, <1>5, <2>1, GoalParts DEF GoalIsSound
  <2>3. \A o \in Requests : request'[o].pc # "idle" =>
           \/ request[o].pc # "idle"
           \/ \A n \in Requests : request[n].pc = "idle"
    BY <1>1, <2>1
  <2>4. ASSUME request'[p].pc # "idle"
        PROVE  FALSE
    <3>1. CASE q = r
      <4>1. request[p].pc # "idle" /\ p # r
        BY <1>1, <2>4, <3>1
      <4>2. request[q].pc # "idle"
        BY <2>3, <4>1, <1>6
      <4> QED BY <4>1, <4>2, <2>2
    <3>2. CASE q # r
      <4>1. request[q].pc # "idle"
        BY <1>1, <1>6, <3>2
      <4>2. request[p].pc # "idle"
        BY <2>3, <2>4, <4>1
      <4> QED BY <4>1, <4>2, <2>2
    <3> QED BY <3>1, <3>2
  <2> QED BY <2>4
<1> QED BY <1>2, <1>4, <1>6, GoalParts, GoalPartsThen

\* A request that ends, or goes on with its errand, stays sound.
LEMMA ErrandStaysSound ==
    ASSUME TypeOK, GoalsAreSound, NEW r \in Requests, Others(r),
           UNCHANGED <<machine, context>>,
           request[r].pc \notin {"idle", "assign", "addUser"},
           \/ request'[r] = Idle
           \/ Keyless(r)
           \/ /\ SameErrand(r) /\ request'[r].pc \notin {"idle", "addUser"}
              /\ ~request'[r].faulty => ~request[r].faulty
    PROVE  GoalsAreSound'
<1>1. GoalIsSound(r) /\ UNCHANGED <<cloud, up, cloudType>>
  BY GoalParts DEF machine, context
<1>2. CASE request'[r] = Idle
  <2>1. GoalIsSound(r)'
    BY <1>2, IdleType DEF GoalIsSound
  <2> QED BY <2>1, OneKeepsGoals
<1>3. CASE Keyless(r) /\ request'[r] # Idle
  <2>1. /\ request[r].goal # "answer"
        /\ request'[r].pc = "assign" /\ request'[r].goal = request[r].goal
        /\ request'[r].faulty = TRUE
    BY <1>3 DEF Keyless
  <2>2. GoalIsSound(r)'
    BY <1>1, <2>1 DEF GoalIsSound
  <2> QED BY <2>2, OneKeepsGoals
<1>4. CASE /\ SameErrand(r) /\ request'[r].pc \notin {"idle", "addUser"}
           /\ ~request'[r].faulty => ~request[r].faulty
  <2>1. GoalIsSound(r)'
    BY <1>1, <1>4 DEF GoalIsSound, SameErrand
  <2> QED BY <2>1, OneKeepsGoals
<1> QED BY <1>2, <1>3, <1>4

\* Every step keeps the goals sound: a start comes when nobody else is there.
LEMMA GoalsStaySound ==
    ASSUME TypeOK, GoalsAreSound, [Next]_vars
    PROVE  GoalsAreSound'
<1>1. ASSUME NEW r \in Requests, Identify(r)
      PROVE  GoalsAreSound'
  <2>1. /\ Others(r) /\ request[r].pc = "identify" /\ UNCHANGED <<machine, context>>
        /\ \/ Keyless(r)
           \/ /\ SameErrand(r) /\ request'[r].pc \notin {"idle", "addUser"}
              /\ ~request'[r].faulty => ~request[r].faulty
    <3>1. UNCHANGED keyUnchanged
      BY <1>1, IdentifyKinds
    <3> QED BY <1>1, <3>1, IdentifyKinds DEF keyUnchanged
  <2> QED BY <2>1, ErrandStaysSound
<1>2. ASSUME NEW r \in Requests, ReadKeyFile(r) \/ OpenKeyFile(r) \/ WriteKeyFile(r)
      PROVE  GoalsAreSound'
  <2>1. /\ Others(r) /\ SameErrand(r) /\ request[r].pc \in {"file", "open", "write"}
        /\ request'[r].faulty = request[r].faulty
        /\ request'[r].pc \in {"open", "write", "complete"}
        /\ UNCHANGED keyUnchanged
    BY <1>2, ReadKinds, GotoKinds DEF OpenKeyFile, WriteKeyFile
  <2>2. UNCHANGED <<machine, context>>
    BY <2>1 DEF keyUnchanged
  <2> QED BY <2>1, <2>2, ErrandStaysSound
<1>3. ASSUME NEW r \in Requests, KeyFileFails(r)
      PROVE  GoalsAreSound'
  <2>1. /\ NoLicenseKey(r) /\ request[r].pc \in {"file", "open", "write"}
        /\ UNCHANGED <<machine, context>>
    BY <1>3 DEF KeyFileFails, keyUnchanged
  <2> QED BY <2>1, KeylessKinds, ErrandStaysSound
<1>4. ASSUME NEW r \in Requests,
             Start(r) \/ Refresh(r, "refresh") \/ Refresh(r, "get-more")
      PROVE  GoalsAreSound'
  <2>1. PICK goal \in {"start", "refresh", "get-more"} :
           /\ Begin(r, goal) /\ (goal = "start") = ~up
           /\ goal = "start" => \A q \in Requests : request[q].pc = "idle"
    BY <1>4, StartOrRefresh
  <2>2. /\ Others(r) /\ request[r].pc = "idle" /\ UNCHANGED keyUnchanged
        /\ request'[r].goal = goal
        /\ ~request'[r].faulty => request'[r].type = cloud
        /\ \/ request'[r].pc = "assign"
           \/ request'[r].pc = "identify" /\ request'[r].type \notin Marketplaces
    BY <2>1, BeginKinds
  <2>3. UNCHANGED <<machine, context>> /\ UNCHANGED <<cloud, up>>
    BY <2>2 DEF keyUnchanged, machine, context
  <2>4. GoalIsSound(r)'
    BY <2>1, <2>2, <2>3 DEF GoalIsSound
  <2>5. up \in BOOLEAN
    BY DEF TypeOK
  <2> QED BY <2>1, <2>2, <2>3, <2>4, <2>5, OneKeepsGoals
<1>5. ASSUME NEW r \in Requests, LookUp(r)
      PROVE  GoalsAreSound'
  <2>1. /\ Others(r) /\ request[r].pc = "complete" /\ UNCHANGED keyUnchanged
        /\ \/ Keyless(r)
           \/ /\ SameErrand(r) /\ request'[r].pc = "assign"
              /\ ~request'[r].faulty => ~request[r].faulty
    BY <1>5, LookUpKinds
  <2>2. UNCHANGED <<machine, context>>
    BY <2>1 DEF keyUnchanged
  <2> QED BY <2>1, <2>2, ErrandStaysSound
<1>6. ASSUME NEW r \in Requests, Assign(r)
      PROVE  GoalsAreSound'
  <2>0. /\ request[r].pc = "assign" /\ OvertakesOthers(r)
        /\ \/ /\ request[r].goal = "get-more" /\ request'[r].pc = "identify"
              /\ request'[r].goal = "answer" /\ request'[r].type = cloudType'
           \/ request[r].goal # "get-more" /\ request'[r] = Idle
        /\ up' = TRUE
        /\ cloudType' = IF request[r].goal = "start" THEN request[r].type ELSE cloudType
        /\ machine' = machine
    BY <1>6, AssignKinds
  <2>1. \A q \in Requests \ {r} :
           /\ request'[q].pc = request[q].pc /\ request'[q].goal = request[q].goal
           /\ request'[q].type = request[q].type
           /\ request'[q].faulty = request[q].faulty
    BY <2>0 DEF OvertakesOthers
  <2>2. UNCHANGED <<cloud, tagged>> /\ up \in BOOLEAN
    BY <2>0 DEF machine, TypeOK
  <2>3. \A q \in Requests : GoalIsSound(q)
    BY GoalParts
  <2>4. GoalIsSound(r)' /\ request'[r].goal # "start"
    BY <2>0, <2>1, IdleType DEF GoalIsSound
  <2>5. ASSUME NEW q \in Requests \ {r}
        PROVE  GoalIsSound(q)' /\ (request'[q].pc # "idle" => request'[q].goal # "start")
    <3>1. CASE request[q].pc = "idle"
      BY <2>0, <2>1, <2>3, <3>1 DEF GoalIsSound
    <3>2. CASE request[q].pc # "idle"
      <4>1. request[r].goal # "start"
        BY <2>0, <2>1, <3>2, GoalParts
      <4>2. up
        BY <2>0, <2>1, <2>2, <2>3, <4>1 DEF GoalIsSound
      <4>3. request[q].goal # "start"
        BY <2>2, <2>3, <3>2, <4>2 DEF GoalIsSound
      <4> QED BY <2>0, <2>1, <2>2, <2>3, <3>2, <4>1, <4>2, <4>3 DEF GoalIsSound
    <3> QED BY <3>1, <3>2
  <2> QED BY <2>2, <2>4, <2>5, GoalParts, GoalPartsThen
<1>7. ASSUME NEW r \in Requests, AskForKey(r)
      PROVE  GoalsAreSound'
  <2>1. /\ Others(r) /\ up /\ request'[r].pc = "identify" /\ request'[r].goal = "answer"
        /\ request'[r].type = cloudType /\ UNCHANGED keyUnchanged
    BY <1>7, AskKinds
  <2>2. UNCHANGED <<machine, context>> /\ UNCHANGED <<up, cloudType>>
    BY <2>1 DEF keyUnchanged, context
  <2>3. GoalIsSound(r)'
    BY <2>1, <2>2 DEF GoalIsSound
  <2> QED BY <2>1, <2>2, <2>3, OneKeepsGoals
<1>8. ASSUME NEW r \in Requests, Answer(r)
      PROVE  GoalsAreSound'
  BY <1>8, AnswerKinds, ErrandStaysSound
<1>9. ASSUME NEW r \in Requests, CheckLicence(r)
      PROVE  GoalsAreSound'
  <2>1. /\ Others(r) /\ SameErrand(r) /\ up /\ request[r].pc = "idle"
        /\ request'[r].pc = "addUser" /\ UNCHANGED keyUnchanged
    BY <1>9, CheckKinds
  <2>2. UNCHANGED <<machine, context>> /\ UNCHANGED <<up, cloudType>>
    BY <2>1 DEF keyUnchanged, context
  <2>3. request'[r].goal = "refresh"
    BY <2>1, GoalParts DEF SameErrand, GoalIsSound
  <2>4. GoalIsSound(r)'
    BY <2>1, <2>2, <2>3 DEF GoalIsSound
  <2> QED BY <2>1, <2>2, <2>4, OneKeepsGoals
<1>10. ASSUME NEW r \in Requests, AddUser(r)
      PROVE  GoalsAreSound'
  <2>1. Others(r) /\ request'[r] = Idle /\ UNCHANGED <<machine, context>>
    BY <1>10, AddKinds
  <2>2. GoalIsSound(r)'
    BY <2>1, IdleType DEF GoalIsSound
  <2> QED BY <2>1, <2>2, IdleType, OneKeepsGoals
<1>11. CASE Crash
  <2>1. (\A r \in Requests : request'[r] = Idle) /\ UNCHANGED <<cloud, tagged>>
    BY <1>11, CrashKinds DEF machine
  <2>2. \A r \in Requests : GoalIsSound(r)'
    BY <2>1, IdleType DEF GoalIsSound
  <2> QED BY <2>1, <2>2, IdleType, GoalParts, GoalPartsThen
<1>12. CASE \/ \E key \in answered : BuyLicence(key)
            \/ ExternalLogin \/ DeleteUser \/ UNCHANGED vars
  <2>1. UNCHANGED <<cloud, tagged, up, cloudType, request>>
    BY <1>12 DEF BuyLicence, ExternalLogin, DeleteUser, vars, machine, context
  <2> QED BY <2>1 DEF GoalsAreSound
<1> QED
  BY <1>1, <1>2, <1>3, <1>4, <1>5, <1>6, <1>7, <1>8, <1>9, <1>10, <1>11, <1>12
  DEF Next, KeyStep, LicenceStep, UserStep

\* Nobody has a goal at the start.
LEMMA InitGoals == Init => GoalsAreSound
<1> SUFFICES ASSUME Init PROVE GoalsAreSound
  OBVIOUS
<1>1. (\A r \in Requests : request[r] = Idle) /\ (tagged => cloud = "aws")
  BY DEF Init
<1> QED BY <1>1, IdleType DEF GoalsAreSound

\* A start is alone, and the requests know the machine.
LEMMA AlwaysGoals == Spec => []GoalsAreSound
<1>1. Init => GoalsAreSound
  BY InitGoals
<1>2. TypeOK /\ GoalsAreSound /\ [Next]_vars => GoalsAreSound'
  BY GoalsStaySound
<1> QED BY <1>1, <1>2, LicensingTypes, PTL DEF Spec

-----------------------------------------------------------------------------
(* The identifier and the origin of a key.                                 *)

\* What KeysAreSound says of one request.
KeyIsSound(r) ==
    ~request[r].faulty /\ request[r].pc \in {"file", "open", "write", "complete"} =>
        /\ request[r].id = IF HasIdentifier(r) THEN "own" ELSE "none"
        /\ (request[r].pc = "complete" /\ request[r].key = TagKey)
              = (request[r].type = "aws" /\ tagged)

\* KeysAreSound request by request, now and in the next state.
LEMMA KeyParts ==
    /\ KeysAreSound <=> \A r \in Requests : KeyIsSound(r)
    /\ KeysAreSound' <=> \A r \in Requests : KeyIsSound(r)'
BY DEF KeysAreSound, KeyIsSound

\* One request moves, and the tag of the machine stays.
LEMMA OneKeepsKeys ==
    ASSUME KeysAreSound, NEW r \in Requests, Others(r), tagged' = tagged,
           \/ KeyIsSound(r)'
           \/ request'[r].pc \notin {"file", "open", "write", "complete"}
    PROVE  KeysAreSound'
<1>1. KeyIsSound(r)'
  BY DEF KeyIsSound
<1>2. ASSUME NEW q \in Requests \ {r}
      PROVE  KeyIsSound(q)'
  <2>1. request'[q] = request[q] /\ KeyIsSound(q)
    BY KeyParts DEF Others
  <2> QED BY <2>1 DEF KeyIsSound, HasIdentifier
<1> QED BY <1>1, <1>2, KeyParts

\* The steps after which the request has no key to complete.
LEMMA KeylessKeeps ==
    ASSUME KeysAreSound, NEW r \in Requests, Others(r), tagged' = tagged, Keyless(r)
    PROVE  KeysAreSound'
<1>1. request'[r].pc \in {"idle", "assign"}
  BY IdleType DEF Keyless
<1> QED BY <1>1, OneKeepsKeys

\* Every step keeps the origin of the keys sound.
LEMMA KeysStaySound ==
    ASSUME TypeOK, KeysAreSound, [Next]_vars
    PROVE  KeysAreSound'
<1>0. TagKey \notin Keys /\ Torn # TagKey
  BY Sentinels
<1>1. ASSUME NEW r \in Requests, Identify(r)
      PROVE  KeysAreSound'
  <2>1. /\ Others(r) /\ UNCHANGED keyUnchanged
        /\ \/ Keyless(r)
           \/ /\ SameErrand(r)
              /\ ~request'[r].faulty =>
                   /\ request'[r].id = IF HasIdentifier(r) THEN "own" ELSE "none"
                   /\ (request'[r].pc = "complete") = (request[r].type = "aws" /\ tagged)
              /\ \/ request'[r].pc = "complete" /\ request'[r].key = TagKey
                 \/ request'[r].pc = "file"
    BY <1>1, IdentifyKinds
  <2>2. tagged' = tagged
    BY <2>1 DEF keyUnchanged, machine
  <2>3. CASE Keyless(r)
    BY <2>1, <2>2, <2>3, KeylessKeeps
  <2>4. CASE ~Keyless(r)
    <3>1. HasIdentifier(r)' = HasIdentifier(r)
      BY <2>1, <2>4 DEF SameErrand, HasIdentifier
    <3>2. KeyIsSound(r)'
      BY <2>1, <2>2, <2>4, <3>1 DEF KeyIsSound, SameErrand
    <3> QED BY <2>1, <2>2, <3>2, OneKeepsKeys
  <2> QED BY <2>3, <2>4
<1>2. ASSUME NEW r \in Requests, ReadKeyFile(r) \/ OpenKeyFile(r) \/ WriteKeyFile(r)
      PROVE  KeysAreSound'
  <2>1. /\ Others(r) /\ SameErrand(r) /\ request[r].pc \in {"file", "open", "write"}
        /\ request'[r].faulty = request[r].faulty /\ request'[r].id = request[r].id
        /\ UNCHANGED keyUnchanged
    BY <1>2, ReadKinds, GotoKinds DEF OpenKeyFile, WriteKeyFile
  <2>2. request'[r].key # TagKey
    <3>1. CASE ReadKeyFile(r)
      BY <1>0, <3>1, ReadKinds, Sentinels DEF TypeOK
    <3>2. CASE OpenKeyFile(r) \/ WriteKeyFile(r)
      <4>1. request'[r].key = request[r].key /\ request[r].key \in Keys
        BY <3>2, GotoKinds DEF OpenKeyFile, WriteKeyFile, TypeOK
      <4> QED BY <1>0, <4>1
    <3> QED BY <1>2, <3>1, <3>2
  <2>3. tagged' = tagged
    BY <2>1 DEF keyUnchanged, machine
  <2>4. HasIdentifier(r)' = HasIdentifier(r)
    BY <2>1 DEF SameErrand, HasIdentifier
  <2>5. KeyIsSound(r)
    BY KeyParts
  <2>6. KeyIsSound(r)'
    BY <2>1, <2>2, <2>3, <2>4, <2>5 DEF KeyIsSound, SameErrand
  <2> QED BY <2>1, <2>3, <2>6, OneKeepsKeys
<1>3. ASSUME NEW r \in Requests, KeyFileFails(r)
      PROVE  KeysAreSound'
  <2>1. NoLicenseKey(r) /\ tagged' = tagged
    BY <1>3 DEF KeyFileFails, keyUnchanged, machine
  <2> QED BY <2>1, KeylessKinds, KeylessKeeps
<1>4. ASSUME NEW r \in Requests,
             Start(r) \/ Refresh(r, "refresh") \/ Refresh(r, "get-more")
      PROVE  KeysAreSound'
  <2>1. PICK goal \in {"start", "refresh", "get-more"} : Begin(r, goal)
    BY <1>4, StartOrRefresh
  <2>2. /\ Others(r) /\ request'[r].pc \in {"assign", "identify"} /\ UNCHANGED keyUnchanged
    BY <2>1, BeginKinds
  <2>3. tagged' = tagged
    BY <2>2 DEF keyUnchanged, machine
  <2> QED BY <2>2, <2>3, OneKeepsKeys
<1>5. ASSUME NEW r \in Requests, LookUp(r)
      PROVE  KeysAreSound'
  <2>1. /\ Others(r) /\ UNCHANGED keyUnchanged
        /\ Keyless(r) \/ request'[r].pc = "assign"
    BY <1>5, LookUpKinds
  <2>2. tagged' = tagged
    BY <2>1 DEF keyUnchanged, machine
  <2> QED BY <2>1, <2>2, KeylessKeeps, OneKeepsKeys
<1>6. ASSUME NEW r \in Requests, Assign(r)
      PROVE  KeysAreSound'
  <2>1. /\ \A q \in Requests \ {r} :
             /\ request'[q].pc = request[q].pc /\ request'[q].goal = request[q].goal
             /\ request'[q].type = request[q].type /\ request'[q].key = request[q].key
             /\ request'[q].id = request[q].id
             /\ request'[q].faulty = request[q].faulty
    <3>1. OvertakesOthers(r)
      BY <1>6, AssignKinds
    <3> QED BY <3>1 DEF OvertakesOthers
  <2>2. tagged' = tagged
    BY <1>6 DEF Assign, machine
  <2>3. KeyIsSound(r)'
    <3>1. request'[r].pc = "identify" \/ request'[r] = Idle
      BY <1>6, AssignKinds
    <3> QED BY <3>1, IdleType DEF KeyIsSound
  <2>4. ASSUME NEW q \in Requests \ {r}
        PROVE  KeyIsSound(q)'
    <3>1. KeyIsSound(q)
      BY KeyParts
    <3>2. HasIdentifier(q)' = HasIdentifier(q)
      BY <2>1 DEF HasIdentifier
    <3> QED BY <2>1, <2>2, <3>1, <3>2 DEF KeyIsSound
  <2> QED BY <2>3, <2>4, KeyParts
<1>7. ASSUME NEW r \in Requests, AskForKey(r) \/ CheckLicence(r)
      PROVE  KeysAreSound'
  <2>1. Others(r) /\ request'[r].pc \in {"identify", "addUser"} /\ UNCHANGED keyUnchanged
    BY <1>7, AskKinds, CheckKinds
  <2>2. tagged' = tagged
    BY <2>1 DEF keyUnchanged, machine
  <2> QED BY <2>1, <2>2, OneKeepsKeys
<1>8. ASSUME NEW r \in Requests, Answer(r) \/ AddUser(r)
      PROVE  KeysAreSound'
  <2>1. Others(r) /\ request'[r] = Idle /\ UNCHANGED machine
    BY <1>8, AnswerKinds, AddKinds
  <2>2. tagged' = tagged /\ request'[r].pc = "idle"
    BY <2>1, IdleType DEF machine
  <2> QED BY <2>1, <2>2, OneKeepsKeys
<1>9. CASE Crash
  <2>1. \A r \in Requests : request'[r].pc = "idle"
    BY <1>9, CrashKinds, IdleType
  <2> QED BY <2>1 DEF KeysAreSound
<1>10. CASE \/ \E key \in answered : BuyLicence(key)
            \/ ExternalLogin \/ DeleteUser \/ UNCHANGED vars
  <2>1. UNCHANGED <<tagged, request>>
    BY <1>10 DEF BuyLicence, ExternalLogin, DeleteUser, vars, machine
  <2> QED BY <2>1 DEF KeysAreSound, HasIdentifier
<1> QED
  BY <1>1, <1>2, <1>3, <1>4, <1>5, <1>6, <1>7, <1>8, <1>9, <1>10
  DEF Next, KeyStep, LicenceStep, UserStep

\* A key has the identifier and the origin that its request asked for, or a failure.
LEMMA AlwaysKeys == Spec => []KeysAreSound
<1>1. Init => KeysAreSound
  <2> SUFFICES ASSUME Init PROVE KeysAreSound
    OBVIOUS
  <2>1. \A r \in Requests : request[r].pc = "idle"
    BY IdleType DEF Init
  <2> QED BY <2>1 DEF KeysAreSound
<1>2. TypeOK /\ KeysAreSound /\ [Next]_vars => KeysAreSound'
  BY KeysStaySound
<1> QED BY <1>1, <1>2, LicensingTypes, PTL DEF Spec

-----------------------------------------------------------------------------
(* One key file.                                                           *)

\* A step that touches neither the file nor the keys that were shown, in which no request
\* starts to write and one that completes a key has it from the tag or from a whole file.
LEMMA FileIsLeft ==
    ASSUME OneKeyFile, NEW r \in Requests, Others(r),
           keyFile' = keyFile, answered' = answered, raced => raced',
           request'[r].pc # "write",
           ~raced' /\ request'[r].pc = "complete" =>
              \/ request'[r].key = TagKey
              \/ /\ request'[r].key = keyFile
                 /\ \A q \in Requests : request[q].pc # "write"
    PROVE  OneKeyFile'
<1> SUFFICES ASSUME ~raced' PROVE OneKeyFile'
  BY DEF OneKeyFile
<1>1. ~raced /\ \A q \in Requests \ {r} : request'[q] = request[q]
  BY DEF Others
<1>2. \A q \in Requests : request'[q].pc = "complete" => request'[q].key \in {TagKey, keyFile}
  BY <1>1 DEF OneKeyFile
<1>3. \A key \in answered : key.key \in {TagKey, keyFile}
  BY <1>1 DEF OneKeyFile
<1>4. ASSUME NEW q \in Requests, request'[q].pc = "write"
      PROVE  /\ keyFile = Torn
             /\ \A p \in Requests \ {q} : request'[p].pc # "write"
             /\ \A p \in Requests : request'[p].pc = "complete" => request'[p].key = TagKey
             /\ \A key \in answered : key.key = TagKey
  <2>1. q # r /\ request[q].pc = "write"
    BY <1>1, <1>4
  <2>2. /\ keyFile = Torn
        /\ \A p \in Requests \ {q} : request[p].pc # "write"
        /\ \A p \in Requests : request[p].pc = "complete" => request[p].key = TagKey
        /\ \A key \in answered : key.key = TagKey
    BY <1>1, <2>1 DEF OneKeyFile
  <2> QED BY <1>1, <2>1, <2>2
<1> QED BY <1>2, <1>3, <1>4 DEF OneKeyFile

\* Without a race, every step keeps the one key of the file.
LEMMA KeyFileStaysOne ==
    ASSUME TypeOK, OneKeyFile, [Next]_vars
    PROVE  OneKeyFile'
<1>0. /\ raced \in BOOLEAN /\ Absent \notin Keys \cup {TagKey, Torn, NoKey}
      /\ \A r \in Requests : request[r] \in Request /\ request[r].key # Absent
  BY Sentinels DEF TypeOK, Request
<1>1. ASSUME NEW r \in Requests, Identify(r)
      PROVE  OneKeyFile'
  <2>1. /\ Others(r) /\ UNCHANGED <<keyUnchanged, keyFile, raced>>
        /\ \/ Keyless(r)
           \/ request'[r].pc = "complete" /\ request'[r].key = TagKey
           \/ request'[r].pc = "file"
    BY <1>1, IdentifyKinds
  <2>2. Keyless(r) => request'[r].pc \in {"idle", "assign"}
    BY IdleType DEF Keyless
  <2>3. answered' = answered
    BY <2>1 DEF keyUnchanged, keysShown
  <2> QED BY <2>1, <2>2, <2>3, FileIsLeft
<1>2. ASSUME NEW r \in Requests, ReadKeyFile(r)
      PROVE  OneKeyFile'
  <2>1. /\ Others(r) /\ UNCHANGED <<keyUnchanged, keyFile>>
        /\ \/ /\ request'[r].key = keyFile /\ request'[r].pc = "complete"
              /\ raced' = (raced \/ \E q \in Requests : request[q].pc = "write")
           \/ request'[r].pc = "open" /\ raced' = raced
    BY <1>2, ReadKinds
  <2>2. answered' = answered
    BY <2>1 DEF keyUnchanged, keysShown
  <2>3. raced => raced'
    BY <1>0, <2>1
  <2>4. ~raced' /\ request'[r].pc = "complete" =>
           request'[r].key = keyFile /\ \A q \in Requests : request[q].pc # "write"
    BY <1>0, <2>1
  <2> QED BY <2>1, <2>2, <2>3, <2>4, FileIsLeft
<1>3. ASSUME NEW r \in Requests, OpenKeyFile(r)
      PROVE  OneKeyFile'
  <2> SUFFICES ASSUME ~raced' PROVE OneKeyFile'
    BY DEF OneKeyFile
  <2>1. /\ Others(r) /\ request'[r].pc = "write" /\ keyFile' = Torn
        /\ raced' = (raced \/ keyFile # Absent) /\ UNCHANGED keyUnchanged
    BY <1>3, GotoKinds DEF OpenKeyFile, FileExists
  <2>2. /\ ~raced /\ keyFile = Absent /\ keyFile # Torn /\ answered' = answered
        /\ \A q \in Requests \ {r} : request'[q] = request[q]
    BY <1>0, <1>3, <2>1 DEF keyUnchanged, keysShown, Others
  <2>3. \A q \in Requests : request'[q].pc = "complete" => request'[q].key = TagKey
    BY <1>0, <2>1, <2>2 DEF OneKeyFile
  <2>4. \A key \in answered : key.key = TagKey
    <3>1. \A key \in answered : key.key \in {TagKey, keyFile} /\ key \in LicenseKey
      BY <2>2 DEF OneKeyFile, TypeOK
    <3>2. \A key \in LicenseKey : key.key # Absent
      BY <1>0 DEF LicenseKey
    <3> QED BY <2>2, <3>1, <3>2
  <2>5. \A q \in Requests \ {r} : request'[q].pc # "write"
    BY <2>2 DEF OneKeyFile
  <2> QED BY <2>1, <2>2, <2>3, <2>4, <2>5 DEF OneKeyFile
<1>4. ASSUME NEW r \in Requests, WriteKeyFile(r)
      PROVE  OneKeyFile'
  <2> SUFFICES ASSUME ~raced' PROVE OneKeyFile'
    BY DEF OneKeyFile
  <2>1. /\ Others(r) /\ request[r].pc = "write" /\ request'[r].pc = "complete"
        /\ request'[r].key = request[r].key /\ keyFile' = request[r].key
        /\ raced' = raced /\ UNCHANGED keyUnchanged
    BY <1>4, GotoKinds DEF WriteKeyFile
  <2>2. ~raced /\ answered' = answered /\ \A q \in Requests \ {r} : request'[q] = request[q]
    BY <1>4, <2>1 DEF keyUnchanged, keysShown, Others
  <2>3. /\ \A q \in Requests \ {r} : request[q].pc # "write"
        /\ \A q \in Requests : request[q].pc = "complete" => request[q].key = TagKey
        /\ \A key \in answered : key.key = TagKey
    BY <2>1, <2>2 DEF OneKeyFile
  <2>4. \A q \in Requests : request'[q].pc # "write"
    BY <2>1, <2>2, <2>3
  <2>5. \A q \in Requests : request'[q].pc = "complete" => request'[q].key \in {TagKey, keyFile'}
    BY <2>1, <2>2, <2>3
  <2> QED BY <2>2, <2>3, <2>4, <2>5 DEF OneKeyFile
<1>5. ASSUME NEW r \in Requests, KeyFileFails(r)
      PROVE  OneKeyFile'
  <2>1. NoLicenseKey(r) /\ UNCHANGED <<keyUnchanged, keyFile, raced>>
    BY <1>5 DEF KeyFileFails
  <2>2. Others(r) /\ request'[r].pc \in {"idle", "assign"}
    BY <2>1, KeylessKinds, IdleType DEF Keyless
  <2>3. answered' = answered
    BY <2>1 DEF keyUnchanged, keysShown
  <2> QED BY <2>1, <2>2, <2>3, FileIsLeft
<1>6. ASSUME NEW r \in Requests,
             Start(r) \/ Refresh(r, "refresh") \/ Refresh(r, "get-more")
      PROVE  OneKeyFile'
  <2>1. PICK goal \in {"start", "refresh", "get-more"} : Begin(r, goal)
    BY <1>6, StartOrRefresh
  <2>2. /\ Others(r) /\ request'[r].pc \in {"assign", "identify"}
        /\ UNCHANGED <<keyUnchanged, keyFile, raced>>
    BY <2>1, BeginKinds
  <2>3. answered' = answered
    BY <2>2 DEF keyUnchanged, keysShown
  <2> QED BY <2>2, <2>3, FileIsLeft
<1>7. ASSUME NEW r \in Requests, LookUp(r)
      PROVE  OneKeyFile'
  <2>1. /\ Others(r) /\ UNCHANGED <<keyUnchanged, keyFile, raced>>
        /\ Keyless(r) \/ request'[r].pc = "assign"
    BY <1>7, LookUpKinds
  <2>2. request'[r].pc \in {"idle", "assign"}
    BY <2>1, IdleType DEF Keyless
  <2>3. answered' = answered
    BY <2>1 DEF keyUnchanged, keysShown
  <2> QED BY <2>1, <2>2, <2>3, FileIsLeft
<1>8. ASSUME NEW r \in Requests, Assign(r)
      PROVE  OneKeyFile'
  <2>0. /\ OvertakesOthers(r)
        /\ request'[r].pc = "identify" \/ request'[r] = Idle
        /\ keyFile' = keyFile /\ keysShown' = keysShown /\ raced' = raced
    BY <1>8, AssignKinds
  <2>1. \A q \in Requests \ {r} :
           request'[q].pc = request[q].pc /\ request'[q].key = request[q].key
    BY <2>0 DEF OvertakesOthers
  <2>2. answered' = answered /\ request'[r].pc \notin {"complete", "write"}
    BY <2>0, IdleType DEF keysShown
  <2> QED BY <2>0, <2>1, <2>2 DEF OneKeyFile
<1>9. ASSUME NEW r \in Requests, AskForKey(r) \/ CheckLicence(r)
      PROVE  OneKeyFile'
  <2>1. /\ Others(r) /\ request'[r].pc \in {"identify", "addUser"}
        /\ UNCHANGED <<keyUnchanged, keyFile, raced>>
    BY <1>9, AskKinds, CheckKinds
  <2>2. answered' = answered
    BY <2>1 DEF keyUnchanged, keysShown
  <2> QED BY <2>1, <2>2, FileIsLeft
<1>10. ASSUME NEW r \in Requests, Answer(r)
      PROVE  OneKeyFile'
  <2> SUFFICES ASSUME ~raced' PROVE OneKeyFile'
    BY DEF OneKeyFile
  <2>1. /\ Others(r) /\ request'[r] = Idle /\ request[r].pc = "complete"
        /\ answered' = answered \/ answered' = answered \cup {LicenseKeyOf(r)}
        /\ UNCHANGED <<keyFile, raced>> /\ ~raced
    BY <1>10, AnswerKinds DEF keysShown
  <2>2. request'[r].pc = "idle" /\ \A q \in Requests \ {r} : request'[q] = request[q]
    BY <2>1, IdleType DEF Others
  <2>3. LicenseKeyOf(r).key = request[r].key
    BY DEF LicenseKeyOf
  <2>4. request[r].key \in {TagKey, keyFile}
    BY <2>1 DEF OneKeyFile
  <2>5. \A key \in answered' : key.key \in {TagKey, keyFile}
    BY <2>1, <2>3, <2>4 DEF OneKeyFile
  <2>6. ASSUME NEW q \in Requests, request'[q].pc = "write"
        PROVE  /\ keyFile = Torn
               /\ \A p \in Requests \ {q} : request'[p].pc # "write"
               /\ \A p \in Requests : request'[p].pc = "complete" => request'[p].key = TagKey
               /\ \A key \in answered' : key.key = TagKey
    <3>1. q # r /\ request[q].pc = "write"
      BY <2>2, <2>6
    <3>2. /\ keyFile = Torn
          /\ \A p \in Requests \ {q} : request[p].pc # "write"
          /\ \A p \in Requests : request[p].pc = "complete" => request[p].key = TagKey
          /\ \A key \in answered : key.key = TagKey
      BY <2>1, <3>1 DEF OneKeyFile
    <3> QED BY <2>1, <2>2, <2>3, <3>1, <3>2
  <2>7. \A q \in Requests : request'[q].pc = "complete" => request'[q].key \in {TagKey, keyFile}
    BY <2>1, <2>2 DEF OneKeyFile
  <2> QED BY <2>1, <2>5, <2>6, <2>7 DEF OneKeyFile
<1>11. ASSUME NEW r \in Requests, AddUser(r)
      PROVE  OneKeyFile'
  <2>1. /\ Others(r) /\ request'[r] = Idle /\ UNCHANGED <<keyFile, keysShown, raced>>
    BY <1>11, AddKinds
  <2>2. answered' = answered /\ request'[r].pc = "idle"
    BY <2>1, IdleType DEF keysShown
  <2> QED BY <2>1, <2>2, FileIsLeft
<1>12. CASE Crash
  <2>1. /\ \A r \in Requests : request'[r].pc = "idle"
        /\ UNCHANGED <<keyFile, keysShown, raced>>
    BY <1>12, CrashKinds, IdleType
  <2>2. answered' = answered
    BY <2>1 DEF keysShown
  <2> QED BY <2>1, <2>2 DEF OneKeyFile
<1>13. CASE \/ \E key \in answered : BuyLicence(key)
            \/ ExternalLogin \/ DeleteUser \/ UNCHANGED vars
  <2>1. UNCHANGED <<keyFile, request, answered, raced>>
    BY <1>13 DEF BuyLicence, ExternalLogin, DeleteUser, vars, keysShown
  <2> QED BY <2>1 DEF OneKeyFile
<1> QED
  BY <1>1, <1>2, <1>3, <1>4, <1>5, <1>6, <1>7, <1>8, <1>9, <1>10, <1>11, <1>12, <1>13
  DEF Next, KeyStep, LicenceStep, UserStep

\* Every key comes from the tag or is the one in the file.
LEMMA AlwaysOneFile == Spec => []OneKeyFile
<1>1. Init => OneKeyFile
  <2> SUFFICES ASSUME Init PROVE OneKeyFile
    OBVIOUS
  <2>1. (\A r \in Requests : request[r].pc = "idle") /\ answered = {}
    BY IdleType DEF Init
  <2> QED BY <2>1 DEF OneKeyFile
<1>2. TypeOK /\ OneKeyFile /\ [Next]_vars => OneKeyFile'
  BY KeyFileStaysOne
<1> QED BY <1>1, <1>2, LicensingTypes, PTL DEF Spec

-----------------------------------------------------------------------------
(* The key that was shown.                                                 *)

\* A step that adds nothing to the keys that were shown with nothing failed.
LEMMA NothingShown ==
    ASSUME ShownIsSound, UNCHANGED <<cloud, tagged, shown>>
    PROVE  ShownIsSound'
BY DEF ShownIsSound, HasTag

\* The machine and the shown keys change at most by an answer.
LEMMA OnlyAnswersShow ==
    ASSUME TypeOK, [Next]_vars, ~\E r \in Requests : Answer(r)
    PROVE  UNCHANGED <<cloud, tagged, shown>>
<1>1. ASSUME NEW r \in Requests, KeyStep(r)
      PROVE  UNCHANGED <<cloud, tagged, shown>>
  BY <1>1 DEF KeyStep, Identify, ReadKeyFile, OpenKeyFile, WriteKeyFile, KeyFileFails,
              keyUnchanged, machine, keysShown
<1>2. ASSUME NEW r \in Requests, LicenceStep(r), ~Answer(r)
      PROVE  UNCHANGED <<cloud, tagged, shown>>
  BY <1>2 DEF LicenceStep, Start, Refresh, Begin, LookUp, Assign, AskForKey,
              keyUnchanged, machine, keysShown
<1>3. ASSUME NEW r \in Requests, UserStep(r)
      PROVE  UNCHANGED <<cloud, tagged, shown>>
  BY <1>3 DEF UserStep, CheckLicence, AddUser, keyUnchanged, machine, keysShown
<1>4. CASE \/ \E key \in answered : BuyLicence(key)
           \/ ExternalLogin \/ DeleteUser \/ Crash \/ UNCHANGED vars
  BY <1>4 DEF BuyLicence, ExternalLogin, DeleteUser, Crash, vars, machine, keysShown
<1> QED BY <1>1, <1>2, <1>3, <1>4 DEF Next

\* What is shown is sound because the request that shows it did not fail.
LEMMA ShownStaysSound ==
    ASSUME TypeOK, GoalsAreSound, KeysAreSound, ShownIsSound, [Next]_vars
    PROVE  ShownIsSound'
<1>1. ASSUME NEW r \in Requests, Answer(r), ~request[r].faulty, cloudType = cloud,
             shown' = shown \cup {LicenseKeyOf(r)}, UNCHANGED <<cloud, tagged>>
      PROVE  ShownIsSound'
  <2> DEFINE key == LicenseKeyOf(r)
  <2>1. request[r].pc = "complete" /\ request[r].goal = "answer"
    BY <1>1, AnswerKinds
  <2>2. request[r].type = cloud
    BY <1>1, <2>1, GoalParts DEF GoalIsSound
  <2>3. key.key = request[r].key /\ key.id = request[r].id
    BY DEF LicenseKeyOf
  <2>4. KeyIsSound(r)
    BY KeyParts
  <2>5. HasIdentifier(r) <=> cloud \in {"aws", "digitalocean", "gcp"}
    BY <2>1, <2>2 DEF HasIdentifier
  <2>6. key.id = IF cloud \in {"aws", "digitalocean", "gcp"} THEN "own" ELSE "none"
    BY <1>1, <2>1, <2>3, <2>4, <2>5 DEF KeyIsSound
  <2>7. (key.key = TagKey) = HasTag
    BY <1>1, <2>1, <2>2, <2>3, <2>4 DEF KeyIsSound, HasTag
  <2> HIDE DEF key
  <2> DEFINE Sound(k) ==
                /\ (k.key = TagKey) = HasTag
                /\ k.id = IF cloud \in {"aws", "digitalocean", "gcp"} THEN "own" ELSE "none"
  <2>8. Sound(key) /\ \A k \in shown : Sound(k)
    BY <2>6, <2>7 DEF ShownIsSound
  <2>9. \A k \in shown' : Sound(k)
    <3> HIDE DEF Sound
    <3> QED BY <1>1, <2>8 DEF key
  <2>10. HasTag' = HasTag /\ cloud' = cloud
    BY <1>1 DEF HasTag
  <2> QED BY <2>9, <2>10 DEF ShownIsSound
<1>2. ASSUME NEW r \in Requests, Answer(r)
      PROVE  ShownIsSound'
  <2>1. UNCHANGED <<cloud, tagged>>
    BY <1>2 DEF Answer, machine
  <2>2. \/ shown' = shown
        \/ /\ ~request[r].faulty /\ cloudType = cloud
           /\ shown' = shown \cup {LicenseKeyOf(r)}
    BY <1>2 DEF Answer, keysShown
  <2> QED BY <1>1, <1>2, <2>1, <2>2, NothingShown
<1> QED BY <1>2, OnlyAnswersShow, NothingShown

\* Every key that was shown with nothing failed is the key of the machine.
LEMMA AlwaysShown == Spec => []ShownIsSound
<1>1. Init => ShownIsSound
  BY DEF Init, ShownIsSound
<1>2. TypeOK /\ GoalsAreSound /\ KeysAreSound /\ ShownIsSound /\ [Next]_vars => ShownIsSound'
  BY ShownStaysSound
<1> QED BY <1>1, <1>2, LicensingTypes, AlwaysGoals, AlwaysKeys, PTL DEF Spec

\* The key that a look-up without failure uses.
LEMMA LookUpKey ==
    ASSUME TypeOK, GoalsAreSound, KeysAreSound, OneKeyFile, ~raced,
           NEW r \in Requests, request[r].pc = "complete", request[r].goal # "answer",
           ~request[r].faulty
    PROVE  LicenseKeyOf(r) = MachineKey /\ cloud \notin Marketplaces
<1>1. GoalIsSound(r) /\ KeyIsSound(r) /\ cloud \in CloudTypes
  BY GoalParts, KeyParts DEF TypeOK
<1>2. request[r].type = cloud /\ cloud \notin Marketplaces
  BY <1>1 DEF GoalIsSound
<1>3. HasIdentifier(r) <=> cloud \in {"aws", "azure-byol", "digitalocean", "gcp"}
  BY <1>2 DEF HasIdentifier
<1>4. request[r].id = MachineKey.id
  BY <1>1, <1>3 DEF KeyIsSound, MachineKey
<1>5. (request[r].key = TagKey) = HasTag
  BY <1>1, <1>2 DEF KeyIsSound, HasTag
<1>6. request[r].key \in {TagKey, keyFile}
  BY DEF OneKeyFile
<1>7. request[r].key = MachineKey.key
  <2>1. HasTag \in BOOLEAN
    BY DEF HasTag, TypeOK
  <2> QED BY <1>5, <1>6, <2>1 DEF MachineKey
<1> QED BY <1>2, <1>4, <1>7 DEF LicenseKeyOf, MachineKey

\* The sound keys of one file are those that a sound look-up asks for.
LEMMA ShownIsLookedUp ==
    ASSUME TypeOK, GoalsAreSound, KeysAreSound, OneKeyFile, ShownIsSound
    PROVE  ShownKeyIsLookedUp
<1> SUFFICES ASSUME ~raced, cloud # "azure-byol", NEW r \in Requests,
                    request[r].pc = "complete", request[r].goal # "answer",
                    ~request[r].faulty, NEW key \in shown
             PROVE  key = LicenseKeyOf(r)
  BY DEF ShownKeyIsLookedUp
<1>1. LicenseKeyOf(r) = MachineKey
  BY LookUpKey
<1>2. /\ (key.key = TagKey) = HasTag
      /\ key.id = IF cloud \in {"aws", "digitalocean", "gcp"} THEN "own" ELSE "none"
  BY DEF ShownIsSound
<1>3. key \in answered /\ key \in LicenseKey
  BY DEF TypeOK
<1>4. key.key \in {TagKey, keyFile}
  BY <1>3 DEF OneKeyFile
<1>5. key.key = MachineKey.key
  <2>1. HasTag \in BOOLEAN
    BY DEF HasTag, TypeOK
  <2> QED BY <1>2, <1>4, <2>1 DEF MachineKey
<1>6. key.id = MachineKey.id
  BY <1>2 DEF MachineKey
<1>7. key = [key |-> key.key, id |-> key.id]
  BY <1>3 DEF LicenseKey
<1>8. MachineKey = [key |-> MachineKey.key, id |-> MachineKey.id]
  BY DEF MachineKey
<1> QED BY <1>1, <1>5, <1>6, <1>7, <1>8

\* The key that an administrator was shown is the one that every later sound refresh looks
\* up, for any requests, failures and restarts.
THEOREM ShownKeysAreLookedUp == Spec => []ShownKeyIsLookedUp
<1>1. /\ TypeOK /\ GoalsAreSound /\ KeysAreSound /\ OneKeyFile /\ ShownIsSound
      => ShownKeyIsLookedUp
  BY ShownIsLookedUp
<1> QED BY <1>1, LicensingTypes, AlwaysGoals, AlwaysKeys, AlwaysOneFile, AlwaysShown, PTL

-----------------------------------------------------------------------------
(* The licence in force.                                                   *)

LEMMA SoundCountType == TypeOK => SoundCount \in Nat /\ SoundCount > 0
<1>1. InstanceUsers(cloud) \in Nat /\ InstanceUsers(cloud) > 0
  BY InstanceUsersType
<1> QED BY <1>1, Parameters DEF SoundCount, userLicense

\* What would be found depends on the machine, the file and the licences.
LEMMA SameCount ==
    ASSUME UNCHANGED <<cloud, tagged, keyFile, licences>>
    PROVE  SoundCount' = SoundCount
<1>1. MachineKey' = MachineKey
  BY DEF MachineKey, HasTag
<1> QED BY <1>1 DEF SoundCount

\* A larger licence may be found when one is sold, or when the key file is written, which
\* no licence was sold for.
LEMMA CountRises ==
    ASSUME TypeOK, UNCHANGED <<cloud, tagged>>,
           MachineKey \in licences => MachineKey' \in licences'
    PROVE  SoundCount <= SoundCount'
<1>1. InstanceUsers(cloud) \in Nat
  BY InstanceUsersType
<1>2. InstanceUsers(cloud)' = InstanceUsers(cloud)
  BY DEF InstanceUsers
<1>3. LicensedUsers \in Nat /\ LicensedUsers > 3
  BY Parameters
<1> HIDE DEF MachineKey
<1>4. CASE cloud \in Marketplaces
  BY <1>1, <1>2, <1>4 DEF SoundCount
<1>5. CASE cloud \notin Marketplaces
  BY <1>3, <1>5 DEF SoundCount, userLicense
<1> QED BY <1>4, <1>5

\* One request moves, and nothing is shown or sold.
LEMMA OneKeepsCounts ==
    ASSUME TypeOK, CountsGrow, NEW r \in Requests, Others(r),
           UNCHANGED <<licences, answered, best>>, ~raced' => ~raced,
           ~raced' => SoundCount <= SoundCount', SoundCount' \in Nat,
           ~raced' /\ request'[r].pc = "assign" /\ ~request'[r].faulty =>
              /\ request'[r].count <= SoundCount'
              /\ request'[r].overtaken \/ best <= request'[r].count
    PROVE  CountsGrow'
<1>1. SoundCount \in Nat /\ best \in Nat /\ \A q \in Requests : request[q].count \in Nat
  BY SoundCountType DEF TypeOK, Request
<1>2. \A q \in Requests \ {r} : request'[q] = request[q]
  BY DEF Others
<1>3. licences' \subseteq answered'
  BY DEF CountsGrow
<1>4. ASSUME ~raced'
      PROVE  /\ best <= SoundCount'
             /\ \A q \in Requests : request'[q].pc = "assign" /\ ~request'[q].faulty =>
                  /\ request'[q].count <= SoundCount'
                  /\ request'[q].overtaken \/ best <= request'[q].count
  <2>1. ~raced /\ SoundCount <= SoundCount'
    BY <1>4
  <2>2. best <= SoundCount'
    BY <1>1, <2>1 DEF CountsGrow
  <2>3. ASSUME NEW q \in Requests \ {r}, request'[q].pc = "assign", ~request'[q].faulty
        PROVE  /\ request'[q].count <= SoundCount'
               /\ request'[q].overtaken \/ best <= request'[q].count
    <3>1. /\ request[q].count <= SoundCount
          /\ request[q].overtaken \/ best <= request[q].count
      BY <1>2, <2>1, <2>3 DEF CountsGrow
    <3> QED BY <1>1, <1>2, <2>1, <3>1
  <2> QED BY <1>4, <2>2, <2>3
<1> QED BY <1>3, <1>4 DEF CountsGrow

\* What a sound look-up finds only grows, since licences are never taken away.
LEMMA CountsStayGrown ==
    ASSUME TypeOK, TypeOK', GoalsAreSound, KeysAreSound, OneKeyFile, CountsGrow, [Next]_vars
    PROVE  CountsGrow'
<1>0. /\ SoundCount \in Nat /\ SoundCount > 0 /\ SoundCount' \in Nat /\ raced \in BOOLEAN
      /\ best \in Nat /\ \A r \in Requests : request[r].count \in Nat
  <2>1. SoundCount' \in Nat
    <3>1. InstanceUsers(cloud)' \in Nat
      <4>1. InstanceUsers(cloud') \in Nat
        BY InstanceUsersType
      <4> QED BY <4>1 DEF InstanceUsers
    <3> QED BY <3>1, Parameters DEF SoundCount, userLicense
  <2> QED BY <2>1, SoundCountType DEF TypeOK, Request
<1>a. ASSUME NEW r \in Requests, Others(r), UNCHANGED <<keyUnchanged, keyFile, raced>>,
             ~raced' /\ request'[r].pc = "assign" /\ ~request'[r].faulty =>
                request'[r].count = SoundCount
      PROVE  CountsGrow'
  <2>1. UNCHANGED <<cloud, tagged, keyFile, licences, answered, best, raced>>
    BY <1>a DEF keyUnchanged, machine, keysShown, counts
  <2>2. SoundCount' = SoundCount
    BY <2>1, SameCount
  <2>3. ~raced => best <= SoundCount
    BY DEF CountsGrow
  <2> QED BY <1>0, <1>a, <2>1, <2>2, <2>3, OneKeepsCounts
<1>1. ASSUME NEW r \in Requests, Identify(r)
      PROVE  CountsGrow'
  <2>1. /\ Others(r) /\ UNCHANGED <<keyUnchanged, keyFile, raced>>
        /\ Keyless(r) \/ request'[r].pc \in {"complete", "file"}
    BY <1>1, IdentifyKinds
  <2>2. ~(request'[r].pc = "assign" /\ ~request'[r].faulty)
    BY <2>1, IdleType DEF Keyless
  <2> QED BY <2>1, <2>2, <1>a
<1>2. ASSUME NEW r \in Requests, ReadKeyFile(r)
      PROVE  CountsGrow'
  <2>1. /\ Others(r) /\ UNCHANGED <<keyUnchanged, keyFile>>
        /\ request'[r].pc \in {"complete", "open"} /\ (~raced' => ~raced)
    <3>1. /\ Others(r) /\ UNCHANGED <<keyUnchanged, keyFile>>
          /\ request'[r].pc \in {"complete", "open"}
      BY <1>2, ReadKinds
    <3>2. raced => raced'
      BY <1>0, <1>2, ReadKinds
    <3> QED BY <3>1, <3>2
  <2>2. UNCHANGED <<cloud, tagged, keyFile, licences, answered, best>>
    BY <2>1 DEF keyUnchanged, machine, keysShown, counts
  <2> QED BY <1>0, <2>1, <2>2, SameCount, OneKeepsCounts
<1>3. ASSUME NEW r \in Requests, OpenKeyFile(r)
      PROVE  CountsGrow'
  <2>1. /\ Others(r) /\ request'[r].pc = "write" /\ keyFile' = Torn
        /\ raced' = (raced \/ keyFile # Absent) /\ UNCHANGED keyUnchanged
    BY <1>3, GotoKinds DEF OpenKeyFile, FileExists
  <2>2. UNCHANGED <<cloud, tagged, licences, answered, best>> /\ (~raced' => ~raced)
    BY <1>0, <2>1 DEF keyUnchanged, machine, keysShown, counts
  <2>3. ASSUME ~raced'
        PROVE  SoundCount <= SoundCount'
    <3>1. keyFile = Absent
      BY <1>0, <2>1, <2>3
    <3>2. MachineKey \in licences => HasTag
      <4>1. \A key \in LicenseKey : key.key # Absent
        BY Sentinels DEF LicenseKey
      <4> QED BY <3>1, <4>1 DEF MachineKey, TypeOK
    <3>3. HasTag => MachineKey' = MachineKey
      BY <2>2 DEF MachineKey, HasTag
    <3> QED BY <2>2, <3>2, <3>3, CountRises
  <2> QED BY <1>0, <2>1, <2>2, <2>3, OneKeepsCounts
<1>4. ASSUME NEW r \in Requests, WriteKeyFile(r)
      PROVE  CountsGrow'
  <2>1. /\ Others(r) /\ request[r].pc = "write" /\ request'[r].pc = "complete"
        /\ keyFile' = request[r].key /\ raced' = raced /\ UNCHANGED keyUnchanged
    BY <1>4, GotoKinds DEF WriteKeyFile
  <2>2. UNCHANGED <<cloud, tagged, licences, answered, best>>
    BY <2>1 DEF keyUnchanged, machine, keysShown, counts
  <2>3. ASSUME ~raced
        PROVE  SoundCount <= SoundCount'
    <3>1. keyFile = Torn /\ \A key \in answered : key.key = TagKey
      BY <2>1, <2>3 DEF OneKeyFile
    <3>2. MachineKey \in licences => HasTag
      <4>1. Torn # TagKey /\ licences \subseteq answered
        BY Sentinels DEF CountsGrow
      <4> QED BY <3>1, <4>1 DEF MachineKey
    <3>3. HasTag => MachineKey' = MachineKey
      BY <2>2 DEF MachineKey, HasTag
    <3> QED BY <2>2, <3>2, <3>3, CountRises
  <2> QED BY <1>0, <2>1, <2>2, <2>3, OneKeepsCounts
<1>5. ASSUME NEW r \in Requests, KeyFileFails(r)
      PROVE  CountsGrow'
  <2>1. NoLicenseKey(r) /\ UNCHANGED <<keyUnchanged, keyFile, raced>>
    BY <1>5 DEF KeyFileFails
  <2>2. Others(r) /\ ~(request'[r].pc = "assign" /\ ~request'[r].faulty)
    BY <2>1, KeylessKinds, IdleType DEF Keyless
  <2> QED BY <2>1, <2>2, <1>a
<1>6. ASSUME NEW r \in Requests,
             Start(r) \/ Refresh(r, "refresh") \/ Refresh(r, "get-more")
      PROVE  CountsGrow'
  <2>1. PICK goal \in {"start", "refresh", "get-more"} : Begin(r, goal)
    BY <1>6, StartOrRefresh
  <2>2. Others(r) /\ UNCHANGED <<keyUnchanged, keyFile, raced>>
    BY <2>1, BeginKinds
  <2>3. ASSUME request'[r].pc = "assign", ~request'[r].faulty
        PROVE  request'[r].count = SoundCount
    <3>1. /\ request'[r].type = cloud /\ request'[r].type \in Marketplaces
          /\ request'[r].count = InstanceUsers(cloud)
      BY <2>1, <2>3, BeginKinds
    <3> QED BY <3>1 DEF SoundCount
  <2> QED BY <2>2, <2>3, <1>a
<1>7. ASSUME NEW r \in Requests, LookUp(r)
      PROVE  CountsGrow'
  <2>1. /\ Others(r) /\ request[r].pc = "complete" /\ request[r].goal # "answer"
        /\ UNCHANGED <<keyUnchanged, keyFile, raced>>
    BY <1>7, LookUpKinds
  <2>2. ASSUME ~raced', request'[r].pc = "assign", ~request'[r].faulty
        PROVE  request'[r].count = SoundCount
    <3>1. ~Keyless(r)
      BY <2>2, IdleType DEF Keyless
    <3>2. /\ ~request[r].faulty
          /\ request'[r].count = IF LicenseKeyOf(r) \in licences
                                 THEN LicensedUsers ELSE userLicense
      BY <1>7, <2>2, <3>1, LookUpKinds
    <3>3. LicenseKeyOf(r) = MachineKey /\ cloud \notin Marketplaces
      BY <2>1, <2>2, <3>2, LookUpKey
    <3> QED BY <3>2, <3>3 DEF SoundCount
  <2> QED BY <2>1, <2>2, <1>a
<1>8. ASSUME NEW r \in Requests, Assign(r)
      PROVE  CountsGrow'
  <2> DEFINE n == request[r].count
  <2>1. /\ request[r].pc = "assign" /\ request'[r].pc \in {"identify", "idle"}
        /\ raced' = raced /\ best' = IF request[r].faulty THEN best ELSE larger(best, n)
    BY <1>8, AssignKinds, IdleType
  <2>2. UNCHANGED <<cloud, tagged, keyFile, licences, answered, raced>>
    BY <1>8 DEF Assign, machine, keysShown
  <2>3. SoundCount' = SoundCount
    BY <2>2, SameCount
  <2>4. ASSUME ~raced
        PROVE  best' <= SoundCount
    <3>1. best <= SoundCount /\ (~request[r].faulty => n <= SoundCount)
      BY <2>1, <2>4 DEF CountsGrow
    <3> QED BY <2>1, <3>1 DEF larger
  <2>5. ASSUME ~raced, NEW q \in Requests, request'[q].pc = "assign", ~request'[q].faulty
        PROVE  request'[q].count <= SoundCount /\ request'[q].overtaken
    <3>1. q # r
      BY <2>1, <2>5
    <3>2. /\ request'[q].pc = request[q].pc /\ request'[q].faulty = request[q].faulty
          /\ request'[q].count = request[q].count
          /\ request[q].pc = "assign" => request'[q].overtaken = TRUE
      <4>1. OvertakesOthers(r)
        BY <1>8, AssignKinds
      <4> QED BY <3>1, <4>1 DEF OvertakesOthers
    <3> QED BY <2>5, <3>2 DEF CountsGrow
  <2>6. licences' \subseteq answered'
    BY <2>2 DEF CountsGrow
  <2> HIDE DEF n
  <2> QED BY <2>2, <2>3, <2>4, <2>5, <2>6 DEF CountsGrow
<1>9. ASSUME NEW r \in Requests, AskForKey(r) \/ CheckLicence(r)
      PROVE  CountsGrow'
  <2>1. /\ Others(r) /\ request'[r].pc \in {"identify", "addUser"}
        /\ UNCHANGED <<keyUnchanged, keyFile, raced>>
    BY <1>9, AskKinds, CheckKinds
  <2> QED BY <2>1, <1>a
<1>10. ASSUME NEW r \in Requests, Answer(r) \/ AddUser(r)
      PROVE  CountsGrow'
  <2>1. Others(r) /\ request'[r].pc = "idle"
    BY <1>10, AnswerKinds, AddKinds, IdleType
  <2>2. UNCHANGED <<cloud, tagged, keyFile, licences, best, raced>> /\ answered \subseteq answered'
    BY <1>10 DEF Answer, AddUser, machine, keysShown, counts
  <2>3. \A q \in Requests : request'[q] = request[q] \/ request'[q].pc = "idle"
    BY <2>1 DEF Others
  <2>4. SoundCount' = SoundCount
    BY <2>2, SameCount
  <2> QED BY <2>2, <2>3, <2>4 DEF CountsGrow
<1>11. ASSUME NEW key \in answered, BuyLicence(key)
      PROVE  CountsGrow'
  <2>1. /\ UNCHANGED <<cloud, tagged, keyFile, answered, request, best, raced>>
        /\ licences' = licences \cup {key}
    BY <1>11 DEF BuyLicence, machine, keysShown, counts
  <2>2. MachineKey' = MachineKey
    BY <2>1 DEF MachineKey, HasTag
  <2>3. SoundCount <= SoundCount'
    BY <2>1, <2>2, CountRises
  <2>4. licences' \subseteq answered'
    BY <2>1 DEF CountsGrow
  <2>5. ASSUME ~raced
        PROVE  /\ best <= SoundCount'
               /\ \A r \in Requests : request[r].pc = "assign" /\ ~request[r].faulty =>
                    /\ request[r].count <= SoundCount'
                    /\ request[r].overtaken \/ best <= request[r].count
    BY <1>0, <2>3, <2>5 DEF CountsGrow
  <2> QED BY <2>1, <2>4, <2>5 DEF CountsGrow
<1>12. CASE Crash
  <2>1. /\ \A r \in Requests : request'[r].pc = "idle"
        /\ UNCHANGED <<cloud, tagged, keyFile, licences, answered, best, raced>>
    BY <1>12, CrashKinds, IdleType DEF Crash, machine, keysShown
  <2>2. SoundCount' = SoundCount
    BY <2>1, SameCount
  <2> QED BY <2>1, <2>2 DEF CountsGrow
<1>13. CASE ExternalLogin \/ DeleteUser \/ UNCHANGED vars
  <2>1. UNCHANGED <<cloud, tagged, keyFile, licences, answered, request, best, raced>>
    BY <1>13 DEF ExternalLogin, DeleteUser, vars, machine, keysShown, counts
  <2>2. SoundCount' = SoundCount
    BY <2>1, SameCount
  <2> QED BY <2>1, <2>2 DEF CountsGrow
<1> QED
  BY <1>1, <1>2, <1>3, <1>4, <1>5, <1>6, <1>7, <1>8, <1>9, <1>10, <1>11, <1>12, <1>13
  DEF Next, KeyStep, LicenceStep, UserStep

\* What is found with nothing failed only grows.
LEMMA AlwaysGrow == Spec => []CountsGrow
<1>1. Init => CountsGrow
  <2> SUFFICES ASSUME Init PROVE CountsGrow
    OBVIOUS
  <2>1. (\A r \in Requests : request[r].pc = "idle") /\ licences = {} /\ best = 0
    BY IdleType DEF Init
  <2>2. SoundCount \in Nat
    BY InitTypes, SoundCountType
  <2> QED BY <2>1, <2>2 DEF CountsGrow
<1>2. /\ TypeOK /\ TypeOK' /\ GoalsAreSound /\ KeysAreSound /\ OneKeyFile /\ CountsGrow
      /\ [Next]_vars
      => CountsGrow'
  BY CountsStayGrown
<1> QED
  BY <1>1, <1>2, LicensingTypes, AlwaysGoals, AlwaysKeys, AlwaysOneFile, PTL DEF Spec

\* Only an assignment, the end of the process, or a race concerns the licence in force.
LEMMA DropsStayExcused ==
    ASSUME TypeOK, CountsGrow, LicenceDropsOnlyByFailure, [Next]_vars
    PROVE  LicenceDropsOnlyByFailure'
<1>0. /\ licenseUserCount \in Nat /\ best \in Nat /\ raced \in BOOLEAN
      /\ \A r \in Requests : request[r].count \in Nat
  BY DEF TypeOK, Request
<1>1. ASSUME NEW r \in Requests, Assign(r)
      PROVE  LicenceDropsOnlyByFailure'
  <2> DEFINE n == request[r].count
  <2>1. /\ request[r].pc = "assign" /\ raced' = raced /\ licenseUserCount' = n
        /\ best' = IF request[r].faulty THEN best ELSE larger(best, n)
        /\ excused' = (request[r].faulty \/ request[r].overtaken)
    BY <1>1, AssignKinds
  <2>2. ASSUME ~raced, ~request[r].faulty, ~request[r].overtaken
        PROVE  licenseUserCount' >= best'
    <3>1. best <= n
      BY <2>1, <2>2 DEF CountsGrow
    <3> HIDE DEF n
    <3> QED BY <1>0, <2>1, <2>2, <3>1 DEF larger, n
  <2>3. best' \in Nat /\ licenseUserCount' \in Nat
    BY <1>0, <2>1 DEF larger
  <2>4. CASE raced \/ request[r].faulty \/ request[r].overtaken
    BY <2>1, <2>4 DEF LicenceDropsOnlyByFailure
  <2>5. CASE ~(raced \/ request[r].faulty \/ request[r].overtaken)
    BY <2>2, <2>3, <2>5 DEF LicenceDropsOnlyByFailure
  <2> QED BY <2>4, <2>5
<1>2. CASE Crash
  BY <1>2 DEF Crash, LicenceDropsOnlyByFailure
<1>3. ASSUME UNCHANGED <<up, licenseUserCount, best, excused>>, raced => raced'
      PROVE  LicenceDropsOnlyByFailure'
  BY <1>3 DEF LicenceDropsOnlyByFailure
<1>4. ASSUME NEW r \in Requests, KeyStep(r)
      PROVE  LicenceDropsOnlyByFailure'
  <2>1. UNCHANGED <<up, licenseUserCount, best, excused>>
    BY <1>4 DEF KeyStep, Identify, ReadKeyFile, OpenKeyFile, WriteKeyFile, KeyFileFails,
                keyUnchanged, context, counts
  <2>2. raced => raced'
    <3>1. CASE ReadKeyFile(r)
      BY <1>0, <3>1, ReadKinds
    <3>2. CASE ~ReadKeyFile(r)
      BY <1>4, <3>2 DEF KeyStep, Identify, OpenKeyFile, WriteKeyFile, KeyFileFails
    <3> QED BY <3>1, <3>2
  <2> QED BY <2>1, <2>2, <1>3
<1>5. ASSUME NEW r \in Requests, LicenceStep(r), ~Assign(r)
      PROVE  LicenceDropsOnlyByFailure'
  <2>1. UNCHANGED <<up, licenseUserCount, best, excused, raced>>
    BY <1>5 DEF LicenceStep, Start, Refresh, Begin, LookUp, AskForKey, Answer,
                keyUnchanged, context, counts
  <2> QED BY <2>1, <1>3
<1>6. ASSUME NEW r \in Requests, UserStep(r)
      PROVE  LicenceDropsOnlyByFailure'
  <2>1. UNCHANGED <<up, licenseUserCount, best, excused, raced>>
    BY <1>6 DEF UserStep, CheckLicence, AddUser, keyUnchanged, context, counts
  <2> QED BY <2>1, <1>3
<1>7. CASE \/ \E key \in answered : BuyLicence(key)
           \/ ExternalLogin \/ DeleteUser \/ UNCHANGED vars
  <2>1. UNCHANGED <<up, licenseUserCount, best, excused, raced>>
    BY <1>7 DEF BuyLicence, ExternalLogin, DeleteUser, vars, context, counts
  <2> QED BY <2>1, <1>3
<1> QED BY <1>1, <1>2, <1>4, <1>5, <1>6, <1>7 DEF Next

\* A smaller licence than a sound refresh has found before is in force only after a refresh
\* that failed in part or was overtaken, or when two requests made the key file at once.
THEOREM LicencesDropByFailure == Spec => []LicenceDropsOnlyByFailure
<1>1. Init => LicenceDropsOnlyByFailure
  BY DEF Init, LicenceDropsOnlyByFailure
<1>2. /\ TypeOK /\ CountsGrow /\ LicenceDropsOnlyByFailure /\ [Next]_vars
      => LicenceDropsOnlyByFailure'
  BY DropsStayExcused
<1> QED BY <1>1, <1>2, LicensingTypes, AlwaysGrow, PTL DEF Spec

-----------------------------------------------------------------------------
(* The number of users.                                                    *)

LEMMA LetThroughType ==
    /\ IsFiniteSet(LetThrough) /\ Cardinality(LetThrough) \in Nat
    /\ Cardinality(LetThrough) <= Cardinality(Requests)
    /\ Cardinality(Requests) \in Nat /\ Cardinality(Requests) > 0
<1>1. LetThrough \in SUBSET Requests /\ IsFiniteSet(Requests) /\ Requests # {}
  BY Parameters DEF LetThrough
<1>2. /\ IsFiniteSet(LetThrough) /\ Cardinality(LetThrough) <= Cardinality(Requests)
  BY <1>1, FS_Subset
<1>3. Cardinality(LetThrough) \in Nat /\ Cardinality(Requests) \in Nat
  BY <1>1, <1>2, FS_CardinalityType
<1>4. Cardinality(Requests) # 0
  BY <1>1, FS_EmptySet
<1> QED BY <1>2, <1>3, <1>4

\* One more is let through, or one less.
LEMMA LetThroughChanges ==
    ASSUME NEW r \in Requests, Others(r)
    PROVE  /\ request[r].pc # "addUser" /\ request'[r].pc # "addUser" =>
                LetThrough' = LetThrough
           /\ request[r].pc # "addUser" /\ request'[r].pc = "addUser" =>
                Cardinality(LetThrough') = Cardinality(LetThrough) + 1
           /\ request[r].pc = "addUser" /\ request'[r].pc # "addUser" =>
                Cardinality(LetThrough') = Cardinality(LetThrough) - 1
<1>1. \A q \in Requests \ {r} : request'[q] = request[q]
  BY DEF Others
<1>2. ASSUME request[r].pc # "addUser", request'[r].pc # "addUser"
      PROVE  LetThrough' = LetThrough
  BY <1>1, <1>2 DEF LetThrough
<1>3. ASSUME request[r].pc # "addUser", request'[r].pc = "addUser"
      PROVE  Cardinality(LetThrough') = Cardinality(LetThrough) + 1
  <2>1. LetThrough' = LetThrough \cup {r} /\ r \notin LetThrough
    BY <1>1, <1>3 DEF LetThrough
  <2> QED BY <2>1, LetThroughType, FS_AddElement
<1>4. ASSUME request[r].pc = "addUser", request'[r].pc # "addUser"
      PROVE  Cardinality(LetThrough') = Cardinality(LetThrough) - 1
  <2>1. LetThrough' = LetThrough \ {r} /\ r \in LetThrough
    BY <1>1, <1>4 DEF LetThrough
  <2> QED BY <2>1, LetThroughType, FS_RemoveElement
<1> QED BY <1>2, <1>3, <1>4

\* The numbers in the invariant.
LEMMA UserNumbers ==
    ASSUME TypeOK
    PROVE  /\ users \in Nat /\ external \in Nat /\ highest \in Nat
           /\ licenseUserCount \in Nat /\ maxUsers \in Nat
           /\ Cardinality(LetThrough) \in Nat
           /\ Cardinality(LetThrough) <= Cardinality(Requests)
           /\ Cardinality(Requests) \in Nat /\ Cardinality(Requests) > 0
           /\ \A r \in Requests : request[r].count \in Nat
<1>1. external \in Nat
  BY Parameters DEF TypeOK
<1> QED BY <1>1, LetThroughType DEF TypeOK, Request

\* A request moves that is not let through, and adds nobody.
LEMMA MoveKeepsUsers ==
    ASSUME TypeOK, UsersAreCounted, NEW r \in Requests, Others(r),
           UNCHANGED <<up, licenseUserCount, maxUsers, users, external, highest>>,
           request[r].pc # "addUser", request'[r].pc # "addUser",
           request'[r].pc = "assign" => request'[r].count > 0
    PROVE  UsersAreCounted'
<1>1. LetThrough' = LetThrough
  BY LetThroughChanges
<1>2. \A q \in Requests : request'[q].pc = "assign" => request'[q].count > 0
  BY DEF Others, UsersAreCounted
<1> QED BY <1>1, <1>2 DEF UsersAreCounted

\* A request without a key assigns the default.
LEMMA KeylessCount ==
    ASSUME NEW r \in Requests, Keyless(r)
    PROVE  /\ request'[r].pc # "addUser"
           /\ request'[r].pc = "assign" => request'[r].count > 0
<1>1. \/ request'[r].pc = "idle"
      \/ request'[r].pc = "assign" /\ request'[r].count = 3
  BY IdleType DEF Keyless, userLicense
<1> QED BY <1>1

\* Every step keeps the count of users and of those about to be added.
LEMMA UsersStayCounted ==
    ASSUME TypeOK, TypeOK', UsersAreCounted, [Next]_vars
    PROVE  UsersAreCounted'
<1> DEFINE N == Cardinality(Requests)
           L == Cardinality(LetThrough)
<1>0. /\ users \in Nat /\ external \in Nat /\ highest \in Nat
      /\ licenseUserCount \in Nat /\ maxUsers \in Nat
      /\ L \in Nat /\ L <= N /\ N \in Nat /\ N > 0
      /\ \A r \in Requests : request[r].count \in Nat
  BY UserNumbers
<1>a. /\ licenseUserCount <= highest /\ maxUsers <= highest
      /\ \A r \in Requests : request[r].pc = "assign" => request[r].count > 0
      /\ highest = 0 => ~up /\ users = 1 /\ LetThrough = {}
      /\ highest # 0 => users + L <= highest + external + (N - 1)
  BY DEF UsersAreCounted
<1>b. ASSUME UNCHANGED keyUnchanged
      PROVE  UNCHANGED <<up, licenseUserCount, maxUsers, users, external, highest>>
  BY <1>b DEF keyUnchanged, context, userVars, counts
<1>1. ASSUME NEW r \in Requests, KeyStep(r)
      PROVE  UsersAreCounted'
  <2>1. UNCHANGED keyUnchanged /\ request[r].pc # "addUser"
    BY <1>1 DEF KeyStep, Identify, ReadKeyFile, OpenKeyFile, WriteKeyFile, KeyFileFails
  <2>2. /\ Others(r)
        /\ Keyless(r) \/ request'[r].pc \in {"complete", "file", "open", "write"}
    <3>1. CASE Identify(r)
      BY <3>1, IdentifyKinds
    <3>2. CASE ReadKeyFile(r)
      BY <3>2, ReadKinds
    <3>3. CASE OpenKeyFile(r) \/ WriteKeyFile(r)
      BY <3>3, GotoKinds DEF OpenKeyFile, WriteKeyFile
    <3>4. CASE KeyFileFails(r)
      BY <3>4, KeylessKinds DEF KeyFileFails
    <3> QED BY <1>1, <3>1, <3>2, <3>3, <3>4 DEF KeyStep
  <2>3. /\ request'[r].pc # "addUser"
        /\ request'[r].pc = "assign" => request'[r].count > 0
    BY <2>2, KeylessCount
  <2> QED BY <1>b, <2>1, <2>2, <2>3, MoveKeepsUsers
<1>2. ASSUME NEW r \in Requests,
             Start(r) \/ Refresh(r, "refresh") \/ Refresh(r, "get-more")
      PROVE  UsersAreCounted'
  <2>1. PICK goal \in {"start", "refresh", "get-more"} : Begin(r, goal)
    BY <1>2, StartOrRefresh
  <2>2. /\ Others(r) /\ request[r].pc = "idle" /\ UNCHANGED keyUnchanged
        /\ request'[r].pc # "addUser"
        /\ request'[r].pc = "assign" => request'[r].count > 0
    BY <2>1, BeginKinds
  <2> QED BY <1>b, <2>2, MoveKeepsUsers
<1>3. ASSUME NEW r \in Requests, LookUp(r)
      PROVE  UsersAreCounted'
  <2>1. /\ Others(r) /\ request[r].pc = "complete" /\ UNCHANGED keyUnchanged
        /\ Keyless(r) \/ (request'[r].pc = "assign" /\ request'[r].count > 0)
    BY <1>3, LookUpKinds
  <2>2. /\ request'[r].pc # "addUser"
        /\ request'[r].pc = "assign" => request'[r].count > 0
    BY <2>1, KeylessCount
  <2> QED BY <1>b, <2>1, <2>2, MoveKeepsUsers
<1>4. ASSUME NEW r \in Requests, Assign(r)
      PROVE  UsersAreCounted'
  <2> DEFINE n == request[r].count
  <2>1. /\ request[r].pc = "assign" /\ request'[r].pc \in {"identify", "idle"}
        /\ licenseUserCount' = n /\ maxUsers' \in {maxUsers, n}
        /\ highest' = larger(highest, n)
    BY <1>4, AssignKinds, IdleType
  <2>2. UNCHANGED <<users, external>>
    BY <1>4 DEF Assign, userVars
  <2>3. \A q \in Requests \ {r} :
           request'[q].pc = request[q].pc /\ request'[q].count = request[q].count
    <3>1. OvertakesOthers(r)
      BY <1>4, AssignKinds
    <3> QED BY <3>1 DEF OvertakesOthers
  <2>4. LetThrough' = LetThrough
    BY <2>1, <2>3 DEF LetThrough
  <2>5. n \in Nat /\ n > 0
    BY <1>0, <1>a, <2>1
  <2>6. \A q \in Requests : request'[q].pc = "assign" => request'[q].count > 0
    BY <1>a, <2>1, <2>3
  <2> HIDE DEF n
  <2>7. /\ highest' \in Nat /\ highest' >= highest /\ highest' >= n /\ highest' # 0
        /\ licenseUserCount' <= highest' /\ maxUsers' <= highest'
    BY <1>0, <1>a, <2>1, <2>5 DEF larger
  <2>8. users + L <= highest' + external + (N - 1)
    <3>1. CASE highest = 0
      <4>1. users = 1 /\ L = 0
        BY <1>a, <3>1, FS_EmptySet
      <4>2. external \in Nat /\ N \in Nat /\ N > 0 /\ highest' \in Nat /\ highest' >= 1
        BY <1>0, <2>7
      <4> QED BY <4>1, <4>2
    <3>2. CASE highest # 0
      <4>1. /\ users \in Nat /\ L \in Nat /\ external \in Nat /\ N \in Nat
            /\ highest \in Nat /\ highest' \in Nat /\ highest' >= highest
            /\ users + L <= highest + external + (N - 1)
        BY <1>0, <1>a, <2>7, <3>2
      <4> QED BY <4>1
    <3> QED BY <3>1, <3>2
  <2> QED BY <2>2, <2>4, <2>6, <2>7, <2>8 DEF UsersAreCounted
<1>5. ASSUME NEW r \in Requests, AskForKey(r)
      PROVE  UsersAreCounted'
  <2>1. /\ Others(r) /\ request[r].pc = "idle" /\ request'[r].pc = "identify"
        /\ UNCHANGED keyUnchanged
    BY <1>5, AskKinds
  <2> QED BY <1>b, <2>1, MoveKeepsUsers
<1>6. ASSUME NEW r \in Requests, Answer(r)
      PROVE  UsersAreCounted'
  <2>1. Others(r) /\ request[r].pc = "complete" /\ request'[r].pc = "idle"
    BY <1>6, AnswerKinds, IdleType
  <2>2. UNCHANGED <<up, licenseUserCount, maxUsers, users, external, highest>>
    BY <1>6 DEF Answer, context, userVars, counts
  <2> QED BY <2>1, <2>2, MoveKeepsUsers
<1>7. ASSUME NEW r \in Requests, CheckLicence(r)
      PROVE  UsersAreCounted'
  <2>1. /\ Others(r) /\ up /\ request[r].pc = "idle" /\ request'[r].pc = "addUser"
        /\ users < licenseUserCount \/ users < maxUsers
        /\ UNCHANGED <<up, licenseUserCount, maxUsers, users, external, highest>>
    BY <1>7, <1>b, CheckKinds
  <2>2. Cardinality(LetThrough') = L + 1 /\ Cardinality(LetThrough') <= N
    <3>1. Cardinality(LetThrough') = L + 1
      BY <2>1, LetThroughChanges
    <3>2. LetThrough' \in SUBSET Requests /\ IsFiniteSet(Requests)
      BY Parameters DEF LetThrough
    <3>3. Cardinality(LetThrough') <= N
      BY <3>2, FS_Subset
    <3> QED BY <3>1, <3>3
  <2>3. highest # 0 /\ users < highest
    BY <1>0, <1>a, <2>1
  <2>4. users + Cardinality(LetThrough') <= highest + external + (N - 1)
    <3> HIDE DEF N, L
    <3> QED BY <1>0, <2>2, <2>3
  <2>5. \A q \in Requests : request'[q].pc = "assign" => request'[q].count > 0
    BY <1>a, <2>1 DEF Others
  <2> QED BY <1>a, <2>1, <2>3, <2>4, <2>5 DEF UsersAreCounted
<1>8. ASSUME NEW r \in Requests, AddUser(r)
      PROVE  UsersAreCounted'
  <2>1. /\ Others(r) /\ request[r].pc = "addUser" /\ request'[r].pc = "idle"
        /\ users' \in {users, users + 1}
    BY <1>8, AddKinds, IdleType
  <2>2. UNCHANGED <<up, licenseUserCount, maxUsers, external, highest>>
    BY <1>8 DEF AddUser, context, counts
  <2>3. Cardinality(LetThrough') = L - 1
    BY <2>1, LetThroughChanges
  <2>4. highest # 0
    BY <1>a, <2>1 DEF LetThrough
  <2>5. users' + Cardinality(LetThrough') <= highest + external + (N - 1)
    <3> DEFINE M == Cardinality(LetThrough')
    <3>1. /\ users \in Nat /\ L \in Nat /\ external \in Nat /\ N \in Nat
          /\ highest \in Nat /\ M = L - 1 /\ users' \in {users, users + 1}
          /\ users + L <= highest + external + (N - 1)
      BY <1>0, <1>a, <2>1, <2>3, <2>4
    <3> QED BY <3>1
  <2>6. \A q \in Requests : request'[q].pc = "assign" => request'[q].count > 0
    BY <1>a, <2>1 DEF Others
  <2> QED BY <1>a, <2>2, <2>4, <2>5, <2>6 DEF UsersAreCounted
<1>9. CASE ExternalLogin \/ DeleteUser
  <2>1. /\ UNCHANGED <<licenseUserCount, maxUsers, highest, request>> /\ up /\ up'
        /\ \/ users' = users + 1 /\ external' = external + 1
           \/ users' = users - 1 /\ external' = external
    BY <1>9 DEF ExternalLogin, DeleteUser, context, counts
  <2>2. LetThrough' = LetThrough /\ highest # 0
    BY <1>a, <2>1 DEF LetThrough
  <2>3. users' + L <= highest + external' + (N - 1)
    <3> HIDE DEF N, L
    <3> QED BY <1>0, <1>a, <2>1, <2>2
  <2> QED BY <1>a, <2>1, <2>2, <2>3 DEF UsersAreCounted
<1>10. CASE Crash
  <2>1. /\ \A r \in Requests : request'[r].pc = "idle"
        /\ licenseUserCount' = 0 /\ maxUsers' = 0 /\ up' = FALSE
        /\ UNCHANGED <<users, external, highest>>
    BY <1>10, CrashKinds, IdleType DEF Crash, userVars
  <2>2. LetThrough' = {} /\ Cardinality(LetThrough') = 0
    <3>1. LetThrough' = {}
      BY <2>1 DEF LetThrough
    <3> QED BY <3>1, FS_EmptySet
  <2>3. highest # 0 => users + 0 <= highest + external + (N - 1)
    <3> HIDE DEF N, L
    <3> QED BY <1>0, <1>a
  <2> QED BY <1>0, <1>a, <2>1, <2>2, <2>3 DEF UsersAreCounted
<1>11. CASE (\E key \in answered : BuyLicence(key)) \/ UNCHANGED vars
  <2>1. UNCHANGED <<up, licenseUserCount, maxUsers, users, external, highest, request>>
    BY <1>11 DEF BuyLicence, vars, context, userVars, counts
  <2>2. LetThrough' = LetThrough
    BY <2>1 DEF LetThrough
  <2> QED BY <2>1, <2>2 DEF UsersAreCounted
<1> QED
  BY <1>1, <1>2, <1>3, <1>4, <1>5, <1>6, <1>7, <1>8, <1>9, <1>10, <1>11
  DEF Next, LicenceStep, UserStep

\* Users that are counted are within the licence.
LEMMA CountedAreWithin ==
    ASSUME TypeOK, UsersAreCounted
    PROVE  UsersWithinLicence
<1> SUFFICES ASSUME up PROVE users <= highest + external + (Cardinality(Requests) - 1)
  BY DEF UsersWithinLicence
<1>1. highest # 0
  BY DEF UsersAreCounted
<1>2. users + Cardinality(LetThrough) <= highest + external + (Cardinality(Requests) - 1)
  BY <1>1 DEF UsersAreCounted
<1> QED BY <1>2, UserNumbers

\* For any number of requests: administrators and SCIM create no more users than the largest
\* licence so far, but for one for each other request that was let through.
THEOREM UsersStayWithinLicence == Spec => []UsersWithinLicence
<1>1. Init => UsersAreCounted
  <2> SUFFICES ASSUME Init PROVE UsersAreCounted
    OBVIOUS
  <2>1. /\ \A r \in Requests : request[r].pc = "idle"
        /\ licenseUserCount = 0 /\ maxUsers = 0 /\ highest = 0 /\ ~up /\ users = 1
    BY IdleType DEF Init
  <2> QED BY <2>1 DEF UsersAreCounted, LetThrough
<1>2. TypeOK /\ TypeOK' /\ UsersAreCounted /\ [Next]_vars => UsersAreCounted'
  BY UsersStayCounted
<1>3. TypeOK /\ UsersAreCounted => UsersWithinLicence
  BY CountedAreWithin
<1> QED BY <1>1, <1>2, <1>3, LicensingTypes, PTL DEF Spec
=============================================================================
