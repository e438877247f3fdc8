------------------------ MODULE LoginAttemptsProofs ------------------------
(* Theorems about LoginAttempts, for any logins and requests, any limit and   *)
(* window, and any time: the limit on failed logins is kept as LoginLimit     *)
(* promises it.                                                               *)
EXTENDS LoginAttempts, SequenceTheorems, FiniteSetTheorems, TLAPS

-----------------------------------------------------------------------------
(* Lists.                                                                   *)

\* A list over a smaller set.
LEMMA SeqOfSubset ==
    ASSUME NEW S, NEW T, S \subseteq T, NEW s \in Seq(S)
    PROVE  s \in Seq(T)
OBVIOUS

-----------------------------------------------------------------------------
(* Counting the attempts of a window.                                      *)

\* The positions of the attempts that count at time t.
Recent(stamps, t) == {i \in DOMAIN stamps : t - stamps[i] <= Window}

\* There are finitely many, at most all.
LEMMA RecentIsFinite ==
    ASSUME NEW s \in Seq(Nat), NEW t \in Nat
    PROVE  /\ IsFiniteSet(Recent(s, t)) /\ Recent(s, t) \subseteq 1 .. Len(s)
           /\ LoginAttemptsSince(s, t) = Cardinality(Recent(s, t))
           /\ LoginAttemptsSince(s, t) \in Nat
<1>1. Recent(s, t) \subseteq 1 .. Len(s) /\ IsFiniteSet(1 .. Len(s))
  <2>1. Len(s) \in Int /\ 1 \in Int /\ DOMAIN s = 1 .. Len(s)
    OBVIOUS
  <2>2. IsFiniteSet(1 .. Len(s))
    BY <2>1, FS_Interval
  <2> QED BY <2>1, <2>2 DEF Recent
<1>2. IsFiniteSet(Recent(s, t))
  BY <1>1, FS_Subset
<1>3. LoginAttemptsSince(s, t) = Cardinality(Recent(s, t))
  BY DEF Recent, LoginAttemptsSince
<1> QED BY <1>1, <1>2, <1>3, FS_CardinalityType

\* In a list in the order of time, Limit attempts count if and only if the one that is
\* Limit from the end does.
LEMMA LastDecides ==
    ASSUME NEW t \in Nat, NEW s \in Seq(Nat),
           \A i, j \in DOMAIN s : i <= j => s[i] <= s[j]
    PROVE  ReachesLimit(LoginAttemptsSince(s, t)) <=>
             Len(s) >= Limit /\ t - s[Len(s) - Limit + 1] <= Window
<1> DEFINE R == Recent(s, t)
           n == Len(s)
           k == n - Limit + 1
<1>1. /\ IsFiniteSet(R) /\ R \subseteq 1 .. n /\ n \in Nat
      /\ LoginAttemptsSince(s, t) = Cardinality(R) /\ Cardinality(R) \in Nat
  <2>1. n \in Nat
    OBVIOUS
  <2> QED BY <2>1, RecentIsFinite
<1>2. Limit \in Nat /\ Limit >= 1 /\ Window \in Nat
  BY Numbers
<1>3. \A i \in 1 .. n : s[i] \in Nat
  OBVIOUS
<1>4. CASE n < Limit
  <2>1. Cardinality(1 .. n) = n /\ IsFiniteSet(1 .. n)
    <3>1. 1 \in Int /\ n \in Int /\ n >= 0
      BY <1>1
    <3> HIDE DEF n
    <3> QED BY <3>1, FS_Interval
  <2>2. Cardinality(R) <= Cardinality(1 .. n)
    <3>1. R \in SUBSET (1 .. n)
      BY <1>1
    <3> HIDE DEF R, n
    <3> QED BY <2>1, <3>1, FS_Subset
  <2> HIDE DEF R
  <2> QED BY <1>1, <1>2, <1>4, <2>1, <2>2 DEF ReachesLimit
<1>5. CASE n >= Limit /\ t - s[k] <= Window
  <2>1. k \in 1 .. n /\ n - k + 1 = Limit
    BY <1>1, <1>2, <1>5
  <2>2. k .. n \subseteq R
    <3> SUFFICES ASSUME NEW i \in k .. n PROVE i \in R
      OBVIOUS
    <3>1. i \in 1 .. n /\ s[k] <= s[i]
      BY SMTT(20), <1>1, <2>1
    <3> QED BY SMTT(20), <1>2, <1>3, <1>5, <2>1, <3>1 DEF Recent
  <2>3. Cardinality(k .. n) = Limit
    BY <1>1, <2>1, FS_Interval
  <2>4. Cardinality(k .. n) <= Cardinality(R)
    BY <1>1, <2>2, FS_Subset
  <2> HIDE DEF R
  <2> QED BY <1>1, <1>2, <1>5, <2>3, <2>4 DEF ReachesLimit
<1>6. CASE n >= Limit /\ ~(t - s[k] <= Window)
  <2>1. k \in 1 .. n
    BY <1>1, <1>2, <1>6
  <2>2. R \subseteq k + 1 .. n
    <3> SUFFICES ASSUME NEW i \in R, ~(i \in k + 1 .. n) PROVE FALSE
      OBVIOUS
    <3>1. i \in 1 .. n /\ i <= k
      BY <1>1, <2>1
    <3>2. s[i] <= s[k]
      BY <2>1, <3>1
    <3> QED BY SMTT(20), <1>2, <1>3, <1>6, <2>1, <3>1, <3>2 DEF Recent
  <2>3. Cardinality(k + 1 .. n) = Limit - 1 /\ IsFiniteSet(k + 1 .. n)
    <3>1. k + 1 \in Int /\ n \in Int /\ n - (k + 1) + 1 = Limit - 1
      BY <1>1, <1>2
    <3> QED BY <1>2, <3>1, FS_Interval
  <2>4. Cardinality(R) <= Limit - 1
    <3> DEFINE I == k + 1 .. n
    <3>1. R \in SUBSET I
      BY <2>2
    <3>2. IsFiniteSet(I) /\ Cardinality(I) = Limit - 1
      BY <2>3
    <3> HIDE DEF R, I
    <3>3. Cardinality(R) <= Cardinality(I)
      BY <3>1, <3>2, FS_Subset
    <3> QED BY <3>2, <3>3
  <2> HIDE DEF R
  <2> QED BY <1>1, <1>2, <1>6, <2>4 DEF ReachesLimit
<1> QED BY <1>1, <1>2, <1>4, <1>5, <1>6

-----------------------------------------------------------------------------
(* Lists that are trimmed and lists that grow.                             *)

\* The end of a list that is kept.
LEMMA Kept ==
    ASSUME NEW S, NEW s \in Seq(S), NEW k \in Nat, k <= Len(s)
    PROVE  /\ KeepLast(s, k) \in Seq(S)
           /\ Len(KeepLast(s, k)) = Len(s) - k
           /\ \A i \in 1 .. Len(s) - k : KeepLast(s, k)[i] = s[k + i]
<1>1. \A i \in k + 1 .. Len(s) : s[i] \in S
  OBVIOUS
<1>2. /\ SubSeq(s, k + 1, Len(s)) \in Seq(S)
      /\ Len(SubSeq(s, k + 1, Len(s))) = IF k + 1 <= Len(s) THEN Len(s) - (k + 1) + 1 ELSE 0
      /\ \A i \in 1 .. Len(s) - (k + 1) + 1 : SubSeq(s, k + 1, Len(s))[i] = s[(k + 1) + i - 1]
  <2>1. k + 1 \in Int /\ Len(s) \in Int
    OBVIOUS
  <2> QED BY <1>1, <2>1, SubSeqProperties
<1>3. /\ KeepLast(s, k) \in Seq(S)
      /\ Len(KeepLast(s, k)) = Len(s) - k
  BY <1>2 DEF KeepLast
<1>4. ASSUME NEW i \in 1 .. Len(s) - k PROVE KeepLast(s, k)[i] = s[k + i]
  <2>1. Len(s) - (k + 1) + 1 = Len(s) - k /\ (k + 1) + i - 1 = k + i
    OBVIOUS
  <2> QED BY <1>2, <2>1 DEF KeepLast
<1> QED BY <1>3, <1>4

\* What is kept of a list is in the order of time.
LEMMA KeptInOrder ==
    ASSUME TypeOK, NEW s, InOrder(s), NEW k \in Nat, k <= Len(s)
    PROVE  KeepLast(s, k) \in Seq(Nat) /\ InOrder(KeepLast(s, k))
<1>1. s \in Seq(0 .. clock) /\ Len(s) \in Nat /\ DOMAIN s = 1 .. Len(s)
  BY DEF InOrder
<1> DEFINE e == KeepLast(s, k)
<1>2. /\ e \in Seq(0 .. clock) /\ Len(e) = Len(s) - k
      /\ \A i \in 1 .. Len(s) - k : e[i] = s[k + i]
  BY <1>1, Kept
<1> HIDE DEF e
<1>3. \A i, j \in DOMAIN e : i <= j => e[i] <= e[j]
  <2> SUFFICES ASSUME NEW i \in DOMAIN e, NEW j \in DOMAIN e, i <= j PROVE e[i] <= e[j]
    OBVIOUS
  <2>1. /\ i \in 1 .. Len(s) - k /\ j \in 1 .. Len(s) - k
        /\ k + i \in 1 .. Len(s) /\ k + j \in 1 .. Len(s) /\ k + i <= k + j
    BY <1>1, <1>2
  <2>2. s[k + i] <= s[k + j]
    BY <1>1, <2>1 DEF InOrder
  <2> QED BY <1>2, <2>1, <2>2
<1>4. e \in Seq(Nat)
  <2>1. 0 .. clock \subseteq Nat
    BY DEF TypeOK
  <2> QED BY <1>2, <2>1, SeqOfSubset
<1> QED BY <1>2, <1>3, <1>4 DEF InOrder, e

\* An attempt of now goes to the end.
LEMMA AppendedInOrder ==
    ASSUME NEW s, InOrder(s), clock \in Nat
    PROVE  Append(s, clock) \in Seq(Nat) /\ InOrder(Append(s, clock))
<1>1. s \in Seq(0 .. clock) /\ clock \in 0 .. clock /\ Len(s) \in Nat
  BY DEF InOrder
<1> DEFINE e == Append(s, clock)
<1>2. /\ e \in Seq(0 .. clock) /\ Len(e) = Len(s) + 1
      /\ \A i \in 1 .. Len(s) : e[i] = s[i] /\ s[i] \in 0 .. clock
      /\ e[Len(s) + 1] = clock
  BY <1>1
<1> HIDE DEF e
<1>3. e \in Seq(Nat)
  <2>1. 0 .. clock \subseteq Nat
    OBVIOUS
  <2> QED BY <1>2, <2>1, SeqOfSubset
<1>4. \A i, j \in DOMAIN e : i <= j => e[i] <= e[j]
  <2> SUFFICES ASSUME NEW i \in DOMAIN e, NEW j \in DOMAIN e, i <= j PROVE e[i] <= e[j]
    OBVIOUS
  <2>1. i \in 1 .. Len(s) + 1 /\ j \in 1 .. Len(s) + 1
    BY <1>2
  <2>2. CASE j = Len(s) + 1
    BY <1>1, <1>2, <2>1, <2>2
  <2>3. CASE j # Len(s) + 1
    <3>1. i \in 1 .. Len(s) /\ j \in 1 .. Len(s)
      BY <1>1, <2>1, <2>3
    <3>2. s[i] <= s[j]
      BY <1>1, <3>1 DEF InOrder
    <3> QED BY <1>2, <3>1, <3>2
  <2> QED BY <2>2, <2>3
<1> QED BY <1>2, <1>3, <1>4 DEF InOrder, e

\* A list that agrees decides like the list of all failures.
LEMMA EndDecides ==
    ASSUME NEW t \in Nat, NEW s \in Seq(Nat), NEW all \in Seq(Nat), IsEndOf(s, all),
           \A i, j \in DOMAIN s : i <= j => s[i] <= s[j],
           \A i, j \in DOMAIN all : i <= j => all[i] <= all[j]
    PROVE  ReachesLimit(LoginAttemptsSince(s, t)) <=> ReachesLimit(LoginAttemptsSince(all, t))
<1>1. Limit \in Nat /\ Limit >= 1
  BY Numbers
<1>2. Len(s) \in Nat /\ Len(all) \in Nat /\ Len(s) <= Len(all)
  BY DEF IsEndOf
<1>3. CASE Len(s) < Limit
  <2>1. Len(all) = Len(s)
    BY <1>1, <1>2, <1>3 DEF IsEndOf
  <2>2. ~ReachesLimit(LoginAttemptsSince(s, t))
    BY <1>1, <1>2, <1>3, LastDecides
  <2>3. ~ReachesLimit(LoginAttemptsSince(all, t))
    BY <1>1, <1>2, <1>3, <2>1, LastDecides
  <2> QED BY <2>2, <2>3
<1>4. CASE Len(s) >= Limit
  <2>1. Len(s) - Limit + 1 \in DOMAIN s /\ Len(all) >= Limit
    BY <1>1, <1>2, <1>4
  <2>2. s[Len(s) - Limit + 1] = all[(Len(s) - Limit + 1) + (Len(all) - Len(s))]
    BY <2>1 DEF IsEndOf
  <2>3. (Len(s) - Limit + 1) + (Len(all) - Len(s)) = Len(all) - Limit + 1
    BY <1>1, <1>2
  <2> QED BY <1>4, <2>1, <2>2, <2>3, LastDecides
<1> QED BY <1>1, <1>2, <1>3, <1>4

\* A failure is recorded in both lists.
LEMMA EndGrows ==
    ASSUME NEW s \in Seq(Nat), NEW all \in Seq(Nat), IsEndOf(s, all), NEW t \in Nat
    PROVE  IsEndOf(Append(s, t), Append(all, t))
<1>1. Limit \in Nat /\ Len(s) \in Nat /\ Len(all) \in Nat
  BY Numbers
<1>2. /\ Len(Append(s, t)) = Len(s) + 1 /\ Len(Append(all, t)) = Len(all) + 1
      /\ DOMAIN Append(s, t) = 1 .. Len(s) + 1
  OBVIOUS
<1>3. ASSUME NEW i \in 1 .. Len(s) + 1
      PROVE  Append(s, t)[i] = Append(all, t)[i + ((Len(all) + 1) - (Len(s) + 1))]
  <2> DEFINE j == i + (Len(all) - Len(s))
  <2>1. j \in 1 .. Len(all) + 1 /\ i + ((Len(all) + 1) - (Len(s) + 1)) = j
    BY <1>1 DEF IsEndOf
  <2>2. CASE i = Len(s) + 1
    <3>1. j = Len(all) + 1
      BY <1>1, <2>2
    <3> QED BY <1>1, <2>1, <2>2, <3>1
  <2>3. CASE i # Len(s) + 1
    <3>1. i \in DOMAIN s /\ j \in 1 .. Len(all)
      BY <1>1, <2>1, <2>3
    <3>2. s[i] = all[j]
      BY <3>1 DEF IsEndOf
    <3>3. Append(s, t)[i] = s[i] /\ Append(all, t)[j] = all[j]
      BY <3>1
    <3> QED BY <2>1, <3>2, <3>3
  <2> QED BY <2>2, <2>3
<1> DEFINE e == Append(s, t)
           f == Append(all, t)
<1>4. Len(e) = Len(s) + 1 /\ Len(f) = Len(all) + 1 /\ DOMAIN e = 1 .. Len(s) + 1
  BY <1>2
<1>5. \A i \in 1 .. Len(s) + 1 : e[i] = f[i + ((Len(all) + 1) - (Len(s) + 1))]
  BY <1>3
<1> HIDE DEF e, f
<1>6. \A i \in DOMAIN e : e[i] = f[i + (Len(f) - Len(e))]
  BY <1>4, <1>5
<1>7. Len(e) <= Len(f) /\ (Len(e) = Len(f) \/ Len(e) >= Limit)
  BY <1>1, <1>4 DEF IsEndOf
<1>8. IsEndOf(e, f)
  BY <1>6, <1>7 DEF IsEndOf
<1> QED BY <1>8 DEF e, f

\* Of a list that is too long the last ones are kept.
LEMMA EndTrimmed ==
    ASSUME NEW s \in Seq(Nat), NEW all \in Seq(Nat), IsEndOf(s, all), Len(s) > Limit
    PROVE  IsEndOf(KeepLast(s, Len(s) - Limit), all)
<1> DEFINE k == Len(s) - Limit
           e == KeepLast(s, k)
<1>1. Limit \in Nat /\ Len(s) \in Nat /\ Len(all) \in Nat /\ Len(s) <= Len(all) /\ k \in Nat
  BY Numbers DEF IsEndOf
<1>2. /\ e \in Seq(Nat) /\ Len(e) = Limit
      /\ \A i \in 1 .. Limit : e[i] = s[k + i]
  <2>1. k <= Len(s) /\ Len(s) - k = Limit
    BY <1>1
  <2> HIDE DEF k
  <2>2. /\ e \in Seq(Nat) /\ Len(e) = Len(s) - k
        /\ \A i \in 1 .. Len(s) - k : e[i] = s[k + i]
    BY <1>1, <2>1, Kept
  <2> QED BY <2>1, <2>2
<1> HIDE DEF e
<1>3. ASSUME NEW i \in DOMAIN e PROVE e[i] = all[i + (Len(all) - Len(e))]
  <2>1. i \in 1 .. Limit /\ k + i \in DOMAIN s
    BY <1>1, <1>2
  <2>2. e[i] = all[(k + i) + (Len(all) - Len(s))]
    BY <1>2, <2>1 DEF IsEndOf
  <2>3. (k + i) + (Len(all) - Len(s)) = i + (Len(all) - Len(e))
    BY <1>1, <1>2, <2>1
  <2> QED BY <2>2, <2>3
<1>4. Len(e) <= Len(all) /\ Len(e) >= Limit
  BY <1>1, <1>2
<1>5. IsEndOf(e, all)
  BY <1>3, <1>4 DEF IsEndOf
<1> QED BY <1>5 DEF e

-----------------------------------------------------------------------------
(* Types.                                                                  *)

\* A request that has not begun or has been answered.
LEMMA IdleRequest ==
    Idle \in Request /\ Idle.pc = "idle" /\ Idle.login = NoLogin /\ Idle.kept = <<>>
<1>1. <<>> \in Seq(Nat)
  OBVIOUS
<1> QED BY <1>1, Sentinels DEF Idle, Request

\* The empty list.
LEMMA EmptyInOrder == <<>> \in Seq(Nat) /\ InOrder(<<>>)
BY DEF InOrder

\* What a request at work is about.
LEMMA Holds ==
    ASSUME NEW q \in Request
    PROVE  /\ q.pc \in {"idle", "admitted", "slice", "assign", "refused"}
           /\ q.pc # "idle" => q.login \in Logins
           /\ q.pc = "idle" => q.login = NoLogin
           /\ q.login \in Logins \cup {NoLogin}
           /\ q.index \in Nat /\ q.kept \in Seq(Nat)
           /\ q.pc \in {"slice", "assign"} => q.index > 0
BY DEF Request

\* The first state has the types.
LEMMA InitTypes == Init => TypeOK
<1> SUFFICES ASSUME Init PROVE TypeOK
  OBVIOUS
<1>1. 0 \in 0 .. MaxTime /\ 0 \in 0 .. MaxRestarts
  BY Numbers
<1>2. attempts \in [Logins -> Seq(Nat)] /\ failed \in [Logins -> Seq(Nat)]
  BY EmptyInOrder DEF Init
<1>3. \A l \in Logins : InOrder(attempts[l]) /\ InOrder(failed[l])
  BY EmptyInOrder DEF Init
<1>4. request \in [Requests -> Request] /\ \A r \in Requests : InOrder(request[r].kept)
  BY IdleRequest, EmptyInOrder DEF Init
<1> QED BY <1>1, <1>2, <1>3, <1>4 DEF Init, TypeOK

\* What the types say.
LEMMA TypeFacts ==
    ASSUME TypeOK
    PROVE  /\ clock \in Nat
           /\ \A l \in Logins : /\ attempts[l] \in Seq(Nat) /\ failed[l] \in Seq(Nat)
                                /\ Len(attempts[l]) \in Nat /\ Len(failed[l]) \in Nat
                                /\ InOrder(attempts[l]) /\ InOrder(failed[l])
           /\ \A r \in Requests : request[r] \in Request /\ InOrder(request[r].kept)
BY DEF TypeOK

\* A request that changes by itself, and stays a request.
LEMMA RequestChanges ==
    ASSUME TypeOK, NEW r \in Requests, NEW q \in Request, InOrder(q.kept),
           request' = [request EXCEPT ![r] = q],
           UNCHANGED <<clock, attempts, failed, restarts>>, disturbed' \subseteq Logins
    PROVE  TypeOK'
<1>1. request' \in [Requests -> Request]
  BY DEF TypeOK
<1>2. \A x \in Requests : InOrder(request[x].kept)'
  BY DEF TypeOK, InOrder
<1>3. \A l \in Logins : InOrder(attempts[l])' /\ InOrder(failed[l])'
  BY DEF TypeOK, InOrder
<1> QED BY <1>1, <1>2, <1>3 DEF TypeOK

\* A request that ends with a change of its login's lists.
LEMMA ListsChange ==
    ASSUME TypeOK, NEW r \in Requests, NEW l \in Logins,
           request' = [request EXCEPT ![r] = Idle],
           NEW s \in Seq(Nat), InOrder(s), attempts' = [attempts EXCEPT ![l] = s],
           NEW f \in Seq(Nat), InOrder(f), failed' = [failed EXCEPT ![l] = f],
           UNCHANGED <<clock, restarts>>, disturbed' \subseteq Logins
    PROVE  TypeOK'
<1>1. request' \in [Requests -> Request]
  BY IdleRequest DEF TypeOK
<1>2. \A x \in Requests : InOrder(request[x].kept)'
  BY IdleRequest, EmptyInOrder DEF TypeOK, InOrder
<1>3. attempts' \in [Logins -> Seq(Nat)] /\ failed' \in [Logins -> Seq(Nat)]
  BY DEF TypeOK
<1>4. \A m \in Logins : InOrder(attempts[m])' /\ InOrder(failed[m])'
  <2> SUFFICES ASSUME NEW m \in Logins PROVE InOrder(attempts[m])' /\ InOrder(failed[m])'
    OBVIOUS
  <2>1. CASE m = l
    <3>1. attempts'[m] = s /\ failed'[m] = f
      BY <2>1 DEF TypeOK
    <3> QED BY <3>1 DEF InOrder
  <2>2. CASE m # l
    <3>1. attempts'[m] = attempts[m] /\ failed'[m] = failed[m]
      BY <2>2 DEF TypeOK
    <3> QED BY <3>1, TypeFacts DEF InOrder
  <2> QED BY <2>1, <2>2
<1> QED BY <1>1, <1>2, <1>3, <1>4 DEF TypeOK

-----------------------------------------------------------------------------
(* What the steps do.                                                      *)

\* A check that passes.
LEMMA PassesStep ==
    ASSUME TypeOK, NEW r \in Requests, NEW l \in Logins, CheckPasses(r, l)
    PROVE  \E q \in Request :
             /\ request' = [request EXCEPT ![r] = q]
             /\ q.pc = "admitted" /\ q.login = l /\ q.kept = <<>>
<1> DEFINE q == [Idle EXCEPT !.pc = "admitted", !.login = l]
<1>1. request' = [request EXCEPT ![r] = q]
  BY DEF CheckPasses, Goto
<1>2. q \in Request /\ q.pc = "admitted" /\ q.login = l /\ q.kept = <<>>
  BY Sentinels, EmptyInOrder DEF Idle, Request
<1> HIDE DEF q
<1> QED BY <1>1, <1>2

\* A check that refuses: the request is answered, or trims the list first.
LEMMA RefusesStep ==
    ASSUME TypeOK, NEW r \in Requests, NEW l \in Logins, CheckRefuses(r, l)
    PROVE  \E q \in Request :
             /\ request' = [request EXCEPT ![r] = q]
             /\ q.login = l /\ q.kept = <<>>
             /\ \/ q.pc = "refused"
                \/ /\ q.pc = "slice" /\ Len(attempts[l]) > Limit
                   /\ q.index = Len(attempts[l]) - Limit
<1> DEFINE k == Len(attempts[l]) - Limit
<1>1. CASE Len(attempts[l]) > Limit
  <2> DEFINE q == [Idle EXCEPT !.pc = "slice", !.login = l, !.index = k]
  <2>1. request' = [request EXCEPT ![r] = q]
    BY <1>1 DEF CheckRefuses
  <2>2. k \in Nat /\ k > 0
    BY <1>1, TypeFacts, Numbers
  <2>3. q \in Request /\ q.pc = "slice" /\ q.login = l /\ q.index = k /\ q.kept = <<>>
    <3> HIDE DEF k
    <3> QED BY <2>2, Sentinels, EmptyInOrder DEF Idle, Request
  <2> HIDE DEF q
  <2> QED BY <1>1, <2>1, <2>3
<1>2. CASE ~(Len(attempts[l]) > Limit)
  <2> DEFINE q == [Idle EXCEPT !.pc = "refused", !.login = l]
  <2>1. request' = [request EXCEPT ![r] = q]
    BY <1>2 DEF CheckRefuses, Goto
  <2>2. q \in Request /\ q.pc = "refused" /\ q.login = l /\ q.kept = <<>>
    BY Sentinels, EmptyInOrder DEF Idle, Request
  <2> HIDE DEF q
  <2> QED BY <2>1, <2>2
<1> QED BY <1>1, <1>2

\* The end of the list is cut off.
LEMMA SliceStep ==
    ASSUME TypeOK, NEW r \in Requests, SliceAttempts(r)
    PROVE  LET l == request[r].login
               kept == KeepLast(attempts[l], request[r].index)
           IN  /\ l \in Logins /\ request[r].pc = "slice"
               /\ kept \in Seq(Nat) /\ InOrder(kept)
               /\ \E q \in Request :
                    /\ request' = [request EXCEPT ![r] = q]
                    /\ q.pc = "assign" /\ q.login = l /\ q.index = request[r].index /\ q.kept = kept
<1> DEFINE l == request[r].login
           kept == KeepLast(attempts[l], request[r].index)
           q == [request[r] EXCEPT !.pc = "assign", !.kept = kept]
<1>1. request[r] \in Request /\ request[r].pc = "slice"
  BY TypeFacts DEF SliceAttempts
<1>2. l \in Logins /\ request[r].index \in Nat
  BY <1>1, Holds
<1>3. request[r].index <= Len(attempts[l])
  BY DEF SliceAttempts
<1>4. kept \in Seq(Nat) /\ InOrder(kept)
  BY <1>2, <1>3, TypeFacts, KeptInOrder
<1>5. request' = [request EXCEPT ![r] = q]
  BY DEF SliceAttempts, TypeOK
<1> HIDE DEF kept
<1>6. /\ q \in Request /\ q.pc = "assign" /\ q.login = l
      /\ q.index = request[r].index /\ q.kept = kept
  BY <1>1, <1>4 DEF Request
<1> HIDE DEF q
<1> QED BY <1>1, <1>2, <1>4, <1>5, <1>6 DEF kept

\* A request that is admitted, or at work in the list, is about a login.
LEMMA LoginOfRequest ==
    ASSUME TypeOK, NEW r \in Requests, request[r].pc # "idle"
    PROVE  request[r].login \in Logins
BY Holds, TypeFacts

-----------------------------------------------------------------------------
(* Types, continued.                                                       *)

\* The steps of a request.
LEMMA RequestTypes ==
    ASSUME TypeOK, NEW r \in Requests,
           \/ \E l \in Logins : CheckPasses(r, l) \/ CheckRefuses(r, l)
           \/ SliceAttempts(r) \/ SlicePanics(r) \/ AssignAttempts(r) \/ AnswerRefusal(r)
           \/ LoginFails(r) \/ LoginSucceeds(r) \/ LoginIsUndecided(r)
    PROVE  TypeOK'
<1> DEFINE m == request[r].login
<1>1. ASSUME NEW l \in Logins, CheckPasses(r, l) PROVE TypeOK'
  <2>1. UNCHANGED <<clock, attempts, failed, restarts>> /\ disturbed' \subseteq Logins
    BY <1>1 DEF CheckPasses, TypeOK
  <2> QED BY <1>1, <2>1, PassesStep, EmptyInOrder, RequestChanges
<1>2. ASSUME NEW l \in Logins, CheckRefuses(r, l) PROVE TypeOK'
  <2>1. UNCHANGED <<clock, attempts, failed, restarts>> /\ disturbed' \subseteq Logins
    BY <1>2 DEF CheckRefuses, TypeOK
  <2> QED BY <1>2, <2>1, RefusesStep, EmptyInOrder, RequestChanges
<1>3. CASE SliceAttempts(r)
  <2>1. UNCHANGED <<clock, attempts, failed, restarts>> /\ disturbed' \subseteq Logins
    BY <1>3 DEF SliceAttempts, TypeOK
  <2>2. PICK q \in Request : request' = [request EXCEPT ![r] = q] /\ InOrder(q.kept)
    BY <1>3, SliceStep
  <2> QED BY <2>1, <2>2, RequestChanges
<1>4. CASE SlicePanics(r) \/ AnswerRefusal(r) \/ LoginIsUndecided(r)
  <2>1. UNCHANGED <<clock, attempts, failed, restarts>> /\ disturbed' \subseteq Logins
    BY <1>4 DEF SlicePanics, AnswerRefusal, LoginIsUndecided, TypeOK
  <2>2. request' = [request EXCEPT ![r] = Idle]
    BY <1>4 DEF SlicePanics, AnswerRefusal, LoginIsUndecided, Authenticates
  <2> QED BY <2>1, <2>2, IdleRequest, EmptyInOrder, RequestChanges
<1>5. CASE AssignAttempts(r)
  <2>1. m \in Logins /\ request[r].kept \in Seq(Nat) /\ InOrder(request[r].kept)
    BY <1>5, Holds, TypeFacts DEF AssignAttempts
  <2>2. /\ attempts' = [attempts EXCEPT ![m] = request[r].kept]
        /\ failed' = [failed EXCEPT ![m] = failed[m]]
        /\ request' = [request EXCEPT ![r] = Idle]
        /\ UNCHANGED <<clock, restarts>>
    BY <1>5, <2>1 DEF AssignAttempts, TypeOK
  <2>3. disturbed' \subseteq Logins
    BY <1>5, <2>1 DEF AssignAttempts, TypeOK
  <2> HIDE DEF m
  <2> QED BY <2>1, <2>2, <2>3, TypeFacts, ListsChange
<1>6. CASE LoginFails(r)
  <2>1. m \in Logins
    BY <1>6, LoginOfRequest DEF LoginFails, Authenticates
  <2>2. /\ attempts' = [attempts EXCEPT ![m] = Append(attempts[m], clock)]
        /\ failed' = [failed EXCEPT ![m] = Append(failed[m], clock)]
        /\ request' = [request EXCEPT ![r] = Idle]
        /\ UNCHANGED <<clock, restarts>>
    BY <1>6, <2>1 DEF LoginFails, RecordAttempt, Authenticates, TypeOK
  <2>3. disturbed' \subseteq Logins
    BY <1>6, <2>1 DEF LoginFails, TypeOK
  <2>4. /\ Append(attempts[m], clock) \in Seq(Nat) /\ InOrder(Append(attempts[m], clock))
        /\ Append(failed[m], clock) \in Seq(Nat) /\ InOrder(Append(failed[m], clock))
    BY <2>1, TypeFacts, AppendedInOrder
  <2> HIDE DEF m
  <2> QED BY <2>1, <2>2, <2>3, <2>4, ListsChange
<1>7. CASE LoginSucceeds(r)
  <2>1. m \in Logins
    BY <1>7, LoginOfRequest DEF LoginSucceeds, Authenticates
  <2>2. /\ attempts' = [attempts EXCEPT ![m] = <<>>]
        /\ failed' = [failed EXCEPT ![m] = <<>>]
        /\ request' = [request EXCEPT ![r] = Idle]
        /\ UNCHANGED <<clock, restarts>>
    BY <1>7, <2>1 DEF LoginSucceeds, ClearAttemptsForLogin, Authenticates
  <2>3. disturbed' \subseteq Logins
    BY <1>7, <2>1 DEF LoginSucceeds, TypeOK
  <2> HIDE DEF m
  <2> QED BY <2>1, <2>2, <2>3, EmptyInOrder, ListsChange
<1> QED BY <1>1, <1>2, <1>3, <1>4, <1>5, <1>6, <1>7

\* Every step keeps the types.
LEMMA NextTypes == TypeOK /\ [Next]_vars => TypeOK'
<1> SUFFICES ASSUME TypeOK, [Next]_vars PROVE TypeOK'
  OBVIOUS
<1>1. CASE Tick
  <2>1. clock' \in 0 .. MaxTime /\ clock' \in Nat /\ clock \in Nat /\ clock <= clock'
    BY <1>1, Numbers DEF Tick, TypeOK
  <2>2. \A l \in Logins : InOrder(attempts[l])' /\ InOrder(failed[l])'
    <3>1. UNCHANGED <<attempts, failed>>
      BY <1>1 DEF Tick
    <3>2. \A l \in Logins : InOrder(attempts[l]) /\ InOrder(failed[l])
      BY TypeFacts
    <3>3. \A n \in 0 .. clock : n \in 0 .. clock'
      BY <2>1
    <3>4. \A s : s \in Seq(0 .. clock) => s \in Seq(0 .. clock')
      BY <3>3, SeqOfSubset
    <3> QED BY <3>1, <3>2, <3>4 DEF InOrder
  <2>3. \A r \in Requests : InOrder(request[r].kept)'
    <3>1. UNCHANGED request
      BY <1>1 DEF Tick
    <3>2. \A r \in Requests : InOrder(request[r].kept)
      BY TypeFacts
    <3>3. \A n \in 0 .. clock : n \in 0 .. clock'
      BY <2>1
    <3>4. \A s : s \in Seq(0 .. clock) => s \in Seq(0 .. clock')
      BY <3>3, SeqOfSubset
    <3> QED BY <3>1, <3>2, <3>4 DEF InOrder
  <2> QED BY <1>1, <2>1, <2>2, <2>3 DEF Tick, TypeOK
<1>2. CASE Restart
  <2>1. \A l \in Logins : InOrder(attempts[l])' /\ InOrder(failed[l])'
    BY <1>2, EmptyInOrder DEF Restart, InOrder
  <2>2. request' \in [Requests -> Request] /\ \A r \in Requests : InOrder(request[r].kept)'
    BY <1>2, IdleRequest, EmptyInOrder DEF Restart, InOrder
  <2>3. attempts' \in [Logins -> Seq(Nat)] /\ failed' \in [Logins -> Seq(Nat)]
    BY <1>2, EmptyInOrder DEF Restart
  <2>4. restarts' \in 0 .. MaxRestarts
    BY <1>2, Numbers DEF Restart, TypeOK
  <2> QED BY <1>2, <2>1, <2>2, <2>3, <2>4 DEF Restart, TypeOK
<1>3. CASE UNCHANGED vars
  BY <1>3 DEF vars, TypeOK, InOrder
<1> QED BY <1>1, <1>2, <1>3, RequestTypes DEF Next

-----------------------------------------------------------------------------
(* The list that is trimmed agrees with the list of all failures.          *)

\* What the proofs rest on.
IInv == TypeOK /\ ListsAgree /\ MeasuredIsCurrent

\* The first state.
LEMMA InitIInv == Init => IInv
<1> SUFFICES ASSUME Init PROVE ListsAgree /\ MeasuredIsCurrent
  BY InitTypes DEF IInv
<1>1. IsEndOf(<<>>, <<>>)
  BY DEF IsEndOf
<1>2. ListsAgree
  BY <1>1 DEF Init, ListsAgree
<1>3. MeasuredIsCurrent
  BY IdleRequest DEF Init, MeasuredIsCurrent, IsCurrent
<1> QED BY <1>2, <1>3

\* A step of a request that leaves the lists alone.
LEMMA OnlyTheRequest ==
    ASSUME IInv, NEW r \in Requests, NEW q \in Request, IsCurrent(q),
           request' = [request EXCEPT ![r] = q], UNCHANGED <<attempts, failed, disturbed>>
    PROVE  ListsAgree' /\ MeasuredIsCurrent'
<1>1. ListsAgree'
  BY DEF IInv, ListsAgree, IsEndOf
<1>2. ASSUME NEW x \in Requests PROVE IsCurrent(request[x])'
  <2>1. request'[x] = q \/ request'[x] = request[x]
    BY DEF IInv, TypeOK
  <2> QED BY <2>1 DEF IInv, MeasuredIsCurrent, IsCurrent
<1> QED BY <1>1, <1>2 DEF MeasuredIsCurrent

\* A step of a request that writes the lists of its login and ends.  Either the login is
\* disturbed by it, or the lists agree again and no other request has measured the old one.
LEMMA ListsWritten ==
    ASSUME IInv, NEW r \in Requests, NEW s, NEW f,
           request[r].login \in Logins,
           request' = [request EXCEPT ![r] = Idle],
           attempts' = [attempts EXCEPT ![request[r].login] = s],
           failed' = [failed EXCEPT ![request[r].login] = f],
           \A l \in Logins : l # request[r].login => (l \in disturbed' <=> l \in disturbed),
           request[r].login \notin disturbed' => ~Disturbs(r) /\ IsEndOf(s, f)
    PROVE  ListsAgree' /\ MeasuredIsCurrent'
<1> DEFINE m == request[r].login
<1>1. /\ attempts'[m] = s /\ failed'[m] = f
      /\ \A l \in Logins \ {m} : attempts'[l] = attempts[l] /\ failed'[l] = failed[l]
  BY DEF IInv, TypeOK
<1>2. ASSUME NEW l \in Logins, l \notin disturbed' PROVE IsEndOf(attempts[l], failed[l])'
  <2>1. CASE l = m
    BY ZenonT(40), <1>1, <1>2, <2>1 DEF IsEndOf
  <2>2. CASE l # m
    <3>1. IsEndOf(attempts[l], failed[l])
      BY <1>2, <2>2 DEF IInv, ListsAgree
    <3> QED BY <1>1, <2>2, <3>1 DEF IsEndOf
  <2> QED BY <2>1, <2>2
<1>3. ASSUME NEW x \in Requests PROVE IsCurrent(request[x])'
  <2>1. CASE x = r
    <3>1. request'[x] = Idle
      BY <2>1 DEF IInv, TypeOK
    <3> QED BY <3>1, IdleRequest DEF IsCurrent
  <2>2. CASE x # r
    <3> DEFINE l == request[x].login
    <3>1. request'[x] = request[x]
      BY <2>2 DEF IInv, TypeOK
    <3>2. CASE request[x].pc \in {"slice", "assign"} /\ l \notin disturbed'
      <4>1. l \in Logins
        BY <3>2, LoginOfRequest DEF IInv
      <4>2. l # m
        BY <2>2, <3>2 DEF Disturbs
      <4>3. l \notin disturbed /\ attempts'[l] = attempts[l]
        BY <1>1, <3>2, <4>1, <4>2
      <4>4. IsCurrent(request[x])
        BY DEF IInv, MeasuredIsCurrent
      <4> QED BY <3>1, <3>2, <4>3, <4>4 DEF IsCurrent
    <3>3. CASE ~(request[x].pc \in {"slice", "assign"} /\ l \notin disturbed')
      BY <3>1, <3>3 DEF IsCurrent
    <3> QED BY <3>2, <3>3
  <2> QED BY <2>1, <2>2
<1> QED BY <1>2, <1>3 DEF ListsAgree, MeasuredIsCurrent

\* The steps of a request.
LEMMA RequestLists ==
    ASSUME IInv, NEW r \in Requests,
           \/ \E l \in Logins : CheckPasses(r, l) \/ CheckRefuses(r, l)
           \/ SliceAttempts(r) \/ SlicePanics(r) \/ AssignAttempts(r) \/ AnswerRefusal(r)
           \/ LoginFails(r) \/ LoginSucceeds(r) \/ LoginIsUndecided(r)
    PROVE  ListsAgree' /\ MeasuredIsCurrent'
<1> DEFINE m == request[r].login
           Goal == ListsAgree' /\ MeasuredIsCurrent'
<1>0. TypeOK /\ MeasuredIsCurrent /\ ListsAgree
  BY DEF IInv
<1>1. ASSUME NEW l \in Logins, CheckPasses(r, l) PROVE Goal
  <2>1. PICK q \in Request : request' = [request EXCEPT ![r] = q] /\ q.pc = "admitted"
    BY <1>0, <1>1, PassesStep
  <2>2. UNCHANGED <<attempts, failed, disturbed>>
    BY <1>1 DEF CheckPasses
  <2>3. IsCurrent(q)
    BY <2>1 DEF IsCurrent
  <2> QED BY <2>1, <2>2, <2>3, OnlyTheRequest
<1>2. ASSUME NEW l \in Logins, CheckRefuses(r, l) PROVE Goal
  <2>1. PICK q \in Request :
          /\ request' = [request EXCEPT ![r] = q] /\ q.login = l
          /\ \/ q.pc = "refused"
             \/ q.pc = "slice" /\ q.index = Len(attempts[l]) - Limit
    BY <1>0, <1>2, RefusesStep
  <2>2. UNCHANGED <<attempts, failed, disturbed>>
    BY <1>2 DEF CheckRefuses
  <2>3. IsCurrent(q)
    BY <2>1 DEF IsCurrent
  <2> QED BY <2>1, <2>2, <2>3, OnlyTheRequest
<1>3. CASE SliceAttempts(r)
  <2>1. PICK q \in Request :
          /\ request' = [request EXCEPT ![r] = q] /\ q.pc = "assign" /\ q.login = m
          /\ q.index = request[r].index /\ q.kept = KeepLast(attempts[m], request[r].index)
    BY <1>0, <1>3, SliceStep
  <2>2. UNCHANGED <<attempts, failed, disturbed>>
    BY <1>3 DEF SliceAttempts
  <2>3. IsCurrent(request[r]) /\ request[r].pc = "slice"
    BY <1>0, <1>3 DEF MeasuredIsCurrent, SliceAttempts
  <2>4. IsCurrent(q)
    BY <2>1, <2>3 DEF IsCurrent
  <2> QED BY <2>1, <2>2, <2>4, OnlyTheRequest
<1>4. CASE SlicePanics(r) \/ AnswerRefusal(r) \/ LoginIsUndecided(r)
  <2>1. UNCHANGED <<attempts, failed, disturbed>>
    BY <1>4 DEF SlicePanics, AnswerRefusal, LoginIsUndecided
  <2>2. request' = [request EXCEPT ![r] = Idle]
    BY <1>4 DEF SlicePanics, AnswerRefusal, LoginIsUndecided, Authenticates
  <2>3. IsCurrent(Idle)
    BY IdleRequest DEF IsCurrent
  <2> QED BY <2>1, <2>2, <2>3, IdleRequest, OnlyTheRequest
<1>5. CASE AssignAttempts(r)
  <2>1. m \in Logins /\ request[r].index > 0 /\ request[r].pc = "assign"
    BY <1>0, <1>5, Holds, TypeFacts DEF AssignAttempts
  <2>2. /\ attempts' = [attempts EXCEPT ![m] = request[r].kept]
        /\ failed' = [failed EXCEPT ![m] = failed[m]]
        /\ request' = [request EXCEPT ![r] = Idle]
    BY <1>0, <1>5, <2>1 DEF AssignAttempts, TypeOK
  <2>3. disturbed' = IF Disturbs(r) THEN disturbed \cup {m} ELSE disturbed
    BY <1>5 DEF AssignAttempts
  <2>4. ASSUME m \notin disturbed' PROVE ~Disturbs(r) /\ IsEndOf(request[r].kept, failed[m])
    <3>1. ~Disturbs(r) /\ m \notin disturbed
      BY <2>3, <2>4
    <3>2. /\ request[r].index = Len(attempts[m]) - Limit
          /\ request[r].kept = KeepLast(attempts[m], request[r].index)
      BY <1>0, <2>1, <3>1 DEF MeasuredIsCurrent, IsCurrent
    <3>3. IsEndOf(attempts[m], failed[m])
      BY <1>0, <2>1, <3>1 DEF ListsAgree
    <3>4. Len(attempts[m]) > Limit
      BY <1>0, <2>1, <3>2, TypeFacts, Numbers
    <3>5. attempts[m] \in Seq(Nat) /\ failed[m] \in Seq(Nat)
      BY <1>0, <2>1, TypeFacts
    <3> QED BY <3>1, <3>2, <3>3, <3>4, <3>5, EndTrimmed
  <2>5. \A l \in Logins : l # m => (l \in disturbed' <=> l \in disturbed)
    BY <2>3
  <2> QED BY <2>1, <2>2, <2>4, <2>5, ListsWritten
<1>6. CASE LoginFails(r)
  <2>1. m \in Logins
    BY <1>0, <1>6, LoginOfRequest DEF LoginFails, Authenticates
  <2>2. /\ attempts' = [attempts EXCEPT ![m] = Append(attempts[m], clock)]
        /\ failed' = [failed EXCEPT ![m] = Append(failed[m], clock)]
        /\ request' = [request EXCEPT ![r] = Idle]
    BY <1>0, <1>6, <2>1 DEF LoginFails, RecordAttempt, Authenticates, TypeOK
  <2>3. disturbed' = IF Disturbs(r) THEN disturbed \cup {m} ELSE disturbed
    BY <1>6 DEF LoginFails
  <2>4. ASSUME m \notin disturbed'
        PROVE  ~Disturbs(r) /\ IsEndOf(Append(attempts[m], clock), Append(failed[m], clock))
    <3>1. ~Disturbs(r) /\ m \notin disturbed
      BY <2>3, <2>4
    <3>2. IsEndOf(attempts[m], failed[m])
      BY <1>0, <2>1, <3>1 DEF ListsAgree
    <3> QED BY <1>0, <2>1, <3>1, <3>2, TypeFacts, EndGrows
  <2>5. \A l \in Logins : l # m => (l \in disturbed' <=> l \in disturbed)
    BY <2>3
  <2> QED BY <2>1, <2>2, <2>4, <2>5, ListsWritten
<1>7. CASE LoginSucceeds(r)
  <2>1. m \in Logins
    BY <1>0, <1>7, LoginOfRequest DEF LoginSucceeds, Authenticates
  <2>2. /\ attempts' = [attempts EXCEPT ![m] = <<>>]
        /\ failed' = [failed EXCEPT ![m] = <<>>]
        /\ request' = [request EXCEPT ![r] = Idle]
    BY <1>7, <2>1 DEF LoginSucceeds, ClearAttemptsForLogin, Authenticates
  <2>3. disturbed' = IF Disturbs(r) THEN disturbed \cup {m} ELSE disturbed \ {m}
    BY <1>7 DEF LoginSucceeds
  <2>4. m \notin disturbed' => ~Disturbs(r) /\ IsEndOf(<<>>, <<>>)
    BY <2>3 DEF IsEndOf
  <2>5. \A l \in Logins : l # m => (l \in disturbed' <=> l \in disturbed)
    BY <2>3
  <2> QED BY <2>1, <2>2, <2>4, <2>5, ListsWritten
<1> QED BY <1>1, <1>2, <1>3, <1>4, <1>5, <1>6, <1>7

\* Every step.
LEMMA NextIInv == IInv /\ [Next]_vars => IInv'
<1> SUFFICES ASSUME IInv, [Next]_vars PROVE IInv'
  OBVIOUS
<1>1. TypeOK'
  BY NextTypes DEF IInv
<1>2. CASE UNCHANGED <<attempts, failed, disturbed, request>>
  <2>1. ListsAgree' /\ MeasuredIsCurrent'
    BY <1>2 DEF IInv, ListsAgree, IsEndOf, MeasuredIsCurrent, IsCurrent
  <2> QED BY <1>1, <2>1 DEF IInv
<1>3. CASE Restart
  <2>1. IsEndOf(<<>>, <<>>)
    BY DEF IsEndOf
  <2>2. ListsAgree'
    BY <1>3, <2>1 DEF Restart, ListsAgree, IsEndOf
  <2>3. MeasuredIsCurrent'
    BY <1>3, IdleRequest DEF Restart, MeasuredIsCurrent, IsCurrent
  <2> QED BY <1>1, <2>2, <2>3 DEF IInv
<1>4. CASE Tick
  BY <1>2, <1>4 DEF Tick
<1>5. CASE UNCHANGED vars
  BY <1>2, <1>5 DEF vars
<1> QED BY <1>1, <1>3, <1>4, <1>5, RequestLists DEF IInv, Next

\* The inductive invariant holds.
LEMMA Inductive == Spec => []IInv
<1>1. Init => IInv
  BY InitIInv
<1>2. IInv /\ [Next]_vars => IInv'
  BY NextIInv
<1> QED BY <1>1, <1>2, PTL DEF Spec

\* The lists are in the order of time and requests work with lists of their logins
\* (rest/login/attempt.go).
THEOREM AttemptTypes == Spec => []TypeOK
<1>1. IInv => TypeOK
  BY DEF IInv
<1> QED BY <1>1, Inductive, PTL

-----------------------------------------------------------------------------
(* Requests that are sent at once.                                         *)

\* The check decides as the list of all failures would, unless the login is disturbed.
LEMMA FailuresDecide ==
    ASSUME IInv, NEW l \in Logins, l \notin disturbed
    PROVE  TooMany(l) <=> ReachesLimit(LoginAttemptsSince(failed[l], clock))
<1> DEFINE s == attempts[l]
           all == failed[l]
<1>1. /\ clock \in Nat /\ s \in Seq(Nat) /\ all \in Seq(Nat)
      /\ InOrder(s) /\ InOrder(all)
  BY TypeFacts DEF IInv
<1>2. IsEndOf(s, all)
  BY DEF IInv, ListsAgree
<1>3. /\ \A i, j \in DOMAIN s : i <= j => s[i] <= s[j]
      /\ \A i, j \in DOMAIN all : i <= j => all[i] <= all[j]
  BY <1>1 DEF InOrder
<1> QED BY <1>1, <1>2, <1>3, EndDecides DEF TooMany

\* A failure is one more attempt at most.
LEMMA OneMore ==
    ASSUME NEW s \in Seq(Nat), NEW t \in Nat
    PROVE  LoginAttemptsSince(Append(s, t), t) <= LoginAttemptsSince(s, t) + 1
<1> DEFINE R == Recent(s, t)
           Q == Recent(Append(s, t), t)
<1>1. Append(s, t) \in Seq(Nat)
  OBVIOUS
<1>2. /\ IsFiniteSet(R) /\ LoginAttemptsSince(s, t) = Cardinality(R) /\ Cardinality(R) \in Nat
      /\ LoginAttemptsSince(Append(s, t), t) = Cardinality(Q)
  BY <1>1, RecentIsFinite
<1>3. Q \subseteq R \cup {Len(s) + 1}
  BY DEF Recent
<1>4. /\ IsFiniteSet(R \cup {Len(s) + 1})
      /\ Cardinality(R \cup {Len(s) + 1}) = Cardinality(R) \/
           Cardinality(R \cup {Len(s) + 1}) = Cardinality(R) + 1
  <2> HIDE DEF R
  <2> QED BY <1>2, FS_AddElement
<1>5. Cardinality(Q) <= Cardinality(R \cup {Len(s) + 1}) /\ Cardinality(Q) \in Nat
  BY <1>3, <1>4, FS_Subset, FS_CardinalityType
<1> HIDE DEF Q, R
<1> QED BY <1>2, <1>4, <1>5

\* Attempts that have left the window do not come back into it.
LEMMA AttemptsAge ==
    ASSUME NEW s \in Seq(Nat), NEW t \in Nat
    PROVE  LoginAttemptsSince(s, t + 1) <= LoginAttemptsSince(s, t)
<1>1. /\ IsFiniteSet(Recent(s, t))
      /\ LoginAttemptsSince(s, t) = Cardinality(Recent(s, t))
      /\ LoginAttemptsSince(s, t + 1) = Cardinality(Recent(s, t + 1))
  BY RecentIsFinite
<1>2. Recent(s, t + 1) \subseteq Recent(s, t)
  <2>1. \A i \in DOMAIN s : s[i] \in Nat
    OBVIOUS
  <2> QED BY <2>1, Numbers DEF Recent
<1> QED BY <1>1, <1>2, FS_Subset

\* An empty list has no attempts.
LEMMA NoAttempts == \A t : LoginAttemptsSince(<<>>, t) = 0
<1>1. \A t : {i \in DOMAIN <<>> : t - <<>>[i] <= Window} = {}
  OBVIOUS
<1> QED BY <1>1, FS_EmptySet DEF LoginAttemptsSince

\* The requests that Admitted counts, of the requests and logins of a state.
AdmittedOf(requests, l) ==
    {r \in Requests : requests[r].pc = "admitted" /\ requests[r].login = l}

\* There are as many as requests at most, and no more in a smaller set.
LEMMA AdmittedIsFinite ==
    ASSUME NEW requests, NEW l
    PROVE  LET A == AdmittedOf(requests, l) IN
           /\ IsFiniteSet(A) /\ Cardinality(A) \in Nat
           /\ Cardinality(Requests) \in Nat /\ Cardinality(A) <= Cardinality(Requests)
           /\ \A B \in SUBSET A : Cardinality(B) \in Nat /\ Cardinality(B) <= Cardinality(A)
<1> DEFINE A == AdmittedOf(requests, l)
<1>1. A \subseteq Requests
  BY DEF AdmittedOf
<1> HIDE DEF A
<1>2. IsFiniteSet(A) /\ Cardinality(A) <= Cardinality(Requests)
  BY <1>1, FiniteRequests, FS_Subset
<1>3. \A B \in SUBSET A : IsFiniteSet(B) /\ Cardinality(B) <= Cardinality(A)
  BY <1>2, FS_Subset
<1> QED BY <1>2, <1>3, FiniteRequests, FS_CardinalityType DEF A

\* The bound, in a state that is made of these parts.
Bound(requests, failures, t, l) ==
    LoginAttemptsSince(failures, t) + Cardinality(AdmittedOf(requests, l))
        <= Limit - 1 + Cardinality(Requests)

\* Few failures leave room for all requests.
LEMMA FewFailures ==
    ASSUME NEW requests, NEW l, NEW f \in Seq(Nat), NEW t \in Nat,
           ~ReachesLimit(LoginAttemptsSince(f, t))
    PROVE  Bound(requests, f, t, l)
<1>1. Limit \in Nat /\ LoginAttemptsSince(f, t) \in Nat
  BY Numbers, RecentIsFinite
<1> QED BY <1>1, AdmittedIsFinite DEF ReachesLimit, Bound

\* The bound with the counters of the model.
LEMMA BoundIsTries ==
    /\ TriesAreBounded <=> \A l \in Logins \ disturbed : Bound(request, failed[l], clock, l)
    /\ TriesAreBounded' <=> \A l \in Logins \ disturbed' : Bound(request', failed'[l], clock', l)
BY DEF TriesAreBounded, Bound, Admitted, AdmittedOf, LoginAttemptsSince

\* A step that admits no request to a login and leaves its failures alone.
LEMMA NobodyAdmitted ==
    ASSUME TypeOK, NEW l \in Logins, Bound(request, failed[l], clock, l),
           AdmittedOf(request', l) \subseteq AdmittedOf(request, l),
           failed'[l] = failed[l], clock' = clock \/ clock' = clock + 1
    PROVE  Bound(request', failed'[l], clock', l)
<1>1. failed[l] \in Seq(Nat) /\ clock \in Nat /\ Limit \in Nat
  BY TypeFacts, Numbers
<1> DEFINE now == LoginAttemptsSince(failed[l], clock)
           then == LoginAttemptsSince(failed[l], clock')
<1>2. now \in Nat /\ then \in Nat /\ then <= now
  <2>1. now \in Nat
    BY <1>1, RecentIsFinite
  <2>2. CASE clock' = clock
    BY <2>1, <2>2
  <2>3. CASE clock' = clock + 1
    <3>1. LoginAttemptsSince(failed[l], clock + 1) \in Nat
      <4>1. clock + 1 \in Nat
        BY <1>1
      <4> QED BY <1>1, <4>1, RecentIsFinite
    <3>2. LoginAttemptsSince(failed[l], clock + 1) <= now
      BY <1>1, AttemptsAge
    <3> QED BY <2>1, <2>3, <3>1, <3>2
  <2> QED BY <2>2, <2>3
<1> HIDE DEF now, then
<1>3. /\ Cardinality(AdmittedOf(request', l)) <= Cardinality(AdmittedOf(request, l))
      /\ Cardinality(AdmittedOf(request', l)) \in Nat /\ Cardinality(AdmittedOf(request, l)) \in Nat
      /\ Cardinality(Requests) \in Nat
  BY AdmittedIsFinite
<1>4. now + Cardinality(AdmittedOf(request, l)) <= Limit - 1 + Cardinality(Requests)
  BY DEF Bound, now
<1>5. then + Cardinality(AdmittedOf(request', l)) <= Limit - 1 + Cardinality(Requests)
  BY <1>1, <1>2, <1>3, <1>4
<1> QED BY <1>5 DEF Bound, then

\* Which requests a request that changes leaves admitted.
LEMMA AdmittedAfter ==
    ASSUME TypeOK, NEW r \in Requests, NEW q, request' = [request EXCEPT ![r] = q], NEW l
    PROVE  /\ ~(q.pc = "admitted" /\ q.login = l) =>
                AdmittedOf(request', l) = AdmittedOf(request, l) \ {r}
           /\ \A x \in AdmittedOf(request', l) : x = r \/ x \in AdmittedOf(request, l)
BY DEF AdmittedOf, TypeOK

\* The steps of a request.
LEMMA RequestIsBounded ==
    ASSUME IInv, TriesAreBounded, NEW r \in Requests,
           \/ \E l \in Logins : CheckPasses(r, l) \/ CheckRefuses(r, l)
           \/ SliceAttempts(r) \/ SlicePanics(r) \/ AssignAttempts(r) \/ AnswerRefusal(r)
           \/ LoginFails(r) \/ LoginSucceeds(r) \/ LoginIsUndecided(r),
           NEW l \in Logins \ disturbed'
    PROVE  Bound(request', failed'[l], clock', l)
<1> DEFINE m == request[r].login
           Goal == Bound(request', failed'[l], clock', l)
<1>0. /\ TypeOK /\ l \in Logins /\ clock \in Nat /\ failed[l] \in Seq(Nat)
      /\ l \notin disturbed => Bound(request, failed[l], clock, l)
  BY TypeFacts, BoundIsTries DEF IInv
<1>1. ASSUME NEW k \in Logins, CheckPasses(r, k) PROVE Goal
  <2>1. PICK q \in Request :
          request' = [request EXCEPT ![r] = q] /\ q.pc = "admitted" /\ q.login = k
    BY <1>0, <1>1, PassesStep
  <2>2. UNCHANGED <<clock, failed>> /\ l \notin disturbed /\ ~TooMany(k)
    BY <1>1 DEF CheckPasses
  <2>3. CASE l = k
    <3>1. ~ReachesLimit(LoginAttemptsSince(failed[l], clock))
      BY <1>0, <2>2, <2>3, FailuresDecide
    <3> QED BY <1>0, <2>2, <3>1, FewFailures
  <2>4. CASE l # k
    <3>1. AdmittedOf(request', l) \subseteq AdmittedOf(request, l)
      BY <1>0, <2>1, <2>4, AdmittedAfter
    <3> QED BY <1>0, <2>2, <3>1, NobodyAdmitted
  <2> QED BY <2>3, <2>4
<1>2. ASSUME NEW k \in Logins, CheckRefuses(r, k) PROVE Goal
  <2>1. PICK q \in Request :
          request' = [request EXCEPT ![r] = q] /\ q.pc # "admitted"
    BY <1>0, <1>2, RefusesStep
  <2>2. UNCHANGED <<clock, failed>> /\ l \notin disturbed
    BY <1>2 DEF CheckRefuses
  <2>3. AdmittedOf(request', l) \subseteq AdmittedOf(request, l)
    BY <1>0, <2>1, AdmittedAfter
  <2> QED BY <1>0, <2>2, <2>3, NobodyAdmitted
<1>3. CASE SliceAttempts(r)
  <2>1. PICK q \in Request :
          request' = [request EXCEPT ![r] = q] /\ q.pc # "admitted"
    BY <1>0, <1>3, SliceStep
  <2>2. UNCHANGED <<clock, failed>> /\ l \notin disturbed
    BY <1>3 DEF SliceAttempts
  <2>3. AdmittedOf(request', l) \subseteq AdmittedOf(request, l)
    BY <1>0, <2>1, AdmittedAfter
  <2> QED BY <1>0, <2>2, <2>3, NobodyAdmitted
<1>4. CASE SlicePanics(r) \/ AnswerRefusal(r) \/ LoginIsUndecided(r) \/ AssignAttempts(r)
  <2>1. request' = [request EXCEPT ![r] = Idle]
    BY <1>4 DEF SlicePanics, AnswerRefusal, LoginIsUndecided, Authenticates, AssignAttempts
  <2>2. UNCHANGED <<clock, failed>> /\ l \notin disturbed
    BY <1>4 DEF SlicePanics, AnswerRefusal, LoginIsUndecided, AssignAttempts
  <2>3. AdmittedOf(request', l) \subseteq AdmittedOf(request, l)
    BY <1>0, <2>1, IdleRequest, AdmittedAfter
  <2> QED BY <1>0, <2>2, <2>3, NobodyAdmitted
<1>5. CASE LoginFails(r)
  <2>1. /\ request' = [request EXCEPT ![r] = Idle]
        /\ request[r].pc = "admitted" /\ m \in Logins
        /\ UNCHANGED clock /\ l \notin disturbed
    BY <1>0, <1>5, LoginOfRequest DEF LoginFails, Authenticates
  <2>2. failed' = [failed EXCEPT ![m] = Append(failed[m], clock)]
    BY <1>0, <1>5, <2>1 DEF LoginFails, TypeOK
  <2>3. AdmittedOf(request', l) = AdmittedOf(request, l) \ {r}
    BY <1>0, <2>1, IdleRequest, AdmittedAfter
  <2>4. CASE l # m
    <3>1. failed'[l] = failed[l]
      BY <2>2, <2>4 DEF IInv, TypeOK
    <3> QED BY <1>0, <2>1, <2>3, <3>1, NobodyAdmitted
  <2>5. CASE l = m
    <3> DEFINE A == AdmittedOf(request, l)
               now == LoginAttemptsSince(failed[l], clock)
               then == LoginAttemptsSince(Append(failed[l], clock), clock)
    <3>1. failed'[l] = Append(failed[l], clock)
      BY <2>2, <2>5 DEF IInv, TypeOK
    <3>2. r \in A /\ IsFiniteSet(A) /\ Cardinality(A) \in Nat /\ Cardinality(Requests) \in Nat
      BY <2>1, <2>5, AdmittedIsFinite DEF AdmittedOf
    <3>3. now \in Nat /\ then \in Nat /\ then <= now + 1
      <4>1. Append(failed[l], clock) \in Seq(Nat)
        BY <1>0
      <4> QED BY <1>0, <4>1, RecentIsFinite, OneMore
    <3>4. now + Cardinality(A) <= Limit - 1 + Cardinality(Requests)
      BY <1>0, <2>1 DEF Bound
    <3> HIDE DEF A, now, then
    <3>5. Cardinality(A \ {r}) = Cardinality(A) - 1
      BY <3>2, FS_RemoveElement
    <3>6. then + Cardinality(A \ {r}) <= Limit - 1 + Cardinality(Requests)
      BY <3>2, <3>3, <3>4, <3>5, Numbers
    <3> QED BY <2>1, <2>3, <3>1, <3>6 DEF Bound, A, then
  <2> QED BY <2>4, <2>5
<1>6. CASE LoginSucceeds(r)
  <2>1. /\ request' = [request EXCEPT ![r] = Idle]
        /\ m \in Logins /\ UNCHANGED clock
        /\ l # m => l \notin disturbed
    BY <1>0, <1>6, LoginOfRequest DEF LoginSucceeds, Authenticates
  <2>2. failed' = [failed EXCEPT ![m] = <<>>]
    BY <1>6 DEF LoginSucceeds
  <2>3. CASE l # m
    <3>1. failed'[l] = failed[l]
      BY <2>2, <2>3 DEF IInv, TypeOK
    <3>2. AdmittedOf(request', l) \subseteq AdmittedOf(request, l)
      BY <1>0, <2>1, IdleRequest, AdmittedAfter
    <3> QED BY <1>0, <2>1, <2>3, <3>1, <3>2, NobodyAdmitted
  <2>4. CASE l = m
    <3>1. failed'[l] = <<>>
      BY <2>2, <2>4 DEF IInv, TypeOK
    <3>2. ~ReachesLimit(LoginAttemptsSince(<<>>, clock))
      BY NoAttempts, Numbers DEF ReachesLimit
    <3> QED BY <1>0, <2>1, <3>1, <3>2, EmptyInOrder, FewFailures
  <2> QED BY <2>3, <2>4
<1> QED BY <1>1, <1>2, <1>3, <1>4, <1>5, <1>6

\* Every step.
LEMMA NextIsBounded == IInv /\ TriesAreBounded /\ [Next]_vars => TriesAreBounded'
<1> SUFFICES ASSUME IInv, TriesAreBounded, [Next]_vars, NEW l \in Logins \ disturbed'
             PROVE  Bound(request', failed'[l], clock', l)
  BY BoundIsTries
<1>0. TypeOK /\ (l \notin disturbed => Bound(request, failed[l], clock, l))
  BY BoundIsTries DEF IInv
<1>1. CASE Tick
  <2>1. UNCHANGED <<request, failed, disturbed>> /\ clock' = clock + 1
    BY <1>1 DEF Tick
  <2> QED BY <1>0, <2>1, NobodyAdmitted
<1>2. CASE Restart
  <2>1. failed'[l] = <<>> /\ clock' = clock /\ clock \in Nat
    BY <1>0, <1>2, TypeFacts DEF Restart
  <2>2. ~ReachesLimit(LoginAttemptsSince(<<>>, clock))
    BY NoAttempts, Numbers DEF ReachesLimit
  <2> QED BY <2>1, <2>2, EmptyInOrder, FewFailures
<1>3. CASE UNCHANGED vars
  <2>1. UNCHANGED <<request, failed, disturbed, clock>>
    BY <1>3 DEF vars
  <2> QED BY <1>0, <2>1
<1> QED BY <1>1, <1>2, <1>3, RequestIsBounded DEF Next

\* Requests that are sent at once all pass the check before any is recorded.  However
\* they are interleaved, the failures of the last three minutes and the tries under way
\* are fewer than the limit and one for each request (rest/auth.go:39-68).
THEOREM TriesStayBounded == Spec => []TriesAreBounded
<1>1. Init => TriesAreBounded
  <2> SUFFICES ASSUME Init, NEW l \in Logins PROVE Bound(request, failed[l], clock, l)
    BY BoundIsTries
  <2>1. failed[l] = <<>> /\ clock = 0
    BY DEF Init
  <2>2. ~ReachesLimit(LoginAttemptsSince(<<>>, 0))
    BY NoAttempts, Numbers DEF ReachesLimit
  <2> QED BY <2>1, <2>2, EmptyInOrder, FewFailures
<1>2. IInv /\ TriesAreBounded /\ [Next]_vars => TriesAreBounded'
  BY NextIsBounded
<1> QED BY <1>1, <1>2, Inductive, PTL DEF Spec

-----------------------------------------------------------------------------
(* The promise of LoginLimit is kept.                                      *)

\* What LoginLimit sees of the requests.
Try(q) == [status |-> Status(q.pc), login |-> q.login]

Tries == [r \in Requests |-> Try(request[r])]

\* A request that LoginLimit does not see is idle.
LEMMA IdleIsNoTry ==
    ASSUME NEW q \in Request
    PROVE  /\ q.pc = "idle" => Try(q) = Promise!NoTry
           /\ q.pc # "idle" => Try(q).status # "none"
<1>1. q.pc = "idle" => q.login = NoLogin
  BY Holds
<1> QED BY <1>1, Holds DEF Try, Status, Promise!NoTry

\* A request that changes, changes its try.
LEMMA TryChanges ==
    ASSUME TypeOK, NEW r \in Requests, NEW q \in Request, request' = [request EXCEPT ![r] = q]
    PROVE  Tries' = [Tries EXCEPT ![r] = Try(q)]
<1>1. \A x \in Requests : request'[x] = IF x = r THEN q ELSE request[x]
  BY DEF TypeOK
<1>2. \A x \in Requests : Try(request[x])' = IF x = r THEN Try(q) ELSE Try(request[x])
  BY <1>1 DEF Try, Status
<1>3. Tries' = [x \in Requests |-> IF x = r THEN Try(q) ELSE Try(request[x])]
  BY <1>2 DEF Tries
<1> QED BY <1>3 DEF Tries

\* A request that ends has no try any more.
LEMMA TryEnds ==
    ASSUME TypeOK, NEW r \in Requests, request' = [request EXCEPT ![r] = Idle]
    PROVE  Tries' = [Tries EXCEPT ![r] = Promise!NoTry]
BY TryChanges, IdleRequest, IdleIsNoTry

\* A login that is disturbed is one another request is refused for.
LEMMA DisturbsIsRefused ==
    ASSUME TypeOK, NEW r \in Requests, Disturbs(r)
    PROVE  \E q \in Requests \ {r} : Tries[q] = [status |-> "refused", login |-> Tries[r].login]
<1>1. PICK q \in Requests \ {r} :
        request[q].pc \in {"slice", "assign"} /\ request[q].login = request[r].login
  BY DEF Disturbs
<1>2. Status(request[q].pc) = "refused"
  BY <1>1 DEF Status
<1> QED BY <1>1, <1>2 DEF Tries, Try

\* The check decides as LoginLimit does, unless the login is disturbed.
LEMMA ChecksAgree ==
    ASSUME IInv, NEW l \in Logins, l \notin disturbed
    PROVE  TooMany(l) <=> Promise!Blocked(l)
<1>1. TooMany(l) <=> ReachesLimit(LoginAttemptsSince(failed[l], clock))
  BY FailuresDecide
<1>2. \A S : Promise!Cardinality(S) = Cardinality(S)
  BY DEF Cardinality, Promise!Cardinality
<1> QED BY <1>1, <1>2 DEF ReachesLimit, LoginAttemptsSince, Promise!Blocked, Promise!Recent

\* The first state.
LEMMA InitPromise == Init => Promise!Init
<1> SUFFICES ASSUME Init PROVE Promise!Init
  OBVIOUS
<1>1. \A r \in Requests : Try(request[r]) = Promise!NoTry
  BY IdleRequest, IdleIsNoTry DEF Init
<1>2. Tries = [r \in Requests |-> Promise!NoTry]
  BY <1>1 DEF Tries
<1> QED BY <1>2 DEF Init, Promise!Init, Tries, Try

\* A step of a request is one of LoginLimit, or none.
LEMMA RequestKeepsPromise ==
    ASSUME IInv, NEW r \in Requests,
           \/ \E l \in Logins : CheckPasses(r, l) \/ CheckRefuses(r, l)
           \/ SliceAttempts(r) \/ SlicePanics(r) \/ AssignAttempts(r) \/ AnswerRefusal(r)
           \/ LoginFails(r) \/ LoginSucceeds(r) \/ LoginIsUndecided(r)
    PROVE  \/ \E l \in Logins : Promise!Admit(r, l) \/ Promise!Refuse(r, l)
           \/ Promise!Fail(r) \/ Promise!Succeed(r) \/ Promise!Return(r)
           \/ UNCHANGED Promise!vars
<1> DEFINE m == request[r].login
<1>0. /\ TypeOK /\ request[r] \in Request
      /\ Tries[r].status = Status(request[r].pc) /\ Tries[r].login = m
  BY TypeFacts DEF IInv, Tries, Try
<1>1. ASSUME NEW l \in Logins, CheckPasses(r, l) PROVE Promise!Admit(r, l)
  <2>1. PICK q \in Request :
          request' = [request EXCEPT ![r] = q] /\ q.pc = "admitted" /\ q.login = l
    BY <1>0, <1>1, PassesStep
  <2>2. Tries' = [Tries EXCEPT ![r] = [status |-> "admitted", login |-> l]]
    BY <1>0, <2>1, TryChanges DEF Try, Status
  <2>3. Tries[r] = Promise!NoTry
    BY <1>0, <1>1, IdleIsNoTry DEF CheckPasses, Tries
  <2>4. UNCHANGED <<clock, failed, disturbed>> /\ (~Promise!Blocked(l) \/ l \in disturbed)
    BY <1>1, ChecksAgree DEF CheckPasses
  <2> QED BY <2>2, <2>3, <2>4 DEF Promise!Admit, Promise!Decide, Tries, Try
<1>2. ASSUME NEW l \in Logins, CheckRefuses(r, l) PROVE Promise!Refuse(r, l)
  <2>1. PICK q \in Request :
          request' = [request EXCEPT ![r] = q] /\ q.pc \in {"refused", "slice"} /\ q.login = l
    BY <1>0, <1>2, RefusesStep
  <2>2. Tries' = [Tries EXCEPT ![r] = [status |-> "refused", login |-> l]]
    BY <1>0, <2>1, TryChanges DEF Try, Status
  <2>3. Tries[r] = Promise!NoTry
    BY <1>0, <1>2, IdleIsNoTry DEF CheckRefuses, Tries
  <2>4. UNCHANGED <<clock, failed, disturbed>> /\ (Promise!Blocked(l) \/ l \in disturbed)
    BY <1>2, ChecksAgree DEF CheckRefuses
  <2> QED BY <2>2, <2>3, <2>4 DEF Promise!Refuse, Promise!Decide, Tries, Try
<1>3. ASSUME SliceAttempts(r) PROVE UNCHANGED Promise!vars
  <2>1. PICK q \in Request :
          request' = [request EXCEPT ![r] = q] /\ q.pc = "assign" /\ q.login = m
    BY <1>0, <1>3, SliceStep
  <2>2. Try(q) = Tries[r]
    BY <1>0, <1>3, <2>1 DEF SliceAttempts, Tries, Try, Status
  <2>3. Tries' = [Tries EXCEPT ![r] = Tries[r]]
    BY <1>0, <2>1, <2>2, TryChanges
  <2>4. Tries' = Tries
    BY <2>3 DEF Tries
  <2>5. UNCHANGED <<clock, failed, disturbed>>
    BY <1>3 DEF SliceAttempts
  <2> QED BY <2>4, <2>5 DEF Promise!vars, Tries, Try
<1>4. ASSUME SlicePanics(r) \/ AnswerRefusal(r) \/ LoginIsUndecided(r) PROVE Promise!Return(r)
  <2>1. request' = [request EXCEPT ![r] = Idle] /\ request[r].pc # "idle"
    BY <1>4 DEF SlicePanics, AnswerRefusal, LoginIsUndecided, Authenticates
  <2>2. Tries' = [Tries EXCEPT ![r] = Promise!NoTry] /\ Tries[r].status # "none"
    BY <1>0, <2>1, TryEnds, IdleIsNoTry DEF Tries
  <2>3. UNCHANGED <<clock, failed, disturbed>>
    BY <1>4 DEF SlicePanics, AnswerRefusal, LoginIsUndecided
  <2> QED BY <2>2, <2>3 DEF Promise!Return, Promise!Answer, Tries, Try
<1>5. ASSUME AssignAttempts(r) PROVE Promise!Return(r)
  <2>1. request' = [request EXCEPT ![r] = Idle] /\ request[r].pc = "assign"
    BY <1>5 DEF AssignAttempts
  <2>2. Tries' = [Tries EXCEPT ![r] = Promise!NoTry] /\ Tries[r].status = "refused"
    BY <1>0, <2>1, TryEnds DEF Status
  <2>3. UNCHANGED <<clock, failed>>
    BY <1>5 DEF AssignAttempts
  <2>4. UNCHANGED disturbed \/ (Disturbs(r) /\ disturbed' = disturbed \cup {Tries[r].login})
    BY <1>0, <1>5 DEF AssignAttempts
  <2>5. Disturbs(r) => Promise!AnotherRefused(r)
    BY <1>0, DisturbsIsRefused DEF Promise!AnotherRefused, Tries, Try
  <2> QED BY <2>2, <2>3, <2>4, <2>5 DEF Promise!Return, Promise!Answer, Tries, Try
<1>6. ASSUME LoginFails(r) PROVE Promise!Fail(r)
  <2>1. request' = [request EXCEPT ![r] = Idle] /\ request[r].pc = "admitted"
    BY <1>6 DEF LoginFails, Authenticates
  <2>2. Tries' = [Tries EXCEPT ![r] = Promise!NoTry] /\ Tries[r].status = "admitted"
    BY <1>0, <2>1, TryEnds DEF Status
  <2>3. UNCHANGED clock /\ failed' = [failed EXCEPT ![Tries[r].login] = Append(@, clock)]
    BY <1>0, <1>6 DEF LoginFails
  <2>4. UNCHANGED disturbed \/ (Disturbs(r) /\ disturbed' = disturbed \cup {Tries[r].login})
    BY <1>0, <1>6 DEF LoginFails
  <2>5. Disturbs(r) => Promise!AnotherRefused(r)
    BY <1>0, DisturbsIsRefused DEF Promise!AnotherRefused, Tries, Try
  <2> QED BY <2>2, <2>3, <2>4, <2>5 DEF Promise!Fail, Promise!Answer, Tries, Try
<1>7. ASSUME LoginSucceeds(r) PROVE Promise!Succeed(r)
  <2>1. request' = [request EXCEPT ![r] = Idle] /\ request[r].pc = "admitted"
    BY <1>7 DEF LoginSucceeds, Authenticates
  <2>2. Tries' = [Tries EXCEPT ![r] = Promise!NoTry] /\ Tries[r].status = "admitted"
    BY <1>0, <2>1, TryEnds DEF Status
  <2>3. UNCHANGED clock /\ failed' = [failed EXCEPT ![Tries[r].login] = <<>>]
    BY <1>0, <1>7 DEF LoginSucceeds
  <2>4. \/ disturbed' = disturbed \ {Tries[r].login}
        \/ (Disturbs(r) /\ disturbed' = disturbed \cup {Tries[r].login})
    BY <1>0, <1>7 DEF LoginSucceeds
  <2>5. Disturbs(r) => Promise!AnotherRefused(r)
    BY <1>0, DisturbsIsRefused DEF Promise!AnotherRefused, Tries, Try
  <2> QED BY <2>2, <2>3, <2>4, <2>5 DEF Promise!Succeed, Promise!Answer, Tries, Try
<1> QED BY <1>1, <1>2, <1>3, <1>4, <1>5, <1>6, <1>7

\* Every step is one of LoginLimit, or none.
LEMMA NextPromise == IInv /\ [Next]_vars => [Promise!Next]_Promise!vars
<1> SUFFICES ASSUME IInv, [Next]_vars PROVE [Promise!Next]_Promise!vars
  OBVIOUS
<1>1. CASE Tick
  <2>1. clock' = clock + 1 /\ UNCHANGED <<failed, disturbed, request>>
    BY <1>1 DEF Tick
  <2>2. Promise!Tick
    BY <2>1 DEF Promise!Tick, Status
  <2> QED BY <2>2 DEF Promise!Next
<1>2. CASE Restart
  <2>1. \A r \in Requests : Try(request[r])' = Promise!NoTry
    BY <1>2, IdleRequest, IdleIsNoTry DEF Restart, Try, Status
  <2>2. Tries' = [r \in Requests |-> Promise!NoTry]
    BY <2>1 DEF Tries
  <2>3. Promise!Restart
    BY <1>2, <2>2 DEF Restart, Promise!Restart, Tries, Try
  <2> QED BY <2>3 DEF Promise!Next
<1>3. CASE UNCHANGED vars
  BY <1>3 DEF vars, Promise!vars, Status
<1>4. ASSUME NEW r \in Requests,
           \/ \E l \in Logins : CheckPasses(r, l) \/ CheckRefuses(r, l)
           \/ SliceAttempts(r) \/ SlicePanics(r) \/ AssignAttempts(r) \/ AnswerRefusal(r)
           \/ LoginFails(r) \/ LoginSucceeds(r) \/ LoginIsUndecided(r)
      PROVE  [Promise!Next]_Promise!vars
  BY <1>4, RequestKeepsPromise DEF Promise!Next
<1> QED BY <1>1, <1>2, <1>3, <1>4 DEF Next

\* The check that trims its list without the lock refuses exactly the logins that
\* LoginLimit blocks: the detailed specification implements the abstract one
\* (rest/login/attempt.go:23-51).
THEOREM LimitIsKept == Spec => KeepsPromise
<1>1. Init => Promise!Init
  BY InitPromise
<1>2. IInv /\ [Next]_vars => [Promise!Next]_Promise!vars
  BY NextPromise
<1> QED BY <1>1, <1>2, Inductive, PTL DEF Spec, KeepsPromise, Promise!Spec
=============================================================================
