------------------------ MODULE OIDCProvidersProofs -------------------------
(* Proofs of the properties of OIDCProviders.                               *)
EXTENDS OIDCProviders, SequenceTheorems, FiniteSetTheorems, TLAPS

Element == Providers \cup {NoProvider}

\* The slices and the requests have their types.
Shape == ArraysAreInOrder /\ IsSlice(served) /\ IsSlice(renewed)

\* The list has each provider once, and only providers that were added.
Once == IsInjective(Elements(served)) /\ Found(served) \subseteq created

\* What is known of one request.
Walked(walk) ==
    /\ walk.k \in 0 .. walk.slice.len /\ walk.strange = {}
    /\ walk.pc = "walk" => IsSlice(walk.slice) /\ SeesProviders(walk) /\ IsOvertaken(walk)
    /\ walk.pc = "verify" => Cardinality(walk.missing) <= walk.overtaken

\* The inductive invariant.
Inv ==
    /\ Shape /\ Once /\ IdsAreCreated /\ WorkerSharesTheArray /\ StartProvidersAreRenewed
    /\ faults \in 0 .. MaxFaults
    /\ \A r \in Requests : Walked(request[r])

-----------------------------------------------------------------------------
(* Slices.                                                                  *)

\* What a slice shows of its array.
LEMMA SliceShows ==
    ASSUME NEW S, NEW array \in Seq(S), NEW n \in 0 .. Len(array)
    PROVE  /\ SubSeq(array, 1, n) \in Seq(S) /\ Len(SubSeq(array, 1, n)) = n
           /\ \A i \in 1 .. n : SubSeq(array, 1, n)[i] = array[i]
           /\ ToSet(SubSeq(array, 1, n)) = {array[i] : i \in 1 .. n}
           /\ IsInjective(SubSeq(array, 1, n)) <=>
                \A i, j \in 1 .. n : array[i] = array[j] => i = j
<1> DEFINE list == SubSeq(array, 1, n)
<1>1. list \in Seq(S) /\ Len(list) = n /\ \A i \in 1 .. n : list[i] = array[i]
  BY SubSeqProperties
<1> HIDE DEF list
<1>2. DOMAIN list = 1 .. n
  BY <1>1
<1>3. ToSet(list) = {array[i] : i \in 1 .. n}
  BY <1>1, <1>2 DEF ToSet
<1>4. IsInjective(list) <=> \A i, j \in 1 .. n : array[i] = array[j] => i = j
  BY <1>1, <1>2 DEF IsInjective
<1> QED BY <1>1, <1>3, <1>4 DEF list

\* It shows finitely many elements.
LEMMA ShownIsFinite ==
    ASSUME NEW n \in Nat, NEW f
    PROVE  IsFiniteSet({f[i] : i \in 1 .. n})
<1> DEFINE g == [i \in 1 .. n |-> f[i]]
<1>1. g \in Surjection(1 .. n, {f[i] : i \in 1 .. n})
  BY DEF Surjection
<1> QED BY <1>1, FS_Interval, FS_Surjection

\* The list.
LEMMA ListShown ==
    ASSUME Shape
    PROVE  /\ Elements(served) \in Seq(Element) /\ Len(Elements(served)) = served.len
           /\ \A i \in 1 .. served.len : Elements(served)[i] = arrays[served.array][i]
           /\ Found(served) = {arrays[served.array][i] : i \in 1 .. served.len}
           /\ IsInjective(Elements(served)) <=>
                \A i, j \in 1 .. served.len :
                    arrays[served.array][i] = arrays[served.array][j] => i = j
<1> DEFINE a == arrays[served.array]
           n == served.len
<1>1. a \in Seq(Element) /\ n \in 0 .. Len(a)
  BY DEF Shape, ArraysAreInOrder, IsSlice, Element
<1> HIDE DEF a, n
<1>2. /\ SubSeq(a, 1, n) \in Seq(Element) /\ Len(SubSeq(a, 1, n)) = n
      /\ \A i \in 1 .. n : SubSeq(a, 1, n)[i] = a[i]
      /\ ToSet(SubSeq(a, 1, n)) = {a[i] : i \in 1 .. n}
      /\ IsInjective(SubSeq(a, 1, n)) <=> \A i, j \in 1 .. n : a[i] = a[j] => i = j
  BY <1>1, SliceShows
<1> QED BY <1>2 DEF Found, Elements, a, n

\* The list of the next state.
LEMMA ListShownNext ==
    ASSUME Shape'
    PROVE  /\ Found(served)' = {arrays'[served'.array][i] : i \in 1 .. served'.len}
           /\ IsInjective(Elements(served))' <=>
                \A i, j \in 1 .. served'.len :
                    arrays'[served'.array][i] = arrays'[served'.array][j] => i = j
<1> DEFINE a == arrays'[served'.array]
           n == served'.len
<1>1. a \in Seq(Element) /\ n \in 0 .. Len(a)
  BY DEF Shape, ArraysAreInOrder, IsSlice, Element
<1> HIDE DEF a, n
<1>2. /\ ToSet(SubSeq(a, 1, n)) = {a[i] : i \in 1 .. n}
      /\ IsInjective(SubSeq(a, 1, n)) <=> \A i, j \in 1 .. n : a[i] = a[j] => i = j
  BY <1>1, SliceShows
<1> QED BY <1>2 DEF Found, Elements, a, n

\* A slice, of the worker or of a walk.
LEMMA Shown ==
    ASSUME NEW s, arrays \in Seq(Seq(Element)), IsSlice(s)
    PROVE  Found(s) = {arrays[s.array][i] : i \in 1 .. s.len}
<1> DEFINE a == arrays[s.array]
           n == s.len
<1>1. a \in Seq(Element) /\ n \in 0 .. Len(a)
  BY DEF IsSlice
<1> HIDE DEF a, n
<1>2. ToSet(SubSeq(a, 1, n)) = {a[i] : i \in 1 .. n}
  BY <1>1, SliceShows
<1> QED BY <1>2 DEF Found, Elements, a, n

\* A slice in the next state.
LEMMA ShownNext ==
    ASSUME NEW s, arrays' \in Seq(Seq(Element)), IsSlice(s)'
    PROVE  Found(s)' = {arrays'[s.array][i] : i \in 1 .. s.len}
<1> DEFINE a == arrays'[s.array]
           n == s.len
<1>1. a \in Seq(Element) /\ n \in 0 .. Len(a)
  BY DEF IsSlice
<1> HIDE DEF a, n
<1>2. ToSet(SubSeq(a, 1, n)) = {a[i] : i \in 1 .. n}
  BY <1>1, SliceShows
<1> QED BY <1>2 DEF Found, Elements, a, n

\* The slice of the worker, now and in the next state.
LEMMA WorkerShown ==
    /\ Shape => Found(renewed) = {arrays[1][i] : i \in 1 .. renewed.len}
    /\ Shape' => Found(renewed)' = {arrays'[1][i] : i \in 1 .. renewed'.len}
<1>1. Shape => Found(renewed) = {arrays[1][i] : i \in 1 .. renewed.len}
  BY Shown DEF Shape, ArraysAreInOrder, Element
<1>2. ASSUME Shape'
      PROVE  Found(renewed)' = {arrays'[1][i] : i \in 1 .. renewed'.len}
  <2> DEFINE a == arrays'[1]
             n == renewed'.len
  <2>1. a \in Seq(Element) /\ n \in 0 .. Len(a) /\ renewed'.array = 1
    BY <1>2 DEF Shape, ArraysAreInOrder, IsSlice, Element
  <2> HIDE DEF a, n
  <2>2. ToSet(SubSeq(a, 1, n)) = {a[i] : i \in 1 .. n}
    BY <2>1, SliceShows
  <2> QED BY <2>1, <2>2 DEF Found, Elements, a, n
<1> QED BY <1>1, <1>2

-----------------------------------------------------------------------------
(* What an addition and a deletion do to the list.                          *)

\* The other arrays stay, and the array of the list keeps its capacity.
InPlace ==
    /\ served'.array = served.array /\ outgrown' = outgrown
    /\ arrays' \in Seq(Seq(Element)) /\ Len(arrays') = Len(arrays)
    /\ \A a \in 1 .. Len(arrays) : a # served.array => arrays'[a] = arrays[a]
    /\ Len(arrays'[served.array]) = Len(arrays[served.array])

\* The list has moved to a new array.
Moved ==
    /\ served'.array = Len(arrays) + 1 /\ outgrown' = TRUE
    /\ arrays' \in Seq(Seq(Element)) /\ Len(arrays') = Len(arrays) + 1
    /\ \A a \in 1 .. Len(arrays) : arrays'[a] = arrays[a]

\* p is behind what was there.
ListGrows(p) ==
    /\ p \in Providers /\ p \notin created /\ created' = created \cup {p}
    /\ served' \in [array : Nat, len : Nat] /\ served'.len = served.len + 1
    /\ served'.len <= Len(arrays'[served'.array])
    /\ \A i \in 1 .. served.len : arrays'[served'.array][i] = arrays[served.array][i]
    /\ arrays'[served'.array][served.len + 1] = p
    /\ \/ Moved
       \/ /\ InPlace
          /\ \A i \in 1 .. Len(arrays[served.array]) : i # served.len + 1 =>
                arrays'[served.array][i] = arrays[served.array][i]

\* What is behind k has moved up, but for the copy of the last one that stays.
ListShrinks(k) ==
    /\ created' = created
    /\ served' \in [array : Nat, len : Nat] /\ served'.len = served.len - 1
    /\ InPlace
    /\ \A i \in 1 .. Len(arrays[served.array]) :
          arrays'[served.array][i] = IF i \in k .. served.len - 1
                                     THEN arrays[served.array][i + 1]
                                     ELSE arrays[served.array][i]

\* oidcProviderHandler (auth.go:119).
LEMMA AddGrows ==
    ASSUME Inv, NEW r \in Requests, NEW p \in Providers, AddProvider(r, p)
    PROVE  ListGrows(p)
<1> DEFINE A == arrays[served.array]
           n == served.len
           list == Append(Elements(served), p)
<1>1. /\ arrays \in Seq(Seq(Element)) /\ served.array = Len(arrays) /\ Len(arrays) \in Nat \ {0}
      /\ A \in Seq(Element) /\ n \in 0 .. Len(A) /\ served \in [array : Nat, len : Nat]
  BY DEF Inv, Shape, ArraysAreInOrder, IsSlice, Element
<1>2. Elements(served) \in Seq(Element) /\ Len(Elements(served)) = n
  BY ListShown DEF Inv
<1>3. \A i \in 1 .. n : Elements(served)[i] = A[i]
  BY ListShown DEF Inv
<1>4. list \in Seq(Element) /\ Len(list) = n + 1 /\ list[n + 1] = p
  BY <1>2 DEF Element
<1>5. \A i \in 1 .. n : list[i] = A[i]
  BY <1>2, <1>3
<1>6. p \notin created /\ created' = created \cup {p}
  BY DEF AddProvider
<1>7. CASE n < Len(A)
  <2> DEFINE rest == SubSeq(A, n + 2, Len(A))
             B == list \o rest
  <2>1. arrays' = [arrays EXCEPT ![served.array] = B]
    <3>1. arrays' = [arrays EXCEPT ![served.array] = list \o SubSeq(A, Len(list) + 1, Len(A))]
      BY <1>7 DEF AddProvider
    <3> HIDE DEF list, A, n
    <3>2. Len(list) + 1 = n + 2
      BY <1>1, <1>4
    <3> QED BY <3>1, <3>2
  <2>2. /\ served' = [served EXCEPT !.len = @ + 1] /\ outgrown' = outgrown
        /\ served' \in [array : Nat, len : Nat]
        /\ served'.array = served.array /\ served'.len = n + 1
    <3>1. served' = [served EXCEPT !.len = @ + 1] /\ outgrown' = outgrown
      BY <1>7 DEF AddProvider
    <3> QED BY <1>1, <3>1
  <2> HIDE DEF list, A, n
  <2>3. rest \in Seq(Element) /\ Len(rest) = Len(A) - n - 1
    BY <1>1, <1>7, SubSeqProperties
  <2>4. \A i \in 1 .. Len(A) - n - 1 : rest[i] = A[n + 1 + i]
    BY <1>1, <1>7, SubSeqProperties
  <2> HIDE DEF rest
  <2>5. /\ B \in Seq(Element) /\ Len(B) = Len(list) + Len(rest)
        /\ \A i \in 1 .. Len(list) + Len(rest) :
              B[i] = IF i <= Len(list) THEN list[i] ELSE rest[i - Len(list)]
    BY <1>4, <2>3, ConcatProperties
  <2> HIDE DEF B
  <2>6. B \in Seq(Element) /\ Len(B) = Len(A)
    BY <1>1, <1>4, <1>7, <2>3, <2>5
  <2>7. \A i \in 1 .. Len(A) : B[i] = IF i <= n + 1 THEN list[i] ELSE rest[i - (n + 1)]
    BY <1>1, <1>4, <1>7, <2>3, <2>5
  <2>8. \A i \in 1 .. Len(A) : i # n + 1 => B[i] = A[i]
    <3> SUFFICES ASSUME NEW i \in 1 .. Len(A), i # n + 1 PROVE B[i] = A[i]
      OBVIOUS
    <3>1. CASE i <= n
      BY <1>1, <1>5, <2>7, <3>1
    <3>2. CASE i > n + 1
      <4>1. i - (n + 1) \in 1 .. Len(A) - n - 1 /\ n + 1 + (i - (n + 1)) = i
        BY <1>1, <3>2
      <4>2. rest[i - (n + 1)] = A[n + 1 + (i - (n + 1))]
        BY <2>4, <4>1
      <4> QED BY <1>1, <2>7, <3>2, <4>1, <4>2
    <3> QED BY <1>1, <3>1, <3>2
  <2>9. B[n + 1] = p
    BY <1>1, <1>4, <1>7, <2>7
  <2>10. /\ arrays' \in Seq(Seq(Element)) /\ Len(arrays') = Len(arrays)
         /\ \A a \in 1 .. Len(arrays) : a # served.array => arrays'[a] = arrays[a]
         /\ arrays'[served.array] = B
    BY <1>1, <2>1, <2>6
  <2>11. arrays'[served'.array] = B
    <3>1. served'.array = served.array
      BY <2>2
    <3>2. arrays'[served.array] = B
      BY <2>10
    <3> QED BY <3>1, <3>2
  <2>12. InPlace
    <3>1. served'.array = served.array /\ outgrown' = outgrown
      BY <2>2
    <3>2. Len(arrays'[served.array]) = Len(A)
      BY <2>6, <2>10
    <3> QED BY <2>10, <3>1, <3>2 DEF InPlace, A
  <2>13. \A i \in 1 .. n : arrays'[served'.array][i] = A[i]
    <3> SUFFICES ASSUME NEW i \in 1 .. n PROVE B[i] = A[i]
      BY <2>11
    <3> QED BY <1>1, <2>8
  <2>14. /\ served'.len <= Len(arrays'[served'.array])
         /\ arrays'[served'.array][n + 1] = p
    BY <1>1, <1>7, <2>2, <2>6, <2>9, <2>11
  <2>15. \A i \in 1 .. Len(A) : i # n + 1 => arrays'[served.array][i] = A[i]
    <3>1. arrays'[served.array] = B
      BY <2>10
    <3> QED BY <2>8, <3>1
  <2> QED BY <1>6, <2>2, <2>12, <2>13, <2>14, <2>15 DEF ListGrows, A, n
<1>8. CASE ~(n < Len(A))
  <2>1. PICK m \in 0 .. MaxRoom : arrays' = Append(arrays, list \o Room(m))
    BY <1>8 DEF AddProvider
  <2>2. served' = [array |-> Len(arrays) + 1, len |-> Len(list)] /\ outgrown' = TRUE
    BY <1>8 DEF AddProvider
  <2> DEFINE room == Room(m)
             B == list \o room
  <2>3. room \in Seq(Element) /\ Len(room) \in Nat
    BY Parameters DEF Room, Element
  <2> HIDE DEF list, room, A, n
  <2>4. /\ B \in Seq(Element) /\ Len(B) = Len(list) + Len(room)
        /\ \A i \in 1 .. Len(list) + Len(room) :
              B[i] = IF i <= Len(list) THEN list[i] ELSE room[i - Len(list)]
    BY <1>4, <2>3, ConcatProperties
  <2> HIDE DEF B
  <2>5. /\ B \in Seq(Element) /\ Len(B) = n + 1 + Len(room)
        /\ \A i \in 1 .. n + 1 : B[i] = list[i]
    BY <1>1, <1>4, <2>3, <2>4
  <2>6. arrays' = Append(arrays, B)
    BY <2>1 DEF B, room
  <2>7. /\ arrays' \in Seq(Seq(Element)) /\ Len(arrays') = Len(arrays) + 1
        /\ \A a \in 1 .. Len(arrays) : arrays'[a] = arrays[a]
        /\ arrays'[Len(arrays) + 1] = B
    BY <1>1, <2>5, <2>6
  <2>8. /\ served' \in [array : Nat, len : Nat]
        /\ served'.array = Len(arrays) + 1 /\ served'.len = n + 1
    BY <1>1, <1>4, <2>2
  <2>9. Moved
    BY <2>2, <2>7, <2>8 DEF Moved
  <2>10. served'.len <= Len(arrays'[served'.array])
    BY <1>1, <2>3, <2>5, <2>7, <2>8
  <2>11. \A i \in 1 .. n : arrays'[served'.array][i] = A[i]
    <3> SUFFICES ASSUME NEW i \in 1 .. n PROVE B[i] = A[i]
      BY <2>7, <2>8
    <3> QED BY <1>1, <1>5, <2>5
  <2>12. arrays'[served'.array][n + 1] = p
    BY <1>1, <1>4, <2>5, <2>7, <2>8
  <2> QED BY <1>6, <2>8, <2>9, <2>10, <2>11, <2>12 DEF ListGrows, A, n
<1> QED BY <1>7, <1>8

\* oidcProviderElementHandler (auth.go:150).
LEMMA DeleteShrinks ==
    ASSUME Inv, NEW r \in Requests, NEW k \in 1 .. served.len, DeleteProvider(r, k)
    PROVE  ListShrinks(k)
<1> DEFINE A == arrays[served.array]
           n == served.len
           B == Shift(A, k, n)
<1>1. /\ arrays \in Seq(Seq(Element)) /\ served.array \in 1 .. Len(arrays)
      /\ A \in Seq(Element) /\ n \in 0 .. Len(A) /\ served \in [array : Nat, len : Nat]
  BY DEF Inv, Shape, ArraysAreInOrder, IsSlice, Element
<1>2. arrays' = [arrays EXCEPT ![served.array] = B]
  BY DEF DeleteProvider, RemoveInPlace
<1>3. served' = [served EXCEPT !.len = @ - 1] /\ outgrown' = outgrown /\ created' = created
  BY DEF DeleteProvider, RemoveInPlace
<1>4. /\ B \in Seq(Element) /\ Len(B) = Len(A)
      /\ \A i \in 1 .. Len(A) : B[i] = IF i \in k .. n - 1 THEN A[i + 1] ELSE A[i]
  <2> HIDE DEF A, n
  <2>1. DOMAIN A = 1 .. Len(A) /\ B = [i \in 1 .. Len(A) |-> IF i \in k .. n - 1
                                                           THEN A[i + 1] ELSE A[i]]
    BY <1>1 DEF Shift
  <2> HIDE DEF B
  <2>2. \A i \in 1 .. Len(A) : B[i] = IF i \in k .. n - 1 THEN A[i + 1] ELSE A[i]
    BY <2>1
  <2>3. \A i \in 1 .. Len(A) : B[i] \in Element
    <3> SUFFICES ASSUME NEW i \in 1 .. Len(A) PROVE B[i] \in Element
      OBVIOUS
    <3>1. \A j \in 1 .. Len(A) : A[j] \in Element
      BY <1>1
    <3>2. i \in k .. n - 1 => i + 1 \in 1 .. Len(A)
      BY <1>1
    <3> QED BY <2>2, <3>1, <3>2
  <2> QED BY <1>1, <2>1, <2>2, <2>3
<1> HIDE DEF B
<1>5. /\ arrays' \in Seq(Seq(Element)) /\ Len(arrays') = Len(arrays)
      /\ \A a \in 1 .. Len(arrays) : a # served.array => arrays'[a] = arrays[a]
      /\ arrays'[served.array] = B
  BY <1>1, <1>2, <1>4
<1>6. /\ served' \in [array : Nat, len : Nat]
      /\ served'.array = served.array /\ served'.len = n - 1
  BY <1>1, <1>3
<1>7. InPlace
  BY <1>3, <1>4, <1>5, <1>6 DEF InPlace
<1> QED BY <1>3, <1>4, <1>5, <1>6, <1>7 DEF ListShrinks

-----------------------------------------------------------------------------
(* The list and the worker.                                                 *)

\* Where the list is.
LEMMA ListIsLast ==
    ASSUME Inv
    PROVE  /\ arrays \in Seq(Seq(Element)) /\ Len(arrays) \in Nat /\ 1 \in 1 .. Len(arrays)
           /\ served.array \in 1 .. Len(arrays) /\ served.array = Len(arrays)
           /\ outgrown = (served.array # 1) /\ renewed.array = 1
           /\ served.len \in 0 .. Len(arrays[served.array])
           /\ renewed.len \in 0 .. Len(arrays[1])
BY DEF Inv, Shape, ArraysAreInOrder, IsSlice, Element

\* The array of the worker is written to as long as it is that of the list.
LEMMA FirstArray ==
    ASSUME Inv,
           \/ \E p \in Providers : ListGrows(p)
           \/ \E k \in 1 .. served.len : ListShrinks(k)
    PROVE  /\ Len(arrays'[1]) = Len(arrays[1])
           /\ outgrown' => arrays'[1] = arrays[1]
<1>1. InPlace \/ Moved
  BY DEF ListGrows, ListShrinks
<1>2. CASE Moved
  BY <1>2, ListIsLast DEF Moved
<1>3. CASE InPlace
  BY <1>3, ListIsLast DEF InPlace
<1> QED BY <1>1, <1>2, <1>3

\* The slices keep their types.
LEMMA ShapeKept ==
    ASSUME Inv, renewed' = renewed, request' \in [Requests -> RequestState],
           \/ \E p \in Providers : ListGrows(p)
           \/ \E k \in 1 .. served.len : ListShrinks(k)
    PROVE  Shape'
<1>1. /\ arrays \in Seq(Seq(Element)) /\ served.array = Len(arrays) /\ renewed.array = 1
      /\ served.array \in 1 .. Len(arrays) /\ served.len \in 0 .. Len(arrays[served.array])
      /\ renewed.len \in 0 .. Len(arrays[1])
      /\ outgrown = (Len(arrays) > 1) /\ served.len \in Nat
      /\ renewed \in [array : Nat, len : Nat]
  BY DEF Inv, Shape, ArraysAreInOrder, IsSlice, Element
<1>2. /\ served' \in [array : Nat, len : Nat] /\ arrays' \in Seq(Seq(Element))
      /\ served'.array = Len(arrays') /\ outgrown' = (Len(arrays') > 1)
      /\ Len(arrays') >= Len(arrays)
  <2>1. served' \in [array : Nat, len : Nat] /\ (InPlace \/ Moved)
    BY DEF ListGrows, ListShrinks
  <2>2. CASE Moved
    <3>1. Len(arrays') = Len(arrays) + 1 /\ served'.array = Len(arrays) + 1
      BY <2>2 DEF Moved
    <3>2. outgrown' = TRUE /\ arrays' \in Seq(Seq(Element))
      BY <2>2 DEF Moved
    <3>3. (Len(arrays') > 1) = TRUE
      BY <3>1, ListIsLast
    <3>4. outgrown' = (Len(arrays') > 1)
      BY <3>2, <3>3
    <3> QED BY <2>1, <3>1, <3>2, <3>4, ListIsLast
  <2>3. CASE InPlace
    BY <1>1, <2>1, <2>3, ListIsLast DEF InPlace
  <2> QED BY <2>1, <2>2, <2>3
<1>3. served'.len \in 0 .. Len(arrays'[served'.array])
  BY <1>1, <1>2 DEF ListGrows, ListShrinks, InPlace
<1>4. Len(arrays'[1]) = Len(arrays[1])
  BY FirstArray
<1>5. ArraysAreInOrder'
  BY <1>1, <1>2 DEF ArraysAreInOrder, Element
<1>6. IsSlice(served)'
  BY <1>1, <1>2, <1>3 DEF IsSlice
<1>7. IsSlice(renewed)'
  BY <1>1, <1>2, <1>4 DEF IsSlice
<1> QED BY <1>5, <1>6, <1>7 DEF Shape

\* A provider that is added is a new one.
LEMMA OnceGrows ==
    ASSUME Inv, Shape', NEW p \in Providers, ListGrows(p)
    PROVE  Once' /\ Found(served)' = Found(served) \cup {p}
<1> DEFINE A == arrays[served.array]
           B == arrays'[served'.array]
           n == served.len
<1>1. n \in Nat
  BY DEF Inv, Shape, ArraysAreInOrder
<1>2. /\ Found(served) = {A[i] : i \in 1 .. n} /\ Found(served) \subseteq created
      /\ \A i, j \in 1 .. n : A[i] = A[j] => i = j
  BY ListShown DEF Inv, Once
<1>3. /\ Found(served)' = {B[i] : i \in 1 .. n + 1}
      /\ IsInjective(Elements(served))' <=> \A i, j \in 1 .. n + 1 : B[i] = B[j] => i = j
  BY ListShownNext DEF ListGrows
<1>4. /\ B[n + 1] = p /\ p \notin created /\ created' = created \cup {p}
      /\ \A i \in 1 .. n : B[i] = A[i]
  BY DEF ListGrows
<1> HIDE DEF A, B, n
<1>5. \A i \in 1 .. n : A[i] # p
  BY <1>2, <1>4
<1>6. \A i \in 1 .. n + 1 : i \in 1 .. n \/ i = n + 1
  BY <1>1
<1>7. Found(served)' = Found(served) \cup {p}
  BY <1>1, <1>2, <1>3, <1>4, <1>6
<1>8. \A i, j \in 1 .. n + 1 : B[i] = B[j] => i = j
  BY <1>2, <1>4, <1>5, <1>6
<1>9. Found(served)' \subseteq created'
  BY <1>2, <1>4, <1>7
<1> QED BY <1>3, <1>7, <1>8, <1>9 DEF Once

\* A provider that is deleted is gone, the others are still there.
LEMMA OnceShrinks ==
    ASSUME Inv, Shape', NEW k \in 1 .. served.len, ListShrinks(k)
    PROVE  /\ Once' /\ Found(served)' \subseteq Found(served)
           /\ Found(served) \ {arrays[served.array][k]} \subseteq Found(served)'
<1> DEFINE A == arrays[served.array]
           B == arrays'[served'.array]
           n == served.len
<1>1. n \in Nat /\ n <= Len(A) /\ Len(A) \in Nat
  BY DEF Inv, Shape, ArraysAreInOrder, IsSlice
<1>2. /\ Found(served) = {A[i] : i \in 1 .. n} /\ Found(served) \subseteq created
      /\ \A i, j \in 1 .. n : A[i] = A[j] => i = j
  BY ListShown DEF Inv, Once
<1>3. /\ Found(served)' = {B[i] : i \in 1 .. n - 1}
      /\ IsInjective(Elements(served))' <=> \A i, j \in 1 .. n - 1 : B[i] = B[j] => i = j
  BY ListShownNext DEF ListShrinks
<1>4. /\ created' = created
      /\ \A i \in 1 .. Len(A) : B[i] = IF i \in k .. n - 1 THEN A[i + 1] ELSE A[i]
  BY DEF ListShrinks, InPlace
<1>5. k \in 1 .. n
  OBVIOUS
<1> HIDE DEF A, B, n
<1>6. \A i \in 1 .. n - 1 : B[i] = IF i < k THEN A[i] ELSE A[i + 1]
  BY <1>1, <1>4, <1>5
<1>7. \A i, j \in 1 .. n - 1 : B[i] = B[j] => i = j
  <2> SUFFICES ASSUME NEW i \in 1 .. n - 1, NEW j \in 1 .. n - 1, B[i] = B[j] PROVE i = j
    OBVIOUS
  <2>1. i \in 1 .. n /\ i + 1 \in 1 .. n /\ j \in 1 .. n /\ j + 1 \in 1 .. n
    BY <1>1
  <2> QED BY <1>2, <1>5, <1>6, <2>1
<1>8. Found(served)' \subseteq Found(served)
  <2> SUFFICES ASSUME NEW i \in 1 .. n - 1 PROVE B[i] \in Found(served)
    BY <1>3
  <2>1. i \in 1 .. n /\ i + 1 \in 1 .. n
    BY <1>1
  <2> QED BY <1>2, <1>6, <2>1
<1>9. Found(served) \ {A[k]} \subseteq Found(served)'
  <2> SUFFICES ASSUME NEW i \in 1 .. n, i # k PROVE A[i] \in Found(served)'
    BY <1>2
  <2>1. CASE i < k
    BY <1>1, <1>3, <1>5, <1>6, <2>1
  <2>2. CASE i > k
    <3>1. i - 1 \in 1 .. n - 1 /\ ~(i - 1 < k) /\ (i - 1) + 1 = i
      BY <1>1, <1>5, <2>2
    <3> QED BY <1>3, <1>6, <3>1
  <2> QED BY <1>1, <1>5, <2>1, <2>2
<1>10. Once'
  BY <1>2, <1>3, <1>4, <1>7, <1>8 DEF Once
<1> QED BY <1>8, <1>9, <1>10 DEF A

\* What the worker sees when a provider is added.
LEMMA WorkerGrows ==
    ASSUME Inv, Shape', NEW p \in Providers, ListGrows(p), UNCHANGED <<start, leftBehind>>
    PROVE  WorkerSharesTheArray' /\ StartProvidersAreRenewed'
<1> DEFINE A == arrays[served.array]
           n == served.len
<1>1. n \in Nat /\ n <= Len(A) /\ Len(A) \in Nat /\ renewed.len \in Nat
  BY DEF Inv, Shape, ArraysAreInOrder, IsSlice
<1>2. p \notin atStart /\ renewed' = renewed /\ atStart' = atStart /\ leftBehind' = leftBehind
  BY DEF ListGrows, Inv, IdsAreCreated, start
<1>3. CASE ~outgrown'
  <2>1. /\ ~outgrown /\ served.array = 1 /\ served'.array = 1 /\ served'.len = n + 1
        /\ arrays'[1][n + 1] = p
        /\ \A i \in 1 .. Len(A) : i # n + 1 => arrays'[1][i] = A[i]
    <3>1. InPlace /\ ~Moved
      BY <1>3 DEF ListGrows, Moved
    <3>2. ~outgrown /\ served.array = 1 /\ served'.array = 1
      BY <1>3, <3>1, ListIsLast DEF InPlace
    <3> QED BY <3>1, <3>2 DEF ListGrows
  <2>2. renewed.len <= Len(A)
    BY <2>1 DEF Inv, Shape, ArraysAreInOrder, IsSlice
  <2>3. /\ \A i \in 1 .. n : A[i] \in atStart => i <= renewed.len
        /\ \A i \in n + 1 .. renewed.len : A[i] \in leftBehind
    BY <2>1 DEF Inv, WorkerSharesTheArray
  <2> HIDE DEF A, n
  <2>4. \A i \in 1 .. n + 1 : arrays'[1][i] \in atStart => i <= renewed.len
    <3> SUFFICES ASSUME NEW i \in 1 .. n + 1, arrays'[1][i] \in atStart PROVE i <= renewed.len
      OBVIOUS
    <3>1. i # n + 1
      BY <1>2, <2>1
    <3> QED BY <1>1, <2>1, <2>3, <3>1
  <2>5. \A i \in n + 2 .. renewed.len : arrays'[1][i] \in leftBehind
    BY <1>1, <2>1, <2>2, <2>3
  <2>6. WorkerSharesTheArray'
    BY <1>1, <1>2, <2>1, <2>4, <2>5 DEF WorkerSharesTheArray
  <2>7. /\ Found(served)' = {arrays'[1][i] : i \in 1 .. n + 1}
        /\ Found(renewed)' = {arrays'[1][i] : i \in 1 .. renewed.len}
    BY <1>2, <2>1, ListShownNext, WorkerShown
  <2>8. StartProvidersAreRenewed'
    BY <1>1, <1>2, <2>4, <2>7 DEF StartProvidersAreRenewed
  <2> QED BY <2>6, <2>8
<1>4. CASE outgrown'
  <2>1. arrays'[1] = arrays[1]
    BY <1>4, FirstArray
  <2>2. Found(renewed)' = Found(renewed)
    BY <1>2, <2>1, WorkerShown DEF Inv
  <2>3. Found(served)' = Found(served) \cup {p}
    BY OnceGrows
  <2> QED
    BY <1>2, <1>4, <2>2, <2>3 DEF WorkerSharesTheArray, StartProvidersAreRenewed, Inv
<1> QED BY <1>3, <1>4

\* What it sees when one is deleted.
LEMMA WorkerShrinks ==
    ASSUME Inv, Shape', NEW k \in 1 .. served.len, ListShrinks(k), UNCHANGED start,
           leftBehind' = leftBehind \cup {arrays[served.array][served.len]}
    PROVE  WorkerSharesTheArray' /\ StartProvidersAreRenewed'
<1> DEFINE A == arrays[served.array]
           n == served.len
<1>1. n \in Nat /\ n <= Len(A) /\ Len(A) \in Nat /\ renewed.len \in Nat /\ k \in 1 .. n
  BY DEF Inv, Shape, ArraysAreInOrder, IsSlice
<1>2. renewed' = renewed /\ atStart' = atStart /\ leftBehind' = leftBehind \cup {A[n]}
  BY DEF start
<1>3. CASE ~outgrown'
  <2>1. /\ ~outgrown /\ served.array = 1 /\ served'.array = 1 /\ served'.len = n - 1
        /\ \A i \in 1 .. Len(A) : arrays'[1][i] = IF i \in k .. n - 1 THEN A[i + 1] ELSE A[i]
    BY <1>3, ListIsLast DEF ListShrinks, InPlace
  <2>2. renewed.len <= Len(A)
    BY <2>1 DEF Inv, Shape, ArraysAreInOrder, IsSlice
  <2>3. /\ \A i \in 1 .. n : A[i] \in atStart => i <= renewed.len
        /\ \A i \in n + 1 .. renewed.len : A[i] \in leftBehind
    BY <2>1 DEF Inv, WorkerSharesTheArray
  <2> HIDE DEF A, n
  <2>4. \A i \in 1 .. n - 1 : arrays'[1][i] \in atStart => i <= renewed.len
    <3> SUFFICES ASSUME NEW i \in 1 .. n - 1, arrays'[1][i] \in atStart PROVE i <= renewed.len
      OBVIOUS
    <3>1. i \in 1 .. n /\ i + 1 \in 1 .. n
      BY <1>1
    <3>2. arrays'[1][i] = A[i] \/ arrays'[1][i] = A[i + 1]
      BY <1>1, <2>1
    <3> QED BY <1>1, <2>3, <3>1, <3>2
  <2>5. \A i \in n .. renewed.len : arrays'[1][i] \in leftBehind'
    <3> SUFFICES ASSUME NEW i \in n .. renewed.len PROVE arrays'[1][i] \in leftBehind'
      OBVIOUS
    <3>1. arrays'[1][i] = A[i]
      BY <1>1, <2>1, <2>2
    <3> QED BY <1>1, <1>2, <2>3, <3>1
  <2>6. WorkerSharesTheArray'
    BY <1>1, <1>2, <2>1, <2>4, <2>5 DEF WorkerSharesTheArray
  <2>7. /\ Found(served)' = {arrays'[1][i] : i \in 1 .. n - 1}
        /\ Found(renewed)' = {arrays'[1][i] : i \in 1 .. renewed.len}
    BY <1>2, <2>1, ListShownNext, WorkerShown
  <2>8. StartProvidersAreRenewed'
    BY <1>1, <1>2, <2>4, <2>7 DEF StartProvidersAreRenewed
  <2> QED BY <2>6, <2>8
<1>4. CASE outgrown'
  <2>1. arrays'[1] = arrays[1]
    BY <1>4, FirstArray
  <2>2. Found(renewed)' = Found(renewed)
    BY <1>2, <2>1, WorkerShown DEF Inv
  <2>3. Found(served)' \subseteq Found(served)
    BY OnceShrinks
  <2> QED
    BY <1>2, <1>4, <2>2, <2>3 DEF WorkerSharesTheArray, StartProvidersAreRenewed, Inv
<1> QED BY <1>3, <1>4

-----------------------------------------------------------------------------
(* The walks.                                                               *)

\* A part of what is small is small.
LEMMA PartIsSmall ==
    ASSUME NEW T, IsFiniteSet(T), NEW n \in Nat, Cardinality(T) <= n, NEW S, S \subseteq T
    PROVE  Cardinality(S) <= n
BY FS_Subset, FS_CardinalityType

\* One more element.
LEMMA OneMore ==
    ASSUME NEW T, IsFiniteSet(T), NEW n \in Nat, Cardinality(T) <= n,
           NEW x, NEW S, S \subseteq T \cup {x}
    PROVE  Cardinality(S) <= n + 1
<1>1. Cardinality(T) \in Nat
  BY FS_CardinalityType
<1>2. /\ IsFiniteSet(T \cup {x})
      /\ Cardinality(T \cup {x}) = IF x \in T THEN Cardinality(T) ELSE Cardinality(T) + 1
  BY FS_AddElement
<1>3. Cardinality(T \cup {x}) \in Nat /\ Cardinality(T \cup {x}) <= n + 1
  BY <1>1, <1>2
<1> QED BY <1>2, <1>3, PartIsSmall

\* Where a walk is, by positions.
LEMMA WalkIs ==
    ASSUME Inv, NEW w \in RequestState, Walked(w), w.pc = "walk"
    PROVE  /\ w.slice.array \in 1 .. Len(arrays)
           /\ w.slice.len \in 0 .. Len(arrays[w.slice.array])
           /\ w.k \in Nat /\ w.slice.len \in Nat /\ w.k < w.slice.len /\ w.strange = {}
           /\ \A i \in 1 .. w.slice.len : arrays[w.slice.array][i] \in w.arisen
           /\ \A i \in 1 .. served.len : arrays[served.array][i] \in w.arisen
           /\ \A p \in w.missing : \E i \in 1 .. served.len : p = arrays[served.array][i]
           /\ w.missing \subseteq created /\ IsFiniteSet(w.missing)
           /\ w.overtaken \in Nat
<1>1. /\ IsSlice(w.slice) /\ SeesProviders(w) /\ IsOvertaken(w) /\ w.k \in 0 .. w.slice.len
      /\ w.strange = {}
  BY DEF Walked
<1>2. Found(w.slice) = {arrays[w.slice.array][i] : i \in 1 .. w.slice.len}
  BY <1>1, Shown, ListIsLast
<1>3. /\ Found(served) = {arrays[served.array][i] : i \in 1 .. served.len}
      /\ Found(served) \subseteq created
  BY ListShown DEF Inv, Once
<1>4. w.missing \subseteq Found(served)
  BY <1>1 DEF IsOvertaken
<1>5. IsFiniteSet(w.missing)
  <2>1. served.len \in Nat
    BY ListIsLast
  <2>2. IsFiniteSet(Found(served))
    BY <1>3, <2>1, ShownIsFinite
  <2> QED BY <1>4, <2>2, FS_Subset
<1>6. w.overtaken \in Nat /\ w.k \in Nat /\ w.slice.len \in Nat
  BY DEF RequestState
<1>7. /\ w.slice.array \in 1 .. Len(arrays)
      /\ w.slice.len \in 0 .. Len(arrays[w.slice.array])
  BY <1>1, ListIsLast DEF IsSlice
<1>8. /\ w.k < w.slice.len
      /\ \A i \in 1 .. w.slice.len : arrays[w.slice.array][i] \in w.arisen
      /\ \A i \in 1 .. served.len : arrays[served.array][i] \in w.arisen
  BY <1>1, <1>2, <1>3 DEF SeesProviders
<1>9. \A p \in w.missing : \E i \in 1 .. served.len : p = arrays[served.array][i]
  BY <1>3, <1>4
<1> QED BY <1>1, <1>3, <1>4, <1>5, <1>6, <1>7, <1>8, <1>9

\* A walk while a provider is added.
LEMMA WalkGrows ==
    ASSUME Inv, Shape', NEW p \in Providers, ListGrows(p),
           NEW w \in RequestState, Walked(w), w.pc = "walk",
           NEW v, v.pc = "walk", v.slice = w.slice, v.k = w.k, v.strange = w.strange,
           v.missing = w.missing, v.overtaken = w.overtaken, v.arisen = w.arisen \cup {p}
    PROVE  Walked(v)'
<1> DEFINE A == arrays[served.array]
           n == served.len
           a == w.slice.array
           S == arrays[a]
           T == arrays'[a]
<1>1. /\ a \in 1 .. Len(arrays) /\ Len(arrays) \in Nat /\ n \in Nat
      /\ w.slice.len \in 0 .. Len(S)
      /\ w.k \in Nat /\ w.slice.len \in Nat /\ w.k < w.slice.len /\ w.strange = {}
      /\ \A i \in 1 .. w.slice.len : S[i] \in w.arisen
      /\ IsFiniteSet(w.missing) /\ w.missing \subseteq created /\ w.overtaken \in Nat
  BY WalkIs, ListIsLast
<1>2. /\ v.pc = "walk" /\ v.slice = w.slice /\ v.k = w.k /\ v.strange = w.strange
      /\ v.missing = w.missing /\ v.overtaken = w.overtaken /\ v.arisen = w.arisen \cup {p}
  OBVIOUS
<1>3. p \notin w.missing
  BY <1>1 DEF ListGrows
<1>4. /\ arrays' \in Seq(Seq(Element)) /\ a \in 1 .. Len(arrays') /\ Len(T) = Len(S)
      /\ \A i \in 1 .. Len(S) : T[i] = p \/ T[i] = S[i]
  <2>1. CASE Moved
    <3>1. arrays' \in Seq(Seq(Element)) /\ Len(arrays') = Len(arrays) + 1
      BY <2>1 DEF Moved
    <3>2. T = S
      BY <1>1, <2>1 DEF Moved
    <3>3. a \in 1 .. Len(arrays')
      BY <1>1, <3>1
    <3> QED BY <3>1, <3>2, <3>3
  <2>2. CASE ~Moved
    <3>1. /\ InPlace
          /\ \A i \in 1 .. Len(A) : i # n + 1 => arrays'[served.array][i] = A[i]
          /\ arrays'[served'.array][n + 1] = p
      BY <2>2 DEF ListGrows
    <3>2. CASE a = served.array
      BY <1>1, <3>1, <3>2 DEF InPlace
    <3>3. CASE a # served.array
      BY <1>1, <3>1, <3>3 DEF InPlace
    <3> QED BY <3>2, <3>3
  <2> QED BY <2>1, <2>2
<1>5. IsSlice(v.slice)'
  BY <1>1, <1>2, <1>4 DEF IsSlice
<1>6. Found(w.slice)' = {T[i] : i \in 1 .. w.slice.len}
  BY <1>2, <1>4, <1>5, ShownNext
<1>7. Found(served)' = Found(served) \cup {p}
  BY OnceGrows
<1>8. SeesProviders(v)'
  <2>1. Found(w.slice)' \subseteq v.arisen
    <3> SUFFICES ASSUME NEW i \in 1 .. w.slice.len PROVE T[i] \in v.arisen
      BY <1>6
    <3>1. S[i] \in w.arisen /\ i \in 1 .. Len(S)
      BY <1>1
    <3>2. T[i] = p \/ T[i] = S[i]
      BY <1>4, <3>1
    <3> QED BY <1>2, <3>1, <3>2
  <2>2. Found(served) \subseteq w.arisen
    BY DEF Walked, SeesProviders
  <2> QED BY <1>1, <1>2, <1>7, <2>1, <2>2 DEF SeesProviders
<1>9. v.missing \subseteq Found(served)'
  BY <1>2, <1>7 DEF Walked, IsOvertaken
<1>10. CASE a = served.array /\ Moved
  <2>1. a # served'.array /\ T = S
    BY <1>1, <1>10, ListIsLast DEF Moved
  <2>2. /\ \A i \in 1 .. n : A[i] \in w.missing => i <= w.slice.len
        /\ Cardinality(w.missing \cap Passed(w)) <= w.overtaken
    BY <1>10 DEF Walked, IsOvertaken
  <2>3. w.missing \ Ahead(v)' \subseteq w.missing \cap Passed(w)
    <3> SUFFICES ASSUME NEW x \in w.missing, x \notin Ahead(v)' PROVE x \in Passed(w)
      OBVIOUS
    <3>1. PICK i \in 1 .. n : x = A[i]
      BY WalkIs
    <3>2. i <= w.slice.len
      BY <2>2, <3>1
    <3>3. ~(i \in w.k + 1 .. w.slice.len)
      BY <1>2, <1>10, <2>1, <3>1 DEF Ahead
    <3>4. i \in (1 .. n) \cap (1 .. w.k)
      BY <1>1, <3>2, <3>3
    <3> QED BY <1>10, <3>1, <3>4 DEF Passed
  <2>4. IsFiniteSet(w.missing \cap Passed(w))
    BY <1>1, FS_Subset
  <2>5. Cardinality(w.missing \ Ahead(v)') <= w.overtaken
    BY <1>1, <2>2, <2>3, <2>4, PartIsSmall
  <2>6. IsOvertaken(v)'
    BY <1>2, <1>9, <2>1, <2>5 DEF IsOvertaken
  <2> QED BY <1>1, <1>2, <1>5, <1>8, <2>6 DEF Walked
<1>11. CASE a = served.array /\ ~Moved
  <2>1. /\ served'.array = a /\ served'.len = n + 1 /\ T[n + 1] = p /\ S = A
        /\ \A i \in 1 .. n : T[i] = A[i]
    BY <1>11 DEF ListGrows, InPlace
  <2>2. /\ \A i \in 1 .. n : A[i] \in w.missing => i <= w.slice.len
        /\ Cardinality(w.missing \cap Passed(w)) <= w.overtaken
    BY <1>11 DEF Walked, IsOvertaken
  <2>3. \A i \in 1 .. n + 1 : T[i] \in w.missing => i \in 1 .. n /\ T[i] = A[i]
    BY <1>1, <1>3, <2>1
  <2>4. \A i \in 1 .. n + 1 : T[i] \in w.missing => i <= w.slice.len
    BY <2>2, <2>3
  <2>5. w.missing \cap Passed(v)' \subseteq w.missing \cap Passed(w)
    <3> SUFFICES ASSUME NEW x \in w.missing, x \in Passed(v)' PROVE x \in Passed(w)
      OBVIOUS
    <3>1. PICK i \in (1 .. n + 1) \cap (1 .. w.k) : x = T[i]
      BY <1>2, <2>1 DEF Passed
    <3>2. i \in (1 .. n) \cap (1 .. w.k) /\ x = S[i]
      BY <2>1, <2>3, <3>1
    <3> QED BY <3>2 DEF Passed
  <2>6. IsFiniteSet(w.missing \cap Passed(w))
    BY <1>1, FS_Subset
  <2>7. Cardinality(w.missing \cap Passed(v)') <= w.overtaken
    BY <1>1, <2>2, <2>5, <2>6, PartIsSmall
  <2>8. IsOvertaken(v)'
    BY <1>2, <1>9, <2>1, <2>4, <2>7 DEF IsOvertaken
  <2> QED BY <1>1, <1>2, <1>5, <1>8, <2>8 DEF Walked
<1>12. CASE a # served.array
  <2>1. a # served'.array /\ T = S
    <3>1. CASE Moved
      <4>1. served'.array = Len(arrays) + 1 /\ T = S
        BY <1>1, <3>1 DEF Moved
      <4> QED BY <1>1, <4>1
    <3>2. CASE ~Moved
      BY <1>1, <1>12, <3>2 DEF ListGrows, InPlace
    <3> QED BY <3>1, <3>2
  <2>2. Cardinality(w.missing \ Ahead(w)) <= w.overtaken
    BY <1>12 DEF Walked, IsOvertaken
  <2>3. Ahead(v)' = Ahead(w)
    BY <1>2, <2>1 DEF Ahead
  <2>4. IsOvertaken(v)'
    BY <1>2, <1>9, <2>1, <2>2, <2>3 DEF IsOvertaken
  <2> QED BY <1>1, <1>2, <1>5, <1>8, <2>4 DEF Walked
<1> QED BY <1>10, <1>11, <1>12

\* A walk while the provider at k is deleted.
LEMMA WalkShrinks ==
    ASSUME Inv, Shape', NEW k \in 1 .. served.len, ListShrinks(k),
           NEW w \in RequestState, Walked(w), w.pc = "walk",
           NEW v, v.pc = "walk", v.slice = w.slice, v.k = w.k, v.strange = w.strange,
           v.missing = w.missing \ {arrays[served.array][k]}, v.arisen = w.arisen,
           v.overtaken = IF w.slice.array = served.array /\ k <= w.k
                         THEN w.overtaken + 1 ELSE w.overtaken
    PROVE  Walked(v)'
<1> DEFINE A == arrays[served.array]
           n == served.len
           a == w.slice.array
           S == arrays[a]
           T == arrays'[a]
<1>1. /\ a \in 1 .. Len(arrays) /\ Len(arrays) \in Nat /\ n \in Nat /\ n <= Len(A)
      /\ Len(A) \in Nat /\ w.slice.len \in 0 .. Len(S)
      /\ w.k \in Nat /\ w.slice.len \in Nat /\ w.k < w.slice.len /\ w.strange = {}
      /\ \A i \in 1 .. w.slice.len : S[i] \in w.arisen
      /\ \A i \in 1 .. n : A[i] \in w.arisen
      /\ IsFiniteSet(w.missing) /\ w.overtaken \in Nat /\ k \in 1 .. n
  BY WalkIs, ListIsLast
<1>2. /\ v.pc = "walk" /\ v.slice = w.slice /\ v.k = w.k /\ v.strange = w.strange
      /\ v.missing = w.missing \ {A[k]} /\ v.arisen = w.arisen
      /\ v.overtaken = IF a = served.array /\ k <= w.k THEN w.overtaken + 1 ELSE w.overtaken
  OBVIOUS
<1>3. /\ arrays' \in Seq(Seq(Element)) /\ Len(arrays') = Len(arrays) /\ Len(T) = Len(S)
      /\ served'.array = served.array /\ served'.len = n - 1
      /\ a # served.array => T = S
      /\ a = served.array => S = A /\ \A i \in 1 .. Len(A) :
            T[i] = IF i \in k .. n - 1 THEN A[i + 1] ELSE A[i]
  BY <1>1 DEF ListShrinks, InPlace
<1>4. IsSlice(v.slice)'
  BY <1>1, <1>2, <1>3 DEF IsSlice
<1>5. Found(w.slice)' = {T[i] : i \in 1 .. w.slice.len}
  BY <1>2, <1>3, <1>4, ShownNext
<1>6. Found(served)' \subseteq Found(served) /\ Found(served) \ {A[k]} \subseteq Found(served)'
  BY OnceShrinks
<1>7. SeesProviders(v)'
  <2>1. \A i \in 1 .. w.slice.len : T[i] \in w.arisen
    <3> SUFFICES ASSUME NEW i \in 1 .. w.slice.len PROVE T[i] \in w.arisen
      OBVIOUS
    <3>1. CASE a # served.array
      BY <1>1, <1>3, <3>1
    <3>2. CASE a = served.array
      <4>1. i \in 1 .. Len(A)
        BY <1>1, <1>3, <3>2
      <4>2. CASE i \in k .. n - 1
        <5>1. i + 1 \in 1 .. n
          BY <1>1, <4>2
        <5> QED BY <1>1, <1>3, <3>2, <4>1, <4>2, <5>1
      <4>3. CASE i \notin k .. n - 1
        BY <1>1, <1>3, <3>2, <4>1, <4>3
      <4> QED BY <4>2, <4>3
    <3> QED BY <3>1, <3>2
  <2>2. Found(served) \subseteq w.arisen
    BY DEF Walked, SeesProviders
  <2>3. Found(v.slice)' = {T[i] : i \in 1 .. w.slice.len}
    BY <1>2, <1>5
  <2>4. Found(v.slice)' \cup Found(served)' \subseteq v.arisen
    BY <1>2, <1>6, <2>1, <2>2, <2>3
  <2> QED BY <1>1, <1>2, <2>4 DEF SeesProviders
<1>8. v.missing \subseteq Found(served)'
  BY <1>2, <1>6 DEF Walked, IsOvertaken
<1>9. CASE a = served.array
  <2>1. /\ \A i \in 1 .. n : A[i] \in w.missing => i <= w.slice.len
        /\ Cardinality(w.missing \cap Passed(w)) <= w.overtaken
    BY <1>9 DEF Walked, IsOvertaken
  <2>2. \A i \in 1 .. n - 1 : T[i] = IF i < k THEN A[i] ELSE A[i + 1]
    <3> SUFFICES ASSUME NEW i \in 1 .. n - 1 PROVE T[i] = IF i < k THEN A[i] ELSE A[i + 1]
      OBVIOUS
    <3>1. T[i] = IF i \in k .. n - 1 THEN A[i + 1] ELSE A[i]
      <4> HIDE DEF A, T, n
      <4>1. i \in 1 .. Len(A)
        BY <1>1
      <4> QED BY <1>3, <1>9, <4>1
    <3>2. i \in k .. n - 1 <=> ~(i < k)
      BY <1>1
    <3> QED BY <3>1, <3>2
  <2>3. \A i \in 1 .. n - 1 : T[i] \in v.missing => i <= w.slice.len
    <3> SUFFICES ASSUME NEW i \in 1 .. n - 1, T[i] \in v.missing PROVE i <= w.slice.len
      OBVIOUS
    <3>1. T[i] \in w.missing
      BY <1>2
    <3>2. T[i] = A[i] \/ T[i] = A[i + 1]
      BY <2>2
    <3> HIDE DEF A, T, n
    <3>3. i \in 1 .. n /\ i + 1 \in 1 .. n
      BY <1>1
    <3> QED BY <1>1, <2>1, <3>1, <3>2, <3>3
  <2>4. IsFiniteSet(w.missing \cap Passed(w))
    BY <1>1, FS_Subset
  <2>5. ASSUME NEW x \in v.missing \cap Passed(v)'
        PROVE  \/ x \in w.missing \cap Passed(w)
               \/ k <= w.k /\ x = A[w.k + 1]
    <3>1. PICK i \in (1 .. n - 1) \cap (1 .. w.k) : x = T[i]
      BY <1>2, <1>3, <1>9 DEF Passed
    <3>2. \A j \in (1 .. n) \cap (1 .. w.k) : A[j] \in Passed(w)
      BY <1>9 DEF Passed
    <3>3. CASE i < k
      <4>1. x = A[i] /\ x \in w.missing
        BY <1>2, <2>2, <3>1, <3>3
      <4>2. i \in (1 .. n) \cap (1 .. w.k)
        BY <1>1, <3>1
      <4> QED BY <3>2, <4>1, <4>2
    <3>4. CASE ~(i < k) /\ i + 1 <= w.k
      <4>1. i + 1 \in (1 .. n) \cap (1 .. w.k)
        BY <1>1, <3>4
      <4> QED BY <1>2, <2>2, <3>1, <3>2, <3>4, <4>1
    <3>5. CASE ~(i < k) /\ ~(i + 1 <= w.k)
      <4>1. k <= w.k /\ i + 1 = w.k + 1
        BY <1>1, <3>5
      <4> QED BY <2>2, <3>1, <3>5, <4>1
    <3> QED BY <3>3, <3>4, <3>5
  <2>6. Cardinality(v.missing \cap Passed(v)') <= v.overtaken
    <3>1. CASE k <= w.k
      <4>1. v.missing \cap Passed(v)' \subseteq (w.missing \cap Passed(w)) \cup {A[w.k + 1]}
        BY <2>5
      <4>2. Cardinality(v.missing \cap Passed(v)') <= w.overtaken + 1
        BY <1>1, <2>1, <2>4, <4>1, OneMore
      <4> QED BY <1>2, <1>9, <3>1, <4>2
    <3>2. CASE ~(k <= w.k)
      <4>1. v.missing \cap Passed(v)' \subseteq w.missing \cap Passed(w)
        BY <2>5, <3>2
      <4> QED BY <1>1, <1>2, <1>9, <2>1, <2>4, <3>2, <4>1, PartIsSmall
    <3> QED BY <3>1, <3>2
  <2>7. IsOvertaken(v)'
    BY <1>2, <1>3, <1>8, <1>9, <2>3, <2>6 DEF IsOvertaken
  <2> QED BY <1>1, <1>2, <1>4, <1>7, <2>7 DEF Walked
<1>10. CASE a # served.array
  <2>1. Cardinality(w.missing \ Ahead(w)) <= w.overtaken
    BY <1>10 DEF Walked, IsOvertaken
  <2>2. Ahead(v)' = Ahead(w)
    <3>1. T = S /\ v.slice = w.slice /\ v.k = w.k
      BY <1>2, <1>3, <1>10
    <3> QED BY <3>1 DEF Ahead
  <2>3. IsFiniteSet(w.missing \ Ahead(w)) /\ v.missing \ Ahead(v)' \subseteq w.missing \ Ahead(w)
    BY <1>1, <1>2, <2>2, FS_Subset
  <2>4. Cardinality(v.missing \ Ahead(v)') <= v.overtaken
    BY <1>1, <1>2, <1>10, <2>1, <2>3, PartIsSmall
  <2>5. IsOvertaken(v)'
    BY <1>2, <1>3, <1>8, <1>10, <2>4 DEF IsOvertaken
  <2> QED BY <1>1, <1>2, <1>4, <1>7, <2>5 DEF Walked
<1> QED BY <1>9, <1>10

\* A walk while the list stays.
LEMMA WalkStays ==
    ASSUME NEW w, Walked(w), UNCHANGED <<arrays, served>>
    PROVE  Walked(w)'
BY DEF Walked, IsSlice, SeesProviders, IsOvertaken, Found, Elements, Ahead, Passed

\* A request that does not walk.
LEMMA IdleIsWalked ==
    /\ Idle \in RequestState /\ [Idle EXCEPT !.pc = "save"] \in RequestState
    /\ Walked(Idle) /\ Walked([Idle EXCEPT !.pc = "save"])
    /\ Walked(Idle)' /\ Walked([Idle EXCEPT !.pc = "save"])'
<1>1. /\ Idle \in RequestState /\ [Idle EXCEPT !.pc = "save"] \in RequestState
      /\ Idle.pc = "idle" /\ Idle.k = 0 /\ Idle.slice.len = 0 /\ Idle.strange = {}
      /\ [Idle EXCEPT !.pc = "save"].pc = "save" /\ [Idle EXCEPT !.pc = "save"].k = 0
      /\ [Idle EXCEPT !.pc = "save"].slice.len = 0 /\ [Idle EXCEPT !.pc = "save"].strange = {}
  BY DEF Idle, RequestState
<1> QED BY <1>1 DEF Walked

\* A walk of a slice that begins, and a walk after its next provider.
FirstOf(s, F) == Walking([Idle EXCEPT !.slice = s, !.missing = F, !.arisen = F])
NextOf(w, p) == Walking([w EXCEPT !.k = @ + 1, !.missing = @ \ {p},
                                  !.strange = @ \cup ({p} \ w.arisen)])

\* The record of a walk that begins.
LEMMA FirstRecord ==
    ASSUME NEW s \in [array : Nat, len : Nat], NEW F, F \subseteq Providers
    PROVE  /\ FirstOf(s, F) \in RequestState
           /\ FirstOf(s, F).pc = IF s.len = 0 THEN "verify" ELSE "walk"
           /\ FirstOf(s, F).slice = s /\ FirstOf(s, F).k = 0
           /\ FirstOf(s, F).missing = F /\ FirstOf(s, F).arisen = F
           /\ FirstOf(s, F).strange = {} /\ FirstOf(s, F).overtaken = 0
<1> DEFINE w == FirstOf(s, F)
           pc == IF s.len = 0 THEN "verify" ELSE "walk"
<1>1. w = [pc |-> pc, slice |-> s, k |-> 0, missing |-> F, arisen |-> F, strange |-> {},
           overtaken |-> 0]
  <2> DEFINE u == [Idle EXCEPT !.slice = s, !.missing = F, !.arisen = F]
  <2>1. u = [pc |-> "idle", slice |-> s, k |-> 0, missing |-> F, arisen |-> F, strange |-> {},
             overtaken |-> 0]
    <3>1. /\ Idle \in RequestState /\ Idle.pc = "idle" /\ Idle.k = 0 /\ Idle.strange = {}
          /\ Idle.overtaken = 0
      BY DEF Idle, RequestState
    <3>2. ASSUME NEW z \in RequestState,
                 z.pc = "idle", z.k = 0, z.strange = {}, z.overtaken = 0
          PROVE  [z EXCEPT !.slice = s, !.missing = F, !.arisen = F] =
                 [pc |-> "idle", slice |-> s, k |-> 0, missing |-> F, arisen |-> F,
                  strange |-> {}, overtaken |-> 0]
      <4> DEFINE v == [z EXCEPT !.slice = s, !.missing = F, !.arisen = F]
      <4>1. v \in RequestState
        BY DEF RequestState
      <4>2. v.pc = "idle" /\ v.slice = s /\ v.k = 0 /\ v.missing = F
        BY <3>2 DEF RequestState
      <4>3. v.arisen = F /\ v.strange = {} /\ v.overtaken = 0
        BY <3>2 DEF RequestState
      <4> HIDE DEF v
      <4>4. v = [pc |-> "idle", slice |-> s, k |-> 0, missing |-> F, arisen |-> F,
                 strange |-> {}, overtaken |-> 0]
        BY <4>1, <4>2, <4>3 DEF RequestState
      <4> QED BY <4>4 DEF v
    <3> QED BY <3>1, <3>2
  <2>2. w = Walking(u)
    BY DEF FirstOf
  <2> HIDE DEF u, w
  <2>3. u.k = 0 /\ u.slice.len = s.len
    BY <2>1
  <2>4. w = [u EXCEPT !.pc = pc]
    BY <2>2, <2>3 DEF Walking
  <2> HIDE DEF pc
  <2> QED BY <2>1, <2>4
<1>2. pc \in {"idle", "walk", "verify", "save"}
  OBVIOUS
<1> HIDE DEF w, pc
<1>3. w \in RequestState
  BY <1>1, <1>2 DEF RequestState
<1>4. /\ w.pc = pc /\ w.slice = s /\ w.k = 0 /\ w.missing = F /\ w.arisen = F
      /\ w.strange = {} /\ w.overtaken = 0
  BY <1>1
<1> QED BY <1>3, <1>4 DEF w, pc

\* The record of a walk after its next provider.
LEMMA NextRecord ==
    ASSUME NEW w \in RequestState, NEW p, p \in w.arisen, w.strange = {}
    PROVE  /\ NextOf(w, p) \in RequestState
           /\ NextOf(w, p).pc = IF w.k + 1 = w.slice.len THEN "verify" ELSE "walk"
           /\ NextOf(w, p).slice = w.slice /\ NextOf(w, p).k = w.k + 1
           /\ NextOf(w, p).missing = w.missing \ {p} /\ NextOf(w, p).arisen = w.arisen
           /\ NextOf(w, p).strange = {} /\ NextOf(w, p).overtaken = w.overtaken
<1> DEFINE v == NextOf(w, p)
           pc == IF w.k + 1 = w.slice.len THEN "verify" ELSE "walk"
           missing == w.missing \ {p}
           m == w.k + 1
<1>1. w.strange \cup ({p} \ w.arisen) = {}
  OBVIOUS
<1>2. v = [w EXCEPT !.pc = pc, !.k = m, !.missing = missing, !.strange = {}]
  BY <1>1 DEF NextOf, Walking, RequestState
<1> HIDE DEF v
<1>3. v = [pc |-> pc, slice |-> w.slice, k |-> m, missing |-> missing,
           arisen |-> w.arisen, strange |-> {}, overtaken |-> w.overtaken]
  BY <1>2 DEF RequestState
<1>4. /\ pc \in {"idle", "walk", "verify", "save"} /\ missing \subseteq Providers /\ m \in Nat
      /\ w.slice \in [array : Nat, len : Nat] /\ w.arisen \subseteq Providers
      /\ w.overtaken \in Nat
  BY DEF RequestState
<1> HIDE DEF pc, missing, m
<1>5. v \in RequestState
  BY <1>3, <1>4 DEF RequestState
<1>6. /\ v.pc = pc /\ v.slice = w.slice /\ v.k = m /\ v.missing = missing
      /\ v.strange = {} /\ v.arisen = w.arisen /\ v.overtaken = w.overtaken
  BY <1>3
<1> QED BY <1>5, <1>6 DEF v, pc, missing, m

\* range evaluates the slice (middleware.go:64).
LEMMA WalkBegins ==
    ASSUME Inv, NEW w \in RequestState,
           w.pc = IF served.len = 0 THEN "verify" ELSE "walk",
           w.slice = served, w.k = 0, w.missing = Found(served), w.arisen = Found(served),
           w.strange = {}, w.overtaken = 0
    PROVE  Walked(w)
<1>1. /\ Found(served) = {arrays[served.array][i] : i \in 1 .. served.len}
      /\ IsSlice(served) /\ served.len \in Nat
  BY ListShown DEF Inv, Shape, ArraysAreInOrder
<1>2. CASE served.len = 0
  <2>1. w.missing = {}
    BY <1>1, <1>2
  <2>2. Cardinality(w.missing) <= w.overtaken
    BY <2>1, FS_EmptySet
  <2> QED BY <1>2, <2>2 DEF Walked
<1>3. CASE served.len # 0
  <2>1. SeesProviders(w)
    BY <1>1, <1>3 DEF SeesProviders
  <2>2. w.missing \cap Passed(w) = {}
    BY DEF Passed
  <2>3. Cardinality(w.missing \cap Passed(w)) <= w.overtaken
    BY <2>2, FS_EmptySet
  <2>4. IsOvertaken(w)
    BY <1>1, <2>3 DEF IsOvertaken
  <2>5. w.k \in 0 .. w.slice.len /\ w.pc = "walk" /\ IsSlice(w.slice)
    BY <1>1, <1>3
  <2> QED BY <2>1, <2>4, <2>5 DEF Walked
<1> QED BY <1>2, <1>3

\* The next provider (middleware.go:64-70).
LEMMA WalkGoesOn ==
    ASSUME Inv, NEW w \in RequestState, Walked(w), w.pc = "walk",
           NEW v \in RequestState,
           v.pc = IF w.k + 1 = w.slice.len THEN "verify" ELSE "walk",
           v.slice = w.slice, v.k = w.k + 1,
           v.missing = w.missing \ {arrays[w.slice.array][w.k + 1]},
           v.arisen = w.arisen, v.strange = {}, v.overtaken = w.overtaken
    PROVE  Walked(v)
<1> DEFINE A == arrays[served.array]
           n == served.len
           a == w.slice.array
           S == arrays[a]
           m == w.k + 1
           p == S[m]
<1>1. /\ a \in 1 .. Len(arrays) /\ n \in Nat /\ w.k \in Nat /\ w.slice.len \in Nat
      /\ w.k < w.slice.len /\ w.strange = {} /\ w.overtaken \in Nat
      /\ \A i \in 1 .. w.slice.len : S[i] \in w.arisen
      /\ IsFiniteSet(w.missing)
  BY WalkIs, ListIsLast
<1>4. /\ v.pc = IF m = w.slice.len THEN "verify" ELSE "walk"
      /\ v.slice = w.slice /\ v.k = m /\ v.missing = w.missing \ {p} /\ v.strange = {}
      /\ v.arisen = w.arisen /\ v.overtaken = w.overtaken
  OBVIOUS
<1> HIDE DEF p, S, A, n
<1>5. v.missing \subseteq Found(served)
  BY <1>4 DEF Walked, IsOvertaken
<1>6. IsOvertaken(v) /\ (m = w.slice.len => Cardinality(v.missing) <= v.overtaken)
  <2>1. CASE a = served.array
    <3>1. /\ \A i \in 1 .. n : A[i] \in w.missing => i <= w.slice.len
          /\ Cardinality(w.missing \cap Passed(w)) <= w.overtaken
      BY <2>1 DEF Walked, IsOvertaken, A, n
    <3>2. IsFiniteSet(w.missing \cap Passed(w))
      BY <1>1, FS_Subset
    <3>3. v.missing \cap Passed(v) \subseteq w.missing \cap Passed(w)
      <4> SUFFICES ASSUME NEW x \in v.missing, x \in Passed(v)
                   PROVE  x \in w.missing \cap Passed(w)
        OBVIOUS
      <4>1. PICK i \in (1 .. n) \cap (1 .. m) : x = S[i]
        BY <1>4 DEF Passed, S, n
      <4>2. i # m /\ x \in w.missing
        BY <1>4, <4>1 DEF p
      <4>3. i \in (1 .. n) \cap (1 .. w.k)
        BY <1>1, <4>1, <4>2
      <4> QED BY <4>1, <4>2, <4>3 DEF Passed, S, n
    <3>4. Cardinality(v.missing \cap Passed(v)) <= v.overtaken
      BY <1>1, <1>4, <3>1, <3>2, <3>3, PartIsSmall
    <3>5. IsOvertaken(v)
      BY <1>4, <1>5, <2>1, <3>1, <3>4 DEF IsOvertaken, A, n
    <3>6. ASSUME m = w.slice.len PROVE v.missing = v.missing \cap Passed(v)
      <4> SUFFICES ASSUME NEW x \in v.missing PROVE x \in Passed(v)
        OBVIOUS
      <4>1. PICK i \in 1 .. n : x = A[i]
        BY <1>4, WalkIs DEF A, n
      <4>2. x \in w.missing
        BY <1>4
      <4>3. i <= m
        BY <3>1, <3>6, <4>1, <4>2
      <4>4. i \in (1 .. n) \cap (1 .. m)
        BY <1>1, <4>1, <4>3
      <4> QED BY <1>4, <2>1, <4>1, <4>4 DEF Passed, A, n
    <3> QED BY <3>4, <3>5, <3>6
  <2>2. CASE a # served.array
    <3>1. Cardinality(w.missing \ Ahead(w)) <= w.overtaken
      BY <2>2 DEF Walked, IsOvertaken
    <3>2. IsFiniteSet(w.missing \ Ahead(w))
      BY <1>1, FS_Subset
    <3>3. v.missing \ Ahead(v) \subseteq w.missing \ Ahead(w)
      <4> SUFFICES ASSUME NEW x \in v.missing, x \in Ahead(w) PROVE x \in Ahead(v)
        BY <1>4
      <4>1. PICK i \in m .. w.slice.len : x = S[i]
        BY DEF Ahead, S
      <4>2. i # m
        BY <1>4, <4>1 DEF p
      <4>3. i \in m + 1 .. w.slice.len
        BY <1>1, <4>1, <4>2
      <4> QED BY <1>4, <4>1, <4>3 DEF Ahead, S
    <3>4. Cardinality(v.missing \ Ahead(v)) <= v.overtaken
      BY <1>1, <1>4, <3>1, <3>2, <3>3, PartIsSmall
    <3>5. IsOvertaken(v)
      BY <1>4, <1>5, <2>2, <3>4 DEF IsOvertaken
    <3>6. ASSUME m = w.slice.len PROVE v.missing = v.missing \ Ahead(v)
      <4>1. Ahead(v) = {}
        BY <1>1, <1>4, <3>6 DEF Ahead
      <4> QED BY <4>1
    <3> QED BY <3>4, <3>5, <3>6
  <2> QED BY <2>1, <2>2
<1>7. m \in 0 .. w.slice.len /\ (m # w.slice.len => m < w.slice.len)
  BY <1>1
<1>8. m # w.slice.len => SeesProviders(v)
  BY <1>4, <1>7 DEF Walked, SeesProviders
<1> QED BY <1>4, <1>6, <1>7, <1>8 DEF Walked

-----------------------------------------------------------------------------
(* The steps.                                                               *)

\* The list, the worker and config.json.
ListInv ==
    /\ Shape /\ Once /\ IdsAreCreated /\ WorkerSharesTheArray /\ StartProvidersAreRenewed
    /\ faults \in 0 .. MaxFaults

\* A step that leaves the list and the worker alone.
LEMMA ListStays ==
    ASSUME Inv, UNCHANGED <<lists, start>>, request' \in [Requests -> RequestState],
           IdsAreCreated', faults' \in 0 .. MaxFaults
    PROVE  ListInv'
<1>1. /\ UNCHANGED <<arrays, served, created, leftBehind, outgrown, renewed, atStart>>
  BY DEF lists, start
<1>2. Shape'
  BY <1>1 DEF Inv, Shape, ArraysAreInOrder, IsSlice
<1>3. Once' /\ WorkerSharesTheArray' /\ StartProvidersAreRenewed'
  BY <1>1 DEF Inv, Once, WorkerSharesTheArray, StartProvidersAreRenewed, Found, Elements
<1> QED BY <1>2, <1>3 DEF ListInv

\* A request that a step does not change, and one that it does.
LEMMA OneRequest ==
    ASSUME Inv, NEW r \in Requests, NEW w \in RequestState, request' = [request EXCEPT ![r] = w],
           UNCHANGED <<lists, start>>, Walked(w), IdsAreCreated', faults' \in 0 .. MaxFaults
    PROVE  Inv'
<1>1. request' \in [Requests -> RequestState]
  BY DEF Inv, Shape, ArraysAreInOrder
<1>2. ListInv'
  BY <1>1, ListStays
<1>3. ASSUME NEW q \in Requests PROVE Walked(request[q])'
  <2>1. request'[q] = w \/ request'[q] = request[q]
    BY DEF Inv, Shape, ArraysAreInOrder
  <2>2. Walked(request'[q])
    BY <2>1 DEF Inv
  <2>3. ASSUME NEW x, Walked(x) PROVE Walked(x)'
    BY <2>3, WalkStays DEF lists
  <2>4. \A x : x = request'[q] => Walked(x)'
    BY <2>2, <2>3
  <2> QED
    BY <2>4 DEF Walked, IsSlice, SeesProviders, IsOvertaken, Found, Elements, Ahead, Passed
<1> QED BY <1>2, <1>3 DEF ListInv, Inv

\* oidcProviderHandler (auth.go:90-125).
LEMMA AddKeeps ==
    ASSUME Inv, NEW r \in Requests, NEW p \in Providers, AddProvider(r, p)
    PROVE  Inv'
<1> DEFINE saving == [Idle EXCEPT !.pc = "save"]
<1>1. ListGrows(p)
  BY AddGrows
<1>2. /\ request \in [Requests -> RequestState]
      /\ request' = [WalksSee(p) EXCEPT ![r] = saving]
      /\ UNCHANGED <<start, file, leftBehind>>
  BY DEF AddProvider, Inv, Shape, ArraysAreInOrder
<1>3. saving \in RequestState /\ Walked(saving)'
  BY IdleIsWalked
<1> HIDE DEF saving
<1>4. \A q \in Requests :
        request'[q] = IF q = r THEN saving
                      ELSE IF request[q].pc = "walk"
                      THEN [request[q] EXCEPT !.arisen = @ \cup {p}] ELSE request[q]
  BY <1>2 DEF WalksSee
<1>5. \A w \in RequestState : [w EXCEPT !.arisen = @ \cup {p}] \in RequestState
  BY DEF RequestState
<1>6. request' \in [Requests -> RequestState]
  BY <1>2, <1>3, <1>5 DEF WalksSee
<1>7. Shape'
  BY <1>1, <1>2, <1>6, ShapeKept DEF start
<1>8. Once' /\ WorkerSharesTheArray' /\ StartProvidersAreRenewed'
  BY <1>1, <1>2, <1>7, OnceGrows, WorkerGrows
<1>9. IdsAreCreated' /\ faults' \in 0 .. MaxFaults
  BY <1>1, <1>2 DEF Inv, IdsAreCreated, ListGrows, start, file
<1>10. ASSUME NEW q \in Requests PROVE Walked(request[q])'
  <2>1. \A w \in RequestState : Walked(w) /\ w.pc # "walk" => Walked(w)'
    BY DEF Walked
  <2> SUFFICES ASSUME NEW x, x = request'[q] PROVE Walked(x)'
    BY DEF Walked, IsSlice, SeesProviders, IsOvertaken, Found, Elements, Ahead, Passed
  <2>2. request[q] \in RequestState /\ Walked(request[q])
    BY <1>2 DEF Inv
  <2>3. CASE q = r
    BY <1>3, <1>4, <2>3
  <2>4. CASE q # r /\ request[q].pc = "walk"
    <3> DEFINE w == request[q]
    <3>1. x = [w EXCEPT !.arisen = @ \cup {p}]
      BY <1>4, <2>4
    <3>2. w \in RequestState /\ Walked(w) /\ w.pc = "walk"
      BY <2>2, <2>4
    <3> HIDE DEF w
    <3>3. /\ x.pc = "walk" /\ x.slice = w.slice /\ x.k = w.k /\ x.strange = w.strange
          /\ x.missing = w.missing /\ x.overtaken = w.overtaken /\ x.arisen = w.arisen \cup {p}
      BY <3>1, <3>2 DEF RequestState
    <3> QED BY <1>1, <1>7, <3>2, <3>3, WalkGrows
  <2>5. CASE q # r /\ request[q].pc # "walk"
    BY <1>4, <2>1, <2>2, <2>5
  <2> QED BY <2>3, <2>4, <2>5
<1> QED BY <1>7, <1>8, <1>9, <1>10 DEF Inv

\* oidcProviderElementHandler (auth.go:137-158).
LEMMA DeleteKeeps ==
    ASSUME Inv, NEW r \in Requests, NEW k \in 1 .. served.len, DeleteProvider(r, k)
    PROVE  Inv'
<1> DEFINE saving == [Idle EXCEPT !.pc = "save"]
           p == arrays[served.array][k]
           Lost(w) == [w EXCEPT !.missing = @ \ {p},
                                !.overtaken = IF w.slice.array = served.array /\ k <= w.k
                                              THEN @ + 1 ELSE @]
<1>1. ListShrinks(k)
  BY DeleteShrinks
<1>2. /\ request \in [Requests -> RequestState]
      /\ request' = [WalksLose(Elements(served)[k], k) EXCEPT ![r] = saving]
      /\ leftBehind' = leftBehind \cup {Last(Elements(served))}
      /\ UNCHANGED <<start, file>>
  BY DEF DeleteProvider, Inv, Shape, ArraysAreInOrder
<1>3. /\ Elements(served)[k] = p /\ Last(Elements(served)) = arrays[served.array][served.len]
  <2>1. /\ Len(Elements(served)) = served.len /\ served.len \in 1 .. served.len
        /\ \A i \in 1 .. served.len : Elements(served)[i] = arrays[served.array][i]
    BY ListShown, ListIsLast DEF Inv
  <2> QED BY <2>1 DEF Last
<1>4. saving \in RequestState /\ Walked(saving)'
  BY IdleIsWalked
<1> HIDE DEF saving, p
<1>5. \A q \in Requests :
        request'[q] = IF q = r THEN saving
                      ELSE IF request[q].pc = "walk" THEN Lost(request[q]) ELSE request[q]
  BY <1>2, <1>3 DEF WalksLose
<1>6. ASSUME NEW w \in RequestState PROVE Lost(w) \in RequestState
  <2> DEFINE missing == w.missing \ {p}
             overtaken == IF w.slice.array = served.array /\ k <= w.k
                          THEN w.overtaken + 1 ELSE w.overtaken
  <2>1. missing \in SUBSET Providers /\ overtaken \in Nat
    BY DEF RequestState
  <2> HIDE DEF missing, overtaken
  <2>2. [w EXCEPT !.missing = missing, !.overtaken = overtaken] \in RequestState
    BY <2>1 DEF RequestState
  <2> QED BY <2>2 DEF missing, overtaken
<1>7. request' \in [Requests -> RequestState]
  <2>1. DOMAIN request' = Requests /\ request' = [q \in Requests |-> request'[q]]
    BY <1>2 DEF WalksLose
  <2>2. \A q \in Requests : request'[q] \in RequestState
    <3> HIDE DEF Lost
    <3> QED BY <1>2, <1>4, <1>5, <1>6
  <2> QED BY <2>1, <2>2
<1>8. Shape'
  BY <1>1, <1>2, <1>7, ShapeKept DEF start
<1>9. Once' /\ WorkerSharesTheArray' /\ StartProvidersAreRenewed'
  BY <1>1, <1>2, <1>3, <1>8, OnceShrinks, WorkerShrinks
<1>10. IdsAreCreated' /\ faults' \in 0 .. MaxFaults
  BY <1>1, <1>2 DEF Inv, IdsAreCreated, ListShrinks, start, file
<1>11. ASSUME NEW q \in Requests PROVE Walked(request[q])'
  <2>1. \A w \in RequestState : Walked(w) /\ w.pc # "walk" => Walked(w)'
    BY DEF Walked
  <2> SUFFICES ASSUME NEW x, x = request'[q] PROVE Walked(x)'
    BY DEF Walked, IsSlice, SeesProviders, IsOvertaken, Found, Elements, Ahead, Passed
  <2>2. request[q] \in RequestState /\ Walked(request[q])
    BY <1>2 DEF Inv
  <2>3. CASE q = r
    BY <1>4, <1>5, <2>3
  <2>4. CASE q # r /\ request[q].pc = "walk"
    <3> DEFINE w == request[q]
    <3>1. x = Lost(w)
      BY <1>5, <2>4
    <3>2. w \in RequestState /\ Walked(w) /\ w.pc = "walk"
      BY <2>2, <2>4
    <3> HIDE DEF w
    <3>3. /\ x.pc = "walk" /\ x.slice = w.slice /\ x.k = w.k /\ x.strange = w.strange
          /\ x.missing = w.missing \ {p} /\ x.arisen = w.arisen
          /\ x.overtaken = IF w.slice.array = served.array /\ k <= w.k
                           THEN w.overtaken + 1 ELSE w.overtaken
      BY <3>1, <3>2 DEF RequestState
    <3> QED BY <1>1, <1>8, <3>2, <3>3, WalkShrinks DEF p
  <2>5. CASE q # r /\ request[q].pc # "walk"
    BY <1>5, <2>1, <2>2, <2>5
  <2> QED BY <2>3, <2>4, <2>5
<1> QED BY <1>8, <1>9, <1>10, <1>11 DEF Inv

\* SaveConfig (config.go:14-41), done or failed.
LEMMA SaveKeeps ==
    ASSUME Inv, NEW r \in Requests, SaveConfig(r) \/ SaveConfigFails(r)
    PROVE  Inv'
<1>1. /\ request' = [request EXCEPT ![r] = Idle] /\ UNCHANGED <<lists, start>>
      /\ disk' = disk \/ disk' = Elements(served)
  BY DEF SaveConfig, SaveConfigFails
<1>2. IdsAreCreated'
  <2>1. created' = created /\ atStart' = atStart
    BY <1>1 DEF lists, start
  <2>2. Elements(served) \in Seq(created) /\ IsInjective(Elements(served))
    <3>1. /\ Elements(served) \in Seq(Element) /\ Len(Elements(served)) = served.len
          /\ Found(served) \subseteq created /\ IsInjective(Elements(served))
      BY ListShown DEF Inv, Once
    <3>2. \A i \in 1 .. Len(Elements(served)) : Elements(served)[i] \in created
      BY <3>1 DEF Found, ToSet
    <3> QED BY <3>1, <3>2
  <2> QED BY <1>1, <2>1, <2>2 DEF Inv, IdsAreCreated
<1>3. faults' \in 0 .. MaxFaults
  BY Parameters DEF SaveConfig, SaveConfigFails, Inv
<1> QED BY <1>1, <1>2, <1>3, IdleIsWalked, OneRequest

\* authMiddleware (middleware.go:63-88).
LEMMA WalkKeeps ==
    ASSUME Inv, NEW r \in Requests, BeginWalk(r) \/ WalkOn(r) \/ Return(r)
    PROVE  Inv'
<1>1. UNCHANGED <<lists, start, file>>
  BY DEF BeginWalk, WalkOn, Return
<1>2. IdsAreCreated' /\ faults' \in 0 .. MaxFaults
  BY <1>1 DEF Inv, IdsAreCreated, lists, start, file
<1>3. CASE BeginWalk(r)
  <2> DEFINE w == FirstOf(served, Found(served))
  <2>1. request' = [request EXCEPT ![r] = w]
    BY <1>3 DEF BeginWalk, FirstOf
  <2>2. served \in [array : Nat, len : Nat] /\ Found(served) \subseteq Providers
    BY DEF Inv, Shape, ArraysAreInOrder, Once, IdsAreCreated
  <2>3. /\ w \in RequestState /\ w.pc = IF served.len = 0 THEN "verify" ELSE "walk"
        /\ w.slice = served /\ w.k = 0 /\ w.missing = Found(served)
        /\ w.arisen = Found(served) /\ w.strange = {} /\ w.overtaken = 0
    BY <2>2, FirstRecord
  <2> HIDE DEF w
  <2>4. Walked(w)
    BY <2>3, WalkBegins
  <2> QED BY <1>1, <1>2, <2>1, <2>3, <2>4, OneRequest
<1>4. CASE WalkOn(r)
  <2> DEFINE w == request[r]
             p == arrays[w.slice.array][w.k + 1]
             v == NextOf(w, p)
  <2>1. request' = [request EXCEPT ![r] = v] /\ w.pc = "walk"
    BY <1>4 DEF WalkOn, NextOf
  <2>2. w \in RequestState /\ Walked(w)
    BY DEF Inv, Shape, ArraysAreInOrder
  <2> HIDE DEF w
  <2>3. p \in w.arisen /\ w.strange = {}
    <3>1. /\ w.k \in Nat /\ w.slice.len \in Nat /\ w.k < w.slice.len /\ w.strange = {}
          /\ \A i \in 1 .. w.slice.len : arrays[w.slice.array][i] \in w.arisen
      BY <2>1, <2>2, WalkIs
    <3>2. w.k + 1 \in 1 .. w.slice.len
      BY <3>1
    <3> QED BY <3>1, <3>2
  <2> HIDE DEF v, p
  <2>4. /\ v \in RequestState /\ v.pc = IF w.k + 1 = w.slice.len THEN "verify" ELSE "walk"
        /\ v.slice = w.slice /\ v.k = w.k + 1 /\ v.missing = w.missing \ {p}
        /\ v.arisen = w.arisen /\ v.strange = {} /\ v.overtaken = w.overtaken
    BY <2>2, <2>3, NextRecord DEF v
  <2>5. Walked(v)
    BY <2>1, <2>2, <2>4, WalkGoesOn DEF p
  <2> QED BY <1>1, <1>2, <2>1, <2>4, <2>5, OneRequest
<1>5. CASE Return(r)
  <2>1. request' = [request EXCEPT ![r] = Idle]
    BY <1>5 DEF Return
  <2> QED BY <1>1, <1>2, <2>1, IdleIsWalked, OneRequest
<1> QED BY <1>3, <1>4, <1>5

-----------------------------------------------------------------------------
(* The start (context.go:35-74).                                            *)

\* The array that is made of a list.
LEMMA DecodedArray ==
    ASSUME NEW list \in Seq(Providers), NEW array \in Decoded(list)
    PROVE  /\ array \in Seq(Element) /\ Len(array) >= Len(list)
           /\ \A i \in 1 .. Len(list) : array[i] = list[i]
<1>1. PICK n \in 0 .. MaxRoom : array = list \o Room(n)
  BY Parameters DEF Decoded
<1> DEFINE room == Room(n)
<1>2. room \in Seq(Element) /\ Len(room) \in Nat /\ list \in Seq(Element)
  BY Parameters DEF Room, Element
<1> HIDE DEF room
<1>3. /\ list \o room \in Seq(Element) /\ Len(list \o room) = Len(list) + Len(room)
      /\ \A i \in 1 .. Len(list) + Len(room) :
            (list \o room)[i] = IF i <= Len(list) THEN list[i] ELSE room[i - Len(list)]
  BY <1>2, ConcatProperties
<1>4. array = list \o room
  BY <1>1 DEF room
<1> HIDE DEF room
<1> QED BY <1>2, <1>3, <1>4

\* The first state, and the state after a restart.
Started(list, array) ==
    /\ arrays = <<array>> /\ served = Whole(list) /\ renewed = Whole(list)
    /\ atStart = ToSet(list) /\ leftBehind = {} /\ outgrown = FALSE
    /\ request = NoRequests /\ disk = list
    /\ ToSet(list) \subseteq created /\ created \subseteq Providers
    /\ faults \in 0 .. MaxFaults

\* A server that starts has the list of config.json.
LEMMA StartInv ==
    ASSUME NEW list \in Seq(Providers), IsInjective(list), NEW array \in Decoded(list),
           Started(list, array)
    PROVE  Inv
<1>1. /\ array \in Seq(Element) /\ Len(array) >= Len(list) /\ Len(list) \in Nat
      /\ \A i \in 1 .. Len(list) : array[i] = list[i]
  BY DecodedArray
<1>2. /\ arrays = <<array>> /\ served = [array |-> 1, len |-> Len(list)] /\ renewed = served
      /\ atStart = ToSet(list) /\ leftBehind = {} /\ outgrown = FALSE
      /\ disk = list /\ ToSet(list) \subseteq created /\ created \subseteq Providers
      /\ faults \in 0 .. MaxFaults
  BY DEF Started, Whole
<1>3. \A r \in Requests : request[r] = Idle
  BY DEF Started, NoRequests
<1>4. request \in [Requests -> RequestState]
  BY IdleIsWalked DEF Started, NoRequests
<1>5. /\ arrays \in Seq(Seq(Element)) /\ Len(arrays) = 1 /\ arrays[1] = array
      /\ served \in [array : Nat, len : Nat] /\ served.array = 1 /\ served.len = Len(list)
      /\ renewed = served
  BY <1>1, <1>2
<1>6. Shape
  <2>1. outgrown = (Len(arrays) > 1)
    <3>1. (Len(arrays) > 1) = FALSE
      BY <1>5
    <3> QED BY <1>2, <3>1
  <2>2. ArraysAreInOrder
    BY <1>4, <1>5, <2>1 DEF ArraysAreInOrder, Element
  <2>3. IsSlice(served) /\ IsSlice(renewed)
    BY <1>1, <1>5 DEF IsSlice
  <2> QED BY <2>2, <2>3 DEF Shape
<1>7. Found(served) = ToSet(list) /\ IsInjective(Elements(served))
  <2>1. /\ Elements(served) \in Seq(Element) /\ Len(Elements(served)) = Len(list)
        /\ \A i \in 1 .. Len(list) : Elements(served)[i] = list[i]
    BY <1>1, <1>5, <1>6, ListShown
  <2>2. Elements(served) = list
    BY <2>1
  <2> QED BY <2>2 DEF Found
<1>8. Once
  BY <1>2, <1>7 DEF Once
<1>9. IdsAreCreated
  <2>1. list \in Seq(created)
    BY <1>2 DEF ToSet
  <2> QED BY <1>2, <2>1 DEF IdsAreCreated
<1>10. WorkerSharesTheArray
  BY <1>1, <1>5 DEF WorkerSharesTheArray
<1>11. StartProvidersAreRenewed
  BY <1>5 DEF StartProvidersAreRenewed
<1>12. \A r \in Requests : Walked(request[r])
  BY <1>3, IdleIsWalked
<1> QED BY <1>2, <1>6, <1>8, <1>9, <1>10, <1>11, <1>12 DEF Inv

\* The same of a state after a restart.
LEMMA StartInvNext ==
    ASSUME NEW list \in Seq(Providers), IsInjective(list), NEW array \in Decoded(list),
           Started(list, array)'
    PROVE  Inv'
<1>1. /\ array \in Seq(Element) /\ Len(array) >= Len(list) /\ Len(list) \in Nat
      /\ \A i \in 1 .. Len(list) : array[i] = list[i]
  BY DecodedArray
<1>2. /\ arrays' = <<array>> /\ served' = [array |-> 1, len |-> Len(list)] /\ renewed' = served'
      /\ atStart' = ToSet(list) /\ leftBehind' = {} /\ outgrown' = FALSE
      /\ disk' = list /\ ToSet(list) \subseteq created' /\ created' \subseteq Providers
      /\ faults' \in 0 .. MaxFaults
  BY DEF Started, Whole
<1>3. \A r \in Requests : request'[r] = Idle
  BY DEF Started, NoRequests
<1>4. request' \in [Requests -> RequestState]
  BY IdleIsWalked DEF Started, NoRequests
<1>5. /\ arrays' \in Seq(Seq(Element)) /\ Len(arrays') = 1 /\ arrays'[1] = array
      /\ served' \in [array : Nat, len : Nat] /\ served'.array = 1 /\ served'.len = Len(list)
      /\ renewed' = served'
  BY <1>1, <1>2
<1>6. Shape'
  <2>1. outgrown' = (Len(arrays') > 1)
    <3>1. (Len(arrays') > 1) = FALSE
      BY <1>5
    <3> QED BY <1>2, <3>1
  <2>2. ArraysAreInOrder'
    BY <1>4, <1>5, <2>1 DEF ArraysAreInOrder, Element
  <2>3. IsSlice(served)' /\ IsSlice(renewed)'
    BY <1>1, <1>5 DEF IsSlice
  <2> QED BY <2>2, <2>3 DEF Shape
<1>7. Found(served)' = ToSet(list) /\ IsInjective(Elements(served)')
  <2>1. /\ Elements(served)' \in Seq(Element) /\ Len(Elements(served)') = Len(list)
        /\ \A i \in 1 .. Len(list) : Elements(served)'[i] = list[i]
    <3>1. Elements(served)' = SubSeq(array, 1, Len(list))
      BY <1>5 DEF Elements
    <3> QED BY <1>1, <3>1, SliceShows
  <2>2. Elements(served)' = list
    BY <2>1
  <2> QED BY <2>2 DEF Found
<1>8. Once'
  BY <1>2, <1>7 DEF Once
<1>9. IdsAreCreated'
  <2>1. list \in Seq(created')
    BY <1>2 DEF ToSet
  <2> QED BY <1>2, <2>1 DEF IdsAreCreated
<1>10. WorkerSharesTheArray'
  BY <1>1, <1>5 DEF WorkerSharesTheArray
<1>11. StartProvidersAreRenewed'
  BY <1>5 DEF StartProvidersAreRenewed
<1>12. \A r \in Requests : Walked(request[r])'
  BY <1>3, IdleIsWalked
<1> QED BY <1>2, <1>6, <1>8, <1>9, <1>10, <1>11, <1>12 DEF Inv

\* The first state.
LEMMA InitInv == Init => Inv
<1> SUFFICES ASSUME Init PROVE Inv
  OBVIOUS
<1>1. disk \in Seq(Providers) /\ IsInjective(disk)
  BY DEF Init, SeqOf
<1>2. PICK array \in Decoded(disk) : arrays = <<array>>
  BY DEF Init
<1>3. ToSet(disk) \subseteq Providers
  BY <1>1 DEF ToSet
<1>4. Started(disk, array)
  BY <1>2, <1>3, Parameters DEF Init, Started
<1> QED BY <1>1, <1>4, StartInv

\* A restart is a start with the list that was saved last.
LEMMA RestartKeeps ==
    ASSUME Inv, Restart
    PROVE  Inv'
<1> DEFINE list == disk
<1>1. PICK array \in Decoded(list) : arrays' = <<array>>
  BY DEF Restart
<1>2. /\ list \in Seq(created) /\ IsInjective(list) /\ created \subseteq Providers
      /\ created' = created /\ disk' = list
  BY DEF Inv, IdsAreCreated, Restart
<1>3. list \in Seq(Providers) /\ ToSet(list) \subseteq created
  BY <1>2 DEF ToSet
<1>4. /\ served' = Whole(list) /\ renewed' = Whole(list)
      /\ atStart' = ToSet(list) /\ leftBehind' = {} /\ outgrown' = FALSE
      /\ request' = NoRequests /\ faults' \in 0 .. MaxFaults
  BY Parameters DEF Restart, Inv
<1> HIDE DEF list
<1> SUFFICES ASSUME NEW l, l = list, NEW a, a = array PROVE Inv'
  OBVIOUS
<1>5. Started(l, a)'
  BY <1>1, <1>2, <1>3, <1>4 DEF Started, Whole, NoRequests, Idle
<1>6. l \in Seq(Providers) /\ IsInjective(l) /\ a \in Decoded(l)
  BY <1>1, <1>2, <1>3
<1> QED BY <1>5, <1>6, StartInvNext

\* Each step keeps the invariant.
LEMMA NextInv == Inv /\ [Next]_vars => Inv'
<1> SUFFICES ASSUME Inv, [Next]_vars PROVE Inv'
  OBVIOUS
<1>1. CASE Next
  <2>1. ASSUME NEW r \in Requests, NEW p \in Providers, AddProvider(r, p) PROVE Inv'
    BY <2>1, AddKeeps
  <2>2. ASSUME NEW r \in Requests, NEW k \in 1 .. served.len, DeleteProvider(r, k) PROVE Inv'
    BY <2>2, DeleteKeeps
  <2>3. ASSUME NEW r \in Requests, SaveConfig(r) \/ SaveConfigFails(r) PROVE Inv'
    BY <2>3, SaveKeeps
  <2>4. ASSUME NEW r \in Requests, BeginWalk(r) \/ WalkOn(r) \/ Return(r) PROVE Inv'
    BY <2>4, WalkKeeps
  <2>5. ASSUME Restart PROVE Inv'
    BY <2>5, RestartKeeps
  <2> QED BY <1>1, <2>1, <2>2, <2>3, <2>4, <2>5 DEF Next
<1>2. CASE UNCHANGED vars
  <2>1. UNCHANGED <<lists, start, file, request>>
    BY <1>2 DEF vars
  <2>2. ListInv'
    BY <2>1, ListStays DEF Inv, Shape, ArraysAreInOrder, IdsAreCreated, lists, start, file
  <2>3. ASSUME NEW q \in Requests PROVE Walked(request[q])'
    <3>1. Walked(request[q])
      BY DEF Inv
    <3> QED
      BY <2>1, <3>1 DEF Walked, IsSlice, SeesProviders, IsOvertaken, Found, Elements, Ahead,
                        Passed, lists
  <2> QED BY <2>2, <2>3 DEF Inv, ListInv
<1> QED BY <1>1, <1>2

\* Inv always holds.
LEMMA InvHolds == Spec => []Inv
BY InitInv, NextInv, PTL DEF Spec

-----------------------------------------------------------------------------
(* The properties.                                                          *)

\* Whatever two slices do to one array, the list that is served has each provider once, and
\* each slice lies in its array (auth.go:119, 150).
THEOREM ProviderListTypes == Spec => []TypeOK
<1>1. Inv => TypeOK
  <2> SUFFICES ASSUME Inv PROVE TypeOK
    OBVIOUS
  <2>1. \A a \in DOMAIN arrays : ToSet(arrays[a]) \subseteq Providers \cup {NoProvider}
    BY ListIsLast DEF ToSet, Element
  <2>2. ASSUME NEW r \in Requests
        PROVE  /\ request[r].pc \in {"idle", "walk", "verify", "save"}
               /\ request[r].pc = "walk" => IsSlice(request[r].slice)
               /\ request[r].k \in 0 .. request[r].slice.len
    <3>1. request[r] \in RequestState /\ Walked(request[r])
      BY DEF Inv, Shape, ArraysAreInOrder
    <3> QED BY <3>1 DEF Walked, RequestState
  <2> QED BY <2>1, <2>2 DEF Inv, Shape, Once, TypeOK
<1> QED BY <1>1, InvHolds, PTL

\* A check of a token asks only providers that were there, and misses one only for each
\* deletion at a position it had passed (auth.go:150, middleware.go:63-70).
THEOREM WalksSeeTheList == Spec => []WalkSeesTheList
<1>1. Inv => WalkSeesTheList
  <2> SUFFICES ASSUME Inv, NEW r \in Requests
               PROVE  /\ request[r].strange = {}
                      /\ request[r].pc = "verify" =>
                           Cardinality(request[r].missing) <= request[r].overtaken
    BY DEF WalkSeesTheList, WalkMissesOnlyShiftedProviders, WalkSeesProviders
  <2> QED BY DEF Inv, Walked
<1> QED BY <1>1, InvHolds, PTL

\* The worker renews the sessions of each provider of the start that is still there, and of
\* one that was deleted only if it was once the last or the list has moved (renew.go:86-93).
THEOREM WorkerFollows == Spec => []WorkerFollowsTheList
<1>1. ASSUME Inv PROVE DeletedIsNotRenewed
  <2> SUFFICES ASSUME ~outgrown PROVE Found(renewed) \subseteq Found(served) \cup leftBehind
    BY DEF DeletedIsNotRenewed
  <2>1. served.array = 1 /\ renewed.len \in Nat /\ served.len \in Nat
    <3>1. ASSUME served.array # 1 PROVE FALSE
      <4>1. (served.array # 1) = TRUE
        BY <3>1
      <4> QED BY <1>1, <4>1, ListIsLast
    <3> QED BY <1>1, <3>1, ListIsLast
  <2>2. Found(served) = {arrays[1][i] : i \in 1 .. served.len}
    BY <1>1, <2>1, ListShown DEF Inv
  <2>3. Found(renewed) = {arrays[1][i] : i \in 1 .. renewed.len}
    BY <1>1, WorkerShown DEF Inv
  <2>4. \A i \in served.len + 1 .. renewed.len : arrays[1][i] \in leftBehind
    BY <1>1 DEF Inv, WorkerSharesTheArray
  <2> QED BY <2>1, <2>2, <2>3, <2>4
<1>2. Inv => WorkerFollowsTheList
  BY <1>1 DEF Inv, WorkerFollowsTheList
<1> QED BY <1>2, InvHolds, PTL
=============================================================================
