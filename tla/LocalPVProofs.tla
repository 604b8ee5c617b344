---------------------------- MODULE LocalPVProofs ----------------------------
(***************************************************************************)
(* Proofs about LocalPV, for any number of volumes, nodes, groups and      *)
(* changes and any size of a page: what a command lists while objects come *)
(* and go, and why it fails when it does.                                  *)
(***************************************************************************)
EXTENDS LocalPV, FiniteSetTheorems, WellFoundedInduction, TLAPS

-----------------------------------------------------------------------------
(* Numbers in their order *)

Increasing(s) == \A i, j \in 1 .. Len(s) : i < j => s[i] < s[j]

(* The list s has the numbers of S, each once, in their order. *)
Enumerates(s, S) ==
  /\ s \in Seq(S)
  /\ Increasing(s)
  /\ \A x \in S : \E i \in 1 .. Len(s) : s[i] = x

Less == {x \in Nat \X Nat : x[1] < x[2]}

(* A non-empty set of natural numbers has a least element. *)
LEMMA Least ==
  ASSUME NEW T, T \subseteq Nat, T # {}
  PROVE  \E i \in T : \A j \in T : i <= j
<1>1. OpToRel(<, Nat) = Less
  BY Zenon DEF OpToRel, Less
<1>2. IsWellFoundedOn(Less, Nat)
  BY <1>1, NatLessThanWellFounded
<1>3. PICK i \in T : \A j \in T : ~(<<j, i>> \in Less)
  BY <1>2, WFMin, Zenon
<1>4. ASSUME NEW j \in T PROVE i <= j
  <2>1. i \in Nat /\ j \in Nat
    OBVIOUS
  <2>2. ~(j < i)
    BY <1>3, <2>1 DEF Less
  <2>3. QED
    BY <2>1, <2>2
<1>5. QED
  BY <1>4

(* Every finite set of numbers has its list: the place of a number is the
   number of those that are not greater. *)
LEMMA OrderExists ==
  ASSUME NEW S \in SUBSET Nat, IsFiniteSet(S)
  PROVE  \E s \in SetToSeqs(S) : \A i, j \in DOMAIN s : i < j => s[i] < s[j]
<1> DEFINE n == Cardinality(S)
           UpTo(x) == {y \in S : y <= x}
           place == [x \in S |-> Cardinality(UpTo(x))]
<1>1. n \in Nat
  BY FS_CardinalityType
<1>2. \A x \in S : /\ IsFiniteSet(UpTo(x)) /\ Cardinality(UpTo(x)) \in Nat
                   /\ Cardinality(UpTo(x)) <= n
  BY FS_Subset, FS_CardinalityType
<1>3. \A x \in S : Cardinality(UpTo(x)) # 0
  <2> TAKE x \in S
  <2>1. x \in UpTo(x)
    OBVIOUS
  <2>2. QED
    BY <1>2, <2>1, FS_EmptySet
<1>4. \A x \in S : place[x] \in 1 .. n
  BY <1>1, <1>2, <1>3
<1>5. ASSUME NEW x \in S, NEW y \in S, x < y PROVE place[x] < place[y]
  <2>1. UpTo(x) \in SUBSET UpTo(y)
    <3>1. x \in Nat /\ y \in Nat /\ \A z \in S : z \in Nat
      OBVIOUS
    <3>2. \A z \in S : z <= x => z <= y
      BY <1>5, <3>1
    <3>3. QED
      BY <3>2
  <2>2. y \in UpTo(y) /\ y \notin UpTo(x)
    BY <1>5
  <2>3. Cardinality(UpTo(x)) <= Cardinality(UpTo(y))
    BY <1>2, <2>1, FS_Subset
  <2>4. Cardinality(UpTo(x)) # Cardinality(UpTo(y))
    BY <1>2, <2>1, <2>2, FS_Subset
  <2>5. QED
    BY <1>2, <2>3, <2>4
<1> HIDE DEF place
<1>6. place \in [S -> 1 .. n]
  BY <1>4 DEF place
<1>7. \A x, y \in S : place[x] = place[y] => x = y
  BY <1>4, <1>5
<1>8. place \in Injection(S, 1 .. n)
  BY <1>6, <1>7 DEF Injection, IsInjective
<1>9. IsFiniteSet(1 .. n) /\ Cardinality(1 .. n) = n
  BY <1>1, FS_Interval
<1>10. place \in Surjection(S, 1 .. n)
  BY <1>8, <1>9, FS_Injection
<1>11. \A i \in 1 .. n : \E x \in S : place[x] = i
  BY <1>10 DEF Surjection
<1> DEFINE s == [i \in 1 .. n |-> CHOOSE x \in S : place[x] = i]
<1>12. \A i \in 1 .. n : s[i] \in S /\ place[s[i]] = i
  BY <1>11
<1>13. DOMAIN s = 1 .. n /\ s \in [1 .. n -> S]
  BY <1>12
<1> HIDE DEF s
<1>14. ASSUME NEW i \in 1 .. n, NEW j \in 1 .. n, i < j PROVE s[i] < s[j]
  <2>1. s[i] \in Nat /\ s[j] \in Nat
    BY <1>12
  <2>2. CASE s[j] < s[i]
    <3>1. place[s[j]] < place[s[i]]
      BY <1>5, <1>12, <2>2
    <3>2. QED
      BY <1>12, <1>14, <3>1
  <2>3. CASE s[j] = s[i]
    BY <1>12, <1>14, <2>3
  <2>4. QED
    BY <2>1, <2>2, <2>3
<1>15. \A i, j \in 1 .. n : i # j => s[i] # s[j]
  BY <1>12
<1>16. s \in SetToSeqs(S)
  BY <1>13, <1>15 DEF SetToSeqs
<1>17. QED
  BY <1>13, <1>14, <1>16

(* What InOrder makes of a finite set of numbers. *)
LEMMA InOrderLists ==
  ASSUME NEW S \in SUBSET Nat, IsFiniteSet(S)
  PROVE  Enumerates(InOrder(S), S)
<1> DEFINE s == InOrder(S)
           n == Cardinality(S)
<1>1. s \in SetToSeqs(S) /\ \A i, j \in DOMAIN s : i < j => s[i] < s[j]
  BY OrderExists DEF InOrder
<1> HIDE DEF s
<1>2. n \in Nat
  BY FS_CardinalityType
<1>3. s \in [1 .. n -> S] /\ \A i, j \in 1 .. n : i # j => s[i] # s[j]
  BY <1>1 DEF SetToSeqs
<1>4. s \in Seq(S) /\ Len(s) = n /\ DOMAIN s = 1 .. n
  BY <1>2, <1>3
<1>5. s \in Injection(1 .. n, S)
  BY <1>3 DEF Injection, IsInjective
<1>6. Cardinality(1 .. n) = n
  BY <1>2, FS_Interval
<1>7. s \in Surjection(1 .. n, S)
  BY <1>5, <1>6, FS_Injection
<1>8. \A x \in S : \E i \in 1 .. n : s[i] = x
  BY <1>7 DEF Surjection
<1>9. QED
  BY <1>1, <1>4, <1>8 DEF Enumerates, Increasing, s

(* Its parts. *)
LEMMA Enumerated ==
  ASSUME NEW S \in SUBSET Nat, NEW s, Enumerates(s, S)
  PROVE  /\ Len(s) \in Nat /\ DOMAIN s = 1 .. Len(s)
         /\ \A i \in 1 .. Len(s) : s[i] \in S /\ s[i] \in Nat
<1>1. s \in Seq(S)
  BY DEF Enumerates
<1>2. Len(s) \in Nat /\ DOMAIN s = 1 .. Len(s) /\ \A i \in 1 .. Len(s) : s[i] \in S
  BY <1>1
<1>3. QED
  BY <1>2

(* A number has one place in an enumeration at most, and the same in each. *)
LEMMA SamePlaces ==
  ASSUME NEW S \in SUBSET Nat, NEW s, NEW t, Enumerates(s, S), Enumerates(t, S)
  PROVE  \A i \in 1 .. Len(s) : i \in 1 .. Len(t) /\ s[i] = t[i]
<1> DEFINE Bad == {i \in 1 .. Len(s) : ~(i \in 1 .. Len(t) /\ s[i] = t[i])}
<1>1. /\ Len(s) \in Nat /\ Len(t) \in Nat
      /\ \A i \in 1 .. Len(s) : s[i] \in S /\ s[i] \in Nat
      /\ \A i \in 1 .. Len(t) : t[i] \in S /\ t[i] \in Nat
  BY Enumerated
<1> SUFFICES ASSUME Bad # {} PROVE FALSE
  OBVIOUS
<1>2. PICK i \in Bad : \A j \in Bad : i <= j
  <2>1. Bad \subseteq Nat
    BY <1>1
  <2>2. QED
    BY <2>1, Least
<1>3. i \in 1 .. Len(s) /\ ~(i \in 1 .. Len(t) /\ s[i] = t[i])
  OBVIOUS
<1>4. \A k \in 1 .. Len(s) : k < i => k \in 1 .. Len(t) /\ s[k] = t[k]
  BY <1>1, <1>2, <1>3
<1>5. PICK k \in 1 .. Len(t) : t[k] = s[i]
  BY <1>1, <1>3 DEF Enumerates
<1>6. ~(k < i)
  <2>1. SUFFICES ASSUME k < i PROVE FALSE
    OBVIOUS
  <2>2. k \in 1 .. Len(s)
    BY <1>1, <1>3, <2>1
  <2>3. s[k] < s[i]
    BY <1>3, <2>1, <2>2 DEF Enumerates, Increasing
  <2>4. QED
    BY <1>1, <1>3, <1>4, <1>5, <2>1, <2>2, <2>3
<1>7. i \in 1 .. Len(t) /\ i <= k
  BY <1>1, <1>3, <1>6
<1>8. PICK m \in 1 .. Len(s) : s[m] = t[i]
  BY <1>1, <1>7 DEF Enumerates
<1>9. ~(m < i)
  <2>1. SUFFICES ASSUME m < i PROVE FALSE
    OBVIOUS
  <2>2. m \in 1 .. Len(t) /\ s[m] = t[m]
    BY <1>4, <2>1
  <2>3. t[m] < t[i]
    BY <1>7, <2>1, <2>2 DEF Enumerates, Increasing
  <2>4. QED
    BY <1>1, <1>7, <1>8, <2>2, <2>3
<1>10. s[i] <= s[m]
  <2>1. i < m => s[i] < s[m]
    BY <1>3 DEF Enumerates, Increasing
  <2>2. i = m \/ i < m
    BY <1>1, <1>3, <1>9
  <2>3. QED
    BY <1>1, <1>3, <2>1, <2>2
<1>11. t[i] <= t[k]
  <2>1. i < k => t[i] < t[k]
    BY <1>7 DEF Enumerates, Increasing
  <2>2. i = k \/ i < k
    BY <1>1, <1>7
  <2>3. QED
    BY <1>1, <1>7, <2>1, <2>2
<1>12. s[i] = t[i]
  BY <1>1, <1>3, <1>5, <1>7, <1>8, <1>10, <1>11
<1>13. QED
  BY <1>3, <1>7, <1>12

(* Lists with the same places have the same length. *)
LEMMA SameLength ==
  ASSUME NEW m \in Nat, NEW n \in Nat,
         \A i \in 1 .. m : i \in 1 .. n, \A i \in 1 .. n : i \in 1 .. m
  PROVE  m = n
<1>1. ~(m < n) /\ ~(n < m)
  OBVIOUS
<1>2. QED
  BY <1>1

(* The n numbers after a. *)
After(a, n) == a + 1 .. a + n

(* The list p counts on from a. *)
CountsOn(p, a, n) == DOMAIN p = 1 .. n /\ \A k \in 1 .. n : p[k] = a + k

(* The numbers of an interval in their order. *)
LEMMA IntervalInOrder ==
  ASSUME NEW a \in Nat, NEW n \in Nat
  PROVE  CountsOn(InOrder(After(a, n)), a, n)
<1> DEFINE S == After(a, n)
           t == [k \in 1 .. n |-> a + k]
           s == InOrder(S)
<1> USE DEF After
<1>1. S \in SUBSET Nat /\ IsFiniteSet(S)
  BY FS_Interval
<1>2. Enumerates(s, S)
  BY <1>1, InOrderLists
<1>3. t \in Seq(S) /\ Len(t) = n /\ \A k \in 1 .. n : t[k] = a + k
  OBVIOUS
<1>4. \A x \in S : \E i \in 1 .. n : a + i = x
  <2> TAKE x \in S
  <2>1. x - a \in 1 .. n /\ a + (x - a) = x
    OBVIOUS
  <2>2. QED
    BY <2>1
<1> HIDE DEF t, s, S, After
<1>5. Enumerates(t, S)
  <2>1. \A i, j \in 1 .. n : i < j => t[i] < t[j]
    BY <1>3
  <2>2. \A x \in S : \E i \in 1 .. n : t[i] = x
    BY <1>3, <1>4
  <2>3. QED
    BY <1>3, <2>1, <2>2 DEF Enumerates, Increasing
<1>6. \A i \in 1 .. Len(s) : i \in 1 .. Len(t) /\ s[i] = t[i]
  BY <1>1, <1>2, <1>5, SamePlaces
<1>7. \A i \in 1 .. Len(t) : i \in 1 .. Len(s) /\ t[i] = s[i]
  BY <1>1, <1>2, <1>5, SamePlaces
<1>8. Len(s) \in Nat /\ DOMAIN s = 1 .. Len(s)
  BY <1>1, <1>2, Enumerated
<1>9. Len(s) = n
  <2>1. \A i \in 1 .. Len(s) : i \in 1 .. n
    BY <1>3, <1>6
  <2>2. \A i \in 1 .. n : i \in 1 .. Len(s)
    BY <1>3, <1>7
  <2>3. QED
    BY <1>8, <2>1, <2>2, SameLength
<1>10. CountsOn(s, a, n)
  BY <1>3, <1>6, <1>8, <1>9 DEF CountsOn
<1>11. QED
  BY <1>10 DEF s, S

(* What Selected makes of a list: its elements that are in T, in their order. *)
LEMMA SelectedLists ==
  ASSUME NEW S, NEW s \in Seq(S), NEW T, NEW r, r = Selected(s, T)
  PROVE  /\ r \in Seq(S)
         /\ Range(r) = Range(s) \cap T
         /\ S \subseteq Nat /\ Increasing(s) => Increasing(r)
<1> DEFINE at == {i \in DOMAIN s : s[i] \in T}
           p == InOrder(at)
<1>1. Len(s) \in Nat /\ DOMAIN s = 1 .. Len(s) /\ \A i \in 1 .. Len(s) : s[i] \in S
  OBVIOUS
<1>2. at \in SUBSET Nat /\ IsFiniteSet(at)
  <2>1. at \in SUBSET (1 .. Len(s))
    BY <1>1
  <2>2. IsFiniteSet(1 .. Len(s))
    BY <1>1, FS_Interval
  <2>3. 1 .. Len(s) \subseteq Nat
    BY <1>1
  <2>4. QED
    BY <2>1, <2>2, <2>3, FS_Subset
<1>3. Enumerates(p, at)
  BY <1>2, InOrderLists
<1>4. r = [k \in DOMAIN p |-> s[p[k]]]
  BY DEF Selected
<1> HIDE DEF p
<1>5. /\ Len(p) \in Nat /\ DOMAIN p = 1 .. Len(p)
      /\ \A k \in 1 .. Len(p) : p[k] \in at
  BY <1>2, <1>3, Enumerated
<1>6. \A k \in 1 .. Len(p) : p[k] \in 1 .. Len(s) /\ s[p[k]] \in T
  BY <1>1, <1>5
<1>7. /\ r \in Seq(S) /\ Len(r) = Len(p)
      /\ \A k \in 1 .. Len(p) : r[k] = s[p[k]]
  BY <1>1, <1>4, <1>5, <1>6
<1>8. DOMAIN r = 1 .. Len(p)
  BY <1>4, <1>5
<1>9. Range(r) \subseteq Range(s) \cap T
  BY <1>1, <1>6, <1>7, <1>8 DEF Range
<1>10. ASSUME NEW x \in Range(s) \cap T PROVE x \in Range(r)
  <2>1. PICK i \in DOMAIN s : s[i] = x
    BY DEF Range
  <2>2. i \in at
    BY <2>1
  <2>3. PICK k \in 1 .. Len(p) : p[k] = i
    BY <1>3, <2>2 DEF Enumerates
  <2>4. r[k] = x /\ k \in DOMAIN r
    BY <1>7, <1>8, <2>1, <2>3
  <2>5. QED
    BY <2>4 DEF Range
<1>11. ASSUME S \subseteq Nat, Increasing(s) PROVE Increasing(r)
  <2> SUFFICES ASSUME NEW i \in 1 .. Len(r), NEW j \in 1 .. Len(r), i < j
               PROVE  r[i] < r[j]
    BY DEF Increasing
  <2>1. p[i] < p[j] /\ p[i] \in 1 .. Len(s) /\ p[j] \in 1 .. Len(s)
    BY <1>3, <1>6, <1>7 DEF Enumerates, Increasing
  <2>2. s[p[i]] < s[p[j]]
    BY <1>11, <2>1 DEF Increasing
  <2>3. QED
    BY <1>7, <2>2
<1>12. QED
  BY <1>7, <1>9, <1>10, <1>11

(* The same, as one fact about the list that is selected. *)
Selects(r, s, T, S) ==
  /\ r \in Seq(S) /\ Range(r) = Range(s) \cap T
  /\ S \subseteq Nat /\ Increasing(s) => Increasing(r)

(* Selected selects. *)
LEMMA Selection ==
  ASSUME NEW S, NEW s \in Seq(S), NEW T
  PROVE  Selects(Selected(s, T), s, T, S)
<1> DEFINE r == Selected(s, T)
<1>1. r = Selected(s, T)
  OBVIOUS
<1> HIDE DEF r
<1>2. /\ r \in Seq(S) /\ Range(r) = Range(s) \cap T
      /\ S \subseteq Nat /\ Increasing(s) => Increasing(r)
  BY <1>1, SelectedLists
<1>3. QED
  BY <1>1, <1>2 DEF Selects

-----------------------------------------------------------------------------
(* Pages *)

(* What two lists make, one after the other. *)
LEMMA TwoLists ==
  ASSUME NEW S, NEW s \in Seq(S), NEW t \in Seq(S), NEW r, r = s \o t
  PROVE  /\ r \in Seq(S) /\ Len(r) = Len(s) + Len(t)
         /\ \A j \in 1 .. Len(s) : r[j] = s[j]
         /\ \A j \in 1 .. Len(t) : r[Len(s) + j] = t[j]
  OBVIOUS

(* A listing of which the pages so far have made the list done, and the token
   stands for rest: it is in order, without repetition, of elements that it may
   have, and has those that it must have. *)
Covers(done, rest, May, Must) ==
  /\ Increasing(done) /\ Increasing(rest)
  /\ \A i \in 1 .. Len(done), j \in 1 .. Len(rest) : done[i] < rest[j]
  /\ Range(done) \cup Range(rest) \subseteq May
  /\ Must \subseteq Range(done) \cup Range(rest)

(* A listing begins with the objects that there are. *)
LEMMA ListingBegins ==
  ASSUME NEW O \in SUBSET Nat, IsFiniteSet(O), NEW May, NEW Must,
         Must \subseteq O, O \subseteq May
  PROVE  /\ Covers(<<>>, InOrder(O), May, Must)
         /\ InOrder(O) \in Seq(O)
<1> DEFINE l == InOrder(O)
<1>1. Enumerates(l, O)
  BY InOrderLists
<1> HIDE DEF l
<1>2. DOMAIN l = 1 .. Len(l) /\ \A i \in 1 .. Len(l) : l[i] \in O
  BY <1>1, Enumerated
<1>3. Range(l) = O
  BY <1>1, <1>2 DEF Enumerates, Range
<1>4. Range(<<>>) = {}
  BY DEF Range
<1>5. Increasing(<<>>)
  BY DEF Increasing
<1>6. \A i \in 1 .. Len(<<>>), j \in 1 .. Len(l) : <<>>[i] < l[j]
  OBVIOUS
<1>7. l \in Seq(O) /\ Increasing(l)
  BY <1>1 DEF Enumerates
<1>8. Covers(<<>>, l, May, Must)
  BY <1>3, <1>4, <1>5, <1>6, <1>7, Zenon DEF Covers
<1>9. QED
  BY <1>7, <1>8 DEF l

(* More may be in it and less must be in it after a change to the objects. *)
LEMMA CoversMore ==
  ASSUME NEW done, NEW rest, NEW May, NEW Must, NEW More, NEW Fewer,
         Covers(done, rest, May, Must), May \subseteq More, Fewer \subseteq Must
  PROVE  Covers(done, rest, More, Fewer)
  BY Zenon DEF Covers

(* A page moves the first elements of the rest to the list. *)
LEMMA PageMoves ==
  ASSUME NEW S \in SUBSET Nat, NEW done \in Seq(S), NEW l \in Seq(S), NEW n \in Nat \ {0},
         NEW May, NEW Must, Covers(done, l, May, Must),
         NEW p, p = SubSeq(l, 1, IF Len(l) < n THEN Len(l) ELSE n),
         NEW t, t = SubSeq(l, n + 1, Len(l)),
         NEW d, d = done \o p
  PROVE  d \in Seq(S) /\ t \in Seq(S) /\ Covers(d, t, May, Must)
<1> DEFINE m == IF Len(l) < n THEN Len(l) ELSE n
<1>1. /\ m \in Nat /\ m <= n /\ Len(l) \in Nat /\ m <= Len(l)
      /\ Len(l) - m \in Nat
  OBVIOUS
<1>2. p \in Seq(S) /\ Len(p) = m /\ \A i \in 1 .. m : p[i] = l[i]
  BY <1>1
<1> HIDE DEF m
<1>3. t \in Seq(S) /\ Len(t) = Len(l) - m /\ \A i \in 1 .. Len(l) - m : t[i] = l[m + i]
  <2>1. CASE Len(l) < n
    <3>1. t = <<>> /\ m = Len(l)
      BY <1>1, <2>1 DEF m
    <3>2. t \in Seq(S) /\ Len(t) = 0 /\ Len(l) - m = 0
      BY <1>1, <3>1
    <3>3. QED
      BY <3>2
  <2>2. CASE ~(Len(l) < n)
    <3>1. m = n /\ n \in Nat /\ n <= Len(l)
      BY <1>1, <2>2 DEF m
    <3>2. /\ t \in Seq(S) /\ Len(t) = Len(l) - n
          /\ \A i \in 1 .. Len(l) - n : t[i] = l[n + i]
      BY <1>1, <3>1
    <3>3. QED
      BY <3>1, <3>2
  <2>3. QED
    BY <2>1, <2>2
<1>4. /\ d \in Seq(S) /\ Len(d) = Len(done) + m /\ Len(done) \in Nat
      /\ \A j \in 1 .. Len(done) : d[j] = done[j]
      /\ \A j \in 1 .. m : d[Len(done) + j] = l[j]
  BY <1>2, TwoLists
<1>5. \A i \in 1 .. Len(d) :
        \/ i \in 1 .. Len(done) /\ d[i] = done[i]
        \/ i - Len(done) \in 1 .. m /\ i - Len(done) \in 1 .. Len(l)
           /\ d[i] = l[i - Len(done)]
  <2> TAKE i \in 1 .. Len(d)
  <2>1. CASE i <= Len(done)
    BY <1>4, <2>1
  <2>2. CASE i > Len(done)
    <3>1. i - Len(done) \in 1 .. m /\ i = Len(done) + (i - Len(done))
      BY <1>1, <1>4, <2>2
    <3>2. i - Len(done) \in 1 .. Len(l)
      BY <1>1, <3>1
    <3>3. QED
      BY <1>4, <3>1, <3>2
  <2>3. QED
    BY <1>4, <2>1, <2>2
<1>6. /\ \A i \in 1 .. Len(t) : m + i \in 1 .. Len(l) /\ t[i] = l[m + i]
  BY <1>1, <1>3
<1>7. /\ \A i, j \in 1 .. Len(l) : i < j => l[i] < l[j]
      /\ \A i, j \in 1 .. Len(done) : i < j => done[i] < done[j]
      /\ \A i \in 1 .. Len(done), j \in 1 .. Len(l) : done[i] < l[j]
  BY DEF Covers, Increasing
<1>8. Increasing(d)
  <2> SUFFICES ASSUME NEW i \in 1 .. Len(d), NEW j \in 1 .. Len(d), i < j
               PROVE  d[i] < d[j]
    BY DEF Increasing
  <2>1. CASE j \in 1 .. Len(done)
    <3>1. i \in 1 .. Len(done)
      BY <1>4, <2>1
    <3>2. QED
      BY <1>4, <1>7, <2>1, <3>1
  <2>2. CASE j \notin 1 .. Len(done) /\ i \in 1 .. Len(done)
    BY <1>4, <1>5, <1>7, <2>2
  <2>3. CASE j \notin 1 .. Len(done) /\ i \notin 1 .. Len(done)
    <3>1. i - Len(done) \in 1 .. Len(l) /\ d[i] = l[i - Len(done)]
      BY <1>5, <2>3
    <3>2. j - Len(done) \in 1 .. Len(l) /\ d[j] = l[j - Len(done)]
      BY <1>5, <2>3
    <3>3. i - Len(done) < j - Len(done)
      BY <1>4
    <3>4. QED
      BY <1>7, <3>1, <3>2, <3>3
  <2>4. QED
    BY <2>1, <2>2, <2>3
<1>9. Increasing(t)
  <2> SUFFICES ASSUME NEW i \in 1 .. Len(t), NEW j \in 1 .. Len(t), i < j
               PROVE  t[i] < t[j]
    BY DEF Increasing
  <2>1. m + i < m + j
    BY <1>1, <1>3
  <2>2. QED
    BY <1>6, <1>7, <2>1
<1>10. ASSUME NEW i \in 1 .. Len(d), NEW j \in 1 .. Len(t) PROVE d[i] < t[j]
  <2>1. CASE i \in 1 .. Len(done)
    BY <1>4, <1>6, <1>7, <2>1
  <2>2. CASE i \notin 1 .. Len(done)
    <3>1. /\ i - Len(done) \in 1 .. m /\ i - Len(done) \in 1 .. Len(l)
          /\ d[i] = l[i - Len(done)]
      BY <1>5, <2>2
    <3>2. i - Len(done) < m + j
      BY <1>1, <1>3, <3>1
    <3>3. QED
      BY <1>6, <1>7, <3>1, <3>2
  <2>3. QED
    BY <2>1, <2>2
<1>11. Range(d) \cup Range(t) = Range(done) \cup Range(l)
  <2>1. /\ DOMAIN d = 1 .. Len(d) /\ DOMAIN t = 1 .. Len(t)
        /\ DOMAIN done = 1 .. Len(done) /\ DOMAIN l = 1 .. Len(l)
    BY <1>3, <1>4
  <2>2. ASSUME NEW x \in Range(d) \cup Range(t) PROVE x \in Range(done) \cup Range(l)
    <3>1. CASE x \in Range(d)
      <4>1. PICK i \in 1 .. Len(d) : x = d[i]
        BY <2>1, <3>1 DEF Range
      <4>2. QED
        BY <1>5, <2>1, <4>1 DEF Range
    <3>2. CASE x \in Range(t)
      <4>1. PICK i \in 1 .. Len(t) : x = t[i]
        BY <2>1, <3>2 DEF Range
      <4>2. QED
        BY <1>6, <2>1, <4>1 DEF Range
    <3>3. QED
      BY <3>1, <3>2
  <2>3. ASSUME NEW x \in Range(done) PROVE x \in Range(d)
    <3>1. PICK i \in 1 .. Len(done) : x = done[i]
      BY <2>1, <2>3 DEF Range
    <3>2. i \in 1 .. Len(d) /\ d[i] = x
      BY <1>1, <1>4, <3>1
    <3>3. QED
      BY <2>1, <3>2 DEF Range
  <2>4. ASSUME NEW x \in Range(l) PROVE x \in Range(d) \cup Range(t)
    <3>1. PICK i \in 1 .. Len(l) : x = l[i]
      BY <2>1, <2>4 DEF Range
    <3>2. CASE i <= m
      <4>1. i \in 1 .. m /\ Len(done) + i \in 1 .. Len(d)
        BY <1>1, <1>4, <3>2
      <4>2. QED
        BY <1>4, <2>1, <3>1, <4>1 DEF Range
    <3>3. CASE i > m
      <4>1. i - m \in 1 .. Len(t) /\ m + (i - m) = i
        BY <1>1, <1>3, <3>3
      <4>2. t[i - m] = x
        BY <1>6, <3>1, <4>1
      <4>3. QED
        BY <2>1, <4>1, <4>2 DEF Range
    <3>4. QED
      BY <1>1, <3>2, <3>3
  <2>5. QED
    BY <2>2, <2>3, <2>4
<1>12. QED
  BY <1>3, <1>4, <1>8, <1>9, <1>10, <1>11 DEF Covers

-----------------------------------------------------------------------------
(* Rows of volume groups and zpools *)

Groups == UNION {Range(NodeGroups[n]) : n \in Nodes}
Row == Nodes \X Groups

Rows(n) == [j \in 1 .. Len(NodeGroups[n]) |-> <<n, NodeGroups[n][j]>>]

(* The rows of n in r are those of its groups, in their order, one after the
   other from place a + 1 on. *)
Block(r, n, a) ==
  /\ \A k \in 1 .. Len(r) : r[k][1] = n <=> k \in a + 1 .. a + Len(NodeGroups[n])
  /\ a + Len(NodeGroups[n]) <= Len(r)
  /\ \A j \in 1 .. Len(NodeGroups[n]) : r[a + j] = <<n, NodeGroups[n][j]>>

Without(r, n) == \A k \in 1 .. Len(r) : r[k][1] # n

(* The rows of a node. *)
LEMMA RowsOfNode ==
  ASSUME NEW n \in Nodes
  PROVE  /\ NodeGroups[n] \in Seq(STRING) /\ Len(NodeGroups[n]) \in Nat
         /\ Rows(n) \in Seq(Row) /\ Len(Rows(n)) = Len(NodeGroups[n])
         /\ \A j \in 1 .. Len(NodeGroups[n]) : Rows(n)[j] = <<n, NodeGroups[n][j]>>
<1>1. NodeGroups[n] \in Seq(STRING)
  BY GroupsAssumption
<1>2. Len(NodeGroups[n]) \in Nat /\ DOMAIN NodeGroups[n] = 1 .. Len(NodeGroups[n])
  BY <1>1
<1>3. \A j \in 1 .. Len(NodeGroups[n]) : NodeGroups[n][j] \in Groups
  BY <1>2 DEF Groups, Range
<1>4. \A j \in 1 .. Len(NodeGroups[n]) : <<n, NodeGroups[n][j]>> \in Row
  BY <1>3 DEF Row
<1>5. /\ Rows(n) \in Seq(Row) /\ Len(Rows(n)) = Len(NodeGroups[n])
      /\ \A j \in 1 .. Len(NodeGroups[n]) : Rows(n)[j] = <<n, NodeGroups[n][j]>>
  BY <1>2, <1>4 DEF Rows
<1>6. QED
  BY <1>1, <1>2, <1>5

(* The rows of one more node come after the others and leave them alone. *)
LEMMA RowsAdded ==
  ASSUME NEW r \in Seq(Row), NEW e \in Nodes, Without(r, e), NEW u, u = r \o Rows(e)
  PROVE  /\ u \in Seq(Row)
         /\ Block(u, e, Len(r)) /\ Len(r) \in Nat
         /\ \A n \in Nodes \ {e} : /\ \A a \in Nat : Block(r, n, a) => Block(u, n, a)
                                   /\ Without(r, n) => Without(u, n)
<1> DEFINE L == Len(NodeGroups[e])
<1>1. /\ L \in Nat /\ Rows(e) \in Seq(Row) /\ Len(Rows(e)) = L
      /\ \A j \in 1 .. L : Rows(e)[j] = <<e, NodeGroups[e][j]>>
  BY RowsOfNode
<1>2. /\ u \in Seq(Row) /\ Len(u) = Len(r) + Len(Rows(e)) /\ Len(r) \in Nat
      /\ \A j \in 1 .. Len(r) : u[j] = r[j]
      /\ \A j \in 1 .. Len(Rows(e)) : u[Len(r) + j] = Rows(e)[j]
  <2>1. Rows(e) \in Seq(Row)
    BY <1>1
  <2>2. QED
    BY <2>1, TwoLists
<1>3. Len(u) = Len(r) + L /\ \A j \in 1 .. L : u[Len(r) + j] = <<e, NodeGroups[e][j]>>
  BY <1>1, <1>2
<1> HIDE DEF L
<1>4. \A k \in 1 .. Len(u) :
        \/ k \in 1 .. Len(r) /\ u[k] = r[k]
        \/ k \in Len(r) + 1 .. Len(r) + L /\ k \notin 1 .. Len(r) /\ u[k][1] = e
  <2> TAKE k \in 1 .. Len(u)
  <2>1. CASE k <= Len(r)
    BY <1>1, <1>2, <1>3, <2>1
  <2>2. CASE k > Len(r)
    <3>1. k - Len(r) \in 1 .. L /\ k = Len(r) + (k - Len(r))
      BY <1>1, <1>2, <1>3, <2>2
    <3>2. u[k] = <<e, NodeGroups[e][k - Len(r)]>>
      BY <1>3, <3>1
    <3>3. k \in Len(r) + 1 .. Len(r) + L /\ k \notin 1 .. Len(r)
      BY <1>1, <1>2, <1>3, <2>2
    <3>4. QED
      BY <3>2, <3>3
  <2>3. QED
    BY <1>2, <2>1, <2>2
<1>5. Block(u, e, Len(r))
  <2>1. ASSUME NEW k \in 1 .. Len(u)
        PROVE  u[k][1] = e <=> k \in Len(r) + 1 .. Len(r) + L
    <3>1. CASE k \in 1 .. Len(r) /\ u[k] = r[k]
      <4>1. u[k][1] # e
        BY <3>1 DEF Without
      <4>2. k \notin Len(r) + 1 .. Len(r) + L
        BY <1>1, <1>2, <3>1
      <4>3. QED
        BY <4>1, <4>2
    <3>2. QED
      BY <1>4, <3>1
  <2>2. QED
    BY <1>2, <1>3, <2>1 DEF Block, L
<1>6. ASSUME NEW n \in Nodes \ {e}, NEW a \in Nat, Block(r, n, a) PROVE Block(u, n, a)
  <2> DEFINE M == Len(NodeGroups[n])
  <2>1. M \in Nat
    BY RowsOfNode
  <2>2. /\ \A k \in 1 .. Len(r) : r[k][1] = n <=> k \in a + 1 .. a + M
        /\ a + M <= Len(r)
        /\ \A j \in 1 .. M : r[a + j] = <<n, NodeGroups[n][j]>>
    BY <1>6 DEF Block
  <2> HIDE DEF M
  <2>3. a + M <= Len(u)
    BY <1>1, <1>2, <1>3, <2>1, <2>2
  <2>4. \A j \in 1 .. M : u[a + j] = <<n, NodeGroups[n][j]>>
    <3>1. \A j \in 1 .. M : a + j \in 1 .. Len(r)
      BY <1>2, <2>1, <2>2
    <3>2. QED
      BY <1>2, <2>2, <3>1
  <2>5. ASSUME NEW k \in 1 .. Len(u)
        PROVE  u[k][1] = n <=> k \in a + 1 .. a + M
    <3>1. CASE k \in 1 .. Len(r) /\ u[k] = r[k]
      BY <2>2, <3>1
    <3>2. CASE k \notin 1 .. Len(r) /\ u[k][1] = e
      <4>1. k \notin a + 1 .. a + M
        BY <1>2, <2>1, <2>2, <3>2
      <4>2. QED
        BY <3>2, <4>1
    <3>3. QED
      BY <1>4, <3>1, <3>2
  <2>6. QED
    BY <2>3, <2>4, <2>5 DEF Block, M
<1>7. ASSUME NEW n \in Nodes \ {e}, Without(r, n) PROVE Without(u, n)
  BY <1>4, <1>7 DEF Without
<1>8. QED
  BY <1>2, <1>5, <1>6, <1>7

(* The lists that FlattenSeq goes through, each made from the one before it. *)
Partial(q, m, f) ==
  f = [i \in 1 .. m |-> IF i = 1 THEN q[i] ELSE f[i - 1] \o q[i]]

(* There are such lists. *)
LEMMA PartialExists ==
  ASSUME NEW q, NEW m \in Nat
  PROVE  \E f : Partial(q, m, f)
<1> DEFINE Bad == {k \in Nat : ~ \E f : Partial(q, k, f)}
<1> SUFFICES ASSUME Bad # {} PROVE FALSE
  OBVIOUS
<1>1. PICK k \in Bad : \A j \in Bad : k <= j
  BY Least
<1>2. CASE k = 0
  <2> DEFINE f == [i \in 1 .. 0 |-> q]
  <2>1. Partial(q, 0, f)
    BY DEF Partial
  <2>2. QED
    BY <1>2, <2>1
<1>3. CASE k # 0
  <2>1. k - 1 \in Nat /\ k - 1 \notin Bad /\ k \in Nat
    BY <1>1, <1>3
  <2>2. PICK g : Partial(q, k - 1, g)
    BY <2>1
  <2> DEFINE f == [i \in 1 .. k |-> IF i < k THEN g[i]
                                    ELSE IF i = 1 THEN q[i] ELSE g[i - 1] \o q[i]]
  <2>3. \A i \in 1 .. k - 1 : g[i] = IF i = 1 THEN q[i] ELSE g[i - 1] \o q[i]
    BY <2>2 DEF Partial
  <2>4. ASSUME NEW i \in 1 .. k
        PROVE  f[i] = IF i = 1 THEN q[i] ELSE f[i - 1] \o q[i]
    <3>1. i # 1 => i - 1 \in 1 .. k /\ i - 1 < k
      BY <2>1
    <3>2. i # 1 => f[i - 1] = g[i - 1]
      BY <3>1
    <3>3. CASE i < k
      <4>1. i \in 1 .. k - 1 /\ f[i] = g[i]
        BY <2>1, <3>3
      <4>2. QED
        BY <2>3, <3>2, <4>1
    <3>4. CASE ~(i < k)
      <4>1. f[i] = IF i = 1 THEN q[i] ELSE g[i - 1] \o q[i]
        BY <3>4
      <4>2. QED
        BY <3>2, <4>1
    <3>5. QED
      BY <3>3, <3>4
  <2>5. f = [i \in 1 .. k |-> f[i]]
    OBVIOUS
  <2> HIDE DEF f
  <2>6. Partial(q, k, f)
    BY <2>4, <2>5 DEF Partial
  <2>7. QED
    BY <2>6
<1>4. QED
  BY <1>2, <1>3

(* A list of nodes, each once, makes a block for each and nothing else. *)
LEMMA Flattened ==
  ASSUME NEW ns \in Seq(Nodes), Increasing(ns), NEW r,
         r = FlattenSeq([i \in 1 .. Len(ns) |-> Rows(ns[i])])
  PROVE  /\ r \in Seq(Row)
         /\ \A n \in Range(ns) : \E a \in Nat : Block(r, n, a)
         /\ \A n \in Nodes \ Range(ns) : Without(r, n)
<1> DEFINE q == [i \in 1 .. Len(ns) |-> Rows(ns[i])]
           N == Len(ns)
<1>1. N \in Nat /\ DOMAIN ns = 1 .. N /\ \A i \in 1 .. N : ns[i] \in Nodes
  OBVIOUS
<1>2. ASSUME NEW i \in 1 .. N, NEW j \in 1 .. N, i # j PROVE ns[i] # ns[j]
  <2>1. ns[i] \in Nat /\ ns[j] \in Nat
    BY <1>1, CountsAssumption DEF Nodes
  <2>2. i < j \/ j < i
    BY <1>1, <1>2
  <2>3. QED
    BY <2>1, <2>2 DEF Increasing
<1>3. /\ q \in Seq(Seq(Row)) /\ Len(q) = N
      /\ \A i \in 1 .. N : q[i] = Rows(ns[i])
  <2>1. \A i \in 1 .. N : Rows(ns[i]) \in Seq(Row)
    BY <1>1, RowsOfNode
  <2>2. QED
    BY <1>1, <2>1
<1> HIDE DEF q, N
<1>4. CASE N = 0
  <2>1. r = q
    BY <1>3, <1>4 DEF FlattenSeq, q
  <2>2. r \in Seq(Row) /\ Len(r) = 0
    BY <1>3, <1>4, <2>1
  <2>3. Range(ns) = {}
    BY <1>1, <1>4 DEF Range
  <2>4. QED
    BY <2>2, <2>3 DEF Without
<1>5. CASE N # 0
  <2> DEFINE f == CHOOSE g : Partial(q, N, g)
  <2>1. r = f[N]
    BY <1>3, <1>5, Zenon DEF FlattenSeq, Partial, q
  <2>2. Partial(q, N, f)
    BY <1>1, PartialExists
  <2> HIDE DEF f
  <2>3. \A i \in 1 .. N : f[i] = IF i = 1 THEN q[i] ELSE f[i - 1] \o q[i]
    BY <2>2 DEF Partial
  <2> DEFINE First(i) == {ns[k] : k \in 1 .. i}
             Good(i) == /\ f[i] \in Seq(Row)
                        /\ \A n \in First(i) : \E a \in Nat : Block(f[i], n, a)
                        /\ \A n \in Nodes \ First(i) : Without(f[i], n)
             Bad == {i \in 1 .. N : ~Good(i)}
  <2>4. ASSUME NEW i \in 1 .. N, NEW p \in Seq(Row), f[i] = p \o Rows(ns[i]),
               NEW F, F \subseteq Nodes, First(i) = F \cup {ns[i]}, ns[i] \notin F,
               \A n \in F : \E a \in Nat : Block(p, n, a),
               \A n \in Nodes \ F : Without(p, n)
        PROVE  Good(i)
    <3> HIDE DEF First
    <3>1. ns[i] \in Nodes /\ Without(p, ns[i])
      BY <1>1, <2>4
    <3>2. /\ f[i] \in Seq(Row)
          /\ Block(f[i], ns[i], Len(p)) /\ Len(p) \in Nat
          /\ \A n \in Nodes \ {ns[i]} :
               /\ \A a \in Nat : Block(p, n, a) => Block(f[i], n, a)
               /\ Without(p, n) => Without(f[i], n)
      BY <2>4, <3>1, RowsAdded
    <3>3. QED
      BY <2>4, <3>2
  <2>5. ASSUME Bad # {} PROVE FALSE
    <3>1. PICK i \in Bad : \A j \in Bad : i <= j
      <4>1. Bad \subseteq Nat
        BY <1>1
      <4>2. QED
        BY <2>5, <4>1, Least
    <3>2. i \in 1 .. N /\ ~Good(i)
      BY <3>1
    <3>3. CASE i = 1
      <4>1. f[1] = Rows(ns[1])
        BY <1>3, <2>3, <3>2, <3>3
      <4>2. <<>> \in Seq(Row) /\ f[1] = <<>> \o Rows(ns[1])
        BY <1>1, <3>2, <3>3, <4>1, RowsOfNode
      <4>3. First(1) = {} \cup {ns[1]}
        OBVIOUS
      <4>4. \A n \in Nodes \ {} : Without(<<>>, n)
        BY DEF Without
      <4> DEFINE F == {}
      <4>5. /\ F \subseteq Nodes /\ First(1) = F \cup {ns[1]} /\ ns[1] \notin F
            /\ \A n \in F : \E a \in Nat : Block(<<>>, n, a)
            /\ \A n \in Nodes \ F : Without(<<>>, n)
        BY <4>3, <4>4
      <4> HIDE DEF First, Good, F
      <4>6. Good(1)
        BY <2>4, <3>2, <3>3, <4>2, <4>5
      <4>7. QED
        BY <3>2, <3>3, <4>6
    <3>4. CASE i # 1
      <4>1. i - 1 \in 1 .. N /\ i - 1 < i
        BY <1>1, <3>2, <3>4
      <4>2. Good(i - 1)
        <5> HIDE DEF Good
        <5>1. i - 1 \notin Bad
          BY <3>1, <3>2, <4>1, <1>1
        <5>2. QED
          BY <4>1, <5>1
      <4>3. f[i] = f[i - 1] \o Rows(ns[i])
        BY <1>3, <2>3, <3>2, <3>4
      <4>4. First(i) = First(i - 1) \cup {ns[i]}
        <5>1. 1 .. i = 1 .. (i - 1) \cup {i}
          BY <1>1, <3>2, <4>1
        <5>2. QED
          BY <5>1
      <4>5. First(i - 1) \subseteq Nodes /\ ns[i] \notin First(i - 1)
        <5>1. \A k \in 1 .. (i - 1) : k \in 1 .. N /\ k # i
          BY <1>1, <3>2
        <5>2. QED
          BY <1>1, <1>2, <3>2, <5>1
      <4>6. Good(i)
        BY <2>4, <3>2, <4>2, <4>3, <4>4, <4>5
      <4>7. QED
        BY <3>2, <4>6
    <3>5. QED
      BY <3>3, <3>4
  <2>6. Good(N)
    <3> HIDE DEF Good
    <3>1. N \in 1 .. N
      BY <1>1, <1>5
    <3>2. QED
      BY <2>5, <3>1
  <2>7. First(N) = Range(ns)
    BY <1>1 DEF Range
  <2>8. QED
    BY <2>1, <2>6, <2>7
<1>6. QED
  BY <1>4, <1>5

(* The rows of n among those printed, and the groups that they name. *)
RowsOf(rows, n) == Selected(rows, {r \in Range(rows) : r[1] = n})
GroupsIn(rows) == [i \in 1 .. Len(rows) |-> rows[i][2]]

(* A block shows the groups of its node, in the order in which the CR has them. *)
LEMMA BlockShows ==
  ASSUME NEW r \in Seq(Row), NEW n \in Nodes, NEW a \in Nat, Block(r, n, a)
  PROVE  GroupsIn(RowsOf(r, n)) = NodeGroups[n]
<1> DEFINE T == {x \in Range(r) : x[1] = n}
           at == {i \in DOMAIN r : r[i] \in T}
           g == NodeGroups[n]
           p == InOrder(at)
<1>1. Len(r) \in Nat /\ DOMAIN r = 1 .. Len(r)
  OBVIOUS
<1>2. g \in Seq(STRING) /\ Len(g) \in Nat /\ DOMAIN g = 1 .. Len(g)
  BY RowsOfNode
<1>3. at = {i \in 1 .. Len(r) : r[i][1] = n}
  BY <1>1 DEF Range
<1>4. at = a + 1 .. a + Len(g)
  <2>1. \A k \in 1 .. Len(r) : r[k][1] = n <=> k \in a + 1 .. a + Len(g)
    BY DEF Block
  <2>2. a + Len(g) <= Len(r)
    BY DEF Block
  <2> HIDE DEF g, at
  <2>3. \A k \in a + 1 .. a + Len(g) : k \in 1 .. Len(r)
    BY <1>1, <1>2, <2>2
  <2>4. QED
    BY <1>3, <2>1, <2>3
<1> HIDE DEF at
<1>5. CountsOn(p, a, Len(g))
  <2>1. Len(g) \in Nat /\ at = After(a, Len(g))
    BY <1>2, <1>4 DEF After
  <2> HIDE DEF g
  <2>2. QED
    BY <2>1, IntervalInOrder
<1> HIDE DEF p
<1>6. RowsOf(r, n) = [k \in DOMAIN p |-> r[p[k]]]
  BY DEF RowsOf, Selected, at, p
<1>7. \A k \in 1 .. Len(g) : r[a + k] = <<n, g[k]>>
  BY DEF Block
<1> HIDE DEF g
<1> DEFINE rows == RowsOf(r, n)
<1>8. DOMAIN rows = 1 .. Len(g) /\ \A k \in 1 .. Len(g) : rows[k] = <<n, g[k]>>
  BY <1>5, <1>6, <1>7 DEF CountsOn
<1>9. Len(rows) = Len(g)
  <2>1. rows \in Seq(Row)
    BY Selection DEF RowsOf, Selects
  <2>2. Len(rows) \in Nat /\ DOMAIN rows = 1 .. Len(rows)
    BY <2>1
  <2>3. QED
    BY <1>2, <1>8, <2>2, SameLength
<1> HIDE DEF rows
<1>10. GroupsIn(rows) = [i \in 1 .. Len(g) |-> g[i]]
  BY <1>8, <1>9 DEF GroupsIn
<1>11. g = [i \in 1 .. Len(g) |-> g[i]]
  BY <1>2
<1>12. QED
  BY <1>10, <1>11 DEF rows, g

(* Where a node has no row, nothing is shown of it. *)
LEMMA NothingShown ==
  ASSUME NEW r \in Seq(Row), NEW n \in Nodes, Without(r, n)
  PROVE  RowsOf(r, n) = <<>> /\ GroupsIn(RowsOf(r, n)) = <<>>
<1> DEFINE T == {x \in Range(r) : x[1] = n}
           rows == RowsOf(r, n)
<1>1. DOMAIN r = 1 .. Len(r)
  OBVIOUS
<1>2. T = {}
  BY <1>1 DEF Without, Range
<1>3. rows \in Seq(Row) /\ Range(rows) = Range(r) \cap T
  BY Selection DEF RowsOf, Selects
<1> HIDE DEF rows
<1>4. Range(rows) = {}
  BY <1>2, <1>3
<1>5. Len(rows) \in Nat /\ DOMAIN rows = 1 .. Len(rows)
  BY <1>3
<1>6. Len(rows) = 0
  <2>1. SUFFICES ASSUME Len(rows) # 0 PROVE FALSE
    OBVIOUS
  <2>2. 1 \in DOMAIN rows
    BY <1>5, <2>1
  <2>3. rows[1] \in Range(rows)
    BY <2>2 DEF Range
  <2>4. QED
    BY <1>4, <2>3
<1>7. rows = <<>>
  BY <1>3, <1>6
<1>8. GroupsIn(<<>>) = <<>>
  BY DEF GroupsIn
<1>9. QED
  BY <1>7, <1>8 DEF rows

-----------------------------------------------------------------------------
(* The invariant *)

VolumePages == {"lvm_volumes", "zfs_volumes"}
NodePages == {"lvm_nodes", "zfs_nodes"}
PvPages == {"list_pv", "list_hostpath_pv"}

(* What the user asked for, as the selectors can tell it. *)
Wanted(v) == Asked(v) /\ Labelled(v)

(* The objects that a listing may have, which were there at some time of the
   command, and must have, which were there all the time. *)
CrMay == {v \in Volumes : Wanted(v) /\ (v \in crs \/ <<"cr", v>> \in touched)}
CrMust == {v \in Volumes : Wanted(v) /\ v \in crs /\ <<"cr", v>> \notin touched}

PvSelected(v) == cmd.engine = "hostpath" => profile[v].tagged
PvMay == {v \in Volumes : PvSelected(v) /\ (v \in pvs \/ <<"pv", v>> \in touched)}
PvMust == {v \in Volumes : PvSelected(v) /\ v \in pvs /\ <<"pv", v>> \notin touched}

NodeMay == {n \in Nodes : n \in nodes \/ <<"node", n>> \in touched}
NodeMust == {n \in Nodes : n \in nodes /\ <<"node", n>> \notin touched}

(* A request is one that the command makes. *)
CommandInv ==
  /\ pc \in VolumePages => cmd.op = "volumes" /\ cmd.engine # "hostpath"
  /\ pc \in {"lvm_volume", "zfs_volume"} => cmd.op = "volume" /\ cmd.engine # "hostpath"
  /\ pc = "list_pv" => cmd.op # "groups" /\ cmd.engine # "hostpath"
  /\ pc = "list_hostpath_pv" => cmd.op = "volumes" /\ cmd.engine = "hostpath"
  /\ pc = "get_pv" => cmd.op = "volume" /\ cmd.engine = "hostpath"
  /\ pc \in NodePages => cmd.op = "groups" /\ cmd.node = AnyNode
  /\ pc \in {"lvm_node", "zfs_node"} => cmd.op = "groups" /\ cmd.node # AnyNode

(* A request without pages starts with nothing, and a listing with no PVs. *)
LocalsInv ==
  /\ pc \notin VolumePages \cup NodePages \cup PvPages => token = <<>>
  /\ pc \notin VolumePages \cup NodePages \cup {"list_pv"} => vols = <<>>
  /\ pc \notin PvPages => pvList = <<>>

(* Without a token the listing is about to begin. *)
Pages(list, May, Must) ==
  IF token = <<>> THEN list = <<>> ELSE Covers(list, token, May, Must)

ListInv ==
  /\ pc \in VolumePages => Pages(vols, CrMay, CrMust)
  /\ pc \in NodePages => Pages(vols, NodeMay, NodeMust)
  /\ pc \in PvPages => Pages(pvList, PvMay, PvMust)
  /\ pc = "list_pv" => Covers(vols, <<>>, CrMay, CrMust)

Correct ==
  SteadyVolumesListed /\ OnlyAskedListed /\ FailureExplained /\ GroupsOfNodesListed

LocalInv ==
  /\ TypeOK /\ IsFiniteSet(touched)
  /\ CommandInv /\ LocalsInv /\ ListInv
  /\ Correct

(* The command line is one that the parser makes. *)
LEMMA CommandParts ==
  ASSUME cmd \in Command
  PROVE  /\ cmd.op \in {"volumes", "volume", "groups"}
         /\ cmd.engine \in {"lvm", "zfs", "hostpath"}
         /\ cmd.node \in Nodes \cup {AnyNode}
         /\ cmd.op = "volume" => cmd.name \in Volumes /\ cmd.node = AnyNode
         /\ cmd.op = "groups" => cmd.engine # "hostpath"
  BY DEF Command

(* Volumes and nodes are numbers, and finitely many. *)
LEMMA Numbers ==
  /\ Volumes \in SUBSET Nat /\ IsFiniteSet(Volumes)
  /\ Nodes \in SUBSET Nat /\ IsFiniteSet(Nodes)
  /\ Volumes \cup Nodes \in SUBSET Nat
<1>1. Volumes \in SUBSET Nat /\ Nodes \in SUBSET Nat
  BY CountsAssumption DEF Volumes, Nodes
<1>2. IsFiniteSet(Volumes) /\ IsFiniteSet(Nodes)
  BY CountsAssumption, FS_Interval DEF Volumes, Nodes
<1>3. QED
  BY <1>1, <1>2

(* A list of elements of A is one of elements of a larger set. *)
LEMMA ListOfMore ==
  ASSUME NEW S, NEW A \in SUBSET S, NEW s \in Seq(A)
  PROVE  s \in Seq(S)
<1>1. /\ Len(s) \in Nat /\ s = [i \in 1 .. Len(s) |-> s[i]]
      /\ \A i \in 1 .. Len(s) : s[i] \in A
  OBVIOUS
<1>2. \A i \in 1 .. Len(s) : s[i] \in S
  BY <1>1
<1>3. QED
  BY <1>1, <1>2

(* A list is one of the elements that it has. *)
LEMMA ListOfRange ==
  ASSUME NEW B, NEW s \in Seq(B), NEW S, Range(s) \subseteq S
  PROVE  s \in Seq(S)
<1>1. Len(s) \in Nat /\ DOMAIN s = 1 .. Len(s) /\ s = [i \in 1 .. Len(s) |-> s[i]]
  OBVIOUS
<1>2. \A i \in 1 .. Len(s) : s[i] \in S
  BY <1>1 DEF Range
<1>3. QED
  BY <1>1, <1>2

(* One page of a listing: the list that it makes and the token that it leaves. *)
LEMMA OnePage ==
  ASSUME NEW S \in SUBSET Nat, IsFiniteSet(S), NEW B, token \in Seq(B),
         NEW C, NEW list \in Seq(C), NEW May \in SUBSET S, NEW Must,
         NEW objects \in SUBSET May, Must \subseteq objects, Pages(list, May, Must),
         NEW d, d = Extend(list, Page(objects)),
         NEW t, t = NextToken(objects)
  PROVE  d \in Seq(S) /\ t \in Seq(S) /\ Covers(d, t, May, Must)
<1> DEFINE l == Listing(objects)
<1>1. l \in Seq(S) /\ list \in Seq(S) /\ Covers(list, l, May, Must)
  <2>1. CASE token = <<>>
    <3>1. l = InOrder(objects) /\ list = <<>>
      BY <2>1 DEF Listing, Pages
    <3>2. objects \in SUBSET Nat /\ IsFiniteSet(objects)
      BY FS_Subset
    <3>3. Covers(<<>>, InOrder(objects), May, Must) /\ InOrder(objects) \in Seq(objects)
      BY <3>2, ListingBegins
    <3>4. InOrder(objects) \in Seq(S)
      BY <3>3, ListOfMore
    <3>5. QED
      BY <3>1, <3>3, <3>4
  <2>2. CASE token # <<>>
    <3>1. l = token /\ Covers(list, token, May, Must)
      BY <2>2 DEF Listing, Pages
    <3>2. Range(token) \subseteq S /\ Range(list) \subseteq S
      BY <3>1 DEF Covers
    <3>3. token \in Seq(S) /\ list \in Seq(S)
      BY <3>2, ListOfRange
    <3>4. QED
      BY <3>1, <3>3
  <2>3. QED
    BY <2>1, <2>2
<1>2. MaxEntries \in Nat \ {0}
  BY CountsAssumption
<1>3. t = SubSeq(l, MaxEntries + 1, Len(l))
  BY DEF NextToken
<1>4. d = list \o SubSeq(l, 1, IF Len(l) < MaxEntries THEN Len(l) ELSE MaxEntries)
  BY DEF Extend, Page
<1> HIDE DEF l
<1>5. QED
  BY <1>1, <1>2, <1>3, <1>4, PageMoves

(* What is asked of a command is asked of the rows that it ends with. *)
ShowsSteady(r, rows) ==
  r = "Ok" /\ cmd.op # "groups" =>
    \A v \in Volumes : Steady(v) /\ Wanted(v) => v \in Range(rows)

ShowsOnlyAsked(rows) ==
  cmd.op # "groups" =>
    /\ \A i \in DOMAIN rows :
         /\ Wanted(rows[i])
         /\ rows[i] \in pvs \/ <<"pv", rows[i]>> \in touched
         /\ cmd.engine # "hostpath" => rows[i] \in crs \/ <<"cr", rows[i]>> \in touched
    /\ \A i, j \in DOMAIN rows : i < j => rows[i] < rows[j]

Explained(r, rows) ==
  /\ r # "Ok" => rows = <<>>
  /\ r = "Generic" =>
       \E v \in Volumes :
         /\ v \in pvs \/ <<"pv", v>> \in touched
         /\ CASE cmd.engine = "lvm" -> Wanted(v) /\ ~LvmVolumeObject(v)
              [] cmd.engine = "zfs" -> Wanted(v) /\ ~ZfsVolumeObject(v)
              [] OTHER -> IF profile[v].tagged THEN ~HostPathVolume(v)
                                               ELSE cmd.op = "volume" /\ v = cmd.name

ShowsGroups(r, rows) ==
  r = "Ok" /\ cmd.op = "groups" =>
    \A n \in Nodes :
      IF cmd.node \notin {AnyNode, n} THEN RowsOf(rows, n) = <<>>
      ELSE <<"node", n>> \notin touched =>
             GroupsIn(RowsOf(rows, n)) = IF n \in nodes THEN NodeGroups[n] ELSE <<>>

RowsType(rows) == IF cmd.op = "groups" THEN rows \in Seq(Row) ELSE rows \in Seq(Volumes)

Right(r, rows) ==
  /\ RowsType(rows)
  /\ ShowsSteady(r, rows) /\ ShowsOnlyAsked(rows)
  /\ Explained(r, rows) /\ ShowsGroups(r, rows)

(* The end of a command with the right rows. *)
LEMMA Returned ==
  ASSUME LocalInv, NEW r \in {"Ok", "Kube", "Generic", "NoClient"}, NEW rows,
         Right(r, rows), Return(r, rows)
  PROVE  LocalInv'
<1>1. /\ pc' = "done" /\ result' = r /\ out' = rows
      /\ token' = <<>> /\ vols' = <<>> /\ pvList' = <<>>
      /\ cmd' = cmd /\ profile' = profile /\ crs' = crs /\ pvs' = pvs
      /\ nodes' = nodes /\ touched' = touched
  BY DEF Return, cluster
<1>2. TypeOK' /\ IsFiniteSet(touched)'
  <2>1. /\ token' \in Seq(Volumes \cup Nodes) /\ vols' \in Seq(Volumes \cup Nodes)
        /\ pvList' \in Seq(Volumes)
    BY <1>1
  <2>2. r # "none"
    OBVIOUS
  <2>3. RowsType(rows)
    BY DEF Right
  <2>4. QED
    BY <1>1, <2>1, <2>2, <2>3 DEF LocalInv, TypeOK, RowsType, Row, Groups
<1>3. CommandInv' /\ LocalsInv' /\ ListInv'
  BY <1>1 DEF CommandInv, LocalsInv, ListInv, VolumePages, NodePages, PvPages
<1>4. SteadyVolumesListed'
  BY <1>1 DEF Right, ShowsSteady, SteadyVolumesListed, Steady, Wanted, Asked, Labelled
<1>5. OnlyAskedListed'
  BY <1>1 DEF Right, ShowsOnlyAsked, OnlyAskedListed, Wanted, Asked, Labelled
<1>6. FailureExplained'
  BY <1>1 DEF Right, Explained, FailureExplained, Wanted, Asked, Labelled,
              LvmVolumeObject, ZfsVolumeObject, HostPathVolume
<1>7. GroupsOfNodesListed'
  BY <1>1 DEF Right, ShowsGroups, GroupsOfNodesListed, RowsOf, GroupsIn
<1>8. QED
  BY <1>2, <1>3, <1>4, <1>5, <1>6, <1>7 DEF LocalInv, Correct

(* Without rows, and for no reason among the objects. *)
LEMMA ReturnedEmpty ==
  ASSUME LocalInv, NEW r \in {"Kube", "NoClient"}, Return(r, <<>>)
  PROVE  LocalInv'
<1>1. RowsType(<<>>)
  BY DEF RowsType
<1>2. ShowsSteady(r, <<>>) /\ ShowsOnlyAsked(<<>>) /\ Explained(r, <<>>)
  BY DEF ShowsSteady, ShowsOnlyAsked, Explained
<1>3. ShowsGroups(r, <<>>)
  BY DEF ShowsGroups
<1>4. QED
  BY <1>1, <1>2, <1>3, Returned DEF Right

(* A request that fails. *)
LEMMA Failed ==
  ASSUME LocalInv, Fail
  PROVE  LocalInv'
  BY ReturnedEmpty DEF Fail

-----------------------------------------------------------------------------
(* The rows that a command ends with *)

(* The objects of volumes that are joined make the rows that were asked for. *)
LEMMA JoinShows ==
  ASSUME cmd \in Command, cmd.op # "groups", cmd.engine # "hostpath",
         NEW vs \in Seq(Volumes), NEW ps \in Seq(Volumes),
         Covers(vs, <<>>, CrMay, CrMust), Covers(ps, <<>>, PvMay, PvMust),
         NEW rows, rows = Joined(vs, ps)
  PROVE  /\ rows \in Seq(Volumes)
         /\ ShowsSteady("Ok", rows) /\ ShowsOnlyAsked(rows)
         /\ \A v \in Range(rows) : v \in Volumes /\ Wanted(v)
                                   /\ (v \in pvs \/ <<"pv", v>> \in touched)
<1>1. Range(<<>>) = {}
  BY DEF Range
<1>2. /\ Increasing(vs) /\ Range(vs) \subseteq CrMay /\ CrMust \subseteq Range(vs)
      /\ Range(ps) \subseteq PvMay /\ PvMust \subseteq Range(ps)
  BY <1>1 DEF Covers
<1>3. /\ rows \in Seq(Volumes) /\ Range(rows) = Range(vs) \cap Range(ps)
      /\ Increasing(rows)
  <2>1. rows = Selected(vs, Range(ps)) /\ Volumes \subseteq Nat
    BY Numbers DEF Joined
  <2>2. Selects(rows, vs, Range(ps), Volumes)
    BY <2>1, Selection
  <2>3. QED
    BY <1>2, <2>1, <2>2 DEF Selects
<1>4. ShowsSteady("Ok", rows)
  BY <1>2, <1>3 DEF ShowsSteady, Steady, CrMust, PvMust, PvSelected
<1>5. DOMAIN rows = 1 .. Len(rows)
  BY <1>3
<1>6. \A v \in Range(rows) : /\ v \in Volumes /\ Wanted(v)
                             /\ v \in pvs \/ <<"pv", v>> \in touched
                             /\ v \in crs \/ <<"cr", v>> \in touched
  BY <1>2, <1>3 DEF CrMay, PvMay
<1>7. \A i \in DOMAIN rows : rows[i] \in Range(rows)
  BY DEF Range
<1>8. ShowsOnlyAsked(rows)
  BY <1>3, <1>5, <1>6, <1>7 DEF ShowsOnlyAsked, Increasing
<1>9. QED
  BY <1>3, <1>4, <1>6, <1>8

(* The rows of hostpath volumes. *)
LEMMA HostpathShows ==
  ASSUME cmd \in Command, cmd.engine = "hostpath", NEW ps \in Seq(Volumes),
         Increasing(ps), Range(ps) \subseteq PvMay,
         IF cmd.op = "volume" THEN Range(ps) = {cmd.name} ELSE PvMust \subseteq Range(ps),
         NEW rows,
         rows = Selected(ps, {v \in Volumes : cmd.node \in {AnyNode, profile[v].node}})
  PROVE  rows \in Seq(Volumes) /\ ShowsSteady("Ok", rows) /\ ShowsOnlyAsked(rows)
<1> DEFINE On == {v \in Volumes : cmd.node \in {AnyNode, profile[v].node}}
<1>1. rows \in Seq(Volumes) /\ Range(rows) = Range(ps) \cap On /\ Increasing(rows)
  BY Numbers, Selection DEF Selects
<1>2. /\ cmd.op \in {"volumes", "volume"}
      /\ cmd.op = "volume" => cmd.name \in Volumes /\ cmd.node = AnyNode
  BY CommandParts
<1>3. \A v \in Volumes : Wanted(v) <=> /\ profile[v].tagged /\ v \in On
                                       /\ cmd.op = "volume" => v = cmd.name
  <2>1. CASE cmd.op = "volume"
    BY <1>2, <2>1 DEF Wanted, Asked, Labelled
  <2>2. CASE cmd.op = "volumes"
    BY <1>2, <2>2 DEF Wanted, Asked, Labelled
  <2>3. QED
    BY <1>2, <2>1, <2>2
<1> HIDE DEF On
<1>4. ShowsSteady("Ok", rows)
  BY <1>1, <1>2, <1>3 DEF ShowsSteady, Steady, PvMust, PvSelected
<1>5. DOMAIN rows = 1 .. Len(rows)
  BY <1>1
<1>6. \A v \in Range(rows) : Wanted(v) /\ (v \in pvs \/ <<"pv", v>> \in touched)
  BY <1>1, <1>2, <1>3 DEF PvMay, PvSelected
<1>7. \A i \in DOMAIN rows : rows[i] \in Range(rows)
  BY DEF Range
<1>8. ShowsOnlyAsked(rows)
  BY <1>1, <1>5, <1>6, <1>7 DEF ShowsOnlyAsked, Increasing
<1>9. QED
  BY <1>1, <1>4, <1>8

(* The rows of the nodes that are listed. *)
LEMMA GroupsShow ==
  ASSUME cmd \in Command, cmd.op = "groups", NEW ns \in Seq(Nodes), Increasing(ns),
         \A n \in Nodes : IF cmd.node \notin {AnyNode, n} THEN n \notin Range(ns)
                          ELSE <<"node", n>> \notin touched =>
                                 (n \in Range(ns) <=> n \in nodes),
         NEW rows, rows \in {VolumeGroupRecord(ns), ZfsPoolRecord(ns)}
  PROVE  Right("Ok", rows)
<1>1. rows = FlattenSeq([i \in 1 .. Len(ns) |-> Rows(ns[i])])
  BY DEF VolumeGroupRecord, ZfsPoolRecord, Rows
<1>2. /\ rows \in Seq(Row)
      /\ \A n \in Range(ns) : \E a \in Nat : Block(rows, n, a)
      /\ \A n \in Nodes \ Range(ns) : Without(rows, n)
  BY <1>1, Flattened
<1>3. \A n \in Nodes \ Range(ns) :
        RowsOf(rows, n) = <<>> /\ GroupsIn(RowsOf(rows, n)) = <<>>
  BY <1>2, NothingShown
<1>4. \A n \in Nodes : n \in Range(ns) => GroupsIn(RowsOf(rows, n)) = NodeGroups[n]
  BY <1>2, BlockShows
<1>5. ShowsGroups("Ok", rows)
  BY <1>3, <1>4 DEF ShowsGroups
<1>6. ShowsSteady("Ok", rows) /\ ShowsOnlyAsked(rows) /\ Explained("Ok", rows)
  BY DEF ShowsSteady, ShowsOnlyAsked, Explained
<1>7. RowsType(rows)
  BY <1>2 DEF RowsType
<1>8. QED
  BY <1>5, <1>6, <1>7 DEF Right

(* A failure of the conversion shows nothing. *)
LEMMA NoRows ==
  ASSUME Explained("Generic", <<>>)
  PROVE  Right("Generic", <<>>)
<1>1. RowsType(<<>>)
  BY DEF RowsType
<1>2. ShowsSteady("Generic", <<>>) /\ ShowsOnlyAsked(<<>>) /\ ShowsGroups("Generic", <<>>)
  BY DEF ShowsSteady, ShowsOnlyAsked, ShowsGroups
<1>3. QED
  BY <1>1, <1>2 DEF Right

-----------------------------------------------------------------------------
(* The steps *)

(* A command begins with nothing. *)
LEMMA Begins ==
  ASSUME Init
  PROVE  LocalInv
<1>1. profile \in [Volumes -> Profiles]
  <2>1. \E f : f \in [Volumes -> Profiles]
    <3>1. PICK p : p \in Profiles
      BY ProfilesAssumption
    <3>2. [v \in Volumes |-> p] \in [Volumes -> Profiles]
      BY <3>1
    <3>3. QED
      BY <3>2
  <2>2. QED
    BY <2>1 DEF Init
<1>2. IsFiniteSet(touched) /\ Cardinality(touched) <= MaxChanges
  BY FS_EmptySet, CountsAssumption DEF Init
<1>3. TypeOK
  BY <1>1, <1>2 DEF Init, TypeOK
<1>4. CommandInv /\ LocalsInv /\ ListInv
  BY DEF Init, CommandInv, LocalsInv, ListInv, VolumePages, NodePages, PvPages
<1>5. Correct
  BY DEF Init, Correct, SteadyVolumesListed, OnlyAskedListed, FailureExplained,
         GroupsOfNodesListed
<1>6. QED
  BY <1>2, <1>3, <1>4, <1>5 DEF LocalInv

(* Nothing is shown before the end. *)
LEMMA NotYet ==
  ASSUME LocalInv, pc # "done", result' = result, out' = out
  PROVE  /\ result = "none" /\ out = <<>>
         /\ Correct'
<1>1. result = "none" /\ out = <<>>
  BY DEF LocalInv, TypeOK, Correct, FailureExplained
<1>2. QED
  BY <1>1 DEF Correct, SteadyVolumesListed, OnlyAskedListed, FailureExplained,
              GroupsOfNodesListed

(* The objects that a listing may and must have are those that the cluster has. *)
LEMMA SameObjects ==
  ASSUME UNCHANGED <<cmd, cluster>>
  PROVE  /\ CrMay' = CrMay /\ CrMust' = CrMust
         /\ PvMay' = PvMay /\ PvMust' = PvMust
         /\ NodeMay' = NodeMay /\ NodeMust' = NodeMust
<1>1. /\ cmd' = cmd /\ profile' = profile /\ crs' = crs /\ pvs' = pvs
      /\ nodes' = nodes /\ touched' = touched
  BY DEF cluster
<1>2. CrMay' = CrMay /\ CrMust' = CrMust
  BY <1>1 DEF CrMay, CrMust, Wanted, Asked, Labelled
<1>3. PvMay' = PvMay /\ PvMust' = PvMust
  BY <1>1 DEF PvMay, PvMust, PvSelected
<1>4. NodeMay' = NodeMay /\ NodeMust' = NodeMust
  BY <1>1 DEF NodeMay, NodeMust
<1>5. QED
  BY <1>2, <1>3, <1>4

(* The first request. *)
LEMMA ClientKeeps ==
  ASSUME LocalInv, client
  PROVE  LocalInv'
<1>1. CASE Return("NoClient", <<>>)
  BY <1>1, ReturnedEmpty
<1>2. CASE pc = "client" /\ GoTo(execute)
  <2>1. /\ pc' = execute /\ token' = <<>> /\ vols' = <<>> /\ pvList' = <<>>
        /\ cmd' = cmd /\ profile' = profile /\ crs' = crs /\ pvs' = pvs
        /\ nodes' = nodes /\ touched' = touched /\ result' = result /\ out' = out
    BY <1>2 DEF GoTo, locals, cluster, LocalInv, TypeOK
  <2>2. Correct' /\ result = "none"
    BY <1>2, <2>1, NotYet
  <2>3. /\ cmd.op \in {"volumes", "volume", "groups"}
        /\ cmd.engine \in {"lvm", "zfs", "hostpath"}
        /\ cmd.op = "groups" => cmd.engine # "hostpath"
    BY CommandParts DEF LocalInv, TypeOK
  <2>4. execute \in Requests \ {"list_pv"}
    BY <2>3 DEF execute, LvmGet, ZfsGet, HostpathGet, volume_groups, zpools, Requests
  <2>5. TypeOK' /\ IsFiniteSet(touched)'
    BY <1>2, <2>1, <2>2, <2>4 DEF LocalInv, TypeOK, Requests
  <2>6. CommandInv'
    BY <2>1, <2>3
    DEF CommandInv, execute, LvmGet, ZfsGet, HostpathGet, volume_groups, zpools, VolumePages,
        NodePages
  <2>7. LocalsInv' /\ ListInv'
    BY <2>1, <2>4 DEF LocalsInv, ListInv, Pages
  <2>8. QED
    BY <2>2, <2>5, <2>6, <2>7 DEF LocalInv
<1>3. QED
  BY <1>1, <1>2 DEF client

(* A page of volumes. *)
LEMMA ListVolumesKeeps ==
  ASSUME LocalInv, pc \in VolumePages, ListVolumes
  PROVE  LocalInv'
<1> DEFINE found == {v \in crs : NodeSelected(v)}
<1>1. CASE Fail
  BY <1>1, Failed
<1>2. CASE /\ vols' = Extend(vols, Page(found))
           /\ token' = NextToken(found)
           /\ pc' = IF token' = <<>> THEN "list_pv" ELSE pc
           /\ UNCHANGED <<cmd, cluster, pvList, result, out>>
  <2>1. cmd.op = "volumes" /\ cmd.engine # "hostpath" /\ crs \subseteq Volumes
    BY DEF LocalInv, CommandInv, TypeOK
  <2>2. \A v \in Volumes : NodeSelected(v) <=> Wanted(v)
    BY <2>1 DEF NodeSelected, Wanted, Asked, Labelled
  <2>3. found \in SUBSET CrMay /\ CrMust \subseteq found
    BY <2>1, <2>2 DEF CrMay, CrMust
  <2>4. CrMay \in SUBSET Volumes
    BY DEF CrMay
  <2>5. token \in Seq(Volumes \cup Nodes) /\ vols \in Seq(Volumes \cup Nodes)
    BY DEF LocalInv, TypeOK
  <2>6. Pages(vols, CrMay, CrMust) /\ pvList = <<>>
    BY DEF LocalInv, ListInv, LocalsInv, VolumePages, PvPages
  <2> HIDE DEF found
  <2>7. /\ vols' \in Seq(Volumes) /\ token' \in Seq(Volumes)
        /\ Covers(vols', token', CrMay, CrMust)
    BY <1>2, <2>3, <2>4, <2>5, <2>6, Numbers, OnePage
  <2>8. vols' \in Seq(Volumes \cup Nodes) /\ token' \in Seq(Volumes \cup Nodes)
    BY <2>7, ListOfMore
  <2>9. /\ cmd' = cmd /\ profile' = profile /\ crs' = crs /\ pvs' = pvs
        /\ nodes' = nodes /\ touched' = touched /\ result' = result /\ out' = out
        /\ pvList' = <<>>
    BY <1>2, <2>6 DEF cluster
  <2>10. pc \in VolumePages /\ pc # "done" /\ pc' \in {pc, "list_pv"}
    BY <1>2 DEF VolumePages
  <2>11. Correct' /\ result = "none"
    BY <2>9, <2>10, NotYet
  <2>12. TypeOK' /\ IsFiniteSet(touched)'
    BY <2>8, <2>9, <2>10, <2>11 DEF LocalInv, TypeOK, VolumePages, Requests
  <2>13. CommandInv' /\ LocalsInv'
    BY <1>2, <2>1, <2>9, <2>10 DEF CommandInv, LocalsInv, VolumePages, NodePages, PvPages
  <2>14. CrMay' = CrMay /\ CrMust' = CrMust
    BY <1>2, SameObjects
  <2>15. ListInv'
    BY <1>2, <2>7, <2>9, <2>10, <2>14 DEF ListInv, Pages, VolumePages, NodePages, PvPages
  <2>16. QED
    BY <2>11, <2>12, <2>13, <2>15 DEF LocalInv
<1>3. QED
  BY <1>1, <1>2 DEF ListVolumes

(* One volume. *)
LEMMA GetVolumeKeeps ==
  ASSUME LocalInv, pc \in {"lvm_volume", "zfs_volume"}, GetVolume
  PROVE  LocalInv'
<1>1. CASE Fail
  BY <1>1, Failed
<1>2. CASE /\ cmd.name \in crs
           /\ vols' = <<cmd.name>> /\ pc' = "list_pv"
           /\ UNCHANGED <<cmd, cluster, token, pvList, result, out>>
  <2>1. /\ cmd.op = "volume" /\ cmd.engine # "hostpath" /\ crs \subseteq Volumes
        /\ token = <<>> /\ pvList = <<>>
    BY DEF LocalInv, CommandInv, LocalsInv, TypeOK, VolumePages, NodePages, PvPages
  <2>2. /\ cmd' = cmd /\ profile' = profile /\ crs' = crs /\ pvs' = pvs
        /\ nodes' = nodes /\ touched' = touched /\ result' = result /\ out' = out
        /\ pvList' = <<>> /\ token' = <<>>
    BY <1>2, <2>1 DEF cluster
  <2>3. pc # "done"
    OBVIOUS
  <2>4. Correct' /\ result = "none"
    BY <2>2, <2>3, NotYet
  <2>5. /\ cmd.name \in Volumes /\ vols' \in Seq(Volumes \cup Nodes)
        /\ cmd.node = AnyNode
    BY <1>2, <2>1, CommandParts DEF LocalInv, TypeOK
  <2>6. TypeOK' /\ IsFiniteSet(touched)'
    BY <1>2, <2>1, <2>2, <2>4, <2>5 DEF LocalInv, TypeOK, Requests
  <2>7. CommandInv' /\ LocalsInv'
    BY <1>2, <2>1, <2>2 DEF CommandInv, LocalsInv, VolumePages, NodePages, PvPages
  <2>8. cmd.name \in CrMay /\ CrMust \subseteq {cmd.name}
    BY <1>2, <2>1, <2>5 DEF CrMay, CrMust, Wanted, Asked, Labelled
  <2>9. Covers(<<cmd.name>>, <<>>, CrMay, CrMust)
    <3>1. Range(<<cmd.name>>) = {cmd.name} /\ Range(<<>>) = {}
      BY DEF Range
    <3>2. Increasing(<<cmd.name>>) /\ Increasing(<<>>)
      BY DEF Increasing
    <3>3. \A i \in 1 .. Len(<<cmd.name>>), j \in 1 .. Len(<<>>) : <<cmd.name>>[i] < <<>>[j]
      OBVIOUS
    <3>4. QED
      BY <2>8, <3>1, <3>2, <3>3 DEF Covers
  <2>10. CrMay' = CrMay /\ CrMust' = CrMust
    BY <1>2, SameObjects
  <2>11. ListInv'
    BY <1>2, <2>2, <2>9, <2>10 DEF ListInv, Pages, VolumePages, NodePages, PvPages
  <2>12. QED
    BY <2>4, <2>6, <2>7, <2>11 DEF LocalInv
<1>3. QED
  BY <1>1, <1>2 DEF GetVolume

(* A page of PVs: what it makes of the list, before it is kept or converted. *)
LEMMA PvPage ==
  ASSUME LocalInv, pc \in PvPages,
         NEW found, found = {v \in pvs : PvSelected(v)},
         NEW d, d = Extend(pvList, Page(found)), NEW t, t = NextToken(found)
  PROVE  d \in Seq(Volumes) /\ t \in Seq(Volumes) /\ Covers(d, t, PvMay, PvMust)
<1>1. pvs \subseteq Volumes /\ token \in Seq(Volumes \cup Nodes) /\ pvList \in Seq(Volumes)
  BY DEF LocalInv, TypeOK
<1>2. found \in SUBSET PvMay /\ PvMust \subseteq found /\ PvMay \in SUBSET Volumes
  BY <1>1 DEF PvMay, PvMust
<1>3. Pages(pvList, PvMay, PvMust)
  BY DEF LocalInv, ListInv
<1>4. QED
  BY <1>1, <1>2, <1>3, Numbers, OnePage

(* One that is not the last. *)
LEMMA ListPvPageKeeps ==
  ASSUME LocalInv, pc \in PvPages, NEW found, found = {v \in pvs : PvSelected(v)},
         ListPvPage(found)
  PROVE  LocalInv'
<1>1. CASE Fail
  BY <1>1, Failed
<1>2. CASE /\ NextToken(found) # <<>>
           /\ pvList' = Extend(pvList, Page(found)) /\ token' = NextToken(found)
           /\ UNCHANGED <<cmd, cluster, pc, vols, result, out>>
  <2>1. /\ pvList' \in Seq(Volumes) /\ token' \in Seq(Volumes)
        /\ Covers(pvList', token', PvMay, PvMust)
    BY <1>2, PvPage
  <2>2. token' \in Seq(Volumes \cup Nodes)
    BY <2>1, ListOfMore
  <2>3. /\ cmd' = cmd /\ profile' = profile /\ crs' = crs /\ pvs' = pvs
        /\ nodes' = nodes /\ touched' = touched /\ result' = result /\ out' = out
        /\ vols' = vols /\ pc' = pc
    BY <1>2 DEF cluster
  <2>4. pc \in PvPages /\ pc # "done" /\ pc # "client"
    BY DEF PvPages
  <2>5. Correct' /\ result = "none"
    BY <2>3, <2>4, NotYet
  <2>6. TypeOK' /\ IsFiniteSet(touched)'
    BY <2>1, <2>2, <2>3, <2>4 DEF LocalInv, TypeOK
  <2>7. CommandInv' /\ LocalsInv'
    BY <2>3, <2>4 DEF LocalInv, CommandInv, LocalsInv
  <2>8. CrMay' = CrMay /\ CrMust' = CrMust /\ PvMay' = PvMay /\ PvMust' = PvMust
    BY <1>2, SameObjects
  <2>9. ListInv'
    BY <1>2, <2>1, <2>3, <2>4, <2>8
    DEF LocalInv, ListInv, Pages, VolumePages, NodePages, PvPages
  <2>10. QED
    BY <2>5, <2>6, <2>7, <2>9 DEF LocalInv
<1>3. QED
  BY <1>1, <1>2 DEF ListPvPage

(* The PVs of an LVM or ZFS listing are not selected. *)
LEMMA AllPvs ==
  ASSUME LocalInv, pc = "list_pv"
  PROVE  /\ pvs = {v \in pvs : PvSelected(v)} /\ pc \in PvPages
         /\ cmd \in Command /\ cmd.op # "groups" /\ cmd.engine # "hostpath"
         /\ vols \in Seq(Volumes) /\ Covers(vols, <<>>, CrMay, CrMust)
<1>1. cmd \in Command /\ cmd.op # "groups" /\ cmd.engine # "hostpath" /\ pc \in PvPages
  BY DEF LocalInv, TypeOK, CommandInv, PvPages
<1>2. pvs = {v \in pvs : PvSelected(v)}
  BY <1>1 DEF PvSelected
<1>3. Covers(vols, <<>>, CrMay, CrMust) /\ vols \in Seq(Volumes \cup Nodes)
  BY DEF LocalInv, TypeOK, ListInv
<1>4. Range(vols) \subseteq Volumes
  BY <1>3 DEF Covers, CrMay
<1>5. QED
  BY <1>1, <1>2, <1>3, <1>4, ListOfRange

(* The last page of PVs of an LVM listing. *)
LEMMA LvmKeeps ==
  ASSUME LocalInv, list_pv_lvm
  PROVE  LocalInv'
<1>1. /\ pvs = {v \in pvs : PvSelected(v)} /\ pc \in PvPages
      /\ cmd \in Command /\ cmd.op # "groups" /\ cmd.engine # "hostpath"
      /\ vols \in Seq(Volumes) /\ Covers(vols, <<>>, CrMay, CrMust)
  BY AllPvs DEF list_pv_lvm
<1>2. CASE ListPvPage(pvs)
  BY <1>1, <1>2, ListPvPageKeeps
<1>3. CASE LastPvPage(pvs) /\ get_lvm_vol_output(vols, Extend(pvList, Page(pvs)))
  <2> DEFINE ps == Extend(pvList, Page(pvs))
             rows == Joined(vols, ps)
  <2>1. ps \in Seq(Volumes) /\ Covers(ps, <<>>, PvMay, PvMust)
    BY <1>1, <1>3, PvPage DEF LastPvPage
  <2>2. get_lvm_vol_output(vols, ps)
    BY <1>3
  <2> HIDE DEF ps
  <2>3. /\ rows \in Seq(Volumes)
        /\ ShowsSteady("Ok", rows) /\ ShowsOnlyAsked(rows)
        /\ \A v \in Range(rows) : v \in Volumes /\ Wanted(v)
                                  /\ (v \in pvs \/ <<"pv", v>> \in touched)
    BY <1>1, <2>1, JoinShows
  <2>4. CASE \A v \in Range(rows) : LvmVolumeObject(v)
    <3>1. Return("Ok", rows)
      BY <2>2, <2>4 DEF get_lvm_vol_output
    <3>2. Right("Ok", rows)
      BY <1>1, <2>3 DEF Right, RowsType, Explained, ShowsGroups
    <3>3. QED
      BY <3>1, <3>2, Returned
  <2>5. CASE ~ \A v \in Range(rows) : LvmVolumeObject(v)
    <3>1. Return("Generic", <<>>)
      BY <2>2, <2>5 DEF get_lvm_vol_output
    <3>2. cmd.engine = "lvm"
      BY DEF list_pv_lvm
    <3>3. Explained("Generic", <<>>)
      BY <2>3, <2>5, <3>2 DEF Explained
    <3>4. QED
      BY <3>1, <3>3, NoRows, Returned
  <2>6. QED
    BY <2>4, <2>5
<1>4. QED
  BY <1>2, <1>3 DEF list_pv_lvm

(* And of a ZFS listing. *)
LEMMA ZfsKeeps ==
  ASSUME LocalInv, list_pv_zfs
  PROVE  LocalInv'
<1>1. /\ pvs = {v \in pvs : PvSelected(v)} /\ pc \in PvPages
      /\ cmd \in Command /\ cmd.op # "groups" /\ cmd.engine # "hostpath"
      /\ vols \in Seq(Volumes) /\ Covers(vols, <<>>, CrMay, CrMust)
  BY AllPvs DEF list_pv_zfs
<1>2. CASE ListPvPage(pvs)
  BY <1>1, <1>2, ListPvPageKeeps
<1>3. CASE LastPvPage(pvs) /\ get_zfs_vol_record(vols, Extend(pvList, Page(pvs)))
  <2> DEFINE ps == Extend(pvList, Page(pvs))
             rows == Joined(vols, ps)
  <2>1. ps \in Seq(Volumes) /\ Covers(ps, <<>>, PvMay, PvMust)
    BY <1>1, <1>3, PvPage DEF LastPvPage
  <2>2. get_zfs_vol_record(vols, ps)
    BY <1>3
  <2> HIDE DEF ps
  <2>3. /\ rows \in Seq(Volumes)
        /\ ShowsSteady("Ok", rows) /\ ShowsOnlyAsked(rows)
        /\ \A v \in Range(rows) : v \in Volumes /\ Wanted(v)
                                  /\ (v \in pvs \/ <<"pv", v>> \in touched)
    BY <1>1, <2>1, JoinShows
  <2>4. CASE \A v \in Range(rows) : ZfsVolumeObject(v)
    <3>1. Return("Ok", rows)
      BY <2>2, <2>4 DEF get_zfs_vol_record
    <3>2. Right("Ok", rows)
      BY <1>1, <2>3 DEF Right, RowsType, Explained, ShowsGroups
    <3>3. QED
      BY <3>1, <3>2, Returned
  <2>5. CASE ~ \A v \in Range(rows) : ZfsVolumeObject(v)
    <3>1. Return("Generic", <<>>)
      BY <2>2, <2>5 DEF get_zfs_vol_record
    <3>2. cmd.engine = "zfs"
      BY DEF list_pv_zfs
    <3>3. Explained("Generic", <<>>)
      BY <2>3, <2>5, <3>2 DEF Explained
    <3>4. QED
      BY <3>1, <3>3, NoRows, Returned
  <2>6. QED
    BY <2>4, <2>5
<1>4. QED
  BY <1>2, <1>3 DEF list_pv_zfs

(* The conversion of hostpath PVs, and the filter on their node. *)
LEMMA HostpathKeeps ==
  ASSUME LocalInv, cmd.engine = "hostpath", NEW ps \in Seq(Volumes),
         Increasing(ps), Range(ps) \subseteq PvMay,
         IF cmd.op = "volume" THEN Range(ps) = {cmd.name} ELSE PvMust \subseteq Range(ps),
         get_hostpath_volume(ps)
  PROVE  LocalInv'
<1> DEFINE rows == Selected(ps, {v \in Volumes : cmd.node \in {AnyNode, profile[v].node}})
<1>1. cmd \in Command /\ cmd.op # "groups"
  BY CommandParts DEF LocalInv, TypeOK
<1>2. CASE \A v \in Range(ps) : HostPathVolume(v)
  <2>1. Return("Ok", rows)
    BY <1>2 DEF get_hostpath_volume
  <2>2. rows \in Seq(Volumes) /\ ShowsSteady("Ok", rows) /\ ShowsOnlyAsked(rows)
    BY <1>1, HostpathShows
  <2> HIDE DEF rows
  <2>3. Right("Ok", rows)
    BY <1>1, <2>2 DEF Right, RowsType, Explained, ShowsGroups
  <2>4. QED
    BY <2>1, <2>3, Returned
<1>3. CASE ~ \A v \in Range(ps) : HostPathVolume(v)
  <2>1. Return("Generic", <<>>)
    BY <1>3 DEF get_hostpath_volume
  <2>2. PICK v \in Range(ps) : ~HostPathVolume(v)
    BY <1>3
  <2>3. v \in Volumes /\ profile[v].tagged /\ (v \in pvs \/ <<"pv", v>> \in touched)
    BY DEF PvMay, PvSelected
  <2>4. Explained("Generic", <<>>)
    BY <2>2, <2>3 DEF Explained
  <2>5. QED
    BY <2>1, <2>4, NoRows, Returned
<1>4. QED
  BY <1>2, <1>3

(* The listing of hostpath PVs. *)
LEMMA HostpathListKeeps ==
  ASSUME LocalInv, list_pv_hostpath
  PROVE  LocalInv'
<1> DEFINE found == {v \in pvs : profile[v].tagged}
<1>1. pc \in PvPages /\ cmd.op = "volumes" /\ cmd.engine = "hostpath"
  BY DEF list_pv_hostpath, PvPages, LocalInv, CommandInv
<1>2. found = {v \in pvs : PvSelected(v)}
  BY <1>1 DEF PvSelected
<1>3. \/ ListPvPage(found)
      \/ LastPvPage(found) /\ get_hostpath_volume(Extend(pvList, Page(found)))
  BY DEF list_pv_hostpath
<1> HIDE DEF found
<1>4. CASE ListPvPage(found)
  BY <1>1, <1>2, <1>4, ListPvPageKeeps
<1>5. CASE LastPvPage(found) /\ get_hostpath_volume(Extend(pvList, Page(found)))
  <2> DEFINE ps == Extend(pvList, Page(found))
  <2>1. ps \in Seq(Volumes) /\ Covers(ps, <<>>, PvMay, PvMust)
    BY <1>1, <1>2, <1>5, PvPage DEF LastPvPage
  <2>2. get_hostpath_volume(ps)
    BY <1>5
  <2> HIDE DEF ps
  <2>3. Range(<<>>) = {}
    BY DEF Range
  <2>4. Increasing(ps) /\ Range(ps) \subseteq PvMay /\ PvMust \subseteq Range(ps)
    BY <2>1, <2>3 DEF Covers
  <2>5. QED
    BY <1>1, <2>1, <2>2, <2>4, HostpathKeeps
<1>6. QED
  BY <1>3, <1>4, <1>5

(* One hostpath PV. *)
LEMMA GetPvKeeps ==
  ASSUME LocalInv, get_pv
  PROVE  LocalInv'
<1>1. /\ cmd.op = "volume" /\ cmd.engine = "hostpath" /\ pvs \subseteq Volumes
  BY DEF get_pv, LocalInv, TypeOK, CommandInv
<1>2. CASE Fail
  BY <1>2, Failed
<1>3. CASE cmd.name \in pvs /\ ~profile[cmd.name].tagged /\ Return("Generic", <<>>)
  <2>1. Explained("Generic", <<>>)
    BY <1>1, <1>3 DEF Explained
  <2>2. QED
    BY <1>3, <2>1, NoRows, Returned
<1>4. CASE /\ cmd.name \in pvs /\ profile[cmd.name].tagged
           /\ get_hostpath_volume(<<cmd.name>>)
  <2> DEFINE ps == <<cmd.name>>
  <2>1. ps \in Seq(Volumes) /\ Increasing(ps) /\ Range(ps) = {cmd.name}
    BY <1>1, <1>4 DEF Increasing, Range
  <2>2. Range(ps) \subseteq PvMay
    BY <1>1, <1>4, <2>1 DEF PvMay, PvSelected
  <2>3. get_hostpath_volume(ps)
    BY <1>4
  <2> HIDE DEF ps
  <2>4. QED
    BY <1>1, <2>1, <2>2, <2>3, HostpathKeeps
<1>5. QED
  BY <1>2, <1>3, <1>4 DEF get_pv

(* A page of nodes: what it makes of the list, before it is kept or printed. *)
LEMMA NodePage ==
  ASSUME LocalInv, pc \in NodePages,
         NEW d, d = Extend(vols, Page(nodes)), NEW t, t = NextToken(nodes)
  PROVE  d \in Seq(Nodes) /\ t \in Seq(Nodes) /\ Covers(d, t, NodeMay, NodeMust)
<1>1. /\ nodes \subseteq Nodes /\ token \in Seq(Volumes \cup Nodes)
      /\ vols \in Seq(Volumes \cup Nodes)
  BY DEF LocalInv, TypeOK
<1>2. nodes \in SUBSET NodeMay /\ NodeMust \subseteq nodes /\ NodeMay \in SUBSET Nodes
  BY <1>1 DEF NodeMay, NodeMust
<1>3. Pages(vols, NodeMay, NodeMust)
  BY DEF LocalInv, ListInv
<1>4. QED
  BY <1>1, <1>2, <1>3, Numbers, OnePage

(* One that is not the last. *)
LEMMA ListNodePageKeeps ==
  ASSUME LocalInv, pc \in NodePages, ListNodePage
  PROVE  LocalInv'
<1>1. CASE Fail
  BY <1>1, Failed
<1>2. CASE /\ NextToken(nodes) # <<>>
           /\ vols' = Extend(vols, Page(nodes)) /\ token' = NextToken(nodes)
           /\ UNCHANGED <<cmd, cluster, pc, pvList, result, out>>
  <2>1. /\ vols' \in Seq(Nodes) /\ token' \in Seq(Nodes)
        /\ Covers(vols', token', NodeMay, NodeMust)
    BY <1>2, NodePage
  <2>2. vols' \in Seq(Volumes \cup Nodes) /\ token' \in Seq(Volumes \cup Nodes)
    BY <2>1, ListOfMore
  <2>3. /\ cmd' = cmd /\ profile' = profile /\ crs' = crs /\ pvs' = pvs
        /\ nodes' = nodes /\ touched' = touched /\ result' = result /\ out' = out
        /\ pvList' = pvList /\ pc' = pc
    BY <1>2 DEF cluster
  <2>4. pc \in NodePages /\ pc # "done" /\ pc # "client"
    BY DEF NodePages
  <2>5. Correct'
    BY <2>3, <2>4, NotYet
  <2>6. TypeOK' /\ IsFiniteSet(touched)'
    BY <2>2, <2>3, <2>4 DEF LocalInv, TypeOK
  <2>7. CommandInv' /\ LocalsInv'
    BY <2>3, <2>4 DEF LocalInv, CommandInv, LocalsInv
  <2>8. NodeMay' = NodeMay /\ NodeMust' = NodeMust
    BY <1>2, SameObjects
  <2>9. ListInv'
    BY <1>2, <2>1, <2>3, <2>4, <2>8 DEF ListInv, Pages, VolumePages, NodePages, PvPages
  <2>10. QED
    BY <2>5, <2>6, <2>7, <2>9 DEF LocalInv
<1>3. QED
  BY <1>1, <1>2 DEF ListNodePage

(* The last page, which prints the groups of all. *)
LEMMA LastNodePageKeeps ==
  ASSUME LocalInv, pc \in NodePages, LastNodePage, NEW ns, ns = Extend(vols, Page(nodes)),
         NEW rows, rows \in {VolumeGroupRecord(ns), ZfsPoolRecord(ns)}, Return("Ok", rows)
  PROVE  LocalInv'
<1>1. cmd \in Command /\ cmd.op = "groups" /\ cmd.node = AnyNode
  BY DEF LocalInv, TypeOK, CommandInv
<1>2. ns \in Seq(Nodes) /\ Covers(ns, <<>>, NodeMay, NodeMust)
  BY NodePage DEF LastNodePage
<1>3. Range(<<>>) = {}
  BY DEF Range
<1>4. Increasing(ns) /\ Range(ns) \subseteq NodeMay /\ NodeMust \subseteq Range(ns)
  BY <1>2, <1>3 DEF Covers
<1>5. \A n \in Nodes : IF cmd.node \notin {AnyNode, n} THEN n \notin Range(ns)
                       ELSE <<"node", n>> \notin touched =>
                              (n \in Range(ns) <=> n \in nodes)
  BY <1>1, <1>4 DEF NodeMay, NodeMust
<1>6. Right("Ok", rows)
  BY <1>1, <1>2, <1>4, <1>5, GroupsShow
<1>7. QED
  BY <1>6, Returned

(* The groups of one node. *)
LEMMA OneNodeKeeps ==
  ASSUME LocalInv, pc \in {"lvm_node", "zfs_node"}, cmd.node \in nodes,
         NEW ns, ns = <<cmd.node>>,
         NEW rows, rows \in {VolumeGroupRecord(ns), ZfsPoolRecord(ns)}, Return("Ok", rows)
  PROVE  LocalInv'
<1>1. /\ cmd \in Command /\ cmd.op = "groups" /\ cmd.node # AnyNode
      /\ cmd.node \in Nodes
  BY DEF LocalInv, TypeOK, CommandInv
<1>2. ns \in Seq(Nodes) /\ Increasing(ns) /\ Range(ns) = {cmd.node}
  BY <1>1 DEF Increasing, Range
<1>3. \A n \in Nodes : IF cmd.node \notin {AnyNode, n} THEN n \notin Range(ns)
                       ELSE <<"node", n>> \notin touched =>
                              (n \in Range(ns) <=> n \in nodes)
  BY <1>1, <1>2
<1>4. Right("Ok", rows)
  BY <1>1, <1>2, <1>3, GroupsShow
<1>5. QED
  BY <1>4, Returned

(* A change to an object: a listing may have more and must have less. *)
LEMMA ChangeKeeps ==
  ASSUME LocalInv, NEW kind, NEW x, Change(kind, x),
         \/ kind \in {"cr", "pv"} /\ x \in Volumes
         \/ kind = "node" /\ x \in Nodes
  PROVE  LocalInv'
<1>1. /\ cmd' = cmd /\ profile' = profile /\ pc' = pc /\ token' = token
      /\ vols' = vols /\ pvList' = pvList /\ result' = result /\ out' = out
      /\ touched' = touched \cup {<<kind, x>>} /\ pc \in Requests
  BY DEF Change, locals
<1>2. /\ crs' \subseteq Volumes /\ pvs' \subseteq Volumes /\ nodes' \subseteq Nodes
      /\ touched' \subseteq {"cr", "pv", "node"} \X (Volumes \cup Nodes)
  BY DEF LocalInv, TypeOK, Change, Toggle
<1>3. IsFiniteSet(touched') /\ Cardinality(touched') <= MaxChanges
  <2>1. /\ IsFiniteSet(touched) /\ <<kind, x>> \notin touched
        /\ Cardinality(touched) < MaxChanges
    BY DEF LocalInv, Change
  <2>2. IsFiniteSet(touched') /\ Cardinality(touched') = Cardinality(touched) + 1
    BY <1>1, <2>1, FS_AddElement
  <2>3. Cardinality(touched) \in Nat /\ MaxChanges \in Nat
    BY <2>1, FS_CardinalityType, CountsAssumption
  <2>4. QED
    BY <2>1, <2>2, <2>3
<1>4. pc # "done" /\ pc # "client"
  BY <1>1 DEF Requests
<1>5. Correct'
  BY <1>1, <1>4, NotYet
<1>6. TypeOK'
  BY <1>1, <1>2, <1>3, <1>4 DEF LocalInv, TypeOK
<1>7. CommandInv' /\ LocalsInv'
  BY <1>1 DEF LocalInv, CommandInv, LocalsInv
<1>8. \A v \in Volumes : /\ v \in crs \/ <<"cr", v>> \in touched =>
                              v \in crs' \/ <<"cr", v>> \in touched'
                         /\ v \in crs' /\ <<"cr", v>> \notin touched' =>
                              v \in crs /\ <<"cr", v>> \notin touched
                         /\ v \in pvs \/ <<"pv", v>> \in touched =>
                              v \in pvs' \/ <<"pv", v>> \in touched'
                         /\ v \in pvs' /\ <<"pv", v>> \notin touched' =>
                              v \in pvs /\ <<"pv", v>> \notin touched
  BY <1>1 DEF Change, Toggle
<1>9. \A n \in Nodes : /\ n \in nodes \/ <<"node", n>> \in touched =>
                            n \in nodes' \/ <<"node", n>> \in touched'
                       /\ n \in nodes' /\ <<"node", n>> \notin touched' =>
                            n \in nodes /\ <<"node", n>> \notin touched
  BY <1>1 DEF Change, Toggle
<1>10. CrMay \subseteq CrMay' /\ CrMust' \subseteq CrMust
  BY <1>1, <1>8 DEF CrMay, CrMust, Wanted, Asked, Labelled
<1>11. PvMay \subseteq PvMay' /\ PvMust' \subseteq PvMust
  BY <1>1, <1>8 DEF PvMay, PvMust, PvSelected
<1>12. NodeMay \subseteq NodeMay' /\ NodeMust' \subseteq NodeMust
  BY <1>1, <1>9 DEF NodeMay, NodeMust
<1>13. ListInv'
  <2>1. \A done, rest : Covers(done, rest, CrMay, CrMust) =>
                          Covers(done, rest, CrMay', CrMust')
    BY <1>10, CoversMore
  <2>2. \A done, rest : Covers(done, rest, PvMay, PvMust) =>
                          Covers(done, rest, PvMay', PvMust')
    BY <1>11, CoversMore
  <2>3. \A done, rest : Covers(done, rest, NodeMay, NodeMust) =>
                          Covers(done, rest, NodeMay', NodeMust')
    BY <1>12, CoversMore
  <2>4. QED
    BY <1>1, <2>1, <2>2, <2>3 DEF LocalInv, ListInv, Pages
<1>14. QED
  BY <1>3, <1>5, <1>6, <1>7, <1>13 DEF LocalInv

(* Every request keeps the invariant. *)
LEMMA RequestKeeps ==
  ASSUME LocalInv, Request
  PROVE  LocalInv'
<1>1. CASE client
  BY <1>1, ClientKeeps
<1>2. CASE lvm_volumes \/ zfs_volumes
  BY <1>2, ListVolumesKeeps DEF lvm_volumes, zfs_volumes, VolumePages
<1>3. CASE lvm_volume \/ zfs_volume
  BY <1>3, GetVolumeKeeps DEF lvm_volume, zfs_volume
<1>4. CASE list_pv_lvm
  BY <1>4, LvmKeeps
<1>5. CASE list_pv_zfs
  BY <1>5, ZfsKeeps
<1>6. CASE list_pv_hostpath
  BY <1>6, HostpathListKeeps
<1>7. CASE get_pv
  BY <1>7, GetPvKeeps
<1>8. CASE lvm_nodes \/ zfs_nodes
  <2>1. pc \in NodePages
    BY <1>8 DEF lvm_nodes, zfs_nodes, NodePages
  <2>2. CASE ListNodePage
    BY <2>1, <2>2, ListNodePageKeeps
  <2>3. CASE /\ LastNodePage
             /\ \/ Return("Ok", VolumeGroupRecord(Extend(vols, Page(nodes))))
                \/ Return("Ok", ZfsPoolRecord(Extend(vols, Page(nodes))))
    BY <2>1, <2>3, LastNodePageKeeps
  <2>4. QED
    BY <1>8, <2>2, <2>3 DEF lvm_nodes, zfs_nodes
<1>9. CASE lvm_node \/ zfs_node
  <2>1. pc \in {"lvm_node", "zfs_node"}
    BY <1>9 DEF lvm_node, zfs_node
  <2>2. CASE Fail
    BY <2>2, Failed
  <2>3. CASE /\ cmd.node \in nodes
             /\ \/ Return("Ok", VolumeGroupRecord(<<cmd.node>>))
                \/ Return("Ok", ZfsPoolRecord(<<cmd.node>>))
    BY <2>1, <2>3, OneNodeKeeps
  <2>4. QED
    BY <1>9, <2>2, <2>3 DEF lvm_node, zfs_node
<1>10. QED
  BY <1>1, <1>2, <1>3, <1>4, <1>5, <1>6, <1>7, <1>8, <1>9 DEF Request

-----------------------------------------------------------------------------
(* The theorems *)

(* Every reachable state of a listing command satisfies LocalInv. *)
THEOREM LocalInvariance == Spec => []LocalInv
<1>1. Init => LocalInv
  BY Begins
<1>2. LocalInv /\ [Next]_vars => LocalInv'
  <2> SUFFICES ASSUME LocalInv, [Next]_vars PROVE LocalInv'
    OBVIOUS
  <2>1. CASE Request
    BY <2>1, RequestKeeps
  <2>2. CASE ObjectChanges
    BY <2>2, ChangeKeeps DEF ObjectChanges
  <2>3. CASE UNCHANGED vars
    <3>1. /\ cmd' = cmd /\ profile' = profile /\ crs' = crs /\ pvs' = pvs
          /\ nodes' = nodes /\ touched' = touched /\ pc' = pc /\ token' = token
          /\ vols' = vols /\ pvList' = pvList /\ result' = result /\ out' = out
      BY <2>3 DEF vars, cluster, locals
    <3>2. TypeOK' /\ IsFiniteSet(touched') /\ CommandInv' /\ LocalsInv'
      BY <3>1 DEF LocalInv, TypeOK, CommandInv, LocalsInv
    <3>3. ListInv'
      <4>1. /\ CrMay' = CrMay /\ CrMust' = CrMust /\ PvMay' = PvMay /\ PvMust' = PvMust
            /\ NodeMay' = NodeMay /\ NodeMust' = NodeMust
        BY <3>1, SameObjects DEF cluster
      <4>2. QED
        BY <3>1, <4>1 DEF LocalInv, ListInv, Pages
    <3>4. Correct'
      <4>1. SteadyVolumesListed' /\ OnlyAskedListed'
        BY <3>1 DEF LocalInv, Correct, SteadyVolumesListed, OnlyAskedListed, Steady,
                    Asked, Labelled
      <4>2. FailureExplained'
        BY <3>1 DEF LocalInv, Correct, FailureExplained, Asked, Labelled, LvmVolumeObject,
                    ZfsVolumeObject, HostPathVolume
      <4>3. GroupsOfNodesListed'
        BY <3>1 DEF LocalInv, Correct, GroupsOfNodesListed
      <4>4. QED
        BY <4>1, <4>2, <4>3 DEF Correct
    <3>5. QED
      BY <3>2, <3>3, <3>4 DEF LocalInv
  <2>4. QED
    BY <2>1, <2>2, <2>3 DEF Next, Done
<1>3. QED
  BY <1>1, <1>2, PTL DEF Spec

(* A command has a result exactly when it has ended, and then no continue
   token is left over; what it keeps and prints has its type. *)
THEOREM TypeCorrectness == Spec => []TypeOK
<1>1. LocalInv => TypeOK
  BY DEF LocalInv
<1>2. QED
  BY <1>1, LocalInvariance, PTL

(* However many pages the listings take and whatever is created or deleted
   between them, a command that succeeds shows every volume it was asked for
   that was complete throughout. *)
THEOREM SteadyVolumes == Spec => []SteadyVolumesListed
<1>1. LocalInv => SteadyVolumesListed
  BY DEF LocalInv, Correct
<1>2. QED
  BY <1>1, LocalInvariance, PTL

(* And shows only volumes that were asked for and were there at some time of
   the command, each once, in the order of names. *)
THEOREM OnlyAsked == Spec => []OnlyAskedListed
<1>1. LocalInv => OnlyAskedListed
  BY DEF LocalInv, Correct
<1>2. QED
  BY <1>1, LocalInvariance, PTL

(* A command that fails though every request succeeded fails for an object that
   it read, and prints nothing. *)
THEOREM Failures == Spec => []FailureExplained
<1>1. LocalInv => FailureExplained
  BY DEF LocalInv, Correct
<1>2. QED
  BY <1>1, LocalInvariance, PTL

(* A listing of volume groups or zpools shows the groups of every node that was
   there throughout, in the order of its CR, and of no node that was not asked
   for. *)
THEOREM NodeGroupsShown == Spec => []GroupsOfNodesListed
<1>1. LocalInv => GroupsOfNodesListed
  BY DEF LocalInv, Correct
<1>2. QED
  BY <1>1, LocalInvariance, PTL
=============================================================================
