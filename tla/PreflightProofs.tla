--------------------------- MODULE PreflightProofs ---------------------------
(***************************************************************************)
(* Proofs about Preflight, for any cluster, page size and number of        *)
(* changes: a scan by offset that no deletion disturbs overlooks no volume *)
(* which was there, and met its condition, from its first page to its      *)
(* last; and the checks are left out only where Mayastor is off.           *)
(***************************************************************************)
EXTENDS Preflight, FiniteSetTheorems, TLAPS

-----------------------------------------------------------------------------
(* Sequences *)

(* No volume is listed twice. *)
Distinct(s) == \A i, j \in 1 .. Len(s) : s[i] = s[j] => i = j

(* What is at a place of a list is in the list. *)
LEMMA InToSet ==
  ASSUME NEW S, NEW s \in Seq(S), NEW k \in 1 .. Len(s)
  PROVE  s[k] \in ToSet(s)
  BY DEF ToSet

(* What two lists make, one after the other. *)
LEMMA TwoLists ==
  ASSUME NEW S, NEW s \in Seq(S), NEW t \in Seq(S), NEW r, r = s \o t
  PROVE  /\ r \in Seq(S) /\ Len(r) = Len(s) + Len(t)
         /\ \A j \in 1 .. Len(s) : r[j] = s[j]
         /\ \A j \in 1 .. Len(t) : r[Len(s) + j] = t[j]
  OBVIOUS

(* The list r is s with e at the place i, and what was there moved on. *)
MovedOn(r, s, i, e) ==
  /\ Len(r) = Len(s) + 1
  /\ \A j \in 1 .. i - 1 : r[j] = s[j]
  /\ r[i] = e
  /\ \A j \in i + 1 .. Len(s) + 1 : r[j] = s[j - 1]

(* What an object that is inserted does to the list. *)
LEMMA Inserted ==
  ASSUME NEW S, NEW s \in Seq(S), NEW i \in 1 .. Len(s) + 1, NEW e \in S,
         NEW r, r = InsertAt(s, i, e)
  PROVE  r \in Seq(S) /\ MovedOn(r, s, i, e)
<1> DEFINE a == SubSeq(s, 1, i - 1)
           b == SubSeq(s, i, Len(s))
<1>1. /\ a \in Seq(S) /\ Len(a) = i - 1
      /\ \A j \in 1 .. i - 1 : a[j] = s[j]
  OBVIOUS
<1>2. /\ b \in Seq(S) /\ Len(b) = Len(s) - i + 1
      /\ \A j \in 1 .. Len(s) - i + 1 : b[j] = s[i + j - 1]
  OBVIOUS
<1> DEFINE c == a \o <<e>>
<1>3. r = c \o b
  BY DEF InsertAt
<1> HIDE DEF a, b
<1>4. a \in Seq(S) /\ b \in Seq(S) /\ <<e>> \in Seq(S)
  BY <1>1, <1>2
<1>5. /\ c \in Seq(S) /\ Len(c) = Len(a) + 1
      /\ \A j \in 1 .. Len(a) : c[j] = a[j]
      /\ c[Len(a) + 1] = e
  BY <1>4
<1> HIDE DEF c
<1>6. /\ r \in Seq(S) /\ Len(r) = Len(c) + Len(b)
      /\ \A j \in 1 .. Len(c) : r[j] = c[j]
      /\ \A j \in 1 .. Len(b) : r[Len(c) + j] = b[j]
  <2>1. c \in Seq(S)
    BY <1>5
  <2>2. QED
    BY <1>3, <1>4, <2>1, TwoLists
<1>7. Len(c) = i /\ Len(a) = i - 1 /\ Len(b) = Len(s) - i + 1
  BY <1>1, <1>2, <1>5
<1>8. /\ r \in Seq(S) /\ Len(r) = Len(s) + 1
      /\ \A j \in 1 .. i - 1 : r[j] = s[j]
      /\ r[i] = e
  BY <1>1, <1>5, <1>6, <1>7
<1>9. ASSUME NEW j \in i + 1 .. Len(s) + 1 PROVE r[j] = s[j - 1]
  <2>1. PICK k \in 1 .. Len(b) : j = i + k
    <3>1. j - i \in 1 .. Len(b) /\ j = i + (j - i)
      BY <1>7, <1>9
    <3>2. QED
      BY <3>1
  <2>2. r[i + k] = b[k]
    BY <1>6, <1>7
  <2>3. b[k] = s[i + k - 1]
    BY <1>2, <1>7
  <2>4. QED
    BY <2>1, <2>2, <2>3
<1>10. QED
  BY <1>8, <1>9 DEF MovedOn

(* What an object that is removed does to it. *)
LEMMA Removed ==
  ASSUME NEW S, NEW s \in Seq(S), NEW i \in 1 .. Len(s),
         NEW r, r = RemoveAt(s, i)
  PROVE  /\ r \in Seq(S) /\ Len(r) = Len(s) - 1
         /\ \A j \in 1 .. i - 1 : r[j] = s[j]
         /\ \A j \in i .. Len(s) - 1 : r[j] = s[j + 1]
<1> DEFINE a == SubSeq(s, 1, i - 1)
           b == SubSeq(s, i + 1, Len(s))
<1>1. /\ a \in Seq(S) /\ Len(a) = i - 1
      /\ \A j \in 1 .. i - 1 : a[j] = s[j]
  OBVIOUS
<1>2. /\ b \in Seq(S) /\ Len(b) = Len(s) - i
      /\ \A j \in 1 .. Len(s) - i : b[j] = s[i + j]
  OBVIOUS
<1>3. r = a \o b
  BY DEF RemoveAt
<1> HIDE DEF a, b
<1>4. /\ r \in Seq(S) /\ Len(r) = Len(a) + Len(b)
      /\ \A j \in 1 .. Len(a) : r[j] = a[j]
      /\ \A j \in 1 .. Len(b) : r[Len(a) + j] = b[j]
  <2>1. a \in Seq(S) /\ b \in Seq(S)
    BY <1>1, <1>2
  <2>2. QED
    BY <1>3, <2>1, TwoLists
<1>5. Len(a) = i - 1 /\ Len(b) = Len(s) - i
  BY <1>1, <1>2
<1>6. /\ r \in Seq(S) /\ Len(r) = Len(s) - 1
      /\ \A j \in 1 .. i - 1 : r[j] = s[j]
  BY <1>1, <1>4, <1>5
<1>7. ASSUME NEW j \in i .. Len(s) - 1 PROVE r[j] = s[j + 1]
  <2>1. PICK k \in 1 .. Len(b) : j = i - 1 + k
    <3>1. j - i + 1 \in 1 .. Len(b) /\ j = i - 1 + (j - i + 1)
      BY <1>5, <1>7
    <3>2. QED
      BY <3>1
  <2>2. r[i - 1 + k] = b[k]
    BY <1>4, <1>5
  <2>3. b[k] = s[i + k]
    BY <1>2, <1>5
  <2>4. QED
    BY <2>1, <2>2, <2>3
<1>8. QED
  BY <1>6, <1>7

(* A list without repetitions is no longer than there are volumes. *)
LEMMA DistinctIsShort ==
  ASSUME NEW s \in Seq(Vols), Distinct(s)
  PROVE  Len(s) \in Nat /\ Cardinality(Vols) \in Nat /\ Len(s) <= Cardinality(Vols)
<1>1. s \in Injection(1 .. Len(s), Vols)
  BY DEF Injection, IsInjective, Distinct
<1>2. Cardinality(1 .. Len(s)) <= Cardinality(Vols)
  BY <1>1, VolsAssumption, FS_Injection
<1>3. Len(s) \in Nat /\ Cardinality(1 .. Len(s)) = Len(s)
  <2>1. Len(s) \in Nat /\ Len(s) \in Int /\ 1 \in Int
    OBVIOUS
  <2>2. Cardinality(1 .. Len(s)) = IF 1 > Len(s) THEN 0 ELSE Len(s) - 1 + 1
    BY <2>1, FS_Interval
  <2>3. QED
    BY <2>1, <2>2
<1>4. Cardinality(Vols) \in Nat
  BY VolsAssumption, FS_CardinalityType
<1>5. QED
  BY <1>2, <1>3, <1>4

(* The API may list the volumes in any order. *)
LEMMA InitialOrder ==
  ASSUME NEW s \in SetToAllKPermutations(Vols)
  PROVE  s \in Seq(Vols) /\ Distinct(s)
<1>1. PICK T \in SUBSET Vols : s \in SetToSeqs(T)
  BY DEF SetToAllKPermutations
<1>2. IsFiniteSet(T)
  BY VolsAssumption, FS_Subset
<1>3. Cardinality(T) \in Nat
  BY <1>2, FS_CardinalityType
<1>4. /\ s \in [1 .. Cardinality(T) -> Vols]
      /\ \A i, j \in 1 .. Cardinality(T) : i # j => s[i] # s[j]
  BY <1>1 DEF SetToSeqs
<1>5. QED
  BY <1>3, <1>4 DEF Distinct

-----------------------------------------------------------------------------
(* The inductive invariant *)

(* The list has no volume twice, and only volumes that exist are rebuilt. *)
OrderInv == Distinct(vols) /\ rebuilding \subseteq ToSet(vols)

(* A volume that met the condition of the scan since it began is still ahead of
   it, unless a deletion moved it or (in the second scan, which reads on) it has
   been found. *)
ScanInv ==
  /\ pc \in {"rebuild", "single"} => token \in Nat
  /\ pc = "rebuild" => steady \subseteq rebuilding
  /\ pc = "single" => steady \subseteq Single \cap ToSet(vols)
  /\ pc = "rebuild" /\ ~shifted =>
       \A i \in 1 .. Len(vols) : vols[i] \in steady => token < i
  /\ pc = "single" /\ ~shifted =>
       \A i \in 1 .. Len(vols) : vols[i] \in steady \ found => token < i

PreflightInv == TypeOK /\ OrderInv /\ ScanInv

(* The invariant holds when the command begins. *)
LEMMA PreflightInit == Init => PreflightInv
<1> SUFFICES ASSUME Init PROVE PreflightInv
  OBVIOUS
<1>1. vols \in Seq(Vols) /\ Distinct(vols)
  BY InitialOrder DEF Init
<1>2. ToSet(vols) \subseteq Vols
  BY <1>1 DEF ToSet
<1>3. TypeOK
  <2>1. changes \in 0 .. MaxChanges /\ token \in {NoToken} \cup 0 .. Cardinality(Vols)
    BY SizesAssumption DEF Init
  <2>2. rebuilding \subseteq Vols
    BY <1>2 DEF Init
  <2>3. QED
    BY <1>1, <2>1, <2>2 DEF Init, TypeOK
<1>4. OrderInv /\ ScanInv
  BY <1>1 DEF Init, OrderInv, ScanInv
<1>5. QED
  BY <1>3, <1>4 DEF PreflightInv

-----------------------------------------------------------------------------
(* How one check follows another: a scan begins at the first page, or the next
   check has no pages. *)
Moves ==
  \/ BeginScan("rebuild", rebuilding)
  \/ BeginScan("single", Single \cap ToSet(vols))
  \/ \E p \in Final \cup {"path", "cordon"} : Finish(p)

(* Each way to the next check is one of these. *)
LEMMA EachMoves ==
  /\ ToSingle => Moves
  /\ ToCordon => Moves
  /\ ToRebuild => Moves
<1>1. ToSingle => Moves
  BY DEF ToSingle, Moves, Final
<1>2. ToCordon => Moves
  BY <1>1 DEF ToCordon, Moves
<1>3. QED
  BY <1>1, <1>2 DEF ToRebuild, Moves

(* The next check starts with the invariant. *)
LEMMA MovesKeep ==
  ASSUME PreflightInv, Moves, UNCHANGED cluster, found' \subseteq Single
  PROVE  PreflightInv'
<1> USE DEF PreflightInv, cluster
<1>1. ToSet(vols) \subseteq Vols /\ Cardinality(Vols) \in Nat
  BY DistinctIsShort DEF OrderInv, TypeOK, ToSet
<1>2. OrderInv' /\ ToSet(vols)' = ToSet(vols)
  BY DEF OrderInv
<1>3. 0 \in 0 .. Cardinality(Vols) /\ \A i \in 1 .. Len(vols) : 0 < i
  BY <1>1
<1>4. CASE BeginScan("rebuild", rebuilding)
  <2>1. TypeOK'
    BY <1>3, <1>4 DEF BeginScan, TypeOK
  <2>2. ScanInv'
    BY <1>3, <1>4 DEF BeginScan, ScanInv
  <2>3. QED
    BY <1>2, <2>1, <2>2
<1>5. CASE BeginScan("single", Single \cap ToSet(vols))
  <2>1. TypeOK'
    BY <1>1, <1>3, <1>5 DEF BeginScan, TypeOK
  <2>2. ScanInv'
    BY <1>2, <1>3, <1>5 DEF BeginScan, ScanInv
  <2>3. QED
    BY <1>2, <2>1, <2>2
<1>6. ASSUME NEW p \in Final \cup {"path", "cordon"}, Finish(p)
      PROVE  PreflightInv'
  BY <1>2, <1>6 DEF Finish, Final, TypeOK, ScanInv
<1>7. QED
  BY <1>4, <1>5, <1>6 DEF Moves

(* The page holds the volumes after the token, and there is a next one as long
   as the list goes on. *)
LEMMA Pages ==
  ASSUME TypeOK, token \in Nat
  PROVE  /\ \A i \in 1 .. Len(vols) :
              token < i /\ i <= token + PageSize => vols[i] \in Page
         /\ NextToken = NoToken => Len(vols) <= token + PageSize
         /\ NextToken # NoToken =>
              NextToken = token + PageSize /\ NextToken < Len(vols)
<1>1. vols \in Seq(Vols)
  BY DEF TypeOK
<1>2. \A i \in 1 .. Len(vols) :
        token < i /\ i <= token + PageSize => vols[i] \in Page
  BY <1>1 DEF Page
<1>3. token + PageSize \in Nat /\ Len(vols) \in Nat
  BY <1>1, SizesAssumption
<1>4. QED
  BY <1>2, <1>3 DEF NextToken, NoToken

(* A page is read and there are more. *)
LEMMA NextPageKeeps ==
  ASSUME PreflightInv, pc \in {"rebuild", "single"}, NextToken # NoToken,
         token' = NextToken, UNCHANGED <<cluster, pc, steady, shifted>>,
         found \subseteq found' /\ found' \subseteq Single,
         pc = "rebuild" => Page \cap rebuilding = {},
         pc = "single" => Page \cap Single \subseteq found'
  PROVE  PreflightInv'
<1> USE DEF PreflightInv, cluster
<1>1. token \in Nat
  BY DEF ScanInv
<1>2. vols \in Seq(Vols) /\ Distinct(vols)
  BY DEF TypeOK, OrderInv
<1>3. Len(vols) \in Nat /\ Cardinality(Vols) \in Nat /\ Len(vols) <= Cardinality(Vols)
  BY <1>2, DistinctIsShort
<1>4. token' = token + PageSize /\ token' < Len(vols)
  BY <1>1, Pages
<1>5. token' \in Nat /\ token' \in 0 .. Cardinality(Vols)
  BY <1>1, <1>3, <1>4, SizesAssumption
<1>6. TypeOK'
  BY <1>5 DEF TypeOK
<1>7. OrderInv'
  BY DEF OrderInv
<1>8. ASSUME pc = "rebuild", ~shifted, NEW i \in 1 .. Len(vols), vols[i] \in steady
      PROVE  token' < i
  <2>1. token < i /\ vols[i] \notin Page
    BY <1>8 DEF ScanInv
  <2>2. QED
    BY <1>1, <1>3, <1>4, <2>1, Pages
<1>9. ASSUME pc = "single", ~shifted, NEW i \in 1 .. Len(vols),
             vols[i] \in steady \ found'
      PROVE  token' < i
  <2>1. token < i /\ vols[i] \notin Page
    BY <1>9 DEF ScanInv
  <2>2. QED
    BY <1>1, <1>3, <1>4, <2>1, Pages
<1>10. ScanInv'
  BY <1>5, <1>8, <1>9 DEF ScanInv
<1>11. QED
  BY <1>6, <1>7, <1>10

(* A step of the checks keeps the invariant. *)
LEMMA StepKeeps == PreflightInv /\ Step => PreflightInv'
<1> SUFFICES ASSUME PreflightInv, Step PROVE PreflightInv'
  OBVIOUS
<1>1. ASSUME Moves, UNCHANGED <<cluster, found>> PROVE PreflightInv'
  BY <1>1, MovesKeep DEF PreflightInv, TypeOK
<1>2. \A p \in Final \cup {"path", "cordon"} : Finish(p) => Moves
  BY DEF Moves
<1>3. CASE ReadRelease \/ ValidatePath \/ CheckCordoned \/ RequestFails
  <2>1. Moves /\ UNCHANGED <<cluster, found>>
    BY <1>2, <1>3, EachMoves
    DEF ReadRelease, ValidatePath, CheckCordoned, RequestFails, Final
  <2>2. QED
    BY <1>1, <2>1
<1>4. CASE RebuildPage
  <2>1. CASE Moves
    BY <1>1, <1>4, <2>1 DEF RebuildPage
  <2>2. CASE /\ Page \cap rebuilding = {} /\ NextToken # NoToken
             /\ token' = NextToken /\ UNCHANGED <<pc, steady, shifted>>
    BY <1>4, <2>2, NextPageKeeps DEF RebuildPage, PreflightInv, TypeOK
  <2>3. QED
    BY <1>2, <1>4, <2>1, <2>2, EachMoves DEF RebuildPage, Final
<1>5. CASE SinglePage
  <2>1. found \subseteq found' /\ found' \subseteq Single /\ Page \cap Single \subseteq found'
    BY <1>5 DEF SinglePage, PreflightInv, TypeOK
  <2>2. CASE Moves
    BY <1>5, <2>1, <2>2, MovesKeep DEF SinglePage
  <2>3. CASE NextToken # NoToken /\ token' = NextToken /\ UNCHANGED <<pc, steady, shifted>>
    BY <1>5, <2>1, <2>3, NextPageKeeps DEF SinglePage
  <2>4. QED
    BY <1>2, <1>5, <2>2, <2>3 DEF SinglePage, Final
<1>6. QED
  BY <1>3, <1>4, <1>5 DEF Step

(* A change of the cluster that leaves the volumes where they are. *)
LEMMA InPlaceKeeps ==
  ASSUME PreflightInv, UNCHANGED <<flags, self, rel, pc, token, found, vols, shifted>>,
         changes' \in 0 .. MaxChanges,
         cordon' \in [Nodes -> {"none", "cordoned", "drained"}],
         rebuilding' \subseteq ToSet(vols), steady' \subseteq steady,
         pc = "rebuild" => steady' \subseteq rebuilding'
  PROVE  PreflightInv'
<1> USE DEF PreflightInv
<1>1. ToSet(vols) \subseteq Vols
  BY DEF TypeOK, ToSet
<1>2. TypeOK'
  BY <1>1 DEF TypeOK
<1>3. OrderInv' /\ ToSet(vols)' = ToSet(vols)
  BY DEF OrderInv, Distinct, ToSet
<1>4. ScanInv'
  BY <1>3 DEF ScanInv
<1>5. QED
  BY <1>2, <1>3, <1>4

(* A volume that appears moves others away from the scan, never towards it, and
   is none of those that the scan owes an answer for. *)
LEMMA CreateKeeps ==
  ASSUME PreflightInv, NEW v \in Vols, NEW i \in 1 .. Len(vols) + 1,
         CreateVolume(v, i), changes' \in 0 .. MaxChanges
  PROVE  PreflightInv'
<1>1. /\ v \notin ToSet(vols) /\ vols' = InsertAt(vols, i, v)
      /\ UNCHANGED <<flags, self, rel, pc, token, found, rebuilding, cordon,
                     steady, shifted>>
  BY DEF CreateVolume, Changes
<1>2. vols \in Seq(Vols) /\ Len(vols) \in Nat /\ \A j \in 1 .. Len(vols) : vols[j] # v
  BY <1>1 DEF PreflightInv, TypeOK, ToSet
<1>3. /\ vols' \in Seq(Vols) /\ Len(vols') = Len(vols) + 1
      /\ \A j \in 1 .. i - 1 : vols'[j] = vols[j]
      /\ vols'[i] = v
      /\ \A j \in i + 1 .. Len(vols) + 1 : vols'[j] = vols[j - 1]
  <2>1. vols' \in Seq(Vols) /\ MovedOn(vols', vols, i, v)
    BY <1>1, <1>2, Inserted
  <2>2. QED
    BY <2>1 DEF MovedOn
<1>4. \A j \in 1 .. Len(vols') :
        \/ j = i
        \/ j \in 1 .. Len(vols) /\ j < i /\ vols'[j] = vols[j]
        \/ j - 1 \in 1 .. Len(vols) /\ i < j /\ vols'[j] = vols[j - 1]
  <2> TAKE j \in 1 .. Len(vols')
  <2>1. CASE j < i
    <3>1. j \in 1 .. i - 1 /\ j \in 1 .. Len(vols)
      BY <1>2, <2>1
    <3>2. QED
      BY <1>3, <2>1, <3>1
  <2>2. CASE i < j
    <3>1. j \in i + 1 .. Len(vols) + 1 /\ j - 1 \in 1 .. Len(vols)
      BY <1>2, <1>3, <2>2
    <3>2. QED
      BY <1>3, <2>2, <3>1
  <2>3. QED
    BY <2>1, <2>2
<1>5. Distinct(vols')
  <2> SUFFICES ASSUME NEW j \in 1 .. Len(vols'), NEW k \in 1 .. Len(vols'),
                      vols'[j] = vols'[k]
               PROVE  j = k
    BY DEF Distinct
  <2>1. \A m, n \in 1 .. Len(vols) : vols[m] = vols[n] => m = n
    BY DEF PreflightInv, OrderInv, Distinct
  <2>2. j = i <=> vols'[j] = v
    BY <1>2, <1>3, <1>4
  <2>3. k = i <=> vols'[k] = v
    BY <1>2, <1>3, <1>4
  <2>4. CASE j # i /\ k # i
    <3>1. PICK m \in 1 .. Len(vols) :
            vols'[j] = vols[m] /\ j = IF m < i THEN m ELSE m + 1
      BY <1>2, <1>4, <2>4
    <3>2. PICK n \in 1 .. Len(vols) :
            vols'[k] = vols[n] /\ k = IF n < i THEN n ELSE n + 1
      BY <1>2, <1>4, <2>4
    <3>3. QED
      BY <2>1, <3>1, <3>2
  <2>5. QED
    BY <2>2, <2>3, <2>4
<1>6. ToSet(vols) \subseteq ToSet(vols')
  <2>1. ASSUME NEW j \in 1 .. Len(vols) PROVE vols[j] \in ToSet(vols')
    <3>1. CASE j < i
      <4>1. j \in 1 .. Len(vols') /\ vols'[j] = vols[j]
        BY <1>2, <1>3, <3>1
      <4>2. QED
        BY <1>3, <4>1 DEF ToSet
    <3>2. CASE ~(j < i)
      <4>1. /\ j + 1 \in 1 .. Len(vols') /\ j + 1 \in i + 1 .. Len(vols) + 1
            /\ (j + 1) - 1 = j
        BY <1>2, <1>3, <3>2
      <4>2. vols'[j + 1] = vols[j]
        BY <1>3, <4>1
      <4>3. vols'[j + 1] \in ToSet(vols')
        BY <1>3, <4>1, InToSet
      <4>4. QED
        BY <4>2, <4>3
    <3>3. QED
      BY <3>1, <3>2
  <2>2. QED
    BY <1>2, <2>1 DEF ToSet
<1>7. TypeOK' /\ OrderInv'
  BY <1>1, <1>3, <1>5, <1>6 DEF PreflightInv, TypeOK, OrderInv
<1>8. ASSUME NEW T, T \subseteq ToSet(vols), token \in Nat,
             \A j \in 1 .. Len(vols) : vols[j] \in T => token < j,
             NEW j \in 1 .. Len(vols'), vols'[j] \in T
      PROVE  token < j
  <2>1. j # i
    BY <1>1, <1>3, <1>8
  <2>2. QED
    BY <1>2, <1>4, <1>8, <2>1
<1>9. pc = "rebuild" /\ ~shifted =>
        \A j \in 1 .. Len(vols') : vols'[j] \in steady => token < j
  BY <1>8 DEF PreflightInv, ScanInv, OrderInv
<1>10. pc = "single" /\ ~shifted =>
         \A j \in 1 .. Len(vols') : vols'[j] \in steady \ found => token < j
  <2>1. pc = "single" => token \in Nat /\ steady \ found \subseteq ToSet(vols)
    BY DEF PreflightInv, ScanInv
  <2>2. QED
    BY <1>8, <2>1 DEF PreflightInv, ScanInv
<1>11. ScanInv'
  BY <1>1, <1>6, <1>9, <1>10 DEF PreflightInv, ScanInv
<1>12. QED
  BY <1>7, <1>11 DEF PreflightInv

(* A volume that is deleted: the scan is marked as disturbed. *)
LEMMA DeleteKeeps ==
  ASSUME PreflightInv, NEW v \in Vols, DeleteVolume(v), changes' \in 0 .. MaxChanges
  PROVE  PreflightInv'
<1> USE DEF PreflightInv
<1>1. /\ rebuilding' = rebuilding \ {v} /\ steady' = steady \ {v} /\ shifted' = TRUE
      /\ UNCHANGED <<flags, self, rel, pc, token, found, cordon>>
  BY DEF DeleteVolume, Changes
<1>2. PICK i \in DOMAIN vols : vols[i] = v /\ vols' = RemoveAt(vols, i)
  BY DEF DeleteVolume
<1>3. vols \in Seq(Vols) /\ Len(vols) \in Nat /\ i \in 1 .. Len(vols)
  BY DEF TypeOK
<1>4. /\ vols' \in Seq(Vols) /\ Len(vols') = Len(vols) - 1
      /\ \A j \in 1 .. i - 1 : vols'[j] = vols[j]
      /\ \A j \in i .. Len(vols) - 1 : vols'[j] = vols[j + 1]
  <2> DEFINE r == RemoveAt(vols, i)
  <2>1. vols \in Seq(Vols) /\ i \in 1 .. Len(vols)
    BY <1>3
  <2>2. /\ r \in Seq(Vols) /\ Len(r) = Len(vols) - 1
        /\ \A j \in 1 .. i - 1 : r[j] = vols[j]
        /\ \A j \in i .. Len(vols) - 1 : r[j] = vols[j + 1]
    BY <2>1, Removed
  <2>3. QED
    BY <1>2, <2>2
<1>5. \A j \in 1 .. Len(vols') :
        \/ j \in 1 .. Len(vols) /\ j < i /\ vols'[j] = vols[j]
        \/ j + 1 \in 1 .. Len(vols) /\ i <= j /\ vols'[j] = vols[j + 1]
  BY <1>3, <1>4
<1>6. Distinct(vols')
  BY <1>3, <1>4, <1>5 DEF Distinct, OrderInv
<1>7. ToSet(vols) \ {v} \subseteq ToSet(vols')
  <2>1. ASSUME NEW j \in 1 .. Len(vols), vols[j] # v PROVE vols[j] \in ToSet(vols')
    <3>1. j # i
      BY <1>2, <2>1
    <3>2. CASE j < i
      <4>1. j \in 1 .. Len(vols') /\ vols'[j] = vols[j]
        BY <1>3, <1>4, <3>2
      <4>2. QED
        BY <1>4, <4>1 DEF ToSet
    <3>3. CASE i < j
      <4>1. j - 1 \in i .. Len(vols) - 1 /\ j - 1 \in 1 .. Len(vols') /\ (j - 1) + 1 = j
        BY <1>3, <1>4, <3>3
      <4>2. vols'[j - 1] = vols[j]
        BY <1>4, <4>1
      <4>3. QED
        BY <1>4, <4>1, <4>2 DEF ToSet
    <3>4. QED
      BY <1>3, <3>1, <3>2, <3>3
  <2>2. QED
    BY <1>3, <2>1 DEF ToSet
<1>8. TypeOK' /\ OrderInv'
  BY <1>1, <1>4, <1>6, <1>7 DEF TypeOK, OrderInv
<1>9. ScanInv'
  BY <1>1, <1>7 DEF ScanInv
<1>10. QED
  BY <1>8, <1>9

(* A change of the cluster keeps the invariant. *)
LEMMA ChangeKeeps == PreflightInv /\ Change => PreflightInv'
<1> SUFFICES ASSUME PreflightInv, Change PROVE PreflightInv'
  OBVIOUS
<1>1. ASSUME Changes PROVE changes' \in 0 .. MaxChanges
  BY <1>1, SizesAssumption DEF Changes, PreflightInv, TypeOK
<1>2. ASSUME NEW v \in Vols, NEW i \in 1 .. Len(vols) + 1, CreateVolume(v, i)
      PROVE  PreflightInv'
  BY <1>1, <1>2, CreateKeeps DEF CreateVolume
<1>3. ASSUME NEW v \in Vols, DeleteVolume(v) PROVE PreflightInv'
  BY <1>1, <1>3, DeleteKeeps DEF DeleteVolume
<1> USE DEF PreflightInv, TypeOK, OrderInv, ScanInv
<1>4. ASSUME NEW v \in Vols, RebuildStarts(v) PROVE PreflightInv'
  <2>1. /\ UNCHANGED <<flags, self, rel, pc, token, found, vols, shifted, cordon, steady>>
        /\ changes' \in 0 .. MaxChanges
        /\ rebuilding' = rebuilding \cup {v} /\ v \in ToSet(vols)
    BY <1>1, <1>4 DEF RebuildStarts, Changes
  <2>2. QED
    BY <2>1, InPlaceKeeps
<1>5. ASSUME NEW v \in Vols, RebuildEnds(v) PROVE PreflightInv'
  <2>1. /\ UNCHANGED <<flags, self, rel, pc, token, found, vols, shifted, cordon>>
        /\ changes' \in 0 .. MaxChanges
        /\ rebuilding' = rebuilding \ {v}
        /\ steady' = IF pc = "rebuild" THEN steady \ {v} ELSE steady
    BY <1>1, <1>5 DEF RebuildEnds, Changes
  <2>2. QED
    BY <2>1, InPlaceKeeps
<1>6. ASSUME NEW n \in Nodes, CordonNode(n) PROVE PreflightInv'
  <2>1. /\ UNCHANGED <<flags, self, rel, pc, token, found, vols, shifted, rebuilding,
                       steady>>
        /\ changes' \in 0 .. MaxChanges
        /\ cordon' = [cordon EXCEPT ![n] = "cordoned"]
    BY <1>1, <1>6 DEF CordonNode, Changes
  <2>2. cordon' \in [Nodes -> {"none", "cordoned", "drained"}]
    BY <2>1
  <2>3. QED
    BY <2>1, <2>2, InPlaceKeeps
<1>7. QED
  BY <1>2, <1>3, <1>4, <1>5, <1>6 DEF Change

-----------------------------------------------------------------------------
(* The invariant holds throughout the checks. *)
THEOREM PreflightInvariance == Spec => []PreflightInv
<1>1. PreflightInv /\ [Next]_vars => PreflightInv'
  <2> SUFFICES ASSUME PreflightInv, [Next]_vars PROVE PreflightInv'
    OBVIOUS
  <2>1. CASE UNCHANGED vars
    BY <2>1 DEF vars, cluster, PreflightInv, TypeOK, OrderInv, ScanInv
  <2>2. QED
    BY <2>1, StepKeeps, ChangeKeeps DEF Next, Finished
<1>2. QED
  BY <1>1, PreflightInit, PTL DEF Spec

(* Type correctness. *)
THEOREM PreflightTypeCorrect == Spec => []TypeOK
<1>1. PreflightInv => TypeOK
  BY DEF PreflightInv
<1>2. QED
  BY <1>1, PreflightInvariance, PTL

(* A change of the cluster is not a step of the checks. *)
LEMMA ChangeKeepsPlace == Change \/ Finished \/ UNCHANGED vars => pc' = pc
  BY DEF Change, CreateVolume, DeleteVolume, RebuildStarts, RebuildEnds,
         CordonNode, Changes, Finished, vars

(* A rebuild that lasts through the scan is seen. *)
THEOREM RebuildIsSeen == Spec => RebuildNotOverlooked
<1> DEFINE A == pc = "rebuild" /\ pc' \notin {"rebuild", "refused"} /\ ~shifted
                  => steady = {}
<1>1. PreflightInv /\ [Next]_vars => [A]_vars
  <2> SUFFICES ASSUME PreflightInv, [Next]_vars, pc = "rebuild",
                      pc' \notin {"rebuild", "refused"}, ~shifted
               PROVE  steady = {}
    OBVIOUS
  <2>1. RebuildPage
    BY ChangeKeepsPlace
    DEF Next, Step, ReadRelease, ValidatePath, CheckCordoned, SinglePage,
        RequestFails, Finish
  <2>2. Page \cap rebuilding = {} /\ NextToken = NoToken
    BY <2>1 DEF RebuildPage, Finish
  <2>3. TypeOK /\ token \in Nat /\ Len(vols) \in Nat /\ PageSize \in Nat
    BY SizesAssumption DEF PreflightInv, ScanInv, TypeOK
  <2>4. SUFFICES ASSUME NEW v \in steady PROVE FALSE
    OBVIOUS
  <2>5. PICK i \in 1 .. Len(vols) : vols[i] = v
    BY DEF PreflightInv, ScanInv, OrderInv, ToSet, TypeOK
  <2>6. token < i
    BY <2>5 DEF PreflightInv, ScanInv
  <2>7. vols[i] \in Page
    BY <2>2, <2>3, <2>6, Pages
  <2>8. QED
    BY <2>2, <2>5, <2>7 DEF PreflightInv, ScanInv
<1>2. QED
  BY <1>1, PreflightInvariance, PTL DEF Spec, RebuildNotOverlooked

(* A single-replica volume that exists all through the scan is seen. *)
THEOREM SingleReplicaIsSeen == Spec => SingleReplicaNotOverlooked
<1> DEFINE A == pc = "single" /\ pc' = "passed" /\ ~shifted => steady = {}
<1>1. PreflightInv /\ [Next]_vars => [A]_vars
  <2> SUFFICES ASSUME PreflightInv, [Next]_vars, pc = "single", pc' = "passed",
                      ~shifted
               PROVE  steady = {}
    OBVIOUS
  <2>1. SinglePage
    BY ChangeKeepsPlace
    DEF Next, Step, ReadRelease, ValidatePath, CheckCordoned, RebuildPage,
        RequestFails, Finish
  <2>2. found = {} /\ Page \cap Single = {} /\ NextToken = NoToken
    BY <2>1 DEF SinglePage, Finish
  <2>3. TypeOK /\ token \in Nat /\ Len(vols) \in Nat /\ PageSize \in Nat
    BY SizesAssumption DEF PreflightInv, ScanInv, TypeOK
  <2>4. SUFFICES ASSUME NEW v \in steady PROVE FALSE
    OBVIOUS
  <2>5. PICK i \in 1 .. Len(vols) : vols[i] = v
    BY DEF PreflightInv, ScanInv, ToSet, TypeOK
  <2>6. token < i
    BY <2>2, <2>5 DEF PreflightInv, ScanInv
  <2>7. vols[i] \in Page
    BY <2>2, <2>3, <2>6, Pages
  <2>8. QED
    BY <2>2, <2>5, <2>7 DEF PreflightInv, ScanInv
<1>2. QED
  BY <1>1, PreflightInvariance, PTL DEF Spec, SingleReplicaNotOverlooked

(* The checks are bypassed only where the first key that is set turns Mayastor
   off, or none is set. *)
THEOREM BypassedOnlyWhenOff == Spec => OnlyBypassedWhenOff
<1> DEFINE A == pc = "release" /\ pc' = "passed" =>
                  LET keys == <<rel.configEngines, rel.configMayastor,
                                rel.valuesEngines, rel.valuesMayastor>>
                  IN  \A i \in 1 .. 4 :
                        keys[i] = "true" => \E j \in 1 .. i - 1 : keys[j] = "false"
<1>1. PreflightInv /\ [Next]_vars => [A]_vars
  <2> SUFFICES ASSUME PreflightInv, [Next]_vars, pc = "release", pc' = "passed"
               PROVE  A
    OBVIOUS
  <2> DEFINE keys == <<rel.configEngines, rel.configMayastor,
                       rel.valuesEngines, rel.valuesMayastor>>
  <2>1. ReadRelease
    BY ChangeKeepsPlace
    DEF Next, Step, ValidatePath, CheckCordoned, RebuildPage, SinglePage,
        RequestFails, Finish
  <2>2. ~mayastor_is_enabled
    BY <2>1 DEF ReadRelease, Finish
  <2>3. \A i \in 1 .. 4 : keys[i] \in Opt
    BY ReleasesAssumption DEF PreflightInv, TypeOK, HelmRelease
  <2>4. /\ keys[1] # "true"
        /\ keys[2] = "true" => keys[1] = "false"
        /\ keys[3] = "true" => keys[1] = "false" \/ keys[2] = "false"
        /\ keys[4] = "true" => keys[1] = "false" \/ keys[2] = "false" \/ keys[3] = "false"
    BY <2>2, <2>3 DEF mayastor_is_enabled, UnwrapOr, Opt
  <2> HIDE DEF keys
  <2>5. ASSUME NEW i \in 1 .. 4, keys[i] = "true"
        PROVE  \E j \in 1 .. i - 1 : keys[j] = "false"
    <3>1. i = 1 \/ i = 2 \/ i = 3 \/ i = 4
      OBVIOUS
    <3>2. QED
      BY <2>4, <2>5, <3>1
  <2>6. QED
    BY <2>5 DEF keys
<1>2. QED
  BY <1>1, PreflightInvariance, PTL DEF Spec, OnlyBypassedWhenOff

=============================================================================
