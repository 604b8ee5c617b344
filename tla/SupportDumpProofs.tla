-------------------------- MODULE SupportDumpProofs --------------------------
(***************************************************************************)
(* Proofs about SupportDump, for any number of failing calls and of pages: *)
(* every collector has its turn, no error is lost on its way to the        *)
(* caller, and a dump that reports success has collected everything.       *)
(***************************************************************************)
EXTENDS SupportDump, TLAPS

Engines == {"zfs", "lvm"}
Hows == {"call", "dir", "typed", "dynamic", "return"}
Collector == [part: Parts, how: Hows]

(* The places in Plan at which the function p runs, its callees included. *)
Span(p) == IF p = "zfsSnap" THEN 10 .. 13 ELSE IF p = "zfs" THEN 4 .. 14
           ELSE IF p = "lvmSnap" THEN 19 .. 22 ELSE IF p = "lvm" THEN 15 .. 23
           ELSE 1 .. 24

-----------------------------------------------------------------------------
(* The plan *)

(* What two lists make, one after the other. *)
LEMMA TwoLists ==
  ASSUME NEW S, NEW s \in Seq(S), NEW t \in Seq(S), NEW r, r = s \o t
  PROVE  /\ r \in Seq(S) /\ Len(r) = Len(s) + Len(t)
         /\ \A i \in 1 .. Len(s) : r[i] = s[i]
         /\ \A i \in 1 .. Len(t) : r[Len(s) + i] = t[i]
  OBVIOUS

(* What three lists make, one after the other. *)
LEMMA ThreeLists ==
  ASSUME NEW S, NEW s \in Seq(S), NEW t \in Seq(S), NEW u \in Seq(S),
         NEW r, r = (s \o t) \o u
  PROVE  /\ r \in Seq(S)
         /\ Len(r) = Len(s) + Len(t) + Len(u)
         /\ \A i \in 1 .. Len(s) : r[i] = s[i]
         /\ \A i \in 1 .. Len(t) : r[Len(s) + i] = t[i]
         /\ \A i \in 1 .. Len(u) : r[Len(s) + Len(t) + i] = u[i]
<1>1. /\ s \o t \in Seq(S) /\ Len(s \o t) = Len(s) + Len(t)
      /\ \A i \in 1 .. Len(s) : (s \o t)[i] = s[i]
      /\ \A i \in 1 .. Len(t) : (s \o t)[Len(s) + i] = t[i]
  BY TwoLists
<1>2. /\ r \in Seq(S) /\ Len(r) = Len(s \o t) + Len(u)
      /\ \A i \in 1 .. Len(s \o t) : r[i] = (s \o t)[i]
      /\ \A i \in 1 .. Len(u) : r[Len(s \o t) + i] = u[i]
  BY <1>1
<1>3. QED
  BY <1>1, <1>2

(* The collectors of dump_zfs_vscont_and_vs_class and its twin. *)
LEMMA SnapCollectors ==
  ASSUME NEW p \in Parts
  PROVE  LET s == dump_vscont_and_vs_class(p)
         IN  /\ s \in Seq(Collector) /\ Len(s) = 4
             /\ s[1] = Do(p, "dir") /\ s[2] = Do(p, "call")
             /\ s[3] = Do(p, "call") /\ s[4] = Do(p, "return")
<1>1. \A h \in Hows : Do(p, h) \in Collector
  BY DEF Do, Collector
<1>2. QED
  BY <1>1 DEF dump_vscont_and_vs_class, Hows

(* The collectors of zfs_dump, in their order. *)
LEMMA ZfsCollectors ==
  /\ zfs_dump \in Seq(Collector) /\ Len(zfs_dump) = 11
  /\ zfs_dump[1] = Do("zfs", "dir")
  /\ zfs_dump[2] = Do("zfs", "typed") /\ zfs_dump[3] = Do("zfs", "typed")
  /\ zfs_dump[4] = Do("zfs", "dynamic") /\ zfs_dump[5] = Do("zfs", "dynamic")
  /\ zfs_dump[6] = Do("zfs", "dynamic")
  /\ zfs_dump[7] = Do("zfsSnap", "dir") /\ zfs_dump[8] = Do("zfsSnap", "call")
  /\ zfs_dump[9] = Do("zfsSnap", "call") /\ zfs_dump[10] = Do("zfsSnap", "return")
  /\ zfs_dump[11] = Do("zfs", "return")
<1> DEFINE a == <<Do("zfs", "dir"), Do("zfs", "typed"), Do("zfs", "typed"),
                  Do("zfs", "dynamic"), Do("zfs", "dynamic"), Do("zfs", "dynamic")>>
           b == dump_vscont_and_vs_class("zfsSnap")
           c == <<Do("zfs", "return")>>
<1>0. \A h \in Hows : Do("zfs", h) \in Collector
  BY DEF Do, Collector, Parts
<1>1. /\ a \in Seq(Collector) /\ Len(a) = 6
      /\ a[1] = Do("zfs", "dir") /\ a[2] = Do("zfs", "typed")
      /\ a[3] = Do("zfs", "typed") /\ a[4] = Do("zfs", "dynamic")
      /\ a[5] = Do("zfs", "dynamic") /\ a[6] = Do("zfs", "dynamic")
  BY <1>0 DEF Hows
<1>2. /\ b \in Seq(Collector) /\ Len(b) = 4
      /\ b[1] = Do("zfsSnap", "dir") /\ b[2] = Do("zfsSnap", "call")
      /\ b[3] = Do("zfsSnap", "call") /\ b[4] = Do("zfsSnap", "return")
  BY SnapCollectors DEF Parts
<1>3. c \in Seq(Collector) /\ Len(c) = 1 /\ c[1] = Do("zfs", "return")
  BY <1>0 DEF Hows
<1>4. zfs_dump = (a \o b) \o c
  BY DEF zfs_dump
<1> HIDE DEF a, b, c
<1>5. /\ zfs_dump \in Seq(Collector)
      /\ Len(zfs_dump) = Len(a) + Len(b) + Len(c)
      /\ \A i \in 1 .. Len(a) : zfs_dump[i] = a[i]
      /\ \A i \in 1 .. Len(b) : zfs_dump[Len(a) + i] = b[i]
      /\ \A i \in 1 .. Len(c) : zfs_dump[Len(a) + Len(b) + i] = c[i]
  <2>1. a \in Seq(Collector) /\ b \in Seq(Collector) /\ c \in Seq(Collector)
    BY <1>1, <1>2, <1>3
  <2>2. QED
    BY <1>4, <2>1, ThreeLists
<1>6. /\ \A i \in 1 .. 6 : zfs_dump[i] = a[i]
      /\ zfs_dump[6 + 1] = b[1] /\ zfs_dump[6 + 2] = b[2]
      /\ zfs_dump[6 + 3] = b[3] /\ zfs_dump[6 + 4] = b[4]
      /\ zfs_dump[6 + 4 + 1] = c[1]
  BY <1>1, <1>2, <1>3, <1>5
<1>7. QED
  BY <1>1, <1>2, <1>3, <1>5, <1>6

(* The collectors of lvm_dump, in their order. *)
LEMMA LvmCollectors ==
  /\ lvm_dump \in Seq(Collector) /\ Len(lvm_dump) = 9
  /\ lvm_dump[1] = Do("lvm", "dir")
  /\ lvm_dump[2] = Do("lvm", "typed") /\ lvm_dump[3] = Do("lvm", "typed")
  /\ lvm_dump[4] = Do("lvm", "dynamic")
  /\ lvm_dump[5] = Do("lvmSnap", "dir") /\ lvm_dump[6] = Do("lvmSnap", "call")
  /\ lvm_dump[7] = Do("lvmSnap", "call") /\ lvm_dump[8] = Do("lvmSnap", "return")
  /\ lvm_dump[9] = Do("lvm", "return")
<1> DEFINE a == <<Do("lvm", "dir"), Do("lvm", "typed"), Do("lvm", "typed"),
                  Do("lvm", "dynamic")>>
           b == dump_vscont_and_vs_class("lvmSnap")
           c == <<Do("lvm", "return")>>
<1>0. \A h \in Hows : Do("lvm", h) \in Collector
  BY DEF Do, Collector, Parts
<1>1. /\ a \in Seq(Collector) /\ Len(a) = 4
      /\ a[1] = Do("lvm", "dir") /\ a[2] = Do("lvm", "typed")
      /\ a[3] = Do("lvm", "typed") /\ a[4] = Do("lvm", "dynamic")
  BY <1>0 DEF Hows
<1>2. /\ b \in Seq(Collector) /\ Len(b) = 4
      /\ b[1] = Do("lvmSnap", "dir") /\ b[2] = Do("lvmSnap", "call")
      /\ b[3] = Do("lvmSnap", "call") /\ b[4] = Do("lvmSnap", "return")
  BY SnapCollectors DEF Parts
<1>3. c \in Seq(Collector) /\ Len(c) = 1 /\ c[1] = Do("lvm", "return")
  BY <1>0 DEF Hows
<1>4. lvm_dump = (a \o b) \o c
  BY DEF lvm_dump
<1> HIDE DEF a, b, c
<1>5. /\ lvm_dump \in Seq(Collector)
      /\ Len(lvm_dump) = Len(a) + Len(b) + Len(c)
      /\ \A i \in 1 .. Len(a) : lvm_dump[i] = a[i]
      /\ \A i \in 1 .. Len(b) : lvm_dump[Len(a) + i] = b[i]
      /\ \A i \in 1 .. Len(c) : lvm_dump[Len(a) + Len(b) + i] = c[i]
  <2>1. a \in Seq(Collector) /\ b \in Seq(Collector) /\ c \in Seq(Collector)
    BY <1>1, <1>2, <1>3
  <2>2. QED
    BY <1>4, <2>1, ThreeLists
<1>6. /\ \A i \in 1 .. 4 : lvm_dump[i] = a[i]
      /\ lvm_dump[4 + 1] = b[1] /\ lvm_dump[4 + 2] = b[2]
      /\ lvm_dump[4 + 3] = b[3] /\ lvm_dump[4 + 4] = b[4]
      /\ lvm_dump[4 + 4 + 1] = c[1]
  BY <1>1, <1>2, <1>3, <1>5
<1>7. QED
  BY <1>1, <1>2, <1>3, <1>5, <1>6

(* The plan as a whole: what is called from where, and where each function makes
   its directory, lists and returns. *)
LEMMA Collectors ==
  /\ Last = 24
  /\ \A n \in 1 .. 24 :
       /\ Plan[n].part = IF n \in 1 .. 3 \cup {24} THEN "system"
                         ELSE IF n \in 10 .. 13 THEN "zfsSnap"
                         ELSE IF n \in 4 .. 14 THEN "zfs"
                         ELSE IF n \in 19 .. 22 THEN "lvmSnap" ELSE "lvm"
       /\ Plan[n].how = "dir" <=> n \in {4, 10, 15, 19}
       /\ Plan[n].how \in {"typed", "dynamic"} <=> n \in 5 .. 9 \cup 16 .. 18
       /\ Plan[n].how = "return" <=> n \in {13, 14, 22, 23, 24}
<1> DEFINE a == <<Do("system", "call"), Do("system", "call"), Do("system", "call")>>
           b == zfs_dump \o lvm_dump
           c == <<Do("system", "return")>>
<1>0. \A h \in Hows : Do("system", h) \in Collector
  BY DEF Do, Collector, Parts
<1>1. /\ a \in Seq(Collector) /\ Len(a) = 3
      /\ a[1] = Do("system", "call") /\ a[2] = Do("system", "call")
      /\ a[3] = Do("system", "call")
  BY <1>0 DEF Hows
<1>2. /\ b \in Seq(Collector) /\ Len(b) = 20
      /\ \A i \in 1 .. 11 : b[i] = zfs_dump[i]
      /\ \A i \in 1 .. 9 : b[11 + i] = lvm_dump[i]
  <2>1. /\ zfs_dump \in Seq(Collector) /\ Len(zfs_dump) = 11
        /\ lvm_dump \in Seq(Collector) /\ Len(lvm_dump) = 9
    BY ZfsCollectors, LvmCollectors
  <2>2. b = zfs_dump \o lvm_dump
    OBVIOUS
  <2> HIDE DEF a, b, c
  <2>3. /\ b \in Seq(Collector) /\ Len(b) = Len(zfs_dump) + Len(lvm_dump)
        /\ \A i \in 1 .. Len(zfs_dump) : b[i] = zfs_dump[i]
        /\ \A i \in 1 .. Len(lvm_dump) : b[Len(zfs_dump) + i] = lvm_dump[i]
    <3>1. zfs_dump \in Seq(Collector) /\ lvm_dump \in Seq(Collector)
      BY <2>1
    <3>2. QED
      BY <2>2, <3>1, TwoLists
  <2>4. QED
    BY <2>1, <2>3
<1>3. c \in Seq(Collector) /\ Len(c) = 1 /\ c[1] = Do("system", "return")
  BY <1>0 DEF Hows
<1>4. Plan = (a \o b) \o c
  BY DEF Plan
<1> HIDE DEF a, b, c
<1>5. /\ Plan \in Seq(Collector)
      /\ Len(Plan) = Len(a) + Len(b) + Len(c)
      /\ \A i \in 1 .. Len(a) : Plan[i] = a[i]
      /\ \A i \in 1 .. Len(b) : Plan[Len(a) + i] = b[i]
      /\ \A i \in 1 .. Len(c) : Plan[Len(a) + Len(b) + i] = c[i]
  <2>1. a \in Seq(Collector) /\ b \in Seq(Collector) /\ c \in Seq(Collector)
    BY <1>1, <1>2, <1>3
  <2>2. QED
    BY <1>4, <2>1, ThreeLists
<1>6. Len(a) = 3 /\ Len(b) = 20 /\ Len(c) = 1
  BY <1>1, <1>2, <1>3
<1>7. /\ Plan[1] = a[1] /\ Plan[2] = a[2] /\ Plan[3] = a[3]
      /\ \A i \in 1 .. 20 : Plan[3 + i] = b[i]
      /\ Plan[3 + 20 + 1] = c[1]
  BY <1>5, <1>6
<1>8. /\ \A i \in 1 .. 11 : Plan[3 + i] = zfs_dump[i]
      /\ \A i \in 1 .. 9 : Plan[3 + (11 + i)] = lvm_dump[i]
  <2>1. \A i \in 1 .. 11 : i \in 1 .. 20
    OBVIOUS
  <2>2. \A i \in 1 .. 9 : 11 + i \in 1 .. 20
    OBVIOUS
  <2>3. QED
    BY <1>2, <1>7, <2>1, <2>2
<1>9. /\ Plan[3 + 1] = zfs_dump[1] /\ Plan[3 + 2] = zfs_dump[2]
      /\ Plan[3 + 3] = zfs_dump[3] /\ Plan[3 + 4] = zfs_dump[4]
      /\ Plan[3 + 5] = zfs_dump[5] /\ Plan[3 + 6] = zfs_dump[6]
      /\ Plan[3 + 7] = zfs_dump[7] /\ Plan[3 + 8] = zfs_dump[8]
      /\ Plan[3 + 9] = zfs_dump[9] /\ Plan[3 + 10] = zfs_dump[10]
      /\ Plan[3 + 11] = zfs_dump[11]
  BY <1>8
<1>10. /\ Plan[3 + (11 + 1)] = lvm_dump[1] /\ Plan[3 + (11 + 2)] = lvm_dump[2]
       /\ Plan[3 + (11 + 3)] = lvm_dump[3] /\ Plan[3 + (11 + 4)] = lvm_dump[4]
       /\ Plan[3 + (11 + 5)] = lvm_dump[5] /\ Plan[3 + (11 + 6)] = lvm_dump[6]
       /\ Plan[3 + (11 + 7)] = lvm_dump[7] /\ Plan[3 + (11 + 8)] = lvm_dump[8]
       /\ Plan[3 + (11 + 9)] = lvm_dump[9]
  BY <1>8
<1>11. \A p, h : Do(p, h).part = p /\ Do(p, h).how = h
  BY DEF Do
<1>12. /\ \A n \in {1, 2, 3} : Plan[n].part = "system" /\ Plan[n].how = "call"
       /\ Plan[24].part = "system" /\ Plan[24].how = "return"
  <2>1. /\ Plan[1] = Do("system", "call") /\ Plan[2] = Do("system", "call")
        /\ Plan[3] = Do("system", "call") /\ Plan[24] = Do("system", "return")
    BY <1>1, <1>3, <1>7
  <2>2. QED
    BY <1>11, <2>1
<1>13. /\ Plan[4].part = "zfs" /\ Plan[4].how = "dir"
       /\ \A n \in {5, 6} : Plan[n].part = "zfs" /\ Plan[n].how = "typed"
       /\ \A n \in {7, 8, 9} : Plan[n].part = "zfs" /\ Plan[n].how = "dynamic"
       /\ Plan[10].part = "zfsSnap" /\ Plan[10].how = "dir"
       /\ \A n \in {11, 12} : Plan[n].part = "zfsSnap" /\ Plan[n].how = "call"
       /\ Plan[13].part = "zfsSnap" /\ Plan[13].how = "return"
       /\ Plan[14].part = "zfs" /\ Plan[14].how = "return"
  <2>1. /\ Plan[4] = zfs_dump[1] /\ Plan[5] = zfs_dump[2] /\ Plan[6] = zfs_dump[3]
        /\ Plan[7] = zfs_dump[4] /\ Plan[8] = zfs_dump[5] /\ Plan[9] = zfs_dump[6]
        /\ Plan[10] = zfs_dump[7] /\ Plan[11] = zfs_dump[8] /\ Plan[12] = zfs_dump[9]
        /\ Plan[13] = zfs_dump[10] /\ Plan[14] = zfs_dump[11]
    BY <1>9
  <2>2. QED
    BY <1>11, <2>1, ZfsCollectors
<1>14. /\ Plan[15].part = "lvm" /\ Plan[15].how = "dir"
       /\ \A n \in {16, 17} : Plan[n].part = "lvm" /\ Plan[n].how = "typed"
       /\ Plan[18].part = "lvm" /\ Plan[18].how = "dynamic"
       /\ Plan[19].part = "lvmSnap" /\ Plan[19].how = "dir"
       /\ \A n \in {20, 21} : Plan[n].part = "lvmSnap" /\ Plan[n].how = "call"
       /\ Plan[22].part = "lvmSnap" /\ Plan[22].how = "return"
       /\ Plan[23].part = "lvm" /\ Plan[23].how = "return"
  <2>1. /\ Plan[15] = lvm_dump[1] /\ Plan[16] = lvm_dump[2] /\ Plan[17] = lvm_dump[3]
        /\ Plan[18] = lvm_dump[4] /\ Plan[19] = lvm_dump[5] /\ Plan[20] = lvm_dump[6]
        /\ Plan[21] = lvm_dump[7] /\ Plan[22] = lvm_dump[8] /\ Plan[23] = lvm_dump[9]
    BY <1>10
  <2>2. QED
    BY <1>11, <2>1, LvmCollectors
<1>15. Last = 24
  BY <1>5, <1>6 DEF Last
<1>16. QED
  BY <1>12, <1>13, <1>14, <1>15

(* What is called from a function comes before it returns; only listings ask
   the API server for the objects of an engine. *)
LEMMA InSpan ==
  ASSUME NEW n \in 1 .. Last
  PROVE  /\ Plan[n].part \in Parts /\ n \in Span(Plan[n].part)
         /\ Plan[n].how \in {"typed", "dynamic"} => Plan[n].part \in Engines
  BY Collectors DEF Span, Parts, Engines

(* Functions go on until they return. *)
LEMMA FunctionGoesOn ==
  ASSUME NEW n \in 1 .. Last, NEW p \in Parts, n \in Span(p),
         Plan[n].how # "return" \/ Plan[n].part # p
  PROVE  n + 1 \in Span(p)
  BY Collectors DEF Span, Parts

(* The caller goes on when a function returns. *)
LEMMA CallerGoesOn ==
  ASSUME NEW n \in 1 .. Last, Plan[n].how = "return"
  PROVE  /\ Caller[Plan[n].part] \in Lists \ {Plan[n].part}
         /\ Caller[Plan[n].part] # "command" => n + 1 \in Span(Caller[Plan[n].part])
  BY Collectors DEF Span, Parts, Lists, Caller

(* The ? of create_directory_if_not_exist leads to its function's own return,
   and passes over nothing else. *)
LEMMA ReturnPlace ==
  ASSUME NEW n \in 1 .. Last, Plan[n].how = "dir"
  PROVE  /\ ReturnOf(n) \in n + 1 .. Last
         /\ \A m \in 1 .. Last : n < m /\ m < ReturnOf(n) => After(n, m)
         /\ \A p \in Parts : n \in Span(p) => ReturnOf(n) \in Span(p)
<1> USE Collectors
<1>1. n \in {4, 10, 15, 19}
  OBVIOUS
<1>2. CASE n = 4
  <2>1. ReturnOf(n) = 14
    BY <1>2 DEF ReturnOf
  <2>2. QED
    BY <1>2, <2>1 DEF Span, Parts, After, Caller
<1>3. CASE n = 10
  <2>1. ReturnOf(n) = 13
    BY <1>3 DEF ReturnOf
  <2>2. QED
    BY <1>3, <2>1 DEF Span, Parts, After, Caller
<1>4. CASE n = 15
  <2>1. ReturnOf(n) = 23
    BY <1>4 DEF ReturnOf
  <2>2. QED
    BY <1>4, <2>1 DEF Span, Parts, After, Caller
<1>5. CASE n = 19
  <2>1. ReturnOf(n) = 22
    BY <1>5 DEF ReturnOf
  <2>2. QED
    BY <1>5, <2>1 DEF Span, Parts, After, Caller
<1>6. QED
  BY <1>1, <1>2, <1>3, <1>4, <1>5

-----------------------------------------------------------------------------
(* The inductive invariant *)

(* What the collector that runs is doing. *)
StageInv ==
  /\ stage # "begin" => at \in 1 .. Last /\ Plan[at].how \in {"typed", "dynamic"}
  /\ stage = "list" => left >= 1
  /\ broken => stage = "write" /\ Plan[at].how = "dynamic"

(* An error of collector n is in the list of some function. *)
Noted(n) == \E p \in Lists : n \in errors[p]

(* n was passed over because a directory could not be made. *)
PassedOver(n) == \E m \in 1 .. Last : Noted(m) /\ Plan[m].how = "dir" /\ After(m, n)

(* What has become of the collectors. *)
GotInv ==
  \A n \in 1 .. Last :
    /\ at <= n => got[n] = "untried"
    /\ n < at /\ got[n] = "untried" => PassedOver(n)
    /\ got[n] = "unserved" => Plan[n].part \in Engines \ installed
    /\ got[n] = "truncated" => Plan[n].how = "dynamic"
    /\ got[n] = "skipped" => ~withLogs

(* Every error is in one of the lists; that of a function is empty unless the
   function runs. *)
ErrorInv ==
  /\ \A n \in 1 .. Last : got[n] = "missing" <=> Noted(n)
  /\ \A p \in Parts : errors[p] # {} => at \in Span(p)
  /\ \A p \in Lists : Archive \in errors[p] => p = "command" /\ outcome = "error"

(* What a successful end stands for. *)
OkInv == outcome = "ok" => at = Archive /\ errors["command"] = {} /\ archive /\ ~tmp

DumpInv == TypeOK /\ StageInv /\ GotInv /\ ErrorInv /\ OkInv

-----------------------------------------------------------------------------
(* How a collector ends: with its error pushed, or without one; after a failed
   directory the rest of the engine is passed over. *)
Ends ==
  /\ at \in 1 .. Last /\ Plan[at].how # "return" /\ outcome = "running"
  /\ \E g \in Got \ {"untried", "skipped"}, next \in at + 1 .. Archive :
       /\ Done(g, next)
       /\ next # at + 1 => /\ g = "missing" /\ Plan[at].how = "dir"
                           /\ next = ReturnOf(at)
       /\ IF g = "missing" THEN Push ELSE NoError
       /\ g = "truncated" => Plan[at].how = "dynamic"
       /\ g = "unserved" => Plan[at].part \in Engines \ installed
  /\ faults' \in 0 .. MaxFaults
  /\ UNCHANGED <<world, files, outcome>>

(* Wherever a collector ends, the invariant is kept. *)
LEMMA EndsKeeps == DumpInv /\ Ends => DumpInv'
<1> SUFFICES ASSUME DumpInv, Ends PROVE DumpInv'
  OBVIOUS
<1> USE DEF DumpInv, world, files
<1>1. PICK g \in Got \ {"untried", "skipped"}, next \in at + 1 .. Archive :
        /\ Done(g, next)
        /\ next # at + 1 => /\ g = "missing" /\ Plan[at].how = "dir"
                            /\ next = ReturnOf(at)
        /\ IF g = "missing" THEN Push ELSE NoError
        /\ g = "truncated" => Plan[at].how = "dynamic"
        /\ g = "unserved" => Plan[at].part \in Engines \ installed
  BY DEF Ends
<1>2. /\ at \in 1 .. Last /\ Plan[at].how # "return" /\ outcome = "running"
      /\ faults' \in 0 .. MaxFaults
      /\ UNCHANGED <<installed, withLogs, tmp, archive, outcome>>
  BY DEF Ends
<1>3. Last \in Nat /\ Archive = Last + 1
  BY Collectors DEF Archive
<1>4. /\ got' = [got EXCEPT ![at] = g] /\ at' = next
      /\ stage' = "begin" /\ left' = 0 /\ broken' = FALSE
  BY <1>1 DEF Done
<1>5. Plan[at].part \in Parts /\ at \in Span(Plan[at].part) /\ Parts \subseteq Lists
  BY <1>2, InSpan DEF Lists
<1>6. /\ errors' \in [Lists -> SUBSET (1 .. Archive)]
      /\ \A p \in Lists :
           errors'[p] = IF g = "missing" /\ p = Plan[at].part
                        THEN errors[p] \cup {at} ELSE errors[p]
  <2>1. CASE NoError
    BY <1>1, <2>1 DEF NoError, Push, TypeOK
  <2>2. CASE Push /\ g = "missing"
    <3>1. errors \in [Lists -> SUBSET (1 .. Archive)]
      BY DEF TypeOK
    <3>2. errors' = [errors EXCEPT ![Plan[at].part] = errors[Plan[at].part] \cup {at}]
      BY <2>2 DEF Push
    <3>3. at \in 1 .. Archive /\ Plan[at].part \in Lists
      BY <1>2, <1>3, <1>5
    <3>4. errors[Plan[at].part] \cup {at} \in SUBSET (1 .. Archive)
      BY <3>1, <3>3
    <3>5. QED
      BY <2>2, <3>1, <3>2, <3>3, <3>4
  <2>3. QED
    BY <1>1, <2>1, <2>2
<1>7. \A n : Noted(n)' <=> Noted(n) \/ (g = "missing" /\ n = at)
  BY <1>5, <1>6 DEF Noted
<1>8. TypeOK'
  <2>1. got' \in [1 .. Last -> Got]
    BY <1>4 DEF TypeOK
  <2>2. at' \in 0 .. Archive /\ left' \in 0 .. MaxPages
    BY <1>2, <1>3, <1>4, BoundsAssumption
  <2>3. QED
    BY <1>2, <1>4, <1>6, <2>1, <2>2 DEF TypeOK
<1>9. StageInv'
  BY <1>4 DEF StageInv
<1>10. GotInv'
  <2> SUFFICES ASSUME NEW n \in 1 .. Last
               PROVE  /\ at' <= n => got'[n] = "untried"
                      /\ n < at' /\ got'[n] = "untried" => PassedOver(n)'
                      /\ got'[n] = "unserved" => Plan[n].part \in Engines \ installed'
                      /\ got'[n] = "truncated" => Plan[n].how = "dynamic"
                      /\ got'[n] = "skipped" => ~withLogs'
    BY DEF GotInv
  <2>1. got'[n] = IF n = at THEN g ELSE got[n]
    BY <1>4 DEF TypeOK
  <2>2. PassedOver(n) => PassedOver(n)'
    BY <1>7 DEF PassedOver
  <2>3. ASSUME at < n, n < at' PROVE PassedOver(n)'
    <3>1. g = "missing" /\ Plan[at].how = "dir" /\ at' = ReturnOf(at)
      BY <1>1, <1>2, <1>3, <1>4, <2>3
    <3>2. After(at, n)
      BY <1>2, <2>3, <3>1, ReturnPlace
    <3>3. PICK m \in 1 .. Last : m = at
      BY <1>2
    <3>4. Noted(m)' /\ Plan[m].how = "dir" /\ After(m, n)
      BY <1>7, <3>1, <3>2, <3>3
    <3>5. QED
      BY <3>4 DEF PassedOver, After
  <2>4. at < at' /\ at' \in Nat /\ at \in Nat
    BY <1>1, <1>2, <1>3, <1>4
  <2>5. QED
    BY <1>1, <1>2, <1>3, <2>1, <2>2, <2>3, <2>4 DEF GotInv
<1>11. ErrorInv'
  <2>1. \A n \in 1 .. Last : got'[n] = "missing" <=> Noted(n)'
    <3>1. got[at] = "untried"
      BY <1>2, <1>3 DEF GotInv
    <3>2. QED
      BY <1>2, <1>4, <1>7, <3>1 DEF ErrorInv, TypeOK
  <2>2. ASSUME NEW p \in Parts, errors'[p] # {} PROVE at' \in Span(p)
    <3>1. at \in Span(p)
      BY <1>5, <1>6, <2>2 DEF ErrorInv
    <3>2. CASE next = at + 1
      BY <1>2, <1>4, <3>1, <3>2, FunctionGoesOn
    <3>3. CASE next # at + 1
      BY <1>1, <1>2, <1>4, <3>1, <3>3, ReturnPlace
    <3>4. QED
      BY <3>2, <3>3
  <2>3. ASSUME NEW p \in Lists, Archive \in errors'[p]
        PROVE  p = "command" /\ outcome' = "error"
    <3>1. at # Archive
      BY <1>2, <1>3
    <3>2. Archive \in errors[p]
      BY <1>6, <2>3, <3>1
    <3>3. QED
      BY <1>2, <3>2 DEF ErrorInv
  <2>4. QED
    BY <2>1, <2>2, <2>3 DEF ErrorInv
<1>12. OkInv'
  BY <1>2 DEF OkInv
<1>13. QED
  BY <1>8, <1>9, <1>10, <1>11, <1>12

(* A step that leaves what was collected and the errors as they are. *)
Stays ==
  /\ UNCHANGED <<at, got, errors, withLogs>>
  /\ installed' \subseteq installed
  /\ outcome' = "running" \/ outcome' = "interrupted"

(* Such a step has the errors and the collectors as they were. *)
LEMMA StaysKeeps ==
  ASSUME DumpInv, Stays, outcome = "running", TypeOK', StageInv'
  PROVE  DumpInv'
<1>1. \A n \in 1 .. Last : (PassedOver(n)' <=> PassedOver(n)) /\ (Noted(n)' <=> Noted(n))
  BY DEF Stays, PassedOver, Noted
<1>2. GotInv'
  BY <1>1 DEF DumpInv, GotInv, Stays
<1>3. ErrorInv'
  BY <1>1 DEF DumpInv, ErrorInv, Stays
<1>4. OkInv'
  BY DEF OkInv, Stays
<1>5. QED
  BY <1>2, <1>3, <1>4 DEF DumpInv

(* The steps that end a collector are the ways in which Ends says it may end. *)
LEMMA EndingSteps ==
  ASSUME DumpInv,
         \/ Collect \/ CreateDirectory \/ WriteFile
         \/ DumpDynamic /\ stage' # "list"
         \/ ListFails /\ Plan[at].how = "typed"
  PROVE  Ends
<1> USE DEF DumpInv
<1>1. Last \in Nat /\ Archive = Last + 1
  BY Collectors DEF Archive
<1>2. ASSUME NoFault \/ Fault PROVE faults' \in 0 .. MaxFaults
  BY <1>2, BoundsAssumption DEF NoFault, Fault, TypeOK
<1>3. ASSUME at \in 1 .. Last, outcome = "running", Plan[at].how # "return",
             Fault, Done("missing", at + 1), Push,
             UNCHANGED <<world, files, outcome>>
      PROVE  Ends
  <2>1. "missing" \in Got \ {"untried", "skipped"}
    BY DEF Got
  <2>2. at + 1 \in at + 1 .. Archive
    BY <1>1, <1>3
  <2>3. faults' \in 0 .. MaxFaults
    BY <1>2, <1>3
  <2>4. QED
    BY <1>3, <2>1, <2>2, <2>3 DEF Ends
<1>4. ASSUME at \in 1 .. Last, outcome = "running", Plan[at].how # "return",
             NEW g \in {"collected", "unserved", "truncated"},
             g = "truncated" => Plan[at].how = "dynamic",
             g = "unserved" => Plan[at].part \in Engines \ installed,
             NoFault, Done(g, at + 1), NoError,
             UNCHANGED <<world, files, outcome>>
      PROVE  Ends
  <2>1. g \in Got \ {"untried", "skipped"} /\ g # "missing"
    BY DEF Got
  <2>2. at + 1 \in at + 1 .. Archive
    BY <1>1, <1>4
  <2>3. faults' \in 0 .. MaxFaults
    BY <1>2, <1>4
  <2>4. QED
    BY <1>4, <2>1, <2>2, <2>3 DEF Ends
<1>5. CASE Collect
  <2>1. /\ at \in 1 .. Last /\ outcome = "running" /\ Plan[at].how # "return"
        /\ UNCHANGED <<world, files, outcome>>
    BY <1>5 DEF Collect, How
  <2>2. QED
    BY <1>3, <1>4, <1>5, <2>1 DEF Collect
<1>6. CASE CreateDirectory
  <2>1. /\ at \in 1 .. Last /\ outcome = "running" /\ Plan[at].how = "dir"
        /\ UNCHANGED <<world, files, outcome>>
    BY <1>6 DEF CreateDirectory, How
  <2>2. CASE NoFault /\ Done("collected", at + 1) /\ NoError
    BY <1>4, <2>1, <2>2
  <2>3. CASE Fault /\ Done("missing", ReturnOf(at)) /\ Push
    <3>1. ReturnOf(at) \in at + 1 .. Archive
      BY <1>1, <2>1, ReturnPlace
    <3>2. faults' \in 0 .. MaxFaults
      BY <1>2, <2>3
    <3>3. "missing" \in Got \ {"untried", "skipped"}
      BY DEF Got
    <3>4. QED
      BY <2>1, <2>3, <3>1, <3>2, <3>3 DEF Ends
  <2>4. QED
    BY <1>6, <2>2, <2>3 DEF CreateDirectory
<1>7. CASE WriteFile
  <2>1. /\ at \in 1 .. Last /\ Plan[at].how # "return" /\ outcome = "running"
        /\ broken => Plan[at].how = "dynamic"
        /\ UNCHANGED <<world, files, outcome>>
    BY <1>7 DEF WriteFile, StageInv
  <2>2. CASE NoFault /\ NoError
             /\ Done(IF broken THEN "truncated" ELSE "collected", at + 1)
    BY <1>4, <2>1, <2>2
  <2>3. CASE Fault /\ Done("missing", at + 1) /\ Push
    BY <1>3, <2>1, <2>3
  <2>4. QED
    BY <1>7, <2>2, <2>3 DEF WriteFile
<1>8. CASE DumpDynamic /\ stage' # "list"
  <2>1. /\ at \in 1 .. Last /\ outcome = "running" /\ Plan[at].how = "dynamic"
        /\ UNCHANGED <<world, files, outcome>>
    BY <1>8 DEF DumpDynamic, How
  <2>2. \/ /\ NoFault /\ Done("unserved", at + 1) /\ NoError
           /\ Plan[at].part \in Engines \ installed
        \/ Fault /\ Done("missing", at + 1) /\ Push
    BY <1>8, <2>1, InSpan DEF DumpDynamic, BeginList
  <2>3. QED
    BY <1>3, <1>4, <2>1, <2>2
<1>9. CASE ListFails /\ Plan[at].how = "typed"
  <2>1. /\ at \in 1 .. Last /\ outcome = "running" /\ Plan[at].how = "typed"
        /\ UNCHANGED <<world, files, outcome>>
    BY <1>9 DEF ListFails, StageInv
  <2>2. \/ /\ NoFault /\ Done("unserved", at + 1) /\ NoError
           /\ Plan[at].part \in Engines \ installed
        \/ Fault /\ Done("missing", at + 1) /\ Push
    BY <1>9, <2>1, InSpan DEF ListFails
  <2>3. QED
    BY <1>3, <1>4, <2>1, <2>2
<1>10. QED
  BY <1>5, <1>6, <1>7, <1>8, <1>9

(* A function returns: its errors join those of its caller. *)
LEMMA ReturnKeeps == DumpInv /\ ReturnErrors => DumpInv'
<1> SUFFICES ASSUME DumpInv, ReturnErrors PROVE DumpInv'
  OBVIOUS
<1> USE DEF DumpInv
<1> DEFINE part == Plan[at].part
           up == Caller[Plan[at].part]
<1>1. /\ at \in 1 .. Last /\ Plan[at].how = "return" /\ outcome = "running"
      /\ got' = [got EXCEPT ![at] = "collected"] /\ at' = at + 1
      /\ stage' = "begin" /\ left' = 0 /\ broken' = FALSE
      /\ errors' = [errors EXCEPT ![part] = {}, ![up] = @ \cup errors[part]]
      /\ UNCHANGED <<installed, withLogs, tmp, archive, faults, outcome>>
  BY DEF ReturnErrors, How, Done, world, files
<1>2. Last \in Nat /\ Archive = Last + 1
  BY Collectors DEF Archive
<1>3. /\ part \in Parts /\ Parts \subseteq Lists
      /\ up \in Lists /\ up # part
      /\ up # "command" => at + 1 \in Span(up)
  BY <1>1, InSpan, CallerGoesOn DEF Lists
<1> HIDE DEF part, up
<1>4. /\ errors' \in [Lists -> SUBSET (1 .. Archive)]
      /\ \A p \in Lists :
           errors'[p] = IF p = part THEN {}
                        ELSE IF p = up THEN errors[up] \cup errors[part] ELSE errors[p]
  BY <1>1, <1>3 DEF TypeOK
<1>5. \A n : Noted(n)' <=> Noted(n)
  BY <1>3, <1>4 DEF Noted
<1>6. TypeOK'
  <2>1. got' \in [1 .. Last -> Got]
    BY <1>1 DEF TypeOK, Got
  <2>2. at' \in 0 .. Archive /\ left' \in 0 .. MaxPages
    BY <1>1, <1>2, BoundsAssumption
  <2>3. QED
    BY <1>1, <1>4, <2>1, <2>2 DEF TypeOK
<1>7. StageInv'
  BY <1>1 DEF StageInv
<1>8. \A n \in 1 .. Last : PassedOver(n)' <=> PassedOver(n)
  BY <1>5 DEF PassedOver
<1>9. \A n \in 1 .. Last : got'[n] = IF n = at THEN "collected" ELSE got[n]
  BY <1>1 DEF TypeOK
<1>10. GotInv'
  BY <1>1, <1>2, <1>8, <1>9 DEF GotInv
<1>11. got[at] = "untried"
  BY <1>1, <1>2 DEF GotInv
<1>12. ErrorInv'
  <2>1. \A n \in 1 .. Last : got'[n] = "missing" <=> Noted(n)'
    BY <1>5, <1>9, <1>11 DEF ErrorInv
  <2>2. ASSUME NEW p \in Parts, errors'[p] # {} PROVE at' \in Span(p)
    <3>1. p # part /\ p # "command"
      BY <1>3, <1>4, <2>2 DEF Parts
    <3>2. CASE p = up
      BY <1>1, <1>3, <3>1, <3>2
    <3>3. CASE p # up
      <4>1. at \in Span(p)
        BY <1>3, <1>4, <2>2, <3>1, <3>3 DEF ErrorInv
      <4>2. QED
        BY <1>1, <3>1, <4>1, FunctionGoesOn DEF part
    <3>4. QED
      BY <3>2, <3>3
  <2>3. \A p \in Lists : Archive \notin errors'[p]
    BY <1>1, <1>3, <1>4 DEF ErrorInv
  <2>4. QED
    BY <2>1, <2>2, <2>3 DEF ErrorInv
<1>13. OkInv'
  BY <1>1 DEF OkInv
<1>14. QED
  BY <1>6, <1>7, <1>10, <1>12, <1>13

(* The archive is filled, or is not: everything has been collected before. *)
LEMMA ArchiveKeeps == DumpInv /\ FillArchive => DumpInv'
<1> SUFFICES ASSUME DumpInv, FillArchive PROVE DumpInv'
  OBVIOUS
<1> USE DEF DumpInv
<1>1. /\ at = Archive /\ outcome = "running"
      /\ UNCHANGED <<installed, withLogs, at, stage, left, broken, got>>
      /\ outcome' = IF errors'["command"] = {} THEN "ok" ELSE "error"
  BY DEF FillArchive, world
<1>2. Last \in Nat /\ Archive = Last + 1
  BY Collectors DEF Archive
<1>3. faults' \in 0 .. MaxFaults
  BY BoundsAssumption DEF FillArchive, NoFault, Fault, TypeOK
<1>4. /\ errors' \in [Lists -> SUBSET (1 .. Archive)]
      /\ \A p \in Lists : /\ errors[p] \subseteq errors'[p]
                          /\ errors'[p] \subseteq errors[p] \cup {Archive}
                          /\ p # "command" => errors'[p] = errors[p]
      /\ archive' \in BOOLEAN /\ tmp' \in BOOLEAN
      /\ errors'["command"] = {} => archive' /\ ~tmp'
  <2>1. "command" \in Lists
    BY DEF Lists
  <2>2. CASE archive' = TRUE /\ tmp' = FALSE /\ UNCHANGED errors
    BY <2>2 DEF TypeOK
  <2>3. CASE /\ archive' \in BOOLEAN /\ UNCHANGED tmp
             /\ errors' = [errors EXCEPT !["command"] = @ \cup {Archive}]
    BY <1>2, <2>1, <2>3 DEF TypeOK
  <2>4. QED
    BY <2>2, <2>3 DEF FillArchive
<1>5. TypeOK'
  BY <1>1, <1>3, <1>4 DEF TypeOK
<1>6. StageInv'
  BY <1>1 DEF StageInv
<1>7. \A n \in 1 .. Last : Noted(n)' <=> Noted(n)
  BY <1>2, <1>4 DEF Noted
<1>8. \A n \in 1 .. Last : PassedOver(n)' <=> PassedOver(n)
  BY <1>7 DEF PassedOver
<1>9. GotInv'
  BY <1>1, <1>8 DEF GotInv
<1>10. ErrorInv'
  <2>1. \A p \in Parts : p \in Lists /\ p # "command"
    BY DEF Parts, Lists
  <2>2. ASSUME NEW p \in Lists, Archive \in errors'[p]
        PROVE  p = "command" /\ outcome' = "error"
    BY <1>1, <1>4, <2>2 DEF ErrorInv
  <2>3. QED
    BY <1>1, <1>4, <1>7, <2>1, <2>2 DEF ErrorInv
<1>11. OkInv'
  BY <1>1, <1>4 DEF OkInv
<1>12. QED
  BY <1>5, <1>6, <1>9, <1>10, <1>11

(* The invariant holds at the start. *)
LEMMA DumpInit == Init => DumpInv
<1> SUFFICES ASSUME Init PROVE DumpInv
  OBVIOUS
<1>1. Last \in Nat /\ Archive = Last + 1
  BY Collectors DEF Archive
<1>2. TypeOK
  <2>1. got \in [1 .. Last -> Got]
    BY DEF Init, Got
  <2>2. at \in 0 .. Archive /\ left \in 0 .. MaxPages /\ faults \in 0 .. MaxFaults
    BY <1>1, BoundsAssumption DEF Init
  <2>3. errors \in [Lists -> SUBSET (1 .. Archive)]
    BY DEF Init
  <2>4. QED
    BY <2>1, <2>2, <2>3 DEF Init, TypeOK
<1>3. StageInv /\ GotInv /\ ErrorInv /\ OkInv
  <2>1. \A p \in Lists : errors[p] = {}
    BY DEF Init
  <2>2. ErrorInv
    BY <2>1 DEF Init, ErrorInv, Noted, Lists
  <2>3. QED
    BY <1>1, <2>2 DEF Init, StageInv, GotInv, OkInv
<1>4. QED
  BY <1>2, <1>3 DEF DumpInv

(* get_or_panic_system_dumper starts the dump with the first collector, or with
   the second if there are to be no logs. *)
LEMMA BuildKeeps == DumpInv /\ BuildDumper => DumpInv'
<1> SUFFICES ASSUME DumpInv, BuildDumper PROVE DumpInv'
  OBVIOUS
<1> USE DEF DumpInv
<1>1. /\ at = 0 /\ outcome = "running"
      /\ UNCHANGED <<installed, withLogs, archive, stage, left, broken, errors>>
  BY DEF BuildDumper, world
<1>2. Last = 24 /\ Archive = Last + 1
  BY Collectors DEF Archive
<1>3. faults' \in 0 .. MaxFaults
  BY BoundsAssumption DEF BuildDumper, NoFault, Fault, TypeOK
<1>4. stage = "begin" /\ ~broken
  BY <1>1, <1>2 DEF StageInv
<1>5. \A n \in 1 .. Last : got[n] = "untried"
  BY <1>1, <1>2 DEF GotInv
<1>6. /\ \A p \in Parts : errors[p] = {} /\ errors'[p] = {}
      /\ \A n \in 1 .. Last : ~Noted(n) /\ ~Noted(n)'
      /\ \A p \in Lists : Archive \notin errors'[p]
  <2>1. \A p \in Parts : 0 \notin Span(p)
    BY DEF Span
  <2>2. \A n \in 1 .. Last : ~Noted(n)
    BY <1>5 DEF ErrorInv
  <2>3. \A n \in 1 .. Last : Noted(n)' <=> Noted(n)
    BY <1>1 DEF Noted
  <2>4. QED
    BY <1>1, <2>1, <2>2, <2>3 DEF ErrorInv
<1>7. CASE UNCHANGED outcome
  <2>1. /\ at' = IF withLogs THEN 1 ELSE 2
        /\ got' = [got EXCEPT ![1] = IF withLogs THEN @ ELSE "skipped"]
        /\ tmp' = TRUE
    BY <1>1, <1>7 DEF BuildDumper
  <2>2. /\ got' \in [1 .. Last -> Got]
        /\ \A n \in 1 .. Last :
             got'[n] = IF n = 1 /\ ~withLogs THEN "skipped" ELSE "untried"
    BY <1>2, <1>5, <2>1 DEF TypeOK, Got
  <2>3. at' \in 0 .. Archive
    BY <1>2, <2>1
  <2>4. TypeOK'
    BY <1>1, <1>3, <1>7, <2>1, <2>2, <2>3 DEF TypeOK
  <2>5. StageInv' /\ ErrorInv' /\ OkInv'
    BY <1>1, <1>2, <1>4, <1>6, <1>7, <2>2 DEF StageInv, ErrorInv, OkInv
  <2>6. GotInv'
    BY <1>1, <1>2, <2>1, <2>2 DEF GotInv
  <2>7. QED
    BY <2>4, <2>5, <2>6
<1>8. CASE outcome' = "error" /\ UNCHANGED <<tmp, at, got>>
  <2>1. TypeOK'
    BY <1>1, <1>3, <1>8 DEF TypeOK
  <2>2. StageInv' /\ ErrorInv' /\ OkInv'
    BY <1>1, <1>2, <1>4, <1>5, <1>6, <1>8 DEF StageInv, ErrorInv, OkInv
  <2>3. GotInv'
    BY <1>1, <1>2, <1>5, <1>8 DEF GotInv
  <2>4. QED
    BY <2>1, <2>2, <2>3
<1>9. QED
  BY <1>7, <1>8 DEF BuildDumper

(* Every step of the dump keeps the invariant. *)
LEMMA DumpNext == DumpInv /\ [Next]_vars => DumpInv'
<1> SUFFICES ASSUME DumpInv, [Next]_vars PROVE DumpInv'
  OBVIOUS
<1> USE DEF DumpInv
<1>1. CASE \/ Collect \/ CreateDirectory \/ WriteFile
           \/ DumpDynamic /\ stage' # "list"
           \/ ListFails /\ Plan[at].how = "typed"
  BY <1>1, EndingSteps, EndsKeeps
<1>2. CASE (DumpTyped \/ DumpDynamic) /\ stage' = "list"
  <2>1. /\ at \in 1 .. Last /\ Plan[at].how \in {"typed", "dynamic"}
        /\ outcome = "running" /\ stage = "begin" /\ BeginList
        /\ UNCHANGED <<world, files, outcome>>
    BY <1>2 DEF DumpTyped, DumpDynamic, How, Done
  <2>2. TypeOK' /\ StageInv' /\ Stays
    BY <2>1, BoundsAssumption
    DEF BeginList, NoFault, NoError, world, files, TypeOK, StageInv, Stays
  <2>3. QED
    BY <2>1, <2>2, StaysKeeps
<1>3. CASE ListPage
  <2>1. left - 1 \in 0 .. MaxPages /\ (left # 1 => left - 1 >= 1)
    BY <1>3, BoundsAssumption DEF ListPage, TypeOK, StageInv
  <2>2. TypeOK' /\ StageInv' /\ Stays /\ outcome = "running"
    BY <1>3, <2>1 DEF ListPage, world, files, TypeOK, StageInv, Stays
  <2>3. QED
    BY <2>2, StaysKeeps
<1>4. CASE ListFails /\ Plan[at].how # "typed"
  <2>1. faults' \in 0 .. MaxFaults
    BY <1>4, BoundsAssumption DEF ListFails, NoFault, Fault, TypeOK
  <2>2. TypeOK' /\ StageInv' /\ Stays /\ outcome = "running"
    BY <1>4, <2>1
    DEF ListFails, BreakOff, NoError, world, files, TypeOK, StageInv, Stays
  <2>3. QED
    BY <2>2, StaysKeeps
<1>5. CASE Interrupt
  <2>1. TypeOK' /\ StageInv' /\ Stays /\ outcome = "running"
    BY <1>5 DEF Interrupt, world, files, collecting, TypeOK, StageInv, Stays
  <2>2. QED
    BY <2>1, StaysKeeps
<1>6. ASSUME NEW e \in installed, Uninstall(e) PROVE DumpInv'
  <2>1. TypeOK' /\ StageInv' /\ Stays /\ outcome = "running"
    BY <1>6 DEF Uninstall, files, collecting, TypeOK, StageInv, Stays
  <2>2. QED
    BY <2>1, StaysKeeps
<1>7. CASE UNCHANGED vars
  BY <1>7 DEF vars, world, files, collecting, TypeOK, StageInv, GotInv,
              PassedOver, Noted, ErrorInv, OkInv
<1>8. DumpTyped => stage' = "list"
  BY DEF DumpTyped, BeginList
<1>9. ASSUME Step PROVE DumpInv'
  BY <1>1, <1>2, <1>3, <1>4, <1>8, <1>9, BuildKeeps, ReturnKeeps, ArchiveKeeps DEF Step
<1>10. QED
  BY <1>5, <1>6, <1>7, <1>9 DEF Next, Finished

-----------------------------------------------------------------------------
(* The invariant holds of every dump. *)
THEOREM DumpInvariance == Spec => []DumpInv
  BY DumpInit, DumpNext, PTL DEF Spec

(* Type correctness. *)
THEOREM DumpTypeCorrect == Spec => []TypeOK
<1>1. DumpInv => TypeOK
  BY DEF DumpInv
<1>2. QED
  BY <1>1, DumpInvariance, PTL

(* When the dump is over, what is left of the errors is in the command's list. *)
LEMMA OnlyCommandsList ==
  ASSUME DumpInv, at = Archive, NEW n \in 1 .. Last
  PROVE  Noted(n) <=> n \in errors["command"]
<1>1. Last = 24 /\ Archive = Last + 1
  BY Collectors DEF Archive
<1>2. \A p \in Parts : at \notin Span(p)
  BY <1>1 DEF Span
<1>3. \A p \in Parts : errors[p] = {}
  BY <1>2 DEF DumpInv, ErrorInv
<1>4. QED
  BY <1>3 DEF Noted, Lists

(* Every collector has its turn, or the directory it needed is among the errors
   that are returned. *)
THEOREM EveryoneIsTried == Spec => []EveryCollectorTried
<1>1. DumpInv => EveryCollectorTried
  <2> SUFFICES ASSUME DumpInv, Returned, NEW n \in 1 .. Last, got[n] = "untried"
               PROVE  \E m \in errors["command"] \ {Archive} :
                        Plan[m].how = "dir" /\ After(m, n)
    BY DEF EveryCollectorTried
  <2>1. Last \in Nat /\ Archive = Last + 1
    BY Collectors DEF Archive
  <2>2. PICK m \in 1 .. Last : Noted(m) /\ Plan[m].how = "dir" /\ After(m, n)
    BY <2>1 DEF Returned, DumpInv, GotInv, PassedOver
  <2>3. m \in errors["command"] /\ m # Archive
    BY <2>1, <2>2, OnlyCommandsList DEF Returned
  <2>4. QED
    BY <2>2, <2>3
<1>2. QED
  BY <1>1, DumpInvariance, PTL

(* A dump that returns Ok has collected everything that it could. *)
THEOREM OkIsComplete == Spec => []OkMeansCollected
<1>1. DumpInv => OkMeansCollected
  <2> SUFFICES ASSUME DumpInv, outcome = "ok" PROVE OkMeansCollected
    BY DEF OkMeansCollected
  <2>1. Last \in Nat /\ Archive = Last + 1
    BY Collectors DEF Archive
  <2>2. at = Archive /\ errors["command"] = {} /\ archive /\ ~tmp
    BY DEF DumpInv, OkInv
  <2>3. \A n \in 1 .. Last : ~Noted(n)
    BY <2>2, OnlyCommandsList
  <2>4. ASSUME NEW n \in 1 .. Last
        PROVE  \/ got[n] = "collected"
               \/ got[n] = "unserved" /\ Plan[n].part \in {"zfs", "lvm"} \ installed
               \/ got[n] = "truncated" /\ Plan[n].how = "dynamic"
               \/ got[n] = "skipped" /\ ~withLogs
    <3>1. n < at /\ ~PassedOver(n)
      BY <2>1, <2>2, <2>3 DEF PassedOver
    <3>2. got[n] # "missing" /\ got[n] # "untried"
      BY <2>3, <3>1 DEF DumpInv, ErrorInv, GotInv
    <3>3. got[n] \in Got
      BY DEF DumpInv, TypeOK
    <3>4. QED
      BY <3>2, <3>3 DEF DumpInv, GotInv, Got, Engines
  <2>5. QED
    BY <2>2, <2>4 DEF OkMeansCollected
<1>2. QED
  BY <1>1, DumpInvariance, PTL

(* The errors that the caller gets are those of the collectors that failed. *)
THEOREM NoErrorIsLost == Spec => []ErrorsReachCaller
<1>1. DumpInv => ErrorsReachCaller
  <2> SUFFICES ASSUME DumpInv, Returned
               PROVE  {n \in 1 .. Last : got[n] = "missing"} = errors["command"] \ {Archive}
    BY DEF ErrorsReachCaller
  <2>1. Last \in Nat /\ Archive = Last + 1
    BY Collectors DEF Archive
  <2>2. \A n \in 1 .. Last : got[n] = "missing" <=> n \in errors["command"]
    BY OnlyCommandsList DEF Returned, DumpInv, ErrorInv
  <2>3. errors["command"] \subseteq 1 .. Archive
    BY DEF DumpInv, TypeOK, Lists
  <2>4. \A m \in errors["command"] \ {Archive} : m \in 1 .. Last
    BY <2>1, <2>3
  <2>5. QED
    BY <2>1, <2>2, <2>4
<1>2. QED
  BY <1>1, DumpInvariance, PTL

=============================================================================
