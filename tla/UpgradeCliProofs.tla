-------------------------- MODULE UpgradeCliProofs --------------------------
(***************************************************************************)
(* Proofs about UpgradeCli, for any number of terminals, commands and      *)
(* kinds of objects, and for every list of --set-file arguments: what one  *)
(* call may rely on while others create, delete and retry beside it.       *)
(***************************************************************************)
EXTENDS UpgradeCli, FiniteSetTheorems, WellFoundedInduction, TLAPS

-----------------------------------------------------------------------------
(* The arguments of --set-file: any length, and paths and keys repeated in any
   way. *)

Less == {x \in Nat \X Nat : x[1] < x[2]}

(* The order on the natural numbers as a relation is well founded. *)
LEMMA LessWellFounded == IsWellFoundedOn(Less, Nat)
<1>1. OpToRel(<, Nat) = Less
  BY Zenon DEF OpToRel, Less
<1>2. QED
  BY <1>1, NatLessThanWellFounded

(* A non-empty set of numbers up to n has a greatest element. *)
LEMMA Greatest ==
  ASSUME NEW n \in Nat, NEW T, T \subseteq 1 .. n, T # {}
  PROVE  \E i \in T : \A j \in T : j <= i
<1> DEFINE D == {n - i : i \in T}
<1>1. D \subseteq Nat /\ D # {}
  <2>1. \A i \in T : i \in Nat /\ i <= n
    OBVIOUS
  <2>2. \A i \in T : n - i \in Nat
    BY <2>1
  <2>3. QED
    BY <2>2
<1>2. PICK d \in D : \A e \in D : ~(<<e, d>> \in Less)
  BY <1>1, LessWellFounded, WFMin
<1>3. PICK i \in T : d = n - i
  OBVIOUS
<1>4. ASSUME NEW j \in T PROVE j <= i
  <2>1. n - j \in D /\ n - j \in Nat /\ d \in Nat
    BY <1>1
  <2>2. ~(n - j < d)
    BY <1>2, <2>1 DEF Less
  <2>3. QED
    BY <2>2, <1>3
<1>5. QED
  BY <1>3, <1>4

(* The number that a path has in upgrade_map is the number of an argument with
   that path. *)
LEMMA NumberOfPath ==
  ASSUME NEW S, NEW args \in Seq(S), NEW i \in DOMAIN args
  PROVE  upgrade_map(args)[Path(args[i])] \in
           {j \in DOMAIN args : Path(args[j]) = Path(args[i])}
<1> DEFINE T == {j \in DOMAIN args : Path(args[j]) = Path(args[i])}
<1>1. DOMAIN args = 1 .. Len(args) /\ Len(args) \in Nat
  OBVIOUS
<1>2. T \subseteq 1 .. Len(args) /\ T # {}
  BY <1>1
<1>3. PICK k \in T : \A j \in T : j <= k
  BY <1>1, <1>2, Greatest
<1>4. upgrade_map(args)[Path(args[i])] =
        CHOOSE k1 \in DOMAIN args :
          /\ Path(args[k1]) = Path(args[i])
          /\ \A j \in DOMAIN args : Path(args[j]) = Path(args[i]) => j <= k1
  BY DEF upgrade_map
<1>5. \E k1 \in DOMAIN args :
          /\ Path(args[k1]) = Path(args[i])
          /\ \A j \in DOMAIN args : Path(args[j]) = Path(args[i]) => j <= k1
  BY <1>3
<1>6. QED
  BY <1>4, <1>5

(* With its own call's ConfigMap mounted, the Job reads every key of --set-file
   from the file given for that key. *)
THEOREM OwnFilesResolve ==
  ASSUME NEW S, NEW args \in Seq(S)
  PROVE  Resolves(args, args)
<1> SUFFICES ASSUME NEW i \in DOMAIN args
             PROVE  LET n == job_set_file_args(args)[i].file
                    IN  n \in DOMAIN config_map_data(args)
                        /\ config_map_data(args)[n] = Path(args[i])
  BY DEF Resolves
<1> DEFINE n == upgrade_map(args)[Path(args[i])]
<1>1. job_set_file_args(args)[i].file = n
  BY DEF job_set_file_args
<1>2. n \in DOMAIN args /\ Path(args[n]) = Path(args[i])
  BY NumberOfPath
<1>3. n \in DOMAIN config_map_data(args) /\ config_map_data(args)[n] = Path(args[n])
  BY <1>2 DEF config_map_data
<1>4. QED
  BY <1>1, <1>2, <1>3

-----------------------------------------------------------------------------
(* Calls beside one another *)

(* Steps of `kubectl openebs upgrade`. *)
Upgrading == {"preflight", "cleanup", "create", "createFailing", "poll"}
(* Steps at which requests may be on their way. *)
Requesting == {"create", "createFailing", "delete", "deleteFailing"}

(* What a call's step says of its command and of its requests. *)
ClientInv ==
  \A c \in Clients :
    /\ pc[c] \in Upgrading => op[c] = "upgrade"
    /\ pc[c] \notin Requesting => pend[c] = {}

(* Calls that may yet create an object of kind k. *)
MayCreate(k) ==
  {c \in Clients :
     \/ pc[c] \in {"preflight", "cleanup"}
     \/ pc[c] \in {"create", "createFailing"} /\ k \in pend[c]}

(* Each call creates at most one object of a kind. *)
CountInv ==
  \A k \in Kinds :
    /\ IsFiniteSet(MayCreate(k))
    /\ obj[k].gen + Cardinality(MayCreate(k)) <= calls

(* A kind whose create request was answered is there, unless it was found
   terminating when it was to be created, or was deleted since. *)
CreateInv ==
  \A c \in Clients :
    /\ pc[c] \in {"create", "poll"} =>
         \A k \in Kinds : obj[k].state = "terminating" => k \in gone[c]
    /\ pc[c] \in {"create", "poll"} =>
         \A k \in Kinds \ pend[c] : obj[k].state = "present" \/ k \in gone[c]

(* Events are numbered in the order they are published, and those of older
   upgrades went before the creates were sent. *)
EventInv ==
  /\ event.num <= evCount
  /\ \A c \in Clients :
       /\ evStart[c] <= evCount
       /\ c \in Creating /\ event # NoEvent => event.num > evStart[c]

(* A kind whose delete request was answered is gone or was created again. *)
DeleteInv ==
  \A c \in Clients :
    pc[c] = "delete" =>
      \A k \in Kinds :
        /\ before[c][k] <= obj[k].gen
        /\ k \notin pend[c] /\ obj[k].state = "present"
             => before[c][k] < obj[k].gen

(* The Job that a plain delete looked at stays a Job that succeeded. *)
SucceededInv ==
  \A c \in Clients :
    op[c] = "delete" /\ pc[c] \in {"delete", "deleteFailing"} =>
      /\ seen[c] <= obj["Job"].gen
      /\ obj["Job"].state # "absent" /\ obj["Job"].gen = seen[c]
           => jobStatus = "succeeded"

(* A Job is created only from arguments that could be taken apart. *)
FilesInv ==
  /\ jobCall # 0 => WellFormed(SetFile[jobCall])
  /\ \A c \in Clients :
       pc[c] \in {"create", "createFailing"} /\ pend[c] # {}
         => WellFormed(SetFile[call[c]])

-----------------------------------------------------------------------------
(* The call of c returns r; a delete that returns Ok has no request left. *)
Returns(c, r) ==
  /\ Return(c, r)
  /\ pc[c] # "idle"
  /\ pc[c] = "delete" /\ r = "ok" => pend[c] = {}

(* The call of c begins to delete: apply_upgrade after a failed validation, or
   a delete command after its check of the Job. *)
BeginsDelete(c) ==
  /\ BeginDelete(c)
  /\ \/ pc[c] = "poll" /\ event.action = "Validation Failed"
     \/ /\ pc[c] = "check"
        /\ obj["Job"].state # "absent"
        /\ jobStatus = "succeeded" \/ op[c] = "force"

ClientMove(c) ==
  \/ \E o \in Ops : Execute(c, o)
  \/ Preflight(c) \/ DeleteOlderUpgradeEvents(c)
  \/ \E k \in Kinds : CreateResource(c, k)
  \/ \E k \in Kinds : RequestFails(c, k)
  \/ \E k \in Kinds : DeleteResource(c, k)
  \/ ResourcesCreated(c) \/ PollAgain(c)
  \/ BeginsDelete(c)
  \/ \E r \in Result : Returns(c, r)

(* Every step of a call is one of these. *)
LEMMA ClientMoves ==
  ASSUME NEW c \in Clients,
         ClientStep(c) \/ Interrupt(c) \/ \E o \in Ops : Execute(c, o)
  PROVE  ClientMove(c)
<1>1. CASE HandleUpgradeEvent(c)
  BY <1>1 DEF HandleUpgradeEvent, ClientMove, BeginsDelete, Returns, Result
<1>2. CASE StopPolling(c) \/ ResourcesDeleted(c) \/ GetUpgradeStatus(c)
  BY <1>2 DEF StopPolling, ResourcesDeleted, GetUpgradeStatus, ClientMove,
              Returns, Result
<1>3. CASE CheckJob(c)
  BY <1>3 DEF CheckJob, ClientMove, BeginsDelete, Returns, Result,
              upgrade_job_completed
<1>4. CASE ReturnError(c) \/ Interrupt(c)
  BY <1>4 DEF ReturnError, Interrupt, ClientMove, Returns, Result
<1>5. QED
  BY <1>1, <1>2, <1>3, <1>4 DEF ClientStep, ClientMove

(* The steps of the system, with the ways a call returns taken together. *)
LEMMA Moves ==
  ASSUME [Next]_vars
  PROVE  \/ \E c \in Clients : ClientMove(c)
         \/ \E k \in Kinds : Collect(k)
         \/ SyncJob \/ JobStarts
         \/ \E s \in {"succeeded", "failed"} : JobEnds(s)
         \/ \E a \in JobActions : JobPublishes(a)
         \/ UNCHANGED vars
  BY ClientMoves DEF Next, JobStep, Environment, Quiet

(* The type invariant holds initially. *)
LEMMA TypeInit == Init => TypeOK
  BY BoundsAssumption
  DEF Init, TypeOK, ObjState, JobStatus, NoEvent, Steps, Result

(* So do the counts: nobody has sent a create request yet. *)
LEMMA CountInit == Init => CountInv
<1> SUFFICES ASSUME Init, NEW k \in Kinds
             PROVE  /\ IsFiniteSet(MayCreate(k))
                    /\ obj[k].gen + Cardinality(MayCreate(k)) <= calls
  BY DEF CountInv
<1>1. MayCreate(k) = {}
  BY DEF Init, MayCreate
<1>2. QED
  BY <1>1, FS_EmptySet DEF Init

(* A call that creates an object was counted among those that may. *)
LEMMA RoomForOneMore ==
  ASSUME TypeOK, CountInv, NEW k \in Kinds, NEW c \in MayCreate(k)
  PROVE  obj[k].gen + 1 <= calls /\ obj[k].gen + 1 \in 0 .. MaxCalls
<1>1. IsFiniteSet(MayCreate(k)) /\ Cardinality(MayCreate(k)) \in Nat
  BY FS_CardinalityType DEF CountInv
<1>2. Cardinality(MayCreate(k)) # 0
  BY <1>1, FS_EmptySet
<1>3. obj[k].gen \in Nat /\ calls \in 0 .. MaxCalls
  BY DEF TypeOK
<1>4. obj[k].gen + Cardinality(MayCreate(k)) <= calls
  BY DEF CountInv
<1>5. QED
  BY <1>1, <1>2, <1>3, <1>4, BoundsAssumption

(* An object whose state changes stays an object. *)
LEMMA StateSet ==
  ASSUME NEW N, NEW r \in [state: ObjState, gen: N], NEW s \in ObjState
  PROVE  [r EXCEPT !.state = s] \in [state: ObjState, gen: N]
  OBVIOUS

(* Every step keeps the type invariant. *)
LEMMA TypeNext == TypeOK /\ CountInv /\ [Next]_vars => TypeOK'
<1> SUFFICES ASSUME TypeOK, CountInv, [Next]_vars PROVE TypeOK'
  OBVIOUS
<1> USE BoundsAssumption
<1> USE DEF vars, cluster, clients, Goto, TypeOK
<1>1. ASSUME NEW c \in Clients, NEW o \in Ops, Execute(c, o) PROVE TypeOK'
  BY <1>1 DEF Execute, Steps, Result
<1>2. ASSUME NEW c \in Clients, Preflight(c) PROVE TypeOK'
  BY <1>2 DEF Preflight, Steps
<1>3. ASSUME NEW c \in Clients, DeleteOlderUpgradeEvents(c) PROVE TypeOK'
  <2> DEFINE T == {k \in Kinds : obj[k].state = "terminating"}
  <2>1. T \in SUBSET Kinds
    OBVIOUS
  <2>2. \/ /\ pc' = [pc EXCEPT ![c] = "create"]
           /\ pend' = [pend EXCEPT ![c] = Kinds]
           /\ gone' = [gone EXCEPT ![c] = T]
        \/ /\ pc' = [pc EXCEPT ![c] = "createFailing"]
           /\ UNCHANGED <<pend, gone>>
    BY <1>3, Zenon DEF DeleteOlderUpgradeEvents
  <2> HIDE DEF T
  <2>3. pc' \in [Clients -> Steps]
    BY <2>2 DEF Steps
  <2>4. pend' \in [Clients -> SUBSET Kinds]
    <3>1. pend \in [Clients -> SUBSET Kinds] /\ Kinds \in SUBSET Kinds
      OBVIOUS
    <3>2. pend' \in {pend, [pend EXCEPT ![c] = Kinds]}
      BY <2>2
    <3>3. QED
      BY <3>1, <3>2
  <2>5. gone' \in [Clients -> SUBSET Kinds]
    BY <2>1, <2>2
  <2>6. event' \in [action: JobActions \cup {"none"}, num: 0 .. MaxEvents]
    BY <1>3 DEF DeleteOlderUpgradeEvents, NoEvent
  <2>7. QED
    BY <1>3, <2>3, <2>4, <2>5, <2>6 DEF DeleteOlderUpgradeEvents
<1>4. ASSUME NEW c \in Clients, NEW k \in Kinds, CreateResource(c, k)
      PROVE  TypeOK'
  <2>1. c \in MayCreate(k)
    BY <1>4 DEF CreateResource, MayCreate
  <2>2. obj[k].gen + 1 \in 0 .. MaxCalls
    BY <2>1, RoomForOneMore
  <2>3. [state |-> "present", gen |-> obj[k].gen + 1]
          \in [state: ObjState, gen: 0 .. MaxCalls]
    BY <2>2 DEF ObjState
  <2>4. obj' = [obj EXCEPT ![k] = [state |-> "present", gen |-> obj[k].gen + 1]]
        \/ obj' = obj
    BY <1>4 DEF CreateResource
  <2>5. obj' \in [Kinds -> [state: ObjState, gen: 0 .. MaxCalls]]
    BY <2>3, <2>4
  <2>6. QED
    BY <1>4, <2>5 DEF CreateResource
<1>5. ASSUME NEW c \in Clients, NEW k \in Kinds, RequestFails(c, k) PROVE TypeOK'
  BY <1>5 DEF RequestFails, Steps
<1>6. ASSUME NEW c \in Clients, NEW k \in Kinds, DeleteResource(c, k) PROVE TypeOK'
  <2>1. obj' \in [Kinds -> [state: ObjState, gen: 0 .. MaxCalls]]
    <3> DEFINE s == IF obj[k].state = "absent" THEN "absent" ELSE "terminating"
    <3>1. obj' = [obj EXCEPT ![k] = [obj[k] EXCEPT !.state = s]]
      BY <1>6 DEF DeleteResource
    <3>2. s \in ObjState
      BY DEF ObjState
    <3> HIDE DEF s
    <3>3. [obj[k] EXCEPT !.state = s] \in [state: ObjState, gen: 0 .. MaxCalls]
      <4>1. obj[k] \in [state: ObjState, gen: 0 .. MaxCalls]
        OBVIOUS
      <4>2. QED
        BY <3>2, <4>1, StateSet
    <3>4. QED
      BY <3>1, <3>3
  <2>2. pend' \in [Clients -> SUBSET Kinds] /\ gone' \in [Clients -> SUBSET Kinds]
    BY <1>6 DEF DeleteResource
  <2>3. QED
    BY <1>6, <2>1, <2>2 DEF DeleteResource
<1>7. ASSUME NEW c \in Clients, ResourcesCreated(c) PROVE TypeOK'
  BY <1>7 DEF ResourcesCreated, Steps
<1>8. ASSUME NEW c \in Clients, PollAgain(c) PROVE TypeOK'
  BY <1>8 DEF PollAgain
<1>9. ASSUME NEW c \in Clients, BeginsDelete(c) PROVE TypeOK'
  BY <1>9, KindsAssumption DEF BeginsDelete, BeginDelete, Deletes, Steps
<1>10. ASSUME NEW c \in Clients, NEW r \in Result, Returns(c, r) PROVE TypeOK'
  BY <1>10 DEF Returns, Return, Steps
<1>11. ASSUME NEW k \in Kinds, Collect(k) PROVE TypeOK'
  <2>1. [obj[k] EXCEPT !.state = "absent"] \in [state: ObjState, gen: 0 .. MaxCalls]
    BY StateSet DEF ObjState
  <2>2. obj' = [obj EXCEPT ![k] = [obj[k] EXCEPT !.state = "absent"]]
    BY <1>11 DEF Collect
  <2>3. obj' \in [Kinds -> [state: ObjState, gen: 0 .. MaxCalls]]
    BY <2>1, <2>2
  <2>4. QED
    BY <1>11, <2>3 DEF Collect, JobStatus
<1>12. CASE SyncJob
  BY <1>12 DEF SyncJob, JobStatus
<1>13. CASE JobStarts
  BY <1>13 DEF JobStarts, JobStatus
<1>14. ASSUME NEW s \in {"succeeded", "failed"}, JobEnds(s) PROVE TypeOK'
  BY <1>14 DEF JobEnds, JobStatus
<1>15. ASSUME NEW a \in JobActions, JobPublishes(a) PROVE TypeOK'
  BY <1>15 DEF JobPublishes
<1>16. CASE UNCHANGED vars
  BY <1>16
<1>17. QED
  BY <1>1, <1>2, <1>3, <1>4, <1>5, <1>6, <1>7, <1>8, <1>9, <1>10, <1>11,
     <1>12, <1>13, <1>14, <1>15, <1>16, Moves DEF ClientMove

(* Every step keeps what a call's step says of it. *)
LEMMA ClientNext == TypeOK /\ ClientInv /\ [Next]_vars => ClientInv'
<1> SUFFICES ASSUME TypeOK, ClientInv, [Next]_vars PROVE ClientInv'
  OBVIOUS
<1> USE DEF vars, cluster, clients, Goto, TypeOK, ClientInv, Upgrading, Requesting
<1>1. ASSUME NEW c \in Clients, NEW o \in Ops, Execute(c, o) PROVE ClientInv'
  BY <1>1 DEF Execute, AllOps
<1>2. ASSUME NEW c \in Clients, Preflight(c) PROVE ClientInv'
  BY <1>2 DEF Preflight
<1>3. ASSUME NEW c \in Clients, DeleteOlderUpgradeEvents(c) PROVE ClientInv'
  BY <1>3 DEF DeleteOlderUpgradeEvents
<1>4. ASSUME NEW c \in Clients, NEW k \in Kinds, CreateResource(c, k) PROVE ClientInv'
  BY <1>4 DEF CreateResource
<1>5. ASSUME NEW c \in Clients, NEW k \in Kinds, RequestFails(c, k) PROVE ClientInv'
  BY <1>5 DEF RequestFails
<1>6. ASSUME NEW c \in Clients, NEW k \in Kinds, DeleteResource(c, k) PROVE ClientInv'
  BY <1>6 DEF DeleteResource
<1>7. ASSUME NEW c \in Clients, ResourcesCreated(c) PROVE ClientInv'
  BY <1>7 DEF ResourcesCreated
<1>8. ASSUME NEW c \in Clients, PollAgain(c) PROVE ClientInv'
  BY <1>8 DEF PollAgain
<1>9. ASSUME NEW c \in Clients, BeginsDelete(c) PROVE ClientInv'
  BY <1>9 DEF BeginsDelete, BeginDelete, Deletes
<1>10. ASSUME NEW c \in Clients, NEW r \in Result, Returns(c, r) PROVE ClientInv'
  BY <1>10 DEF Returns, Return
<1>11. ASSUME NEW k \in Kinds, Collect(k) PROVE ClientInv'
  BY <1>11 DEF Collect
<1>12. CASE SyncJob
  BY <1>12 DEF SyncJob
<1>13. CASE JobStarts
  BY <1>13 DEF JobStarts
<1>14. ASSUME NEW s \in {"succeeded", "failed"}, JobEnds(s) PROVE ClientInv'
  BY <1>14 DEF JobEnds
<1>15. ASSUME NEW a \in JobActions, JobPublishes(a) PROVE ClientInv'
  BY <1>15 DEF JobPublishes
<1>16. CASE UNCHANGED vars
  BY <1>16
<1>17. QED
  BY <1>1, <1>2, <1>3, <1>4, <1>5, <1>6, <1>7, <1>8, <1>9, <1>10, <1>11,
     <1>12, <1>13, <1>14, <1>15, <1>16, Moves DEF ClientMove

(* Every step keeps what the answers to create requests say. *)
LEMMA CreateNext == TypeOK /\ ClientInv /\ CreateInv /\ [Next]_vars => CreateInv'
<1> SUFFICES ASSUME TypeOK, ClientInv, CreateInv, [Next]_vars PROVE CreateInv'
  OBVIOUS
<1> USE DEF vars, cluster, clients, Goto, TypeOK, CreateInv, Requesting, Creating
<1>1. ASSUME NEW c \in Clients, NEW o \in Ops, Execute(c, o) PROVE CreateInv'
  BY <1>1 DEF Execute, AllOps
<1>2. ASSUME NEW c \in Clients, Preflight(c) PROVE CreateInv'
  BY <1>2 DEF Preflight
<1>3. ASSUME NEW c \in Clients, DeleteOlderUpgradeEvents(c) PROVE CreateInv'
  <2> DEFINE T == {k \in Kinds : obj[k].state = "terminating"}
  <2>1. \/ /\ pc' = [pc EXCEPT ![c] = "create"]
           /\ pend' = [pend EXCEPT ![c] = Kinds]
           /\ gone' = [gone EXCEPT ![c] = T]
        \/ /\ pc' = [pc EXCEPT ![c] = "createFailing"]
           /\ UNCHANGED <<pend, gone>>
    BY <1>3, Zenon DEF DeleteOlderUpgradeEvents
  <2>2. UNCHANGED obj
    BY <1>3 DEF DeleteOlderUpgradeEvents
  <2>3. CASE pc' = [pc EXCEPT ![c] = "createFailing"] /\ UNCHANGED <<pend, gone>>
    BY <2>2, <2>3
  <2>4. CASE /\ pc' = [pc EXCEPT ![c] = "create"]
             /\ pend' = [pend EXCEPT ![c] = Kinds]
             /\ gone' = [gone EXCEPT ![c] = T]
    <3>1. \A d \in Clients \ {c} :
            pc'[d] = pc[d] /\ pend'[d] = pend[d] /\ gone'[d] = gone[d]
      BY <2>4
    <3>2. pend'[c] = Kinds /\ gone'[c] = T
      BY <2>4
    <3>3. QED
      BY <2>2, <3>1, <3>2
  <2>5. QED
    BY <2>1, <2>3, <2>4
<1>4. ASSUME NEW c \in Clients, NEW k \in Kinds, CreateResource(c, k) PROVE CreateInv'
  <2>1. /\ UNCHANGED <<pc, gone>>
        /\ pend' = [pend EXCEPT ![c] = pend[c] \ {k}]
        /\ pc[c] \in {"create", "createFailing"}
    BY <1>4 DEF CreateResource
  <2>2. /\ \A j \in Kinds \ {k} : obj'[j] = obj[j]
        /\ obj[k].state = "absent" => obj'[k].state = "present"
        /\ obj[k].state # "absent" => obj'[k].state = obj[k].state
        /\ obj[k].state \in ObjState
    BY <1>4 DEF CreateResource
  <2>3. QED
    BY <2>1, <2>2 DEF ObjState
<1>5. ASSUME NEW c \in Clients, NEW k \in Kinds, RequestFails(c, k) PROVE CreateInv'
  BY <1>5 DEF RequestFails
<1>6. ASSUME NEW c \in Clients, NEW k \in Kinds, DeleteResource(c, k) PROVE CreateInv'
  <2>1. /\ UNCHANGED pc
        /\ pend' = [pend EXCEPT ![c] = pend[c] \ {k}]
        /\ pc[c] \in {"delete", "deleteFailing"}
    BY <1>6 DEF DeleteResource
  <2>2. /\ \A j \in Kinds \ {k} : obj'[j] = obj[j]
        /\ obj[k].state = "present" => obj'[k].state = "terminating"
        /\ obj[k].state # "present" => obj'[k].state = obj[k].state
    BY <1>6 DEF DeleteResource, ObjState
  <2>3. \A d \in Clients :
          /\ gone[d] \subseteq gone'[d]
          /\ pc[d] \in {"create", "poll"} /\ obj[k].state = "present"
               => k \in gone'[d]
    BY <1>6 DEF DeleteResource
  <2>4. QED
    BY <2>1, <2>2, <2>3
<1>7. ASSUME NEW c \in Clients, ResourcesCreated(c) PROVE CreateInv'
  BY <1>7 DEF ResourcesCreated
<1>8. ASSUME NEW c \in Clients, PollAgain(c) PROVE CreateInv'
  BY <1>8 DEF PollAgain
<1>9. ASSUME NEW c \in Clients, BeginsDelete(c) PROVE CreateInv'
  BY <1>9 DEF BeginsDelete, BeginDelete, Deletes
<1>10. ASSUME NEW c \in Clients, NEW r \in Result, Returns(c, r) PROVE CreateInv'
  BY <1>10 DEF Returns, Return
<1>11. ASSUME NEW k \in Kinds, Collect(k) PROVE CreateInv'
  BY <1>11 DEF Collect
<1>12. CASE SyncJob
  BY <1>12 DEF SyncJob
<1>13. CASE JobStarts
  BY <1>13 DEF JobStarts
<1>14. ASSUME NEW s \in {"succeeded", "failed"}, JobEnds(s) PROVE CreateInv'
  BY <1>14 DEF JobEnds
<1>15. ASSUME NEW a \in JobActions, JobPublishes(a) PROVE CreateInv'
  BY <1>15 DEF JobPublishes
<1>16. CASE UNCHANGED vars
  BY <1>16
<1>17. QED
  BY <1>1, <1>2, <1>3, <1>4, <1>5, <1>6, <1>7, <1>8, <1>9, <1>10, <1>11,
     <1>12, <1>13, <1>14, <1>15, <1>16, Moves DEF ClientMove

(* Every step keeps the order of events and calls. *)
LEMMA EventNext == TypeOK /\ EventInv /\ [Next]_vars => EventInv'
<1> SUFFICES ASSUME TypeOK, EventInv, [Next]_vars PROVE EventInv'
  OBVIOUS
<1> USE DEF vars, cluster, clients, Goto, TypeOK, EventInv, Creating, NoEvent
<1>1. ASSUME NEW c \in Clients, NEW o \in Ops, Execute(c, o) PROVE EventInv'
  BY <1>1 DEF Execute, AllOps
<1>2. ASSUME NEW c \in Clients, Preflight(c) PROVE EventInv'
  BY <1>2 DEF Preflight
<1>3. ASSUME NEW c \in Clients, DeleteOlderUpgradeEvents(c) PROVE EventInv'
  BY <1>3 DEF DeleteOlderUpgradeEvents
<1>4. ASSUME NEW c \in Clients, NEW k \in Kinds, CreateResource(c, k) PROVE EventInv'
  BY <1>4 DEF CreateResource
<1>5. ASSUME NEW c \in Clients, NEW k \in Kinds, RequestFails(c, k) PROVE EventInv'
  BY <1>5 DEF RequestFails
<1>6. ASSUME NEW c \in Clients, NEW k \in Kinds, DeleteResource(c, k) PROVE EventInv'
  BY <1>6 DEF DeleteResource
<1>7. ASSUME NEW c \in Clients, ResourcesCreated(c) PROVE EventInv'
  BY <1>7 DEF ResourcesCreated
<1>8. ASSUME NEW c \in Clients, PollAgain(c) PROVE EventInv'
  BY <1>8 DEF PollAgain
<1>9. ASSUME NEW c \in Clients, BeginsDelete(c) PROVE EventInv'
  BY <1>9 DEF BeginsDelete, BeginDelete, Deletes
<1>10. ASSUME NEW c \in Clients, NEW r \in Result, Returns(c, r) PROVE EventInv'
  BY <1>10 DEF Returns, Return
<1>11. ASSUME NEW k \in Kinds, Collect(k) PROVE EventInv'
  BY <1>11 DEF Collect
<1>12. CASE SyncJob
  BY <1>12 DEF SyncJob
<1>13. CASE JobStarts
  BY <1>13 DEF JobStarts
<1>14. ASSUME NEW s \in {"succeeded", "failed"}, JobEnds(s) PROVE EventInv'
  BY <1>14 DEF JobEnds
<1>15. ASSUME NEW a \in JobActions, JobPublishes(a) PROVE EventInv'
  BY <1>15 DEF JobPublishes
<1>16. CASE UNCHANGED vars
  BY <1>16
<1>17. QED
  BY <1>1, <1>2, <1>3, <1>4, <1>5, <1>6, <1>7, <1>8, <1>9, <1>10, <1>11,
     <1>12, <1>13, <1>14, <1>15, <1>16, Moves DEF ClientMove

(* Every step keeps what the answers to delete requests say. *)
LEMMA DeleteNext == TypeOK /\ DeleteInv /\ [Next]_vars => DeleteInv'
<1> SUFFICES ASSUME TypeOK, DeleteInv, [Next]_vars PROVE DeleteInv'
  OBVIOUS
<1> USE DEF vars, cluster, clients, Goto, TypeOK, DeleteInv
<1>1. ASSUME NEW c \in Clients, NEW o \in Ops, Execute(c, o) PROVE DeleteInv'
  BY <1>1 DEF Execute, AllOps
<1>2. ASSUME NEW c \in Clients, Preflight(c) PROVE DeleteInv'
  BY <1>2 DEF Preflight
<1>3. ASSUME NEW c \in Clients, DeleteOlderUpgradeEvents(c) PROVE DeleteInv'
  BY <1>3 DEF DeleteOlderUpgradeEvents
<1>4. ASSUME NEW c \in Clients, NEW k \in Kinds, CreateResource(c, k) PROVE DeleteInv'
  BY <1>4 DEF CreateResource
<1>5. ASSUME NEW c \in Clients, NEW k \in Kinds, RequestFails(c, k) PROVE DeleteInv'
  BY <1>5 DEF RequestFails
<1>6. ASSUME NEW c \in Clients, NEW k \in Kinds, DeleteResource(c, k) PROVE DeleteInv'
  BY <1>6 DEF DeleteResource
<1>7. ASSUME NEW c \in Clients, ResourcesCreated(c) PROVE DeleteInv'
  BY <1>7 DEF ResourcesCreated
<1>8. ASSUME NEW c \in Clients, PollAgain(c) PROVE DeleteInv'
  BY <1>8 DEF PollAgain
<1>9. ASSUME NEW c \in Clients, BeginsDelete(c) PROVE DeleteInv'
  <2>1. /\ pc' = [pc EXCEPT ![c] = "delete"] /\ UNCHANGED obj
        /\ pend' = [pend EXCEPT ![c] = Kinds]
        /\ before' = [before EXCEPT ![c] = [k \in Kinds |-> obj[k].gen]]
    BY <1>9 DEF BeginsDelete, BeginDelete, Deletes
  <2>2. QED
    BY <2>1
<1>10. ASSUME NEW c \in Clients, NEW r \in Result, Returns(c, r) PROVE DeleteInv'
  BY <1>10 DEF Returns, Return
<1>11. ASSUME NEW k \in Kinds, Collect(k) PROVE DeleteInv'
  BY <1>11 DEF Collect
<1>12. CASE SyncJob
  BY <1>12 DEF SyncJob
<1>13. CASE JobStarts
  BY <1>13 DEF JobStarts
<1>14. ASSUME NEW s \in {"succeeded", "failed"}, JobEnds(s) PROVE DeleteInv'
  BY <1>14 DEF JobEnds
<1>15. ASSUME NEW a \in JobActions, JobPublishes(a) PROVE DeleteInv'
  BY <1>15 DEF JobPublishes
<1>16. CASE UNCHANGED vars
  BY <1>16
<1>17. QED
  BY <1>1, <1>2, <1>3, <1>4, <1>5, <1>6, <1>7, <1>8, <1>9, <1>10, <1>11,
     <1>12, <1>13, <1>14, <1>15, <1>16, Moves DEF ClientMove

(* Every step keeps what a plain delete knows of its Job. *)
LEMMA SucceededNext == TypeOK /\ ClientInv /\ SucceededInv /\ [Next]_vars => SucceededInv'
<1> SUFFICES ASSUME TypeOK, ClientInv, SucceededInv, [Next]_vars PROVE SucceededInv'
  OBVIOUS
<1> USE KindsAssumption
<1> USE DEF vars, cluster, clients, Goto, TypeOK, SucceededInv, ClientInv, Upgrading
<1>1. ASSUME NEW c \in Clients, NEW o \in Ops, Execute(c, o) PROVE SucceededInv'
  BY <1>1 DEF Execute, AllOps
<1>2. ASSUME NEW c \in Clients, Preflight(c) PROVE SucceededInv'
  BY <1>2 DEF Preflight
<1>3. ASSUME NEW c \in Clients, DeleteOlderUpgradeEvents(c) PROVE SucceededInv'
  BY <1>3 DEF DeleteOlderUpgradeEvents
<1>4. ASSUME NEW c \in Clients, NEW k \in Kinds, CreateResource(c, k) PROVE SucceededInv'
  BY <1>4 DEF CreateResource
<1>5. ASSUME NEW c \in Clients, NEW k \in Kinds, RequestFails(c, k) PROVE SucceededInv'
  BY <1>5 DEF RequestFails
<1>6. ASSUME NEW c \in Clients, NEW k \in Kinds, DeleteResource(c, k) PROVE SucceededInv'
  BY <1>6 DEF DeleteResource
<1>7. ASSUME NEW c \in Clients, ResourcesCreated(c) PROVE SucceededInv'
  BY <1>7 DEF ResourcesCreated
<1>8. ASSUME NEW c \in Clients, PollAgain(c) PROVE SucceededInv'
  BY <1>8 DEF PollAgain
<1>9. ASSUME NEW c \in Clients, BeginsDelete(c) PROVE SucceededInv'
  <2>1. /\ pc' = [pc EXCEPT ![c] = "delete"] /\ UNCHANGED <<obj, op, jobStatus>>
        /\ seen' = [seen EXCEPT ![c] = obj["Job"].gen]
    BY <1>9 DEF BeginsDelete, BeginDelete
  <2>2. op[c] = "delete" => jobStatus = "succeeded"
    BY <1>9 DEF BeginsDelete
  <2>3. QED
    BY <2>1, <2>2
<1>10. ASSUME NEW c \in Clients, NEW r \in Result, Returns(c, r) PROVE SucceededInv'
  BY <1>10 DEF Returns, Return
<1>11. ASSUME NEW k \in Kinds, Collect(k) PROVE SucceededInv'
  BY <1>11 DEF Collect
<1>12. CASE SyncJob
  BY <1>12 DEF SyncJob
<1>13. CASE JobStarts
  BY <1>13 DEF JobStarts
<1>14. ASSUME NEW s \in {"succeeded", "failed"}, JobEnds(s) PROVE SucceededInv'
  BY <1>14 DEF JobEnds, JobRuns
<1>15. ASSUME NEW a \in JobActions, JobPublishes(a) PROVE SucceededInv'
  BY <1>15 DEF JobPublishes
<1>16. CASE UNCHANGED vars
  BY <1>16
<1>17. QED
  BY <1>1, <1>2, <1>3, <1>4, <1>5, <1>6, <1>7, <1>8, <1>9, <1>10, <1>11,
     <1>12, <1>13, <1>14, <1>15, <1>16, Moves DEF ClientMove

(* Every step keeps the arguments of a Job well formed. *)
LEMMA FilesNext == TypeOK /\ ClientInv /\ FilesInv /\ [Next]_vars => FilesInv'
<1> SUFFICES ASSUME TypeOK, ClientInv, FilesInv, [Next]_vars PROVE FilesInv'
  OBVIOUS
<1> USE DEF vars, cluster, clients, Goto, TypeOK, FilesInv, ClientInv, Requesting
<1>1. ASSUME NEW c \in Clients, NEW o \in Ops, Execute(c, o) PROVE FilesInv'
  BY <1>1 DEF Execute, AllOps
<1>2. ASSUME NEW c \in Clients, Preflight(c) PROVE FilesInv'
  BY <1>2 DEF Preflight
<1>3. ASSUME NEW c \in Clients, DeleteOlderUpgradeEvents(c) PROVE FilesInv'
  BY <1>3 DEF DeleteOlderUpgradeEvents
<1>4. ASSUME NEW c \in Clients, NEW k \in Kinds, CreateResource(c, k) PROVE FilesInv'
  BY <1>4 DEF CreateResource
<1>5. ASSUME NEW c \in Clients, NEW k \in Kinds, RequestFails(c, k) PROVE FilesInv'
  BY <1>5 DEF RequestFails
<1>6. ASSUME NEW c \in Clients, NEW k \in Kinds, DeleteResource(c, k) PROVE FilesInv'
  BY <1>6 DEF DeleteResource
<1>7. ASSUME NEW c \in Clients, ResourcesCreated(c) PROVE FilesInv'
  BY <1>7 DEF ResourcesCreated
<1>8. ASSUME NEW c \in Clients, PollAgain(c) PROVE FilesInv'
  BY <1>8 DEF PollAgain
<1>9. ASSUME NEW c \in Clients, BeginsDelete(c) PROVE FilesInv'
  BY <1>9 DEF BeginsDelete, BeginDelete, Deletes
<1>10. ASSUME NEW c \in Clients, NEW r \in Result, Returns(c, r) PROVE FilesInv'
  BY <1>10 DEF Returns, Return
<1>11. ASSUME NEW k \in Kinds, Collect(k) PROVE FilesInv'
  BY <1>11 DEF Collect
<1>12. CASE SyncJob
  BY <1>12 DEF SyncJob
<1>13. CASE JobStarts
  BY <1>13 DEF JobStarts
<1>14. ASSUME NEW s \in {"succeeded", "failed"}, JobEnds(s) PROVE FilesInv'
  BY <1>14 DEF JobEnds
<1>15. ASSUME NEW a \in JobActions, JobPublishes(a) PROVE FilesInv'
  BY <1>15 DEF JobPublishes
<1>16. CASE UNCHANGED vars
  BY <1>16
<1>17. QED
  BY <1>1, <1>2, <1>3, <1>4, <1>5, <1>6, <1>7, <1>8, <1>9, <1>10, <1>11,
     <1>12, <1>13, <1>14, <1>15, <1>16, Moves DEF ClientMove

(* The requests that a step leaves: only a new call may create more, and one
   that creates an object does so for the last time. *)
LEMMA FewerMayCreate ==
  ASSUME TypeOK, ClientInv, [Next]_vars, NEW j \in Kinds
  PROVE  \/ /\ MayCreate(j)' \subseteq MayCreate(j)
            /\ obj'[j].gen = obj[j].gen /\ calls' = calls
         \/ \E c \in Clients :
              /\ MayCreate(j)' \subseteq MayCreate(j) \cup {c}
              /\ obj'[j].gen = obj[j].gen /\ calls' = calls + 1
         \/ \E c \in MayCreate(j) :
              /\ MayCreate(j)' \subseteq MayCreate(j) \ {c}
              /\ obj'[j].gen = obj[j].gen + 1 /\ calls' = calls
<1> DEFINE Kept == /\ MayCreate(j)' \subseteq MayCreate(j)
                   /\ obj'[j].gen = obj[j].gen /\ calls' = calls
<1> USE DEF vars, cluster, clients, Goto, TypeOK, MayCreate
<1>1. ASSUME NEW c \in Clients, NEW o \in Ops, Execute(c, o)
      PROVE  /\ MayCreate(j)' \subseteq MayCreate(j) \cup {c}
             /\ obj'[j].gen = obj[j].gen /\ calls' = calls + 1
  BY <1>1 DEF Execute
<1>2. ASSUME NEW c \in Clients, Preflight(c) PROVE Kept
  BY <1>2 DEF Preflight
<1>3. ASSUME NEW c \in Clients, DeleteOlderUpgradeEvents(c) PROVE Kept
  <2>1. /\ pc[c] = "cleanup" /\ UNCHANGED <<obj, calls>>
        /\ \A d \in Clients \ {c} : pc'[d] = pc[d] /\ pend'[d] = pend[d]
    BY <1>3 DEF DeleteOlderUpgradeEvents
  <2>2. QED
    BY <2>1
<1>4. ASSUME NEW c \in Clients, NEW k \in Kinds, CreateResource(c, k)
      PROVE  \/ Kept
             \/ /\ c \in MayCreate(j)
                /\ MayCreate(j)' \subseteq MayCreate(j) \ {c}
                /\ obj'[j].gen = obj[j].gen + 1 /\ calls' = calls
  <2>1. /\ UNCHANGED <<pc, calls>>
        /\ pend' = [pend EXCEPT ![c] = pend[c] \ {k}]
        /\ pc[c] \in {"create", "createFailing"} /\ k \in pend[c]
    BY <1>4 DEF CreateResource
  <2>2. MayCreate(j)' \subseteq MayCreate(j)
    BY <2>1
  <2>3. CASE j # k \/ obj[k].state # "absent"
    BY <1>4, <2>1, <2>2, <2>3 DEF CreateResource
  <2>4. CASE j = k /\ obj[k].state = "absent"
    <3>1. obj'[j].gen = obj[j].gen + 1
      BY <1>4, <2>4 DEF CreateResource
    <3>2. c \in MayCreate(j) /\ c \notin MayCreate(j)'
      BY <2>1, <2>4
    <3>3. QED
      BY <2>1, <2>2, <3>1, <3>2
  <2>5. QED
    BY <2>3, <2>4
<1>5. ASSUME NEW c \in Clients, NEW k \in Kinds, RequestFails(c, k) PROVE Kept
  BY <1>5 DEF RequestFails
<1>6. ASSUME NEW c \in Clients, NEW k \in Kinds, DeleteResource(c, k) PROVE Kept
  BY <1>6 DEF DeleteResource
<1>7. ASSUME NEW c \in Clients, ResourcesCreated(c) PROVE Kept
  BY <1>7 DEF ResourcesCreated
<1>8. ASSUME NEW c \in Clients, PollAgain(c) PROVE Kept
  BY <1>8 DEF PollAgain
<1>9. ASSUME NEW c \in Clients, BeginsDelete(c) PROVE Kept
  BY <1>9 DEF BeginsDelete, BeginDelete
<1>10. ASSUME NEW c \in Clients, NEW r \in Result, Returns(c, r) PROVE Kept
  BY <1>10 DEF Returns, Return
<1>11. ASSUME NEW k \in Kinds, Collect(k) PROVE Kept
  BY <1>11 DEF Collect
<1>12. CASE SyncJob
  BY <1>12 DEF SyncJob
<1>13. CASE JobStarts
  BY <1>13 DEF JobStarts
<1>14. ASSUME NEW s \in {"succeeded", "failed"}, JobEnds(s) PROVE Kept
  BY <1>14 DEF JobEnds
<1>15. ASSUME NEW a \in JobActions, JobPublishes(a) PROVE Kept
  BY <1>15 DEF JobPublishes
<1>16. CASE UNCHANGED vars
  BY <1>16
<1> HIDE DEF MayCreate, TypeOK
<1>17. QED
  BY <1>1, <1>2, <1>3, <1>4, <1>5, <1>6, <1>7, <1>8, <1>9, <1>10, <1>11,
     <1>12, <1>13, <1>14, <1>15, <1>16, Moves DEF ClientMove

(* Every step keeps the count of objects within that of calls. *)
LEMMA CountNext == TypeOK /\ ClientInv /\ CountInv /\ [Next]_vars => CountInv'
<1> SUFFICES ASSUME TypeOK, ClientInv, CountInv, [Next]_vars, NEW j \in Kinds
             PROVE  /\ IsFiniteSet(MayCreate(j)')
                    /\ obj'[j].gen + Cardinality(MayCreate(j)') <= calls'
  BY DEF CountInv
<1> DEFINE M == MayCreate(j)
           n == Cardinality(M)
<1>1. IsFiniteSet(M) /\ n \in Nat /\ obj[j].gen + n <= calls
  BY FS_CardinalityType DEF CountInv
<1>2. obj[j].gen \in Nat /\ calls \in Nat
  BY BoundsAssumption DEF TypeOK
<1> HIDE DEF M, n
<1>3. ASSUME NEW S, IsFiniteSet(S), M' \subseteq S
      PROVE  /\ IsFiniteSet(M') /\ Cardinality(M') \in Nat
             /\ Cardinality(M') <= Cardinality(S)
  BY <1>3, FS_Subset, FS_CardinalityType
<1>4. CASE /\ M' \subseteq M
           /\ obj'[j].gen = obj[j].gen /\ calls' = calls
  <2>1. IsFiniteSet(M') /\ Cardinality(M') \in Nat /\ Cardinality(M') <= n
    BY <1>1, <1>3, <1>4 DEF n
  <2>2. QED
    BY <1>1, <1>2, <1>4, <2>1 DEF M
<1>5. ASSUME NEW c \in Clients, M' \subseteq M \cup {c},
             obj'[j].gen = obj[j].gen, calls' = calls + 1
      PROVE  IsFiniteSet(M') /\ obj'[j].gen + Cardinality(M') <= calls'
  <2>1. /\ IsFiniteSet(M \cup {c})
        /\ Cardinality(M \cup {c}) = n \/ Cardinality(M \cup {c}) = n + 1
    BY <1>1, FS_AddElement DEF n
  <2>2. QED
    BY <1>1, <1>2, <1>3, <1>5, <2>1
<1>6. ASSUME NEW c \in M, M' \subseteq M \ {c},
             obj'[j].gen = obj[j].gen + 1, calls' = calls
      PROVE  IsFiniteSet(M') /\ obj'[j].gen + Cardinality(M') <= calls'
  <2>1. IsFiniteSet(M \ {c}) /\ Cardinality(M \ {c}) = n - 1
    BY <1>1, FS_RemoveElement DEF n
  <2>2. QED
    BY <1>1, <1>2, <1>3, <1>6, <2>1
<1>7. QED
  BY <1>4, <1>5, <1>6, FewerMayCreate DEF M

-----------------------------------------------------------------------------
CliInv ==
  /\ TypeOK /\ ClientInv /\ CountInv
  /\ CreateInv /\ EventInv /\ DeleteInv /\ SucceededInv /\ FilesInv

(* CliInv holds before the first call. *)
LEMMA CliInit == Init => CliInv
<1> SUFFICES ASSUME Init PROVE CliInv
  OBVIOUS
<1>1. \A c \in Clients : pc[c] = "idle" /\ pend[c] = {} /\ evStart[c] = 0
  BY DEF Init
<1>2. ClientInv /\ CreateInv /\ DeleteInv /\ SucceededInv
  BY <1>1 DEF ClientInv, CreateInv, DeleteInv, SucceededInv, Upgrading
<1>3. EventInv
  BY <1>1 DEF EventInv, Init, NoEvent
<1>4. FilesInv
  BY <1>1 DEF FilesInv, Init
<1>5. QED
  BY <1>2, <1>3, <1>4, TypeInit, CountInit DEF CliInv

(* Every step keeps CliInv. *)
LEMMA CliNext == CliInv /\ [Next]_vars => CliInv'
  BY TypeNext, ClientNext, CountNext, CreateNext, EventNext, DeleteNext,
     SucceededNext, FilesNext
  DEF CliInv

(* CliInv is an invariant of any number of calls side by side. *)
THEOREM CliInvariance == Spec => []CliInv
  BY CliInit, CliNext, PTL DEF Spec

(* Types hold, and with them the bounds: no kind of object is created more
   often than the plugin is called. *)
THEOREM CliTypeCorrect == Spec => []TypeOK
  BY CliInvariance, PTL DEF CliInv

(* An upgrade call that polls has all objects in place but those that were
   terminating or were deleted while it ran. *)
THEOREM RetriesComplete == Spec => []RetryCompletesResources
<1>1. CliInv => RetryCompletesResources
  BY DEF CliInv, ClientInv, CreateInv, RetryCompletesResources, Requesting
<1>2. QED
  BY <1>1, CliInvariance, PTL

(* A Job that runs has well-formed arguments, and reads them from the right
   files if the ConfigMap is its own. *)
THEOREM FilesResolve == Spec => []SetFilesResolve
<1>1. CliInv => SetFilesResolve
  <2> SUFFICES ASSUME CliInv, jobCall # 0
               PROVE  /\ WellFormed(SetFile[jobCall])
                      /\ Resolves(SetFile[jobCall], SetFile[jobCall])
    BY DEF SetFilesResolve
  <2>1. jobCall \in 1 .. MaxCalls
    BY BoundsAssumption DEF CliInv, TypeOK
  <2>2. SetFile[jobCall] \in Seq(Seq(STRING))
    BY <2>1, SetFileAssumption
  <2>3. Resolves(SetFile[jobCall], SetFile[jobCall])
    BY <2>2, OwnFilesResolve
  <2>4. QED
    BY <2>3 DEF CliInv, FilesInv
<1>2. QED
  BY <1>1, CliInvariance, PTL

(* The event that ends the polling of a call is newer than the call. *)
THEOREM PolledEventsAreFresh == Spec => PolledEventIsFresh
<1> DEFINE A == \A c \in Clients :
                  pc[c] = "poll" /\ pc'[c] # "poll" /\ event # NoEvent
                    /\ polls[c] < MaxPolls /\ result'[c] # "error"
                  => event.num > evStart[c]
<1>1. CliInv /\ [Next]_vars => [A]_vars
  BY DEF CliInv, EventInv, Creating
<1>2. QED
  BY <1>1, CliInvariance, PTL DEF Spec, PolledEventIsFresh

(* The step by which a call leaves "delete" with Ok is its own return. *)
LEMMA DeleteReturns ==
  ASSUME TypeOK, [Next]_vars, NEW d \in Clients,
         pc[d] = "delete", pc'[d] = "idle", result'[d] = "ok"
  PROVE  pend[d] = {}
<1> USE DEF vars, cluster, clients, Goto, TypeOK
<1>1. pc' # pc
  OBVIOUS
<1>2. ASSUME NEW c \in Clients, ClientMove(c), c # d PROVE FALSE
  BY <1>2 DEF ClientMove, Execute, Preflight, DeleteOlderUpgradeEvents,
       CreateResource, RequestFails, DeleteResource, ResourcesCreated,
       PollAgain, BeginsDelete, BeginDelete, Returns, Return
<1>3. CASE ClientMove(d)
  <2>1. PICK r \in Result : Returns(d, r)
    BY <1>3 DEF ClientMove, Execute, Preflight, DeleteOlderUpgradeEvents,
         CreateResource, RequestFails, DeleteResource, ResourcesCreated,
         PollAgain, BeginsDelete, BeginDelete
  <2>2. QED
    BY <2>1 DEF Returns, Return
<1>4. QED
  BY <1>1, <1>2, <1>3, Moves
  DEF Collect, SyncJob, JobStarts, JobEnds, JobPublishes

(* A delete that returns Ok leaves none of the objects it found. *)
THEOREM DeletesAreComplete == Spec => DeleteIsComplete
<1> DEFINE A == \A c \in Clients :
                  pc[c] = "delete" /\ pc'[c] = "idle" /\ result'[c] = "ok" =>
                    \A k \in Kinds :
                      obj[k].state = "present" => obj[k].gen > before[c][k]
<1>1. CliInv /\ [Next]_vars => [A]_vars
  <2> SUFFICES ASSUME CliInv, [Next]_vars, NEW c \in Clients, pc[c] = "delete",
                      pc'[c] = "idle", result'[c] = "ok",
                      NEW k \in Kinds, obj[k].state = "present"
               PROVE  obj[k].gen > before[c][k]
    OBVIOUS
  <2>1. pend[c] = {}
    BY DeleteReturns DEF CliInv
  <2>2. before[c][k] < obj[k].gen
    BY <2>1 DEF CliInv, DeleteInv
  <2>3. obj[k].gen \in Nat /\ before[c][k] \in Nat
    BY BoundsAssumption DEF CliInv, TypeOK
  <2>4. QED
    BY <2>2, <2>3
<1>2. QED
  BY <1>1, CliInvariance, PTL DEF Spec, DeleteIsComplete

(* The step by which a call's delete request takes the Job away is that
   request's. *)
LEMMA JobDeletedBy ==
  ASSUME TypeOK, [Next]_vars, NEW d \in Clients, op[d] = "delete",
         "Job" \in pend[d] \ pend'[d],
         obj["Job"].state = "present", obj'["Job"].state = "terminating"
  PROVE  pc[d] \in {"delete", "deleteFailing"}
<1> USE DEF vars, cluster, clients, Goto, TypeOK
<1>1. ~UNCHANGED obj /\ ~UNCHANGED pend
  OBVIOUS
<1>2. ASSUME NEW c \in Clients, ClientMove(c)
      PROVE  pc[d] \in {"delete", "deleteFailing"}
  <2>1. PICK k \in Kinds : DeleteResource(c, k)
    BY <1>1, <1>2, KindsAssumption
    DEF ClientMove, Execute, Preflight, DeleteOlderUpgradeEvents,
        CreateResource, RequestFails, ResourcesCreated, PollAgain,
        BeginsDelete, BeginDelete, Returns, Return
  <2>2. QED
    BY <2>1 DEF DeleteResource
<1>3. QED
  BY <1>1, <1>2, Moves DEF Collect, SyncJob, JobStarts, JobEnds, JobPublishes

(* A plain delete takes away no unfinished Job but one created after its check. *)
THEOREM UnfinishedJobsSpared == Spec => PlainDeleteSparesUnfinished
<1> DEFINE A == \A c \in Clients :
                  /\ op[c] = "delete" /\ "Job" \in pend[c] \ pend'[c]
                  /\ obj["Job"].state = "present" /\ obj'["Job"].state = "terminating"
                  => jobStatus = "succeeded" \/ obj["Job"].gen > seen[c]
<1>1. CliInv /\ [Next]_vars => [A]_vars
  <2> SUFFICES ASSUME CliInv, [Next]_vars, NEW c \in Clients, op[c] = "delete",
                      "Job" \in pend[c] \ pend'[c],
                      obj["Job"].state = "present",
                      obj'["Job"].state = "terminating"
               PROVE  jobStatus = "succeeded" \/ obj["Job"].gen > seen[c]
    OBVIOUS
  <2>1. pc[c] \in {"delete", "deleteFailing"}
    BY JobDeletedBy DEF CliInv
  <2>2. obj["Job"].gen \in Nat /\ seen[c] \in Nat
    BY BoundsAssumption, KindsAssumption DEF CliInv, TypeOK
  <2>3. QED
    BY <2>1, <2>2 DEF CliInv, SucceededInv
<1>2. QED
  BY <1>1, CliInvariance, PTL DEF Spec, PlainDeleteSparesUnfinished

(* The check of a plain delete passes only for a Job that has succeeded. *)
LEMMA CheckPasses ==
  ASSUME TypeOK, [Next]_vars, NEW c \in Clients,
         op[c] = "delete", pc[c] = "check", pc'[c] = "delete"
  PROVE  jobStatus = "succeeded"
<1> USE DEF vars, clients, Goto, TypeOK
<1>1. ~UNCHANGED pc
  OBVIOUS
<1>2. PICK d \in Clients : ClientMove(d)
  BY <1>1, Moves DEF Collect, SyncJob, JobStarts, JobEnds, JobPublishes
<1>3. ASSUME NEW o \in Ops, Execute(d, o) PROVE FALSE
  BY <1>3 DEF Execute
<1>4. ASSUME BeginsDelete(d) PROVE jobStatus = "succeeded"
  BY <1>4 DEF BeginsDelete, BeginDelete
<1>5. ASSUME NEW k \in Kinds, RequestFails(d, k) PROVE FALSE
  BY <1>5 DEF RequestFails
<1>6. ASSUME NEW r \in Result, Returns(d, r) PROVE FALSE
  BY <1>6 DEF Returns, Return
<1>7. QED
  BY <1>1, <1>2, <1>3, <1>4, <1>5, <1>6
  DEF ClientMove, Preflight, DeleteOlderUpgradeEvents, CreateResource,
      DeleteResource, ResourcesCreated, PollAgain

=============================================================================
