---------------------------- MODULE SystemProofs ----------------------------
(***************************************************************************)
(* Proofs about System for any containers, handlers, names and bound on    *)
(* failing calls: the type invariant; that a container whose record is     *)
(* deleted, and that no request holds, stays gone; and that the service    *)
(* implements the abstract container.                                      *)
(***************************************************************************)
EXTENDS System, TLAPS

(***************************************************************************)
(* What a request at work guarantees: it holds a container that was        *)
(* created, and it has an assignment left when it is to make one.          *)
(***************************************************************************)
ReqOK(r) ==
    /\ r \in Requests
    /\ r.con \in made \cup {NoContainer}
    /\ IF r.pc = "idle" THEN r.con = NoContainer ELSE r.con \in made
    /\ r.pc = "flags" => r.writes # <<>>

(* What the reaper has in hand at each of its steps.                       *)
ReaperOK ==
    /\ rpc \in {"records", "del_svc", "del_cm", "del_pod", "drop"}
         => rlist \subseteq {"rec"} \X made
    /\ rpc \in {"del_svc", "del_cm", "del_pod", "drop"} => rcur \in made
    /\ rpc = "sweep" => rlist \subseteq Objects

Inv == TypeOK /\ (\A h \in Handlers : ReqOK(req[h])) /\ ReaperOK

USE ClusterAssumption, LifecycleAssumption, SystemAssumption

---------------------------------------------------------------------------
(* The sequences of assignments.                                           *)

(* The empty sequence is a sequence of assignments.                        *)
LEMMA EmptyWrites == <<>> \in Assignments
  BY DEF Assignments

(* The assignments of stop, kill, UpdateContainerStatus and start.         *)
LEMMA WritesType ==
  /\ StopWrites \in Assignments /\ StopWrites # <<>>
  /\ KillWrites \in Assignments /\ KillWrites # <<>>
  /\ CompletedWrites \in Assignments /\ CompletedWrites # <<>>
  /\ FailedWrites \in Assignments /\ FailedWrites # <<>>
  /\ \A st \in DeployStates : StartWrites(st) \in Assignments /\ StartWrites(st) # <<>>
<1> DEFINE S == Flags \X BOOLEAN
<1>1. \A f \in Flags, b \in BOOLEAN : <<f, b>> \in S
  BY Zenon
<1>2. /\ "Running" \in Flags /\ "Completed" \in Flags /\ "Stopped" \in Flags
      /\ "Killed" \in Flags /\ "Failed" \in Flags
  BY Zenon DEF Flags
<1> HIDE DEF S
<1>3. ASSUME NEW T, NEW a1 \in T, NEW a2 \in T, NEW a3 \in T, NEW a4 \in T, NEW a5 \in T
      PROVE  /\ <<a1>> \in Seq(T) /\ <<a1>> # <<>>
             /\ <<a1, a2>> \in Seq(T) /\ <<a1, a2>> # <<>>
             /\ <<a1, a2, a3>> \in Seq(T) /\ <<a1, a2, a3>> # <<>>
             /\ <<a1, a2, a3, a4, a5>> \in Seq(T) /\ <<a1, a2, a3, a4, a5>> # <<>>
  OBVIOUS
<1>4. <<"Running", FALSE>> \in S /\ <<"Completed", FALSE>> \in S /\ <<"Stopped", TRUE>> \in S
  BY <1>1, <1>2, Zenon
<1>5. <<"Killed", TRUE>> \in S /\ <<"Completed", TRUE>> \in S /\ <<"Failed", TRUE>> \in S
  BY <1>1, <1>2, Zenon
<1>6. StopWrites \in Seq(S) /\ StopWrites # <<>>
  BY <1>3, <1>4, Zenon DEF StopWrites
<1>7. KillWrites \in Seq(S) /\ KillWrites # <<>>
  BY <1>3, <1>4, <1>5, Zenon DEF KillWrites
<1>8. CompletedWrites \in Seq(S) /\ CompletedWrites # <<>>
  BY <1>3, <1>4, <1>5, Zenon DEF CompletedWrites
<1>9. FailedWrites \in Seq(S) /\ FailedWrites # <<>>
  BY <1>3, <1>5, Zenon DEF FailedWrites
<1>10. ASSUME NEW st \in DeployStates
       PROVE  StartWrites(st) \in Seq(S) /\ StartWrites(st) # <<>>
  <2>1. /\ <<"Stopped", FALSE>> \in S /\ <<"Killed", FALSE>> \in S
        /\ <<"Failed", st = "failed">> \in S /\ <<"Completed", st = "completed">> \in S
        /\ <<"Running", st = "running">> \in S
    BY <1>1, <1>2, Zenon
  <2> QED BY <2>1, <1>3, Zenon DEF StartWrites
<1> QED BY <1>6, <1>7, <1>8, <1>9, <1>10, Zenon DEF S, Assignments

(* Taking the first assignment off a non-empty sequence.                   *)
LEMMA NextWrite ==
  ASSUME NEW w \in Assignments, w # <<>>
  PROVE  Tail(w) \in Assignments /\ Head(w)[1] \in Flags /\ Head(w)[2] \in BOOLEAN
<1>1. Tail(w) \in Assignments /\ Head(w) \in Flags \X BOOLEAN
  BY DEF Assignments
<1> QED BY <1>1, Zenon

---------------------------------------------------------------------------
(* Requests.                                                               *)

(* A handler without a request.                                            *)
LEMMA IdleOK == ReqOK(Idle)
  BY EmptyWrites, Zenon DEF ReqOK, Idle, Requests, Labels, DeployStates, AllOps

(* A request that is accepted and starts with a call.                      *)
LEMMA BeginOK ==
  ASSUME NEW o \in AllOps, NEW c \in made, made \subseteq Containers,
         NEW l \in Labels \ {"idle", "flags"}
  PROVE  /\ ReqOK([Idle EXCEPT !.op = o, !.con = c, !.pc = l])
         /\ \A t \in SUBSET (Names \cup ConfigMapKinds) :
              ReqOK([Idle EXCEPT !.op = o, !.con = c, !.pc = l, !.todo = t])
  BY EmptyWrites, Zenon DEF ReqOK, Idle, Requests, DeployStates

(* A request that is accepted and starts with its assignments.             *)
LEMMA BeginWritesOK ==
  ASSUME NEW o \in AllOps, NEW c \in made, made \subseteq Containers,
         NEW w \in Assignments, w # <<>>
  PROVE  ReqOK([Idle EXCEPT !.op = o, !.con = c, !.pc = "flags", !.writes = w])
  BY Zenon DEF ReqOK, Idle, Requests, DeployStates, Labels

(* A request that moves on to its next call.                               *)
LEMMA GotoOK ==
  ASSUME NEW r, ReqOK(r), r.pc # "idle", NEW l \in Labels \ {"idle", "flags"}
  PROVE  ReqOK([r EXCEPT !.pc = l])
  BY Zenon DEF ReqOK, Requests

(* A request that moves on to its assignments.                             *)
LEMMA AssignOK ==
  ASSUME NEW r, ReqOK(r), r.pc # "idle", NEW w \in Assignments, w # <<>>
  PROVE  ReqOK([r EXCEPT !.pc = "flags", !.writes = w])
  BY Zenon DEF ReqOK, Requests, Labels

(* A step of one handler keeps the invariant when the request it leaves is *)
(* sound and the other variables keep their types.                         *)
LEMMA Frame ==
  ASSUME Inv, NEW h \in Handlers, NEW r, ReqOK(r), req' = [req EXCEPT ![h] = r],
         ClusterTypeOK', rec' \in [Containers -> [Flags -> BOOLEAN]],
         made' = made, db' \subseteq made, attached' \in [Containers -> SUBSET Handlers],
         tunnels' \subseteq made, broken' \subseteq made, UNCHANGED <<aged, reaperVars>>
  PROVE  Inv'
<1>1. LifecycleTypeOK'
  BY Zenon DEF Inv, TypeOK, LifecycleTypeOK, ReqOK
<1>2. ReaperTypeOK'
  BY Zenon DEF Inv, TypeOK, ReaperTypeOK, reaperVars, Records, Objects
<1>3. \A g \in Handlers : ReqOK(req[g])'
  BY Zenon DEF Inv, TypeOK, LifecycleTypeOK, ReqOK
<1>4. ReaperOK'
  BY Zenon DEF Inv, ReaperOK, reaperVars, Objects
<1> QED BY <1>1, <1>2, <1>3, <1>4, Zenon DEF Inv, TypeOK
---------------------------------------------------------------------------
(* Backend.DeleteContainer, for the handlers and the reaper.               *)

(* The three parts of Backend.DeleteContainer keep the types of the        *)
(* cluster, whether the calls fail or not.                                 *)
LEMMA DeleteType ==
  ASSUME ClusterTypeOK, NEW c \in Containers, NEW ok \in BOOLEAN,
         deleteServices(c, ok) \/ deleteConfigMaps(c, ok) \/ deletePods(c, ok)
  PROVE  ClusterTypeOK'
<1>1. faults' \in 0 .. MaxFaults
  BY DEF ClusterTypeOK, deleteServices, deleteConfigMaps, deletePods, Call
<1>2. CASE deleteServices(c, ok)
  BY <1>1, <1>2, Zenon DEF ClusterTypeOK, deleteServices, Objects
<1>3. CASE deleteConfigMaps(c, ok)
  BY <1>1, <1>3 DEF ClusterTypeOK, deleteConfigMaps, Objects
<1>4. CASE deletePods(c, ok)
  BY <1>1, <1>4, Zenon DEF ClusterTypeOK, deletePods, DeletePod, Objects
<1> QED BY <1>2, <1>3, <1>4, Zenon

(* A call that touches nothing but the count of failures.                  *)
LEMMA CallType ==
  ASSUME ClusterTypeOK, NEW ok \in BOOLEAN, Call(ok),
         UNCHANGED <<pod, terminating, cm, svc, old>>
  PROVE  ClusterTypeOK'
<1>1. faults' \in 0 .. MaxFaults
  BY DEF ClusterTypeOK, Call
<1> QED BY <1>1, Zenon DEF ClusterTypeOK, Objects

(* The cluster is untouched.                                               *)
LEMMA SameCluster ==
  ASSUME ClusterTypeOK, UNCHANGED clusterVars
  PROVE  ClusterTypeOK'
  BY Zenon DEF ClusterTypeOK, clusterVars, Objects

---------------------------------------------------------------------------
(* Accepting a request keeps the invariant.                                *)
LEMMA RequestInv ==
  ASSUME Inv, NEW h \in Handlers, Request(h), UNCHANGED <<aged, reaperVars>>
  PROVE  Inv'
<1> PICK c \in Containers :
        \/ ContainerStart(h, c) \/ ContainerRestart(h, c) \/ ContainerStop(h, c)
        \/ ContainerKill(h, c) \/ ContainerDelete(h, c) \/ ContainerInfo(h, c)
        \/ ContainerWait(h, c) \/ ContainerAttach(h, c)
  BY Zenon DEF Request
<1>1. c \in made /\ made \subseteq Containers /\ ClusterTypeOK /\ LifecycleTypeOK
  BY Zenon DEF Inv, TypeOK, LifecycleTypeOK, Accept, ContainerStart, ContainerRestart, ContainerStop,
         ContainerKill, TakeDown, ContainerDelete, ContainerInfo, ContainerWait, ContainerAttach
<1>2. /\ {"files", "watch", "del_svc", "drop", "status", "poll", "hijack"} \subseteq Labels
      /\ {"start", "restart", "stop", "kill", "delete", "inspect", "wait", "attach"} \subseteq AllOps
      /\ Files[c] \in SUBSET (Names \cup ConfigMapKinds)
  BY Zenon DEF Labels, AllOps
<1>3. ClusterTypeOK'
  BY <1>1, SameCluster, Zenon DEF clusterVars, ContainerStart, ContainerRestart, ContainerStop,
         ContainerKill, TakeDown, ContainerDelete, ContainerInfo, ContainerWait, ContainerAttach
<1>4. /\ made' = made /\ db' \subseteq made /\ rec' \in [Containers -> [Flags -> BOOLEAN]]
      /\ attached' \in [Containers -> SUBSET Handlers]
      /\ tunnels' \subseteq made /\ broken' \subseteq made
  BY <1>1, Zenon DEF LifecycleTypeOK, ContainerStart, ContainerRestart, ContainerStop, ContainerKill,
         TakeDown, ContainerDelete, ContainerInfo, ContainerWait, ContainerAttach, Signal, Break
<1>5. CASE ContainerStart(h, c)
  BY <1>1, <1>2, <1>3, <1>4, <1>5, BeginOK, Frame, Zenon DEF ContainerStart, EnterStart
<1>6. CASE ContainerRestart(h, c)
  BY <1>1, <1>2, <1>3, <1>4, <1>6, BeginOK, Frame, Zenon DEF ContainerRestart, Begin
<1>7. ASSUME NEW o \in {"stop", "kill"}, NEW w \in Assignments, w # <<>>, TakeDown(h, o, c, w)
      PROVE  Inv'
  <2>1. o \in AllOps
    BY <1>2, Zenon
  <2>2. CASE Down(c)
    <3>1. req' = [req EXCEPT ![h] = [Idle EXCEPT !.op = o, !.con = c, !.pc = "flags",
                                                 !.writes = w]]
      BY <1>7, <2>2, Zenon DEF TakeDown
    <3> QED BY <1>1, <1>3, <1>4, <1>7, <2>1, <3>1, BeginWritesOK, Frame, Zenon
  <2>3. CASE ~Down(c)
    <3>1. req' = [req EXCEPT ![h] = [Idle EXCEPT !.op = o, !.con = c, !.pc = "del_svc"]]
      BY <1>7, <2>3, Zenon DEF TakeDown
    <3> QED BY <1>1, <1>2, <1>3, <1>4, <2>1, <3>1, BeginOK, Frame, Zenon
  <2> QED BY <2>2, <2>3, Zenon
<1>8. CASE ContainerStop(h, c)
  BY <1>7, <1>8, WritesType, Zenon DEF ContainerStop
<1>9. CASE ContainerKill(h, c)
  BY <1>7, <1>9, WritesType, Zenon DEF ContainerKill
<1>10. CASE ContainerDelete(h, c)
  <2>1. PICK l \in {"drop", "del_svc"} : Begin(h, "delete", c, l)
    BY <1>10, Zenon DEF ContainerDelete
  <2>2. l \in Labels \ {"idle", "flags"}
    BY Zenon DEF Labels
  <2> QED BY <1>1, <1>2, <1>3, <1>4, <2>1, <2>2, BeginOK, Frame, Zenon DEF Begin
<1>11. CASE ContainerInfo(h, c)
  BY <1>1, <1>2, <1>3, <1>4, <1>11, BeginOK, Frame, Zenon DEF ContainerInfo, Begin
<1>12. CASE ContainerWait(h, c)
  BY <1>1, <1>2, <1>3, <1>4, <1>12, BeginOK, Frame, Zenon DEF ContainerWait, Begin
<1>13. CASE ContainerAttach(h, c)
  BY <1>1, <1>2, <1>3, <1>4, <1>13, BeginOK, Frame, Zenon DEF ContainerAttach, Begin, EnterStart
<1> QED BY <1>5, <1>6, <1>8, <1>9, <1>10, <1>11, <1>12, <1>13, Zenon
---------------------------------------------------------------------------
(* The steps of Backend.DeleteContainer, of the watch of a restart and of  *)
(* the removal of the record keep the invariant.                           *)
LEMMA TakeDownInv ==
  ASSUME Inv, NEW h \in Handlers, UNCHANGED <<aged, reaperVars>>,
         \/ DeleteServices(h) \/ DeleteConfigMaps(h) \/ DeletePods(h) \/ DropRecord(h)
         \/ WatchDeleteContainer(h) \/ WatchTimeout(h) \/ AwaitDeleted(h)
  PROVE  Inv'
<1> DEFINE r == req[h]
           c == r.con
<1>1. ReqOK(r) /\ ClusterTypeOK /\ LifecycleTypeOK /\ made \subseteq Containers
  BY Zenon DEF Inv, TypeOK, LifecycleTypeOK
<1>2. {"del_cm", "del_pod", "drop", "del_svc", "files"} \subseteq Labels /\ "start" \in AllOps
  BY Zenon DEF Labels, AllOps
<1>3. CASE DeleteServices(h)
  <2>1. r.pc # "idle" /\ c \in made
    BY <1>1, <1>3, Zenon DEF DeleteServices, At, ReqOK
  <2>2. ClusterTypeOK' /\ broken' \subseteq made
    BY <1>1, <1>3, <2>1, DeleteType, ZenonT(30) DEF DeleteServices, Break, Con, LifecycleTypeOK
  <2>3. req' = [req EXCEPT ![h] = [r EXCEPT !.pc = "del_cm"]]
    BY <1>3, Zenon DEF DeleteServices, Goto
  <2>4. ReqOK([r EXCEPT !.pc = "del_cm"])
    BY <1>1, <1>2, <2>1, GotoOK, Zenon
  <2> QED BY <1>1, <1>3, <2>2, <2>3, <2>4, Frame, Zenon DEF DeleteServices, LifecycleTypeOK
<1>4. CASE DeleteConfigMaps(h)
  <2>1. r.pc # "idle" /\ c \in made
    BY <1>1, <1>4, Zenon DEF DeleteConfigMaps, At, ReqOK
  <2>2. ClusterTypeOK' /\ broken' \subseteq made
    BY <1>1, <1>4, <2>1, DeleteType, ZenonT(30) DEF DeleteConfigMaps, Break, Con, LifecycleTypeOK
  <2>3. req' = [req EXCEPT ![h] = [r EXCEPT !.pc = "del_pod"]]
    BY <1>4, Zenon DEF DeleteConfigMaps, Goto
  <2>4. ReqOK([r EXCEPT !.pc = "del_pod"])
    BY <1>1, <1>2, <2>1, GotoOK, Zenon
  <2> QED BY <1>1, <1>4, <2>2, <2>3, <2>4, Frame, Zenon DEF DeleteConfigMaps, LifecycleTypeOK
<1>5. CASE DeletePods(h)
  <2>1. r.pc # "idle" /\ c \in made
    BY <1>1, <1>5, Zenon DEF DeletePods, At, ReqOK
  <2>2. ClusterTypeOK' /\ broken' \subseteq made
    <3>1. PICK ok \in BOOLEAN : deletePods(c, ok) /\ Break(c, ok)
      BY <1>1, <1>5, Zenon DEF DeletePods, Con
    <3>2. ClusterTypeOK'
      BY <1>1, <2>1, <3>1, DeleteType, ZenonT(30) DEF LifecycleTypeOK
    <3>3. broken \subseteq made
      BY <1>1, Zenon DEF LifecycleTypeOK
    <3> QED BY <2>1, <3>1, <3>2, <3>3, Zenon DEF Break
  <2>3. /\ attached' \in [Containers -> SUBSET Handlers] /\ tunnels' \subseteq made
        /\ UNCHANGED <<rec, made, db>>
    BY <1>1, <1>5, Zenon DEF DeletePods, Signal, LifecycleTypeOK
  <2>4. ASSUME NEW q, ReqOK(q), req' = [req EXCEPT ![h] = q]
        PROVE  Inv'
    BY <1>1, <2>2, <2>3, <2>4, Frame, Zenon DEF LifecycleTypeOK
  <2>5. CASE r.op = "delete"
    <3>1. req' = [req EXCEPT ![h] = [r EXCEPT !.pc = "drop"]]
      BY <1>5, <2>5, Zenon DEF DeletePods, Goto
    <3> QED BY <1>1, <1>2, <2>1, <2>4, <3>1, GotoOK, Zenon
  <2>6. CASE r.op # "delete"
    <3> DEFINE w == IF r.op = "kill" THEN KillWrites ELSE StopWrites
    <3>1. req' = [req EXCEPT ![h] = [r EXCEPT !.pc = "flags", !.writes = w]]
      BY <1>5, <2>6, Zenon DEF DeletePods, Assign
    <3>2. w \in Assignments /\ w # <<>>
      BY WritesType, Zenon
    <3> QED BY <1>1, <2>1, <2>4, <3>1, <3>2, AssignOK, Zenon
  <2> QED BY <2>5, <2>6, Zenon
<1>6. CASE DropRecord(h)
  <2>1. ClusterTypeOK'
    BY <1>1, <1>6, SameCluster, Zenon DEF DropRecord
  <2> QED BY <1>1, <1>6, <2>1, IdleOK, Frame, Zenon DEF DropRecord, Return, LifecycleTypeOK
<1>7. CASE WatchDeleteContainer(h)
  <2>1. r.pc # "idle"
    BY <1>7, Zenon DEF WatchDeleteContainer, At
  <2>2. ClusterTypeOK'
    BY <1>1, <1>7, CallType, Zenon DEF WatchDeleteContainer
  <2>3. PICK w \in {"armed", "nil"} :
          req' = [req EXCEPT ![h] = [r EXCEPT !.pc = "del_svc", !.watch = w]]
    BY <1>7, Zenon DEF WatchDeleteContainer
  <2>4. ReqOK([r EXCEPT !.pc = "del_svc", !.watch = w])
    BY <1>1, <1>2, <2>1, Zenon DEF ReqOK, Requests
  <2> QED BY <1>1, <1>7, <2>2, <2>3, <2>4, Frame, Zenon DEF WatchDeleteContainer, LifecycleTypeOK
<1>8. CASE WatchTimeout(h)
  <2>1. ClusterTypeOK'
    BY <1>1, <1>8, SameCluster, Zenon DEF WatchTimeout
  <2>2. req' = [req EXCEPT ![h] = [r EXCEPT !.watch = "closed"]]
    BY <1>8, Zenon DEF WatchTimeout
  <2>3. ReqOK([r EXCEPT !.watch = "closed"])
    BY <1>1, Zenon DEF ReqOK, Requests
  <2> QED BY <1>1, <1>8, <2>1, <2>2, <2>3, Frame, Zenon DEF WatchTimeout, LifecycleTypeOK
<1>9. CASE AwaitDeleted(h)
  <2>1. c \in made /\ Files[c] \in SUBSET (Names \cup ConfigMapKinds)
    BY <1>1, <1>9, Zenon DEF AwaitDeleted, At, ReqOK
  <2>2. ClusterTypeOK'
    BY <1>1, <1>9, SameCluster, Zenon DEF AwaitDeleted
  <2>3. req' = [req EXCEPT ![h] = [Idle EXCEPT !.op = "start", !.con = c, !.pc = "files",
                                               !.todo = Files[c]]]
    BY <1>9, Zenon DEF AwaitDeleted, EnterStart, Con
  <2>4. ReqOK([Idle EXCEPT !.op = "start", !.con = c, !.pc = "files", !.todo = Files[c]])
    BY <1>1, <1>2, <2>1, BeginOK, Zenon
  <2> QED BY <1>1, <1>9, <2>2, <2>3, <2>4, Frame, Zenon DEF AwaitDeleted, LifecycleTypeOK
<1> QED BY <1>3, <1>4, <1>5, <1>6, <1>7, <1>8, <1>9, Zenon
---------------------------------------------------------------------------
(* The steps of StartContainer keep the invariant.                         *)
LEMMA StartUpInv ==
  ASSUME Inv, NEW h \in Handlers, UNCHANGED <<aged, reaperVars>>,
         \/ CreateConfigMap(h) \/ CreatePod(h) \/ CopyVolumes(h) \/ AwaitReady(h)
         \/ CreateService(h) \/ PublishPorts(h) \/ AbortStart(h)
  PROVE  Inv'
<1> DEFINE r == req[h]
           c == r.con
<1>1. /\ ReqOK(r) /\ ClusterTypeOK /\ LifecycleTypeOK /\ made \subseteq Containers
      /\ r.pc # "idle" /\ c \in made /\ c \in Containers
  BY Zenon DEF Inv, TypeOK, LifecycleTypeOK, ReqOK, At, CreateConfigMap, CreatePod, CopyVolumes,
         AwaitReady, CreateService, PublishPorts, AbortStart
<1>2. {"abort", "copy", "ready", "svc"} \subseteq Labels
  BY Zenon DEF Labels
<1>3. \A t \in SUBSET r.todo : ReqOK([r EXCEPT !.todo = t]) \/ r.pc = "flags"
  BY <1>1, Zenon DEF ReqOK, Requests
<1>4. \A l \in {"abort", "copy", "ready", "svc"} : ReqOK([r EXCEPT !.pc = l])
  BY <1>1, <1>2, GotoOK, Zenon
<1>5. CASE CreateConfigMap(h)
  <2> DEFINE k == IF "vf" \in r.todo THEN "vf" ELSE "pf"
  <2>1. PICK ok \in BOOLEAN :
          /\ Call(ok)
          /\ IF ok /\ k \notin cm[c]
             THEN req' = [req EXCEPT ![h] = [r EXCEPT !.todo = r.todo \ {k}]]
             ELSE req' = [req EXCEPT ![h] = [r EXCEPT !.pc = "abort"]]
          /\ \/ cm' = [cm EXCEPT ![c] = @ \cup {k}]
             \/ UNCHANGED cm
    BY <1>5, Zenon DEF CreateConfigMap, Goto, Con
  <2>2. ClusterTypeOK'
    <3>1. faults' \in 0 .. MaxFaults
      BY <1>1, <2>1 DEF Call, ClusterTypeOK
    <3>2. cm' \in [Containers -> SUBSET ConfigMapKinds]
      BY <1>1, <2>1 DEF ClusterTypeOK, ConfigMapKinds
    <3> QED BY <1>1, <1>5, <3>1, <3>2, Zenon DEF ClusterTypeOK, CreateConfigMap, Objects
  <2>3. ASSUME NEW q, ReqOK(q), req' = [req EXCEPT ![h] = q]
        PROVE  Inv'
    BY <1>1, <1>5, <2>2, <2>3, Frame, Zenon DEF CreateConfigMap, LifecycleTypeOK
  <2>4. r.pc # "flags"
    BY <1>5, Zenon DEF CreateConfigMap, At
  <2> QED BY <1>3, <1>4, <2>1, <2>3, <2>4, Zenon
<1>6. CASE CreatePod(h)
  <2>1. PICK ok \in BOOLEAN :
          /\ Call(ok)
          /\ req' = [req EXCEPT ![h].pc = IF ~ok THEN "abort"
                                          ELSE IF c \in Setup THEN "copy" ELSE "ready",
                                ![h].dup = ok /\ pod[c] # "none"]
    BY <1>6, Zenon DEF CreatePod, Con
  <2> DEFINE l == IF ~ok THEN "abort" ELSE IF c \in Setup THEN "copy" ELSE "ready"
             d == ok /\ pod[c] # "none"
  <2>2. ClusterTypeOK'
    <3>1. faults' \in 0 .. MaxFaults
      BY <1>1, <2>1 DEF Call, ClusterTypeOK
    <3>2. pod' \in [Containers -> Phases]
      BY <1>1, <1>6, ZenonT(30) DEF CreatePod, Con, ClusterTypeOK, Phases
    <3> QED BY <1>1, <1>6, <3>1, <3>2, Zenon DEF ClusterTypeOK, CreatePod, Objects
  <2>3. l \in {"abort", "copy", "ready"} /\ d \in BOOLEAN
    BY Zenon
  <2>4. req' = [req EXCEPT ![h] = [r EXCEPT !.pc = l, !.dup = d]]
    BY <2>1, Zenon
  <2> HIDE DEF l, d
  <2>5. ReqOK([r EXCEPT !.pc = l, !.dup = d])
    BY <1>1, <1>2, <2>3, Zenon DEF ReqOK, Requests
  <2> QED BY <1>1, <1>6, <2>2, <2>4, <2>5, Frame, Zenon DEF CreatePod, LifecycleTypeOK
<1>7. CASE CopyVolumes(h)
  <2>1. PICK l \in {"abort", "ready"} : req' = [req EXCEPT ![h] = [r EXCEPT !.pc = l]]
    BY <1>7, Zenon DEF CopyVolumes, Goto
  <2>2. ClusterTypeOK'
    <3>1. faults' \in 0 .. MaxFaults
      <4>1. \E ok \in BOOLEAN : Call(ok)
        BY <1>7, Zenon DEF CopyVolumes
      <4> QED BY <1>1, <4>1 DEF Call, ClusterTypeOK
    <3>2. pod' \in [Containers -> Phases]
      BY <1>1, <1>7, Zenon DEF CopyVolumes, Con, ClusterTypeOK, Phases
    <3> QED BY <1>1, <1>7, <3>1, <3>2, Zenon DEF ClusterTypeOK, CopyVolumes, Objects
  <2> QED BY <1>1, <1>4, <1>7, <2>1, <2>2, Frame, Zenon DEF CopyVolumes, LifecycleTypeOK
<1>8. CASE AwaitReady(h)
  <2>1. PICK ok \in BOOLEAN :
          /\ Call(ok)
          /\ IF ContainerStatus(c, ok) \in {"running", "completed"}
             THEN req' = [req EXCEPT ![h].pc = "svc", ![h].st = ContainerStatus(c, ok),
                                     ![h].todo = Aliases[c]]
             ELSE req' = [req EXCEPT ![h].pc = "abort"]
    BY <1>8, Zenon DEF AwaitReady, Goto, Con
  <2>2. ClusterTypeOK'
    BY <1>1, <1>8, <2>1, CallType, Zenon DEF AwaitReady
  <2>3. ASSUME NEW q, ReqOK(q), req' = [req EXCEPT ![h] = q]
        PROVE  Inv'
    BY <1>1, <1>8, <2>2, <2>3, Frame, Zenon DEF AwaitReady, LifecycleTypeOK
  <2>4. ASSUME NEW st \in {"running", "completed"}
        PROVE  ReqOK([r EXCEPT !.pc = "svc", !.st = st, !.todo = Aliases[c]])
    BY <1>1, <1>2, Zenon DEF ReqOK, Requests, DeployStates
  <2> QED BY <1>4, <2>1, <2>3, <2>4
<1>9. CASE CreateService(h)
  <2>1. PICK n \in r.todo, ok \in BOOLEAN :
          /\ Call(ok)
          /\ \/ req' = [req EXCEPT ![h] = Idle]
             \/ req' = [req EXCEPT ![h] = [r EXCEPT !.todo = {}]]
             \/ req' = [req EXCEPT ![h] = [r EXCEPT !.todo = r.todo \ {n}]]
          /\ broken' \subseteq made
          /\ svc' \in [Names -> Containers \cup {NoContainer}]
    BY <1>1, <1>9, ZenonT(60)
       DEF CreateService, Return, Con, Break, LifecycleTypeOK, ClusterTypeOK
  <2>2. ClusterTypeOK'
    <3>1. faults' \in 0 .. MaxFaults
      BY <1>1, <2>1 DEF Call, ClusterTypeOK
    <3> QED BY <1>1, <1>9, <2>1, <3>1, Zenon DEF ClusterTypeOK, CreateService, Objects
  <2>3. ASSUME NEW q, ReqOK(q), req' = [req EXCEPT ![h] = q]
        PROVE  Inv'
    BY <1>1, <1>9, <2>1, <2>2, <2>3, Frame, Zenon DEF CreateService, LifecycleTypeOK
  <2>4. r.pc # "flags"
    BY <1>9, Zenon DEF CreateService, At
  <2> QED BY <1>3, <2>1, <2>3, <2>4, IdleOK, Zenon
<1>10. CASE PublishPorts(h)
  <2>1. PICK ok \in BOOLEAN :
          /\ Call(ok)
          /\ \/ req' = [req EXCEPT ![h] = Idle]
             \/ req' = [req EXCEPT ![h] = [r EXCEPT !.pc = "flags", !.writes = StartWrites(r.st)]]
          /\ broken' \subseteq made
          /\ tunnels' \subseteq made
    BY <1>1, <1>10, Zenon DEF PublishPorts, Return, Assign, Con, Break, LifecycleTypeOK
  <2>2. ClusterTypeOK'
    BY <1>1, <1>10, <2>1, CallType, Zenon DEF PublishPorts
  <2>3. ASSUME NEW q, ReqOK(q), req' = [req EXCEPT ![h] = q]
        PROVE  Inv'
    BY <1>1, <1>10, <2>1, <2>2, <2>3, Frame, Zenon DEF PublishPorts, LifecycleTypeOK
  <2>4. r.st \in DeployStates
    BY <1>1, Zenon DEF ReqOK, Requests
  <2> QED BY <1>1, <2>1, <2>3, <2>4, IdleOK, WritesType, AssignOK, Zenon
<1>11. CASE AbortStart(h)
  <2>1. ClusterTypeOK' /\ broken' \subseteq made
    BY <1>1, <1>11, DeleteType, ZenonT(30) DEF AbortStart, Break, Con, LifecycleTypeOK
  <2> QED BY <1>1, <1>11, <2>1, IdleOK, Frame, Zenon DEF AbortStart, Return, LifecycleTypeOK
<1> QED BY <1>5, <1>6, <1>7, <1>8, <1>9, <1>10, <1>11, Zenon
---------------------------------------------------------------------------
(* Assignments to the record, SaveContainer, the status polls and the      *)
(* attach sessions keep the invariant.                                     *)
LEMMA RecordInv ==
  ASSUME Inv, NEW h \in Handlers, UNCHANGED <<aged, reaperVars>>,
         \/ WriteFlag(h) \/ SaveContainer(h) \/ UpdateContainerStatus(h) \/ Poll(h)
         \/ PollLimited(h) \/ CheckDone(h) \/ Hijack(h) \/ Detached(h) \/ StreamEnds(h)
         \/ ClientGone(h)
  PROVE  Inv'
<1> DEFINE r == req[h]
           c == r.con
<1>1. /\ ReqOK(r) /\ ClusterTypeOK /\ LifecycleTypeOK /\ made \subseteq Containers
      /\ r.pc # "idle" /\ c \in made /\ c \in Containers
  BY Zenon DEF Inv, TypeOK, LifecycleTypeOK, ReqOK, At, WriteFlag, SaveContainer,
         UpdateContainerStatus, Poll, PollLimited, CheckDone, Hijack, Detached, StreamEnds,
         ClientGone
<1>2. ASSUME NEW l \in {"save", "check", "deleted", "hijack", "status", "poll", "attached"}
      PROVE  ReqOK([r EXCEPT !.pc = l])
  <2>1. l \in Labels /\ l # "flags"
    BY Zenon DEF Labels
  <2> QED BY <1>1, <2>1, GotoOK, Zenon
<1>3. CASE WriteFlag(h)
  <2> DEFINE w == Head(r.writes)
             rest == Tail(r.writes)
             next == IF rest # <<>> THEN "flags" ELSE IF r.op = "wait" THEN "check" ELSE "save"
  <2>1. r.writes \in Assignments /\ r.writes # <<>>
    BY <1>1, <1>3, Zenon DEF ReqOK, Requests, WriteFlag, At
  <2>2. rest \in Assignments /\ w[1] \in Flags /\ w[2] \in BOOLEAN
    BY <2>1, NextWrite, Zenon
  <2>3. rec' \in [Containers -> [Flags -> BOOLEAN]]
    <3>1. rec' = [rec EXCEPT ![c][w[1]] = w[2]]
      BY <1>3, Zenon DEF WriteFlag, Con
    <3> HIDE DEF w
    <3> QED BY <1>1, <2>2, <3>1, Zenon DEF LifecycleTypeOK
  <2>4. ClusterTypeOK'
    BY <1>1, <1>3, SameCluster, Zenon DEF WriteFlag
  <2>5. ASSUME NEW q, ReqOK(q), req' = [req EXCEPT ![h] = q]
        PROVE  Inv'
    BY <1>1, <1>3, <2>3, <2>4, <2>5, Frame, Zenon DEF WriteFlag, LifecycleTypeOK
  <2>6. CASE rest = <<>> /\ r.op = "inspect"
    BY <1>3, <2>5, <2>6, IdleOK, Zenon DEF WriteFlag
  <2>7. CASE ~(rest = <<>> /\ r.op = "inspect")
    <3>1. req' = [req EXCEPT ![h] = [r EXCEPT !.writes = rest, !.pc = next]]
      BY <1>3, <2>7, Zenon DEF WriteFlag
    <3>2. next \in Labels /\ (next = "flags" => rest # <<>>) /\ next # "idle"
      BY Zenon DEF Labels
    <3> HIDE DEF rest, next
    <3>3. ReqOK([r EXCEPT !.writes = rest, !.pc = next])
      BY <1>1, <2>2, <3>2, Zenon DEF ReqOK, Requests
    <3> QED BY <2>5, <3>1, <3>3, Zenon
  <2> QED BY <2>6, <2>7, Zenon
<1>4. CASE SaveContainer(h)
  <2>1. ClusterTypeOK' /\ db' \subseteq made
    BY <1>1, <1>4, SameCluster, Zenon DEF SaveContainer, Con, LifecycleTypeOK
  <2>2. ASSUME NEW q, ReqOK(q), req' = [req EXCEPT ![h] = q]
        PROVE  Inv'
    BY <1>1, <1>4, <2>1, <2>2, Frame, Zenon DEF SaveContainer, LifecycleTypeOK
  <2>3. \/ req' = [req EXCEPT ![h] = Idle]
        \/ req' = [req EXCEPT ![h] = [r EXCEPT !.pc = "deleted"]]
        \/ req' = [req EXCEPT ![h] = [r EXCEPT !.pc = "hijack"]]
    BY <1>4, Zenon DEF SaveContainer, Goto, Return
  <2> QED BY <1>2, <2>2, <2>3, IdleOK, Zenon
<1>5. CASE UpdateContainerStatus(h)
  <2>1. ClusterTypeOK'
    BY <1>1, <1>5, CallType, Zenon DEF UpdateContainerStatus
  <2>2. ASSUME NEW q, ReqOK(q), req' = [req EXCEPT ![h] = q]
        PROVE  Inv'
    BY <1>1, <1>5, <2>1, <2>2, Frame, Zenon DEF UpdateContainerStatus, LifecycleTypeOK
  <2>3. \/ req' = [req EXCEPT ![h].pc = "flags", ![h].writes = FailedWrites]
        \/ req' = [req EXCEPT ![h].pc = "flags", ![h].writes = CompletedWrites]
        \/ req' = [req EXCEPT ![h].pc = "check"]
        \/ req' = [req EXCEPT ![h] = Idle]
    BY <1>5, Zenon DEF UpdateContainerStatus, Assign, Goto, Return
  <2>4. /\ ReqOK([r EXCEPT !.pc = "flags", !.writes = FailedWrites])
        /\ ReqOK([r EXCEPT !.pc = "flags", !.writes = CompletedWrites])
    BY <1>1, WritesType, AssignOK, Zenon
  <2>5. CASE \/ req' = [req EXCEPT ![h].pc = "flags", ![h].writes = FailedWrites]
             \/ req' = [req EXCEPT ![h].pc = "flags", ![h].writes = CompletedWrites]
    <3>1. \/ req' = [req EXCEPT ![h] = [r EXCEPT !.pc = "flags", !.writes = FailedWrites]]
          \/ req' = [req EXCEPT ![h] = [r EXCEPT !.pc = "flags", !.writes = CompletedWrites]]
      BY <1>1, <2>5, Zenon DEF LifecycleTypeOK
    <3> QED BY <2>2, <2>4, <3>1, Zenon
  <2>6. CASE req' = [req EXCEPT ![h].pc = "check"]
    <3>1. req' = [req EXCEPT ![h] = [r EXCEPT !.pc = "check"]]
      BY <1>1, <2>6, Zenon DEF LifecycleTypeOK
    <3> QED BY <1>2, <2>2, <3>1, Zenon
  <2> QED BY <2>2, <2>3, <2>5, <2>6, IdleOK, Zenon
<1>6. CASE Poll(h) \/ PollLimited(h) \/ CheckDone(h) \/ ClientGone(h)
  <2>1. ClusterTypeOK'
    BY <1>1, <1>6, SameCluster, Zenon DEF Poll, PollLimited, CheckDone, ClientGone
  <2>2. ASSUME NEW q, ReqOK(q), req' = [req EXCEPT ![h] = q]
        PROVE  Inv'
    BY <1>1, <1>6, <2>1, <2>2, Frame, Zenon
       DEF Poll, PollLimited, CheckDone, ClientGone, LifecycleTypeOK
  <2>3. \/ req' = [req EXCEPT ![h] = Idle]
        \/ req' = [req EXCEPT ![h] = [r EXCEPT !.pc = "status"]]
        \/ req' = [req EXCEPT ![h] = [r EXCEPT !.pc = "poll"]]
    BY <1>6, Zenon DEF Poll, PollLimited, CheckDone, ClientGone, Goto, Return
  <2> QED BY <1>2, <2>2, <2>3, IdleOK, Zenon
<1>7. CASE Hijack(h) \/ Detached(h) \/ StreamEnds(h)
  <2>1. ClusterTypeOK'
    BY <1>1, <1>7, SameCluster, Zenon DEF Hijack, Detached, StreamEnds, FinishAttach
  <2>2. attached' \in [Containers -> SUBSET Handlers]
    <3>1. attached \in [Containers -> SUBSET Handlers]
      BY <1>1, Zenon DEF LifecycleTypeOK
    <3>2. \/ attached' = [attached EXCEPT ![c] = @ \cup {h}]
          \/ attached' = [attached EXCEPT ![c] = {}]
          \/ attached' = attached
      BY <1>7, Zenon DEF Hijack, Detached, StreamEnds, FinishAttach, Con
    <3>3. c \in Containers
      BY <1>1, Zenon
    <3> HIDE DEF c
    <3> QED BY ONLY <3>1, <3>2, <3>3, h \in Handlers, Zenon
  <2>3. ASSUME NEW q, ReqOK(q), req' = [req EXCEPT ![h] = q]
        PROVE  Inv'
    <3>1. UNCHANGED <<rec, made, db, tunnels, broken>>
      BY <1>7, Zenon DEF Hijack, Detached, StreamEnds, FinishAttach
    <3> QED BY <1>1, <2>1, <2>2, <2>3, <3>1, Frame, Zenon DEF LifecycleTypeOK
  <2>4. \/ req' = [req EXCEPT ![h] = Idle]
        \/ req' = [req EXCEPT ![h] = [r EXCEPT !.pc = "attached"]]
    BY <1>7, Zenon DEF Hijack, Detached, StreamEnds, FinishAttach, Goto, Return
  <2> QED BY <1>2, <2>3, <2>4, IdleOK, Zenon
<1> QED BY <1>3, <1>4, <1>5, <1>6, <1>7, Zenon
---------------------------------------------------------------------------
(* Every step of a request keeps the invariant.                            *)
LEMMA ApiInv ==
  ASSUME Inv, NEW h \in Handlers, ApiStep(h)
  PROVE  Inv'
  BY RequestInv, TakeDownInv, StartUpInv, RecordInv, Zenon DEF ApiStep, HandlerStep, Proceed

(* ContainerCreate adds a container to the ones a request may hold.        *)
LEMMA CreateInv ==
  ASSUME Inv, CreateStep
  PROVE  Inv'
<1>1. PICK c \in Containers : ContainerCreate(c) /\ UNCHANGED <<aged, reaperVars>>
  BY Zenon DEF CreateStep
<1>2. ClusterTypeOK'
  BY <1>1, SameCluster, Zenon DEF ContainerCreate, Inv, TypeOK
<1>3. made \subseteq made' /\ made' \subseteq Containers
  BY <1>1, Zenon DEF ContainerCreate, Inv, TypeOK, LifecycleTypeOK
<1>4. LifecycleTypeOK'
  BY <1>1, Zenon DEF ContainerCreate, Inv, TypeOK, LifecycleTypeOK
<1>5. (\A h \in Handlers : ReqOK(req[h]))'
  BY <1>1, <1>3, Zenon DEF ContainerCreate, Inv, ReqOK
<1>6. ReaperTypeOK' /\ ReaperOK'
  BY <1>1, <1>3, Zenon DEF Inv, TypeOK, ReaperTypeOK, ReaperOK, reaperVars
<1> QED BY <1>2, <1>4, <1>5, <1>6, Zenon DEF Inv, TypeOK

(* Steps of Kubernetes and of time change no request, and of the reaper's  *)
(* state at most which containers are old.                                 *)
LEMMA Surroundings ==
  ASSUME Inv, ClusterTypeOK', UNCHANGED <<handlerVars, reaperVars>>, aged' \subseteq made
  PROVE  Inv'
<1>1. LifecycleTypeOK'
  BY Zenon DEF Inv, TypeOK, LifecycleTypeOK, handlerVars
<1>2. (\A h \in Handlers : ReqOK(req[h]))'
  BY Zenon DEF Inv, ReqOK, handlerVars
<1>3. ReaperTypeOK' /\ ReaperOK'
  BY Zenon DEF Inv, TypeOK, ReaperTypeOK, ReaperOK, reaperVars, handlerVars
<1> QED BY <1>1, <1>2, <1>3, Zenon DEF Inv, TypeOK
(* What Kubernetes does by itself keeps the invariant.                     *)
LEMMA KubernetesInv ==
  ASSUME Inv, KubernetesStep
  PROVE  Inv'
<1>1. PICK c \in Containers :
        \/ PodGone(c)
        \/ /\ \/ InitContainerRuns(c) \/ MainContainerRuns(c) \/ MainContainerExits(c)
              \/ PodFails(c) \/ Evict(c)
           /\ UNCHANGED handlerVars
  BY Zenon DEF KubernetesStep, ClusterStep
<1>2. UNCHANGED <<aged, reaperVars>> /\ ClusterTypeOK /\ aged \subseteq made
  BY Zenon DEF KubernetesStep, Inv, TypeOK, ReaperTypeOK
<1>3. CASE PodGone(c)
  <2>1. ClusterTypeOK'
    BY <1>2, <1>3, Zenon DEF PodGone, Vanish, ClusterTypeOK, Phases
  <2>2. req' \in [Handlers -> Requests] /\ (\A h \in Handlers : ReqOK(req[h]))'
    <3>1. ASSUME NEW h \in Handlers
          PROVE  ReqOK(req[h])'
      BY <1>3, <3>1 DEF PodGone, Inv, ReqOK, Requests
    <3>2. DOMAIN req' = Handlers /\ req' = [h \in Handlers |-> req'[h]]
      BY <1>3, Zenon DEF PodGone
    <3> QED BY <3>1, <3>2, Zenon DEF ReqOK
  <2>3. LifecycleTypeOK'
    BY <1>3, <2>2, Zenon DEF PodGone, Inv, TypeOK, LifecycleTypeOK
  <2>4. ReaperTypeOK' /\ ReaperOK'
    BY <1>2, <1>3, Zenon DEF PodGone, Inv, TypeOK, ReaperTypeOK, ReaperOK, reaperVars
  <2> QED BY <2>1, <2>2, <2>3, <2>4, Zenon DEF Inv, TypeOK
<1>4. CASE /\ \/ InitContainerRuns(c) \/ MainContainerRuns(c) \/ MainContainerExits(c)
              \/ PodFails(c)
           /\ UNCHANGED handlerVars
  <2>1. ClusterTypeOK'
    BY <1>2, <1>4, Zenon DEF InitContainerRuns, MainContainerRuns, MainContainerExits, PodFails,
                      PodStep, ClusterTypeOK, Phases
  <2> QED BY <1>2, <1>4, <2>1, Surroundings, Zenon
<1>5. CASE Evict(c) /\ UNCHANGED handlerVars
  <2>1. ClusterTypeOK'
    BY <1>2, <1>5 DEF Evict, Call, DeletePod, ClusterTypeOK
  <2> QED BY <1>2, <1>5, <2>1, Surroundings, Zenon
<1> QED BY <1>1, <1>3, <1>4, <1>5, Zenon

(* The passing of time keeps the invariant.                                *)
LEMMA TimeInv ==
  ASSUME Inv, TimeStep
  PROVE  Inv'
<1>1. ClusterTypeOK /\ aged \subseteq made
  BY Zenon DEF Inv, TypeOK, ReaperTypeOK
<1>2. ASSUME NEW c \in Containers, AgeRecord(c)
      PROVE  Inv'
  <2>1. ClusterTypeOK' /\ aged' \subseteq made
    BY <1>1, <1>2, SameCluster, Zenon DEF AgeRecord
  <2> QED BY <1>2, <2>1, Surroundings, Zenon DEF AgeRecord
<1>3. ASSUME NEW o \in Objects, AgeObject(o)
      PROVE  Inv'
  <2>1. ClusterTypeOK' /\ aged' \subseteq made
    BY <1>1, <1>3, Zenon DEF AgeObject, Age, ClusterTypeOK
  <2> QED BY <1>3, <2>1, Surroundings, Zenon DEF AgeObject
<1> QED BY <1>2, <1>3, Zenon DEF TimeStep

(* The reaper's steps keep the invariant when they keep the types of the   *)
(* cluster and of their own state.                                         *)
LEMMA ReaperFrame ==
  ASSUME Inv, ClusterTypeOK', UNCHANGED <<rec, made, attached, tunnels, req, aged>>,
         db' \subseteq made, broken' \subseteq made,
         ReaperOK', rcur' \in made \cup {NoContainer}, sweep' \in 1 .. 4,
         rpc' \in {"sleep", "records", "del_svc", "del_cm", "del_pod", "drop", "list", "sweep"},
         rlist' \subseteq (Records \cup Objects)
  PROVE  Inv'
<1>1. LifecycleTypeOK'
  BY Zenon DEF Inv, TypeOK, LifecycleTypeOK
<1>2. (\A h \in Handlers : ReqOK(req[h]))'
  BY Zenon DEF Inv, ReqOK
<1>3. ReaperTypeOK'
  BY Zenon DEF Inv, TypeOK, ReaperTypeOK
<1> QED BY <1>1, <1>2, <1>3, Zenon DEF Inv, TypeOK

(* The reaper's steps keep the invariant.                                  *)
LEMMA ReaperInv ==
  ASSUME Inv, ReaperStep
  PROVE  Inv'
<1>1. /\ ClusterTypeOK /\ ReaperTypeOK /\ ReaperOK /\ made \subseteq Containers
      /\ db \subseteq made /\ broken \subseteq made
  BY Zenon DEF Inv, TypeOK, LifecycleTypeOK
<1>2. CASE Wake \/ CleanContainers
  <2>1. ClusterTypeOK' /\ UNCHANGED <<handlerVars, aged>>
    BY <1>1, <1>2, SameCluster, Zenon DEF Wake, CleanContainers
  <2> DEFINE InHand == /\ rlist' \subseteq {"rec"} \X made
                       /\ rpc' \in {"records", "del_svc", "list"} /\ sweep' = 1
                       /\ rpc' = "del_svc" => rcur' \in made
                       /\ rcur' \in made \cup {NoContainer}
  <2>2. InHand
    <3>1. CASE Wake
      BY <1>1, <3>1, SMTT(30) DEF Wake, Reap
    <3>2. CASE CleanContainers /\ rlist = {} /\ Reap("list", NoContainer, {}, 1)
      BY <3>2, Zenon DEF Reap
    <3>3. ASSUME NEW q \in rlist, CleanContainers,
                 IF q[2] \in aged THEN Reap("del_svc", q[2], rlist \ {q}, 1)
                                  ELSE Reap("records", NoContainer, rlist \ {q}, 1)
          PROVE  InHand
      <4>1. rlist \subseteq {"rec"} \X made
        BY <1>1, <3>3, Zenon DEF CleanContainers, ReaperOK
      <4>2. q[2] \in made
        BY <4>1, Zenon
      <4> QED BY <3>3, <4>1, <4>2, Zenon DEF Reap
    <3> QED BY <1>2, <3>1, <3>2, <3>3, Zenon DEF CleanContainers
  <2>3. {"rec"} \X made \subseteq Records
    BY <1>1, Zenon DEF Records
  <2>4. ReaperOK'
    BY <2>1, <2>2, Zenon DEF ReaperOK, handlerVars
  <2> QED BY <1>1, <2>1, <2>2, <2>3, <2>4, ReaperFrame DEF handlerVars
<1>3. CASE ReapServices \/ ReapConfigMaps \/ ReapPods
  <2>1. rcur \in made /\ rlist \subseteq {"rec"} \X made
    BY <1>1, <1>3, Zenon DEF ReaperOK, ReapServices, ReapConfigMaps, ReapPods
  <2>2. ClusterTypeOK'
    BY <1>1, <1>3, <2>1, DeleteType, Zenon DEF ReapServices, ReapConfigMaps, ReapPods
  <2>3. broken' \subseteq made
    BY <1>1, <1>3, <2>1, Zenon DEF ReapServices, ReapConfigMaps, ReapPods, Break
  <2>4. /\ UNCHANGED <<rec, made, db, attached, tunnels, req, aged, rcur, rlist>>
        /\ rpc' \in {"del_cm", "del_pod", "drop"} /\ sweep' = 1
    BY <1>3, Zenon DEF ReapServices, ReapConfigMaps, ReapPods, Reap
  <2>5. ReaperOK' /\ rlist' \subseteq Records
    BY <1>1, <2>1, <2>4, Zenon DEF ReaperOK, Records
  <2> QED BY <1>1, <2>1, <2>2, <2>3, <2>4, <2>5, ReaperFrame
<1>4. CASE ReapRecord
  <2>1. ClusterTypeOK' /\ db' \subseteq made /\ rlist \subseteq {"rec"} \X made
    BY <1>1, <1>4, SameCluster, Zenon DEF ReapRecord, ReaperOK
  <2>2. /\ UNCHANGED <<rec, made, attached, tunnels, req, aged, broken>>
        /\ rpc' \in {"records", "list"} /\ sweep' = 1 /\ rcur' = NoContainer
        /\ rlist' \subseteq {"rec"} \X made
    BY <1>4, <2>1, Zenon DEF ReapRecord, Reap
  <2>3. ReaperOK' /\ rlist' \subseteq Records
    BY <1>1, <2>2, Zenon DEF ReaperOK, Records
  <2> QED BY <1>1, <2>1, <2>2, <2>3, ReaperFrame
<1>5. CASE SweepList
  <2>1. ClusterTypeOK'
    BY <1>1, <1>5, CallType, Zenon DEF SweepList
  <2>2. /\ UNCHANGED <<handlerVars, aged>> /\ old \subseteq Objects
        /\ rpc' \in {"sweep", "sleep"} /\ sweep' \in {1, sweep} /\ rcur' = NoContainer
        /\ rlist' \subseteq old
    BY <1>1, <1>5, Zenon DEF SweepList, Reap, ClusterTypeOK
  <2>3. ReaperOK' /\ rlist' \subseteq Objects /\ sweep' \in 1 .. 4
    BY <1>1, <2>2 DEF ReaperOK, ReaperTypeOK
  <2> QED BY <1>1, <2>1, <2>2, <2>3, ReaperFrame, Zenon DEF handlerVars
<1>6. CASE SweepDelete
  <2>1. PICK o \in rlist, ok \in BOOLEAN :
          /\ Call(ok)
          /\ IF ok /\ Exists(o) THEN Reap("sweep", NoContainer, rlist \ {o}, sweep)
                                ELSE Reap("sleep", NoContainer, {}, 1)
          /\ IF Exists(o)
             THEN RemoveObject(o) \/ (~ok /\ UNCHANGED <<pod, terminating, cm, svc, old>>)
             ELSE UNCHANGED <<pod, terminating, cm, svc, old>>
    BY <1>6, Zenon DEF SweepDelete
  <2>2. o \in Objects /\ rlist \subseteq Objects
    BY <1>1, <1>6, Zenon DEF SweepDelete, ReaperOK
  <2>3. /\ o[1] = "pod" => o[2] \in Containers
        /\ o[1] \in ConfigMapKinds => o[2] \in Containers
        /\ o[1] = "svc" => o[2] \in Names
    BY <2>2, Zenon DEF Objects, ConfigMapKinds
  <2>4. ClusterTypeOK'
    <3>1. faults' \in 0 .. MaxFaults
      BY <1>1, <2>1 DEF Call, ClusterTypeOK
    <3>2. CASE RemoveObject(o)
      BY <1>1, <2>3, <3>1, <3>2, Zenon DEF RemoveObject, DeletePod, ClusterTypeOK
    <3>3. CASE UNCHANGED <<pod, terminating, cm, svc, old>>
      BY <1>1, <3>1, <3>3, Zenon DEF ClusterTypeOK
    <3> QED BY <2>1, <3>2, <3>3, Zenon
  <2>5. /\ UNCHANGED <<handlerVars, aged>>
        /\ rpc' \in {"sweep", "sleep"} /\ sweep' \in {1, sweep} /\ rcur' = NoContainer
        /\ rlist' \subseteq rlist
    BY <1>6, <2>1, Zenon DEF SweepDelete, Reap
  <2>6. ReaperOK' /\ rlist' \subseteq Objects /\ sweep' \in 1 .. 4
    BY <1>1, <2>2, <2>5 DEF ReaperOK, ReaperTypeOK
  <2> QED BY <1>1, <2>4, <2>5, <2>6, ReaperFrame, Zenon DEF handlerVars
<1>7. CASE SweepNext
  <2>1. ClusterTypeOK'
    BY <1>1, <1>7, SameCluster, Zenon DEF SweepNext
  <2>2. /\ UNCHANGED <<handlerVars, aged>>
        /\ rpc' \in {"list", "sleep"} /\ sweep' \in 1 .. 4 /\ rcur' = NoContainer
        /\ rlist' = {}
    BY <1>1, <1>7 DEF SweepNext, Reap, ReaperTypeOK
  <2>3. ReaperOK'
    BY <2>2, Zenon DEF ReaperOK
  <2> QED BY <1>1, <2>1, <2>2, <2>3, ReaperFrame, Zenon DEF handlerVars
<1> QED BY <1>2, <1>3, <1>4, <1>5, <1>6, <1>7, Zenon DEF ReaperStep

---------------------------------------------------------------------------
(* The invariant holds in the initial states.                              *)
LEMMA InitInv == Init => Inv
<1> SUFFICES ASSUME Init PROVE Inv
  BY Zenon
<1>1. ClusterTypeOK
  BY DEF Init, ClusterInit, ClusterTypeOK, Phases
<1>2. \A h \in Handlers : ReqOK(req[h])
  BY IdleOK, Zenon DEF Init, LifecycleInit
<1>3. LifecycleTypeOK
  BY <1>2, IdleOK, Zenon DEF Init, LifecycleInit, LifecycleTypeOK, ReqOK
<1>4. ReaperTypeOK /\ ReaperOK
  BY DEF Init, ReaperInit, ReaperTypeOK, ReaperOK
<1> QED BY <1>1, <1>2, <1>3, <1>4, Zenon DEF Inv, TypeOK

(* Steps that change nothing keep the invariant.                           *)
LEMMA StutterInv ==
  ASSUME Inv, UNCHANGED vars
  PROVE  Inv'
<1>1. ClusterTypeOK' /\ aged' \subseteq made
  BY SameCluster, Zenon DEF vars, Inv, TypeOK, ReaperTypeOK
<1> QED BY <1>1, Surroundings, Zenon DEF vars

(* Inv is an inductive invariant of the system.                            *)
LEMMA InvHolds == Spec => []Inv
<1>1. Inv /\ [Next]_vars => Inv'
  BY CreateInv, ApiInv, KubernetesInv, ReaperInv, TimeInv, StutterInv, Zenon DEF Next
<1> QED BY <1>1, InitInv, PTL DEF Spec

(***************************************************************************)
(* The state of the handlers, the database, the reaper and the cluster is  *)
(* well-formed in every reachable state.                                   *)
(***************************************************************************)
THEOREM TypeCorrect == Spec => []TypeOK
<1>1. Inv => TypeOK
  BY Zenon DEF Inv
<1> QED BY <1>1, InvHolds, PTL

---------------------------------------------------------------------------
(* What is gone stays gone.  The argument goes over the steps: a step      *)
(* concerns one container, because a request can only reach a container it *)
(* looked up in the database or already holds; the reaper only removes;    *)
(* Kubernetes creates nothing by itself.                                   *)

(* The step leaves the objects of c alone.                                 *)
SameObjects(c) ==
    /\ pod'[c] = "none" <=> pod[c] = "none"
    /\ cm'[c] = cm[c]
    /\ \A n \in Names : svc'[n] = c <=> svc[n] = c

(* It leaves alone who knows c: the database and the requests.             *)
SameHolders(c) ==
    /\ c \in made' <=> c \in made
    /\ c \in db' <=> c \in db
    /\ \A h \in Handlers : req'[h].con = c <=> req[h].con = c

Untouched(c) == SameObjects(c) /\ SameHolders(c)

(* No request holds c after the step, and its record is not back.          *)
Unheld(c) ==
    /\ c \in made' /\ c \notin db'
    /\ \A h \in Handlers : req'[h].con # c

(* The step creates nothing in the cluster for c.                          *)
Nothing(c) ==
    /\ pod[c] = "none" => pod'[c] = "none"
    /\ cm'[c] \subseteq cm[c]
    /\ \A n \in Names : svc'[n] = c => svc[n] = c

(* What a step may do to the one container it concerns.                    *)
Change(d) ==
    \/ d \in made /\ d \in made' /\ (Gone(d) => Unheld(d) /\ Nothing(d))
    \/ d \notin made /\ d \in made' /\ d \in db' /\ SameObjects(d)
    \/ d \notin made /\ d \notin made' /\ Nothing(d)

(* The step concerns d and nobody else.                                    *)
Concerns(d) == Change(d) /\ \A c \in Containers \ {d} : Untouched(c)

(* The clean-up calls of the backend remove, and only what d owns.         *)
LEMMA DeletesConcernOne ==
  ASSUME ClusterTypeOK, NEW d \in Containers, NEW ok \in BOOLEAN,
         deleteServices(d, ok) \/ deleteConfigMaps(d, ok) \/ deletePods(d, ok)
  PROVE  Nothing(d) /\ \A c \in Containers \ {d} : SameObjects(c)
<1>1. \A c \in Containers : NoContainer # c
  BY ClusterAssumption, Zenon
<1>2. CASE deleteServices(d, ok)
  <2>1. UNCHANGED <<pod, cm>>
    BY <1>2, Zenon DEF deleteServices
  <2>2. PICK gone \in SUBSET ServicesOf(d) :
          svc' = [n \in Names |-> IF n \in gone THEN NoContainer ELSE svc[n]]
    BY <1>2, Zenon DEF deleteServices
  <2>3. \A n \in Names : svc'[n] = svc[n] \/ (svc[n] = d /\ svc'[n] = NoContainer)
    BY <2>2, Zenon DEF ServicesOf
  <2> QED BY <1>1, <2>1, <2>3 DEF Nothing, SameObjects
<1>3. CASE deleteConfigMaps(d, ok)
  BY <1>3 DEF deleteConfigMaps, Nothing, SameObjects, ClusterTypeOK
<1>4. CASE deletePods(d, ok)
  BY <1>4, Zenon DEF deletePods, Nothing, SameObjects
<1> QED BY <1>2, <1>3, <1>4, Zenon

(* A request is accepted only for a container found in the database.       *)
LEMMA RequestConcerns ==
  ASSUME Inv, NEW h \in Handlers, Request(h)
  PROVE  \E d \in Containers : Concerns(d)
<1>1. PICK d \in Containers :
        \/ ContainerStart(h, d) \/ ContainerRestart(h, d) \/ ContainerStop(h, d)
        \/ ContainerKill(h, d) \/ ContainerDelete(h, d) \/ ContainerInfo(h, d)
        \/ ContainerWait(h, d) \/ ContainerAttach(h, d)
  BY Zenon DEF Request
<1>2. d \in db /\ ~Gone(d) /\ d \in made
  BY <1>1, Zenon DEF ContainerStart, ContainerRestart, ContainerStop, ContainerKill, TakeDown,
              ContainerDelete, ContainerInfo, ContainerWait, ContainerAttach, Accept, Gone,
              Inv, TypeOK, LifecycleTypeOK
<1>3. UNCHANGED <<clusterVars, made, db>>
  BY <1>1, Zenon DEF ContainerStart, ContainerRestart, ContainerStop, ContainerKill, TakeDown,
              ContainerDelete, ContainerInfo, ContainerWait, ContainerAttach
<1>4. \A c \in Containers : SameObjects(c)
  BY <1>3, Zenon DEF SameObjects, clusterVars
<1>5. req[h].con = NoContainer
  BY <1>1, Zenon DEF ContainerStart, ContainerRestart, ContainerStop, ContainerKill, TakeDown,
              ContainerDelete, ContainerInfo, ContainerWait, ContainerAttach, Accept, At, Inv, ReqOK
<1>6. req'[h].con = d /\ \A g \in Handlers \ {h} : req'[g] = req[g]
  <2>1. req \in [Handlers -> Requests]
    BY Zenon DEF Inv, TypeOK, LifecycleTypeOK
  <2>2. CASE ContainerStart(h, d) \/ ContainerAttach(h, d)
    <3>1. \E q : q.con = d /\ req' = [req EXCEPT ![h] = q]
      BY <2>2, Zenon DEF ContainerStart, ContainerAttach, EnterStart, Begin, Idle
    <3> QED BY <2>1, <3>1, Zenon
  <2>3. CASE ContainerRestart(h, d) \/ ContainerDelete(h, d)
    <3>1. PICK o, l : Begin(h, o, d, l)
      BY <2>3, Zenon DEF ContainerRestart, ContainerDelete
    <3>2. [Idle EXCEPT !.op = o, !.con = d, !.pc = l].con = d
      BY Zenon DEF Idle
    <3> QED BY <2>1, <3>1, <3>2, Zenon DEF Begin
  <2>4. CASE ContainerStop(h, d) \/ ContainerKill(h, d)
    <3>1. \E q : q.con = d /\ req' = [req EXCEPT ![h] = q]
      BY <2>4, Zenon DEF ContainerStop, ContainerKill, TakeDown, Idle
    <3> QED BY <2>1, <3>1, Zenon
  <2>5. CASE ContainerInfo(h, d) \/ ContainerWait(h, d)
    <3>1. PICK o, l : Begin(h, o, d, l)
      BY <2>5, Zenon DEF ContainerInfo, ContainerWait
    <3>2. [Idle EXCEPT !.op = o, !.con = d, !.pc = l].con = d
      BY Zenon DEF Idle
    <3> QED BY <2>1, <3>1, <3>2, Zenon DEF Begin
  <2> QED BY <1>1, <2>2, <2>3, <2>4, <2>5, Zenon
<1>7. \A c \in Containers \ {d} : SameHolders(c)
  BY <1>3, <1>5, <1>6, ClusterAssumption, Zenon DEF SameHolders
<1> QED BY <1>2, <1>3, <1>4, <1>7, Zenon DEF Concerns, Change, Untouched

(* What a request does once it is accepted concerns its own container.     *)
LEMMA ProceedSpares ==
  ASSUME Inv, NEW h \in Handlers, Proceed(h) \/ ClientGone(h) \/ StreamEnds(h),
         NEW c \in Containers, req[h].con # c
  PROVE  Untouched(c)
<1> DEFINE d == Con(h)
           Own == /\ req'[h].con \in {d, NoContainer}
                  /\ \A g \in Handlers \ {h} : req'[g] = req[g]
<1>1. /\ d # c /\ NoContainer # c
      /\ req \in [Handlers -> Requests] /\ ClusterTypeOK
      /\ d \in Containers \cup {NoContainer} /\ (req[h].pc # "idle" => d \in Containers)
      /\ Idle.con = NoContainer
  BY ClusterAssumption, Zenon
     DEF Inv, TypeOK, LifecycleTypeOK, ReqOK, Requests, Con, Idle
<1>2. ASSUME Own, made' = made, c \in db' <=> c \in db
      PROVE  SameHolders(c)
  BY <1>1, <1>2, Zenon DEF SameHolders, Con
<1>own. /\ Return(h) => Own
        /\ \A l : Goto(h, l) => Own
        /\ \A w : Assign(h, w) => Own
        /\ \A s, t : req' = [req EXCEPT ![h].pc = "svc", ![h].st = s, ![h].todo = t] => Own
  <2>1. Return(h) => Own
    BY <1>1, Zenon DEF Return
  <2>2. ASSUME NEW l, Goto(h, l)
        PROVE  Own
    BY <1>1, <2>2 DEF Goto, Con, Requests
  <2>3. ASSUME NEW w, Assign(h, w)
        PROVE  Own
    BY <1>1, <2>3 DEF Assign, Con, Requests
  <2>4. ASSUME NEW s, NEW t, req' = [req EXCEPT ![h].pc = "svc", ![h].st = s, ![h].todo = t]
        PROVE  Own
    BY <1>1, <2>4 DEF Con, Requests
  <2> HIDE DEF Own
  <2> QED BY <2>1, <2>2, <2>3, <2>4, Zenon
<1>3. CASE DeleteServices(h) \/ DeleteConfigMaps(h) \/ DeletePods(h) \/ AbortStart(h)
  <2>1. PICK ok \in BOOLEAN : deleteServices(d, ok) \/ deleteConfigMaps(d, ok) \/ deletePods(d, ok)
    BY <1>3, Zenon DEF DeleteServices, DeleteConfigMaps, DeletePods, AbortStart
  <2>2. d \in Containers
    BY <1>1, <1>3, Zenon DEF DeleteServices, DeleteConfigMaps, DeletePods, AbortStart, At
  <2>3. SameObjects(c)
    BY <1>1, <2>1, <2>2, DeletesConcernOne, Zenon
  <2>4. UNCHANGED <<made, db>>
    BY <1>3, Zenon DEF DeleteServices, DeleteConfigMaps, DeletePods, AbortStart
  <2>5. CASE DeleteServices(h) \/ DeleteConfigMaps(h)
    <3>1. Own
      BY <1>1, <2>5 DEF DeleteServices, DeleteConfigMaps, Goto, Con, Requests
    <3> QED BY <1>2, <2>3, <2>4, <3>1, Zenon DEF Untouched
  <2>6. CASE DeletePods(h)
    <3>1. Own
      BY <1>1, <2>6 DEF DeletePods, Goto, Assign, Con, Requests
    <3> QED BY <1>2, <2>3, <2>4, <3>1, Zenon DEF Untouched
  <2>7. CASE AbortStart(h)
    <3>1. Own
      BY <1>1, <2>7, Zenon DEF AbortStart, Return, Con
    <3> QED BY <1>2, <2>3, <2>4, <3>1, Zenon DEF Untouched
  <2> QED BY <1>3, <2>5, <2>6, <2>7, Zenon
<1>4. CASE DropRecord(h) \/ WatchTimeout(h) \/ AwaitDeleted(h) \/ WriteFlag(h) \/ SaveContainer(h)
           \/ Poll(h) \/ PollLimited(h) \/ CheckDone(h) \/ ClientGone(h)
           \/ Hijack(h) \/ Detached(h) \/ StreamEnds(h)
  <2>1. SameObjects(c)
    BY <1>4, Zenon DEF DropRecord, WatchTimeout, AwaitDeleted, WriteFlag, SaveContainer, Poll,
                PollLimited, CheckDone, ClientGone, Hijack, Detached, StreamEnds,
                FinishAttach, SameObjects, clusterVars
  <2>2. made' = made /\ (c \in db' <=> c \in db)
    BY <1>1, <1>4, Zenon DEF DropRecord, WatchTimeout, AwaitDeleted, WriteFlag, SaveContainer, Poll,
                PollLimited, CheckDone, ClientGone, Hijack, Detached, StreamEnds, FinishAttach
  <2>3. Own
    <3>1. CASE DropRecord(h) \/ SaveContainer(h)
      <4> HIDE DEF Own
      <4> QED BY <1>own, <3>1, Zenon DEF DropRecord, SaveContainer
    <3>5. CASE AwaitDeleted(h)
      BY <1>1, <3>5, ZenonT(30) DEF AwaitDeleted, EnterStart, Con, Requests, Idle
    <3>6. CASE WatchTimeout(h)
      BY <1>1, <3>6, Zenon DEF WatchTimeout, Con, Requests
    <3>2. CASE WriteFlag(h)
      BY <1>1, <3>2 DEF WriteFlag, Con, Requests
    <3>3. CASE Poll(h) \/ PollLimited(h) \/ CheckDone(h) \/ ClientGone(h)
      BY <1>1, <3>3 DEF Poll, PollLimited, CheckDone, ClientGone, Goto, Return, Con, Requests
    <3>4. CASE Hijack(h) \/ Detached(h) \/ StreamEnds(h)
      BY <1>1, <3>4 DEF Hijack, Detached, StreamEnds, FinishAttach, Goto, Return, Con, Requests
    <3> QED BY <1>4, <3>1, <3>2, <3>3, <3>4, <3>5, <3>6, Zenon
  <2> QED BY <1>2, <2>1, <2>2, <2>3, Zenon DEF Untouched
<1>5. CASE WatchDeleteContainer(h) \/ AwaitReady(h) \/ PublishPorts(h) \/ UpdateContainerStatus(h)
  <2>1. SameObjects(c) /\ UNCHANGED <<made, db>>
    BY <1>5, Zenon
       DEF WatchDeleteContainer, AwaitReady, PublishPorts, UpdateContainerStatus, SameObjects
  <2>2. Own
    <3>1. CASE WatchDeleteContainer(h)
      BY <1>1, <3>1 DEF WatchDeleteContainer, Con, Requests
    <3>2. CASE AwaitReady(h)
      <4> HIDE DEF Own
      <4> QED BY <1>own, <3>2, Zenon DEF AwaitReady
    <3>3. CASE PublishPorts(h)
      <4> HIDE DEF Own
      <4> QED BY <1>own, <3>3, Zenon DEF PublishPorts
    <3>4. CASE UpdateContainerStatus(h)
      <4> HIDE DEF Own
      <4> QED BY <1>own, <3>4, Zenon DEF UpdateContainerStatus
    <3> QED BY <1>5, <3>1, <3>2, <3>3, <3>4, Zenon
  <2> QED BY <1>2, <2>1, <2>2, Zenon DEF Untouched
<1>6. CASE CreateConfigMap(h)
  <2>1. SameObjects(c)
    BY <1>1, <1>6, Zenon DEF CreateConfigMap, SameObjects, ClusterTypeOK
  <2>2. Own /\ UNCHANGED <<made, db>>
    BY <1>1, <1>6 DEF CreateConfigMap, Goto, Con, Requests
  <2> QED BY <1>2, <2>1, <2>2, Zenon DEF Untouched
<1>7. CASE CreatePod(h) \/ CopyVolumes(h)
  <2>1. SameObjects(c)
    BY <1>1, <1>7, Zenon DEF CreatePod, CopyVolumes, SameObjects, ClusterTypeOK
  <2>2. CASE CreatePod(h)
    <3>1. Own /\ UNCHANGED <<made, db>>
      BY <1>1, <2>2 DEF CreatePod, Con, Requests
    <3> QED BY <1>2, <2>1, <3>1, Zenon DEF Untouched
  <2>3. CASE CopyVolumes(h)
    <3>1. Own /\ UNCHANGED <<made, db>>
      <4> HIDE DEF Own
      <4> QED BY <1>own, <2>3, Zenon DEF CopyVolumes
    <3> QED BY <1>2, <2>1, <3>1, Zenon DEF Untouched
  <2> QED BY <1>7, <2>2, <2>3, Zenon
<1>8. CASE CreateService(h)
  <2>1. SameObjects(c)
    BY <1>1, <1>8, Zenon DEF CreateService, SameObjects, ClusterTypeOK
  <2>2. Own /\ UNCHANGED <<made, db>>
    BY <1>1, <1>8 DEF CreateService, Return, Con, Requests
  <2> QED BY <1>2, <2>1, <2>2, Zenon DEF Untouched
<1> QED BY <1>3, <1>4, <1>5, <1>6, <1>7, <1>8, Zenon DEF Proceed

(* A step of a request that is under way leaves every container alone, or  *)
(* concerns one: the container it looked up.                               *)
LEMMA ProceedConcerns ==
  ASSUME Inv, NEW h \in Handlers, Proceed(h) \/ ClientGone(h) \/ StreamEnds(h)
  PROVE  (\A c \in Containers : Untouched(c)) \/ (\E d \in Containers : Concerns(d))
<1>1. \A c \in Containers : req[h].con # c => Untouched(c)
  BY ProceedSpares, Zenon
<1>2. CASE req[h].con \in made
  <2>1. made' = made
    BY Zenon DEF Proceed, ClientGone, StreamEnds, DeleteServices, DeleteConfigMaps, DeletePods,
           DropRecord, WatchDeleteContainer, WatchTimeout, AwaitDeleted, CreateConfigMap,
           CreatePod, CopyVolumes, AwaitReady, CreateService, PublishPorts, AbortStart,
           WriteFlag, SaveContainer, UpdateContainerStatus, Poll, PollLimited, CheckDone,
           Hijack, Detached, FinishAttach
  <2>2. ~Gone(req[h].con) /\ made \subseteq Containers
    BY Zenon DEF Gone, Con, Inv, TypeOK, LifecycleTypeOK
  <2> QED BY <1>1, <1>2, <2>1, <2>2, Zenon DEF Concerns, Change
<1>3. CASE req[h].con = NoContainer
  BY <1>1, <1>3, ClusterAssumption, Zenon
<1> QED BY <1>2, <1>3, Zenon DEF Inv, ReqOK

(* The reaper removes records and objects and holds no request.            *)
LEMMA ReaperConcerns ==
  ASSUME Inv, ReaperStep
  PROVE  (\A c \in Containers : Untouched(c)) \/ (\E d \in Containers : Concerns(d))
<1>1. /\ ClusterTypeOK /\ ReaperOK /\ made \subseteq Containers
      /\ \A c \in Containers : NoContainer # c
  BY ClusterAssumption, Zenon DEF Inv, TypeOK, LifecycleTypeOK
<1>2. UNCHANGED <<req, made>> /\ db' \subseteq db
  BY Zenon DEF ReaperStep, Wake, CleanContainers, ReapServices, ReapConfigMaps, ReapPods, ReapRecord,
         SweepList, SweepDelete, SweepNext, handlerVars
<1>3. \A c \in Containers : Gone(c) => Unheld(c)
  BY <1>2, Zenon DEF Unheld, Gone, Con
<1>4. \A c \in Containers : (c \in db' <=> c \in db) => SameHolders(c)
  BY <1>2, Zenon DEF SameHolders
<1>5. ASSUME NEW d \in Containers, Nothing(d), db' = db,
             \A c \in Containers \ {d} : SameObjects(c)
      PROVE  Concerns(d)
  BY <1>2, <1>3, <1>4, <1>5, Zenon DEF Concerns, Change, Untouched
<1>6. CASE ReapServices \/ ReapConfigMaps \/ ReapPods
  <2>1. PICK ok \in BOOLEAN :
          deleteServices(rcur, ok) \/ deleteConfigMaps(rcur, ok) \/ deletePods(rcur, ok)
    BY <1>6, Zenon DEF ReapServices, ReapConfigMaps, ReapPods
  <2>2. rcur \in Containers /\ db' = db
    BY <1>1, <1>6, Zenon DEF ReapServices, ReapConfigMaps, ReapPods, ReaperOK
  <2> QED BY <1>1, <1>5, <2>1, <2>2, DeletesConcernOne, Zenon
<1>7. CASE Wake \/ CleanContainers \/ SweepList \/ SweepNext
  <2>1. UNCHANGED <<pod, cm, svc, db>>
    BY <1>7, Zenon DEF Wake, CleanContainers, SweepList, SweepNext, clusterVars, handlerVars
  <2> QED BY <1>4, <2>1, Zenon DEF Untouched, SameObjects
<1>8. CASE ReapRecord
  <2>1. UNCHANGED <<pod, cm, svc>> /\ db' = db \ {rcur} /\ rcur \in made
    BY <1>1, <1>8, Zenon DEF ReapRecord, ReaperOK, clusterVars
  <2>2. \A c \in Containers : SameObjects(c) /\ Nothing(c)
    BY <2>1, Zenon DEF SameObjects, Nothing
  <2> QED BY <1>1, <1>2, <1>3, <1>4, <2>1, <2>2, Zenon DEF Concerns, Change, Untouched
<1>9. CASE SweepDelete
  <2>1. PICK o \in rlist : RemoveObject(o) \/ UNCHANGED <<pod, terminating, cm, svc, old>>
    BY <1>9, Zenon DEF SweepDelete
  <2>2. o \in Objects /\ db' = db
    BY <1>1, <1>9, Zenon DEF SweepDelete, ReaperOK, handlerVars
  <2>3. CASE UNCHANGED <<pod, terminating, cm, svc, old>>
    BY <1>4, <2>2, <2>3, Zenon DEF Untouched, SameObjects
  <2>4. CASE RemoveObject(o) /\ o[1] = "svc"
    <3>1. /\ UNCHANGED <<pod, cm>>
          /\ svc' = [svc EXCEPT ![o[2]] = NoContainer] /\ o[2] \in Names
      BY <2>2, <2>4, Zenon DEF RemoveObject, Objects, ConfigMapKinds
    <3>2. \A n \in Names : svc'[n] = IF n = o[2] THEN NoContainer ELSE svc[n]
      BY <1>1, <3>1, Zenon DEF ClusterTypeOK
    <3>3. CASE svc[o[2]] \in Containers
      <4>1. Nothing(svc[o[2]]) /\ \A c \in Containers \ {svc[o[2]]} : SameObjects(c)
        BY <1>1, <3>1, <3>2, Zenon DEF Nothing, SameObjects
      <4> QED BY <1>5, <2>2, <3>3, <4>1, Zenon
    <3>4. CASE svc[o[2]] = NoContainer
      <4>1. \A c \in Containers : SameObjects(c)
        BY <1>1, <3>1, <3>2, <3>4, Zenon DEF SameObjects
      <4> QED BY <1>4, <2>2, <4>1, Zenon DEF Untouched
    <3> QED BY <1>1, <3>1, <3>3, <3>4, Zenon DEF ClusterTypeOK
  <2>5. CASE RemoveObject(o) /\ o[1] # "svc"
    <3>1. o[2] \in Containers
      BY <2>2, <2>5, Zenon DEF Objects
    <3>2. /\ UNCHANGED <<pod, svc>>
          /\ cm' = cm \/ cm' = [cm EXCEPT ![o[2]] = @ \ {o[1]}]
      BY <2>5, Zenon DEF RemoveObject
    <3>3. Nothing(o[2]) /\ \A c \in Containers \ {o[2]} : SameObjects(c)
      BY <1>1, <3>1, <3>2 DEF Nothing, SameObjects, ClusterTypeOK
    <3> QED BY <1>5, <2>2, <3>1, <3>3, Zenon
  <2> QED BY <2>1, <2>3, <2>4, <2>5, Zenon
<1> QED BY <1>6, <1>7, <1>8, <1>9, Zenon DEF ReaperStep

(* Kubernetes, the clock and the creation of a container.                  *)
LEMMA OthersConcern ==
  ASSUME Inv, CreateStep \/ KubernetesStep \/ TimeStep \/ UNCHANGED vars
  PROVE  (\A c \in Containers : Untouched(c)) \/ (\E d \in Containers : Concerns(d))
<1>1. CASE CreateStep
  <2>1. PICK d \in Containers : ContainerCreate(d)
    BY <1>1, Zenon DEF CreateStep
  <2>2. \A c \in Containers : SameObjects(c)
    BY <2>1, Zenon DEF ContainerCreate, clusterVars, SameObjects
  <2>3. \A c \in Containers \ {d} : SameHolders(c)
    BY <2>1, Zenon DEF ContainerCreate, SameHolders
  <2> QED BY <2>1, <2>2, <2>3, Zenon DEF ContainerCreate, Concerns, Change, Untouched
<1>2. CASE KubernetesStep
  <2>1. PICK d \in Containers :
          \/ PodGone(d)
          \/ /\ \/ InitContainerRuns(d) \/ MainContainerRuns(d) \/ MainContainerExits(d)
                \/ PodFails(d) \/ Evict(d)
             /\ UNCHANGED handlerVars
    BY <1>2, Zenon DEF KubernetesStep, ClusterStep
  <2>2. ClusterTypeOK /\ req \in [Handlers -> Requests]
    BY Zenon DEF Inv, TypeOK, LifecycleTypeOK
  <2>3. CASE PodGone(d)
    <3>1. Nothing(d) /\ \A c \in Containers \ {d} : SameObjects(c)
      BY <2>2, <2>3, Zenon DEF PodGone, Vanish, ClusterTypeOK, Nothing, SameObjects
    <3>2. UNCHANGED <<made, db>> /\ \A h \in Handlers : req'[h].con = req[h].con
      BY <2>2, <2>3, Zenon DEF PodGone, Requests
    <3>3. Gone(d) => Unheld(d)
      BY <3>2, Zenon DEF Gone, Unheld, Con
    <3>4. \A c \in Containers : SameHolders(c)
      BY <3>2, Zenon DEF SameHolders
    <3> QED BY <3>1, <3>2, <3>3, <3>4, Zenon DEF Concerns, Change, Untouched
  <2>4. CASE /\ \/ InitContainerRuns(d) \/ MainContainerRuns(d) \/ MainContainerExits(d)
                \/ PodFails(d)
             /\ UNCHANGED handlerVars
    <3>1. \A c \in Containers : SameObjects(c)
      BY <2>2, <2>4, Zenon DEF InitContainerRuns, MainContainerRuns, MainContainerExits, PodFails,
                        PodStep, ClusterTypeOK, SameObjects
    <3> QED BY <2>4, <3>1, Zenon DEF handlerVars, Untouched, SameHolders
  <2>5. CASE Evict(d) /\ UNCHANGED handlerVars
    BY <2>5, Zenon DEF Evict, handlerVars, Untouched, SameObjects, SameHolders
  <2> QED BY <2>1, <2>3, <2>4, <2>5, Zenon
<1>3. CASE TimeStep
  BY <1>3, Zenon DEF TimeStep, AgeRecord, AgeObject, Age, clusterVars, handlerVars, Untouched,
              SameObjects, SameHolders
<1>4. CASE UNCHANGED vars
  BY <1>4, Zenon DEF vars, clusterVars, handlerVars, Untouched, SameObjects, SameHolders
<1> QED BY <1>1, <1>2, <1>3, <1>4, Zenon

(* A step of the system concerns at most one container.                    *)
LEMMA StepConcerns ==
  ASSUME Inv, [Next]_vars
  PROVE  (\A c \in Containers : Untouched(c)) \/ (\E d \in Containers : Concerns(d))
  BY RequestConcerns, ProceedConcerns, ReaperConcerns, OthersConcern, Zenon
     DEF Next, ApiStep, HandlerStep

---------------------------------------------------------------------------

(***************************************************************************)
(* Once the record of a container is deleted (DB.DeleteContainer) and the  *)
(* last request that had fetched it has returned, no step of any request,  *)
(* of the reaper or of the cluster brings back the record or creates a     *)
(* Pod, a ConfigMap or a Service for it.                                   *)
(***************************************************************************)
THEOREM GoneStays == Spec => GoneStaysGone
<1>1. Inv /\ [Next]_vars => [\A c \in Containers : GoneForGood(c)]_vars
  <2> SUFFICES ASSUME Inv, [Next]_vars, NEW c \in Containers, Gone(c)
               PROVE  Unheld(c) /\ Nothing(c)
    BY Zenon DEF Unheld, Nothing, GoneForGood, Gone, Con, ServicesOf
  <2>1. CASE Untouched(c)
    BY <2>1, Zenon DEF Untouched, SameObjects, SameHolders, Unheld, Nothing, Gone, Con
  <2>2. CASE Concerns(c)
    BY <2>2, Zenon DEF Concerns, Change, Gone
  <2> QED BY <2>1, <2>2, StepConcerns, Zenon DEF Concerns
<1> QED BY <1>1, InvHolds, PTL DEF Spec, GoneStaysGone

---------------------------------------------------------------------------
(* The refinement.                                                         *)

(* Nothing in the namespace belongs to a container that is not made yet.   *)
OwnersMade ==
    \A c \in Containers \ made : /\ pod[c] = "none" /\ cm[c] = {}
                                 /\ \A n \in Names : svc[n] # c

(* startContainer and createServices label what they create with the       *)
(* container in the hands of the request, which a create has made.         *)
LEMMA OwnersMadeHolds == Spec => []OwnersMade
<1>1. Init => OwnersMade
  BY ClusterAssumption, Zenon DEF Init, ClusterInit, OwnersMade
<1>2. Inv /\ OwnersMade /\ [Next]_vars => OwnersMade'
  <2> SUFFICES ASSUME Inv, OwnersMade, [Next]_vars, NEW c \in Containers, c \notin made'
               PROVE  /\ pod'[c] = "none" /\ cm'[c] = {}
                      /\ \A n \in Names : svc'[n] # c
    BY Zenon DEF OwnersMade
  <2>1. CASE Untouched(c)
    BY <2>1, Zenon DEF Untouched, SameObjects, SameHolders, OwnersMade
  <2>2. CASE Concerns(c)
    BY <2>2, Zenon DEF Concerns, Change, Nothing, OwnersMade
  <2> QED BY <2>1, <2>2, StepConcerns, Zenon DEF Concerns
<1> QED BY <1>1, <1>2, InvHolds, PTL DEF Spec

(* What a container owns, by kind.                                         *)
LEMMA OwnedBy ==
  ASSUME NEW c \in Containers, NEW o
  PROVE  o \in Owned[c] <=>
           \/ o = <<"pod", c>> /\ pod[c] # "none"
           \/ \E k \in cm[c] \cap ConfigMapKinds : o = <<k, c>>
           \/ \E n \in Names : o = <<"svc", n>> /\ svc[n] = c
  BY ClusterAssumption DEF Owned, Objects, Exists, Owner, ConfigMapKinds

(* The same after a step.                                                  *)
LEMMA OwnedByNext ==
  ASSUME NEW c \in Containers, NEW o
  PROVE  o \in Owned'[c] <=>
           \/ o = <<"pod", c>> /\ pod'[c] # "none"
           \/ \E k \in cm'[c] \cap ConfigMapKinds : o = <<k, c>>
           \/ \E n \in Names : o = <<"svc", n>> /\ svc'[n] = c
  BY ClusterAssumption DEF Owned, Objects, Exists, Owner, ConfigMapKinds

(* A step of the system is a step of the abstract container, or none.      *)
LEMMA StepRefines ==
  ASSUME Inv, OwnersMade, [Next]_vars
  PROVE  [Abstract!ContainerNext]_(Abstract!containerVars)
<1>1. ASSUME NEW c \in Containers, SameObjects(c)
      PROVE  Owned'[c] = Owned[c]
  <2>1. ASSUME NEW o
        PROVE  o \in Owned'[c] <=> o \in Owned[c]
    BY <1>1, OwnedBy, OwnedByNext DEF SameObjects
  <2> QED BY <2>1, Zenon
<1>2. ASSUME NEW c \in Containers, SameHolders(c)
      PROVE  Life'[c] = Life[c]
  <2>1. Gone(c)' <=> Gone(c)
    BY <1>2, Zenon DEF SameHolders, Gone, Con
  <2> QED BY <1>2, <2>1, Zenon DEF SameHolders, Life
<1>3. ASSUME \A c \in Containers : Untouched(c)
      PROVE  Life' = Life /\ Owned' = Owned
  <2>1. \A c \in Containers : Life'[c] = Life[c] /\ Owned'[c] = Owned[c]
    BY <1>1, <1>2, <1>3, Zenon DEF Untouched
  <2> QED BY <2>1, Zenon DEF Life, Owned
<1>4. ASSUME NEW d \in Containers, Concerns(d)
      PROVE  \/ Abstract!Create(d) \/ Abstract!Use(d) \/ Abstract!Remove(d)
             \/ Abstract!Sweep(d) \/ (Life' = Life /\ Owned' = Owned)
  <2>1. \A c \in Containers \ {d} : Life'[c] = Life[c] /\ Owned'[c] = Owned[c]
    BY <1>1, <1>2, <1>4, Zenon DEF Concerns, Untouched
  <2>2. Life' = [Life EXCEPT ![d] = Life'[d]] /\ Owned' = [Owned EXCEPT ![d] = Owned'[d]]
    BY <2>1, Zenon DEF Life, Owned
  <2>3. Owned'[d] \in SUBSET Objects
    BY Zenon DEF Owned, Objects
  <2>4. ASSUME Nothing(d)
        PROVE  Owned'[d] \in SUBSET Owned[d]
    <3>1. ASSUME NEW o, o \in Owned'[d]
          PROVE  o \in Owned[d]
      BY <2>4, <3>1, OwnedBy, OwnedByNext DEF Nothing
    <3> QED BY <3>1, Zenon
  <2>5. CASE d \in made /\ d \in made' /\ (Gone(d) => Unheld(d) /\ Nothing(d))
    <3>1. CASE Gone(d)
      <4>1. Life[d] = "gone" /\ Life'[d] = "gone"
        BY <2>5, <3>1, Zenon DEF Life, Gone, Unheld, Con
      <4>2. Life' = Life
        BY <2>2, <4>1, Zenon DEF Life
      <4> QED BY <2>2, <2>4, <2>5, <3>1, <4>1, <4>2, Zenon DEF Abstract!Sweep
    <3>2. CASE ~Gone(d)
      <4>1. Life[d] = "live" /\ Life'[d] \in {"live", "gone"}
        BY <2>5, <3>2, Zenon DEF Life
      <4>2. CASE Life'[d] = "live"
        <5>1. Life' = Life
          BY <2>2, <4>1, <4>2, Zenon DEF Life
        <5> QED BY <2>2, <2>3, <4>1, <5>1, Zenon DEF Abstract!Use
      <4>3. CASE Life'[d] = "gone"
        BY <2>2, <2>3, <4>1, <4>3, Zenon DEF Abstract!Remove
      <4> QED BY <4>1, <4>2, <4>3, Zenon
    <3> QED BY <3>1, <3>2, Zenon
  <2>6. CASE d \notin made /\ d \in made' /\ d \in db' /\ SameObjects(d)
    <3>1. Life[d] = "new" /\ Life'[d] = "live"
      BY <2>6, Zenon DEF Life, Gone
    <3>2. Owned' = Owned
      BY <1>1, <2>2, <2>6, Zenon DEF Owned
    <3> QED BY <2>2, <3>1, <3>2, Zenon DEF Abstract!Create
  <2>7. CASE d \notin made /\ d \notin made' /\ Nothing(d)
    <3>1. Life' = Life
      BY <2>2, <2>7, Zenon DEF Life
    <3>2. \A o : o \notin Owned[d]
      BY <2>7, OwnedBy, Zenon DEF OwnersMade
    <3>3. Owned'[d] = Owned[d]
      BY <2>4, <2>7, <3>2, Zenon
    <3> QED BY <2>2, <3>1, <3>3, Zenon DEF Owned
  <2> QED BY <1>4, <2>5, <2>6, <2>7, Zenon DEF Concerns, Change
<1> QED BY <1>3, <1>4, StepConcerns, Zenon DEF Abstract!ContainerNext, Abstract!containerVars

(***************************************************************************)
(* The container endpoints, the reaper and the cluster together implement  *)
(* the abstract container, for any number of containers and requests: a    *)
(* container is made once and gone for good, and a step touches the        *)
(* objects of one container only.                                          *)
(***************************************************************************)
THEOREM Implements == Spec => ImplementsContainer
<1>1. Init => Abstract!ContainerInit
  <2> SUFFICES ASSUME Init
               PROVE  Abstract!ContainerInit
    BY Zenon
  <2>1. Life = [c \in Containers |-> "new"]
    BY Zenon DEF Init, LifecycleInit, Life
  <2>2. ASSUME NEW c \in Containers
        PROVE  Owned[c] = {}
    <3>1. \A o : o \notin Owned[c]
      BY OwnedBy, ClusterAssumption, Zenon DEF Init, ClusterInit
    <3> QED BY <3>1, Zenon
  <2>3. Owned = [c \in Containers |-> {}]
    BY <2>2, Zenon DEF Owned
  <2> QED BY <2>1, <2>3, Zenon DEF Abstract!ContainerInit
<1>2. Inv /\ OwnersMade /\ [Next]_vars => [Abstract!ContainerNext]_(Abstract!containerVars)
  BY StepRefines, Zenon
<1> QED BY <1>1, <1>2, InvHolds, OwnersMadeHolds, PTL
        DEF Spec, ImplementsContainer, Abstract!ContainerSpec
============================================================================
