----------------------------- MODULE RestProofs -----------------------------
(***************************************************************************)
(* What the record of a container at rest says about the cluster, for any  *)
(* containers, handlers, names and bound on failing calls.  A container    *)
(* none of whose backend calls failed, and whose changing requests never   *)
(* overlapped, has at most one changing request; the invariant says what   *)
(* is true of the container at every point of that request.                *)
(***************************************************************************)
EXTENDS SystemProofs

(* A request that assigns only what it read from the cluster, or nothing.  *)
Passive(r) == r.op \in {"inspect", "wait"} \/ r.pc \in {"hijack", "attached"}

(* h is starting, stopping or deleting c.                                  *)
Active(h, c) == req[h].con = c /\ ~Passive(req[h])

(* The assignments that are left after the first, the second, ...          *)
Stop2 == << <<"Completed", FALSE>>, <<"Stopped", TRUE>> >>
Stop1 == << <<"Stopped", TRUE>> >>
Kill2 == << <<"Running", FALSE>>, <<"Completed", FALSE>> >>
Kill1 == << <<"Completed", FALSE>> >>
Start4(st) == << <<"Killed", FALSE>>, <<"Failed", st = "failed">>,
                 <<"Completed", st = "completed">>, <<"Running", st = "running">> >>
Start3(st) == << <<"Failed", st = "failed">>, <<"Completed", st = "completed">>,
                 <<"Running", st = "running">> >>
Start2(st) == << <<"Completed", st = "completed">>, <<"Running", st = "running">> >>
Start1(st) == << <<"Running", st = "running">> >>
Completed1 == << <<"Running", FALSE>> >>

Starting == {"files", "copy", "ready", "svc", "abort"}
Deleting == {"del_svc", "del_cm", "del_pod"}

(* Which handler is at which point, and what it may still assign.          *)
ShapeOK(r) ==
    /\ r.pc \in Starting => r.op \in {"start", "attach"}
    /\ r.pc \in Deleting => r.op \in {"stop", "kill", "delete", "restart"}
    /\ r.pc \in {"watch", "deleted"} => r.op = "restart"
    /\ r.pc = "drop" => r.op = "delete"
    /\ r.pc = "save" => r.op \in {"stop", "kill", "restart", "start", "attach"}
    /\ r.pc \in {"status", "poll", "check"} => r.op \in {"inspect", "wait"}
    /\ r.pc \in {"hijack", "attached"} => r.op = "attach"
    /\ r.pc = "flags" =>
         \/ r.op \in {"stop", "restart"} /\ r.writes \in {StopWrites, Stop2, Stop1}
         \/ r.op = "kill" /\ r.writes \in {KillWrites, Kill2, Kill1}
         \/ /\ r.op \in {"start", "attach"}
            /\ \E st \in DeployStates :
                 r.writes \in {StartWrites(st), Start4(st), Start3(st), Start2(st), Start1(st)}
         \/ r.op \in {"inspect", "wait"} /\ r.writes \in {CompletedWrites, Completed1, FailedWrites}

Off(c, f) == rec[c][f] = FALSE

(* Running, and stopped or killed, exclude each other.                     *)
Agree(c) == Off(c, "Running") \/ (Off(c, "Stopped") /\ Off(c, "Killed"))

Clean(c) == ~Leftover(c) /\ c \notin tunnels

(* The flags of c when request r is changing it: on the way from one       *)
(* consistent record to the next, by the assignments that are left.        *)
FlagStage(r, c) ==
    /\ r.pc # "flags" => Agree(c)
    /\ r.pc = "flags" /\ r.op \in {"stop", "restart"} /\ Len(r.writes) < 3 => Off(c, "Running")
    /\ r.pc = "flags" /\ r.op = "kill" /\ Len(r.writes) < 2 => Off(c, "Running")
    /\ r.pc = "flags" /\ r.op \in {"start", "attach"} /\ Len(r.writes) < 5 => Off(c, "Stopped")
    /\ r.pc = "flags" /\ r.op \in {"start", "attach"} /\ Len(r.writes) < 4 => Off(c, "Killed")
    /\ r.pc = "save" /\ r.op \in {"start", "attach"} => Off(c, "Stopped") /\ Off(c, "Killed")

(* What is left of c in the cluster when request r is taking it down.      *)
CleanStage(r, c) ==
    /\ r.pc \in Deleting /\ r.op # "restart" => c \notin tunnels
    /\ r.pc \in {"del_cm", "del_pod"} => ServicesOf(c) = {}
    /\ r.pc = "del_pod" => cm[c] = {}
    /\ r.pc \in {"drop", "deleted"} => Clean(c)
    /\ r.pc \in {"flags", "save"} /\ r.op \in {"stop", "kill", "restart"} => Clean(c)

(* A container at rest.                                                    *)
Rest(c) ==
    /\ Down(c) => Clean(c)
    /\ c \in made \ db => ~Leftover(c)

ContainerOK(c) ==
    c \notin broken =>
        /\ \A g, h \in Handlers : Active(g, c) /\ Active(h, c) => g = h
        /\ \A h \in Handlers : Active(h, c) =>
             /\ FlagStage(req[h], c)
             /\ c \notin aged => c \in db /\ CleanStage(req[h], c)
        /\ (\A h \in Handlers : ~Active(h, c)) => Agree(c) /\ (c \notin aged => Rest(c))

(* The reaper works on old containers only; old objects other than         *)
(* Services belong to old containers.                                      *)
ReaperOld ==
    /\ rpc \in {"del_svc", "del_cm", "del_pod", "drop"} => rcur \in aged
    /\ \A o \in old : o[1] # "svc" => o[2] \in aged
    /\ rpc = "sweep" => \A o \in rlist : o[1] # "svc" => o[2] \in aged

(* A container that is not made yet is not down.                           *)
UnmadeUp == \A c \in Containers \ made : Off(c, "Stopped") /\ Off(c, "Killed")

RestInv ==
    /\ Inv
    /\ \A h \in Handlers : ShapeOK(req[h])
    /\ ReaperOld
    /\ UnmadeUp
    /\ \A c \in Containers : ContainerOK(c)

---------------------------------------------------------------------------
(* The assignments, one by one.                                            *)

(***************************************************************************)
(* Taking the first element off a short sequence.                          *)
(***************************************************************************)
LEMMA HeadTail ==
  /\ \A a : Head(<<a>>) = a /\ Tail(<<a>>) = <<>> /\ <<a>> # <<>>
  /\ \A a, b : Head(<<a, b>>) = a /\ Tail(<<a, b>>) = <<b>> /\ <<a, b>> # <<>>
  OBVIOUS

(***************************************************************************)
(* The same for three elements.                                            *)
(***************************************************************************)
LEMMA HeadTail3 ==
  ASSUME NEW a, NEW b, NEW c, NEW s, NEW t, s = <<a, b, c>>, t = <<b, c>>
  PROVE  Head(s) = a /\ Tail(s) = t /\ s # <<>> /\ t # <<>>
  OBVIOUS

(***************************************************************************)
(* The assignments of ContainerStop and ContainerKill.                     *)
(***************************************************************************)
LEMMA DownWrites ==
  /\ Head(StopWrites) = <<"Running", FALSE>> /\ Tail(StopWrites) = Stop2 /\ Stop2 # <<>>
  /\ Head(Stop2) = <<"Completed", FALSE>> /\ Tail(Stop2) = Stop1 /\ Stop1 # <<>>
  /\ Head(Stop1) = <<"Stopped", TRUE>> /\ Tail(Stop1) = <<>>
  /\ Head(KillWrites) = <<"Killed", TRUE>> /\ Tail(KillWrites) = Kill2 /\ Kill2 # <<>>
  /\ Head(Kill2) = <<"Running", FALSE>> /\ Tail(Kill2) = Kill1 /\ Kill1 # <<>>
  /\ Head(Kill1) = <<"Completed", FALSE>> /\ Tail(Kill1) = <<>>
  <1>1. Head(StopWrites) = <<"Running", FALSE>> /\ Tail(StopWrites) = Stop2 /\ Stop2 # <<>>
    <2> DEFINE x1 == <<"Running", FALSE>>
               x2 == <<"Completed", FALSE>>
               x3 == <<"Stopped", TRUE>>
    <2>1. StopWrites = <<x1, x2, x3>> /\ Stop2 = <<x2, x3>>
      BY DEF StopWrites, Stop2
    <2>2. x1 = <<"Running", FALSE>>
      OBVIOUS
    <2> HIDE DEF x1, x2, x3
    <2>3. Head(StopWrites) = x1 /\ Tail(StopWrites) = Stop2 /\ StopWrites # <<>> /\ Stop2 # <<>>
      BY <2>1
    <2> QED BY <2>2, <2>3, Zenon
  <1>2. Head(Stop2) = <<"Completed", FALSE>> /\ Tail(Stop2) = Stop1 /\ Stop1 # <<>>
    BY HeadTail, Zenon DEF Stop2, Stop1
  <1>3. Head(Stop1) = <<"Stopped", TRUE>> /\ Tail(Stop1) = <<>>
    BY HeadTail, Zenon DEF Stop1
  <1>4. Head(KillWrites) = <<"Killed", TRUE>> /\ Tail(KillWrites) = Kill2 /\ Kill2 # <<>>
    <2> DEFINE x1 == <<"Killed", TRUE>>
               x2 == <<"Running", FALSE>>
               x3 == <<"Completed", FALSE>>
    <2>1. KillWrites = <<x1, x2, x3>> /\ Kill2 = <<x2, x3>>
      BY DEF KillWrites, Kill2
    <2>2. x1 = <<"Killed", TRUE>>
      OBVIOUS
    <2> HIDE DEF x1, x2, x3
    <2>3. Head(KillWrites) = x1 /\ Tail(KillWrites) = Kill2 /\ KillWrites # <<>> /\ Kill2 # <<>>
      BY <2>1
    <2> QED BY <2>2, <2>3, Zenon
  <1>5. Head(Kill2) = <<"Running", FALSE>> /\ Tail(Kill2) = Kill1 /\ Kill1 # <<>>
    BY HeadTail, Zenon DEF Kill2, Kill1
  <1>6. Head(Kill1) = <<"Completed", FALSE>> /\ Tail(Kill1) = <<>>
    BY HeadTail, Zenon DEF Kill1
  <1> QED BY <1>1, <1>2, <1>3, <1>4, <1>5, <1>6, Zenon

(***************************************************************************)
(* The assignments of StartContainer.                                      *)
(***************************************************************************)
LEMMA UpWrites ==
  ASSUME NEW st
  PROVE  /\ Head(StartWrites(st)) = <<"Stopped", FALSE>> /\ Tail(StartWrites(st)) = Start4(st)
         /\ Head(Start4(st)) = <<"Killed", FALSE>> /\ Tail(Start4(st)) = Start3(st)
         /\ Head(Start3(st)) = <<"Failed", st = "failed">> /\ Tail(Start3(st)) = Start2(st)
         /\ Head(Start2(st)) = <<"Completed", st = "completed">> /\ Tail(Start2(st)) = Start1(st)
         /\ Head(Start1(st)) = <<"Running", st = "running">> /\ Tail(Start1(st)) = <<>>
         /\ Start4(st) # <<>> /\ Start3(st) # <<>> /\ Start2(st) # <<>> /\ Start1(st) # <<>>
  <1>1. Head(StartWrites(st)) = <<"Stopped", FALSE>> /\ Tail(StartWrites(st)) = Start4(st)
    <2> DEFINE x1 == <<"Stopped", FALSE>>
               x2 == <<"Killed", FALSE>>
               x3 == <<"Failed", st = "failed">>
               x4 == <<"Completed", st = "completed">>
               x5 == <<"Running", st = "running">>
    <2>1. StartWrites(st) = <<x1, x2, x3, x4, x5>> /\ Start4(st) = <<x2, x3, x4, x5>>
      BY DEF StartWrites, Start4
    <2>2. x1 = <<"Stopped", FALSE>>
      OBVIOUS
    <2> HIDE DEF x1, x2, x3, x4, x5
    <2>3. Head(StartWrites(st)) = x1 /\ Tail(StartWrites(st)) = Start4(st) /\ StartWrites(st) # <<>> /\ Start4(st) # <<>>
      BY <2>1
    <2> QED BY <2>2, <2>3, Zenon
  <1>2. Head(Start4(st)) = <<"Killed", FALSE>> /\ Tail(Start4(st)) = Start3(st) /\ Start4(st) # <<>>
    <2> DEFINE x1 == <<"Killed", FALSE>>
               x2 == <<"Failed", st = "failed">>
               x3 == <<"Completed", st = "completed">>
               x4 == <<"Running", st = "running">>
    <2>1. Start4(st) = <<x1, x2, x3, x4>> /\ Start3(st) = <<x2, x3, x4>>
      BY DEF Start4, Start3
    <2>2. x1 = <<"Killed", FALSE>>
      OBVIOUS
    <2> HIDE DEF x1, x2, x3, x4
    <2>3. Head(Start4(st)) = x1 /\ Tail(Start4(st)) = Start3(st) /\ Start4(st) # <<>> /\ Start3(st) # <<>>
      BY <2>1
    <2> QED BY <2>2, <2>3, Zenon
  <1>3. Head(Start3(st)) = <<"Failed", st = "failed">> /\ Tail(Start3(st)) = Start2(st) /\ Start3(st) # <<>>
    BY HeadTail3 DEF Start3, Start2
  <1>4. /\ Head(Start2(st)) = <<"Completed", st = "completed">> /\ Tail(Start2(st)) = Start1(st)
        /\ Start2(st) # <<>>
    BY HeadTail DEF Start2, Start1
  <1>5. Head(Start1(st)) = <<"Running", st = "running">> /\ Tail(Start1(st)) = <<>> /\ Start1(st) # <<>>
    BY HeadTail DEF Start1
  <1> QED BY <1>1, <1>2, <1>3, <1>4, <1>5, Zenon

(***************************************************************************)
(* The assignments of UpdateContainerStatus.                               *)
(***************************************************************************)
LEMMA StatusWrites ==
  /\ Head(CompletedWrites) = <<"Completed", TRUE>> /\ Tail(CompletedWrites) = Completed1
  /\ Head(Completed1) = <<"Running", FALSE>> /\ Tail(Completed1) = <<>> /\ Completed1 # <<>>
  /\ Head(FailedWrites) = <<"Failed", TRUE>> /\ Tail(FailedWrites) = <<>>
  BY HeadTail, Zenon DEF CompletedWrites, Completed1, FailedWrites

(***************************************************************************)
(* How many assignments are left.                                          *)
(***************************************************************************)
LEMMA WritesLen ==
  /\ Len(StopWrites) = 3 /\ Len(Stop2) = 2 /\ Len(Stop1) = 1
  /\ Len(KillWrites) = 3 /\ Len(Kill2) = 2 /\ Len(Kill1) = 1
  /\ \A st \in DeployStates : Len(StartWrites(st)) = 5
  /\ \A st \in DeployStates : Len(Start4(st)) = 4
  /\ \A st \in DeployStates : Len(Start3(st)) = 3
  /\ \A st \in DeployStates : Len(Start2(st)) = 2
  /\ \A st \in DeployStates : Len(Start1(st)) = 1
  BY DEF StopWrites, Stop2, Stop1, KillWrites, Kill2, Kill1, StartWrites, Start4, Start3, Start2,
         Start1

(***************************************************************************)
(* The flags that say a container is down.                                 *)
(***************************************************************************)
LEMMA DownFlags ==
  ASSUME TypeOK, NEW c \in Containers
  PROVE  /\ Down(c) <=> ~(Off(c, "Stopped") /\ Off(c, "Killed"))
         /\ rec[c].Running <=> ~Off(c, "Running")
  <1>1. rec[c].Stopped \in BOOLEAN /\ rec[c].Killed \in BOOLEAN /\ rec[c].Running \in BOOLEAN
    BY DEF TypeOK, LifecycleTypeOK, Flags
  <1> QED BY <1>1, Zenon DEF Down, Off

(* The same after a step.                                                  *)
LEMMA DownFlagsNext ==
  ASSUME TypeOK', NEW c \in Containers
  PROVE  Down(c)' <=> ~(Off(c, "Stopped")' /\ Off(c, "Killed")')
  <1>1. rec'[c].Stopped \in BOOLEAN /\ rec'[c].Killed \in BOOLEAN
    BY DEF TypeOK, LifecycleTypeOK, Flags
  <1> QED BY <1>1, Zenon DEF Down, Off

---------------------------------------------------------------------------
(* What keeps a container in order.                                        *)

(* The step adds nothing of c to the cluster.                              *)
NothingNew(c) ==
    /\ LivePod(c)' => LivePod(c)
    /\ cm'[c] \subseteq cm[c]
    /\ ServicesOf(c)' \subseteq ServicesOf(c)
    /\ c \in tunnels' => c \in tunnels

(* It leaves the flags of c alone, or finds out that c no longer runs.     *)
SameFlags(c) ==
    /\ Off(c, "Stopped")' <=> Off(c, "Stopped")
    /\ Off(c, "Killed")' <=> Off(c, "Killed")
    /\ Off(c, "Running") => Off(c, "Running")'

(* History only grows.                                                     *)
Grows(c) == (c \in broken => c \in broken') /\ (c \in aged => c \in aged')

(* The requests that change c are where they were.                         *)
SameRequests(c) ==
    \A h \in Handlers :
        /\ Active(h, c)' <=> Active(h, c)
        /\ Active(h, c) => /\ req'[h].op = req[h].op /\ req'[h].pc = req[h].pc
                           /\ req'[h].writes = req[h].writes

(***************************************************************************)
(* A step that adds nothing to the cluster and concerns no request that    *)
(* changes c keeps c in order.                                             *)
(***************************************************************************)
LEMMA Keeps ==
  ASSUME NEW c \in Containers, ContainerOK(c), TypeOK, TypeOK', Grows(c), SameFlags(c),
         SameRequests(c), c \in made' <=> c \in made,
         c \notin aged' => NothingNew(c) /\ (c \in db' <=> c \in db)
  PROVE  ContainerOK(c)'
<1> SUFFICES ASSUME c \notin broken'
             PROVE  /\ \A g, h \in Handlers : Active(g, c)' /\ Active(h, c)' => g = h
                    /\ \A h \in Handlers : Active(h, c)' =>
                         /\ FlagStage(req[h], c)'
                         /\ c \notin aged' => c \in db' /\ CleanStage(req[h], c)'
                    /\ (\A h \in Handlers : ~Active(h, c)') =>
                         Agree(c)' /\ (c \notin aged' => Rest(c)')
  BY DEF ContainerOK
<1>1. c \notin broken /\ (c \notin aged' => c \notin aged)
  BY DEF Grows
<1>2. \A g, h \in Handlers : Active(g, c)' /\ Active(h, c)' => g = h
  BY <1>1 DEF ContainerOK, SameRequests
<1>3. Agree(c) => Agree(c)'
  BY DEF Agree, SameFlags
<1>4. c \notin aged' => (Clean(c) => Clean(c)') /\ (~Leftover(c) => ~Leftover(c)')
  <2> SUFFICES ASSUME c \notin aged' PROVE (Clean(c) => Clean(c)') /\ (~Leftover(c) => ~Leftover(c)')
    OBVIOUS
  <2> QED BY DEF Clean, Leftover, NothingNew
<1>5. ASSUME NEW h \in Handlers, Active(h, c)'
      PROVE  /\ FlagStage(req[h], c)'
             /\ c \notin aged' => c \in db' /\ CleanStage(req[h], c)'
  <2>1. Active(h, c) /\ req'[h].op = req[h].op /\ req'[h].pc = req[h].pc
        /\ req'[h].writes = req[h].writes
    BY <1>5 DEF SameRequests
  <2>2. FlagStage(req[h], c) /\ (c \notin aged => c \in db /\ CleanStage(req[h], c))
    BY <1>1, <2>1 DEF ContainerOK
  <2>3. FlagStage(req[h], c)'
    BY <1>3, <2>1, <2>2 DEF FlagStage, SameFlags
  <2>4. ASSUME c \notin aged' PROVE CleanStage(req[h], c)'
    <3>1. CleanStage(req[h], c) /\ NothingNew(c)
      BY <1>1, <2>2, <2>4
    <3> QED BY <1>4, <2>1, <2>4, <3>1, Zenon DEF CleanStage, NothingNew
  <2> QED BY <1>1, <2>2, <2>3, <2>4
<1>6. ASSUME \A h \in Handlers : ~Active(h, c)'
      PROVE  Agree(c)' /\ (c \notin aged' => Rest(c)')
  <2>1. Agree(c) /\ (c \notin aged => Rest(c))
    BY <1>1, <1>6 DEF ContainerOK, SameRequests
  <2>2. Down(c)' => Down(c)
    BY DownFlags, DownFlagsNext DEF SameFlags
  <2> QED BY <1>1, <1>3, <1>4, <2>1, <2>2 DEF Rest
<1> QED BY <1>2, <1>5, <1>6

(***************************************************************************)
(* A step of the only request that changes c keeps c in order when it      *)
(* leaves the record and the cluster as the next point of the request      *)
(* needs them or, if it was the last one, at rest.                         *)
(***************************************************************************)
LEMMA Moves ==
  ASSUME NEW c \in Containers, NEW h \in Handlers,
         \A g \in Handlers \ {h} : req'[g] = req[g],
         c \notin broken' => \A g \in Handlers \ {h} : ~Active(g, c),
         c \notin broken' =>
           IF Active(h, c)'
           THEN FlagStage(req[h], c)' /\ (c \notin aged' => c \in db' /\ CleanStage(req[h], c)')
           ELSE Agree(c)' /\ (c \notin aged' => Rest(c)')
  PROVE  ContainerOK(c)'
<1>1. \A g \in Handlers \ {h} : Active(g, c)' <=> Active(g, c)
  BY DEF Active, Passive
<1> QED BY <1>1, Zenon DEF ContainerOK

---------------------------------------------------------------------------
(* The other requests and the other containers.                            *)

(* A step of one request leaves the other requests alone.                  *)
LEMMA OthersWait ==
  ASSUME Inv, NEW h \in Handlers, HandlerStep(h)
  PROVE  \A g \in Handlers \ {h} : req'[g] = req[g]
<1>1. req \in [Handlers -> Requests]
  BY DEF Inv, TypeOK, LifecycleTypeOK
<1>2. CASE Request(h)
  <2>1. \E q : req' = [req EXCEPT ![h] = q]
    BY <1>2, Zenon DEF Request, ContainerStart, ContainerRestart, ContainerStop, ContainerKill,
         TakeDown, ContainerDelete, ContainerInfo, ContainerWait, ContainerAttach, Begin, EnterStart
  <2> QED BY <1>1, <2>1
<1>3. CASE Proceed(h) \/ ClientGone(h) \/ StreamEnds(h)
  <2>1. \E q : req' = [req EXCEPT ![h] = q]
    BY <1>3, Zenon DEF Proceed, ClientGone, StreamEnds, DeleteServices, DeleteConfigMaps,
         DeletePods, DropRecord, WatchDeleteContainer, WatchTimeout, AwaitDeleted,
         CreateConfigMap, CreatePod, CopyVolumes, AwaitReady, CreateService, PublishPorts,
         AbortStart, WriteFlag, SaveContainer, UpdateContainerStatus, Poll, PollLimited,
         CheckDone, Hijack, Detached, FinishAttach, Goto, Return, Assign, EnterStart
  <2> QED BY <1>1, <2>1
<1> QED BY <1>2, <1>3 DEF HandlerStep

(* It leaves alone the record, the tunnels and the deletion of the Pod of  *)
(* another container, and whether that container is broken.                *)
LEMMA Spares ==
  ASSUME Inv, NEW h \in Handlers, Proceed(h) \/ ClientGone(h) \/ StreamEnds(h),
         NEW c \in Containers, req[h].con # c
  PROVE  /\ rec'[c] = rec[c] /\ (c \in tunnels' <=> c \in tunnels)
         /\ c \in broken' <=> c \in broken
         /\ c \in terminating => c \in terminating'
<1>1. rec \in [Containers -> [Flags -> BOOLEAN]]
  BY DEF Inv, TypeOK, LifecycleTypeOK
<1>2. CASE DeleteServices(h) \/ DeleteConfigMaps(h) \/ DeletePods(h) \/ DropRecord(h) \/ AbortStart(h)
  BY <1>2, Zenon DEF DeleteServices, DeleteConfigMaps, DeletePods, DropRecord, AbortStart, Break, Con, Signal,
       deleteServices, deleteConfigMaps, deletePods, DeletePod, clusterVars
<1>3. CASE WatchDeleteContainer(h) \/ WatchTimeout(h) \/ AwaitDeleted(h)
  BY <1>3 DEF WatchDeleteContainer, WatchTimeout, AwaitDeleted, clusterVars
<1>4. CASE CreateConfigMap(h) \/ CreatePod(h) \/ CopyVolumes(h) \/ AwaitReady(h)
  BY <1>4, Zenon DEF CreateConfigMap, CreatePod, CopyVolumes, AwaitReady
<1>5. CASE CreateService(h) \/ PublishPorts(h)
  BY <1>5 DEF CreateService, PublishPorts, Break, Con
<1>6. CASE WriteFlag(h)
  BY <1>1, <1>6, Zenon DEF WriteFlag, Con, clusterVars
<1>7. CASE SaveContainer(h) \/ UpdateContainerStatus(h) \/ Poll(h) \/ PollLimited(h) \/ CheckDone(h)
  BY <1>7, Zenon DEF SaveContainer, UpdateContainerStatus, Poll, PollLimited, CheckDone, clusterVars
<1>8. CASE Hijack(h) \/ Detached(h) \/ StreamEnds(h) \/ ClientGone(h)
  BY <1>8, Zenon DEF Hijack, Detached, StreamEnds, ClientGone, FinishAttach, clusterVars
<1> QED BY <1>2, <1>3, <1>4, <1>5, <1>6, <1>7, <1>8, Zenon DEF Proceed

(* The other containers stay in order.                                     *)
LEMMA OthersInOrder ==
  ASSUME Inv, Inv', NEW h \in Handlers, Proceed(h) \/ ClientGone(h) \/ StreamEnds(h),
         UNCHANGED <<aged, reaperVars>>,
         NEW c \in Containers, req[h].con # c, ContainerOK(c)
  PROVE  ContainerOK(c)'
<1>1. \A g \in Handlers \ {h} : req'[g] = req[g]
  BY OthersWait DEF HandlerStep
<1>2. SameObjects(c) /\ SameHolders(c)
  BY ProceedSpares DEF Untouched
<1>3. /\ rec'[c] = rec[c] /\ (c \in tunnels' <=> c \in tunnels)
      /\ c \in broken' <=> c \in broken
      /\ c \in terminating => c \in terminating'
  BY Spares
<1>4. SameFlags(c)
  BY <1>3 DEF SameFlags, Off
<1>5. NothingNew(c)
  BY <1>2, <1>3 DEF NothingNew, SameObjects, LivePod, ServicesOf
<1>6. SameRequests(c)
  <2> SUFFICES ASSUME NEW g \in Handlers
               PROVE  /\ Active(g, c)' <=> Active(g, c)
                      /\ Active(g, c) => /\ req'[g].op = req[g].op /\ req'[g].pc = req[g].pc
                                         /\ req'[g].writes = req[g].writes
    BY DEF SameRequests
  <2>1. CASE g = h
    BY <1>2, <2>1 DEF SameHolders, Active
  <2>2. CASE g # h
    BY <1>1, <2>2 DEF Active, Passive
  <2> QED BY <2>1, <2>2
<1>7. Grows(c)
  BY <1>3 DEF Grows
<1> QED BY <1>2, <1>4, <1>5, <1>6, <1>7, Keeps, Zenon DEF SameHolders, Inv

---------------------------------------------------------------------------
(* The request after a step.                                               *)

(* A request that moves on.                                                *)
LEMMA AfterGoto ==
  ASSUME Inv, NEW h \in Handlers, NEW l, Goto(h, l)
  PROVE  /\ req'[h].pc = l /\ req'[h].op = req[h].op /\ req'[h].con = req[h].con
         /\ req'[h].writes = req[h].writes
<1>1. req \in [Handlers -> Requests]
  BY DEF Inv, TypeOK, LifecycleTypeOK
<1> QED BY <1>1 DEF Goto, Requests

(* A request that moves on to its assignments.                             *)
LEMMA AfterAssign ==
  ASSUME Inv, NEW h \in Handlers, NEW w, Assign(h, w)
  PROVE  /\ req'[h].pc = "flags" /\ req'[h].op = req[h].op /\ req'[h].con = req[h].con
         /\ req'[h].writes = w
<1>1. req \in [Handlers -> Requests]
  BY DEF Inv, TypeOK, LifecycleTypeOK
<1> QED BY <1>1 DEF Assign, Requests

(* A request that is answered.                                             *)
LEMMA AfterReturn ==
  ASSUME Inv, NEW h \in Handlers, Return(h)
  PROVE  /\ req'[h].pc = "idle" /\ req'[h].op = "none" /\ req'[h].con = NoContainer
<1>1. req \in [Handlers -> Requests]
  BY DEF Inv, TypeOK, LifecycleTypeOK
<1>2. req'[h] = Idle
  BY <1>1 DEF Return
<1> QED BY <1>2 DEF Idle

(* A request that is accepted.                                             *)
LEMMA AfterBegin ==
  ASSUME Inv, NEW h \in Handlers, NEW o, NEW c, NEW l,
         Begin(h, o, c, l) \/ (EnterStart(h, o, c) /\ l = "files")
  PROVE  req'[h].pc = l /\ req'[h].op = o /\ req'[h].con = c
<1>1. req \in [Handlers -> Requests]
  BY DEF Inv, TypeOK, LifecycleTypeOK
<1>2. \/ req'[h] = [Idle EXCEPT !.op = o, !.con = c, !.pc = l]
      \/ req'[h] = [Idle EXCEPT !.op = o, !.con = c, !.pc = "files", !.todo = Files[c]] /\ l = "files"
  BY <1>1 DEF Begin, EnterStart
<1>3. Idle \in Requests
  BY IdleOK DEF ReqOK
<1> QED BY <1>2, <1>3, Zenon DEF Requests

(* A request that enters the start of a container.                         *)
LEMMA AfterEnter ==
  ASSUME Inv, NEW h \in Handlers, NEW o, NEW c, EnterStart(h, o, c)
  PROVE  req'[h].pc = "files" /\ req'[h].op = o /\ req'[h].con = c
<1> DEFINE l == "files"
<1>1. EnterStart(h, o, c) /\ l = "files"
  OBVIOUS
<1> HIDE DEF l
<1>2. req'[h].pc = l /\ req'[h].op = o /\ req'[h].con = c
  BY <1>1, AfterBegin, Zenon
<1> QED BY <1>1, <1>2

(* A handler without a request has nothing to assign.                      *)
LEMMA ShapeIdle ==
  ASSUME NEW r, r.pc = "idle"
  PROVE  ShapeOK(r)
  BY DEF ShapeOK, Starting, Deleting

---------------------------------------------------------------------------
(* Requests that change nothing but what they read from the cluster.       *)

(* They leave every container in order.                                    *)
LEMMA ReadersInOrder ==
  ASSUME Inv, Inv', NEW h \in Handlers, HandlerStep(h), UNCHANGED <<aged, reaperVars>>,
         UNCHANGED <<pod, terminating, cm, svc, made, db, tunnels, broken>>,
         NEW c \in Containers, ContainerOK(c), SameFlags(c),
         \/ ~Active(h, c) /\ ~Active(h, c)'
         \/ /\ req'[h].con = req[h].con /\ req'[h].op = req[h].op
            /\ req'[h].pc = req[h].pc /\ req'[h].writes = req[h].writes
  PROVE  ContainerOK(c)'
<1>1. \A g \in Handlers \ {h} : req'[g] = req[g]
  BY OthersWait
<1>2. SameRequests(c)
  <2> SUFFICES ASSUME NEW g \in Handlers
               PROVE  /\ Active(g, c)' <=> Active(g, c)
                      /\ Active(g, c) => /\ req'[g].op = req[g].op /\ req'[g].pc = req[g].pc
                                         /\ req'[g].writes = req[g].writes
    BY Zenon DEF SameRequests
  <2> QED BY <1>1, Zenon DEF Active, Passive
<1>3. NothingNew(c)
  BY Zenon DEF NothingNew, LivePod, ServicesOf
<1> QED BY <1>2, <1>3, Keeps, Zenon DEF Inv, Grows

(* UpdateContainerStatus, the ticks of ContainerWait, attach sessions and  *)
(* the timer of a restart.                                                 *)
LEMMA ReaderSteps ==
  ASSUME Inv, Inv', NEW h \in Handlers, ShapeOK(req[h]), UNCHANGED <<aged, reaperVars>>,
         \/ UpdateContainerStatus(h) \/ Poll(h) \/ PollLimited(h) \/ CheckDone(h) \/ Hijack(h)
         \/ Detached(h) \/ StreamEnds(h) \/ ClientGone(h) \/ WatchTimeout(h)
  PROVE  /\ ShapeOK(req[h])'
         /\ \A c \in Containers : ContainerOK(c) => ContainerOK(c)'
<1>1. HandlerStep(h)
  BY DEF HandlerStep, Proceed
<1>2. UNCHANGED <<pod, terminating, cm, svc, made, db, tunnels, broken, rec>>
  BY Zenon DEF UpdateContainerStatus, Poll, PollLimited, CheckDone, Hijack, Detached, StreamEnds,
         ClientGone, WatchTimeout, FinishAttach, clusterVars
<1>3. \A c \in Containers : SameFlags(c)
  BY <1>2 DEF SameFlags, Off
<1>4. \A c \in Containers : c # NoContainer
  BY ClusterAssumption
<1>5. CASE WatchTimeout(h)
  <2>1. req \in [Handlers -> Requests]
    BY DEF Inv, TypeOK, LifecycleTypeOK
  <2>2. /\ req'[h].con = req[h].con /\ req'[h].op = req[h].op
        /\ req'[h].pc = req[h].pc /\ req'[h].writes = req[h].writes
    BY <1>5, <2>1 DEF WatchTimeout, Requests
  <2>3. ShapeOK(req[h])'
    BY <2>2, Zenon DEF ShapeOK
  <2> QED BY <1>1, <1>2, <1>3, <2>2, <2>3, ReadersInOrder, Zenon
<1>6. CASE UpdateContainerStatus(h)
  <2>1. \/ Assign(h, FailedWrites) \/ Assign(h, CompletedWrites)
        \/ Goto(h, "check") \/ Return(h)
    BY <1>6, Zenon DEF UpdateContainerStatus
  <2>2. req[h].op \in {"inspect", "wait"}
    BY <1>6, Zenon DEF UpdateContainerStatus, At, ShapeOK
  <2>3. ShapeOK(req[h])'
    <3>1. CASE Return(h)
      BY <3>1, AfterReturn, Zenon DEF ShapeOK, Starting, Deleting
    <3>2. CASE Goto(h, "check")
      <4>1. req'[h].pc = "check" /\ req'[h].op \in {"inspect", "wait"}
        BY <2>2, <3>2, AfterGoto, Zenon
      <4> QED BY <4>1, Zenon DEF ShapeOK, Starting, Deleting
    <3>3. ASSUME NEW w \in {FailedWrites, CompletedWrites}, Assign(h, w) PROVE ShapeOK(req[h])'
      BY <2>2, <3>3, AfterAssign, Zenon DEF ShapeOK, Starting, Deleting
    <3> QED BY <2>1, <3>1, <3>2, <3>3, Zenon
  <2>4. req'[h].op \in {"inspect", "wait"} \/ req'[h].con = NoContainer
    BY <2>1, <2>2, AfterAssign, AfterGoto, AfterReturn, Zenon
  <2>5. \A c \in Containers : ~Active(h, c) /\ ~Active(h, c)'
    BY <1>4, <2>2, <2>4, Zenon DEF Active, Passive
  <2> QED BY <1>1, <1>2, <1>3, <2>3, <2>5, ReadersInOrder, Zenon
<1>7. CASE Poll(h) \/ PollLimited(h) \/ CheckDone(h) \/ ClientGone(h)
  <2>1. Goto(h, "status") \/ Goto(h, "poll") \/ Return(h)
    BY <1>7, Zenon DEF Poll, PollLimited, CheckDone, ClientGone
  <2>2. req[h].op \in {"inspect", "wait"}
    BY <1>7, Zenon DEF Poll, PollLimited, CheckDone, ClientGone, At, ShapeOK
  <2>3. ShapeOK(req[h])'
    <3>1. CASE Return(h)
      BY <3>1, AfterReturn, Zenon DEF ShapeOK, Starting, Deleting
    <3>2. ASSUME NEW l \in {"status", "poll"}, Goto(h, l) PROVE ShapeOK(req[h])'
      BY <2>2, <3>2, AfterGoto, Zenon DEF ShapeOK, Starting, Deleting
    <3> QED BY <2>1, <3>1, <3>2, Zenon
  <2>4. req'[h].op \in {"inspect", "wait"} \/ req'[h].con = NoContainer
    BY <2>1, <2>2, AfterGoto, AfterReturn, Zenon
  <2>5. \A c \in Containers : ~Active(h, c) /\ ~Active(h, c)'
    BY <1>4, <2>2, <2>4, Zenon DEF Active, Passive
  <2> QED BY <1>1, <1>2, <1>3, <2>3, <2>5, ReadersInOrder, Zenon
<1>8. CASE Hijack(h) \/ Detached(h) \/ StreamEnds(h)
  <2>1. Goto(h, "attached") \/ Return(h)
    BY <1>8, Zenon DEF Hijack, Detached, StreamEnds, FinishAttach
  <2>2. req[h].op = "attach" /\ req[h].pc \in {"hijack", "attached"}
    BY <1>8, Zenon DEF Hijack, Detached, StreamEnds, At, ShapeOK
  <2>3. ShapeOK(req[h])'
    <3>1. CASE Return(h)
      BY <3>1, AfterReturn, Zenon DEF ShapeOK, Starting, Deleting
    <3>2. CASE Goto(h, "attached")
      <4>1. req'[h].pc = "attached" /\ req'[h].op = "attach"
        BY <2>2, <3>2, AfterGoto, Zenon
      <4> QED BY <4>1, Zenon DEF ShapeOK, Starting, Deleting
    <3> QED BY <2>1, <3>1, <3>2
  <2>4. req'[h].pc = "attached" \/ req'[h].con = NoContainer
    BY <2>1, <2>2, AfterGoto, AfterReturn, Zenon
  <2>5. \A c \in Containers : ~Active(h, c) /\ ~Active(h, c)'
    BY <1>4, <2>2, <2>4, Zenon DEF Active, Passive
  <2> QED BY <1>1, <1>2, <1>3, <2>3, <2>5, ReadersInOrder, Zenon
<1> QED BY <1>5, <1>6, <1>7, <1>8

---------------------------------------------------------------------------
(* Requests that change their container.                                   *)

(* c is as the request of h needs it, if that one changes c, or at rest.   *)
InOrder(h, c) ==
    IF Active(h, c) THEN FlagStage(req[h], c) /\ (c \notin aged => c \in db /\ CleanStage(req[h], c))
                    ELSE Agree(c) /\ (c \notin aged => Rest(c))

(* A step of the one request that changes c.                               *)
LEMMA OwnContainer ==
  ASSUME Inv, NEW h \in Handlers, HandlerStep(h), NEW c \in Containers, ContainerOK(c), Grows(c),
         Active(h, c) \/ (c \notin broken' => \A g \in Handlers \ {h} : ~Active(g, c)),
         c \notin broken' /\ InOrder(h, c) => InOrder(h, c)'
  PROVE  ContainerOK(c)'
<1>1. \A g \in Handlers \ {h} : req'[g] = req[g]
  BY OthersWait
<1>2. c \notin broken' => \A g \in Handlers \ {h} : ~Active(g, c)
  BY DEF ContainerOK, Grows
<1>3. ASSUME c \notin broken' PROVE InOrder(h, c)'
  <2>1. c \notin broken /\ \A g \in Handlers \ {h} : ~Active(g, c)
    BY <1>2, <1>3 DEF Grows
  <2>2. CASE Active(h, c)
    BY <1>3, <2>1, <2>2, Zenon DEF ContainerOK, InOrder
  <2>3. CASE ~Active(h, c)
    BY <1>3, <2>1, <2>3, Zenon DEF ContainerOK, InOrder
  <2> QED BY <2>2, <2>3
<1>4. c \notin broken' =>
           IF Active(h, c)'
           THEN FlagStage(req[h], c)' /\ (c \notin aged' => c \in db' /\ CleanStage(req[h], c)')
           ELSE Agree(c)' /\ (c \notin aged' => Rest(c)')
  BY <1>3, Zenon DEF InOrder
<1> QED BY <1>1, <1>2, <1>4, Moves, Zenon

(* The three parts of Backend.DeleteContainer, when no call fails.         *)
LEMMA DeletesAll ==
  ASSUME ClusterTypeOK, NEW c \in Containers
  PROVE  /\ deleteServices(c, TRUE) => ServicesOf(c)' = {} /\ UNCHANGED <<pod, terminating, cm>>
         /\ deleteConfigMaps(c, TRUE) => cm'[c] = {} /\ UNCHANGED <<pod, terminating, svc>>
         /\ deletePods(c, TRUE) => ~LivePod(c)' /\ UNCHANGED <<pod, cm, svc>>
<1>1. ASSUME deleteServices(c, TRUE) PROVE ServicesOf(c)' = {}
  <2>1. svc' = [n \in Names |-> IF n \in ServicesOf(c) THEN NoContainer ELSE svc[n]]
    BY <1>1 DEF deleteServices
  <2>2. \A n \in Names : svc'[n] # c
    BY <2>1, ClusterAssumption DEF ServicesOf
  <2> QED BY <2>2 DEF ServicesOf
<1>2. ASSUME deleteConfigMaps(c, TRUE) PROVE cm'[c] = {}
  BY <1>2 DEF deleteConfigMaps, ClusterTypeOK
<1>3. ASSUME deletePods(c, TRUE) PROVE ~LivePod(c)'
  BY <1>3 DEF deletePods, DeletePod, LivePod
<1>4. /\ deleteServices(c, TRUE) => UNCHANGED <<pod, terminating, cm>>
      /\ deleteConfigMaps(c, TRUE) => UNCHANGED <<pod, terminating, svc>>
      /\ deletePods(c, TRUE) => UNCHANGED <<pod, cm, svc>>
  BY Zenon DEF deleteServices, deleteConfigMaps, deletePods
<1> QED BY <1>1, <1>2, <1>3, <1>4, Zenon

(* Agree only looks at the record.                                         *)
LEMMA SameAgree ==
  ASSUME UNCHANGED rec
  PROVE  \A c : (Agree(c)' <=> Agree(c)) /\ \A f : Off(c, f)' <=> Off(c, f)
  BY DEF Agree, Off

(* Taking a container down: Backend.DeleteContainer, the watch of a        *)
(* restart and the removal of the record.                                  *)
LEMMA TakeDownSteps ==
  ASSUME Inv, Inv', NEW h \in Handlers, ShapeOK(req[h]), UNCHANGED <<aged, reaperVars>>,
         NEW c \in Containers, c = req[h].con, ContainerOK(c),
         \/ DeleteServices(h) \/ DeleteConfigMaps(h) \/ DeletePods(h) \/ DropRecord(h)
         \/ WatchDeleteContainer(h) \/ AwaitDeleted(h)
  PROVE  ShapeOK(req[h])' /\ ContainerOK(c)'
<1>1. HandlerStep(h)
  BY DEF HandlerStep, Proceed
<1>2. /\ req[h].pc \in {"del_svc", "del_cm", "del_pod", "drop", "watch", "deleted"}
      /\ req[h].op \in {"stop", "kill", "delete", "restart"}
  BY Zenon DEF DeleteServices, DeleteConfigMaps, DeletePods, DropRecord, WatchDeleteContainer,
         AwaitDeleted, At, ShapeOK, Deleting
<1>3. Active(h, c)
  BY <1>2, Zenon DEF Active, Passive
<1>4. UNCHANGED <<rec, made>> /\ Grows(c)
  BY DEF DeleteServices, DeleteConfigMaps, DeletePods, DropRecord, WatchDeleteContainer,
         AwaitDeleted, Grows, Break
<1>5. \A f : Off(c, f)' <=> Off(c, f)
  BY <1>4, SameAgree
<1>6. (Agree(c)' <=> Agree(c)) /\ ClusterTypeOK /\ c # NoContainer
  BY <1>4, SameAgree, ClusterAssumption, Zenon DEF Inv, TypeOK
<1>7. ASSUME InOrder(h, c) PROVE Agree(c)' /\ (c \notin aged' => c \in db /\ CleanStage(req[h], c))
  BY <1>2, <1>3, <1>6, <1>7, Zenon DEF InOrder, FlagStage
<1>8. CASE DeleteServices(h)
  <2>1. Goto(h, "del_cm") /\ req[h].pc = "del_svc" /\ UNCHANGED <<db, tunnels>>
    BY <1>8, Zenon DEF DeleteServices, At
  <2>2. req'[h].pc = "del_cm" /\ req'[h].op = req[h].op /\ req'[h].con = c
    BY <2>1, AfterGoto, Zenon
  <2>3. ShapeOK(req[h])'
    BY <1>2, <2>2, Zenon DEF ShapeOK, Starting, Deleting
  <2>4. Active(h, c)'
    BY <1>2, <2>2, Zenon DEF Active, Passive
  <2>5. ASSUME c \notin broken', InOrder(h, c) PROVE InOrder(h, c)'
    <3>1. deleteServices(c, TRUE)
      BY <1>8, <2>5, Zenon DEF DeleteServices, Break, Con
    <3>2. ServicesOf(c)' = {}
      BY <1>6, <3>1, DeletesAll, Zenon
    <3>3. FlagStage(req[h], c)'
      BY <1>7, <2>2, <2>5, Zenon DEF FlagStage
    <3>4. c \notin aged' => CleanStage(req[h], c)'
      BY <1>7, <2>1, <2>2, <2>5, <3>2, Zenon DEF CleanStage, Deleting
    <3> QED BY <1>7, <2>1, <2>4, <2>5, <3>3, <3>4, Zenon DEF InOrder
  <2> QED BY <1>1, <1>3, <1>4, <2>3, <2>5, OwnContainer, Zenon
<1>9. CASE DeleteConfigMaps(h)
  <2>1. Goto(h, "del_pod") /\ req[h].pc = "del_cm" /\ UNCHANGED <<db, tunnels>>
    BY <1>9, Zenon DEF DeleteConfigMaps, At
  <2>2. req'[h].pc = "del_pod" /\ req'[h].op = req[h].op /\ req'[h].con = c
    BY <2>1, AfterGoto, Zenon
  <2>3. ShapeOK(req[h])'
    BY <1>2, <2>2, Zenon DEF ShapeOK, Starting, Deleting
  <2>4. Active(h, c)'
    BY <1>2, <2>2, Zenon DEF Active, Passive
  <2>5. ASSUME c \notin broken', InOrder(h, c) PROVE InOrder(h, c)'
    <3>1. deleteConfigMaps(c, TRUE)
      BY <1>9, <2>5, Zenon DEF DeleteConfigMaps, Break, Con
    <3>2. cm'[c] = {} /\ ServicesOf(c)' = ServicesOf(c)
      BY <1>6, <3>1, DeletesAll, ZenonT(30) DEF ServicesOf
    <3>3. FlagStage(req[h], c)'
      BY <1>7, <2>2, <2>5, Zenon DEF FlagStage
    <3>4. c \notin aged' => CleanStage(req[h], c)'
      BY <1>7, <2>1, <2>2, <2>5, <3>2, Zenon DEF CleanStage, Deleting
    <3> QED BY <1>7, <2>1, <2>4, <2>5, <3>3, <3>4, Zenon DEF InOrder
  <2> QED BY <1>1, <1>3, <1>4, <2>3, <2>5, OwnContainer, Zenon
<1>10. CASE DropRecord(h)
  <2>1. Return(h) /\ req[h].pc = "drop" /\ UNCHANGED <<clusterVars, tunnels>>
    BY <1>10, Zenon DEF DropRecord, At
  <2>2. req'[h].pc = "idle" /\ req'[h].con = NoContainer
    BY <2>1, AfterReturn, Zenon
  <2>3. ~Active(h, c)' /\ ShapeOK(req[h])'
    BY <1>6, <2>2, ShapeIdle DEF Active
  <2>4. ASSUME InOrder(h, c) PROVE InOrder(h, c)'
    <3>1. c \notin aged' => Clean(c)
      BY <1>7, <2>1, <2>4, Zenon DEF CleanStage
    <3>2. (Clean(c)' <=> Clean(c)) /\ (Leftover(c)' <=> Leftover(c))
      BY <2>1, Zenon DEF Clean, Leftover, LivePod, ServicesOf, clusterVars
    <3>3. c \notin aged' => Rest(c)'
      BY <3>1, <3>2 DEF Rest, Clean
    <3> QED BY <1>7, <2>3, <2>4, <3>3, Zenon DEF InOrder
  <2> QED BY <1>1, <1>3, <1>4, <2>3, <2>4, OwnContainer, Zenon
<1>11. CASE WatchDeleteContainer(h)
  <2>1. /\ req[h].pc = "watch" /\ UNCHANGED <<db, tunnels>>
        /\ \E w : req' = [req EXCEPT ![h].pc = "del_svc", ![h].watch = w]
    BY <1>11, Zenon DEF WatchDeleteContainer, At
  <2>2. req'[h].pc = "del_svc" /\ req'[h].op = req[h].op /\ req'[h].con = c
    BY <2>1 DEF Inv, TypeOK, LifecycleTypeOK, Requests
  <2>3. req[h].op = "restart"
    BY <2>1 DEF ShapeOK
  <2>4. ShapeOK(req[h])' /\ Active(h, c)'
    BY <2>2, <2>3, Zenon DEF ShapeOK, Starting, Deleting, Active, Passive
  <2>5. ASSUME InOrder(h, c) PROVE InOrder(h, c)'
    <3>1. FlagStage(req[h], c)'
      BY <1>7, <2>2, <2>5, Zenon DEF FlagStage
    <3>2. CleanStage(req[h], c)'
      BY <2>2, <2>3, Zenon DEF CleanStage, Deleting
    <3> QED BY <1>7, <2>1, <2>4, <2>5, <3>1, <3>2 DEF InOrder
  <2> QED BY <1>1, <1>3, <1>4, <2>4, <2>5, OwnContainer, Zenon
<1>12. CASE AwaitDeleted(h)
  <2>1. EnterStart(h, "start", c) /\ UNCHANGED <<db, tunnels>>
    BY <1>12, Zenon DEF AwaitDeleted, Con
  <2>2. req'[h].pc = "files" /\ req'[h].op = "start" /\ req'[h].con = c
    BY <2>1, AfterEnter
  <2>3. ShapeOK(req[h])' /\ Active(h, c)'
    BY <2>2, Zenon DEF ShapeOK, Starting, Deleting, Active, Passive
  <2>4. ASSUME InOrder(h, c) PROVE InOrder(h, c)'
    <3>1. FlagStage(req[h], c)'
      BY <1>7, <2>2, <2>4, Zenon DEF FlagStage
    <3>2. CleanStage(req[h], c)'
      BY <2>2, Zenon DEF CleanStage, Deleting
    <3> QED BY <1>7, <2>1, <2>3, <2>4, <3>1, <3>2, Zenon DEF InOrder
  <2> QED BY <1>1, <1>3, <1>4, <2>3, <2>4, OwnContainer, Zenon
<1>13. CASE DeletePods(h)
  <2>1. req[h].pc = "del_pod" /\ UNCHANGED db
    BY <1>13, Zenon DEF DeletePods, At
  <2>2. ASSUME c \notin broken', InOrder(h, c), c \notin aged' PROVE Clean(c)'
    <3>1. deletePods(c, TRUE)
      BY <1>13, <2>2, Zenon DEF DeletePods, Break, Con
    <3>2. ~LivePod(c)' /\ cm'[c] = cm[c] /\ ServicesOf(c)' = ServicesOf(c)
      BY <1>6, <3>1, DeletesAll, ZenonT(30) DEF ServicesOf
    <3>3. c \notin tunnels'
      BY <1>7, <1>13, <2>1, <2>2, Zenon DEF DeletePods, Signal, Con, CleanStage, Deleting
    <3> QED BY <1>7, <2>1, <2>2, <3>2, <3>3, Zenon DEF CleanStage, Clean, Leftover
  <2>3. CASE req[h].op = "delete"
    <3>1. req'[h].pc = "drop" /\ req'[h].op = req[h].op /\ req'[h].con = c
      BY <1>13, <2>3, AfterGoto, Zenon DEF DeletePods
    <3>2. ShapeOK(req[h])' /\ Active(h, c)'
      BY <2>3, <3>1, Zenon DEF ShapeOK, Starting, Deleting, Active, Passive
    <3>3. ASSUME c \notin broken', InOrder(h, c) PROVE InOrder(h, c)'
      <4>1. FlagStage(req[h], c)'
        BY <1>7, <3>1, <3>3, Zenon DEF FlagStage
      <4>2. c \notin aged' => CleanStage(req[h], c)'
        BY <2>2, <3>1, <3>3, Zenon DEF CleanStage, Deleting
      <4> QED BY <1>7, <2>1, <3>2, <3>3, <4>1, <4>2, Zenon DEF InOrder
    <3> QED BY <1>1, <1>3, <1>4, <3>2, <3>3, OwnContainer, Zenon
  <2>4. CASE req[h].op # "delete"
    <3> DEFINE w == IF req[h].op = "kill" THEN KillWrites ELSE StopWrites
    <3>1. Assign(h, w)
      BY <1>13, <2>4, Zenon DEF DeletePods
    <3>2. req'[h].pc = "flags" /\ req'[h].op = req[h].op /\ req'[h].con = c /\ req'[h].writes = w
      BY <3>1, AfterAssign, Zenon
    <3>3. Active(h, c)'
      BY <1>2, <3>2, Zenon DEF Active, Passive
    <3>4. ShapeOK(req[h])'
      BY <1>2, <2>4, <3>2, Zenon DEF ShapeOK, Starting, Deleting
    <3>5. Len(w) = 3
      BY WritesLen
    <3> HIDE DEF w
    <3>6. ASSUME c \notin broken', InOrder(h, c) PROVE InOrder(h, c)'
      <4>0. ~(Len(req'[h].writes) < 3) /\ ~(Len(req'[h].writes) < 2)
        <5>1. Len(req'[h].writes) = 3
          BY <3>2, <3>5, Zenon
        <5> QED BY <5>1
      <4>1. FlagStage(req[h], c)'
        <5>1. req'[h].op \notin {"start", "attach"} /\ req'[h].pc = "flags"
          BY <1>2, <3>2
        <5> QED BY <4>0, <5>1, Zenon DEF FlagStage
      <4>2. c \notin aged' => CleanStage(req[h], c)'
        BY <2>2, <3>2, <3>6, Zenon DEF CleanStage, Deleting
      <4> QED BY <1>7, <2>1, <3>3, <3>6, <4>1, <4>2, Zenon DEF InOrder
    <3> QED BY <1>1, <1>3, <1>4, <3>3, <3>4, <3>6, OwnContainer, Zenon
  <2> QED BY <2>3, <2>4
<1> QED BY <1>8, <1>9, <1>10, <1>11, <1>12, <1>13, Zenon

(* Starting a container: up to its flags, a step needs and promises        *)
(* nothing of the cluster.                                                 *)
LEMMA StartUpOrder ==
  ASSUME Inv, NEW h \in Handlers, HandlerStep(h), NEW c \in Containers, c = req[h].con,
         ContainerOK(c), UNCHANGED <<aged, rec, db>>, Grows(c),
         req[h].op \in {"start", "attach"}, req[h].pc \in Starting,
         \/ c \in broken'
         \/ /\ req'[h].con = c /\ req'[h].op = req[h].op
            /\ \/ req'[h].pc \in Starting
               \/ req'[h].pc = "flags" /\ Len(req'[h].writes) = 5
  PROVE  ContainerOK(c)'
<1>1. Active(h, c)
  BY Zenon DEF Active, Passive, Starting
<1>2. CASE c \in broken'
  BY <1>1, <1>2, OwnContainer, Zenon
<1>3. CASE /\ req'[h].con = c /\ req'[h].op = req[h].op
           /\ \/ req'[h].pc \in Starting
              \/ req'[h].pc = "flags" /\ Len(req'[h].writes) = 5
  <2>1. Active(h, c)'
    BY <1>3 DEF Active, Passive, Starting
  <2>2. ASSUME InOrder(h, c) PROVE InOrder(h, c)'
    <3>1. Agree(c) /\ (c \notin aged => c \in db)
      BY <1>1, <2>2, Zenon DEF InOrder, FlagStage, Starting
    <3>2. Agree(c)'
      BY <3>1, SameAgree, Zenon
    <3>3. CASE req'[h].pc \in Starting
      <4>1. req'[h].pc \notin {"flags", "save", "drop", "deleted", "del_svc", "del_cm", "del_pod"}
        BY <3>3 DEF Starting
      <4>2. FlagStage(req[h], c)'
        BY <3>2, <4>1, Zenon DEF FlagStage
      <4>3. CleanStage(req[h], c)'
        BY <4>1, Zenon DEF CleanStage, Deleting
      <4> QED BY <2>1, <3>1, <4>2, <4>3, Zenon DEF InOrder
    <3>4. CASE req'[h].pc = "flags" /\ Len(req'[h].writes) = 5
      <4>1. ~(Len(req'[h].writes) < 5) /\ ~(Len(req'[h].writes) < 4)
        BY <3>4
      <4>2. req'[h].op \notin {"stop", "restart", "kill"}
        BY <1>3
      <4>3. FlagStage(req[h], c)'
        BY <3>4, <4>1, <4>2, Zenon DEF FlagStage
      <4>4. CleanStage(req[h], c)'
        BY <3>4, <4>2, Zenon DEF CleanStage, Deleting
      <4> QED BY <2>1, <3>1, <4>3, <4>4, Zenon DEF InOrder
    <3> QED BY <1>3, <3>3, <3>4, Zenon
  <2> QED BY <1>1, <2>2, OwnContainer, Zenon
<1> QED BY <1>2, <1>3, Zenon

(* The steps of StartContainer.                                            *)
LEMMA StartUpSteps ==
  ASSUME Inv, Inv', NEW h \in Handlers, ShapeOK(req[h]), UNCHANGED <<aged, reaperVars>>,
         NEW c \in Containers, c = req[h].con, ContainerOK(c),
         \/ CreateConfigMap(h) \/ CreatePod(h) \/ CopyVolumes(h) \/ AwaitReady(h)
         \/ CreateService(h) \/ PublishPorts(h) \/ AbortStart(h)
  PROVE  ShapeOK(req[h])' /\ ContainerOK(c)'
<1>1. HandlerStep(h)
  BY DEF HandlerStep, Proceed
<1>2. req[h].pc \in Starting /\ req[h].op \in {"start", "attach"}
  BY Zenon DEF CreateConfigMap, CreatePod, CopyVolumes, AwaitReady, CreateService, PublishPorts,
         AbortStart, At, ShapeOK, Starting
<1>3. UNCHANGED <<rec, db>> /\ Grows(c)
  BY Zenon DEF CreateConfigMap, CreatePod, CopyVolumes, AwaitReady, CreateService, PublishPorts,
         AbortStart, Grows, Break
<1>4. req \in [Handlers -> Requests] /\ c # NoContainer
  BY ClusterAssumption DEF Inv, TypeOK, LifecycleTypeOK
<1> DEFINE Ahead == /\ req'[h].con = c /\ req'[h].op = req[h].op
                    /\ \/ req'[h].pc \in Starting
                       \/ /\ req'[h].pc = "flags"
                          /\ \E st \in DeployStates : req'[h].writes = StartWrites(st)
<1>5. Ahead \/ (req'[h].pc = "idle" /\ c \in broken')
  <2>1. CASE CreateConfigMap(h)
    <3>1. \/ Goto(h, "abort")
          \/ \E t : req' = [req EXCEPT ![h].todo = t] /\ req[h].pc = "files"
      BY <2>1, Zenon DEF CreateConfigMap, At
    <3> QED BY <1>4, <3>1, AfterGoto DEF Requests, Starting
  <2>2. CASE CreatePod(h)
    <3>1. \E l \in {"abort", "copy", "ready"} : \E d : req' = [req EXCEPT ![h].pc = l, ![h].dup = d]
      BY <2>2, Zenon DEF CreatePod
    <3> QED BY <1>4, <3>1 DEF Requests, Starting
  <2>3. CASE CopyVolumes(h)
    <3>1. Goto(h, "ready") \/ Goto(h, "abort")
      BY <2>3, Zenon DEF CopyVolumes
    <3> QED BY <3>1, AfterGoto, Zenon DEF Starting
  <2>4. CASE AwaitReady(h)
    <3>1. \/ Goto(h, "abort")
          \/ \E s, t : req' = [req EXCEPT ![h].pc = "svc", ![h].st = s, ![h].todo = t]
      BY <2>4, Zenon DEF AwaitReady
    <3>2. CASE Goto(h, "abort")
      BY <3>2, AfterGoto, Zenon DEF Starting
    <3>3. ASSUME NEW s, NEW t, req' = [req EXCEPT ![h].pc = "svc", ![h].st = s, ![h].todo = t]
          PROVE  Ahead
      <4>1. req'[h] = [req[h] EXCEPT !.pc = "svc", !.st = s, !.todo = t]
        BY <1>4, <3>3, Zenon
      <4>2. req'[h].pc = "svc" /\ req'[h].con = c /\ req'[h].op = req[h].op
        BY <1>4, <4>1 DEF Requests
      <4> QED BY <4>2, Zenon DEF Starting
    <3> QED BY <3>1, <3>2, <3>3, Zenon
  <2>5. CASE CreateService(h)
    <3>1. \/ Return(h) /\ c \in broken'
          \/ \E t : req' = [req EXCEPT ![h].todo = t] /\ req[h].pc = "svc"
      BY <2>5, Zenon DEF CreateService, At, Break, Con
    <3> QED BY <1>4, <3>1, AfterReturn DEF Requests, Starting
  <2>6. CASE PublishPorts(h)
    <3>1. \/ Return(h) /\ c \in broken'
          \/ Assign(h, StartWrites(req[h].st))
      BY <2>6, Zenon DEF PublishPorts, Break, Con
    <3>2. req[h].st \in DeployStates
      BY <1>4 DEF Requests
    <3> QED BY <3>1, <3>2, AfterReturn, AfterAssign, ZenonT(30)
  <2>7. CASE AbortStart(h)
    <3>1. Return(h) /\ c \in broken'
      BY <2>7 DEF AbortStart, Break, Con
    <3> QED BY <3>1, AfterReturn, Zenon
  <2> QED BY <2>1, <2>2, <2>3, <2>4, <2>5, <2>6, <2>7, Zenon
<1>6. Ahead => ShapeOK(req[h])'
  BY <1>2, Zenon DEF ShapeOK, Starting, Deleting
<1>7. ShapeOK(req[h])'
  BY <1>5, <1>6, ShapeIdle, Zenon
<1>8. Ahead => \/ req'[h].pc \in Starting
               \/ req'[h].pc = "flags" /\ Len(req'[h].writes) = 5
  BY WritesLen, Zenon
<1> QED BY <1>1, <1>2, <1>3, <1>5, <1>7, <1>8, StartUpOrder, Zenon

---------------------------------------------------------------------------
(* The record.                                                             *)

(* The flag f of c becomes b and the others stay; then the request makes   *)
(* the assignments that are left, or is done with them.                    *)
Wrote(h, c, f, b, rest) ==
    /\ Off(c, f)' <=> b = FALSE
    /\ \A g \in Flags \ {f} : Off(c, g)' <=> Off(c, g)
    /\ \A d \in Containers \ {c} : rec'[d] = rec[d]
    /\ rest = <<>> /\ req[h].op = "inspect" =>
         req'[h].pc = "idle" /\ req'[h].op = "none" /\ req'[h].con = NoContainer
    /\ ~(rest = <<>> /\ req[h].op = "inspect") =>
         /\ req'[h].op = req[h].op /\ req'[h].con = c /\ req'[h].writes = rest
         /\ rest # <<>> => req'[h].pc = "flags"
         /\ rest = <<>> => req'[h].pc = IF req[h].op = "wait" THEN "check" ELSE "save"

(* One assignment to the record.                                           *)
LEMMA AfterWrite ==
  ASSUME Inv, NEW h \in Handlers, WriteFlag(h), NEW c \in Containers, c = req[h].con,
         NEW f \in Flags, NEW b, NEW rest,
         Head(req[h].writes) = <<f, b>>, Tail(req[h].writes) = rest
  PROVE  Wrote(h, c, f, b, rest)
<1>1. /\ req \in [Handlers -> Requests] /\ rec \in [Containers -> [Flags -> BOOLEAN]]
  BY DEF Inv, TypeOK, LifecycleTypeOK
<1>2. rec' = [rec EXCEPT ![c][f] = b]
  <2>1. Head(req[h].writes)[1] = f /\ Head(req[h].writes)[2] = b
    OBVIOUS
  <2> QED BY <2>1, Zenon DEF WriteFlag, Con
<1>3. rec'[c] = [rec[c] EXCEPT ![f] = b] /\ \A d \in Containers \ {c} : rec'[d] = rec[d]
  BY <1>1, <1>2
<1>4. rec'[c][f] = b /\ \A g \in Flags \ {f} : rec'[c][g] = rec[c][g]
  BY <1>1, <1>3
<1>5. (Off(c, f)' <=> b = FALSE) /\ \A g \in Flags \ {f} : Off(c, g)' <=> Off(c, g)
  BY <1>4, Zenon DEF Off
<1>6. CASE rest = <<>> /\ req[h].op = "inspect"
  <2>1. Return(h)
    BY <1>6, Zenon DEF WriteFlag, Return
  <2> QED BY <1>3, <1>5, <1>6, <2>1, AfterReturn, Zenon DEF Wrote
<1>7. CASE ~(rest = <<>> /\ req[h].op = "inspect")
  <2> DEFINE next == IF rest # <<>> THEN "flags" ELSE IF req[h].op = "wait" THEN "check" ELSE "save"
  <2>1. req' = [req EXCEPT ![h] = [req[h] EXCEPT !.writes = rest, !.pc = next]]
    BY <1>7, Zenon DEF WriteFlag
  <2>2. /\ rest # <<>> => next = "flags"
        /\ rest = <<>> => next = IF req[h].op = "wait" THEN "check" ELSE "save"
    OBVIOUS
  <2> HIDE DEF next
  <2>3. /\ req'[h].op = req[h].op /\ req'[h].con = c /\ req'[h].writes = rest
        /\ req'[h].pc = next
    BY <1>1, <2>1 DEF Requests
  <2> QED BY <1>3, <1>5, <1>7, <2>2, <2>3, Zenon DEF Wrote
<1> QED BY <1>6, <1>7, Zenon

(* An assignment of UpdateContainerStatus.                                 *)
LEMMA StatusStep ==
  ASSUME Inv, Inv', NEW h \in Handlers, ShapeOK(req[h]), UNCHANGED <<aged, reaperVars>>,
         WriteFlag(h), req[h].op \in {"inspect", "wait"}
  PROVE  /\ ShapeOK(req[h])'
         /\ \A d \in Containers : ContainerOK(d) => ContainerOK(d)'
<1>1. HandlerStep(h) /\ req[h].pc = "flags"
  BY DEF HandlerStep, Proceed, WriteFlag, At
<1>2. PICK c \in Containers : c = req[h].con
  BY <1>1, Zenon DEF Inv, ReqOK, TypeOK, LifecycleTypeOK
<1>3. UNCHANGED <<pod, terminating, cm, svc, made, db, tunnels, broken>>
  BY DEF WriteFlag, clusterVars
<1>4. c # NoContainer /\ \A f \in {"Running", "Completed", "Stopped", "Killed", "Failed"} : f \in Flags
  BY ClusterAssumption DEF Flags
<1>5. req[h].writes \in {CompletedWrites, Completed1, FailedWrites}
  BY <1>1, Zenon DEF ShapeOK
<1>6. PICK f, b, rest :
        /\ Head(req[h].writes) = <<f, b>> /\ Tail(req[h].writes) = rest
        /\ f \in {"Completed", "Failed"} \/ (f = "Running" /\ b = FALSE)
        /\ rest = <<>> \/ rest = Completed1
  BY <1>5, StatusWrites, Zenon
<1>7. f \in Flags /\ "Running" \in Flags /\ "Stopped" \in Flags /\ "Killed" \in Flags
  BY <1>4, <1>6
<1>8. Wrote(h, c, f, b, rest)
  BY <1>2, <1>6, <1>7, AfterWrite, Zenon
<1>9. \A d \in Containers : SameFlags(d)
  <2>1. SameFlags(c)
    BY <1>6, <1>7, <1>8, Zenon DEF SameFlags, Wrote
  <2>2. \A d \in Containers \ {c} : SameFlags(d)
    BY <1>8, Zenon DEF SameFlags, Off, Wrote
  <2> QED BY <2>1, <2>2
<1>10. ShapeOK(req[h])'
  BY <1>6, <1>8, StatusWrites, Zenon DEF Wrote, ShapeOK, Starting, Deleting
<1>11. \A d \in Containers : ~Active(h, d) /\ ~Active(h, d)'
  <2>1. req'[h].op \in {"inspect", "wait"} \/ req'[h].con = NoContainer
    BY <1>8, Zenon DEF Wrote
  <2> QED BY <2>1, ClusterAssumption, Zenon DEF Active, Passive
<1> QED BY <1>1, <1>3, <1>9, <1>10, <1>11, ReadersInOrder, Zenon

(* An assignment of ContainerStop, ContainerKill, ContainerRestart or      *)
(* StartContainer leads from one stage of the record to the next.          *)
LEMMA NextStage ==
  ASSUME Inv, NEW h \in Handlers, ShapeOK(req[h]), WriteFlag(h), req[h].op \notin {"inspect", "wait"},
         NEW c \in Containers, c = req[h].con
  PROVE  /\ ShapeOK(req[h])' /\ req'[h].con = c /\ req'[h].op = req[h].op
         /\ req'[h].pc \in {"flags", "save"}
         /\ FlagStage(req[h], c) => FlagStage(req[h], c)'
<1>1. req[h].pc = "flags"
  BY DEF WriteFlag, At
<1>2. "Running" \in Flags /\ "Completed" \in Flags /\ "Stopped" \in Flags /\ "Killed" \in Flags
      /\ "Failed" \in Flags
  BY DEF Flags
<1>3. ASSUME NEW f \in Flags, NEW b, NEW rest,
             Head(req[h].writes) = <<f, b>>, Tail(req[h].writes) = rest
      PROVE  Wrote(h, c, f, b, rest)
  BY <1>3, AfterWrite, Zenon
<1>4. ASSUME NEW f, NEW b, NEW rest, Wrote(h, c, f, b, rest)
      PROVE  /\ req'[h].con = c /\ req'[h].op = req[h].op
             /\ \/ req'[h].pc = "save" /\ rest = <<>>
                \/ req'[h].pc = "flags" /\ req'[h].writes = rest /\ rest # <<>>
  BY <1>4, Zenon DEF Wrote
<1>5. Off(c, "Running")' => Agree(c)'
  BY DEF Agree
<1>6. Off(c, "Stopped")' /\ Off(c, "Killed")' => Agree(c)'
  BY DEF Agree
<1>7. CASE req[h].op \in {"stop", "restart"}
  <2>1. req[h].writes \in {StopWrites, Stop2, Stop1}
    BY <1>1, <1>7, Zenon DEF ShapeOK
  <2>2. \/ req[h].writes = StopWrites /\ Wrote(h, c, "Running", FALSE, Stop2)
        \/ req[h].writes = Stop2 /\ Wrote(h, c, "Completed", FALSE, Stop1)
        \/ req[h].writes = Stop1 /\ Wrote(h, c, "Stopped", TRUE, <<>>)
    BY <1>2, <1>3, <2>1, DownWrites, Zenon
  <2>3. /\ req'[h].con = c /\ req'[h].op = req[h].op
        /\ \/ req'[h].pc = "save"
           \/ req'[h].pc = "flags" /\ req'[h].writes \in {Stop2, Stop1}
    BY <1>4, <2>2, DownWrites, Zenon
  <2>4. ShapeOK(req[h])'
    BY <1>7, <2>3, Zenon DEF ShapeOK, Starting, Deleting
  <2>5. FlagStage(req[h], c) => Off(c, "Running")'
    <3>1. CASE req[h].writes = StopWrites /\ Wrote(h, c, "Running", FALSE, Stop2)
      BY <3>1, Zenon DEF Wrote
    <3>2. CASE \/ req[h].writes = Stop2 /\ Wrote(h, c, "Completed", FALSE, Stop1)
               \/ req[h].writes = Stop1 /\ Wrote(h, c, "Stopped", TRUE, <<>>)
      <4>1. Len(req[h].writes) < 3
        <5>1. req[h].writes = Stop2 \/ req[h].writes = Stop1
          BY <3>2, Zenon
        <5>2. Len(req[h].writes) = 2 \/ Len(req[h].writes) = 1
          BY <5>1, WritesLen, Zenon
        <5>3. \A n \in {1, 2} : n < 3
          OBVIOUS
        <5> QED BY <5>2, <5>3, Zenon
      <4>2. FlagStage(req[h], c) => Off(c, "Running")
        BY <1>1, <1>7, <4>1, Zenon DEF FlagStage
      <4>3. Off(c, "Running") => Off(c, "Running")'
        BY <1>2, <3>2, Zenon DEF Wrote
      <4> QED BY <4>2, <4>3, Zenon
    <3> QED BY <2>2, <3>1, <3>2, Zenon
  <2>6. FlagStage(req[h], c) => FlagStage(req[h], c)'
    <3>1. req'[h].op \notin {"start", "attach"}
      BY <1>7, <2>3, Zenon
    <3> QED BY <1>5, <2>5, <3>1, Zenon DEF FlagStage
  <2> QED BY <2>3, <2>4, <2>6, Zenon
<1>8. CASE req[h].op = "kill"
  <2>1. req[h].writes \in {KillWrites, Kill2, Kill1}
    BY <1>1, <1>8, Zenon DEF ShapeOK
  <2>2. \/ req[h].writes = KillWrites /\ Wrote(h, c, "Killed", TRUE, Kill2)
        \/ req[h].writes = Kill2 /\ Wrote(h, c, "Running", FALSE, Kill1)
        \/ req[h].writes = Kill1 /\ Wrote(h, c, "Completed", FALSE, <<>>)
    BY <1>2, <1>3, <2>1, DownWrites, Zenon
  <2>3. /\ req'[h].con = c /\ req'[h].op = req[h].op
        /\ \/ req'[h].pc = "save"
           \/ req'[h].pc = "flags" /\ req'[h].writes \in {Kill2, Kill1}
    BY <1>4, <2>2, DownWrites, Zenon
  <2>4. ShapeOK(req[h])'
    BY <1>8, <2>3, Zenon DEF ShapeOK, Starting, Deleting
  <2>5. \/ req'[h].pc = "flags" /\ req'[h].writes = Kill2
        \/ FlagStage(req[h], c) => Off(c, "Running")'
    <3>1. CASE req[h].writes = KillWrites /\ Wrote(h, c, "Killed", TRUE, Kill2)
      BY <1>4, <3>1, DownWrites, Zenon
    <3>2. CASE req[h].writes = Kill2 /\ Wrote(h, c, "Running", FALSE, Kill1)
      BY <3>2, Zenon DEF Wrote
    <3>3. CASE req[h].writes = Kill1 /\ Wrote(h, c, "Completed", FALSE, <<>>)
      <4>1. Len(req[h].writes) < 2
        BY <3>3, WritesLen
      <4>2. FlagStage(req[h], c) => Off(c, "Running")
        BY <1>1, <1>8, <4>1, Zenon DEF FlagStage
      <4>3. Off(c, "Running") => Off(c, "Running")'
        BY <1>2, <3>3, Zenon DEF Wrote
      <4> QED BY <4>2, <4>3, Zenon
    <3> QED BY <2>2, <3>1, <3>2, <3>3, Zenon
  <2>6. FlagStage(req[h], c) => FlagStage(req[h], c)'
    <3>1. req'[h].op = "kill"
      BY <1>8, <2>3, Zenon
    <3>2. CASE req'[h].pc = "flags" /\ req'[h].writes = Kill2
      <4>1. ~(Len(req'[h].writes) < 2)
        BY <3>2, WritesLen, SMTT(30)
      <4> QED BY <3>1, <3>2, <4>1, Zenon DEF FlagStage
    <3>3. CASE FlagStage(req[h], c) => Off(c, "Running")'
      BY <1>5, <3>1, <3>3, Zenon DEF FlagStage
    <3> QED BY <2>5, <3>2, <3>3, Zenon
  <2> QED BY <2>3, <2>4, <2>6, Zenon
<1>9. CASE req[h].op \in {"start", "attach"}
  <2>1. PICK st \in DeployStates :
          req[h].writes \in {StartWrites(st), Start4(st), Start3(st), Start2(st), Start1(st)}
    BY <1>1, <1>9, Zenon DEF ShapeOK
  <2> DEFINE isFailed == st = "failed"
             isCompleted == st = "completed"
             isRunning == st = "running"
  <2>0. /\ Head(StartWrites(st)) = <<"Stopped", FALSE>> /\ Tail(StartWrites(st)) = Start4(st)
        /\ Head(Start4(st)) = <<"Killed", FALSE>> /\ Tail(Start4(st)) = Start3(st)
        /\ Head(Start3(st)) = <<"Failed", isFailed>> /\ Tail(Start3(st)) = Start2(st)
        /\ Head(Start2(st)) = <<"Completed", isCompleted>> /\ Tail(Start2(st)) = Start1(st)
        /\ Head(Start1(st)) = <<"Running", isRunning>> /\ Tail(Start1(st)) = <<>>
    BY UpWrites, Zenon
  <2> HIDE DEF isFailed, isCompleted, isRunning
  <2>2. \/ req[h].writes = StartWrites(st) /\ Wrote(h, c, "Stopped", FALSE, Start4(st))
        \/ req[h].writes = Start4(st) /\ Wrote(h, c, "Killed", FALSE, Start3(st))
        \/ req[h].writes = Start3(st) /\ Wrote(h, c, "Failed", isFailed, Start2(st))
        \/ req[h].writes = Start2(st) /\ Wrote(h, c, "Completed", isCompleted, Start1(st))
        \/ req[h].writes = Start1(st) /\ Wrote(h, c, "Running", isRunning, <<>>)
    <3>1. CASE req[h].writes = StartWrites(st)
      BY <1>2, <1>3, <3>1, <2>0, Zenon
    <3>2. CASE req[h].writes = Start4(st)
      BY <1>2, <1>3, <3>2, <2>0, Zenon
    <3>3. CASE req[h].writes = Start3(st)
      BY <1>2, <1>3, <3>3, <2>0, Zenon
    <3>4. CASE req[h].writes = Start2(st)
      BY <1>2, <1>3, <3>4, <2>0, Zenon
    <3>5. CASE req[h].writes = Start1(st)
      BY <1>2, <1>3, <3>5, <2>0, Zenon
    <3> QED BY <2>1, <3>1, <3>2, <3>3, <3>4, <3>5, Zenon
  <2>3. /\ req'[h].con = c /\ req'[h].op = req[h].op
        /\ \/ req'[h].pc = "save"
           \/ req'[h].pc = "flags" /\ req'[h].writes \in {Start4(st), Start3(st), Start2(st), Start1(st)}
    BY <1>4, <2>2, Zenon
  <2>4. ShapeOK(req[h])'
    BY <1>9, <2>1, <2>3, Zenon DEF ShapeOK, Starting, Deleting
  <2>5. \/ /\ req'[h].pc = "flags" /\ req'[h].writes = Start4(st) /\ Off(c, "Stopped")'
        \/ FlagStage(req[h], c) => Off(c, "Stopped")' /\ Off(c, "Killed")'
    <3>1. CASE req[h].writes = StartWrites(st) /\ Wrote(h, c, "Stopped", FALSE, Start4(st))
      <4>1. Off(c, "Stopped")'
        BY <3>1, Zenon DEF Wrote
      <4>2. Start4(st) # <<>>
        BY UpWrites, Zenon
      <4>3. req'[h].pc = "flags" /\ req'[h].writes = Start4(st)
        BY <3>1, <4>2, Zenon DEF Wrote
      <4> QED BY <4>1, <4>3, Zenon
    <3>2. CASE req[h].writes = Start4(st) /\ Wrote(h, c, "Killed", FALSE, Start3(st))
      <4>1. Len(req[h].writes) < 5
        <5>1. req[h].writes = Start4(st)
          BY <3>2, Zenon
        <5>2. Len(Start4(st)) = 4
          BY WritesLen, Zenon
        <5> QED BY <5>1, <5>2, SMTT(30)
      <4>2. FlagStage(req[h], c) => Off(c, "Stopped")
        BY <1>1, <1>9, <4>1, Zenon DEF FlagStage
      <4>3. Off(c, "Killed")' /\ (Off(c, "Stopped") => Off(c, "Stopped")')
        <5>1. Off(c, "Killed")'
          BY <3>2, Zenon DEF Wrote
        <5>2. Off(c, "Stopped") => Off(c, "Stopped")'
          BY <1>2, <3>2, Zenon DEF Wrote
        <5> QED BY <5>1, <5>2, Zenon
      <4> QED BY <4>2, <4>3, Zenon
    <3>3. CASE \/ req[h].writes = Start3(st) /\ Wrote(h, c, "Failed", isFailed, Start2(st))
               \/ req[h].writes = Start2(st) /\ Wrote(h, c, "Completed", isCompleted, Start1(st))
               \/ req[h].writes = Start1(st) /\ Wrote(h, c, "Running", isRunning, <<>>)
      <4>1. Len(req[h].writes) < 5 /\ Len(req[h].writes) < 4
        <5>1. \/ req[h].writes = Start3(st) \/ req[h].writes = Start2(st) \/ req[h].writes = Start1(st)
          BY <3>3, Zenon
        <5>2. Len(req[h].writes) = 3 \/ Len(req[h].writes) = 2 \/ Len(req[h].writes) = 1
          BY <5>1, WritesLen, Zenon
        <5>3. \A n \in {1, 2, 3} : n < 5 /\ n < 4
          BY SMTT(30)
        <5> QED BY <5>2, <5>3, Zenon
      <4>2. FlagStage(req[h], c) => Off(c, "Stopped") /\ Off(c, "Killed")
        BY <1>1, <1>9, <4>1, Zenon DEF FlagStage
      <4>3. (Off(c, "Stopped") => Off(c, "Stopped")') /\ (Off(c, "Killed") => Off(c, "Killed")')
        BY <1>2, <3>3, Zenon DEF Wrote
      <4> QED BY <4>2, <4>3, Zenon
    <3> QED BY <2>2, <3>1, <3>2, <3>3, Zenon
  <2>6. FlagStage(req[h], c) => FlagStage(req[h], c)'
    <3>1. req'[h].op \notin {"stop", "restart", "kill"}
      BY <1>9, <2>3, Zenon
    <3>2. CASE req'[h].pc = "flags" /\ req'[h].writes = Start4(st) /\ Off(c, "Stopped")'
      <4>1. ~(Len(req'[h].writes) < 4)
        <5>1. Len(Start4(st)) = 4
          BY WritesLen
        <5> QED BY <3>2, <5>1
      <4> QED BY <3>1, <3>2, <4>1, Zenon DEF FlagStage
    <3>3. CASE FlagStage(req[h], c) => Off(c, "Stopped")' /\ Off(c, "Killed")'
      BY <1>6, <3>1, <3>3, Zenon DEF FlagStage
    <3> QED BY <2>5, <3>2, <3>3, Zenon
  <2> QED BY <2>3, <2>4, <2>6, Zenon
<1>10. req[h].op \in {"stop", "restart", "kill", "start", "attach"}
  BY <1>1, Zenon DEF ShapeOK
<1> QED BY <1>7, <1>8, <1>9, <1>10, Zenon

(* Assignments to the record, and SaveContainer.                           *)
LEMMA RecordSteps ==
  ASSUME Inv, Inv', NEW h \in Handlers, ShapeOK(req[h]), UNCHANGED <<aged, reaperVars>>,
         NEW c \in Containers, c = req[h].con, ContainerOK(c),
         (WriteFlag(h) /\ req[h].op \notin {"inspect", "wait"}) \/ SaveContainer(h)
  PROVE  ShapeOK(req[h])' /\ ContainerOK(c)'
<1>1. HandlerStep(h)
  BY Zenon DEF HandlerStep, Proceed
<1>2. req[h].pc \in {"flags", "save"} /\ req[h].op \notin {"inspect", "wait"}
  BY Zenon DEF WriteFlag, SaveContainer, At, ShapeOK
<1>3. Active(h, c) /\ c # NoContainer
  BY <1>2, ClusterAssumption, Zenon DEF Active, Passive
<1>4. UNCHANGED <<clusterVars, tunnels, broken, made>> /\ Grows(c)
  BY Zenon DEF WriteFlag, SaveContainer, Grows
<1>5. (Clean(c)' <=> Clean(c)) /\ (Leftover(c)' <=> Leftover(c))
  BY <1>4, Zenon DEF Clean, Leftover, LivePod, ServicesOf, clusterVars
<1>6. CASE WriteFlag(h) /\ req[h].op \notin {"inspect", "wait"}
  <2>1. /\ ShapeOK(req[h])' /\ req'[h].con = c /\ req'[h].op = req[h].op
        /\ req'[h].pc \in {"flags", "save"}
        /\ FlagStage(req[h], c) => FlagStage(req[h], c)'
    BY <1>6, NextStage, Zenon
  <2>2. Active(h, c)' /\ db' = db
    BY <1>6, <2>1, Zenon DEF Active, Passive, WriteFlag
  <2>3. req[h].pc = "flags"
    BY <1>6, Zenon DEF WriteFlag, At
  <2>4. CleanStage(req[h], c) => CleanStage(req[h], c)'
    BY <1>5, <2>1, <2>3, Zenon DEF CleanStage, Deleting
  <2>5. InOrder(h, c) => InOrder(h, c)'
    BY <1>3, <2>1, <2>2, <2>4, Zenon DEF InOrder
  <2> QED BY <1>1, <1>3, <1>4, <2>1, <2>5, OwnContainer, Zenon
<1>7. CASE SaveContainer(h)
  <2>1. req[h].pc = "save" /\ req[h].op \in {"stop", "kill", "restart", "start", "attach"}
    BY <1>7, Zenon DEF SaveContainer, At, ShapeOK
  <2>2. UNCHANGED rec /\ c \in db'
    BY <1>7, Zenon DEF SaveContainer, Con
  <2>3. (Agree(c)' <=> Agree(c)) /\ \A f : Off(c, f)' <=> Off(c, f)
    BY <2>2, SameAgree, Zenon
  <2>4. CASE req[h].op = "restart"
    <3>1. Goto(h, "deleted")
      BY <1>7, <2>4, Zenon DEF SaveContainer
    <3>2. req'[h].pc = "deleted" /\ req'[h].op = "restart" /\ req'[h].con = c
      BY <2>4, <3>1, AfterGoto, Zenon
    <3>3. ShapeOK(req[h])' /\ Active(h, c)'
      BY <3>2, Zenon DEF ShapeOK, Starting, Deleting, Active, Passive
    <3>4. FlagStage(req[h], c) => FlagStage(req[h], c)'
      BY <2>1, <2>3, <3>2, Zenon DEF FlagStage
    <3>5. CleanStage(req[h], c) => CleanStage(req[h], c)'
      BY <1>5, <2>1, <2>4, <3>2, Zenon DEF CleanStage, Deleting
    <3>6. InOrder(h, c) => InOrder(h, c)'
      BY <1>3, <2>2, <3>3, <3>4, <3>5, Zenon DEF InOrder
    <3> QED BY <1>1, <1>3, <1>4, <3>3, <3>6, OwnContainer, Zenon
  <2>5. CASE req[h].op # "restart"
    <3>1. Return(h) \/ (Goto(h, "hijack") /\ req[h].op = "attach")
      BY <1>7, <2>5, Zenon DEF SaveContainer
    <3>2. /\ req'[h].pc \in {"idle", "hijack"} /\ (req'[h].pc = "hijack" => req'[h].op = "attach")
          /\ req'[h].pc = "idle" => req'[h].con = NoContainer
      <4>1. CASE Return(h)
        BY <4>1, AfterReturn, Zenon
      <4>2. CASE Goto(h, "hijack") /\ req[h].op = "attach"
        BY <4>2, AfterGoto, SMTT(30)
      <4> QED BY <3>1, <4>1, <4>2, Zenon
    <3>3. ShapeOK(req[h])'
      BY <3>2, Zenon DEF ShapeOK, Starting, Deleting
    <3>4. ~Active(h, c)'
      BY <1>3, <3>2, Zenon DEF Active, Passive
    <3>5. ASSUME InOrder(h, c) PROVE InOrder(h, c)'
      <4>1. FlagStage(req[h], c) /\ (c \notin aged => CleanStage(req[h], c))
        BY <1>3, <3>5, Zenon DEF InOrder
      <4>2. Agree(c)'
        BY <2>1, <2>3, <4>1, Zenon DEF FlagStage
      <4>3. CASE req[h].op \in {"start", "attach"}
        <5>1. Off(c, "Stopped")' /\ Off(c, "Killed")'
          BY <2>1, <2>3, <4>1, <4>3, Zenon DEF FlagStage
        <5>2. ~Down(c)'
          BY <5>1, DownFlagsNext, Zenon DEF Inv
        <5>3. Rest(c)'
          BY <2>2, <5>2, Zenon DEF Rest
        <5> QED BY <3>4, <4>2, <5>3, Zenon DEF InOrder
      <4>4. CASE req[h].op \in {"stop", "kill"}
        <5>1. c \notin aged => Clean(c)'
          BY <1>5, <2>1, <4>1, <4>4, Zenon DEF CleanStage
        <5>2. c \notin aged => Rest(c)'
          BY <2>2, <5>1, Zenon DEF Rest
        <5> QED BY <3>4, <4>2, <5>2, Zenon DEF InOrder
      <4> QED BY <2>1, <2>5, <4>3, <4>4, Zenon
    <3> QED BY <1>1, <1>3, <1>4, <3>3, <3>5, OwnContainer, Zenon
  <2> QED BY <2>4, <2>5, Zenon
<1> QED BY <1>6, <1>7, Zenon

---------------------------------------------------------------------------
(* Accepting a request.                                                    *)

(* A request that is accepted leaves the containers it is not for alone.   *)
LEMMA AcceptedOthers ==
  ASSUME Inv, Inv', NEW h \in Handlers, Request(h), UNCHANGED <<aged, reaperVars>>,
         UNCHANGED <<clusterVars, rec, made, db>>,
         NEW d \in Containers, ContainerOK(d), d \in broken => d \in broken',
         d \in tunnels' => d \in tunnels,
         ~Active(h, d), ~Active(h, d)'
  PROVE  ContainerOK(d)'
<1>1. \A g \in Handlers \ {h} : req'[g] = req[g]
  BY OthersWait, Zenon DEF HandlerStep
<1>2. SameRequests(d)
  BY <1>1, Zenon DEF SameRequests, Active, Passive
<1>3. NothingNew(d)
  BY Zenon DEF NothingNew, LivePod, ServicesOf, clusterVars
<1>4. SameFlags(d) /\ Grows(d)
  BY Zenon DEF SameFlags, Off, Grows
<1> QED BY <1>2, <1>3, <1>4, Keeps, Zenon DEF Inv

(* A request that is accepted finds its container in order and leaves it   *)
(* so.                                                                     *)
LEMMA RequestSteps ==
  ASSUME Inv, Inv', NEW h \in Handlers, Request(h), UNCHANGED <<aged, reaperVars>>,
         \A d \in Containers : ContainerOK(d)
  PROVE  ShapeOK(req[h])' /\ \A d \in Containers : ContainerOK(d)'
<1>1. PICK c \in Containers :
        \/ ContainerStart(h, c) \/ ContainerRestart(h, c) \/ ContainerStop(h, c)
        \/ ContainerKill(h, c) \/ ContainerDelete(h, c) \/ ContainerInfo(h, c)
        \/ ContainerWait(h, c) \/ ContainerAttach(h, c)
  BY DEF Request
<1> DEFINE Changes == \/ ContainerStart(h, c) \/ ContainerRestart(h, c) \/ ContainerStop(h, c)
                      \/ ContainerKill(h, c) \/ ContainerDelete(h, c)
                      \/ ContainerAttach(h, c) /\ Startable(c)
           Reads == \/ ContainerInfo(h, c) \/ ContainerWait(h, c)
                    \/ ContainerAttach(h, c) /\ ~Startable(c)
<1>2. req[h].pc = "idle" /\ c \in db /\ c # NoContainer
  BY <1>1, ClusterAssumption DEF ContainerStart, ContainerRestart, ContainerStop, ContainerKill,
       TakeDown, ContainerDelete, ContainerInfo, ContainerWait, ContainerAttach, Accept, At
<1>3. \A d \in Containers : ~Active(h, d)
  <2>1. req[h].con = NoContainer
    BY <1>2, Zenon DEF Inv, ReqOK
  <2> QED BY <2>1, ClusterAssumption DEF Active
<1>4. /\ UNCHANGED <<clusterVars, rec, made, db>>
      /\ broken \subseteq broken' /\ tunnels' \subseteq tunnels
  BY <1>1 DEF ContainerStart, ContainerRestart, ContainerStop, ContainerKill, TakeDown,
       ContainerDelete, ContainerInfo, ContainerWait, ContainerAttach, Break, Signal
<1>5. HandlerStep(h) /\ Grows(c)
  BY <1>4 DEF HandlerStep, Grows
<1>6. (Agree(c)' <=> Agree(c)) /\ (Leftover(c)' <=> Leftover(c)) /\ (Clean(c) => Clean(c)')
  BY <1>4, Zenon DEF Agree, Off, Leftover, Clean, LivePod, ServicesOf, clusterVars
<1>7. (Changes \/ Reads) /\ (Changes => Break(c, Alone(h, c)))
  BY <1>1 DEF ContainerStart, ContainerRestart, ContainerStop, ContainerKill, TakeDown,
       ContainerDelete, ContainerAttach, Break
<1>8. ASSUME Changes, c \notin broken' PROVE \A g \in Handlers \ {h} : ~Active(g, c)
  BY <1>7, <1>8, Zenon DEF Break, Alone, Active, Passive, Con
<1>9. ASSUME NEW d \in Containers, d # c \/ Reads, req'[h].con = c, Reads => Passive(req[h])'
      PROVE  ContainerOK(d)'
  <2>1. ~Active(h, d)'
    BY <1>9 DEF Active
  <2> QED BY <1>3, <1>4, <2>1, AcceptedOthers
<1>10. CASE Reads
  <2>1. /\ req'[h].con = c /\ ShapeOK(req[h])'
        /\ req'[h].op \in {"inspect", "wait"} \/ req'[h].pc = "hijack"
    <3>1. \/ Begin(h, "inspect", c, "status") \/ Begin(h, "wait", c, "poll")
          \/ Begin(h, "attach", c, "hijack")
      BY <1>10 DEF ContainerInfo, ContainerWait, ContainerAttach
    <3>2. req'[h].con = c /\ \/ req'[h].op = "inspect" /\ req'[h].pc = "status"
                             \/ req'[h].op = "wait" /\ req'[h].pc = "poll"
                             \/ req'[h].op = "attach" /\ req'[h].pc = "hijack"
      BY <3>1, AfterBegin, Zenon
    <3> QED BY <3>2, Zenon DEF ShapeOK, Starting, Deleting
  <2>2. Passive(req[h])'
    BY <2>1 DEF Passive
  <2> QED BY <1>9, <1>10, <2>1, <2>2, Zenon
<1>11. ASSUME req'[h].con = c, Changes, ShapeOK(req[h])',
              InOrder(h, c) => InOrder(h, c)'
       PROVE  ShapeOK(req[h])' /\ \A d \in Containers : ContainerOK(d)'
  <2>1. ContainerOK(c)'
    BY <1>3, <1>5, <1>8, <1>11, OwnContainer, Zenon
  <2>2. ASSUME NEW d \in Containers, d # c PROVE ContainerOK(d)'
    <3>1. ~Active(h, d)'
      BY <1>11, <2>2 DEF Active
    <3> QED BY <1>3, <1>4, <3>1, AcceptedOthers
  <2> QED BY <1>11, <2>1, <2>2
<1>12. CASE ContainerStart(h, c) \/ ContainerRestart(h, c) \/ (ContainerAttach(h, c) /\ Startable(c))
  <2>1. \/ EnterStart(h, "start", c) \/ EnterStart(h, "attach", c)
        \/ Begin(h, "restart", c, "watch")
    BY <1>12 DEF ContainerStart, ContainerRestart, ContainerAttach
  <2>2. req'[h].con = c /\ \/ req'[h].op \in {"start", "attach"} /\ req'[h].pc = "files"
                           \/ req'[h].op = "restart" /\ req'[h].pc = "watch"
    BY <2>1, AfterBegin, ZenonT(30)
  <2>3. ShapeOK(req[h])' /\ Active(h, c)'
    BY <2>2, Zenon DEF ShapeOK, Starting, Deleting, Active, Passive
  <2>4. ASSUME InOrder(h, c) PROVE InOrder(h, c)'
    <3>1. Agree(c)'
      BY <1>3, <1>6, <2>4 DEF InOrder
    <3>2. FlagStage(req[h], c)'
      BY <2>2, <3>1, Zenon DEF FlagStage
    <3>3. CleanStage(req[h], c)'
      BY <2>2, Zenon DEF CleanStage, Deleting
    <3> QED BY <1>2, <1>4, <2>3, <3>2, <3>3, Zenon DEF InOrder
  <2> QED BY <1>11, <1>12, <2>2, <2>3, <2>4, Zenon
<1>13. CASE ContainerStop(h, c) \/ ContainerKill(h, c)
  <2>1. PICK o, w : /\ TakeDown(h, o, c, w) /\ Len(w) = 3
                    /\ \/ o = "stop" /\ w = StopWrites
                       \/ o = "kill" /\ w = KillWrites
    BY <1>13, WritesLen, Zenon DEF ContainerStop, ContainerKill
  <2>2. c \notin tunnels'
    BY <2>1 DEF TakeDown, Signal
  <2>3. /\ req'[h].con = c /\ req'[h].op = o
        /\ \/ Down(c) /\ req'[h].pc = "flags" /\ req'[h].writes = w
           \/ ~Down(c) /\ req'[h].pc = "del_svc"
    <3>1. Idle \in Requests /\ req \in [Handlers -> Requests]
      BY IdleOK, Zenon DEF ReqOK, Inv, TypeOK, LifecycleTypeOK
    <3>2. \/ Down(c) /\ req'[h] = [Idle EXCEPT !.op = o, !.con = c, !.pc = "flags", !.writes = w]
          \/ ~Down(c) /\ req'[h] = [Idle EXCEPT !.op = o, !.con = c, !.pc = "del_svc"]
      BY <2>1, <3>1, Zenon DEF TakeDown
    <3> QED BY <3>1, <3>2, Zenon DEF Requests
  <2>4. ShapeOK(req[h])' /\ Active(h, c)'
    BY <2>1, <2>3, Zenon DEF ShapeOK, Starting, Deleting, Active, Passive
  <2>5. ASSUME InOrder(h, c) PROVE InOrder(h, c)'
    <3>1. Agree(c)' /\ (c \notin aged => Rest(c))
      BY <1>3, <1>6, <2>5 DEF InOrder
    <3>2. ~(Len(w) < 3) /\ ~(Len(w) < 2) /\ o \notin {"start", "attach"}
      BY <2>1
    <3>3. FlagStage(req[h], c)'
      BY <2>3, <3>1, <3>2, Zenon DEF FlagStage
    <3>4. c \notin aged => CleanStage(req[h], c)'
      BY <1>6, <2>2, <2>3, <3>1, Zenon DEF CleanStage, Deleting, Rest
    <3> QED BY <1>2, <1>4, <2>4, <3>3, <3>4, Zenon DEF InOrder
  <2> QED BY <1>11, <1>13, <2>3, <2>4, <2>5, Zenon
<1>14. CASE ContainerDelete(h, c)
  <2>1. c \notin tunnels'
    BY <1>14 DEF ContainerDelete, Signal
  <2>2. \/ Down(c) /\ Begin(h, "delete", c, "drop")
        \/ ~Down(c) /\ Begin(h, "delete", c, "del_svc")
    BY <1>14 DEF ContainerDelete
  <2>3. /\ req'[h].con = c /\ req'[h].op = "delete"
        /\ (Down(c) /\ req'[h].pc = "drop") \/ req'[h].pc = "del_svc"
    BY <2>2, AfterBegin, Zenon
  <2>4. ShapeOK(req[h])' /\ Active(h, c)'
    BY <2>3, Zenon DEF ShapeOK, Starting, Deleting, Active, Passive
  <2>5. ASSUME InOrder(h, c) PROVE InOrder(h, c)'
    <3>1. Agree(c)' /\ (c \notin aged => Rest(c))
      BY <1>3, <1>6, <2>5 DEF InOrder
    <3>2. FlagStage(req[h], c)'
      BY <2>3, <3>1, Zenon DEF FlagStage
    <3>3. c \notin aged => CleanStage(req[h], c)'
      BY <1>6, <2>1, <2>3, <3>1, Zenon DEF CleanStage, Deleting, Rest
    <3> QED BY <1>2, <1>4, <2>4, <3>2, <3>3, Zenon DEF InOrder
  <2> QED BY <1>11, <1>14, <2>3, <2>4, <2>5, Zenon
<1> QED BY <1>7, <1>10, <1>12, <1>13, <1>14, Zenon

---------------------------------------------------------------------------
(* The invariant.                                                          *)

(* Every step of a request keeps the containers in order.                  *)
LEMMA ApiOrder ==
  ASSUME RestInv, NEW h \in Handlers, ApiStep(h)
  PROVE  /\ \A g \in Handlers : ShapeOK(req[g])'
         /\ \A c \in Containers : ContainerOK(c)'
<1>1. /\ Inv /\ Inv' /\ UNCHANGED <<aged, reaperVars>> /\ HandlerStep(h)
      /\ ShapeOK(req[h]) /\ \A d \in Containers : ContainerOK(d)
  BY ApiInv DEF RestInv, ApiStep
<1>2. ShapeOK(req[h])' /\ \A c \in Containers : ContainerOK(c)'
  <2>1. CASE Request(h)
    BY <1>1, <2>1, RequestSteps, Zenon
  <2>2. CASE \/ UpdateContainerStatus(h) \/ Poll(h) \/ PollLimited(h) \/ CheckDone(h) \/ Hijack(h)
             \/ Detached(h) \/ StreamEnds(h) \/ ClientGone(h) \/ WatchTimeout(h)
    BY <1>1, <2>2, ReaderSteps, Zenon
  <2>3. CASE WriteFlag(h) /\ req[h].op \in {"inspect", "wait"}
    BY <1>1, <2>3, StatusStep, Zenon
  <2> DEFINE Down1 == \/ DeleteServices(h) \/ DeleteConfigMaps(h) \/ DeletePods(h) \/ DropRecord(h)
                      \/ WatchDeleteContainer(h) \/ AwaitDeleted(h)
             Up1 == \/ CreateConfigMap(h) \/ CreatePod(h) \/ CopyVolumes(h) \/ AwaitReady(h)
                    \/ CreateService(h) \/ PublishPorts(h) \/ AbortStart(h)
             Rec1 == (WriteFlag(h) /\ req[h].op \notin {"inspect", "wait"}) \/ SaveContainer(h)
  <2>4. CASE Down1 \/ Up1 \/ Rec1
    <3>1. Proceed(h)
      BY <2>4, Zenon DEF Proceed
    <3>2. req[h].pc # "idle"
      BY <2>4, Zenon DEF DeleteServices, DeleteConfigMaps, DeletePods, DropRecord, WatchDeleteContainer,
           AwaitDeleted, CreateConfigMap, CreatePod, CopyVolumes, AwaitReady, CreateService,
           PublishPorts, AbortStart, WriteFlag, SaveContainer, At
    <3>3. PICK c \in Containers : c = req[h].con
      BY <1>1, <3>2, Zenon DEF Inv, ReqOK, TypeOK, LifecycleTypeOK
    <3>4. ASSUME NEW d \in Containers, d # c PROVE ContainerOK(d)'
      BY <1>1, <3>1, <3>3, <3>4, OthersInOrder, SMTT(30)
    <3> HIDE DEF Down1, Up1, Rec1
    <3>5. ShapeOK(req[h])' /\ ContainerOK(c)'
      <4>1. CASE Down1
        BY <1>1, <3>3, <4>1, TakeDownSteps, Zenon DEF Down1
      <4>2. CASE Up1
        BY <1>1, <3>3, <4>2, StartUpSteps, Zenon DEF Up1
      <4>3. CASE Rec1
        BY <1>1, <3>3, <4>3, RecordSteps, Zenon DEF Rec1
      <4> QED BY <2>4, <4>1, <4>2, <4>3
    <3> QED BY <3>4, <3>5
  <2> QED BY <1>1, <2>1, <2>2, <2>3, <2>4, Zenon DEF HandlerStep, Proceed
<1>3. \A g \in Handlers \ {h} : ShapeOK(req[g])'
  <2>1. \A g \in Handlers \ {h} : req'[g] = req[g]
    BY <1>1, OthersWait
  <2> QED BY <2>1, ZenonT(30) DEF RestInv, ShapeOK
<1> QED BY <1>2, <1>3

(* Every step of a request keeps the invariant.                            *)
LEMMA ApiRest ==
  ASSUME RestInv, NEW h \in Handlers, ApiStep(h)
  PROVE  RestInv'
<1>1. Inv /\ Inv' /\ UNCHANGED <<aged, reaperVars>> /\ HandlerStep(h) /\ made' = made
  BY ApiInv, ZenonT(30) DEF RestInv, ApiStep, HandlerStep, Request, ContainerStart, ContainerRestart,
       ContainerStop, ContainerKill, TakeDown, ContainerDelete, ContainerInfo, ContainerWait,
       ContainerAttach, Proceed, ClientGone, StreamEnds, DeleteServices, DeleteConfigMaps,
       DeletePods, DropRecord, WatchDeleteContainer, WatchTimeout, AwaitDeleted,
       CreateConfigMap, CreatePod, CopyVolumes, AwaitReady, CreateService, PublishPorts,
       AbortStart, WriteFlag, SaveContainer, UpdateContainerStatus, Poll, PollLimited,
       CheckDone, Hijack, Detached, FinishAttach
<1>2. UnmadeUp'
  <2> SUFFICES ASSUME NEW c \in Containers \ made PROVE rec'[c] = rec[c]
    BY <1>1, Zenon DEF RestInv, UnmadeUp, Off
  <2>1. CASE Request(h)
    BY <2>1 DEF Request, ContainerStart, ContainerRestart, ContainerStop, ContainerKill, TakeDown,
         ContainerDelete, ContainerInfo, ContainerWait, ContainerAttach
  <2>2. CASE ~Request(h)
    <3>1. req[h].con # c
      BY <1>1, ClusterAssumption, Zenon DEF Inv, ReqOK
    <3> QED BY <1>1, <2>2, <3>1, Spares, Zenon DEF HandlerStep
  <2> QED BY <2>1, <2>2, Zenon
<1>3. old' \subseteq old
  BY <1>1, Zenon DEF HandlerStep, Request, ContainerStart, ContainerRestart,
       ContainerStop, ContainerKill, TakeDown, ContainerDelete, ContainerInfo, ContainerWait,
       ContainerAttach, Proceed, ClientGone, StreamEnds, DeleteServices, DeleteConfigMaps,
       DeletePods, DropRecord, WatchDeleteContainer, WatchTimeout, AwaitDeleted,
       CreateConfigMap, CreatePod, CopyVolumes, AwaitReady, CreateService, PublishPorts,
       AbortStart, WriteFlag, SaveContainer, UpdateContainerStatus, Poll, PollLimited,
       CheckDone, Hijack, Detached, FinishAttach, clusterVars, deleteServices,
       deleteConfigMaps, deletePods
<1>4. ReaperOld'
  BY <1>1, <1>3 DEF RestInv, ReaperOld, reaperVars
<1> QED BY <1>1, <1>2, <1>4, ApiOrder, Zenon DEF RestInv

(* Steps that are not of a request add nothing to the cluster and change   *)
(* the database for old containers only: they keep a container in order.   *)
LEMMA Around ==
  ASSUME Inv, Inv', UNCHANGED <<rec, made, tunnels, req>>, broken \subseteq broken',
         aged \subseteq aged', NEW c \in Containers, ContainerOK(c),
         LivePod(c)' => LivePod(c), cm'[c] \subseteq cm[c], ServicesOf(c)' \subseteq ServicesOf(c),
         c \notin aged' => (c \in db' <=> c \in db)
  PROVE  ContainerOK(c)'
<1>1. SameRequests(c) /\ SameFlags(c) /\ Grows(c) /\ NothingNew(c)
  BY Zenon DEF SameRequests, SameFlags, Grows, NothingNew, Active, Passive, Off
<1> QED BY <1>1, Keeps, Zenon DEF Inv

(* ContainerCreate makes a container that is at rest.                      *)
LEMMA CreateRest ==
  ASSUME RestInv, OwnersMade, CreateStep
  PROVE  RestInv'
<1>1. Inv /\ Inv'
  BY CreateInv DEF RestInv
<1>2. PICK c \in Containers : ContainerCreate(c) /\ UNCHANGED <<aged, reaperVars>>
  BY DEF CreateStep
<1>3. /\ c \notin made /\ made' = made \cup {c} /\ db' = db \cup {c}
      /\ UNCHANGED <<clusterVars, rec, tunnels, req, broken, aged, reaperVars>>
  BY <1>2 DEF ContainerCreate
<1>4. /\ UnmadeUp' /\ ReaperOld' /\ \A h \in Handlers : ShapeOK(req[h])'
  BY <1>3, ZenonT(30) DEF RestInv, UnmadeUp, Off, ReaperOld, ShapeOK, reaperVars, clusterVars
<1>5. ASSUME NEW d \in Containers, d # c PROVE ContainerOK(d)'
  <2>1. SameRequests(d) /\ SameFlags(d) /\ Grows(d) /\ NothingNew(d)
    BY <1>3, Zenon DEF SameRequests, SameFlags, Grows, NothingNew, Active, Passive, Off, LivePod,
         ServicesOf, clusterVars
  <2>2. (d \in made' <=> d \in made) /\ (d \in db' <=> d \in db)
    BY <1>3, <1>5
  <2> QED BY <1>1, <2>1, <2>2, Keeps, Zenon DEF RestInv, Inv
<1>6. ContainerOK(c)'
  <2>1. \A h \in Handlers : req[h].con # c
    BY <1>3, ClusterAssumption, Zenon DEF RestInv, Inv, ReqOK
  <2>2. \A h \in Handlers : ~Active(h, c)'
    BY <1>3, <2>1, SMTT(30) DEF Active
  <2>3. Off(c, "Stopped")' /\ Off(c, "Killed")'
    BY <1>3 DEF RestInv, UnmadeUp, Off
  <2>4. Agree(c)' /\ ~Down(c)'
    BY <1>1, <2>3, DownFlagsNext, Zenon DEF Inv, Agree
  <2>5. Rest(c)'
    BY <1>3, <2>4 DEF Rest
  <2> QED BY <2>2, <2>4, <2>5 DEF ContainerOK
<1> QED BY <1>1, <1>4, <1>5, <1>6, Zenon DEF RestInv

(* What Kubernetes does by itself creates nothing.                         *)
LEMMA KubernetesRest ==
  ASSUME RestInv, KubernetesStep
  PROVE  RestInv'
<1>1. Inv /\ Inv' /\ ClusterTypeOK /\ UNCHANGED <<aged, reaperVars>>
  BY KubernetesInv DEF RestInv, Inv, TypeOK, KubernetesStep
<1>2. PICK c \in Containers :
        \/ PodGone(c)
        \/ /\ \/ InitContainerRuns(c) \/ MainContainerRuns(c) \/ MainContainerExits(c)
              \/ PodFails(c) \/ Evict(c)
           /\ UNCHANGED handlerVars
  BY DEF KubernetesStep, ClusterStep
<1>3. /\ UNCHANGED <<rec, made, db, tunnels, broken, cm, svc>> /\ old' \subseteq old
  BY <1>2, Zenon DEF PodGone, Vanish, InitContainerRuns, MainContainerRuns, MainContainerExits, PodFails,
       PodStep, Evict, handlerVars
<1>4. \A d \in Containers : LivePod(d)' => LivePod(d)
  <2>1. CASE PodGone(c)
    BY <1>1, <2>1 DEF PodGone, Vanish, LivePod, ClusterTypeOK
  <2>2. CASE InitContainerRuns(c) \/ MainContainerRuns(c) \/ MainContainerExits(c) \/ PodFails(c)
    BY <1>1, <2>2 DEF InitContainerRuns, MainContainerRuns, MainContainerExits, PodFails, PodStep,
         LivePod, ClusterTypeOK
  <2>3. CASE Evict(c)
    BY <2>3 DEF Evict, DeletePod, LivePod
  <2> QED BY <1>2, <2>1, <2>2, <2>3
<1>5. \A h \in Handlers : /\ req'[h].con = req[h].con /\ req'[h].op = req[h].op
                          /\ req'[h].pc = req[h].pc /\ req'[h].writes = req[h].writes
  <2>1. CASE PodGone(c)
    <3>1. req \in [Handlers -> Requests]
      BY <1>1 DEF Inv, TypeOK, LifecycleTypeOK
    <3> QED BY <2>1, <3>1 DEF PodGone, Requests
  <2>2. CASE UNCHANGED handlerVars
    BY <2>2 DEF handlerVars
  <2> QED BY <1>2, <2>1, <2>2, Zenon
<1>6. \A h \in Handlers : ShapeOK(req[h])'
  <2>1. TAKE h \in Handlers
  <2>2. ShapeOK(req[h])
    BY <1>1 DEF RestInv
  <2> QED BY <1>5, <2>2, Zenon DEF ShapeOK
<1>7. ASSUME NEW d \in Containers PROVE ContainerOK(d)'
  <2>1. SameRequests(d) /\ SameFlags(d) /\ Grows(d) /\ NothingNew(d)
    BY <1>1, <1>3, <1>4, <1>5, Zenon DEF SameRequests, SameFlags, Grows, NothingNew, Active, Passive, Off,
         ServicesOf
  <2> QED BY <1>1, <1>3, <2>1, Keeps, Zenon DEF RestInv, Inv
<1>8. UnmadeUp' /\ ReaperOld'
  BY <1>1, <1>3, Zenon DEF RestInv, UnmadeUp, Off, ReaperOld, reaperVars
<1> QED BY <1>1, <1>6, <1>7, <1>8 DEF RestInv

(* Growing old only takes containers out of the reach of the invariant.    *)
LEMMA TimeRest ==
  ASSUME RestInv, TimeStep
  PROVE  RestInv'
<1>1. Inv /\ Inv'
  BY TimeInv DEF RestInv
<1>2. /\ UNCHANGED <<pod, terminating, cm, svc, handlerVars, reaperVars>> /\ aged \subseteq aged'
      /\ \A o \in old' \ old : o[1] # "svc" => o[2] \in aged'
  <2>1. ASSUME NEW c \in Containers, AgeRecord(c)
        PROVE  UNCHANGED <<clusterVars, handlerVars, reaperVars>> /\ aged \subseteq aged'
    BY <2>1 DEF AgeRecord
  <2>2. ASSUME NEW o \in Objects, AgeObject(o)
        PROVE  /\ UNCHANGED <<pod, terminating, cm, svc, handlerVars, reaperVars, aged>>
               /\ old' = old \cup {o} /\ (o[1] # "svc" => o[2] \in aged)
    BY <2>2 DEF AgeObject, Age, Owner
  <2> QED BY <2>1, <2>2 DEF TimeStep, clusterVars
<1>3. /\ UnmadeUp' /\ \A h \in Handlers : ShapeOK(req[h])'
  BY <1>2, ZenonT(30) DEF RestInv, UnmadeUp, Off, ShapeOK, handlerVars
<1>4. ReaperOld'
  BY <1>2 DEF RestInv, ReaperOld, reaperVars
<1>5. ASSUME NEW c \in Containers PROVE ContainerOK(c)'
  <2>1. LivePod(c)' => LivePod(c)
    BY <1>2 DEF LivePod
  <2>2. ServicesOf(c)' = ServicesOf(c) /\ cm'[c] = cm[c]
    BY <1>2 DEF ServicesOf
  <2> QED BY <1>1, <1>2, <2>1, <2>2, Around, Zenon DEF RestInv, handlerVars
<1> QED BY <1>1, <1>3, <1>4, <1>5 DEF RestInv

---------------------------------------------------------------------------
(* The reaper.                                                             *)

(* What a step of the reaper does to container c.                          *)
Reaped(c) ==
    /\ c \in terminating => c \in terminating'
    /\ cm'[c] \subseteq cm[c]
    /\ ServicesOf(c)' \subseteq ServicesOf(c)
    /\ c \notin aged => /\ c \in db' <=> c \in db
                        /\ c \in terminating' <=> c \in terminating
                        /\ cm'[c] = cm[c]

(* It creates nothing and touches old containers only.                     *)
LEMMA ReaperTouches ==
  ASSUME RestInv, ReaperStep
  PROVE  /\ UNCHANGED <<pod, rec, made, tunnels, req, aged>>
         /\ broken \subseteq broken' /\ old' \subseteq old
         /\ \A c \in Containers : Reaped(c)
<1>1. /\ ClusterTypeOK /\ ReaperOld /\ ReaperOK /\ \A c \in Containers : c # NoContainer
  BY ClusterAssumption DEF RestInv, Inv, TypeOK
<1>2. CASE Wake \/ CleanContainers \/ SweepNext
  BY <1>2, Zenon DEF Wake, CleanContainers, SweepNext, clusterVars, handlerVars, Reaped, ServicesOf
<1>3. CASE SweepList
  BY <1>3, Zenon DEF SweepList, handlerVars, Reaped, ServicesOf
<1>4. CASE ReapRecord
  <2>1. rcur \in aged /\ db' = db \ {rcur}
    BY <1>1, <1>4 DEF ReapRecord, ReaperOld
  <2> QED BY <1>4, <2>1, Zenon DEF ReapRecord, clusterVars, Reaped, ServicesOf
<1>5. CASE ReapServices
  <2>1. /\ UNCHANGED <<pod, terminating, cm, rec, made, tunnels, req, aged, db>>
        /\ broken \subseteq broken' /\ old' \subseteq old
    BY <1>5 DEF ReapServices, deleteServices, Break
  <2>2. PICK gone \in SUBSET ServicesOf(rcur) :
          svc' = [n \in Names |-> IF n \in gone THEN NoContainer ELSE svc[n]]
    BY <1>5 DEF ReapServices, deleteServices
  <2>3. \A c \in Containers : ServicesOf(c)' \subseteq ServicesOf(c)
    BY <1>1, <2>2 DEF ServicesOf
  <2> QED BY <2>1, <2>3, Zenon DEF Reaped
<1>6. CASE ReapConfigMaps
  <2>1. /\ UNCHANGED <<pod, terminating, svc, rec, made, tunnels, req, aged, db>>
        /\ broken \subseteq broken' /\ old' \subseteq old
    BY <1>6 DEF ReapConfigMaps, deleteConfigMaps, Break
  <2>2. rcur \in aged
    BY <1>1, <1>6 DEF ReapConfigMaps, ReaperOld
  <2>3. \A c \in Containers : cm'[c] \subseteq cm[c] /\ (c \notin aged => cm'[c] = cm[c])
    BY <1>1, <1>6, <2>2, Zenon DEF ReapConfigMaps, deleteConfigMaps, ClusterTypeOK
  <2> QED BY <2>1, <2>3 DEF Reaped, ServicesOf
<1>7. CASE ReapPods
  <2>1. /\ UNCHANGED <<pod, cm, svc, old, rec, made, tunnels, req, aged, db>>
        /\ broken \subseteq broken'
    BY <1>7 DEF ReapPods, deletePods, Break
  <2>2. rcur \in aged
    BY <1>1, <1>7 DEF ReapPods, ReaperOld
  <2>3. terminating \subseteq terminating' /\ terminating' \subseteq terminating \cup {rcur}
    BY <1>7 DEF ReapPods, deletePods, DeletePod
  <2> QED BY <2>1, <2>2, <2>3, Zenon DEF Reaped, ServicesOf
<1>8. CASE SweepDelete
  <2>1. PICK o \in rlist : RemoveObject(o) \/ UNCHANGED <<pod, terminating, cm, svc, old>>
    BY <1>8, Zenon DEF SweepDelete
  <2>2. UNCHANGED <<handlerVars, aged>>
    BY <1>8 DEF SweepDelete
  <2>3. CASE UNCHANGED <<pod, terminating, cm, svc, old>>
    BY <2>2, <2>3 DEF handlerVars, Reaped, ServicesOf
  <2>4. CASE RemoveObject(o)
    <3>1. o \in Objects /\ (o[1] # "svc" => o[2] \in aged)
      BY <1>1, <1>8 DEF SweepDelete, ReaperOK, ReaperOld
    <3>2. UNCHANGED pod /\ old' \subseteq old
      BY <2>4 DEF RemoveObject
    <3>3. terminating \subseteq terminating' /\ terminating' \subseteq terminating \cup aged
      BY <2>4, <3>1 DEF RemoveObject, DeletePod
    <3>4. \A c \in Containers : cm'[c] \subseteq cm[c] /\ (c \notin aged => cm'[c] = cm[c])
      BY <1>1, <2>4, <3>1, Zenon DEF RemoveObject, ClusterTypeOK, ConfigMapKinds
    <3>5. \A c \in Containers : ServicesOf(c)' \subseteq ServicesOf(c)
      BY <1>1, <2>4, Zenon DEF RemoveObject, ClusterTypeOK, ServicesOf
    <3> QED BY <2>2, <3>2, <3>3, <3>4, <3>5, Zenon DEF handlerVars, Reaped
  <2> QED BY <2>1, <2>3, <2>4
<1> QED BY <1>2, <1>3, <1>4, <1>5, <1>6, <1>7, <1>8, Zenon DEF ReaperStep

(* The reaper takes up old containers and old objects only.                *)
LEMMA ReaperStaysOld ==
  ASSUME RestInv, ReaperStep
  PROVE  ReaperOld'
<1>1. UNCHANGED aged /\ old' \subseteq old /\ ReaperOld
  BY ReaperTouches DEF RestInv
<1>2. CASE Wake \/ CleanContainers \/ SweepNext
  BY <1>1, <1>2, Zenon DEF Wake, CleanContainers, SweepNext, Reap, ReaperOld
<1>3. CASE ReapServices \/ ReapConfigMaps \/ ReapPods \/ ReapRecord
  BY <1>1, <1>3, Zenon DEF ReapServices, ReapConfigMaps, ReapPods, ReapRecord, Reap, ReaperOld
<1>4. CASE SweepList
  <2>1. rpc' \in {"sweep", "sleep"} /\ rlist' \subseteq old
    BY <1>4 DEF SweepList, Reap
  <2> QED BY <1>1, <2>1 DEF ReaperOld
<1>5. CASE SweepDelete
  <2>1. rpc = "sweep" /\ rpc' \in {"sweep", "sleep"} /\ rlist' \subseteq rlist
    BY <1>5 DEF SweepDelete, Reap
  <2> QED BY <1>1, <2>1 DEF ReaperOld
<1> QED BY <1>2, <1>3, <1>4, <1>5, SMTT(30) DEF ReaperStep

(* The reaper keeps the invariant.                                         *)
LEMMA ReaperRest ==
  ASSUME RestInv, ReaperStep
  PROVE  RestInv'
<1>1. Inv /\ Inv' /\ ReaperOld'
  BY ReaperInv, ReaperStaysOld DEF RestInv
<1>2. /\ UNCHANGED <<pod, rec, made, tunnels, req, aged>>
      /\ broken \subseteq broken'
      /\ \A c \in Containers : Reaped(c)
  BY ReaperTouches
<1>3. UnmadeUp' /\ \A h \in Handlers : ShapeOK(req[h])'
  BY <1>2, ZenonT(30) DEF RestInv, UnmadeUp, Off, ShapeOK
<1>4. ASSUME NEW c \in Containers PROVE ContainerOK(c)'
  <2>1. LivePod(c)' => LivePod(c)
    BY <1>2, Zenon DEF LivePod, Reaped
  <2> QED BY <1>1, <1>2, <2>1, Around, Zenon DEF RestInv, Reaped
<1> QED BY <1>1, <1>3, <1>4 DEF RestInv

---------------------------------------------------------------------------

(* The invariant holds at first and in every reachable state.              *)
LEMMA RestInvHolds == Spec => []RestInv
<1>1. Init => RestInv
  <2> SUFFICES ASSUME Init PROVE RestInv
    OBVIOUS
  <2>1. Inv /\ \A h \in Handlers : req[h] = Idle
    BY InitInv DEF Init, LifecycleInit
  <2>2. Idle.pc = "idle" /\ Idle.con = NoContainer
    BY Zenon DEF Idle
  <2>3. \A h \in Handlers : ShapeOK(req[h])
    BY <2>1, <2>2, ShapeIdle
  <2>4. \A c \in Containers, f \in Flags : Off(c, f)
    BY Zenon DEF Init, LifecycleInit, Off
  <2>5. ReaperOld /\ UnmadeUp
    BY <2>4 DEF Init, ReaperInit, ClusterInit, ReaperOld, UnmadeUp, Flags
  <2>6. ASSUME NEW c \in Containers PROVE ContainerOK(c)
    <3>1. \A h \in Handlers : ~Active(h, c)
      BY <2>1, <2>2, ClusterAssumption DEF Active
    <3>2. Off(c, "Stopped") /\ Off(c, "Killed")
      BY <2>4 DEF Flags
    <3>3. Agree(c) /\ ~Down(c)
      BY <2>1, <3>2, DownFlags DEF Inv, Agree
    <3>4. Rest(c)
      BY <3>3 DEF Rest, Init, LifecycleInit
    <3> QED BY <3>1, <3>3, <3>4 DEF ContainerOK
  <2> QED BY <2>1, <2>3, <2>5, <2>6 DEF RestInv
<1>2. ASSUME RestInv, UNCHANGED vars PROVE RestInv'
  <2>1. Inv /\ Inv' /\ UNCHANGED <<clusterVars, handlerVars, aged, reaperVars>>
    BY <1>2, StutterInv DEF RestInv, vars
  <2>2. ReaperOld' /\ UnmadeUp' /\ \A h \in Handlers : ShapeOK(req[h])'
    BY <1>2, <2>1, ZenonT(30) DEF RestInv, ReaperOld, UnmadeUp, Off, ShapeOK, clusterVars, handlerVars,
         reaperVars
  <2>3. ASSUME NEW c \in Containers PROVE ContainerOK(c)'
    <3>1. (LivePod(c)' <=> LivePod(c)) /\ ServicesOf(c)' = ServicesOf(c) /\ cm'[c] = cm[c]
      BY <2>1, Zenon DEF LivePod, ServicesOf, clusterVars
    <3> QED BY <1>2, <2>1, <3>1, Around, Zenon DEF RestInv, handlerVars
  <2> QED BY <2>1, <2>2, <2>3 DEF RestInv
<1>3. RestInv /\ OwnersMade /\ [Next]_vars => RestInv'
  BY <1>2, CreateRest, ApiRest, KubernetesRest, ReaperRest, TimeRest, SMTT(30) DEF Next
<1> QED BY <1>1, <1>3, OwnersMadeHolds, PTL DEF Spec

(* A container no request is served for has no request that changes it.    *)
LEMMA QuietRest ==
  ASSUME RestInv, NEW c \in Containers, Quiet(c), c \notin broken
  PROVE  Agree(c) /\ (c \notin aged => Rest(c))
<1>1. \A h \in Handlers : ~Active(h, c)
  BY DEF Quiet, Active, Con
<1> QED BY <1>1 DEF RestInv, ContainerOK

(***************************************************************************)
(* The flags of a record at rest agree: whatever mixture of start, stop,   *)
(* kill, restart, inspect, wait and attach led to it, a container that is  *)
(* marked as running is marked neither as stopped nor as killed, unless a  *)
(* backend call failed for it or two changing requests overlapped.         *)
(***************************************************************************)
THEOREM RecordsAgree == Spec => []FlagsAgree
<1>1. RestInv => FlagsAgree
  <2> SUFFICES ASSUME RestInv, NEW c \in db, Quiet(c), rec[c].Running, c \notin broken
               PROVE  ~Down(c)
    BY DEF FlagsAgree
  <2>1. c \in Containers /\ TypeOK
    BY DEF RestInv, Inv, TypeOK, LifecycleTypeOK
  <2>2. Agree(c) /\ ~Off(c, "Running")
    BY <2>1, QuietRest, DownFlags, SMTT(30)
  <2> QED BY <2>1, <2>2, DownFlags DEF Agree
<1> QED BY <1>1, RestInvHolds, PTL

(***************************************************************************)
(* Once ContainerStop, ContainerKill or ContainerRestart has marked a      *)
(* young container as down, nothing of it is left in the cluster: handlers *)
(* may skip Backend.DeleteContainer for it.                                *)
(***************************************************************************)
THEOREM DownIsDown == Spec => []StoppedMeansDown
<1>1. RestInv => StoppedMeansDown
  <2> SUFFICES ASSUME RestInv, NEW c \in db, Quiet(c), Down(c), c \notin broken \cup aged
               PROVE  ~Leftover(c) /\ c \notin tunnels
    BY DEF StoppedMeansDown
  <2>1. c \in Containers
    BY DEF RestInv, Inv, TypeOK, LifecycleTypeOK
  <2> QED BY <2>1, QuietRest DEF Rest, Clean
<1> QED BY <1>1, RestInvHolds, PTL

(***************************************************************************)
(* A young container whose record ContainerDelete removed has no Pod left, *)
(* except one that is being deleted, no ConfigMap and no Service.          *)
(***************************************************************************)
THEOREM RemovedIsGone == Spec => []RemovedMeansGone
<1>1. RestInv => RemovedMeansGone
  <2> SUFFICES ASSUME RestInv, NEW c \in made \ db, Quiet(c), c \notin broken \cup aged
               PROVE  ~Leftover(c)
    BY DEF RemovedMeansGone
  <2>1. c \in Containers
    BY DEF RestInv, Inv, TypeOK, LifecycleTypeOK
  <2> QED BY <2>1, QuietRest DEF Rest
<1> QED BY <1>1, RestInvHolds, PTL

(***************************************************************************)
(* The reaper leaves the record, the Pod and the ConfigMaps of a container *)
(* younger than keepMax alone, also when the sweep deletes by name an      *)
(* object that was deleted and created again since it was listed.          *)
(***************************************************************************)
THEOREM ReaperSparesYoung == Spec => YoungUntouched
<1> DEFINE Spared == reaperVars' # reaperVars =>
                       \A c \in Containers \ aged :
                          /\ c \in db' <=> c \in db
                          /\ c \in terminating' <=> c \in terminating
                          /\ pod'[c] = pod[c] /\ cm'[c] = cm[c]
<1>1. ASSUME RestInv, Next PROVE Spared
  <2>1. ReaperStep \/ reaperVars' = reaperVars
    BY <1>1 DEF Next, CreateStep, ApiStep, KubernetesStep, TimeStep, AgeRecord, AgeObject
  <2>2. CASE ReaperStep
    BY <1>1, <2>2, ReaperTouches, Zenon DEF Reaped
  <2> QED BY <2>1, <2>2
<1>2. RestInv /\ [Next]_vars => [Spared]_vars
  BY <1>1, Zenon
<1> QED BY <1>2, RestInvHolds, PTL DEF Spec, YoungUntouched
============================================================================
