----------------------------- MODULE Lifecycle -----------------------------
(***************************************************************************)
(* The container endpoints of the Docker and libpod APIs: create, start,   *)
(* restart, stop, kill, delete, inspect, wait and attach, with the backend *)
(* calls they make (internal/server/routes, internal/backend).             *)
(*                                                                         *)
(* Every request runs in a goroutine of its own.  The in-memory database   *)
(* hands out pointers, so all requests for one container share one record, *)
(* and nothing locks it: a step of the model is one backend call, one      *)
(* database transaction or one assignment to a flag of the record.         *)
(***************************************************************************)
EXTENDS Cluster

CONSTANTS
    Handlers,      \* request goroutines
    Ops,           \* the operations clients use
    Ports,         \* containers with service ports
    PortForward,   \* config.PortForward
    ReverseProxy   \* config.ReverseProxy

AllOps == {"start", "restart", "stop", "kill", "delete", "inspect", "wait", "attach"}

ASSUME LifecycleAssumption ==
    /\ Ops \subseteq AllOps
    /\ Ports \subseteq Containers
    /\ PortForward \in BOOLEAN
    /\ ReverseProxy \in BOOLEAN

VARIABLES
    rec,       \* Containers -> flags of its record
    made,      \* containers created so far
    db,        \* containers with a record in the database
    attached,  \* Containers -> handlers whose attach channel is registered
    tunnels,   \* containers with port-forwards or proxies (stop channels)
    req,       \* Handlers -> the request being served
    broken     \* history: containers for which a backend start or delete
               \* failed, or requests that change them overlapped

handlerVars == <<rec, made, db, attached, tunnels, req, broken>>

Flags == {"Running", "Completed", "Stopped", "Killed", "Failed"}

DeployStates == {"pending", "failed", "running", "completed"}

(***************************************************************************)
(* The program counter of a request.  del_*: Backend.DeleteContainer;      *)
(* files .. svc, abort: Backend.StartContainer; flags: assignments to the  *)
(* record; status: Backend.GetContainerStatus; deleted: <-deleted.         *)
(***************************************************************************)
Labels == {"idle", "watch", "del_svc", "del_cm", "del_pod", "drop", "deleted",
           "files", "copy", "ready", "svc", "abort", "flags", "save",
           "hijack", "attached", "poll", "status", "check"}

Idle == [op |-> "none", con |-> NoContainer, pc |-> "idle", dup |-> FALSE,
         st |-> "pending", todo |-> {}, writes |-> <<>>, watch |-> "nil"]

Assignments == Seq(Flags \X BOOLEAN)

Requests ==
    [op : AllOps \cup {"none"}, con : Containers \cup {NoContainer}, pc : Labels,
     dup : BOOLEAN, st : DeployStates, todo : SUBSET (Names \cup ConfigMapKinds),
     writes : Assignments, watch : {"nil", "armed", "closed"}]

LifecycleTypeOK ==
    /\ rec \in [Containers -> [Flags -> BOOLEAN]]
    /\ made \subseteq Containers
    /\ db \subseteq made
    /\ attached \in [Containers -> SUBSET Handlers]
    /\ tunnels \subseteq made
    /\ req \in [Handlers -> Requests]
    /\ broken \subseteq made

LifecycleInit ==
    /\ rec = [c \in Containers |-> [f \in Flags |-> FALSE]]
    /\ made = {}
    /\ db = {}
    /\ attached = [c \in Containers |-> {}]
    /\ tunnels = {}
    /\ req = [h \in Handlers |-> Idle]
    /\ broken = {}

---------------------------------------------------------------------------

At(h, l) == req[h].pc = l
Con(h) == req[h].con

Begin(h, o, c, l) ==
    req' = [req EXCEPT ![h] = [Idle EXCEPT !.op = o, !.con = c, !.pc = l]]

Goto(h, l) == req' = [req EXCEPT ![h].pc = l]

Return(h) == req' = [req EXCEPT ![h] = Idle]

Break(c, ok) == broken' = IF ok THEN broken ELSE broken \cup {c}

(* The assignments of each handler, in program order.                      *)
StartWrites(st) ==
    << <<"Stopped", FALSE>>, <<"Killed", FALSE>>, <<"Failed", st = "failed">>,
       <<"Completed", st = "completed">>, <<"Running", st = "running">> >>
(* Variant: stop forgets that the container was running.                   *)
StopWritesKeepRunning == << <<"Completed", FALSE>>, <<"Stopped", TRUE>> >>
StopWrites == << <<"Running", FALSE>>, <<"Completed", FALSE>>, <<"Stopped", TRUE>> >>
KillWrites == << <<"Killed", TRUE>>, <<"Running", FALSE>>, <<"Completed", FALSE>> >>
(* Variant: a finished container is only marked as not running.            *)
CompletedWritesRunningOnly == << <<"Running", FALSE>> >>
CompletedWrites == << <<"Completed", TRUE>>, <<"Running", FALSE>> >>
FailedWrites == << <<"Failed", TRUE>> >>

Assign(h, w) == req' = [req EXCEPT ![h].pc = "flags", ![h].writes = w]

(* SignalDetach and SignalStop end every session, forward and proxy.       *)
Signal(c) ==
    /\ attached' = [attached EXCEPT ![c] = {}]
    /\ tunnels' = tunnels \ {c}

Down(c) == rec[c].Stopped \/ rec[c].Killed

Startable(c) == ~rec[c].Running /\ ~rec[c].Completed

---------------------------------------------------------------------------
(* Requests.  A request that fails its lookup, or that changes nothing,    *)
(* is a stuttering step.                                                   *)

(* Variant: the lookup answers from a cache of all containers created.     *)
AcceptCached(h, o, c) ==
    /\ At(h, "idle")
    /\ o \in Ops
    /\ c \in made

Accept(h, o, c) ==
    /\ At(h, "idle")
    /\ o \in Ops
    /\ c \in db

(* h is the only request that starts, stops or deletes c.                  *)
Alone(h, c) ==
    \A g \in Handlers \ {h} :
        Con(g) = c => req[g].op \in {"inspect", "wait"} \/ req[g].pc \in {"hijack", "attached"}

ContainerCreate(c) ==
    /\ c \notin made
    /\ made' = made \cup {c}
    /\ db' = db \cup {c}
    /\ UNCHANGED <<clusterVars, rec, attached, tunnels, req, broken>>

(* Entering Backend.StartContainer: the ConfigMaps come first.             *)
EnterStart(h, o, c) ==
    req' = [req EXCEPT ![h] = [Idle EXCEPT !.op = o, !.con = c, !.pc = "files",
                                           !.todo = Files[c]]]

ContainerStart(h, c) ==
    /\ Accept(h, "start", c)
    /\ Startable(c)
    /\ EnterStart(h, "start", c)
    /\ Break(c, Alone(h, c))
    /\ UNCHANGED <<clusterVars, rec, made, db, attached, tunnels>>

ContainerRestart(h, c) ==
    /\ Accept(h, "restart", c)
    /\ Begin(h, "restart", c, "watch")
    /\ Break(c, Alone(h, c))
    /\ UNCHANGED <<clusterVars, rec, made, db, attached, tunnels>>

(* Stop and kill: the backend is left alone when the record is down.       *)
TakeDown(h, o, c, w) ==
    /\ Accept(h, o, c)
    /\ Signal(c)
    /\ req' = [req EXCEPT ![h] =
         IF Down(c) THEN [Idle EXCEPT !.op = o, !.con = c, !.pc = "flags", !.writes = w]
                    ELSE [Idle EXCEPT !.op = o, !.con = c, !.pc = "del_svc"]]
    /\ Break(c, Alone(h, c))
    /\ UNCHANGED <<clusterVars, rec, made, db>>

ContainerStop(h, c) == TakeDown(h, "stop", c, StopWrites)

ContainerKill(h, c) == TakeDown(h, "kill", c, KillWrites)

(* Variant: a completed container is taken to have left nothing behind.    *)
ContainerDeleteFinished(h, c) ==
    /\ Accept(h, "delete", c)
    /\ Signal(c)
    /\ Begin(h, "delete", c, IF Down(c) \/ rec[c].Completed THEN "drop" ELSE "del_svc")
    /\ Break(c, Alone(h, c))
    /\ UNCHANGED <<clusterVars, rec, made, db>>

ContainerDelete(h, c) ==
    /\ Accept(h, "delete", c)
    /\ Signal(c)
    /\ Begin(h, "delete", c, IF Down(c) THEN "drop" ELSE "del_svc")
    /\ Break(c, Alone(h, c))
    /\ UNCHANGED <<clusterVars, rec, made, db>>

ContainerInfo(h, c) ==
    /\ Accept(h, "inspect", c)
    /\ ~rec[c].Completed
    /\ Begin(h, "inspect", c, "status")
    /\ UNCHANGED <<clusterVars, rec, made, db, attached, tunnels, broken>>

ContainerWait(h, c) ==
    /\ Accept(h, "wait", c)
    /\ Begin(h, "wait", c, "poll")
    /\ UNCHANGED <<clusterVars, rec, made, db, attached, tunnels, broken>>

ContainerAttach(h, c) ==
    /\ Accept(h, "attach", c)
    /\ IF Startable(c) THEN EnterStart(h, "attach", c)
                       ELSE Begin(h, "attach", c, "hijack")
    /\ Break(c, Alone(h, c) \/ ~Startable(c))
    /\ UNCHANGED <<clusterVars, rec, made, db, attached, tunnels>>

---------------------------------------------------------------------------
(* Backend.DeleteContainer, for stop, kill, delete and restart.            *)

DeleteServices(h) ==
    /\ At(h, "del_svc")
    /\ \E ok \in BOOLEAN : deleteServices(Con(h), ok) /\ Break(Con(h), ok)
    /\ Goto(h, "del_cm")
    /\ UNCHANGED <<rec, made, db, attached, tunnels>>

DeleteConfigMaps(h) ==
    /\ At(h, "del_cm")
    /\ \E ok \in BOOLEAN : deleteConfigMaps(Con(h), ok) /\ Break(Con(h), ok)
    /\ Goto(h, "del_pod")
    /\ UNCHANGED <<rec, made, db, attached, tunnels>>

(* An error of the backend is only logged: the handler goes on.            *)
DeletePods(h) ==
    /\ At(h, "del_pod")
    /\ \E ok \in BOOLEAN : deletePods(Con(h), ok) /\ Break(Con(h), ok)
    /\ IF req[h].op = "delete" THEN Goto(h, "drop")
       ELSE Assign(h, IF req[h].op = "kill" THEN KillWrites ELSE StopWrites)
    /\ IF req[h].op = "restart" THEN Signal(Con(h))
                                ELSE UNCHANGED <<attached, tunnels>>
    /\ UNCHANGED <<rec, made, db>>

(* DB.DeleteContainer: a record that is already gone is answered with 404. *)
DropRecord(h) ==
    /\ At(h, "drop")
    /\ db' = db \ {Con(h)}
    /\ Return(h)
    /\ UNCHANGED <<clusterVars, rec, made, attached, tunnels, broken>>

(* Restart watches the Pod before it deletes it.  An error leaves a nil    *)
(* channel.                                                                *)
WatchDeleteContainer(h) ==
    /\ At(h, "watch")
    /\ \E ok \in BOOLEAN :
         /\ Call(ok)
         /\ req' = [req EXCEPT ![h].pc = "del_svc",
                               ![h].watch = IF ok THEN "armed" ELSE "nil"]
    /\ UNCHANGED <<pod, terminating, cm, svc, old, rec, made, db, attached, tunnels, broken>>

(* Variant: the timer only runs while a Pod is being deleted.              *)
WatchTimeoutTerminating(h) ==
    /\ req[h].watch = "armed"
    /\ Con(h) \in terminating
    /\ req' = [req EXCEPT ![h].watch = "closed"]
    /\ UNCHANGED <<clusterVars, rec, made, db, attached, tunnels, broken>>

WatchTimeout(h) ==
    /\ req[h].watch = "armed"
    /\ req' = [req EXCEPT ![h].watch = "closed"]
    /\ UNCHANGED <<clusterVars, rec, made, db, attached, tunnels, broken>>

(* The rest of ContainerRestart is StartContainer.                         *)
AwaitDeleted(h) ==
    /\ At(h, "deleted")
    /\ req[h].watch = "closed"
    /\ EnterStart(h, "start", Con(h))
    /\ UNCHANGED <<clusterVars, rec, made, db, attached, tunnels, broken>>

(* The Pod is gone: its watchers see the Deleted event.                    *)
PodGone(c) ==
    /\ Vanish(c)
    /\ req' = [h \in Handlers |->
                 IF Con(h) = c /\ req[h].watch = "armed"
                 THEN [req[h] EXCEPT !.watch = "closed"] ELSE req[h]]
    /\ UNCHANGED <<rec, made, db, attached, tunnels, broken>>

---------------------------------------------------------------------------
(* Backend.StartContainer and StartContainer, for start, attach, restart.  *)

(* createConfigMapFromFiles (vf), then createConfigMapFromRaw (pf).  An    *)
(* existing ConfigMap is an error.                                         *)
CreateConfigMap(h) ==
    LET c == Con(h)
        k == IF "vf" \in req[h].todo THEN "vf" ELSE "pf"
    IN  /\ At(h, "files")
        /\ req[h].todo # {}
        /\ \E ok \in BOOLEAN :
             /\ Call(ok)
             /\ IF ok /\ k \notin cm[c]
                THEN req' = [req EXCEPT ![h].todo = @ \ {k}]
                ELSE Goto(h, "abort")
             /\ \/ cm' = [cm EXCEPT ![c] = @ \cup {k}]
                \/ ~ok /\ UNCHANGED cm
        /\ UNCHANGED <<pod, terminating, svc, old, rec, made, db, attached, tunnels, broken>>

(* An existing Pod makes this a duplicate request, not an error.           *)
CreatePod(h) ==
    LET c == Con(h)
        created == IF c \in Setup THEN "scheduled" ELSE "pending"
    IN  /\ At(h, "files")
        /\ req[h].todo = {}
        /\ \E ok \in BOOLEAN :
             /\ Call(ok)
             /\ req' = [req EXCEPT ![h].pc = IF ~ok THEN "abort"
                                             ELSE IF c \in Setup THEN "copy" ELSE "ready",
                                   ![h].dup = ok /\ pod[c] # "none"]
             /\ \/ pod' = [pod EXCEPT ![c] = IF @ = "none" THEN created ELSE @]
                \/ ~ok /\ UNCHANGED pod
        /\ UNCHANGED <<terminating, cm, svc, old, rec, made, db, attached, tunnels, broken>>

(* copyVolumeFolders: wait for the init container, copy, touch /tmp/done.  *)
CopyVolumes(h) ==
    LET c == Con(h)
    IN  /\ At(h, "copy")
        /\ \/ /\ pod[c] \in {"setup", "pending", "running", "completed"}
              /\ pod' = [pod EXCEPT ![c] = IF @ = "setup" THEN "pending" ELSE @]
              /\ Goto(h, "ready")
              /\ Call(TRUE)
           \/ /\ pod[c] \in {"none", "scheduled", "completed", "failed"}
              /\ Goto(h, "abort")
              /\ Call(TRUE)
              /\ UNCHANGED pod
           \/ /\ Goto(h, "abort")
              /\ Call(FALSE)
              /\ UNCHANGED pod
        /\ UNCHANGED <<terminating, cm, svc, old, rec, made, db, attached, tunnels, broken>>

(* GetContainerStatus; an absent Pod and a failed call are errors.         *)
ContainerStatus(c, ok) ==
    CASE ~ok \/ pod[c] \in {"none", "failed"}        -> "failed"
      [] ok /\ pod[c] \in {"running", "completed"}   -> pod[c]
      [] OTHER                                       -> "pending"

(* waitReadyState and MapContainerTCPPorts.  A pending Pod is polled until *)
(* the timeout, which is a failed deployment.                              *)
AwaitReady(h) ==
    LET c == Con(h)
    IN  /\ At(h, "ready")
        /\ \E ok \in BOOLEAN :
             /\ Call(ok)
             /\ IF ContainerStatus(c, ok) \in {"running", "completed"}
                THEN req' = [req EXCEPT ![h].pc = "svc", ![h].st = ContainerStatus(c, ok),
                                        ![h].todo = Aliases[c]]
                ELSE Goto(h, "abort")
        /\ UNCHANGED <<pod, terminating, cm, svc, old, rec, made, db, attached, tunnels, broken>>

(* createServices stops at the first error; a duplicate request drops that *)
(* error when it says "already exists".                                    *)
CreateService(h) ==
    /\ At(h, "svc")
    /\ \E n \in req[h].todo, ok \in BOOLEAN :
         LET conflict == svc[n] # NoContainer
             failed == ~ok \/ (conflict /\ ~req[h].dup)
         IN  /\ Call(ok)
             /\ IF failed THEN Return(h)
                ELSE req' = [req EXCEPT ![h].todo = IF conflict THEN {} ELSE @ \ {n}]
             /\ Break(Con(h), ~failed)
             /\ \/ svc' = [svc EXCEPT ![n] = IF conflict THEN @ ELSE Con(h)]
                \/ ~ok /\ UNCHANGED svc
    /\ UNCHANGED <<pod, terminating, cm, old, rec, made, db, attached, tunnels>>

(* CreatePortForwards, or GetPodIP and CreateReverseProxies.               *)
PublishPorts(h) ==
    LET c == Con(h)
    IN  /\ At(h, "svc")
        /\ req[h].todo = {}
        /\ \E ok \in BOOLEAN :
             LET found == ok /\ pod[c] # "none"
             IN  /\ Call(ok)
                 /\ ok \/ c \in Ports
                 /\ IF c \in Ports /\ ~PortForward /\ ~found
                    THEN Return(h) /\ Break(c, FALSE)
                    ELSE Assign(h, StartWrites(req[h].st)) /\ Break(c, TRUE)
                 /\ tunnels' = IF c \in Ports /\ found /\ (PortForward \/ ReverseProxy)
                               THEN tunnels \cup {c} ELSE tunnels
        /\ UNCHANGED <<pod, terminating, cm, svc, old, rec, made, db, attached>>

(* A failed deployment deletes the Pod, whichever request created it.      *)
AbortStart(h) ==
    /\ At(h, "abort")
    /\ \E ok \in BOOLEAN : deletePods(Con(h), ok)
    /\ Break(Con(h), FALSE)
    /\ Return(h)
    /\ UNCHANGED <<rec, made, db, attached, tunnels>>

---------------------------------------------------------------------------
(* The record.                                                             *)

WriteFlag(h) ==
    LET w == Head(req[h].writes)
        rest == Tail(req[h].writes)
        next == IF rest # <<>> THEN "flags"
                ELSE IF req[h].op = "wait" THEN "check" ELSE "save"
    IN  /\ At(h, "flags")
        /\ rec' = [rec EXCEPT ![Con(h)][w[1]] = w[2]]
        /\ req' = [req EXCEPT ![h] = IF rest = <<>> /\ req[h].op = "inspect" THEN Idle
                                     ELSE [@ EXCEPT !.writes = rest, !.pc = next]]
        /\ UNCHANGED <<clusterVars, made, db, attached, tunnels, broken>>

(* SaveContainer inserts the record, also when it was deleted meanwhile.   *)
SaveContainer(h) ==
    /\ At(h, "save")
    /\ db' = db \cup {Con(h)}
    /\ IF req[h].op \in {"restart", "attach"}
       THEN Goto(h, IF req[h].op = "restart" THEN "deleted" ELSE "hijack")
       ELSE Return(h)
    /\ UNCHANGED <<clusterVars, rec, made, attached, tunnels, broken>>

(* UpdateContainerStatus: the call, then the assignments it leads to.      *)
UpdateContainerStatus(h) ==
    /\ At(h, "status")
    /\ \E ok \in BOOLEAN :
         /\ Call(ok)
         /\ IF ContainerStatus(Con(h), ok) \in {"failed", "completed"}
            THEN Assign(h, IF ContainerStatus(Con(h), ok) = "failed" THEN FailedWrites
                                                                     ELSE CompletedWrites)
            ELSE IF req[h].op = "wait" THEN Goto(h, "check") ELSE Return(h)
    /\ UNCHANGED <<pod, terminating, cm, svc, old, rec, made, db, attached, tunnels, broken>>

(* A tick of ContainerWait.  A completed record, and the rate limiter,     *)
(* skip the status call.                                                   *)
Poll(h) ==
    LET c == Con(h)
    IN  /\ At(h, "poll")
        /\ IF c \in db /\ ~rec[c].Completed THEN Goto(h, "status") ELSE Return(h)
        /\ UNCHANGED <<clusterVars, rec, made, db, attached, tunnels, broken>>

PollLimited(h) ==
    /\ At(h, "poll")
    /\ Con(h) \in db
    /\ Down(Con(h))
    /\ Return(h)
    /\ UNCHANGED <<clusterVars, rec, made, db, attached, tunnels, broken>>

CheckDone(h) ==
    /\ At(h, "check")
    /\ IF Down(Con(h)) \/ rec[Con(h)].Completed THEN Return(h) ELSE Goto(h, "poll")
    /\ UNCHANGED <<clusterVars, rec, made, db, attached, tunnels, broken>>

ClientGone(h) ==
    /\ At(h, "poll")
    /\ Return(h)
    /\ UNCHANGED <<clusterVars, rec, made, db, attached, tunnels, broken>>

---------------------------------------------------------------------------
(* Attach sessions.                                                        *)

Hijack(h) ==
    /\ At(h, "hijack")
    /\ \/ /\ attached' = [attached EXCEPT ![Con(h)] = @ \cup {h}]
          /\ Goto(h, "attached")
       \/ /\ UNCHANGED attached
          /\ Return(h)
    /\ UNCHANGED <<clusterVars, rec, made, db, tunnels, broken>>

(* The deferred SignalDetach ends every session of the container.          *)
FinishAttach(h) ==
    /\ attached' = [attached EXCEPT ![Con(h)] = {}]
    /\ Return(h)
    /\ UNCHANGED <<clusterVars, rec, made, db, tunnels, broken>>

Detached(h) == At(h, "attached") /\ h \notin attached[Con(h)] /\ FinishAttach(h)

StreamEnds(h) == At(h, "attached") /\ h \in attached[Con(h)] /\ FinishAttach(h)

---------------------------------------------------------------------------

Request(h) ==
    \E c \in Containers :
        \/ ContainerStart(h, c) \/ ContainerRestart(h, c) \/ ContainerStop(h, c)
        \/ ContainerKill(h, c) \/ ContainerDelete(h, c) \/ ContainerInfo(h, c)
        \/ ContainerWait(h, c) \/ ContainerAttach(h, c)

(* The steps a request takes by itself once it is accepted.                *)
Proceed(h) ==
    \/ DeleteServices(h) \/ DeleteConfigMaps(h) \/ DeletePods(h) \/ DropRecord(h)
    \/ WatchDeleteContainer(h) \/ WatchTimeout(h) \/ AwaitDeleted(h)
    \/ CreateConfigMap(h) \/ CreatePod(h) \/ CopyVolumes(h) \/ AwaitReady(h)
    \/ CreateService(h) \/ PublishPorts(h) \/ AbortStart(h)
    \/ WriteFlag(h) \/ SaveContainer(h) \/ UpdateContainerStatus(h)
    \/ Poll(h) \/ PollLimited(h) \/ CheckDone(h) \/ Hijack(h) \/ Detached(h)

HandlerStep(h) == Request(h) \/ Proceed(h) \/ ClientGone(h) \/ StreamEnds(h)

ClusterStep ==
    \E c \in Containers :
        \/ PodGone(c)
        \/ /\ \/ InitContainerRuns(c) \/ MainContainerRuns(c) \/ MainContainerExits(c)
              \/ PodFails(c) \/ Evict(c)
           /\ UNCHANGED handlerVars
============================================================================
