------------------------------- MODULE System ------------------------------
(***************************************************************************)
(* The container endpoints together with the reaper (internal/reaper),     *)
(* which every minute removes the records older than keepMax and then      *)
(* sweeps the namespace for objects older than keepMax + 15 minutes.       *)
(***************************************************************************)
EXTENDS Lifecycle

CONSTANT Reaping   \* keepMax > 0

ASSUME SystemAssumption == Reaping \in BOOLEAN

VARIABLES
    aged,   \* containers created more than keepMax ago
    rpc,    \* where the reaper is
    rcur,   \* the container CleanContainers works on
    rlist,  \* what is left of the list the reaper fetched
    sweep   \* which part of DeleteOlderThan runs

reaperVars == <<rpc, rcur, rlist, sweep>>

vars == <<clusterVars, handlerVars, aged, reaperVars>>

(* Variant: Services are left out.                                         *)
SweepOrderNoServices == << {"pod"}, ConfigMapKinds, {"pod"}, {"pod"} >>

(* The order in which DeleteOlderThan visits the kinds of objects.         *)
SweepOrder == << {"pod"}, ConfigMapKinds, {"pod"}, {"svc"} >>

Records == {"rec"} \X Containers

ReaperTypeOK ==
    /\ aged \subseteq made
    /\ rpc \in {"sleep", "records", "del_svc", "del_cm", "del_pod", "drop", "list", "sweep"}
    /\ rcur \in made \cup {NoContainer}
    /\ rlist \subseteq (Records \cup Objects)
    /\ sweep \in 1 .. 4

TypeOK == ClusterTypeOK /\ LifecycleTypeOK /\ ReaperTypeOK

ReaperInit ==
    /\ aged = {}
    /\ rpc = "sleep"
    /\ rcur = NoContainer
    /\ rlist = {}
    /\ sweep = 1

Init == ClusterInit /\ LifecycleInit /\ ReaperInit

---------------------------------------------------------------------------

Reap(next, cur, list, part) ==
    /\ rpc' = next
    /\ rcur' = cur
    /\ rlist' = list
    /\ sweep' = part

(* The timer fires and CleanContainers lists the records.                  *)
Wake ==
    /\ Reaping
    /\ rpc = "sleep"
    /\ Reap("records", NoContainer, {<<"rec", c>> : c \in db}, 1)
    /\ UNCHANGED <<clusterVars, handlerVars, aged>>

(* Variant: the age of a record is not looked at.                          *)
CleanContainersAnyAge ==
    /\ rpc = "records"
    /\ \/ /\ rlist = {}
          /\ Reap("list", NoContainer, {}, 1)
       \/ \E r \in rlist : Reap("del_svc", r[2], rlist \ {r}, 1)
    /\ UNCHANGED <<clusterVars, handlerVars, aged>>

(* CleanContainers: next record of the list; young ones are skipped.       *)
CleanContainers ==
    /\ rpc = "records"
    /\ \/ /\ rlist = {}
          /\ Reap("list", NoContainer, {}, 1)
       \/ \E r \in rlist :
            IF r[2] \in aged THEN Reap("del_svc", r[2], rlist \ {r}, 1)
                             ELSE Reap("records", NoContainer, rlist \ {r}, 1)
    /\ UNCHANGED <<clusterVars, handlerVars, aged>>

(* Backend.DeleteContainer; its errors are only logged.                    *)
ReapServices ==
    /\ rpc = "del_svc"
    /\ \E ok \in BOOLEAN : deleteServices(rcur, ok) /\ Break(rcur, ok)
    /\ Reap("del_cm", rcur, rlist, 1)
    /\ UNCHANGED <<rec, made, db, attached, tunnels, req, aged>>

ReapConfigMaps ==
    /\ rpc = "del_cm"
    /\ \E ok \in BOOLEAN : deleteConfigMaps(rcur, ok) /\ Break(rcur, ok)
    /\ Reap("del_pod", rcur, rlist, 1)
    /\ UNCHANGED <<rec, made, db, attached, tunnels, req, aged>>

ReapPods ==
    /\ rpc = "del_pod"
    /\ \E ok \in BOOLEAN : deletePods(rcur, ok) /\ Break(rcur, ok)
    /\ Reap("drop", rcur, rlist, 1)
    /\ UNCHANGED <<rec, made, db, attached, tunnels, req, aged>>

(* The record goes; if it is gone already CleanContainers gives up.        *)
ReapRecord ==
    /\ rpc = "drop"
    /\ db' = db \ {rcur}
    /\ IF rcur \in db THEN Reap("records", NoContainer, rlist, 1)
                      ELSE Reap("list", NoContainer, {}, 1)
    /\ UNCHANGED <<clusterVars, rec, made, attached, tunnels, req, broken, aged>>

(* DeleteOlderThan lists the old objects of a kind that are not being      *)
(* deleted.  A failing list ends the sweep.                                *)
SweepList ==
    /\ rpc = "list"
    /\ \E ok \in BOOLEAN :
         /\ Call(ok)
         /\ IF ok
            THEN Reap("sweep", NoContainer,
                      {o \in old : /\ o[1] \in SweepOrder[sweep]
                                   /\ o[1] = "pod" => o[2] \notin terminating}, sweep)
            ELSE Reap("sleep", NoContainer, {}, 1)
    /\ UNCHANGED <<pod, terminating, cm, svc, old, handlerVars, aged>>

(* Removing one listed object, by name.                                    *)
RemoveObject(o) ==
    /\ IF o[1] = "pod" THEN DeletePod(o[2]) ELSE UNCHANGED terminating
    /\ cm' = IF o[1] \in ConfigMapKinds THEN [cm EXCEPT ![o[2]] = @ \ {o[1]}] ELSE cm
    /\ svc' = IF o[1] = "svc" THEN [svc EXCEPT ![o[2]] = NoContainer] ELSE svc
    /\ old' = IF o[1] = "pod" THEN old ELSE old \ {o}
    /\ UNCHANGED pod

(* An object that is gone, or a failing call, ends the sweep.              *)
SweepDelete ==
    /\ rpc = "sweep"
    /\ \E o \in rlist, ok \in BOOLEAN :
         /\ Call(ok)
         /\ IF ok /\ Exists(o) THEN Reap("sweep", NoContainer, rlist \ {o}, sweep)
                               ELSE Reap("sleep", NoContainer, {}, 1)
         /\ IF Exists(o) THEN RemoveObject(o) \/ (~ok /\ UNCHANGED <<pod, terminating, cm, svc, old>>)
                         ELSE UNCHANGED <<pod, terminating, cm, svc, old>>
    /\ UNCHANGED <<handlerVars, aged>>

SweepNext ==
    /\ rpc = "sweep"
    /\ rlist = {}
    /\ IF sweep < 4 THEN Reap("list", NoContainer, {}, sweep + 1)
                    ELSE Reap("sleep", NoContainer, {}, 1)
    /\ UNCHANGED <<clusterVars, handlerVars, aged>>

ReaperStep ==
    \/ Wake \/ CleanContainers \/ ReapServices \/ ReapConfigMaps \/ ReapPods
    \/ ReapRecord \/ SweepList \/ SweepDelete \/ SweepNext

---------------------------------------------------------------------------
(* Time.  Objects of a container are younger than its record.              *)

AgeRecord(c) ==
    /\ Reaping
    /\ c \in made
    /\ c \notin aged
    /\ aged' = aged \cup {c}
    /\ UNCHANGED <<clusterVars, handlerVars, reaperVars>>

Owner(o) == IF o[1] = "svc" THEN svc[o[2]] ELSE o[2]

AgeObject(o) ==
    /\ Owner(o) \in aged
    /\ Age(o)
    /\ UNCHANGED <<handlerVars, aged, reaperVars>>

---------------------------------------------------------------------------

CreateStep == \E c \in Containers : ContainerCreate(c) /\ UNCHANGED <<aged, reaperVars>>

ApiStep(h) == HandlerStep(h) /\ UNCHANGED <<aged, reaperVars>>

KubernetesStep == ClusterStep /\ UNCHANGED <<aged, reaperVars>>

TimeStep == (\E c \in Containers : AgeRecord(c)) \/ (\E o \in Objects : AgeObject(o))

Next ==
    \/ CreateStep
    \/ \E h \in Handlers : ApiStep(h)
    \/ KubernetesStep
    \/ ReaperStep
    \/ TimeStep

Spec == Init /\ [][Next]_vars

(***************************************************************************)
(* Requests take their own steps and the grace period of a deleted Pod     *)
(* ends.  Clients need not ask for anything and need not leave; Pods need  *)
(* not make progress.                                                      *)
(***************************************************************************)
RequestFairness ==
    /\ \A h \in Handlers : WF_vars(Proceed(h) /\ UNCHANGED <<aged, reaperVars>>)
    /\ \A c \in Containers : WF_vars(PodGone(c) /\ UNCHANGED <<aged, reaperVars>>)

(* The reaper's loop runs and time passes.                                 *)
ReaperFairness ==
    /\ WF_vars(ReaperStep)
    /\ \A c \in Containers : WF_vars(AgeRecord(c))
    /\ \A o \in Objects : WF_vars(AgeObject(o))

RequestSpec == Spec /\ RequestFairness

FairSpec == RequestSpec /\ ReaperFairness
---------------------------------------------------------------------------
(* Properties.                                                             *)

(* No request for c is being served, and the reaper is not removing it.    *)
Quiet(c) == rcur # c /\ \A h \in Handlers : Con(h) # c

(* Something of c is left in the cluster that nobody asked to delete.      *)
Leftover(c) == LivePod(c) \/ cm[c] # {} \/ ServicesOf(c) # {}

(***************************************************************************)
(* The flags of a record at rest agree: a running container is neither     *)
(* stopped nor killed (StartContainer, ContainerStop, ContainerKill,       *)
(* ContainerRestart and UpdateContainerStatus each assign only some of     *)
(* them, one by one), unless a backend call failed or two changing         *)
(* requests overlapped.                                                    *)
(***************************************************************************)
FlagsAgree ==
    \A c \in db : Quiet(c) /\ rec[c].Running /\ c \notin broken => ~Down(c)

(***************************************************************************)
(* A stopped or killed container leaves nothing running: its Pod is        *)
(* deleted, and its ConfigMaps, Services, forwards and proxies are gone.   *)
(* Stop, kill and delete rely on this when they skip                       *)
(* Backend.DeleteContainer for a record that is down.  It holds unless a   *)
(* backend call failed or two changing requests overlapped, and for as     *)
(* long as the container is too young for the reaper.                      *)
(***************************************************************************)
StoppedMeansDown ==
    \A c \in db : Quiet(c) /\ Down(c) /\ c \notin broken \cup aged
                     => ~Leftover(c) /\ c \notin tunnels

(***************************************************************************)
(* A deleted container left nothing in the cluster (ContainerDelete), with *)
(* the same exceptions.                                                    *)
(***************************************************************************)
RemovedMeansGone ==
    \A c \in made \ db : Quiet(c) /\ c \notin broken \cup aged => ~Leftover(c)

(***************************************************************************)
(* A container is gone when its record is deleted and no request that had  *)
(* fetched it is left.  Then it stays gone: no request can bring the       *)
(* record back, or create a Pod, ConfigMap or Service for it.  Before that *)
(* point SaveContainer may resurrect the record.                           *)
(***************************************************************************)
Gone(c) == c \in made /\ c \notin db /\ \A h \in Handlers : Con(h) # c

GoneForGood(c) ==
    Gone(c) => /\ Gone(c)'
               /\ pod[c] = "none" => pod'[c] = "none"
               /\ cm'[c] \subseteq cm[c]
               /\ ServicesOf(c)' \subseteq ServicesOf(c)

GoneStaysGone == [][\A c \in Containers : GoneForGood(c)]_vars

(* The state of the abstract container.                                    *)
Life == [c \in Containers |->
           IF c \notin made THEN "new" ELSE IF Gone(c) THEN "gone" ELSE "live"]

Owned == [c \in Containers |-> {o \in Objects : Exists(o) /\ Owner(o) = c}]

Abstract == INSTANCE Container WITH life <- Life, owned <- Owned

(***************************************************************************)
(* The service implements the abstract container: made once, gone for      *)
(* good, and every request, reaper pass and cluster event concerns the     *)
(* objects of one container only.                                          *)
(***************************************************************************)
ImplementsContainer == Abstract!ContainerSpec

(***************************************************************************)
(* The reaper touches nothing of a young container.  The sweep deletes the *)
(* objects it listed by name, so it may meet a Pod or a ConfigMap that was *)
(* deleted and created again since; then its container is old anyway.      *)
(***************************************************************************)
YoungUntouched ==
    [][reaperVars' # reaperVars =>
         \A c \in Containers \ aged :
             /\ c \in db' <=> c \in db
             /\ c \in terminating' <=> c \in terminating
             /\ pod'[c] = pod[c] /\ cm'[c] = cm[c]]_vars

(***************************************************************************)
(* What a gone container left behind is swept: if deleting it somehow      *)
(* failed, CleanContainersKubernetes picks it up.                          *)
(***************************************************************************)
LeftoversAreSwept ==
    \A c \in Containers :
        Gone(c) ~> pod[c] = "none" /\ cm[c] = {} /\ ServicesOf(c) = {}

(***************************************************************************)
(* Requests return.  Waiting for a container and an attach session last as *)
(* long as the container does; a restart whose watch failed waits on a nil *)
(* channel and is the one request that may hang.                           *)
(***************************************************************************)
RequestsReturn ==
    \A h \in Handlers :
        (req[h].op \in {"start", "restart", "stop", "kill", "delete", "inspect"})
          ~> (At(h, "idle") \/ (At(h, "deleted") /\ req[h].watch = "nil"))

(***************************************************************************)
(* ContainerWait does not miss the end of a container: nobody waits        *)
(* forever for a container whose Pod has completed.                        *)
(***************************************************************************)
WaitSeesCompletion ==
    \A h \in Handlers, c \in Containers :
        ~<>[](req[h].op = "wait" /\ Con(h) = c /\ pod[c] = "completed")
============================================================================
