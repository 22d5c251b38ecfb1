------------------------------ MODULE Cluster ------------------------------
(***************************************************************************)
(* The Kubernetes namespace TestTender works in, as internal/backend uses  *)
(* it.  Kubernetes itself is external: only the parts the backend can tell *)
(* apart are kept.  A container has at most one Pod (Pod names are unique), *)
(* the ConfigMaps <short id>-vf and <short id>-pf, and one Service per     *)
(* hostname or network alias.  Service names belong to the namespace, so   *)
(* two containers can want the same one.                                   *)
(***************************************************************************)
EXTENDS Naturals, Sequences, FiniteSets

CONSTANTS
    Containers,    \* ids of the containers that may be created
    NoContainer,   \* stands for "no container"
    Names,         \* Service names
    Aliases,       \* Containers -> the Service names it asks for
    Files,         \* Containers -> the ConfigMaps it needs ("vf", "pf")
    Setup,         \* containers with volumes or pre-archives (init container)
    MaxFaults      \* bound on failing API calls and evictions

ConfigMapKinds == {"vf", "pf"}

ASSUME ClusterAssumption ==
    /\ NoContainer \notin Containers
    /\ Aliases \in [Containers -> SUBSET Names]
    /\ Files \in [Containers -> SUBSET ConfigMapKinds]
    /\ Setup \subseteq Containers
    /\ \A c \in Containers : Files[c] # {} => c \in Setup
    /\ MaxFaults \in Nat

VARIABLES
    pod,          \* Containers -> phase of its Pod
    terminating,  \* containers whose Pod has a deletion timestamp
    cm,           \* Containers -> its existing ConfigMaps
    svc,          \* Names -> container the Service selects, if it exists
    old,          \* objects older than the sweep age (keepMax + 15 minutes)
    faults        \* failing API calls and evictions so far

clusterVars == <<pod, terminating, cm, svc, old, faults>>

(***************************************************************************)
(* "scheduled": the init container does not run yet; "setup": it runs and  *)
(* waits for /tmp/done; "pending": the main container has not started;     *)
(* "completed": the main container terminated, whatever its exit code;     *)
(* "failed": the Pod failed, or its image cannot be pulled.                *)
(***************************************************************************)
Phases == {"none", "scheduled", "setup", "pending", "running", "completed", "failed"}

PodObject(c) == <<"pod", c>>
ConfigMapObject(k, c) == <<k, c>>
ServiceObject(n) == <<"svc", n>>

Objects == ({"pod"} \X Containers) \cup (ConfigMapKinds \X Containers)
             \cup ({"svc"} \X Names)

ServicesOf(c) == {n \in Names : svc[n] = c}

Exists(o) ==
    CASE o[1] = "pod" -> pod[o[2]] # "none"
      [] o[1] = "svc" -> svc[o[2]] # NoContainer
      [] OTHER        -> o[1] \in cm[o[2]]

LivePod(c) == pod[c] # "none" /\ c \notin terminating

ClusterTypeOK ==
    /\ pod \in [Containers -> Phases]
    /\ terminating \subseteq Containers
    /\ cm \in [Containers -> SUBSET ConfigMapKinds]
    /\ svc \in [Names -> Containers \cup {NoContainer}]
    /\ old \subseteq Objects
    /\ faults \in 0 .. MaxFaults

ClusterInit ==
    /\ pod = [c \in Containers |-> "none"]
    /\ terminating = {}
    /\ cm = [c \in Containers |-> {}]
    /\ svc = [n \in Names |-> NoContainer]
    /\ old = {}
    /\ faults = 0

---------------------------------------------------------------------------
(* API calls.  A call is answered (ok) or fails; one that failed may still *)
(* have taken effect (a lost answer).                                      *)

Call(ok) ==
    IF ok THEN faults' = faults
          ELSE faults < MaxFaults /\ faults' = faults + 1

(* deleteServices: list by label, delete one by one, stop at an error.     *)
deleteServices(c, ok) ==
    /\ Call(ok)
    /\ \E gone \in SUBSET ServicesOf(c) :
         /\ ok => gone = ServicesOf(c)
         /\ svc' = [n \in Names |-> IF n \in gone THEN NoContainer ELSE svc[n]]
         /\ old' = old \ {ServiceObject(n) : n \in gone}
    /\ UNCHANGED <<pod, terminating, cm>>

deleteConfigMaps(c, ok) ==
    /\ Call(ok)
    /\ \E gone \in SUBSET cm[c] :
         /\ ok => gone = cm[c]
         /\ cm' = [cm EXCEPT ![c] = @ \ gone]
         /\ old' = old \ {ConfigMapObject(k, c) : k \in gone}
    /\ UNCHANGED <<pod, terminating, svc>>

(* A deleted Pod keeps its name until its grace period is over.            *)
DeletePod(c) ==
    terminating' = IF pod[c] = "none" THEN terminating ELSE terminating \cup {c}

(* Variant: the label selector matches no Pod.                             *)
deletePodsNoMatch(c, ok) ==
    /\ Call(ok)
    /\ UNCHANGED <<pod, terminating, cm, svc, old>>

deletePods(c, ok) ==
    /\ Call(ok)
    /\ DeletePod(c) \/ (~ok /\ UNCHANGED terminating)
    /\ UNCHANGED <<pod, cm, svc, old>>

---------------------------------------------------------------------------
(* What the cluster does by itself.                                        *)

PodStep(c, from, to) ==
    /\ pod[c] \in from
    /\ pod' = [pod EXCEPT ![c] = to]
    /\ UNCHANGED <<terminating, cm, svc, old, faults>>

InitContainerRuns(c) == c \notin terminating /\ PodStep(c, {"scheduled"}, "setup")
MainContainerRuns(c) == c \notin terminating /\ PodStep(c, {"pending"}, "running")
MainContainerExits(c) == PodStep(c, {"running"}, "completed")
PodFails(c) == PodStep(c, {"scheduled", "setup", "pending", "running"}, "failed")

(* The grace period of a deleted Pod ends and its name becomes free.       *)
Vanish(c) ==
    /\ c \in terminating
    /\ pod' = [pod EXCEPT ![c] = "none"]
    /\ terminating' = terminating \ {c}
    /\ old' = old \ {PodObject(c)}
    /\ UNCHANGED <<cm, svc, faults>>

(* Somebody else deletes the Pod: a drained node, preemption, kubectl.     *)
Evict(c) ==
    /\ LivePod(c)
    /\ Call(FALSE)
    /\ DeletePod(c)
    /\ UNCHANGED <<pod, cm, svc, old>>

Age(o) ==
    /\ Exists(o)
    /\ o \notin old
    /\ old' = old \cup {o}
    /\ UNCHANGED <<pod, terminating, cm, svc, faults>>
============================================================================
