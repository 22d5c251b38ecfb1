------------------------------ MODULE Process ------------------------------
(***************************************************************************)
(* The life of the service process: start-up, the namespace lock, pruning, *)
(* serving, losing the lock, the exit handler and crashes, for several     *)
(* instances that share a namespace (internal/main.go,                     *)
(* internal/server/main.go, internal/reaper/main.go and the bulk deletes   *)
(* of internal/backend/delete.go).                                         *)
(*                                                                         *)
(* config.InstanceID is drawn at start, so an instance is one run of the   *)
(* process.  A client starts one container with one network alias per      *)
(* instance: a Pod labelled with the instance, and a Service whose name    *)
(* all instances compete for.                                              *)
(***************************************************************************)
EXTENDS Naturals, FiniteSets

CONSTANTS
    Instances,
    NoInstance,
    Lock,        \* lock.enabled
    Pruners,     \* instances configured with prune-start
    Reapers      \* instances configured with a positive reapmax

ASSUME ProcessAssumption ==
    /\ NoInstance \notin Instances
    /\ Lock \in BOOLEAN
    /\ Pruners \subseteq Instances
    /\ Reapers \subseteq Instances

VARIABLES
    main,      \* Instances -> where Main is, or how the process ended
    exit,      \* Instances -> where the exit handler is
    timer,     \* Instances -> where lockTimeoutHandler is
    lost,      \* instances that stopped leading: their context is cancelled
    listens,   \* instances whose listeners accept requests
    reaping,   \* instances whose reaper runs
    start,     \* Instances -> where a start request is
    lease,     \* holder of the Lease testtender-lock
    pods,      \* instances whose container has a Pod
    svc,       \* the instance whose container has the Service
    late,      \* history: objects created after the exit signal
    unclean    \* history: instances whose exit handler met an error

processVars == <<main, exit, timer, lost, listens, reaping, start>>
objectVars == <<pods, svc, late>>
vars == <<processVars, lease, objectVars, unclean>>

Ended == {"exited", "timedout", "crashed"}

Running(i) == main[i] \notin Ended \cup {"off"}

Objects == {"pod", "svc"} \X Instances

TypeOK ==
    /\ main \in [Instances -> Ended \cup {"off", "elect", "prune_svc", "prune_pod",
                                          "load", "serve", "parked"}]
    /\ exit \in [Instances -> {"none", "svc", "pod", "quit"}]
    /\ timer \in [Instances -> {"none", "armed", "ready", "fired"}]
    /\ lost \subseteq Instances
    /\ listens \subseteq {i \in Instances : Running(i)}
    /\ reaping \subseteq {i \in Instances : Running(i)}
    /\ start \in [Instances -> {"none", "svc"}]
    /\ lease \in Instances \cup {NoInstance}
    /\ pods \subseteq Instances
    /\ svc \in Instances \cup {NoInstance}
    /\ late \subseteq Objects
    /\ unclean \subseteq Instances

Init ==
    /\ main = [i \in Instances |-> "off"]
    /\ exit = [i \in Instances |-> "none"]
    /\ timer = [i \in Instances |-> "none"]
    /\ lost = {} /\ listens = {} /\ reaping = {}
    /\ start = [i \in Instances |-> "none"]
    /\ lease = NoInstance
    /\ pods = {} /\ svc = NoInstance /\ late = {}
    /\ unclean = {}

---------------------------------------------------------------------------

Goto(i, l) == main' = [main EXCEPT ![i] = l]

(* The process is gone, with all its goroutines.  The history is kept for  *)
(* a process that ended by its exit handler.                               *)
End(i, how) ==
    /\ Goto(i, how)
    /\ listens' = listens \ {i}
    /\ reaping' = reaping \ {i}
    /\ start' = [start EXCEPT ![i] = "none"]
    /\ exit' = [exit EXCEPT ![i] = "none"]
    /\ timer' = [timer EXCEPT ![i] = "none"]
    /\ lost' = lost \ {i}
    /\ late' = IF how = "exited" THEN late ELSE late \ ({"pod", "svc"} \X {i})
    /\ unclean' = IF how = "exited" THEN unclean ELSE unclean \ {i}
    /\ UNCHANGED <<lease, pods, svc>>

(* Deleting the Services of the instances in s; an error leaves them.      *)
DropServices(s, ok) ==
    /\ svc' = IF svc \in s /\ ok THEN NoInstance ELSE svc
    /\ late' = IF ok THEN late \ ({"svc"} \X s) ELSE late
    /\ UNCHANGED pods

DropPods(s, ok) ==
    /\ pods' = IF ok THEN pods \ s ELSE pods
    /\ late' = IF ok THEN late \ ({"pod"} \X s) ELSE late
    /\ UNCHANGED svc

---------------------------------------------------------------------------
(* Main and run.                                                           *)

(* run starts the reaper first.                                            *)
Run(i) ==
    /\ reaping' = reaping \cup {i}
    /\ Goto(i, IF i \in Pruners THEN "prune_svc" ELSE "load")

(* Variant: the lock flag is not looked at.                                *)
BootUnlocked(i) ==
    /\ main[i] = "off"
    /\ Run(i)
    /\ UNCHANGED <<exit, timer, lost, listens, start, lease, objectVars, unclean>>

(* Without a lock run starts at once; with one, the timeout starts.        *)
Boot(i) ==
    /\ main[i] = "off"
    /\ IF Lock
       THEN /\ Goto(i, "elect")
            /\ timer' = [timer EXCEPT ![i] = "armed"]
            /\ UNCHANGED reaping
       ELSE Run(i) /\ UNCHANGED timer
    /\ UNCHANGED <<exit, lost, listens, start, lease, objectVars, unclean>>

(* OnStartedLeading.  An instance that has been told to exit does not try  *)
(* for the lease any more.                                                 *)
Acquire(i) ==
    /\ main[i] = "elect"
    /\ lease = NoInstance
    /\ exit[i] = "none"
    /\ lease' = i
    /\ timer' = [timer EXCEPT ![i] = IF @ = "armed" THEN "ready" ELSE @]
    /\ Run(i)
    /\ UNCHANGED <<exit, lost, listens, start, objectVars, unclean>>

(* DeleteAll: everything that is labelled testtender.io/managed.           *)
PruneServices(i) ==
    /\ main[i] = "prune_svc"
    /\ \E ok \in BOOLEAN : DropServices(Instances, ok)
    /\ Goto(i, "prune_pod")
    /\ UNCHANGED <<exit, timer, lost, listens, reaping, start, lease, unclean>>

PrunePods(i) ==
    /\ main[i] = "prune_pod"
    /\ \E ok \in BOOLEAN : DropPods(Instances, ok)
    /\ Goto(i, "load")
    /\ UNCHANGED <<exit, timer, lost, listens, reaping, start, lease, unclean>>

(* Server.Run loads the policies and the verifier and opens the listeners. *)
(* An error is logged and the process stays.  When the context is done,    *)
(* Run returns and closes no listener.                                     *)
ServerRun(i) ==
    /\ main[i] = "load"
    /\ \/ Goto(i, "serve") /\ listens' = listens \cup {i}
       \/ Goto(i, "parked") /\ UNCHANGED listens
    /\ UNCHANGED <<exit, timer, lost, reaping, start, lease, objectVars, unclean>>

MainStep(i) ==
    Boot(i) \/ Acquire(i) \/ PruneServices(i) \/ PrunePods(i) \/ ServerRun(i)

---------------------------------------------------------------------------
(* lockTimeoutHandler.  When both channels are ready, select may take      *)
(* either.                                                                 *)

TimerReady(i) ==
    /\ timer[i] = "ready"
    /\ timer' = [timer EXCEPT ![i] = "none"]
    /\ UNCHANGED <<main, exit, lost, listens, reaping, start, lease, objectVars, unclean>>

TimerFires(i) ==
    /\ timer[i] \in {"armed", "ready"}
    /\ timer' = [timer EXCEPT ![i] = "fired"]
    /\ UNCHANGED <<main, exit, lost, listens, reaping, start, lease, objectVars, unclean>>

(* Variant: an error is logged and nothing else.                           *)
TimeoutExitStays(i) ==
    /\ timer[i] = "fired"
    /\ timer' = [timer EXCEPT ![i] = "none"]
    /\ UNCHANGED <<main, exit, lost, listens, reaping, start, lease, objectVars, unclean>>

TimeoutExit(i) == timer[i] = "fired" /\ End(i, "timedout")

TimerStep(i) == TimerReady(i) \/ TimerFires(i) \/ TimeoutExit(i)

---------------------------------------------------------------------------
(* The lease (client-go leader election).                                  *)

(* RenewDeadline passes without a renewal: OnStoppedLeading only logs.     *)
LoseLease(i) ==
    /\ lease = i
    /\ Running(i)
    /\ lease' = NoInstance
    /\ lost' = lost \cup {i}
    /\ UNCHANGED <<main, exit, timer, listens, reaping, start, objectVars, unclean>>

(* ReleaseOnCancel, while the exit handler still deletes; or the lease of  *)
(* a dead holder expires.                                                  *)
ReleaseLease(i) ==
    /\ lease = i
    /\ exit[i] # "none" \/ ~Running(i)
    /\ lease' = NoInstance
    /\ UNCHANGED <<processVars, objectVars, unclean>>

---------------------------------------------------------------------------
(* exitHandler.                                                            *)

ExitSignal(i) ==
    /\ Running(i)
    /\ exit[i] = "none"
    /\ exit' = [exit EXCEPT ![i] = "svc"]
    /\ UNCHANGED <<main, timer, lost, listens, reaping, start, lease, objectVars, unclean>>

Spoil(i, ok) == unclean' = IF ok THEN unclean ELSE unclean \cup {i}

ExitServices(i) ==
    /\ exit[i] = "svc"
    /\ \E ok \in BOOLEAN : DropServices({i}, ok) /\ Spoil(i, ok)
    /\ exit' = [exit EXCEPT ![i] = "pod"]
    /\ UNCHANGED <<main, timer, lost, listens, reaping, start, lease>>

(* Variant: the exit handler returns after the Services.                   *)
ExitPodsSkipped(i) ==
    /\ exit[i] = "pod"
    /\ exit' = [exit EXCEPT ![i] = "quit"]
    /\ UNCHANGED <<main, timer, lost, listens, reaping, start, lease, objectVars, unclean>>

ExitPods(i) ==
    /\ exit[i] = "pod"
    /\ \E ok \in BOOLEAN : DropPods({i}, ok) /\ Spoil(i, ok)
    /\ exit' = [exit EXCEPT ![i] = "quit"]
    /\ UNCHANGED <<main, timer, lost, listens, reaping, start, lease>>

Quit(i) == exit[i] = "quit" /\ End(i, "exited")

ExitStep(i) == ExitServices(i) \/ ExitPods(i) \/ Quit(i)

(* SIGKILL, an eviction, a panic outside a request.                        *)
Crash(i) == Running(i) /\ End(i, "crashed")

---------------------------------------------------------------------------
(* Requests.  The listeners of an instance serve until its process ends,   *)
(* whatever happened to its lease.                                         *)

Mark(i, o) == late' = IF exit[i] # "none" THEN late \cup {o} ELSE late \ {o}

StartPod(i) ==
    /\ i \in listens
    /\ start[i] = "none"
    /\ i \notin pods
    /\ pods' = pods \cup {i}
    /\ start' = [start EXCEPT ![i] = "svc"]
    /\ Mark(i, <<"pod", i>>)
    /\ UNCHANGED <<main, exit, timer, lost, listens, reaping, lease, svc, unclean>>

(* A Service name that is taken is an error; the Pod stays.                *)
StartService(i) ==
    /\ start[i] = "svc"
    /\ start' = [start EXCEPT ![i] = "none"]
    /\ IF svc = NoInstance THEN svc' = i /\ Mark(i, <<"svc", i>>) ELSE UNCHANGED <<svc, late>>
    /\ UNCHANGED <<main, exit, timer, lost, listens, reaping, lease, pods, unclean>>

(* The client removes its container.                                       *)
DeleteContainer(i) ==
    /\ i \in listens
    /\ start[i] = "none"
    /\ i \in pods
    /\ pods' = pods \ {i}
    /\ svc' = IF svc = i THEN NoInstance ELSE svc
    /\ late' = late \ {<<"pod", i>>, <<"svc", i>>}
    /\ UNCHANGED <<processVars, lease, unclean>>

---------------------------------------------------------------------------
(* The reaper of an instance sweeps an object that is older than keepMax   *)
(* and 15 minutes, whoever made it.  Time is not modelled: an object is    *)
(* old at any moment after its creation.                                   *)

Owns(i, o) == o[2] = i /\ (IF o[1] = "pod" THEN i \in pods ELSE svc = i)

(* Variant: it looks for its own instance id.                              *)
ManagedOwn(i, o) == Owns(i, o)

(* The label testtender.io/managed is on the objects of every instance.    *)
Managed(i, o) == Owns(o[2], o)

Sweep(i, o) ==
    /\ i \in reaping \cap Reapers
    /\ Managed(i, o)
    /\ pods' = IF o[1] = "pod" THEN pods \ {o[2]} ELSE pods
    /\ svc' = IF o[1] = "svc" THEN NoInstance ELSE svc
    /\ late' = late \ {o}
    /\ UNCHANGED <<processVars, lease, unclean>>

---------------------------------------------------------------------------

Next ==
    \/ \E i \in Instances :
         \/ MainStep(i) \/ TimerStep(i) \/ ExitStep(i) \/ Crash(i) \/ ExitSignal(i)
         \/ LoseLease(i) \/ ReleaseLease(i)
         \/ StartPod(i) \/ StartService(i) \/ DeleteContainer(i)
         \/ \E o \in Objects : Sweep(i, o)

Spec == Init /\ [][Next]_vars

(***************************************************************************)
(* What happens without anyone asking for it: instances are started, the   *)
(* goroutines of a live process run, the lease of a dead holder expires,   *)
(* objects grow old.  Nobody has to signal, to crash or to send a request. *)
(* These steps take an instance forward or an object away, so without new  *)
(* requests they come to rest.                                             *)
(***************************************************************************)
Progress(i) ==
    \/ MainStep(i) \/ TimerStep(i) \/ ExitStep(i) \/ ReleaseLease(i) \/ StartService(i)
    \/ \E o \in Objects : Sweep(i, o)

AtRest == \A i \in Instances : ~ENABLED Progress(i)

(* The same, spelled out: no guard of these steps holds.                   *)
Idle ==
    \A i \in Instances :
        /\ main[i] \notin {"off", "prune_svc", "prune_pod", "load"}
        /\ main[i] = "elect" => lease # NoInstance \/ exit[i] # "none"
        /\ timer[i] = "none" /\ exit[i] = "none" /\ start[i] = "none"
        /\ lease = i => Running(i)
        /\ i \in reaping \cap Reapers => \A o \in Objects : ~Managed(i, o)

---------------------------------------------------------------------------
(* Properties.                                                             *)

(***************************************************************************)
(* The exit handler removes what the instance made: after os.Exit there is *)
(* nothing left but what requests created while it was deleting (the       *)
(* listeners are not closed), provided its calls succeed.                  *)
(***************************************************************************)
OnlyLateSurvive ==
    \A i \in Instances : main[i] = "exited" /\ i \notin unclean =>
        \A o \in Objects : Owns(i, o) => o \in late

(***************************************************************************)
(* What a process leaves behind, because it crashed, timed out or exited   *)
(* in the middle of a request, is swept as long as any other instance      *)
(* with a reapmax runs, even one that failed to open its listeners or lost *)
(* its lease: the reaper is started first, is never stopped, and finds     *)
(* objects by the managed label, not by its own instance id.               *)
(***************************************************************************)
OrphansAreSwept ==
    Idle /\ (\E j \in Reapers : Running(j)) =>
        \A i \in Instances : main[i] \in Ended => i \notin pods /\ svc # i

(***************************************************************************)
(* With the lock two instances accept requests at once only when one of    *)
(* them has lost its lease or is exiting.                                  *)
(***************************************************************************)
OneActiveInstance ==
    Lock => \A i, j \in listens :
              i # j => \E k \in {i, j} : k \in lost \/ exit[k] # "none"

(***************************************************************************)
(* Nobody waits for the namespace lock for ever: an instance gets it, or   *)
(* lockTimeoutHandler ends the process.  (Where no step can be taken, no   *)
(* guard holds; OrphansAreSwept speaks of those states.)                   *)
(***************************************************************************)
ElectionEnds == AtRest => Idle /\ \A i \in Instances : main[i] # "elect"
============================================================================
