--------------------------- MODULE ProcessProofs ---------------------------
(***************************************************************************)
(* Safety of the life of the service process, for any number of instances, *)
(* and of the execs that such a process runs, for any number of execs and  *)
(* starts.                                                                 *)
(***************************************************************************)
EXTENDS Process, TLAPS

(* run has begun.                                                          *)
Begun == {"prune_svc", "prune_pod", "load", "serve", "parked"}

(* An instance that has begun holds the lease, or is on its way out.       *)
Leads(i) == lease = i \/ i \in lost \/ exit[i] # "none"

(* What the exit handler has passed over is gone or late.                  *)
ServiceGone(i) == svc = i => <<"svc", i>> \in late
PodGone(i) == i \in pods => <<"pod", i>> \in late

(* The inductive invariant.  A request is served by a live process only,   *)
(* and the exit handler works in a live process; so nothing is created     *)
(* once the process is gone.  Whoever waits for the lease has a timeout,   *)
(* and whoever has begun has a reaper.                                     *)
IInv ==
    /\ TypeOK
    /\ Lock => \A i \in Instances : main[i] \in Begun => Leads(i)
    /\ \A i \in listens : main[i] = "serve"
    /\ \A i \in Instances : start[i] # "none" => i \in listens
    /\ \A i \in Instances : exit[i] # "none" => Running(i)
    /\ \A i \in Instances : main[i] = "elect" => timer[i] \in {"armed", "fired"}
    /\ \A i \in Instances : main[i] \in Begun => i \in reaping
    /\ \A i \in Instances \ unclean :
         exit[i] \in {"pod", "quit"} \/ main[i] = "exited" => ServiceGone(i)
    /\ \A i \in Instances \ unclean :
         exit[i] = "quit" \/ main[i] = "exited" => PodGone(i)

---------------------------------------------------------------------------

(***************************************************************************)
(* Nothing runs and nothing exists before the first process is started.    *)
(***************************************************************************)
LEMMA InitIInv == Init => IInv
  BY ProcessAssumption DEF Init, IInv, TypeOK, Begun, Leads, ServiceGone, PodGone, Running, Ended, Objects

(***************************************************************************)
(* Main, run and Server.Run keep the invariant: only the holder of the     *)
(* lease goes on from the election, and pruning only removes.              *)
(***************************************************************************)
LEMMA MainKeepsIInv == ASSUME IInv, NEW i \in Instances, MainStep(i) PROVE IInv'
  <1> USE ProcessAssumption DEF IInv, TypeOK, Begun, Leads, ServiceGone, PodGone, Running, Ended,
          Objects, Goto, Run, DropServices, DropPods, processVars, objectVars
  <1>1. CASE Boot(i)
    BY <1>1 DEF Boot
  <1>2. CASE Acquire(i)
    BY <1>2 DEF Acquire
  <1>3. CASE PruneServices(i)
    BY <1>3 DEF PruneServices
  <1>4. CASE PrunePods(i)
    BY <1>4 DEF PrunePods
  <1>5. CASE ServerRun(i)
    BY <1>5 DEF ServerRun
  <1> QED BY <1>1, <1>2, <1>3, <1>4, <1>5, Zenon DEF MainStep

(***************************************************************************)
(* The end of a process keeps the invariant: its requests end with it, and *)
(* os.Exit in the exit handler comes after both deletions.                 *)
(***************************************************************************)
LEMMA EndKeepsIInv ==
    ASSUME IInv, NEW i \in Instances, NEW how \in Ended, End(i, how),
           how = "exited" => exit[i] = "quit"
    PROVE  IInv'
  BY ProcessAssumption DEF IInv, TypeOK, Begun, Leads, ServiceGone, PodGone, Running, Ended,
          Objects, Goto, End

(***************************************************************************)
(* The lock timeout keeps the invariant.                                   *)
(***************************************************************************)
LEMMA TimerKeepsIInv == ASSUME IInv, NEW i \in Instances, TimerStep(i) PROVE IInv'
  <1>1. CASE TimerReady(i) \/ TimerFires(i)
    BY <1>1, ProcessAssumption DEF TimerReady, TimerFires, IInv, TypeOK, Begun, Leads, ServiceGone,
          PodGone, Running, Ended, Objects, objectVars
  <1>2. CASE TimeoutExit(i)
    BY <1>2, EndKeepsIInv DEF TimeoutExit, Ended
  <1> QED BY <1>1, <1>2 DEF TimerStep

(***************************************************************************)
(* The exit handler and the lease keep the invariant: Services and Pods    *)
(* that were there when the signal came are gone one after the other.      *)
(***************************************************************************)
LEMMA ExitKeepsIInv ==
    ASSUME IInv, NEW i \in Instances,
           ExitSignal(i) \/ ExitStep(i) \/ Crash(i) \/ LoseLease(i) \/ ReleaseLease(i)
    PROVE  IInv'
  <1> USE ProcessAssumption DEF IInv, TypeOK, Begun, Leads, ServiceGone, PodGone, Running, Ended,
          Objects, DropServices, DropPods, Spoil, processVars, objectVars
  <1>1. CASE ExitSignal(i)
    BY <1>1 DEF ExitSignal
  <1>2. CASE ExitServices(i)
    BY <1>2 DEF ExitServices
  <1>3. CASE ExitPods(i)
    BY <1>3 DEF ExitPods
  <1>4. CASE Quit(i)
    BY <1>4, EndKeepsIInv DEF Quit
  <1>5. CASE Crash(i)
    BY <1>5, EndKeepsIInv DEF Crash
  <1>6. CASE LoseLease(i)
    BY <1>6 DEF LoseLease
  <1>7. CASE ReleaseLease(i)
    BY <1>7 DEF ReleaseLease
  <1> QED BY <1>1, <1>2, <1>3, <1>4, <1>5, <1>6, <1>7, Zenon DEF ExitStep

(***************************************************************************)
(* Requests and the reaper keep the invariant: what a request makes while  *)
(* the exit handler is at work is late.                                    *)
(***************************************************************************)
LEMMA RequestsKeepIInv ==
    ASSUME IInv, NEW i \in Instances,
           \/ StartPod(i) \/ StartService(i) \/ DeleteContainer(i)
           \/ \E o \in Objects : Sweep(i, o)
    PROVE  IInv'
  <1> USE ProcessAssumption DEF IInv, TypeOK, Begun, Leads, ServiceGone, PodGone, Running, Ended,
          Objects, Mark, processVars, objectVars
  <1>1. CASE StartPod(i)
    BY <1>1 DEF StartPod
  <1>2. CASE StartService(i)
    BY <1>2 DEF StartService
  <1>3. CASE DeleteContainer(i)
    BY <1>3 DEF DeleteContainer
  <1>4. ASSUME NEW o \in Objects, Sweep(i, o) PROVE IInv'
    BY <1>4 DEF Sweep, Managed, Owns
  <1> QED BY <1>1, <1>2, <1>3, <1>4, Zenon

(***************************************************************************)
(* The invariant holds in every state of every behaviour.                  *)
(***************************************************************************)
LEMMA Invariance == Spec => []IInv
  <1>1. IInv /\ [Next]_vars => IInv'
    <2> SUFFICES ASSUME IInv, [Next]_vars PROVE IInv'
      OBVIOUS
    <2>1. CASE UNCHANGED vars
      BY <2>1 DEF vars, processVars, objectVars, IInv, TypeOK, Begun, Leads, ServiceGone, PodGone,
            Running, Ended, Objects
    <2>2. CASE Next
      BY <2>2, MainKeepsIInv, TimerKeepsIInv, ExitKeepsIInv, RequestsKeepIInv DEF Next
    <2> QED BY <2>1, <2>2
  <1> QED BY InitIInv, <1>1, PTL DEF Spec

(***************************************************************************)
(* With lock.enabled, of any number of instances in a namespace two accept *)
(* requests at once only when one of them lost its lease or is exiting.    *)
(***************************************************************************)
THEOREM OneActive == Spec => []OneActiveInstance
  <1>1. IInv => OneActiveInstance
    BY DEF IInv, TypeOK, OneActiveInstance, Begun, Leads
  <1> QED BY Invariance, <1>1, PTL

(***************************************************************************)
(* Whatever is left of an instance after its exit handler has run without  *)
(* an error was created while the handler was at work, however many        *)
(* instances start, exit, crash, prune and reap around it.                 *)
(***************************************************************************)
THEOREM OnlyLate == Spec => []OnlyLateSurvive
  <1>1. IInv => OnlyLateSurvive
    BY DEF IInv, OnlyLateSurvive, Owns, Objects, ServiceGone, PodGone
  <1> QED BY Invariance, <1>1, PTL

(***************************************************************************)
(* Where no instance has a step to take on its own, and one with a reapmax *)
(* runs, no ended instance has a Pod or the Service: a process that is     *)
(* running has either begun, and then reaps, or waits for the lease with   *)
(* a timeout to come.                                                      *)
(***************************************************************************)
THEOREM Swept == Spec => []OrphansAreSwept
  <1>1. IInv => OrphansAreSwept
    <2> SUFFICES ASSUME IInv, Idle, NEW j \in Reapers, Running(j), NEW i \in Instances
                 PROVE  i \notin pods /\ svc # i
      BY DEF OrphansAreSwept
    <2>1. j \in Instances
      BY ProcessAssumption
    <2>2. j \in reaping
      <3>1. main[j] \in Begun \cup {"elect"}
        BY <2>1 DEF IInv, TypeOK, Begun, Running
      <3>2. main[j] # "elect"
        BY <2>1 DEF IInv, Idle
      <3> QED BY <2>1, <3>1, <3>2 DEF IInv
    <2>3. ~Managed(j, <<"pod", i>>) /\ ~Managed(j, <<"svc", i>>)
      BY <2>1, <2>2 DEF Idle, Objects
    <2> QED BY <2>3 DEF Managed, Owns
  <1> QED BY Invariance, <1>1, PTL

(***************************************************************************)
(* In those states nobody waits for the namespace lock: the timeout of an  *)
(* instance that waits is still to fire or has fired, and ends it.         *)
(***************************************************************************)
THEOREM NobodyWaits == Spec => [](Idle => \A i \in Instances : main[i] # "elect")
  <1>1. IInv => (Idle => \A i \in Instances : main[i] # "elect")
    BY DEF IInv, Idle
  <1> QED BY Invariance, <1>1, PTL

---------------------------------------------------------------------------
(* The execs of one process.                                               *)

CONSTANTS Execs, Runs, Containers, Codes, Malformed, None

VARIABLES execs, target, code, old, cons, ready, run, todo, reaper

(* Execs, whose variable pods is called ready: pods is one of Process.     *)
X == INSTANCE Execs WITH pods <- ready

(* The command of start r has ended and its code is assigned.              *)
Ran(r) == run[r].pc \in {"save", "close", "closed"} /\ run[r].out[1] # "error"

(* The code of an exec whose command has ended is the one of a start that  *)
(* got that far: of two starts of one exec the last to assign it.          *)
ExecInv ==
    /\ DOMAIN run = Runs /\ DOMAIN code = Execs
    /\ \A r \in Runs : /\ DOMAIN run[r] = {"pc", "exec", "detach", "out"}
                       /\ run[r].out \in X!Outcomes
                       /\ run[r].pc # "new" => run[r].exec \in Execs
    /\ \A r \in Runs : Ran(r) =>
         \E q \in Runs : Ran(q) /\ run[q].exec = run[r].exec /\ code[run[r].exec] = run[q].out[2]

(* Start r gets to step l with outcome o; the others stay where they are.  *)
Goes(r, l, o) ==
    /\ DOMAIN run' = Runs
    /\ \A q \in Runs : q # r => run'[q] = run[q]
    /\ DOMAIN run'[r] = {"pc", "exec", "detach", "out"}
    /\ run'[r].pc = l /\ run'[r].exec = run[r].exec /\ run'[r].out = o

(***************************************************************************)
(* parseExecResponse tells the exit code of a command from other errors.   *)
(***************************************************************************)
LEMMA OutcomeParsed ==
    ASSUME NEW o \in X!Outcomes
    PROVE  /\ X!parseExecResponse(o).err <=> o[1] = "error"
           /\ o[1] # "error" => X!parseExecResponse(o).code = o[2]
  <1>1. X!parseExecResponse(o).err <=> o[1] = "error"
    BY Zenon DEF X!parseExecResponse
  <1>2. X!parseExecResponse(o).code = IF o[1] = "exit" THEN o[2] ELSE 0
    BY Zenon DEF X!parseExecResponse
  <1>3. o[1] \notin {"error", "exit"} => o[2] = 0
    BY DEF X!Outcomes
  <1>4. o[1] # "error" => (IF o[1] = "exit" THEN o[2] ELSE 0) = o[2]
    BY <1>3
  <1> QED BY <1>1, <1>2, <1>4, Zenon

(***************************************************************************)
(* A step without an outcome, field by field.                              *)
(***************************************************************************)
LEMMA GotoEffect ==
    ASSUME ExecInv, NEW r \in Runs, NEW l, X!Goto(r, l)
    PROVE  Goes(r, l, run[r].out)
  BY DEF ExecInv, X!Goto, Goes

(***************************************************************************)
(* A step with an outcome, field by field.                                 *)
(***************************************************************************)
LEMMA FailEffect ==
    ASSUME ExecInv, NEW r \in Runs, NEW l, NEW o, run' = [run EXCEPT ![r].pc = l, ![r].out = o]
    PROVE  Goes(r, l, o)
  BY DEF ExecInv, Goes

(***************************************************************************)
(* A step that assigns no code keeps the invariant.                        *)
(***************************************************************************)
LEMMA GoesKeeps ==
    ASSUME ExecInv, NEW r \in Runs, NEW l, NEW o \in X!Outcomes, Goes(r, l, o),
           run[r].pc # "new", code' = code, Ran(r)' <=> Ran(r), Ran(r) => o = run[r].out
    PROVE  ExecInv'
  <1>1. \A q \in Runs : /\ run'[q].exec = run[q].exec /\ run'[q].out \in X!Outcomes
                        /\ DOMAIN run'[q] = {"pc", "exec", "detach", "out"}
                        /\ run'[q].exec \in Execs \/ run'[q].pc = "new"
                        /\ Ran(q)' <=> Ran(q)
                        /\ Ran(q) => run'[q].out = run[q].out
    BY DEF ExecInv, Goes, Ran
  <1>2. \A p \in Runs : Ran(p) =>
         \E q \in Runs : Ran(q) /\ run[q].exec = run[p].exec /\ code[run[p].exec] = run[q].out[2]
    BY DEF ExecInv
  <1>3. \A p \in Runs : Ran(p)' =>
         \E q \in Runs : Ran(q)' /\ run'[q].exec = run'[p].exec /\ code'[run'[p].exec] = run'[q].out[2]
    BY <1>1, <1>2
  <1> QED BY <1>1, <1>3 DEF ExecInv, Goes

(***************************************************************************)
(* Assigning the code keeps it: the start that does is a witness for every *)
(* start of the exec.                                                      *)
(***************************************************************************)
LEMMA AssignKeeps ==
    ASSUME ExecInv, NEW r \in Runs, Goes(r, "save", run[r].out), run[r].pc = "parse",
           run[r].out[1] # "error", code' = [code EXCEPT ![run[r].exec] = run[r].out[2]]
    PROVE  ExecInv'
  <1>1. \A q \in Runs : /\ run'[q].exec = run[q].exec /\ run'[q].out = run[q].out
                        /\ DOMAIN run'[q] = {"pc", "exec", "detach", "out"}
                        /\ run'[q].exec \in Execs \/ run'[q].pc = "new"
                        /\ Ran(q)' <=> Ran(q) \/ q = r
    BY DEF ExecInv, Goes, Ran
  <1>2. /\ \A p \in Runs : Ran(p) => /\ run[p].exec \in Execs
                                      /\ \E q \in Runs : /\ Ran(q) /\ run[q].exec = run[p].exec
                                                          /\ code[run[p].exec] = run[q].out[2]
        /\ DOMAIN code = Execs /\ run[r].exec \in Execs
    BY DEF ExecInv, Ran
  <1>3. /\ DOMAIN code' = Execs /\ code'[run[r].exec] = run[r].out[2]
        /\ \A e \in Execs : e # run[r].exec => code'[e] = code[e]
    BY <1>2
  <1>4. \A p \in Runs : Ran(p)' =>
         \E q \in Runs : Ran(q)' /\ run'[q].exec = run'[p].exec /\ code'[run'[p].exec] = run'[q].out[2]
    BY <1>1, <1>2, <1>3
  <1> QED BY <1>1, <1>3, <1>4 DEF ExecInv, Goes

(***************************************************************************)
(* Each step of ExecStart and of its goroutine keeps it.                   *)
(***************************************************************************)
LEMMA HandleKeeps ==
    ASSUME ExecInv, NEW r \in Runs, X!Handle(r) PROVE ExecInv'
  <1>1. run[r].out \in X!Outcomes /\ <<"error", 0>> \in X!Outcomes
    BY DEF ExecInv, X!Outcomes
  <1>2. CASE X!HijackConnection(r)
    <2>1. CASE X!Goto(r, "pod")
      BY <1>1, <1>2, <2>1, GotoEffect, GoesKeeps DEF X!HijackConnection, Goes, Ran
    <2>2. CASE run' = [run EXCEPT ![r].pc = "closed", ![r].out = <<"error", 0>>]
      <3>1. Goes(r, "closed", <<"error", 0>>)
        BY <2>2, FailEffect, ZenonT(30)
      <3> QED BY <1>1, <1>2, <3>1, GoesKeeps DEF X!HijackConnection, Goes, Ran
    <2> QED BY <1>2, <2>1, <2>2 DEF X!HijackConnection
  <1>3. CASE X!ExecContainer(r)
    <2>1. CASE X!Goto(r, "command")
      BY <1>1, <1>3, <2>1, GotoEffect, GoesKeeps DEF X!ExecContainer, Goes, Ran
    <2>2. CASE run' = [run EXCEPT ![r].pc = "parse", ![r].out = <<"error", 0>>]
      <3>1. Goes(r, "parse", <<"error", 0>>)
        BY <2>2, FailEffect, ZenonT(30)
      <3> QED BY <1>1, <1>3, <3>1, GoesKeeps DEF X!ExecContainer, Goes, Ran
    <2> QED BY <1>3, <2>1, <2>2 DEF X!ExecContainer
  <1>4. CASE X!AssignCode(r)
    <2>1. CASE X!parseExecResponse(run[r].out).err
      <3>1. run[r].pc = "parse" /\ X!Goto(r, "close") /\ code' = code
        BY <1>4, <2>1, Zenon DEF X!AssignCode
      <3>2. run[r].out[1] = "error"
        BY <1>1, <2>1, OutcomeParsed, Zenon
      <3> QED BY <1>1, <3>1, <3>2, GotoEffect, GoesKeeps DEF Goes, Ran
    <2>2. CASE ~X!parseExecResponse(run[r].out).err
      <3>1. /\ run[r].pc = "parse" /\ X!Goto(r, "save")
            /\ code' = [code EXCEPT ![run[r].exec] = X!parseExecResponse(run[r].out).code]
        BY <1>4, <2>2, Zenon DEF X!AssignCode
      <3>2. run[r].out[1] # "error" /\ X!parseExecResponse(run[r].out).code = run[r].out[2]
        BY <1>1, <2>2, OutcomeParsed, Zenon
      <3> QED BY <3>1, <3>2, GotoEffect, AssignKeeps, ZenonT(30)
    <2> QED BY <2>1, <2>2
  <1>5. CASE X!SaveExec(r) \/ X!CloseStreams(r)
    <2>1. PICK l \in {"close", "closed"} : X!Goto(r, l)
      BY <1>5 DEF X!SaveExec, X!CloseStreams
    <2>2. code' = code /\ run[r].pc \in {"save", "close"}
      BY <1>5 DEF X!SaveExec, X!CloseStreams
    <2> QED BY <1>1, <2>1, <2>2, GotoEffect, GoesKeeps DEF Goes, Ran
  <1> QED BY <1>2, <1>3, <1>4, <1>5 DEF X!Handle

(***************************************************************************)
(* A new start keeps it.                                                   *)
(***************************************************************************)
LEMMA StartKeeps ==
    ASSUME ExecInv, NEW r \in Runs, NEW e \in Execs, NEW detach \in BOOLEAN, X!ExecStart(r, e, detach)
    PROVE  ExecInv'
  <1>1. PICK new : /\ new = [X!Unused EXCEPT !.exec = e, !.detach = detach,
                                             !.pc = IF detach THEN "pod" ELSE "hijack"]
                   /\ run' = [run EXCEPT ![r] = new]
    BY Zenon DEF X!ExecStart
  <1>2. /\ DOMAIN new = {"pc", "exec", "detach", "out"} /\ new.exec = e /\ new.out = <<"nil", 0>>
        /\ new.pc \in {"pod", "hijack"}
    <2>1. new.pc = IF detach THEN "pod" ELSE "hijack"
      BY <1>1 DEF X!Unused
    <2>2. (IF detach THEN "pod" ELSE "hijack") \in {"pod", "hijack"}
      BY Zenon
    <2>3. DOMAIN new = {"pc", "exec", "detach", "out"} /\ new.exec = e /\ new.out = <<"nil", 0>>
      BY <1>1 DEF X!Unused
    <2> QED BY <2>1, <2>2, <2>3
  <1>3. run[r].pc = "new" /\ code' = code /\ <<"nil", 0>> \in X!Outcomes
    BY DEF X!ExecStart, X!Outcomes
  <1>4. DOMAIN run' = Runs /\ run'[r] = new /\ \A q \in Runs : q # r => run'[q] = run[q]
    BY <1>1 DEF ExecInv
  <1>5. ~Ran(r) /\ ~Ran(r)' /\ \A q \in Runs : q # r => (Ran(q)' <=> Ran(q))
    BY <1>2, <1>3, <1>4 DEF Ran
  <1>6. \A p \in Runs : Ran(p)' =>
         \E q \in Runs : Ran(q)' /\ run'[q].exec = run'[p].exec /\ code'[run'[p].exec] = run'[q].out[2]
    BY <1>3, <1>4, <1>5 DEF ExecInv
  <1>7. \A q \in Runs : /\ DOMAIN run'[q] = {"pc", "exec", "detach", "out"}
                        /\ run'[q].out \in X!Outcomes
                        /\ run'[q].pc # "new" => run'[q].exec \in Execs
    BY <1>2, <1>3, <1>4 DEF ExecInv
  <1> QED BY <1>3, <1>4, <1>6, <1>7 DEF ExecInv

(***************************************************************************)
(* It holds in every state of every behaviour.                             *)
(***************************************************************************)
LEMMA ExecInvariance == X!Spec => []ExecInv
  <1>1. X!Init => ExecInv
    <2> SUFFICES ASSUME X!Init PROVE ExecInv
      OBVIOUS
    <2>1. /\ DOMAIN run = Runs /\ DOMAIN code = Execs
          /\ \A r \in Runs : run[r] = X!Unused
      BY DEF X!Init
    <2>2. /\ DOMAIN X!Unused = {"pc", "exec", "detach", "out"} /\ X!Unused.pc = "new"
          /\ X!Unused.out = <<"nil", 0>> /\ <<"nil", 0>> \in X!Outcomes
      BY DEF X!Unused, X!Outcomes
    <2> QED BY <2>1, <2>2 DEF ExecInv, Ran
  <1>2. ExecInv /\ [X!Next]_X!vars => ExecInv'
    <2> SUFFICES ASSUME ExecInv, [X!Next]_X!vars PROVE ExecInv'
      OBVIOUS
    <2>1. ASSUME run' = run, code' = code PROVE ExecInv'
      BY <2>1 DEF ExecInv, Ran
    <2>2. ASSUME NEW r \in Runs, NEW o \in X!Outcomes, X!RemoteCmd(r, o) PROVE ExecInv'
      <3>1. Goes(r, "parse", o)
        BY <2>2, FailEffect, ZenonT(30) DEF X!RemoteCmd
      <3> QED BY <2>2, <3>1, GoesKeeps DEF X!RemoteCmd, Goes, Ran
    <2>3. CASE UNCHANGED X!vars
      BY <2>1, <2>3 DEF X!vars
    <2>4. ASSUME NEW c \in Containers, X!ContainerDelete(c) \/ X!PodGone(c) PROVE ExecInv'
      BY <2>1, <2>4 DEF X!ContainerDelete, X!PodGone
    <2>5. ASSUME NEW e \in Execs, X!Age(e) \/ \E c \in Containers : X!ContainerExec(e, c) PROVE ExecInv'
      BY <2>1, <2>5 DEF X!Age, X!ContainerExec
    <2>6. CASE X!Reap
      BY <2>1, <2>6 DEF X!Reap, X!CleanExecs, X!CleanNext, X!Sleep
    <2> QED BY <2>2, <2>3, <2>4, <2>5, <2>6, HandleKeeps, StartKeeps DEF X!Next
  <1> QED BY <1>1, <1>2, PTL DEF X!Spec

(***************************************************************************)
(* A client that saw the streams of an exec end without an error, and then *)
(* inspects it, finds the exit code of one of its starts, for any number   *)
(* of starts, deletes and rounds of the reaper.                            *)
(***************************************************************************)
THEOREM CodeBeforeEnd == X!Spec => []X!ExitCodeBeforeEnd
  <1>1. ExecInv => X!ExitCodeBeforeEnd
    <2> SUFFICES ASSUME ExecInv, NEW e \in Execs, X!Starts(e) # {},
                        \A r \in X!Starts(e) : run[r].pc = "closed" /\ run[r].out[1] # "error"
                 PROVE  \E r \in X!Starts(e) : code[e] = run[r].out[2]
      BY Zenon DEF X!ExitCodeBeforeEnd, X!ExecInfo
    <2>1. PICK p \in Runs : run[p].exec = e /\ Ran(p)
      BY DEF X!Starts, Ran
    <2> QED BY <2>1 DEF ExecInv, X!Starts
  <1> QED BY ExecInvariance, <1>1, PTL
============================================================================
