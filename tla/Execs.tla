-------------------------------- MODULE Execs ------------------------------
(***************************************************************************)
(* Exec instances: the table of them, ExecStart in the foreground and      *)
(* detached, and the reaper that removes old ones (routes/common/exec.go,  *)
(* backend/exec.go, reaper/exec.go).  A start holds the pointer it fetched *)
(* and saves it when the command has ended, however long that takes and    *)
(* whatever happened to the record meanwhile.                              *)
(***************************************************************************)
EXTENDS Naturals

CONSTANTS
    Execs,       \* ids of exec instances
    Runs,        \* bound: requests that start an exec
    Containers,  \* containers there are in the beginning
    Codes,       \* exit codes of commands other than 0
    Malformed,   \* execs with a command, user or environment that is refused
    None         \* no exec, no container

ASSUME ExecsAssumption ==
    /\ Codes \subseteq Nat \ {0}
    /\ Malformed \subseteq Execs
    /\ None \notin Execs \cup Containers

VARIABLES
    execs,   \* ids in the table
    target,  \* Execs -> ContainerID, None when not created yet
    code,    \* Execs -> ExitCode of the object
    old,     \* execs created more than execReapMax ago
    cons,    \* containers in the database
    pods,    \* containers with a Pod that takes commands
    run,     \* Runs -> a start, or the goroutine it left behind
    todo,    \* what is left of the list CleanExecs fetched
    reaper   \* "sleep" or "clean"

vars == <<execs, target, code, old, cons, pods, run, todo, reaper>>
reaperVars == <<todo, reaper>>

(* What RemoteCmd returns: no error, the error of an exit code, another.   *)
Outcomes == {<<"nil", 0>>, <<"error", 0>>} \cup ({"exit"} \X Codes)

(* Variant: the error of an exit code is an error like any other.          *)
parseAnyError(o) == [code |-> 0, err |-> o[1] # "nil"]

(* parseExecResponse: the exit code, and whether there was another error.  *)
parseExecResponse(o) == [code |-> IF o[1] = "exit" THEN o[2] ELSE 0, err |-> o[1] = "error"]

Unused == [pc |-> "new", exec |-> None, detach |-> FALSE, out |-> <<"nil", 0>>]

Steps == {"new", "hijack", "pod", "command", "parse", "save", "close", "closed"}

TypeOK ==
    /\ execs \subseteq Execs
    /\ target \in [Execs -> Containers \cup {None}]
    /\ \A e \in execs : target[e] # None
    /\ code \in [Execs -> Codes \cup {0}]
    /\ old \subseteq Execs
    /\ cons \subseteq Containers /\ pods \subseteq Containers
    /\ run \in [Runs -> [pc : Steps, exec : Execs \cup {None}, detach : BOOLEAN, out : Outcomes]]
    /\ todo \subseteq Execs
    /\ reaper \in {"sleep", "clean"}

Init ==
    /\ execs = {}
    /\ target = [e \in Execs |-> None]
    /\ code = [e \in Execs |-> 0]
    /\ old = {}
    /\ cons = Containers /\ pods = Containers
    /\ run = [r \in Runs |-> Unused]
    /\ todo = {}
    /\ reaper = "sleep"

---------------------------------------------------------------------------
(* The containers, which other requests delete, and the clock.             *)

ContainerDelete(c) ==
    /\ c \in cons
    /\ cons' = cons \ {c}
    /\ UNCHANGED <<execs, target, code, old, pods, run, reaperVars>>

PodGone(c) ==
    /\ c \in pods
    /\ pods' = pods \ {c}
    /\ UNCHANGED <<execs, target, code, old, cons, run, reaperVars>>

Age(e) ==
    /\ target[e] # None
    /\ e \notin old
    /\ old' = old \cup {e}
    /\ UNCHANGED <<execs, target, code, cons, pods, run, reaperVars>>

---------------------------------------------------------------------------
(* Requests.                                                               *)

(* ContainerExec: an exec of a container that is found.                    *)
ContainerExec(e, c) ==
    /\ target[e] = None
    /\ c \in cons
    /\ target' = [target EXCEPT ![e] = c]
    /\ execs' = execs \cup {e}
    /\ UNCHANGED <<code, old, cons, pods, run, reaperVars>>

Goto(r, l) == run' = [run EXCEPT ![r].pc = l]

(* ExecStart: the exec and its container are looked up.                    *)
ExecStart(r, e, detach) ==
    /\ run[r].pc = "new"
    /\ e \in execs
    /\ target[e] \in cons
    /\ run' = [run EXCEPT ![r] = [Unused EXCEPT !.exec = e, !.detach = detach,
                                                !.pc = IF detach THEN "pod" ELSE "hijack"]]
    /\ UNCHANGED <<execs, target, code, old, cons, pods, reaperVars>>

(* The connection is taken over, or the request ends.                      *)
HijackConnection(r) ==
    /\ run[r].pc = "hijack"
    /\ \/ Goto(r, "pod")
       \/ run' = [run EXCEPT ![r].pc = "closed", ![r].out = <<"error", 0>>]
    /\ UNCHANGED <<execs, target, code, old, cons, pods, reaperVars>>

prepareExecCommand(e) == e \notin Malformed

(* ExecContainer: no Pod, or no command, is an error.                      *)
ExecContainer(r) ==
    LET e == run[r].exec
    IN  /\ run[r].pc = "pod"
        /\ IF target[e] \in pods /\ prepareExecCommand(e)
           THEN Goto(r, "command")
           ELSE run' = [run EXCEPT ![r].pc = "parse", ![r].out = <<"error", 0>>]
        /\ UNCHANGED <<execs, target, code, old, cons, pods, reaperVars>>

(* The command ends, or the connection to it breaks.                       *)
RemoteCmd(r, o) ==
    /\ run[r].pc = "command"
    /\ run' = [run EXCEPT ![r].pc = "parse", ![r].out = o]
    /\ UNCHANGED <<execs, target, code, old, cons, pods, reaperVars>>

(* exec.ExitCode = code, unless there was an error.                        *)
AssignCode(r) ==
    LET res == parseExecResponse(run[r].out)
    IN  /\ run[r].pc = "parse"
        /\ IF res.err
           THEN Goto(r, "close") /\ UNCHANGED code
           ELSE Goto(r, "save") /\ code' = [code EXCEPT ![run[r].exec] = res.code]
        /\ UNCHANGED <<execs, target, old, cons, pods, reaperVars>>

(* SaveExec, also of an exec the reaper has removed.                       *)
SaveExec(r) ==
    /\ run[r].pc = "save"
    /\ execs' = execs \cup {run[r].exec}
    /\ Goto(r, "close")
    /\ UNCHANGED <<target, code, old, cons, pods, reaperVars>>

(* The deferred CloseStreams; a detached start has no streams.             *)
CloseStreams(r) ==
    /\ run[r].pc = "close"
    /\ Goto(r, "closed")
    /\ UNCHANGED <<execs, target, code, old, cons, pods, reaperVars>>

(* ExecInfo: what a client is told, if the exec is found.                  *)
ExecInfo(e) == [found |-> e \in execs, Running |-> FALSE, ExitCode |-> code[e]]

---------------------------------------------------------------------------
(* The reaper.                                                             *)

CleanExecs ==
    /\ reaper = "sleep"
    /\ reaper' = "clean"
    /\ todo' = execs
    /\ UNCHANGED <<execs, target, code, old, cons, pods, run>>

(* Variant: an exec that reported a failure is kept.                       *)
CleanNextSuccessful ==
    /\ reaper = "clean"
    /\ \E e \in todo :
         /\ todo' = todo \ {e}
         /\ execs' = IF e \in old /\ code[e] = 0 THEN execs \ {e} ELSE execs
    /\ UNCHANGED <<target, code, old, cons, pods, run, reaper>>

(* One exec of the list.  DeleteExec of an absent one would end the pass.  *)
CleanNext ==
    /\ reaper = "clean"
    /\ \E e \in todo :
         /\ todo' = IF e \in old \ execs THEN {} ELSE todo \ {e}
         /\ execs' = IF e \in old THEN execs \ {e} ELSE execs
    /\ UNCHANGED <<target, code, old, cons, pods, run, reaper>>

Sleep ==
    /\ reaper = "clean"
    /\ todo = {}
    /\ reaper' = "sleep"
    /\ UNCHANGED <<execs, target, code, old, cons, pods, run, todo>>

---------------------------------------------------------------------------

Handle(r) == HijackConnection(r) \/ ExecContainer(r) \/ AssignCode(r) \/ SaveExec(r) \/ CloseStreams(r)

Reap == CleanExecs \/ CleanNext \/ Sleep

Next ==
    \/ \E c \in Containers : ContainerDelete(c) \/ PodGone(c)
    \/ \E e \in Execs : Age(e) \/ (\E c \in Containers : ContainerExec(e, c))
    \/ \E r \in Runs : \/ \E e \in Execs, detach \in BOOLEAN : ExecStart(r, e, detach)
                       \/ Handle(r)
                       \/ \E o \in Outcomes : RemoteCmd(r, o)
    \/ Reap

Spec == Init /\ [][Next]_vars

(* Time passes, the reaper's timer fires and requests run; a command need  *)
(* not end, as RemoteCmd has no deadline.                                  *)
Fairness ==
    /\ \A e \in Execs : WF_vars(Age(e))
    /\ \A r \in Runs : WF_vars(Handle(r))
    /\ WF_vars(Reap)

FairSpec == Spec /\ Fairness

---------------------------------------------------------------------------
(* The starts of exec e.                                                   *)
Starts(e) == {r \in Runs : run[r].exec = e}

(***************************************************************************)
(* Whoever sees the output of a command end and then inspects the exec is  *)
(* told the exit code of a command that ended: ExecStart saves the code    *)
(* before the streams are closed, also when the reaper removed the record  *)
(* meanwhile.  (After an error of the connection the code stays as it is.) *)
(***************************************************************************)
ExitCodeBeforeEnd ==
    \A e \in Execs :
        /\ ExecInfo(e).found
        /\ Starts(e) # {}
        /\ \A r \in Starts(e) : run[r].pc = "closed" /\ run[r].out[1] # "error"
        => \E r \in Starts(e) : ExecInfo(e).ExitCode = run[r].out[2]

(***************************************************************************)
(* Every exec is removed for good once clients stop starting it, although  *)
(* a start that outlives the record saves it again.                        *)
(***************************************************************************)
ReapedForGood == \A e \in Execs : <>[](e \notin execs)
============================================================================
