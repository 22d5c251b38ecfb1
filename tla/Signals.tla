------------------------------ MODULE Signals ------------------------------
(***************************************************************************)
(* How a container's helpers learn that it stops.  Reverse proxies, port   *)
(* forwards and log followers put a channel into StopChannels, attach      *)
(* sessions into AttachChannels; a request that stops or removes the       *)
(* container sends to and closes every channel of both lists               *)
(* (internal/model/types/container.go, internal/backend/deploy.go,         *)
(* internal/util/reverseproxy, internal/util/portforward, and the logs and *)
(* attach endpoints).                                                      *)
(*                                                                         *)
(* The lists are slices of the shared record and nothing locks them.       *)
(* append is a read and a write of the slice; sending to a closed channel, *)
(* or closing it again, panics, and gin.Recovery ends that request.        *)
(***************************************************************************)
EXTENDS Naturals, Sequences

CONSTANTS
    Tunnels,     \* the ports of one call of reverseProxy or portForward
    Followers,   \* requests that follow the logs
    Sessions,    \* attach sessions
    Requests     \* stop, kill, restart and delete requests

ASSUME SignalsAssumption ==
    /\ Tunnels \cap (Followers \cup Sessions) = {}
    /\ Followers \cap Sessions = {}
    /\ Requests \cap (Tunnels \cup Followers \cup Sessions) = {}

Workers == Tunnels \cup Followers \cup Sessions

Signallers == Requests \cup Sessions

Lists == {"attach", "stop"}

ListOf(w) == IF w \in Sessions THEN "attach" ELSE "stop"

VARIABLES
    portForward,   \* config: tunnels are port forwards, not reverse proxies
    list,          \* Lists -> the slice of channels; a channel is its worker
    seen,          \* Workers -> the slice its append has read
    buf, closed,   \* Workers -> state of its channel
    reading,       \* workers for which a goroutine receives from the channel
    work,          \* Workers -> how far it is
    sig,           \* Signallers -> how far it is
    due,           \* history: channels added before a signal of their list
    mixed          \* history: lists with an append that overlapped another
                   \* append or a signal

chanVars == <<buf, closed>>
vars == <<portForward, list, seen, chanVars, reading, work, sig, due, mixed>>

(* Variant: an unbuffered channel.                                         *)
CapacityNone == 0

(* make(chan struct{}, 1)                                                  *)
Capacity == 1

SignalIdle == [pc |-> "idle", on |-> "attach", todo |-> <<>>]

TypeOK ==
    /\ portForward \in BOOLEAN
    /\ list \in [Lists -> Seq(Workers)]
    /\ seen \in [Workers -> Seq(Workers)]
    /\ buf \in [Workers -> 0 .. Capacity]
    /\ closed \in [Workers -> BOOLEAN]
    /\ reading \subseteq Workers
    /\ work \in [Workers -> {"off", "append", "open", "up", "failed", "ended"}]
    /\ sig \in [Signallers ->
                  [pc : {"idle", "range", "send", "close", "done", "panic"},
                   on : Lists, todo : Seq(Workers)]]
    /\ due \subseteq Workers
    /\ mixed \subseteq Lists

Init ==
    /\ portForward \in BOOLEAN
    /\ list = [l \in Lists |-> <<>>]
    /\ seen = [w \in Workers |-> <<>>]
    /\ buf = [w \in Workers |-> 0]
    /\ closed = [w \in Workers |-> FALSE]
    /\ reading = {}
    /\ work = [w \in Workers |-> "off"]
    /\ sig = [s \in Signallers |-> SignalIdle]
    /\ due = {}
    /\ mixed = {}

Move(w, from, to) == work[w] = from /\ work' = [work EXCEPT ![w] = to]

(* A request between reading a list and resetting it.                      *)
Signalling(l) == \E s \in Signallers : sig[s].on = l /\ sig[s].pc \in {"send", "close"}

Appending(l) == \E w \in Workers : ListOf(w) = l /\ work[w] = "append"

---------------------------------------------------------------------------
(* AddStopChannel and AddAttachChannel.                                    *)

(* reverseProxy runs a goroutine for each port; portForward adds the       *)
(* channels itself, one after the other.                                   *)
AppendReads(w) ==
    LET l == ListOf(w)
    IN  /\ w \in Tunnels /\ portForward => \A v \in Tunnels : work[v] # "append"
        /\ Move(w, "off", "append")
        /\ seen' = [seen EXCEPT ![w] = list[l]]
        /\ mixed' = IF Signalling(l) \/ Appending(l) THEN mixed \cup {l} ELSE mixed
        /\ UNCHANGED <<portForward, list, chanVars, reading, sig, due>>

AppendWrites(w) ==
    /\ Move(w, "append", "open")
    /\ list' = [list EXCEPT ![ListOf(w)] = Append(seen[w], w)]
    /\ seen' = [seen EXCEPT ![w] = <<>>]
    /\ UNCHANGED <<portForward, chanVars, reading, sig, due, mixed>>

---------------------------------------------------------------------------
(* What the helpers do.                                                    *)

(* Proxy listens, ToPod connects, getLogs opens the stream, or the session *)
(* is attached; from here on somebody receives from the channel.           *)
Open(w) ==
    /\ Move(w, "open", "up")
    /\ reading' = reading \cup {w}
    /\ UNCHANGED <<portForward, list, seen, chanVars, sig, due, mixed>>

(* An error of Listen, of the dialer, of Pods.Get or of Stream: nobody     *)
(* receives, and the channel stays in the list.                            *)
OpenFails(w) ==
    /\ w \notin Sessions
    /\ Move(w, "open", "failed")
    /\ UNCHANGED <<portForward, list, seen, chanVars, reading, sig, due, mixed>>

(* A forward loses its Pod, a log stream or an attach stream ends.  The    *)
(* goroutine that getLogs left waiting for the channel stays.              *)
StreamEnds(w) ==
    /\ w \in Tunnels => portForward
    /\ Move(w, "up", "ended")
    /\ reading' = IF w \in Followers THEN reading ELSE reading \ {w}
    /\ sig' = IF w \in Sessions
              THEN [sig EXCEPT ![w] = [SignalIdle EXCEPT !.pc = "range"]] ELSE sig
    /\ UNCHANGED <<portForward, list, seen, chanVars, due, mixed>>

(* Variant: the proxy's goroutine does not close the listener.             *)
ReceiveKeepsListener(w) ==
    /\ w \in reading
    /\ buf[w] > 0 \/ closed[w]
    /\ buf' = [buf EXCEPT ![w] = IF @ > 0 THEN @ - 1 ELSE 0]
    /\ reading' = reading \ {w}
    /\ work' = [work EXCEPT ![w] = IF w \in Tunnels /\ ~portForward THEN "up" ELSE "ended"]
    /\ sig' = IF w \in Sessions
              THEN [sig EXCEPT ![w] = [SignalIdle EXCEPT !.pc = "range"]] ELSE sig
    /\ UNCHANGED <<portForward, list, seen, closed, due, mixed>>

(* The channel is received from: the listener, the tunnel or the stream is *)
(* closed; a session runs its deferred SignalDetach.                       *)
Receive(w) ==
    /\ w \in reading
    /\ buf[w] > 0 \/ closed[w]
    /\ buf' = [buf EXCEPT ![w] = IF @ > 0 THEN @ - 1 ELSE 0]
    /\ reading' = reading \ {w}
    /\ work' = [work EXCEPT ![w] = "ended"]
    /\ sig' = IF w \in Sessions
              THEN [sig EXCEPT ![w] = [SignalIdle EXCEPT !.pc = "range"]] ELSE sig
    /\ UNCHANGED <<portForward, list, seen, closed, due, mixed>>

---------------------------------------------------------------------------
(* SignalDetach and SignalStop.                                            *)

(* The loop ranges over the slice as it is now.                            *)
Range(s, l) ==
    /\ sig' = [sig EXCEPT ![s] = [pc |-> "send", on |-> l, todo |-> list[l]]]
    /\ due' = due \cup {w \in Workers : ListOf(w) = l /\ work[w] \notin {"off", "append"}}
    /\ mixed' = IF Appending(l) THEN mixed \cup {l} ELSE mixed
    /\ UNCHANGED <<portForward, list, seen, chanVars, reading, work>>

(* A stop, kill, restart or delete request begins with SignalDetach.       *)
Request(r) == sig[r].pc = "idle" /\ Range(r, "attach")

(* SignalStop of a request, or the deferred SignalDetach of a session.     *)
Proceed(s) == sig[s].pc = "range" /\ Range(s, IF s \in Sessions THEN "attach" ELSE "stop")

(* Variant: the channel is closed before it is sent to.                    *)
SendAfterClose(s) ==
    /\ sig[s].pc = "send"
    /\ sig[s].todo # <<>>
    /\ LET w == Head(sig[s].todo)
       IN  IF closed[w]
           THEN /\ sig' = [sig EXCEPT ![s].pc = "panic"]
                /\ UNCHANGED closed
           ELSE /\ closed' = [closed EXCEPT ![w] = TRUE]
                /\ UNCHANGED sig
    /\ UNCHANGED <<portForward, list, seen, buf, reading, work, due, mixed>>

(* Blocks while the buffer is full.                                        *)
Send(s) ==
    /\ sig[s].pc = "send"
    /\ sig[s].todo # <<>>
    /\ LET w == Head(sig[s].todo)
       IN  IF closed[w]
           THEN /\ sig' = [sig EXCEPT ![s].pc = "panic"]
                /\ UNCHANGED buf
           ELSE /\ buf[w] < Capacity
                /\ buf' = [buf EXCEPT ![w] = @ + 1]
                /\ sig' = [sig EXCEPT ![s].pc = "close"]
    /\ UNCHANGED <<portForward, list, seen, closed, reading, work, due, mixed>>

(* Variant: the loop ends after one channel.                               *)
CloseAndReturn(s) ==
    LET w == Head(sig[s].todo)
    IN  /\ sig[s].pc = "close"
        /\ IF closed[w]
           THEN /\ sig' = [sig EXCEPT ![s].pc = "panic"]
                /\ UNCHANGED closed
           ELSE /\ closed' = [closed EXCEPT ![w] = TRUE]
                /\ sig' = [sig EXCEPT ![s].pc = "send", ![s].todo = <<>>]
        /\ UNCHANGED <<portForward, list, seen, buf, reading, work, due, mixed>>

Close(s) ==
    LET w == Head(sig[s].todo)
    IN  /\ sig[s].pc = "close"
        /\ IF closed[w]
           THEN /\ sig' = [sig EXCEPT ![s].pc = "panic"]
                /\ UNCHANGED closed
           ELSE /\ closed' = [closed EXCEPT ![w] = TRUE]
                /\ sig' = [sig EXCEPT ![s].pc = "send", ![s].todo = Tail(@)]
        /\ UNCHANGED <<portForward, list, seen, buf, reading, work, due, mixed>>

(* The list is emptied.  A request goes on from SignalDetach to            *)
(* SignalStop.                                                             *)
Reset(s) ==
    LET l == sig[s].on
        last == s \in Sessions \/ l = "stop"
    IN  /\ sig[s].pc = "send"
        /\ sig[s].todo = <<>>
        /\ list' = [list EXCEPT ![l] = <<>>]
        /\ sig' = [sig EXCEPT ![s] = [pc |-> IF last THEN "done" ELSE "range",
                                      on |-> IF last THEN l ELSE "stop", todo |-> <<>>]]
        /\ UNCHANGED <<portForward, seen, chanVars, reading, work, due, mixed>>

---------------------------------------------------------------------------

WorkerStep(w) == AppendWrites(w) \/ Open(w) \/ OpenFails(w) \/ Receive(w)

SignalStep(s) == Proceed(s) \/ Send(s) \/ Close(s) \/ Reset(s)

Next ==
    \/ \E w \in Workers : AppendReads(w) \/ WorkerStep(w) \/ StreamEnds(w)
    \/ \E s \in Signallers : SignalStep(s)
    \/ \E r \in Requests : Request(r)

Spec == Init /\ [][Next]_vars

(***************************************************************************)
(* Every goroutine has gone as far as it can.  Each of their steps moves   *)
(* forward, so when goroutines run this is where they get to between two   *)
(* requests, or when requests and streams cease.                           *)
(***************************************************************************)
Settled == ~ENABLED ((\E w \in Workers : WorkerStep(w)) \/ (\E s \in Signallers : SignalStep(s)))

(* The same, spelled out: no guard of these steps holds.                   *)
Quiet ==
    /\ \A w \in Workers : /\ work[w] \notin {"append", "open"}
                          /\ w \in reading => buf[w] = 0 /\ ~closed[w]
    /\ \A s \in Signallers :
         /\ sig[s].pc \notin {"range", "close"}
         /\ sig[s].pc = "send" =>
              /\ sig[s].todo # <<>>
              /\ LET w == Head(sig[s].todo) IN ~closed[w] /\ buf[w] >= Capacity

---------------------------------------------------------------------------
(* Properties.                                                             *)

Active(s, l) == sig[s].on = l /\ sig[s].pc \in {"send", "close"}

(* s got through the list: it is done, or went on to the other list.       *)
Finished(s, l) ==
    \/ sig[s].pc = "done" /\ sig[s].on = l
    \/ l = "attach" /\ sig[s].on = "stop"

(***************************************************************************)
(* Everybody who registered before a signal is told: once the signals of a *)
(* list are over, each channel that was in it is closed, although of two   *)
(* requests that signal at once (ContainerStop and the deferred            *)
(* SignalDetach of a session, say) one panics half way.  It holds for a    *)
(* list whose appends overlapped nothing.                                  *)
(***************************************************************************)
NotifiedUnlessMixed ==
    \A l \in Lists \ mixed :
        ~Signalling(l) => \A w \in due : ListOf(w) = l => closed[w]

(***************************************************************************)
(* Requests that signal one list at once do not all panic: when one did,   *)
(* another is still at work on the list or got through it.                 *)
(***************************************************************************)
SomeoneFinishes ==
    \A s \in Signallers :
        sig[s].pc = "panic" =>
            \E q \in Signallers \ {s} : Active(q, sig[s].on) \/ Finished(q, sig[s].on)

(***************************************************************************)
(* SignalStop and SignalDetach return (or panic): no channel without a     *)
(* receiver, such as the one of a proxy that could not listen, holds up a  *)
(* stop or delete request.                                                 *)
(***************************************************************************)
SignalsFinish == Quiet => \A s \in Signallers : sig[s].pc \in {"idle", "done", "panic"}

(***************************************************************************)
(* Whoever is told ends: the listener of a proxy is closed, the forward,   *)
(* the log stream and the session end, also when the signal came before    *)
(* they were up.  (Where no step can be taken, no guard holds;             *)
(* SignalsFinish speaks of those states.)                                  *)
(***************************************************************************)
SignalledEnd ==
    Settled => Quiet /\ \A w \in Workers : closed[w] => work[w] \in {"ended", "failed"}
============================================================================
