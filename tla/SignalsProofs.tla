--------------------------- MODULE SignalsProofs ---------------------------
(***************************************************************************)
(* Safety of the channels that tell proxies, port forwards, log followers  *)
(* and attach sessions to stop, for any number of them and of requests     *)
(* that signal at once.                                                    *)
(***************************************************************************)
EXTENDS Signals, TLAPS

(* The channels in a slice.                                                *)
Members(q) == {q[i] : i \in 1 .. Len(q)}
(* No channel is in it twice.                                              *)
Distinct(q) == \A i, j \in 1 .. Len(q) : q[i] = q[j] => i = j
(* Its channels were registered one after the other, by their ranks.       *)
Rising(rank, q) == \A i, j \in 1 .. Len(q) : i < j => rank[q[i]] < rank[q[j]]

(***************************************************************************)
(* A slice that was reset has no channel and breaks no order.              *)
(***************************************************************************)
LEMMA NoMembers == Members(<<>>) = {} /\ Distinct(<<>>) /\ \A rank : Rising(rank, <<>>)
  BY DEF Members, Distinct, Rising

(***************************************************************************)
(* append adds one channel behind the others.                              *)
(***************************************************************************)
LEMMA AppendMembers ==
    ASSUME NEW q \in Seq(Workers), NEW w \in Workers
    PROVE  /\ Append(q, w) \in Seq(Workers)
           /\ Members(Append(q, w)) = Members(q) \cup {w}
           /\ Distinct(q) /\ w \notin Members(q) => Distinct(Append(q, w))
           /\ Append(q, w) # <<>>
  <1>1. /\ Len(q) \in Nat /\ Len(Append(q, w)) = Len(q) + 1
        /\ \A i \in 1 .. Len(q) : Append(q, w)[i] = q[i]
        /\ Append(q, w)[Len(q) + 1] = w
    OBVIOUS
  <1>2. Members(Append(q, w)) = Members(q) \cup {w}
    BY <1>1 DEF Members
  <1>3. ASSUME Distinct(q), w \notin Members(q) PROVE Distinct(Append(q, w))
    BY <1>1, <1>3 DEF Distinct, Members
  <1> QED BY <1>2, <1>3

(***************************************************************************)
(* append keeps the order when the channel that it adds is registered      *)
(* last.                                                                   *)
(***************************************************************************)
LEMMA AppendRises ==
    ASSUME NEW q \in Seq(Workers), NEW w \in Workers, NEW rank \in [Workers -> Nat], Rising(rank, q),
           \A x \in Members(q) : rank[x] < rank[w]
    PROVE  Rising(rank, Append(q, w))
  <1>1. /\ Len(q) \in Nat /\ Len(Append(q, w)) = Len(q) + 1
        /\ \A i \in 1 .. Len(q) : Append(q, w)[i] = q[i]
        /\ Append(q, w)[Len(q) + 1] = w
    OBVIOUS
  <1> SUFFICES ASSUME NEW i \in 1 .. Len(q) + 1, NEW j \in 1 .. Len(q) + 1, i < j
               PROVE  rank[Append(q, w)[i]] < rank[Append(q, w)[j]]
    BY <1>1, Zenon DEF Rising
  <1>2. i \in 1 .. Len(q)
    BY <1>1
  <1>3. CASE j = Len(q) + 1
    BY <1>1, <1>2, <1>3, Zenon DEF Members
  <1>4. CASE j \in 1 .. Len(q)
    BY <1>1, <1>2, <1>4, Zenon DEF Rising
  <1> QED BY <1>1, <1>3, <1>4

(***************************************************************************)
(* What is left of a slice once its first channel is dealt with: the loops *)
(* of SignalStop and SignalDetach range over it in this way.               *)
(***************************************************************************)
LEMMA TailMembers ==
    ASSUME NEW q \in Seq(Workers), q # <<>>
    PROVE  /\ Tail(q) \in Seq(Workers) /\ Head(q) \in Workers
           /\ Members(q) = {Head(q)} \cup Members(Tail(q))
           /\ Distinct(q) => Distinct(Tail(q)) /\ Head(q) \notin Members(Tail(q))
  <1>1. /\ Len(q) \in Nat \ {0} /\ Head(q) = q[1] /\ q[1] \in Workers /\ Len(Tail(q)) = Len(q) - 1
        /\ \A i \in 1 .. Len(q) - 1 : Tail(q)[i] = q[i + 1]
        /\ Tail(q) \in Seq(Workers)
    OBVIOUS
  <1>2. Members(q) \subseteq {Head(q)} \cup Members(Tail(q))
    <2> SUFFICES ASSUME NEW i \in 1 .. Len(q), i # 1 PROVE q[i] \in Members(Tail(q))
      BY <1>1, Zenon DEF Members
    <2>1. i - 1 \in 1 .. Len(q) - 1 /\ Tail(q)[i - 1] = q[i]
      BY <1>1
    <2> QED BY <1>1, <2>1, Zenon DEF Members
  <1>3. {Head(q)} \cup Members(Tail(q)) \subseteq Members(q)
    BY <1>1 DEF Members
  <1>4. ASSUME Distinct(q) PROVE Distinct(Tail(q)) /\ Head(q) \notin Members(Tail(q))
    BY <1>1, <1>4 DEF Distinct, Members
  <1> QED BY <1>1, <1>2, <1>3, <1>4, Zenon

(***************************************************************************)
(* What is left is in order, and behind the channel that was dealt with.   *)
(***************************************************************************)
LEMMA TailRises ==
    ASSUME NEW q \in Seq(Workers), q # <<>>, NEW rank \in [Workers -> Nat], Rising(rank, q)
    PROVE  /\ Rising(rank, Tail(q))
           /\ \A x \in Members(Tail(q)) : rank[Head(q)] < rank[x]
  <1>1. /\ Len(q) \in Nat \ {0} /\ Head(q) = q[1] /\ q[1] \in Workers /\ Len(Tail(q)) = Len(q) - 1
        /\ \A i \in 1 .. Len(q) - 1 : Tail(q)[i] = q[i + 1]
    OBVIOUS
  <1> QED BY <1>1 DEF Rising, Members

---------------------------------------------------------------------------
(* AddStopChannel or AddAttachChannel of w has returned.                   *)
Registered(w) == work[w] \notin {"off", "append"}

(* The slice q is one of list l: it holds channels registered with l.      *)
SliceOK(q, l) == \A w \in Workers : w \in Members(q) => ListOf(w) = l /\ Registered(w)

(* What holds of a request that signals: it works on a slice of its list,  *)
(* it panics at a closed channel, and a session signals only when it has   *)
(* ended.                                                                  *)
SignalOK(s) ==
    /\ SliceOK(sig[s].todo, sig[s].on)
    /\ sig[s].pc \in {"close", "panic"} => sig[s].todo # <<>>
    /\ sig[s].pc = "panic" => closed[Head(sig[s].todo)]
    /\ s \in Sessions => sig[s].on = "attach" /\ (work[s] # "ended" => sig[s].pc = "idle")
    /\ sig[s].pc = "idle" => sig[s].on = "attach"

(* What holds of a helper: it is told only when it is registered, it is up *)
(* exactly while it is received from (a follower may leave its goroutine   *)
(* behind), and a channel that is full but not closed is about to be       *)
(* closed.                                                                 *)
WorkerOK(w) ==
    /\ SliceOK(seen[w], ListOf(w))
    /\ closed[w] \/ w \in due => Registered(w)
    /\ w \in reading => work[w] = "up" \/ (w \in Followers /\ work[w] = "ended")
    /\ work[w] = "up" => w \in reading
    /\ buf[w] > 0 /\ ~closed[w] =>
         \E s \in Signallers : sig[s].pc = "close" /\ Head(sig[s].todo) = w

(* What holds of every list, helper and request, mixed or not.             *)
BaseOK ==
    /\ TypeOK
    /\ \A l \in Lists : SliceOK(list[l], l)
    /\ \A w \in Workers : WorkerOK(w)
    /\ \A s \in Signallers : SignalOK(s)

---------------------------------------------------------------------------

(***************************************************************************)
(* Each variable by its fields, for the steps that follow.                 *)
(***************************************************************************)
LEMMA Lookup == ASSUME TypeOK
    PROVE /\ list = [l \in Lists |-> list[l]] /\ \A l \in Lists : list[l] \in Seq(Workers)
          /\ seen = [w \in Workers |-> seen[w]] /\ \A w \in Workers : seen[w] \in Seq(Workers)
          /\ work = [w \in Workers |-> work[w]]
          /\ closed = [w \in Workers |-> closed[w]]
          /\ buf = [w \in Workers |-> buf[w]] /\ \A w \in Workers : buf[w] \in Nat
          /\ sig = [s \in Signallers |-> sig[s]]
          /\ \A s \in Signallers : /\ sig[s].todo \in Seq(Workers) /\ sig[s].on \in Lists
                                   /\ sig[s] = [pc |-> sig[s].pc, on |-> sig[s].on, todo |-> sig[s].todo]
  <1>1. /\ list = [l \in Lists |-> list[l]] /\ \A l \in Lists : list[l] \in Seq(Workers)
        /\ seen = [w \in Workers |-> seen[w]] /\ \A w \in Workers : seen[w] \in Seq(Workers)
        /\ work = [w \in Workers |-> work[w]]
        /\ closed = [w \in Workers |-> closed[w]]
        /\ buf = [w \in Workers |-> buf[w]]
        /\ sig = [s \in Signallers |-> sig[s]]
    BY Zenon DEF TypeOK
  <1>2. \A w \in Workers : buf[w] \in Nat
    <2>1. buf \in [Workers -> 0 .. Capacity]
      BY Zenon DEF TypeOK
    <2> QED BY <2>1 DEF Capacity
  <1>3. \A s \in Signallers :
          /\ sig[s].todo \in Seq(Workers) /\ sig[s].on \in Lists
          /\ sig[s] = [pc |-> sig[s].pc, on |-> sig[s].on, todo |-> sig[s].todo]
    BY Zenon DEF TypeOK
  <1> QED BY <1>1, <1>2, <1>3, Zenon

(* No other request moves.                                                 *)
OnlySignal(s) == \A q \in Signallers : q # s => sig'[q] = sig[q]

(***************************************************************************)
(* What reading the list leaves of the requests.                           *)
(***************************************************************************)
LEMMA RangeEffect == ASSUME TypeOK, NEW s \in Signallers, NEW l \in Lists, Range(s, l)
    PROVE /\ OnlySignal(s)
          /\ sig'[s] = [pc |-> "send", on |-> l, todo |-> list[l]]
  BY Lookup, Zenon DEF Range, OnlySignal

(* A request panics at a closed channel.                                   *)
Panics(s) ==
    /\ sig[s].pc \in {"send", "close"} /\ sig[s].todo # <<>> /\ closed[Head(sig[s].todo)]
    /\ OnlySignal(s)
    /\ sig'[s] = [pc |-> "panic", on |-> sig[s].on, todo |-> sig[s].todo]
    /\ UNCHANGED <<portForward, list, seen, chanVars, reading, work, due, mixed>>

(* It sends to the channel.                                                *)
Sends(s) ==
    /\ sig[s].pc = "send" /\ sig[s].todo # <<>> /\ ~closed[Head(sig[s].todo)]
    /\ OnlySignal(s)
    /\ sig'[s] = [pc |-> "close", on |-> sig[s].on, todo |-> sig[s].todo]
    /\ \A w \in Workers : w # Head(sig[s].todo) => buf'[w] = buf[w]
    /\ UNCHANGED <<portForward, list, seen, closed, reading, work, due, mixed>>

(* It closes the channel and goes on to the next.                          *)
Closes(s) ==
    /\ sig[s].pc = "close" /\ sig[s].todo # <<>> /\ ~closed[Head(sig[s].todo)]
    /\ OnlySignal(s)
    /\ sig'[s] = [pc |-> "send", on |-> sig[s].on, todo |-> Tail(sig[s].todo)]
    /\ closed'[Head(sig[s].todo)]
    /\ \A w \in Workers : w # Head(sig[s].todo) => closed'[w] = closed[w]
    /\ UNCHANGED <<portForward, list, seen, buf, reading, work, due, mixed>>

(***************************************************************************)
(* Send, field by field.                                                   *)
(***************************************************************************)
LEMMA SendEffect == ASSUME TypeOK, NEW s \in Signallers, Send(s) PROVE Sends(s) \/ Panics(s)
  <1> DEFINE w == Head(sig[s].todo)
  <1>1. sig[s].todo # <<>> /\ sig[s].pc = "send" /\ w \in Workers
    BY Lookup, TailMembers, Zenon DEF Send
  <1>2. CASE closed[w]
    BY <1>1, <1>2, Lookup DEF Send, Panics, OnlySignal, chanVars
  <1>3. CASE ~closed[w]
    BY <1>1, <1>3, Lookup, ZenonT(30) DEF Send, Sends, OnlySignal
  <1> QED BY <1>2, <1>3, Zenon

(***************************************************************************)
(* Close, field by field.                                                  *)
(***************************************************************************)
LEMMA CloseEffect == ASSUME BaseOK, NEW s \in Signallers, Close(s) PROVE Closes(s) \/ Panics(s)
  <1> DEFINE w == Head(sig[s].todo)
  <1>1. sig[s].todo # <<>> /\ sig[s].pc = "close" /\ w \in Workers /\ TypeOK
    BY Lookup, TailMembers, Zenon DEF Close, BaseOK, SignalOK
  <1>2. CASE closed[w]
    BY <1>1, <1>2, Lookup, SMTT(30) DEF Close, Panics, OnlySignal, chanVars
  <1>3. CASE ~closed[w]
    BY <1>1, <1>3, Lookup, ZenonT(30) DEF Close, Closes, OnlySignal
  <1> QED BY <1>2, <1>3, Zenon

(* It has got through its slice, and resets the list.                      *)
Resets(s) ==
    LET last == s \in Sessions \/ sig[s].on = "stop"
    IN  /\ sig[s].pc = "send" /\ sig[s].todo = <<>>
        /\ OnlySignal(s)
        /\ sig'[s] = [pc |-> IF last THEN "done" ELSE "range",
                      on |-> IF last THEN sig[s].on ELSE "stop", todo |-> <<>>]
        /\ list'[sig[s].on] = <<>>
        /\ \A l \in Lists : l # sig[s].on => list'[l] = list[l]
        /\ UNCHANGED <<portForward, seen, chanVars, reading, work, due, mixed>>

(***************************************************************************)
(* Reset, field by field.                                                  *)
(***************************************************************************)
LEMMA ResetEffect == ASSUME TypeOK, NEW s \in Signallers, Reset(s) PROVE Resets(s)
  BY Lookup, Zenon DEF Reset, Resets, OnlySignal, chanVars

---------------------------------------------------------------------------
(* The values of sig.                                                      *)
SigType == [pc : {"idle", "range", "send", "close", "done", "panic"},
            on : Lists, todo : Seq(Workers)]

(***************************************************************************)
(* Every step keeps the types.                                             *)
(***************************************************************************)
LEMMA TypeKept == ASSUME BaseOK, Next PROVE TypeOK'
  <1>0. TypeOK
    BY Zenon DEF BaseOK
  <1> USE <1>0
  <1>1. /\ \A l \in Lists : list[l] \in Seq(Workers)
        /\ \A w \in Workers : ListOf(w) \in Lists
        /\ sig \in [Signallers -> SigType]
    BY Lookup, Zenon DEF ListOf, Lists, TypeOK, SigType
  <1>2. ASSUME NEW w \in Workers, AppendReads(w) PROVE TypeOK'
    BY Lookup, <1>1, <1>2, Zenon DEF AppendReads, Move, TypeOK, chanVars
  <1>3. ASSUME NEW w \in Workers, AppendWrites(w) PROVE TypeOK'
    <2>1. Append(seen[w], w) \in Seq(Workers) /\ <<>> \in Seq(Workers)
      BY Lookup, AppendMembers
    <2> QED BY Lookup, <1>1, <1>3, <2>1, Zenon DEF AppendWrites, Move, TypeOK, chanVars
  <1>4. ASSUME NEW w \in Workers, Open(w) \/ OpenFails(w) PROVE TypeOK'
    BY Lookup, <1>4, ZenonT(30) DEF Open, OpenFails, Move, TypeOK, chanVars
  <1>5. [SignalIdle EXCEPT !.pc = "range"] \in SigType
    <2>1. [SignalIdle EXCEPT !.pc = "range"] = [pc |-> "range", on |-> "attach", todo |-> <<>>]
      BY Lookup DEF SignalIdle
    <2>2. <<>> \in Seq(Workers)
      OBVIOUS
    <2> QED BY <2>1, <2>2, Zenon DEF SigType, Lists
  <1>6. ASSUME NEW w \in Workers, StreamEnds(w) PROVE TypeOK'
    <2>1. sig' \in [Signallers -> SigType]
      BY Lookup, <1>1, <1>5, <1>6, Zenon DEF StreamEnds
    <2> QED BY Lookup, <1>6, <2>1, Zenon DEF StreamEnds, Move, TypeOK, chanVars, SigType
  <1>7. ASSUME NEW w \in Workers, Receive(w) PROVE TypeOK'
    <2>1. sig' \in [Signallers -> SigType]
      BY Lookup, <1>1, <1>5, <1>7, Zenon DEF Receive
    <2>2. buf' \in [Workers -> 0 .. Capacity]
      BY Lookup, <1>7 DEF Receive, TypeOK, Capacity
    <2> QED BY Lookup, <1>7, <2>1, <2>2, Zenon DEF Receive, Move, TypeOK, SigType
  <1>8. ASSUME NEW s \in Signallers, NEW l \in Lists, Range(s, l) PROVE TypeOK'
    <2>1. sig' \in [Signallers -> SigType]
      BY Lookup, <1>1, <1>8, Zenon DEF Range, SigType
    <2> QED BY Lookup, <1>8, <2>1, Zenon DEF Range, TypeOK, SigType, chanVars
  <1>9. ASSUME NEW s \in Signallers, Send(s) PROVE TypeOK'
    <2>1. sig' \in [Signallers -> SigType]
      <3>1. DOMAIN sig' = Signallers
        BY Lookup, <1>9, Zenon DEF Send
      <3>2. sig'[s] \in SigType
        <4>1. PICK p \in {"close", "panic"} :
                sig'[s] = [pc |-> p, on |-> sig[s].on, todo |-> sig[s].todo]
          BY Lookup, <1>9, SendEffect, Zenon DEF Sends, Panics
        <4>2. sig[s].todo \in Seq(Workers) /\ sig[s].on \in Lists
          BY Lookup, Zenon
        <4> QED BY <4>1, <4>2 DEF SigType
      <3> QED BY Lookup, <1>1, <1>9, <3>1, <3>2, Zenon DEF Send
    <2>2. buf' \in [Workers -> 0 .. Capacity]
      <3>1. buf \in [Workers -> 0 .. Capacity]
        BY Lookup, Zenon DEF TypeOK
      <3>2. \/ buf' = buf
            \/ LET w == Head(sig[s].todo) IN buf[w] < Capacity /\ buf' = [buf EXCEPT ![w] = buf[w] + 1]
        BY Lookup, <1>9, Zenon DEF Send
      <3> QED BY <3>1, <3>2 DEF Capacity
    <2> QED BY Lookup, <1>9, <2>1, <2>2, Zenon DEF Send, TypeOK, SigType
  <1>10. ASSUME NEW s \in Signallers, Close(s) PROVE TypeOK'
    <2>1. sig[s].todo \in Seq(Workers) /\ (sig[s].todo # <<>> => Tail(sig[s].todo) \in Seq(Workers))
      BY Lookup, TailMembers, Zenon
    <2>2. sig' \in [Signallers -> SigType]
      <3>1. DOMAIN sig' = Signallers
        BY Lookup, <1>10, Zenon DEF Close
      <3>2. sig'[s] \in SigType
        <4>1. PICK p \in {"send", "panic"}, q \in Seq(Workers) :
                sig'[s] = [pc |-> p, on |-> sig[s].on, todo |-> q]
          BY Lookup, <1>10, <2>1, CloseEffect, Zenon DEF Closes, Panics
        <4>2. sig[s].on \in Lists
          BY Lookup, Zenon
        <4> QED BY <4>1, <4>2 DEF SigType
      <3> QED BY Lookup, <1>1, <1>10, <3>1, <3>2, Zenon DEF Close
    <2>3. closed' \in [Workers -> BOOLEAN]
      BY Lookup, <1>10, Zenon DEF Close, TypeOK
    <2> QED BY Lookup, <1>10, <2>2, <2>3, Zenon DEF Close, TypeOK, SigType
  <1>11. ASSUME NEW s \in Signallers, Reset(s) PROVE TypeOK'
    <2>1. sig' \in [Signallers -> SigType] /\ list' \in [Lists -> Seq(Workers)]
      BY Lookup, <1>1, <1>11, Zenon DEF Reset, SigType, Lists, TypeOK
    <2> QED BY Lookup, <1>11, <2>1, Zenon DEF Reset, TypeOK, SigType, chanVars
  <1> QED
    BY <1>2, <1>3, <1>4, <1>6, <1>7, <1>8, <1>9, <1>10, <1>11, Zenon
       DEF Next, WorkerStep, SignalStep, Proceed, Request, Lists, Signallers

---------------------------------------------------------------------------
(* No other helper moves.                                                  *)
OnlyWork(w) == \A v \in Workers : v # w => work'[v] = work[v]

(* append reads the list.                                                  *)
Reads(w) ==
    /\ work[w] = "off" /\ work'[w] = "append" /\ OnlyWork(w)
    /\ seen'[w] = list[ListOf(w)] /\ \A v \in Workers : v # w => seen'[v] = seen[v]
    /\ UNCHANGED <<portForward, list, chanVars, reading, sig, due>>

(* append writes the list.                                                 *)
Writes(w) ==
    /\ work[w] = "append" /\ work'[w] = "open" /\ OnlyWork(w)
    /\ seen'[w] = <<>> /\ \A v \in Workers : v # w => seen'[v] = seen[v]
    /\ list'[ListOf(w)] = Append(seen[w], w)
    /\ \A l \in Lists : l # ListOf(w) => list'[l] = list[l]
    /\ UNCHANGED <<portForward, chanVars, reading, sig, due, mixed>>

(* The helper is up, or could not be started.                              *)
Opens(w) ==
    /\ work[w] = "open" /\ OnlyWork(w)
    /\ \/ work'[w] = "up" /\ reading' = reading \cup {w}
       \/ work'[w] = "failed" /\ reading' = reading
    /\ UNCHANGED <<portForward, list, seen, chanVars, sig, due, mixed>>

(* The helper ends; a session begins to signal.                            *)
Ends(w) ==
    /\ work[w] = "up" \/ (work[w] = "ended" /\ w \in Followers)
    /\ work'[w] = "ended" /\ OnlyWork(w)
    /\ reading' \subseteq reading
    /\ \A v \in Workers : v # w => (v \in reading' <=> v \in reading)
    /\ w \in reading' => w \in Followers
    /\ w \in Sessions => sig'[w] = [pc |-> "range", on |-> "attach", todo |-> <<>>]
    /\ \A s \in Signallers : s # w \/ w \notin Sessions => sig'[s] = sig[s]
    /\ \A v \in Workers : buf'[v] > 0 => buf[v] > 0
    /\ UNCHANGED <<portForward, list, seen, closed, due, mixed>>

(***************************************************************************)
(* AppendReads, AppendWrites, Open and OpenFails, field by field.          *)
(***************************************************************************)
LEMMA AppendEffect == ASSUME TypeOK, NEW w \in Workers
    PROVE /\ AppendReads(w) => Reads(w)
          /\ AppendWrites(w) => Writes(w)
          /\ Open(w) \/ OpenFails(w) => Opens(w)
  <1>1. ListOf(w) \in Lists
    BY Zenon DEF ListOf, Lists
  <1>2. ASSUME AppendReads(w) PROVE Reads(w)
    BY <1>1, <1>2, Lookup, Zenon DEF AppendReads, Move, Reads, OnlyWork
  <1>3. ASSUME AppendWrites(w) PROVE Writes(w)
    BY <1>1, <1>3, Lookup, Zenon DEF AppendWrites, Move, Writes, OnlyWork
  <1>4. ASSUME Open(w) \/ OpenFails(w) PROVE Opens(w)
    BY <1>4, Lookup, Zenon DEF Open, OpenFails, Move, Opens, OnlyWork
  <1> QED BY <1>2, <1>3, <1>4, Zenon

(***************************************************************************)
(* StreamEnds and Receive, field by field: only a follower is received     *)
(* from after its end.                                                     *)
(***************************************************************************)
LEMMA EndEffect == ASSUME BaseOK, NEW w \in Workers, StreamEnds(w) \/ Receive(w)
    PROVE Ends(w)
  <1>1. TypeOK /\ WorkerOK(w) /\ [SignalIdle EXCEPT !.pc = "range"] = [pc |-> "range", on |-> "attach", todo |-> <<>>]
    BY DEF BaseOK, SignalIdle
  <1>2. work[w] = "up" \/ (work[w] = "ended" /\ w \in Followers)
    BY <1>1, Zenon DEF StreamEnds, Move, Receive, WorkerOK
  <1>3. work'[w] = "ended" /\ OnlyWork(w)
    BY <1>1, Lookup, Zenon DEF StreamEnds, Move, Receive, OnlyWork
  <1>4. /\ reading' \subseteq reading
        /\ \A v \in Workers : v # w => (v \in reading' <=> v \in reading)
        /\ w \in reading' => w \in Followers
    BY Zenon DEF StreamEnds, Receive
  <1>5. /\ w \in Sessions => sig'[w] = [pc |-> "range", on |-> "attach", todo |-> <<>>]
        /\ \A s \in Signallers : s # w \/ w \notin Sessions => sig'[s] = sig[s]
    BY <1>1, Lookup, ZenonT(30) DEF StreamEnds, Receive, Signallers
  <1>6. \A v \in Workers : buf'[v] > 0 => buf[v] > 0
    <2>1. buf = [v \in Workers |-> buf[v]] /\ \A v \in Workers : buf[v] \in Nat
      BY <1>1, Lookup, Zenon
    <2>2. buf' = buf \/ buf' = [buf EXCEPT ![w] = IF buf[w] > 0 THEN buf[w] - 1 ELSE 0]
      BY Zenon DEF StreamEnds, Receive, chanVars
    <2> QED BY <2>1, <2>2
  <1>7. UNCHANGED <<portForward, list, seen, closed, due, mixed>>
    BY Zenon DEF StreamEnds, Receive, chanVars
  <1> QED BY <1>2, <1>3, <1>4, <1>5, <1>6, <1>7, Zenon DEF Ends

(* Who is registered stays registered.                                     *)
Grows == \A w \in Workers : Registered(w) => Registered(w)'

(***************************************************************************)
(* A slice of a list remains one, as channels are never unregistered.      *)
(***************************************************************************)
LEMMA SlicesKept == ASSUME Grows, NEW q, NEW l, SliceOK(q, l)
                    PROVE  \A w \in Workers : w \in Members(q) => ListOf(w) = l /\ Registered(w)'
  BY Zenon DEF Grows, SliceOK

(***************************************************************************)
(* The steps of registering and starting keep what holds of every list.    *)
(***************************************************************************)
LEMMA AppendKeepsBase ==
    ASSUME BaseOK, NEW w \in Workers, Reads(w) \/ Writes(w) \/ Opens(w), TypeOK'
    PROVE  BaseOK'
  <1>1. Grows
    BY Zenon DEF Grows, Registered, Reads, Writes, Opens, OnlyWork
  <1>2. \A l \in Lists : SliceOK(list[l], l)'
    <2> SUFFICES ASSUME NEW l \in Lists PROVE SliceOK(list[l], l)'
      BY Zenon
    <2>1. CASE list'[l] = list[l]
      BY <1>1, <2>1, SlicesKept, Zenon DEF BaseOK, SliceOK
    <2>2. CASE Writes(w) /\ l = ListOf(w)
      <3>1. Members(list'[l]) = Members(seen[w]) \cup {w} /\ Registered(w)'
        <4>1. seen[w] \in Seq(Workers) /\ list'[l] = Append(seen[w], w) /\ work'[w] = "open"
          BY <2>2, Lookup, Zenon DEF Writes, BaseOK
        <4>2. Members(Append(seen[w], w)) = Members(seen[w]) \cup {w}
          BY <4>1, AppendMembers, Zenon
        <4> QED BY <4>1, <4>2, Zenon DEF Registered
      <3> QED BY <1>1, <2>2, <3>1, Zenon DEF BaseOK, WorkerOK, SliceOK, Grows
    <2> QED BY <2>1, <2>2, Zenon DEF Reads, Writes, Opens
  <1>3. \A v \in Workers : SliceOK(seen[v], ListOf(v))'
    <2> SUFFICES ASSUME NEW v \in Workers PROVE SliceOK(seen[v], ListOf(v))'
      BY Zenon
    <2>1. ListOf(v) \in Lists
      BY Zenon DEF ListOf, Lists
    <2>2. seen'[v] \in {seen[v], list[ListOf(v)], <<>>}
      BY Zenon DEF Reads, Writes, Opens
    <2> QED BY <1>1, <2>1, <2>2, NoMembers, Zenon DEF BaseOK, WorkerOK, SliceOK, Grows
  <1>4. \A s \in Signallers : SignalOK(s)'
    <2> SUFFICES ASSUME NEW s \in Signallers PROVE SignalOK(s)'
      BY Zenon
    <2>1. sig' = sig /\ closed' = closed
      BY Zenon DEF Reads, Writes, Opens, chanVars
    <2>2. work'[s] = "ended" \/ s \notin Sessions \/ (s \in Workers /\ work[s] # "ended")
      BY Zenon DEF Reads, Writes, Opens, OnlyWork, Workers
    <2> QED BY <1>1, <2>1, <2>2, Zenon DEF BaseOK, SignalOK, SliceOK, Grows
  <1>5. \A v \in Workers : WorkerOK(v)'
    <2> SUFFICES ASSUME NEW v \in Workers PROVE WorkerOK(v)'
      BY Zenon
    <2>1. WorkerOK(v)
      BY Zenon DEF BaseOK
    <2>2. sig' = sig /\ closed' = closed /\ buf' = buf /\ due' = due
      BY Zenon DEF Reads, Writes, Opens, chanVars
    <2>3. /\ v \in reading' => work'[v] = "up" \/ (v \in Followers /\ work'[v] = "ended")
          /\ work'[v] = "up" => v \in reading'
      BY <2>1, Zenon DEF Reads, Writes, Opens, OnlyWork, WorkerOK
    <2> QED BY <1>1, <1>3, <2>1, <2>2, <2>3, Zenon DEF WorkerOK, Grows
  <1> QED BY <1>2, <1>4, <1>5, Zenon DEF BaseOK

(***************************************************************************)
(* The end of a helper keeps it: a session has signalled nobody before.    *)
(***************************************************************************)
LEMMA EndKeepsBase ==
    ASSUME BaseOK, NEW w \in Workers, Ends(w), TypeOK'
    PROVE  BaseOK'
  <1>1. Grows
    BY Zenon DEF Grows, Registered, Ends, OnlyWork
  <1>2. \A l \in Lists : SliceOK(list[l], l)'
    BY <1>1, Zenon DEF BaseOK, SliceOK, Ends, Grows
  <1>3. ASSUME w \in Sessions PROVE sig[w].pc = "idle"
    BY <1>3, SignalsAssumption, Zenon DEF BaseOK, SignalOK, Ends, Signallers
  <1>4. \A s \in Signallers : SignalOK(s)'
    <2> SUFFICES ASSUME NEW s \in Signallers PROVE SignalOK(s)'
      BY Zenon
    <2>1. CASE s = w /\ w \in Sessions
      BY <2>1, NoMembers DEF SignalOK, Ends, SliceOK
    <2>2. CASE s # w \/ w \notin Sessions
      <3>1. sig'[s] = sig[s] /\ closed' = closed
        BY <2>2, Zenon DEF Ends
      <3>2. s \in Sessions => work'[s] = work[s]
        BY <2>2, Zenon DEF Ends, OnlyWork, Workers
      <3> QED BY <1>1, <3>1, <3>2, ZenonT(30) DEF BaseOK, SignalOK, SliceOK, Grows
    <2> QED BY <2>1, <2>2, Zenon
  <1>5. \A v \in Workers : WorkerOK(v)'
    <2> SUFFICES ASSUME NEW v \in Workers PROVE WorkerOK(v)'
      BY Zenon
    <2>1. WorkerOK(v)
      BY Zenon DEF BaseOK
    <2>2. closed' = closed /\ due' = due /\ seen' = seen /\ (buf'[v] > 0 => buf[v] > 0)
      BY Zenon DEF Ends
    <2>3. /\ v \in reading' => work'[v] = "up" \/ (v \in Followers /\ work'[v] = "ended")
          /\ work'[v] = "up" => v \in reading'
      BY <2>1, Zenon DEF Ends, OnlyWork, WorkerOK
    <2>4. SliceOK(seen[v], ListOf(v))'
      BY <1>1, <2>1, <2>2, Zenon DEF WorkerOK, SliceOK, Grows
    <2>5. \A s \in Signallers : sig[s].pc = "close" => sig'[s] = sig[s]
      BY <1>3, Zenon DEF Ends
    <2> QED BY <1>1, <2>1, <2>2, <2>3, <2>4, <2>5, Zenon DEF WorkerOK, Grows
  <1> QED BY <1>2, <1>4, <1>5, Zenon DEF BaseOK

(***************************************************************************)
(* A request that begins with a list keeps it.                             *)
(***************************************************************************)
LEMMA RangeKeepsBase ==
    ASSUME BaseOK, NEW s \in Signallers, NEW l \in Lists, Range(s, l), TypeOK',
           sig[s].pc \in {"idle", "range"}, s \in Sessions => l = "attach" /\ sig[s].pc = "range"
    PROVE  BaseOK'
  <1>1. /\ OnlySignal(s) /\ sig'[s] = [pc |-> "send", on |-> l, todo |-> list[l]]
        /\ due' = due \cup {w \in Workers : ListOf(w) = l /\ Registered(w)}
        /\ UNCHANGED <<list, seen, buf, closed, reading, work>>
    BY RangeEffect, Zenon DEF BaseOK, Range, chanVars, Registered
  <1>2. \A r \in Lists : SliceOK(list[r], r)'
    BY <1>1, Zenon DEF BaseOK, SliceOK, Registered
  <1>3. \A q \in Signallers : SignalOK(q)'
    <2>1. SignalOK(s)'
      BY <1>1 DEF BaseOK, SignalOK, SliceOK, Registered
    <2>2. ASSUME NEW q \in Signallers, q # s PROVE SignalOK(q)'
      BY <1>1, <2>2 DEF OnlySignal, BaseOK, SignalOK, SliceOK, Registered
    <2> QED BY <2>1, <2>2, Zenon
  <1>4. \A v \in Workers : WorkerOK(v)'
    <2> SUFFICES ASSUME NEW v \in Workers PROVE WorkerOK(v)'
      BY Zenon
    <2>1. WorkerOK(v)
      BY Zenon DEF BaseOK
    <2>2. \A q \in Signallers : sig[q].pc = "close" => sig'[q] = sig[q]
      BY <1>1, Zenon DEF OnlySignal
    <2>3. SliceOK(seen[v], ListOf(v))'
      BY <1>1, <2>1, Zenon DEF WorkerOK, SliceOK, Registered
    <2>4. closed'[v] \/ v \in due' => Registered(v)'
      BY <1>1, <2>1, Zenon DEF WorkerOK, Registered
    <2> QED BY <1>1, <2>1, <2>2, <2>3, <2>4, Zenon DEF WorkerOK
  <1> QED BY <1>2, <1>3, <1>4, Zenon DEF BaseOK

(***************************************************************************)
(* The loop of SignalStop and SignalDetach keeps it: who fills the buffer  *)
(* of a channel is the one that closes it, or somebody else has closed it. *)
(***************************************************************************)
LEMMA SignalKeepsBase ==
    ASSUME BaseOK, NEW s \in Signallers, Panics(s) \/ Sends(s) \/ Closes(s) \/ Resets(s), TypeOK'
    PROVE  BaseOK'
  <1>1. /\ OnlySignal(s)
        /\ UNCHANGED <<seen, reading, work, due>>
        /\ \A w \in Workers : closed[w] => closed'[w]
    BY Zenon DEF Panics, Sends, Closes, Resets, chanVars
  <1>2. sig[s].todo \in Seq(Workers) /\ sig[s].on \in Lists /\ sig[s].pc # "idle"
    BY Lookup, Zenon DEF BaseOK, Panics, Sends, Closes, Resets
  <1>3. sig[s].todo # <<>> => /\ Head(sig[s].todo) \in Workers /\ Head(sig[s].todo) \in Members(sig[s].todo)
                             /\ Members(Tail(sig[s].todo)) \subseteq Members(sig[s].todo)
    BY <1>2, TailMembers
  <1>4. \A l \in Lists : SliceOK(list[l], l)'
    <2> SUFFICES ASSUME NEW l \in Lists PROVE SliceOK(list[l], l)'
      BY Zenon
    <2>1. list'[l] = list[l] \/ list'[l] = <<>>
      BY Zenon DEF Panics, Sends, Closes, Resets
    <2> QED BY <1>1, <2>1, NoMembers, Zenon DEF BaseOK, SliceOK, Registered
  <1>5. SliceOK(sig[s].todo, sig[s].on)'
    <2>1. \/ sig'[s].todo \in {sig[s].todo, Tail(sig[s].todo)} /\ sig'[s].on = sig[s].on /\ sig[s].todo # <<>>
          \/ sig'[s].todo = <<>>
      BY SMTT(30) DEF Panics, Sends, Closes, Resets
    <2> QED BY <1>1, <1>3, <2>1, NoMembers, Zenon DEF BaseOK, SignalOK, SliceOK, Registered
  <1>6. SignalOK(s)'
    <2>1. SignalOK(s)
      BY Zenon DEF BaseOK
    <2>2. CASE Panics(s) \/ Sends(s) \/ Closes(s)
      BY <1>1, <1>5, <2>1, <2>2 DEF Panics, Sends, Closes, SignalOK, chanVars
    <2>3. CASE Resets(s)
      BY <1>1, <1>5, <2>1, <2>3 DEF Resets, SignalOK
    <2> QED BY <2>2, <2>3, Zenon
  <1>7. ASSUME NEW q \in Signallers, q # s PROVE SignalOK(q)'
    <2>1. SignalOK(q) /\ sig'[q] = sig[q] /\ sig[q].todo \in Seq(Workers)
      BY <1>1, <1>7, Lookup, Zenon DEF BaseOK, OnlySignal
    <2>2. sig[q].todo # <<>> => Head(sig[q].todo) \in Workers
      BY <2>1, TailMembers, Zenon
    <2> QED BY <1>1, <2>1, <2>2, Zenon DEF SignalOK, SliceOK, Registered
  <1>8. \A v \in Workers : WorkerOK(v)'
    <2> SUFFICES ASSUME NEW v \in Workers PROVE WorkerOK(v)'
      BY Zenon
    <2>1. WorkerOK(v)
      BY Zenon DEF BaseOK
    <2>2. SliceOK(seen[v], ListOf(v))'
      BY <1>1, <2>1, Zenon DEF WorkerOK, SliceOK, Registered
    <2>3. closed'[v] \/ v \in due' => Registered(v)'
      BY <1>1, <1>3, <2>1 DEF WorkerOK, Registered, Panics, Sends, Closes, Resets, chanVars, BaseOK, SignalOK, SliceOK
    <2>4. buf'[v] > 0 /\ ~closed'[v] =>
            \E q \in Signallers : sig'[q].pc = "close" /\ Head(sig'[q].todo) = v
      <3> SUFFICES ASSUME buf'[v] > 0, ~closed'[v]
                   PROVE  \E q \in Signallers : sig'[q].pc = "close" /\ Head(sig'[q].todo) = v
        BY Zenon
      <3>1. CASE Sends(s) /\ v = Head(sig[s].todo)
        BY <3>1 DEF Sends
      <3>2. CASE ~(Sends(s) /\ v = Head(sig[s].todo))
        <4>1. buf'[v] = buf[v]
          BY <3>2, Zenon DEF Panics, Sends, Closes, Resets, chanVars
        <4>2. PICK q \in Signallers : sig[q].pc = "close" /\ Head(sig[q].todo) = v
          BY <1>1, <2>1, <4>1, Zenon DEF WorkerOK
        <4>3. q # s
          BY <1>1, <4>2, Zenon DEF Panics, Sends, Closes, Resets, chanVars
        <4> QED BY <1>1, <4>2, <4>3, Zenon DEF OnlySignal
      <3> QED BY <3>1, <3>2, Zenon
    <2> QED BY <1>1, <2>1, <2>2, <2>3, <2>4, Zenon DEF WorkerOK
  <1> QED BY <1>4, <1>6, <1>7, <1>8, Zenon DEF BaseOK

---------------------------------------------------------------------------
(* The next channel of s is closed: s is about to panic.                   *)
Stale(s) == sig[s].todo # <<>> /\ closed[Head(sig[s].todo)]

(* Nobody has closed a channel of the list yet: whoever signals has all of *)
(* it ahead or is about to panic, and what is due is closed or in the      *)
(* slice of such a request.                                                *)
Fresh(l) ==
    /\ \A w \in Workers : w \in Members(list[l]) => ~closed[w]
    /\ \A s \in Signallers : Active(s, l) => sig[s].todo = list[l] \/ Stale(s)
    /\ \/ \A w \in Workers : w \in due /\ ListOf(w) = l => closed[w]
       \/ list[l] # <<>> /\ \E s \in Signallers : Active(s, l) /\ sig[s].todo = list[l]

(* Request q leads: it closed the first channel of the list, has the open  *)
(* ones ahead, and the others that signal are about to panic.              *)
Led(l, q) ==
    /\ Active(q, l) /\ Distinct(sig[q].todo)
    /\ list[l] # <<>> /\ closed[Head(list[l])]
    /\ \A w \in Workers : w \in Members(sig[q].todo) => ~closed[w]
    /\ \A w \in Workers : w \in Members(list[l]) => closed[w] \/ w \in Members(sig[q].todo)
    /\ \A s \in Signallers : s # q /\ Active(s, l) => Stale(s)

(* One or the other.                                                       *)
Progress(l) == Fresh(l) \/ \E q \in Signallers : Led(l, q)

(* Registered channels are in the list or closed.                          *)
Known(l) ==
    /\ Distinct(list[l])
    /\ \A w \in Workers : ListOf(w) = l /\ Registered(w) => w \in Members(list[l]) \/ closed[w]

(* An append has the list for itself.                                      *)
Alone(l) ==
    \A w \in Workers : ListOf(w) = l /\ work[w] = "append" =>
        /\ seen[w] = list[l]
        /\ \A v \in Workers : ListOf(v) = l /\ work[v] = "append" => v = w
        /\ \A s \in Signallers : ~Active(s, l)

(* What holds of a list whose appends overlapped nothing.                  *)
ListOK(l) == Known(l) /\ Alone(l) /\ Progress(l)

(* It holds of every such list.                                            *)
MixOK == \A l \in Lists \ mixed : ListOK(l)

(* Nothing that matters to list l changes.                                 *)
Same(l) ==
    /\ list'[l] = list[l]
    /\ \A w \in Workers : ListOf(w) = l =>
         closed'[w] = closed[w] /\ (w \in due' <=> w \in due) /\ (Registered(w)' <=> Registered(w))
    /\ \A s \in Signallers : /\ Active(s, l)' <=> Active(s, l)
                             /\ Active(s, l) => sig'[s].todo = sig[s].todo

(***************************************************************************)
(* Such a step keeps what holds of l.                                      *)
(***************************************************************************)
LEMMA SameKeeps ==
    ASSUME BaseOK, NEW l \in Lists, Same(l)
    PROVE  /\ Known(l) => Known(l)'
           /\ Progress(l) => Progress(l)'
  <1>1. /\ list[l] \in Seq(Workers) /\ \A s \in Signallers : sig[s].todo \in Seq(Workers)
        /\ \A w \in Workers : w \in Members(list[l]) => ListOf(w) = l
        /\ \A s \in Signallers : Active(s, l) => \A w \in Workers : w \in Members(sig[s].todo) => ListOf(w) = l
    BY Lookup, Zenon DEF BaseOK, SliceOK, SignalOK, Active
  <1>2. list[l] # <<>> => Head(list[l]) \in Workers /\ ListOf(Head(list[l])) = l
    BY <1>1, TailMembers
  <1>3. \A s \in Signallers : Active(s, l) /\ sig[s].todo # <<>> =>
          Head(sig[s].todo) \in Workers /\ ListOf(Head(sig[s].todo)) = l
    BY <1>1, TailMembers
  <1>4. Known(l) => Known(l)'
    BY <1>1, Zenon DEF Known, Same
  <1>5. \A s \in Signallers : Active(s, l) => (Stale(s)' <=> Stale(s))
    BY <1>3, Zenon DEF Stale, Same
  <1>6. Fresh(l) => Fresh(l)'
    BY <1>1, <1>5, Zenon DEF Fresh, Same
  <1>7. ASSUME NEW q \in Signallers, Led(l, q) PROVE Led(l, q)'
    <2>1. Active(q, l) /\ Active(q, l)' /\ sig'[q].todo = sig[q].todo /\ list'[l] = list[l]
      BY <1>7, Zenon DEF Led, Same
    <2>2. closed'[Head(list[l])]
      BY <1>2, <1>7, Zenon DEF Led, Same
    <2>3. \A w \in Workers : ListOf(w) = l => closed'[w] = closed[w]
      BY Zenon DEF Same
    <2>4. \A w \in Workers : w \in Members(sig[q].todo) => ~closed'[w]
      BY <1>1, <1>7, <2>1, <2>3, Zenon DEF Led
    <2>5. \A w \in Workers : w \in Members(list[l]) => closed'[w] \/ w \in Members(sig[q].todo)
      BY <1>1, <1>7, <2>3, Zenon DEF Led
    <2>6. \A s \in Signallers : s # q /\ Active(s, l)' => Stale(s)'
      BY <1>5, <1>7, Zenon DEF Led, Same
    <2> QED BY <1>7, <2>1, <2>2, <2>4, <2>5, <2>6, Zenon DEF Led
  <1> QED BY <1>4, <1>6, <1>7, Zenon DEF Progress

(***************************************************************************)
(* An append that begins overlaps nothing, or its list is mixed from now   *)
(* on.                                                                     *)
(***************************************************************************)
LEMMA ReadKeepsLists ==
    ASSUME BaseOK, MixOK, NEW w \in Workers, AppendReads(w)
    PROVE  MixOK'
  <1>1. Reads(w)
    BY AppendEffect, Zenon DEF BaseOK
  <1>2. SUFFICES ASSUME NEW l \in Lists, l \notin mixed' PROVE ListOK(l)'
    BY Zenon DEF MixOK
  <1>3. l \notin mixed /\ ListOK(l) /\ (l = ListOf(w) => ~Signalling(l) /\ ~Appending(l))
    BY <1>2, Zenon DEF AppendReads, MixOK
  <1>4. Same(l)
    BY <1>1, Zenon DEF Reads, Same, chanVars, Registered, OnlyWork, Active
  <1>5. Alone(l)'
    <2>1. CASE l = ListOf(w)
      <3>1. \A v \in Workers : ListOf(v) = l /\ work'[v] = "append" => v = w
        BY <1>1, <1>3, <2>1, Zenon DEF Reads, OnlyWork, Appending
      <3>2. \A s \in Signallers : ~Active(s, l)'
        BY <1>1, <1>3, <2>1, Zenon DEF Reads, Signalling, Active
      <3> QED BY <1>1, <2>1, <3>1, <3>2, Zenon DEF Reads, Alone
    <2>2. CASE l # ListOf(w)
      BY <1>1, <1>3, <2>2, ZenonT(30) DEF Reads, OnlyWork, ListOK, Alone, Active
    <2> QED BY <2>1, <2>2, Zenon
  <1> QED BY <1>3, <1>4, <1>5, SameKeeps, Zenon DEF ListOK

(***************************************************************************)
(* The end of an append that overlapped nothing adds its channel, and      *)
(* loses none.                                                             *)
(***************************************************************************)
LEMMA WriteKeepsLists ==
    ASSUME BaseOK, MixOK, NEW w \in Workers, Writes(w)
    PROVE  MixOK'
  <1>1. SUFFICES ASSUME NEW l \in Lists, l \notin mixed PROVE ListOK(l)'
    BY Zenon DEF MixOK, Writes
  <1>2. Known(l) /\ Alone(l) /\ Progress(l)
    BY <1>1, Zenon DEF MixOK, ListOK
  <1>3. CASE l # ListOf(w)
    <2>1. Same(l)
      BY <1>3, Zenon DEF Writes, Same, chanVars, Registered, OnlyWork, Active
    <2>2. Alone(l)'
      BY <1>2, <1>3, ZenonT(30) DEF Writes, OnlyWork, Alone, Active
    <2> QED BY <1>2, <2>1, <2>2, SameKeeps, Zenon DEF ListOK
  <1>4. CASE l = ListOf(w)
    <2>1. /\ seen[w] = list[l] /\ \A s \in Signallers : ~Active(s, l)
          /\ \A v \in Workers : ListOf(v) = l /\ work[v] = "append" => v = w
      BY <1>2, <1>4, Zenon DEF Alone, Writes
    <2>2. list'[l] = Append(list[l], w) /\ list[l] \in Seq(Workers)
      BY <1>4, <2>1, Lookup, Zenon DEF Writes, BaseOK
    <2>3. w \notin Members(list[l]) /\ ~closed[w]
      BY Zenon DEF BaseOK, SliceOK, WorkerOK, Registered, Writes
    <2>4. Members(list'[l]) = Members(list[l]) \cup {w} /\ (Distinct(list[l]) => Distinct(list'[l]))
      BY <2>2, <2>3, AppendMembers, Zenon
    <2>5. Fresh(l)
      BY <1>2, <2>1, Zenon DEF Progress, Led
    <2>6. \A s \in Signallers : ~Active(s, l)'
      BY <2>1, Zenon DEF Writes, Active
    <2>7. closed' = closed /\ due' = due
      BY Zenon DEF Writes, chanVars
    <2>8. Known(l)'
      BY <1>2, <2>4, <2>7, Zenon DEF Known, Writes, OnlyWork, Registered
    <2>9. Alone(l)'
      BY <2>1, Zenon DEF Alone, Writes, OnlyWork
    <2>10. Fresh(l)'
      BY <2>1, <2>3, <2>4, <2>5, <2>6, <2>7, Zenon DEF Fresh
    <2> QED BY <2>8, <2>9, <2>10, Zenon DEF ListOK, Progress
  <1> QED BY <1>3, <1>4, Zenon

(***************************************************************************)
(* Helpers that start and end change no list.                              *)
(***************************************************************************)
LEMMA WorkKeepsLists ==
    ASSUME BaseOK, MixOK, NEW w \in Workers, Opens(w) \/ Ends(w)
    PROVE  MixOK'
  <1>1. SUFFICES ASSUME NEW l \in Lists, l \notin mixed PROVE ListOK(l)'
    BY Zenon DEF MixOK, Opens, Ends
  <1>2. Known(l) /\ Alone(l) /\ Progress(l)
    BY <1>1, Zenon DEF MixOK, ListOK
  <1>3. \A s \in Signallers : /\ Active(s, l)' <=> Active(s, l)
                              /\ Active(s, l) => sig'[s].todo = sig[s].todo
    <2>1. CASE Opens(w)
      BY <2>1, Zenon DEF Opens, Active
    <2>2. CASE Ends(w)
      <3> SUFFICES ASSUME NEW s \in Signallers
                   PROVE  /\ Active(s, l)' <=> Active(s, l)
                          /\ Active(s, l) => sig'[s].todo = sig[s].todo
        BY Zenon
      <3>1. CASE s = w /\ w \in Sessions
        <4>1. sig[w].pc = "idle"
          BY <2>2, <3>1, SignalsAssumption, Zenon DEF Ends, BaseOK, SignalOK
        <4> QED BY <2>2, <3>1, <4>1 DEF Ends, Active
      <3>2. CASE s # w \/ w \notin Sessions
        BY <2>2, <3>2, Zenon DEF Ends, Active
      <3> QED BY <3>1, <3>2, Zenon
    <2> QED BY <2>1, <2>2, Zenon
  <1>4. Same(l)
    BY <1>3, Zenon DEF Opens, Ends, Same, chanVars, Registered, OnlyWork
  <1>5. Alone(l)'
    BY <1>2, <1>3, Zenon DEF Opens, Ends, OnlyWork, Alone
  <1> QED BY <1>2, <1>4, <1>5, SameKeeps, Zenon DEF ListOK

(***************************************************************************)
(* A request that begins with a list joins those that have all of it       *)
(* ahead, or will panic at its first channel.                              *)
(***************************************************************************)
LEMMA RangeKeepsLists ==
    ASSUME BaseOK, MixOK, NEW s \in Signallers, NEW r \in Lists, Range(s, r),
           sig[s].pc \in {"idle", "range"}
    PROVE  MixOK'
  <1>1. /\ OnlySignal(s) /\ sig'[s] = [pc |-> "send", on |-> r, todo |-> list[r]]
        /\ due' = due \cup {w \in Workers : ListOf(w) = r /\ Registered(w)}
        /\ UNCHANGED <<list, seen, closed, work>>
    BY RangeEffect, Zenon DEF BaseOK, Range, chanVars, Registered
  <1>2. SUFFICES ASSUME NEW l \in Lists, l \notin mixed' PROVE ListOK(l)'
    BY Zenon DEF MixOK
  <1>3. Known(l) /\ Alone(l) /\ Progress(l) /\ (l = r => ~Appending(l))
    BY <1>2, Zenon DEF Range, MixOK, ListOK
  <1>4. CASE l # r
    <2>1. \A q \in Signallers : /\ Active(q, l)' <=> Active(q, l)
                                /\ Active(q, l) => sig'[q].todo = sig[q].todo
      BY <1>1, <1>4 DEF OnlySignal, Active
    <2>2. Same(l)
      BY <1>1, <1>4, <2>1, Zenon DEF Same, Registered
    <2>3. Alone(l)'
      BY <1>1, <1>3, <2>1, Zenon DEF Alone
    <2> QED BY <1>3, <2>2, <2>3, SameKeeps, Zenon DEF ListOK
  <1>5. CASE l = r
    <2>1. Known(l)'
      BY <1>1, <1>3, Zenon DEF Known, Registered
    <2>2. Alone(l)'
      BY <1>1, <1>3, <1>5, Zenon DEF Alone, Appending
    <2>3. \A q \in Signallers : q # s => (Active(q, l)' <=> Active(q, l)) /\ (Stale(q)' <=> Stale(q))
      BY <1>1, Zenon DEF OnlySignal, Active, Stale
    <2>4. ~Active(s, l) /\ Active(s, l)' /\ sig'[s].todo = list[l]
      BY <1>1, <1>5 DEF Active
    <2>5. ASSUME Fresh(l) PROVE Fresh(l)'
      <3>1. \A q \in Signallers : Active(q, l)' => sig'[q].todo = list'[l] \/ Stale(q)'
        BY <1>1, <2>3, <2>4, <2>5, Zenon DEF Fresh, OnlySignal
      <3>2. CASE list[l] = <<>>
        <4>1. \A w \in Workers : ListOf(w) = l /\ Registered(w) => closed[w]
          BY <1>3, <3>2, NoMembers, Zenon DEF Known
        <4>2. \A w \in Workers : w \in due => Registered(w)
          BY Zenon DEF BaseOK, WorkerOK
        <4>3. \A w \in Workers : w \in due' /\ ListOf(w) = l => closed'[w]
          BY <1>1, <4>1, <4>2, Zenon
        <4> QED BY <1>1, <2>5, <3>1, <4>3, Zenon DEF Fresh
      <3>3. CASE list[l] # <<>>
        BY <1>1, <2>4, <2>5, <3>1, <3>3, Zenon DEF Fresh
      <3> QED BY <3>2, <3>3, Zenon
    <2>6. ASSUME NEW q \in Signallers, Led(l, q) PROVE Led(l, q)'
      <3>1. q # s /\ sig'[q] = sig[q] /\ Active(q, l)'
        BY <1>1, <2>3, <2>4, <2>6, Zenon DEF Led, OnlySignal
      <3>2. Stale(s)'
        BY <1>1, <2>4, <2>6, Zenon DEF Led, Stale
      <3> QED BY <1>1, <2>3, <2>6, <3>1, <3>2, Zenon DEF Led
    <2> QED BY <1>3, <2>1, <2>2, <2>5, <2>6, Zenon DEF ListOK, Progress
  <1> QED BY <1>4, <1>5, Zenon

(***************************************************************************)
(* A request changes nothing for the other list.                           *)
(***************************************************************************)
LEMMA OtherList ==
    ASSUME BaseOK, NEW s \in Signallers, Panics(s) \/ Sends(s) \/ Closes(s) \/ Resets(s),
           NEW l \in Lists, l # sig[s].on, ListOK(l)
    PROVE  ListOK(l)'
  <1>1. sig[s].todo # <<>> => Head(sig[s].todo) \in Workers /\ ListOf(Head(sig[s].todo)) = sig[s].on
    BY Lookup, TailMembers DEF BaseOK, SignalOK, SliceOK
  <1>2. \A w \in Workers : ListOf(w) = l => closed'[w] = closed[w]
    BY <1>1, Zenon DEF Panics, Sends, Closes, Resets, chanVars
  <1>3. list'[l] = list[l] /\ UNCHANGED <<seen, work, due>> /\ OnlySignal(s)
    BY Zenon DEF Panics, Sends, Closes, Resets
  <1>4. ~Active(s, l) /\ ~Active(s, l)'
    BY DEF Panics, Sends, Closes, Resets, Active
  <1>5. \A q \in Signallers : /\ Active(q, l)' <=> Active(q, l)
                              /\ Active(q, l) => sig'[q].todo = sig[q].todo
    BY <1>3, <1>4, Zenon DEF OnlySignal, Active
  <1>6. Same(l)
    BY <1>2, <1>3, <1>5, Zenon DEF Same, Registered
  <1>7. Alone(l)'
    BY <1>3, <1>5, Zenon DEF ListOK, Alone
  <1> QED BY <1>6, <1>7, SameKeeps, Zenon DEF ListOK

(***************************************************************************)
(* The loop keeps what holds of an unmixed list: the first to close a      *)
(* channel leads from then on, the others panic at that channel, and when  *)
(* the leader resets the list every channel of it is closed.               *)
(***************************************************************************)
LEMMA SignalKeepsLists ==
    ASSUME BaseOK, MixOK, NEW s \in Signallers, Panics(s) \/ Sends(s) \/ Closes(s) \/ Resets(s)
    PROVE  MixOK'
  <1>a. PICK l : l = sig[s].on
    BY Zenon
  <1>b. PICK h, t : h = Head(sig[s].todo) /\ t = Tail(sig[s].todo)
    BY Zenon
  <1>1. mixed' = mixed
    BY Zenon DEF Panics, Sends, Closes, Resets
  <1>2. SUFFICES ASSUME l \notin mixed PROVE ListOK(l)'
    BY <1>a, <1>1, OtherList, Zenon DEF MixOK
  <1>3. /\ l \in Lists /\ Known(l) /\ Alone(l) /\ Progress(l) /\ sig[s].todo \in Seq(Workers)
        /\ list[l] \in Seq(Workers)
    BY <1>a, <1>2, Lookup, Zenon DEF MixOK, ListOK, BaseOK
  <1>4. Active(s, l) /\ OnlySignal(s) /\ UNCHANGED <<seen, work, due>>
    BY <1>a, Zenon DEF Panics, Sends, Closes, Resets, Active
  <1>5. sig[s].todo # <<>> =>
          /\ h \in Workers /\ h \in Members(sig[s].todo)
          /\ Members(sig[s].todo) = {h} \cup Members(t)
          /\ Distinct(sig[s].todo) => Distinct(t) /\ h \notin Members(t)
    BY <1>b, <1>3, TailMembers
  <1>6. \A w \in Workers : ListOf(w) = l => work[w] # "append"
    BY <1>3, <1>4, Zenon DEF Alone
  <1>7. Alone(l)'
    BY <1>4, <1>6, Zenon DEF Alone
  <1>8. \A q \in Signallers : q # s => (Active(q, l)' <=> Active(q, l)) /\ sig'[q] = sig[q]
    BY <1>4, Zenon DEF OnlySignal, Active
  <1>9. CASE Sends(s)
    <2>1. Active(s, l)' /\ sig'[s].todo = sig[s].todo
      BY <1>a, <1>9 DEF Sends, Active
    <2>2. Same(l)
      BY <1>4, <1>8, <1>9, <2>1, Zenon DEF Same, Registered, Sends
    <2> QED BY <1>3, <1>7, <2>2, SameKeeps, Zenon DEF ListOK
  <1>10. CASE Panics(s)
    <2>1. ~Active(s, l)' /\ UNCHANGED <<list, closed>> /\ sig[s].todo # <<>> /\ closed[h]
      BY <1>a, <1>b, <1>10 DEF Panics, Active, chanVars
    <2>2. Known(l)'
      BY <1>3, <1>4, <2>1, Zenon DEF Known, Registered
    <2>3. \A q \in Signallers : q # s => (Stale(q)' <=> Stale(q))
      BY <1>8, <2>1, Zenon DEF Stale
    <2>4. ASSUME Fresh(l) PROVE Fresh(l)'
      <3>1. sig[s].todo # list[l]
        BY <1>5, <2>1, <2>4, Zenon DEF Fresh
      <3> QED BY <1>4, <1>8, <2>1, <2>3, <2>4, <3>1, Zenon DEF Fresh
    <2>5. ASSUME NEW q \in Signallers, Led(l, q) PROVE Led(l, q)'
      <3>1. q # s
        BY <1>5, <2>1, <2>5, Zenon DEF Led
      <3> QED BY <1>8, <2>1, <2>3, <2>5, <3>1, Zenon DEF Led
    <2> QED BY <1>3, <1>7, <2>2, <2>4, <2>5, Zenon DEF ListOK, Progress
  <1>11. CASE Closes(s)
    <2>1. /\ Active(s, l)' /\ list' = list /\ sig[s].todo # <<>> /\ ~closed[h]
          /\ sig'[s].todo = t
          /\ closed'[h] /\ \A w \in Workers : w # h => closed'[w] = closed[w]
      BY <1>a, <1>b, <1>11 DEF Closes, Active
    <2>2. Known(l)'
      BY <1>3, <1>4, <1>5, <2>1, Zenon DEF Known, Registered
    <2>3. \A q \in Signallers : q # s /\ Stale(q) => Stale(q)'
      <3> SUFFICES ASSUME NEW q \in Signallers, q # s, Stale(q) PROVE Stale(q)'
        BY Zenon
      <3>1. Head(sig[q].todo) \in Workers
        BY Lookup, TailMembers, Zenon DEF BaseOK, Stale
      <3> QED BY <1>8, <2>1, <3>1, Zenon DEF Stale
    <2>4. ~Stale(s)
      BY <1>b, <2>1, Zenon DEF Stale
    <2>5. ASSUME Fresh(l) PROVE Led(l, s)'
      <3>1. sig[s].todo = list[l]
        BY <1>4, <2>4, <2>5, Zenon DEF Fresh
      <3>2. \A q \in Signallers : q # s /\ Active(q, l)' => Stale(q)'
        <4> SUFFICES ASSUME NEW q \in Signallers, q # s, Active(q, l), ~Stale(q) PROVE Stale(q)'
          BY <1>8, <2>3, Zenon
        <4>1. sig[q].todo = list[l]
          BY <2>5, Zenon DEF Fresh
        <4> QED BY <1>b, <1>8, <2>1, <3>1, <4>1, Zenon DEF Stale
      <3>3. Distinct(sig'[s].todo) /\ h \notin Members(sig'[s].todo)
        BY <1>3, <1>5, <2>1, <3>1, Zenon DEF Known
      <3>4. \A w \in Workers : w \in Members(sig'[s].todo) => ~closed'[w]
        BY <1>5, <2>1, <2>5, <3>1, <3>3, Zenon DEF Fresh
      <3>5. \A w \in Workers : w \in Members(list[l]) => closed'[w] \/ w \in Members(sig'[s].todo)
        BY <1>5, <2>1, <3>1, Zenon
      <3> QED BY <1>b, <2>1, <3>1, <3>2, <3>3, <3>4, <3>5, Zenon DEF Led
    <2>6. ASSUME NEW q \in Signallers, Led(l, q) PROVE Led(l, s)'
      <3>1. q = s
        BY <1>4, <2>4, <2>6, Zenon DEF Led
      <3>2. \A r \in Signallers : r # s /\ Active(r, l)' => Stale(r)'
        BY <1>8, <2>3, <2>6, <3>1, Zenon DEF Led
      <3>3. Distinct(sig'[s].todo) /\ h \notin Members(sig'[s].todo)
        BY <1>5, <2>1, <2>6, <3>1, Zenon DEF Led
      <3>4. \A w \in Workers : w \in Members(sig'[s].todo) => ~closed'[w]
        BY <1>5, <2>1, <2>6, <3>1, <3>3, Zenon DEF Led
      <3>5. \A w \in Workers : w \in Members(list[l]) => closed'[w] \/ w \in Members(sig'[s].todo)
        BY <1>5, <2>1, <2>6, <3>1, Zenon DEF Led
      <3>6. list[l] # <<>> /\ closed'[Head(list[l])]
        <4>1. list[l] # <<>> /\ closed[Head(list[l])] /\ Head(list[l]) \in Workers
          BY <1>3, <2>6, TailMembers, Zenon DEF Led
        <4> QED BY <2>1, <4>1, Zenon
      <3> QED BY <2>1, <3>2, <3>3, <3>4, <3>5, <3>6, Zenon DEF Led
    <2> QED BY <1>3, <1>7, <2>2, <2>5, <2>6, Zenon DEF ListOK, Progress
  <1>12. CASE Resets(s)
    <2>1. /\ ~Active(s, l)' /\ list'[l] = <<>> /\ sig[s].todo = <<>> /\ closed' = closed
      BY <1>a, <1>12 DEF Resets, Active, chanVars
    <2>2. \A w \in Workers : w \in Members(list[l]) => closed[w]
      <3>1. ~Stale(s)
        BY <2>1, Zenon DEF Stale
      <3>2. CASE Fresh(l)
        BY <1>4, <2>1, <3>1, <3>2, NoMembers, Zenon DEF Fresh
      <3>3. ASSUME NEW q \in Signallers, Led(l, q) PROVE q = s
        BY <1>4, <3>1, <3>3, Zenon DEF Led
      <3>4. CASE Led(l, s)
        BY <2>1, <3>4, NoMembers, Zenon DEF Led
      <3> QED BY <1>3, <3>2, <3>3, <3>4, Zenon DEF Progress
    <2>3. \A w \in Workers : ListOf(w) = l /\ Registered(w) => closed[w]
      BY <1>3, <2>2, Zenon DEF Known
    <2>4. Known(l)'
      BY <1>4, <2>1, <2>3, NoMembers, Zenon DEF Known, Registered
    <2>5. \A q \in Signallers : Active(q, l)' => sig'[q].todo = <<>> \/ Stale(q)'
      <3> SUFFICES ASSUME NEW q \in Signallers, q # s, Active(q, l) PROVE sig[q].todo = <<>> \/ Stale(q)
        BY <1>8, <2>1, Zenon DEF Stale
      <3>1. CASE Fresh(l)
        <4>1. list[l] = <<>>
          BY <1>4, <2>1, <3>1, Zenon DEF Fresh, Stale
        <4> QED BY <3>1, <4>1, Zenon DEF Fresh
      <3>2. ASSUME NEW r \in Signallers, Led(l, r) PROVE Stale(q)
        BY <1>4, <2>1, <3>2, Zenon DEF Led, Stale
      <3> QED BY <1>3, <3>1, <3>2, Zenon DEF Progress
    <2>6. \A w \in Workers : w \in due' /\ ListOf(w) = l => closed'[w]
      BY <1>4, <2>1, <2>3, Zenon DEF BaseOK, WorkerOK
    <2>7. Fresh(l)'
      BY <2>1, <2>5, <2>6, NoMembers, Zenon DEF Fresh
    <2> QED BY <1>7, <2>4, <2>7, Zenon DEF ListOK, Progress
  <1> QED BY <1>9, <1>10, <1>11, <1>12, Zenon

---------------------------------------------------------------------------
(* A request begins with list l, SignalDetach before SignalStop.           *)
Ranges(s, l) ==
    /\ Range(s, l)
    /\ sig[s].pc \in {"idle", "range"}
    /\ s \in Sessions => l = "attach" /\ sig[s].pc = "range"
    /\ sig[s].on = "stop" => l = "stop"

(* A step of the loop.                                                     *)
SignalMoves(s) == Panics(s) \/ Sends(s) \/ Closes(s) \/ Resets(s)

(***************************************************************************)
(* Every step is one of those above.                                       *)
(***************************************************************************)
LEMMA Steps == ASSUME BaseOK, Next
    PROVE  \/ \E w \in Workers : AppendReads(w) /\ Reads(w)
           \/ \E w \in Workers : Writes(w) \/ Opens(w) \/ Ends(w)
           \/ \E s \in Signallers, l \in Lists : Ranges(s, l)
           \/ \E s \in Signallers : SignalMoves(s)
  <1>0. TypeOK
    BY Zenon DEF BaseOK
  <1>1. ASSUME NEW w \in Workers, AppendReads(w) \/ WorkerStep(w) \/ StreamEnds(w)
        PROVE  (AppendReads(w) /\ Reads(w)) \/ Writes(w) \/ Opens(w) \/ Ends(w)
    BY <1>0, <1>1, AppendEffect, EndEffect, Zenon DEF WorkerStep
  <1>2. ASSUME NEW s \in Signallers, SignalStep(s)
        PROVE  (\E l \in Lists : Ranges(s, l)) \/ SignalMoves(s)
    <2>1. CASE Proceed(s)
      <3>1. s \in Sessions => sig[s].on = "attach"
        BY Zenon DEF BaseOK, SignalOK
      <3>2. CASE s \in Sessions
        BY <2>1, <3>1, <3>2, Zenon DEF Proceed, Ranges, Lists
      <3>3. CASE s \notin Sessions
        BY <2>1, <3>1, <3>3, Zenon DEF Proceed, Ranges, Lists
      <3> QED BY <3>2, <3>3, Zenon
    <2> QED BY <1>0, <1>2, <2>1, SendEffect, CloseEffect, ResetEffect, Zenon DEF SignalStep, SignalMoves
  <1>3. ASSUME NEW r \in Requests, Request(r) PROVE r \in Signallers /\ Ranges(r, "attach")
    <2>1. r \in Signallers /\ r \notin Sessions
      BY SignalsAssumption, Zenon DEF Signallers
    <2>2. sig[r].pc = "idle" /\ sig[r].on = "attach"
      BY <1>3, <2>1, Zenon DEF Request, BaseOK, SignalOK
    <2> QED BY <1>3, <2>1, <2>2, Zenon DEF Request, Ranges
  <1> QED BY <1>1, <1>2, <1>3, Zenon DEF Next, Lists

(***************************************************************************)
(* In the beginning the lists are empty and nobody signals.                *)
(***************************************************************************)
LEMMA InitLists == Init => BaseOK /\ MixOK
  <1> SUFFICES ASSUME Init PROVE BaseOK /\ MixOK
    BY Zenon
  <1>1. /\ \A l \in Lists : list[l] = <<>>
        /\ \A w \in Workers : seen[w] = <<>> /\ buf[w] = 0 /\ ~closed[w] /\ work[w] = "off"
        /\ \A s \in Signallers : sig[s] = [pc |-> "idle", on |-> "attach", todo |-> <<>>]
        /\ reading = {} /\ due = {} /\ mixed = {}
    BY Zenon DEF Init, SignalIdle
  <1>2. TypeOK
    <2>1. sig \in [Signallers -> SigType]
      BY DEF Init, SignalIdle, SigType, Lists
    <2> QED BY <2>1 DEF Init, TypeOK, Capacity, SigType
  <1>3. BaseOK
    <2>1. \A l \in Lists : SliceOK(list[l], l)
      BY <1>1, NoMembers, Zenon DEF SliceOK
    <2>2. \A w \in Workers : WorkerOK(w)
      BY <1>1, NoMembers DEF SliceOK, WorkerOK
    <2>3. \A s \in Signallers : SignalOK(s)
      BY <1>1, NoMembers DEF SliceOK, SignalOK
    <2> QED BY <1>2, <2>1, <2>2, <2>3, Zenon DEF BaseOK
  <1>4. \A l \in Lists : Fresh(l) /\ Known(l) /\ Alone(l)
    BY <1>1, NoMembers DEF Fresh, Known, Alone, Active, Registered
  <1> QED BY <1>3, <1>4, Zenon DEF MixOK, ListOK, Progress

(***************************************************************************)
(* Nothing changes when no step is taken.                                  *)
(***************************************************************************)
LEMMA IdleKeeps == ASSUME BaseOK, MixOK, UNCHANGED vars PROVE BaseOK' /\ MixOK'
  <1>1. BaseOK'
    BY SMTT(30) DEF vars, chanVars, BaseOK, TypeOK, SliceOK, WorkerOK, SignalOK, Registered
  <1>2. MixOK'
    BY DEF vars, chanVars, MixOK, ListOK, Known, Alone, Progress, Fresh, Led, Active, Stale, Registered
  <1> QED BY <1>1, <1>2, Zenon

(***************************************************************************)
(* Every step keeps what holds of the lists.                               *)
(***************************************************************************)
LEMMA StepKeeps == ASSUME BaseOK, MixOK, Next PROVE BaseOK' /\ MixOK'
  <1>1. TypeOK'
    BY TypeKept, Zenon
  <1>2. ASSUME NEW w \in Workers, AppendReads(w), Reads(w) PROVE BaseOK' /\ MixOK'
    BY <1>1, <1>2, AppendKeepsBase, ReadKeepsLists, Zenon
  <1>3. ASSUME NEW w \in Workers, Writes(w) \/ Opens(w) \/ Ends(w) PROVE BaseOK' /\ MixOK'
    BY <1>1, <1>3, AppendKeepsBase, EndKeepsBase, WriteKeepsLists, WorkKeepsLists, Zenon
  <1>4. ASSUME NEW s \in Signallers, NEW l \in Lists, Ranges(s, l) PROVE BaseOK' /\ MixOK'
    BY <1>1, <1>4, RangeKeepsBase, RangeKeepsLists, Zenon DEF Ranges
  <1>5. ASSUME NEW s \in Signallers, SignalMoves(s) PROVE BaseOK' /\ MixOK'
    BY <1>1, <1>5, SignalKeepsBase, SignalKeepsLists, Zenon DEF SignalMoves
  <1> QED BY Steps, <1>2, <1>3, <1>4, <1>5, Zenon

(***************************************************************************)
(* It holds in every state of every behaviour.                             *)
(***************************************************************************)
LEMMA Invariance == Spec => [](BaseOK /\ MixOK)
  <1>1. BaseOK /\ MixOK /\ [Next]_vars => BaseOK' /\ MixOK'
    BY StepKeeps, IdleKeeps, Zenon
  <1> QED BY InitLists, <1>1, PTL DEF Spec

(***************************************************************************)
(* Once the signals of a list are over, each channel that was registered   *)
(* before one of them is closed, for any number of helpers and of requests *)
(* that signal at once, when no append overlapped another append or a      *)
(* signal.                                                                 *)
(***************************************************************************)
THEOREM Notified == Spec => []NotifiedUnlessMixed
  <1>1. BaseOK /\ MixOK => NotifiedUnlessMixed
    <2> SUFFICES ASSUME BaseOK, MixOK, NEW l \in Lists, l \notin mixed, ~Signalling(l),
                        NEW w \in due, ListOf(w) = l
                 PROVE  closed[w]
      BY Zenon DEF NotifiedUnlessMixed
    <2>1. w \in Workers
      BY Zenon DEF BaseOK, TypeOK
    <2>2. \A s \in Signallers : ~Active(s, l)
      BY Zenon DEF Signalling, Active
    <2>3. Fresh(l)
      BY <2>2, Zenon DEF MixOK, ListOK, Progress, Led
    <2> QED BY <2>1, <2>2, <2>3, Zenon DEF Fresh
  <1> QED BY Invariance, <1>1, PTL

---------------------------------------------------------------------------
(* Request q has only channels ahead that were registered after all the    *)
(* closed ones of its list.                                                *)
Ahead(rank, q, l) ==
    \A w \in Workers : ListOf(w) = l /\ closed[w] =>
        \A x \in Workers : x \in Members(sig[q].todo) => rank[w] < rank[x]

(* Ranks number the registrations: each slice that somebody holds is in    *)
(* their order, however old it is.                                         *)
Order(rank, n) ==
    /\ \A w \in Workers : Registered(w) => rank[w] < n
    /\ \A l \in Lists : Rising(rank, list[l])
    /\ \A w \in Workers : Rising(rank, seen[w])
    /\ \A s \in Signallers : Rising(rank, sig[s].todo)

(* Once a channel is closed, a request has got through the list or is      *)
(* ahead.                                                                  *)
LeadOK(rank, l) ==
    (\E w \in Workers : ListOf(w) = l /\ closed[w]) =>
        \E q \in Signallers : Finished(q, l) \/ (Active(q, l) /\ Ahead(rank, q, l))

(* Both.                                                                   *)
Ranked(rank, n) == Order(rank, n) /\ \A l \in Lists : LeadOK(rank, l)

(* There are such ranks, also of a list that is mixed.                     *)
RankOK == \E rank \in [Workers -> Nat], n \in Nat : Ranked(rank, n)

(***************************************************************************)
(* A step that closes no channel of l and takes nothing from its requests  *)
(* keeps a leader.                                                         *)
(***************************************************************************)
LEMMA LeadKept ==
    ASSUME NEW rank, NEW l \in Lists, LeadOK(rank, l),
           \A w \in Workers : ListOf(w) = l => closed'[w] = closed[w],
           \A q \in Signallers : Finished(q, l) => Finished(q, l)',
           \A q \in Signallers : Active(q, l) => Active(q, l)' /\ sig'[q].todo = sig[q].todo
    PROVE  LeadOK(rank, l)'
  BY Zenon DEF LeadOK, Ahead

(***************************************************************************)
(* Helpers that begin an append, start and end keep the ranks.             *)
(***************************************************************************)
LEMMA WorkKeepsRank ==
    ASSUME BaseOK, NEW rank \in [Workers -> Nat], NEW n \in Nat, Ranked(rank, n),
           NEW w \in Workers, Reads(w) \/ Opens(w) \/ Ends(w)
    PROVE  Ranked(rank, n)'
  <1>1. closed' = closed /\ list' = list
    BY Zenon DEF Reads, Opens, Ends, chanVars
  <1>2. \A v \in Workers : Registered(v)' => Registered(v)
    BY Zenon DEF Reads, Opens, Ends, OnlyWork, Registered
  <1>3. w \in Sessions => w \in Signallers /\ (Ends(w) => sig[w].pc = "idle" /\ sig[w].on = "attach")
    BY SignalsAssumption, Zenon DEF BaseOK, SignalOK, Ends, Signallers
  <1>4. \A s \in Signallers : sig'[s] = sig[s] \/ (sig'[s].todo = <<>> /\ sig[s].pc = "idle" /\ sig[s].on = "attach")
    BY <1>3 DEF Reads, Opens, Ends
  <1>5. \A v \in Workers : Rising(rank, seen'[v])
    <2>1. ListOf(w) \in Lists
      BY Zenon DEF ListOf, Lists
    <2> QED BY <2>1, Zenon DEF Reads, Opens, Ends, Ranked, Order
  <1>6. \A s \in Signallers : Rising(rank, sig'[s].todo)
    BY <1>4, NoMembers, Zenon DEF Ranked, Order
  <1>7. \A l \in Lists : LeadOK(rank, l)'
    <2> SUFFICES ASSUME NEW l \in Lists PROVE LeadOK(rank, l)'
      BY Zenon
    <2>1. \A q \in Signallers : /\ Finished(q, l) => Finished(q, l)'
                                /\ Active(q, l) => Active(q, l)' /\ sig'[q].todo = sig[q].todo
      BY <1>4, Zenon DEF Finished, Active
    <2> QED BY <1>1, <2>1, LeadKept, Zenon DEF Ranked
  <1> QED BY <1>1, <1>2, <1>5, <1>6, <1>7, Zenon DEF Ranked, Order

(***************************************************************************)
(* The end of an append gives its channel the next rank, whatever was lost *)
(* of the list meanwhile.                                                  *)
(***************************************************************************)
LEMMA WriteKeepsRank ==
    ASSUME BaseOK, NEW rank \in [Workers -> Nat], NEW n \in Nat, Ranked(rank, n),
           NEW w \in Workers, Writes(w)
    PROVE  \E new \in [Workers -> Nat] : Ranked(new, n + 1)'
  <1> DEFINE new == [rank EXCEPT ![w] = n]
  <1>1. /\ new \in [Workers -> Nat] /\ new[w] = n
        /\ \A v \in Workers : v # w => new[v] = rank[v]
    BY Zenon
  <1>2. /\ ~Registered(w) /\ closed' = closed /\ sig' = sig
        /\ \A v \in Workers : v # w => (Registered(v)' <=> Registered(v))
    BY Zenon DEF Writes, Registered, OnlyWork, chanVars
  <1> HIDE DEF new
  <1>3. ASSUME NEW q \in Seq(Workers), NEW l, SliceOK(q, l), Rising(rank, q)
        PROVE  Rising(new, q) /\ w \notin Members(q)
    <2>1. w \notin Members(q)
      BY <1>2, <1>3, Zenon DEF SliceOK
    <2>2. \A i \in 1 .. Len(q) : q[i] \in Workers /\ q[i] # w
      BY <2>1 DEF Members
    <2> QED BY <1>1, <1>3, <2>1, <2>2, Zenon DEF Rising
  <1>4. /\ \A l \in Lists : list[l] \in Seq(Workers) /\ SliceOK(list[l], l) /\ Rising(rank, list[l])
        /\ \A v \in Workers : seen[v] \in Seq(Workers) /\ SliceOK(seen[v], ListOf(v)) /\ Rising(rank, seen[v])
        /\ \A s \in Signallers : /\ sig[s].todo \in Seq(Workers) /\ SliceOK(sig[s].todo, sig[s].on)
                                  /\ Rising(rank, sig[s].todo)
    BY Lookup, Zenon DEF BaseOK, WorkerOK, SignalOK, Ranked, Order
  <1>5. \A v \in Workers : Registered(v)' => new[v] < n + 1
    BY <1>1, <1>2 DEF Ranked, Order
  <1>6. Rising(new, Append(seen[w], w))
    <2>1. \A x \in Members(seen[w]) : x \in Workers /\ x # w /\ Registered(x)
      <3>1. Members(seen[w]) \subseteq Workers
        BY <1>4 DEF Members
      <3> QED BY <1>2, <1>4, <3>1, Zenon DEF SliceOK
    <2>2. \A x \in Members(seen[w]) : new[x] < new[w]
      BY <1>1, <2>1, Zenon DEF Ranked, Order
    <2>3. Rising(new, seen[w])
      BY <1>3, <1>4, Zenon
    <2> QED BY <1>1, <1>4, <2>2, <2>3, AppendRises, Zenon
  <1>7. \A l \in Lists : Rising(new, list'[l])
    BY <1>3, <1>4, <1>6, Zenon DEF Writes
  <1>8. \A v \in Workers : Rising(new, seen'[v])
    BY <1>3, <1>4, NoMembers, Zenon DEF Writes
  <1>9. \A s \in Signallers : Rising(new, sig'[s].todo)
    BY <1>2, <1>3, <1>4, Zenon
  <1>10. \A l \in Lists : LeadOK(new, l)'
    <2>1. ~closed[w]
      BY <1>2, Zenon DEF BaseOK, WorkerOK
    <2>2. \A s \in Signallers : w \notin Members(sig[s].todo)
      BY <1>3, <1>4, Zenon
    <2>3. \A l \in Lists : LeadOK(new, l)
      BY <1>1, <2>1, <2>2 DEF Ranked, LeadOK, Ahead
    <2>4. \A l \in Lists, q \in Signallers :
            /\ Finished(q, l) => Finished(q, l)'
            /\ Active(q, l) => Active(q, l)' /\ sig'[q].todo = sig[q].todo
      BY <1>2, Zenon DEF Finished, Active
    <2> QED BY <1>2, <2>3, <2>4, LeadKept, Zenon
  <1> QED BY <1>1, <1>5, <1>7, <1>8, <1>9, <1>10, Zenon DEF Ranked, Order

(***************************************************************************)
(* A request that begins keeps the ranks.                                  *)
(***************************************************************************)
LEMMA RangeKeepsRank ==
    ASSUME BaseOK, NEW rank \in [Workers -> Nat], NEW n \in Nat, Ranked(rank, n),
           NEW s \in Signallers, NEW r \in Lists, Ranges(s, r)
    PROVE  Ranked(rank, n)'
  <1>1. /\ OnlySignal(s) /\ sig'[s] = [pc |-> "send", on |-> r, todo |-> list[r]]
        /\ UNCHANGED <<list, seen, closed, work>>
    BY RangeEffect, Zenon DEF BaseOK, Ranges, Range, chanVars
  <1>2. Order(rank, n)'
    BY <1>1 DEF OnlySignal, Ranked, Order, Registered
  <1>3. ASSUME NEW l \in Lists PROVE LeadOK(rank, l)'
    <2>1. \A q \in Signallers : /\ Finished(q, l) => Finished(q, l)'
                                /\ Active(q, l) => Active(q, l)' /\ sig'[q].todo = sig[q].todo
      BY <1>1 DEF Ranges, OnlySignal, Finished, Active
    <2> QED BY <1>1, <2>1, LeadKept, Zenon DEF Ranked
  <1> QED BY <1>2, <1>3, Zenon DEF Ranked

(***************************************************************************)
(* The loop keeps a leader: whoever panics was not ahead, and of two       *)
(* requests the one that closes the later channel is ahead.                *)
(***************************************************************************)
LEMMA SignalKeepsRank ==
    ASSUME BaseOK, NEW rank \in [Workers -> Nat], NEW n \in Nat, Ranked(rank, n),
           NEW s \in Signallers, SignalMoves(s)
    PROVE  Ranked(rank, n)'
  <1>a. PICK h, t : h = Head(sig[s].todo) /\ t = Tail(sig[s].todo)
    BY Zenon
  <1>1. /\ OnlySignal(s) /\ UNCHANGED <<seen, work>>
        /\ \A l \in Lists : list'[l] = list[l] \/ list'[l] = <<>>
    BY Zenon DEF SignalMoves, Panics, Sends, Closes, Resets
  <1>2. sig[s].todo \in Seq(Workers) /\ Rising(rank, sig[s].todo) /\ SliceOK(sig[s].todo, sig[s].on)
    BY Lookup, Zenon DEF BaseOK, SignalOK, Ranked, Order
  <1>3. sig[s].todo # <<>> =>
          /\ h \in Workers /\ h \in Members(sig[s].todo) /\ ListOf(h) = sig[s].on
          /\ Members(sig[s].todo) = {h} \cup Members(t)
          /\ Rising(rank, t)
          /\ \A x \in Members(t) : rank[h] < rank[x]
    BY <1>a, <1>2, TailMembers, TailRises, SMTT(30) DEF SliceOK
  <1>4. Rising(rank, sig'[s].todo)
    <2>1. \/ sig'[s].todo = sig[s].todo
          \/ sig[s].todo # <<>> /\ sig'[s].todo = t
          \/ sig'[s].todo = <<>>
      <3>1. CASE Panics(s) \/ Sends(s)
        BY <3>1 DEF Panics, Sends
      <3>2. CASE Closes(s)
        BY <1>a, <3>2 DEF Closes
      <3>3. CASE Resets(s)
        BY <3>3 DEF Resets
      <3> QED BY <3>1, <3>2, <3>3, Zenon DEF SignalMoves
    <2> QED BY <1>2, <1>3, <2>1, NoMembers, Zenon
  <1>5. Order(rank, n)'
    <2>1. \A l \in Lists : Rising(rank, list'[l])
      BY <1>1, NoMembers, Zenon DEF Ranked, Order
    <2>2. \A q \in Signallers : Rising(rank, sig'[q].todo)
      BY <1>1, <1>4, Zenon DEF OnlySignal, Ranked, Order
    <2> QED BY <1>1, <2>1, <2>2, Zenon DEF Ranked, Order, Registered
  <1>6. ASSUME NEW l \in Lists PROVE LeadOK(rank, l)'
    <2>0. LeadOK(rank, l)
      BY Zenon DEF Ranked
    <2>1. \A q \in Signallers : q # s => /\ Finished(q, l) => Finished(q, l)'
                                         /\ Active(q, l)' <=> Active(q, l)
                                         /\ sig'[q].todo = sig[q].todo
      BY <1>1, Zenon DEF OnlySignal, Finished, Active
    <2>2. Finished(s, l) => Finished(s, l)'
      BY DEF Finished, SignalMoves, Panics, Sends, Closes, Resets
    <2>3. CASE Sends(s)
      <3>1. Active(s, l) => Active(s, l)' /\ sig'[s].todo = sig[s].todo
        BY <2>3 DEF Sends, Active
      <3> QED BY <2>0, <2>1, <2>2, <2>3, <3>1, LeadKept, Zenon DEF Sends
    <2>4. CASE Panics(s)
      <3>1. closed' = closed /\ sig[s].todo # <<>> /\ closed[h]
        BY <1>a, <2>4, Zenon DEF Panics, chanVars
      <3>2. ~(Active(s, l) /\ Ahead(rank, s, l))
        BY <1>3, <3>1 DEF Active, Ahead
      <3> QED BY <2>0, <2>1, <2>2, <3>1, <3>2, Zenon DEF LeadOK, Ahead
    <2>5. CASE Resets(s)
      <3>1. CASE l = sig[s].on
        <4>1. Finished(s, l)'
          BY <2>5, <3>1 DEF Resets, Finished, Lists
        <4> QED BY <4>1, Zenon DEF LeadOK
      <3>2. CASE l # sig[s].on
        <4>1. ~Active(s, l) /\ closed' = closed
          BY <2>5, <3>2, Zenon DEF Resets, Active, chanVars
        <4> QED BY <2>0, <2>1, <2>2, <4>1, LeadKept, Zenon
      <3> QED BY <3>1, <3>2, Zenon
    <2>6. CASE Closes(s)
      <3>1. /\ sig[s].todo # <<>> /\ sig'[s].todo = t /\ closed'[h]
            /\ \A w \in Workers : w # h => closed'[w] = closed[w]
            /\ Active(s, l)' <=> l = sig[s].on
            /\ Active(s, l) => l = sig[s].on
        BY <1>a, <2>6 DEF Closes, Active
      <3>2. CASE l # sig[s].on
        <4>1. ~Active(s, l) /\ \A w \in Workers : ListOf(w) = l => closed'[w] = closed[w]
          BY <1>3, <3>1, <3>2, Zenon
        <4> QED BY <2>0, <2>1, <2>2, <4>1, LeadKept, Zenon
      <3>3. CASE l = sig[s].on
        <4>1. ASSUME \A w \in Workers : ListOf(w) = l /\ closed[w] =>
                       \A x \in Workers : x \in Members(t) => rank[w] < rank[x]
              PROVE  Active(s, l)' /\ Ahead(rank, s, l)'
          BY <1>3, <3>1, <3>3, <4>1, Zenon DEF Ahead
        <4>2. CASE \A w \in Workers : ListOf(w) = l => ~closed[w]
          BY <4>1, <4>2, Zenon DEF LeadOK
        <4>3. ASSUME NEW q \in Signallers, Finished(q, l) PROVE LeadOK(rank, l)'
          BY <2>1, <2>2, <4>3, Zenon DEF LeadOK
        <4>4. CASE Ahead(rank, s, l)
          BY <1>3, <3>1, <4>1, <4>4, Zenon DEF LeadOK, Ahead
        <4>5. ASSUME NEW q \in Signallers, q # s, Active(q, l), Ahead(rank, q, l)
              PROVE  LeadOK(rank, l)'
          <5>1. CASE \A x \in Workers : x \in Members(sig[q].todo) => rank[h] < rank[x]
            <6>1. Ahead(rank, q, l)'
              BY <2>1, <3>1, <4>5, <5>1, Zenon DEF Ahead
            <6> QED BY <2>1, <4>5, <6>1, Zenon DEF LeadOK
          <5>2. ASSUME NEW x \in Workers, x \in Members(sig[q].todo), ~(rank[h] < rank[x])
                PROVE  LeadOK(rank, l)'
            <6>1. \A w \in Workers : ListOf(w) = l /\ closed[w] => rank[w] < rank[h]
              BY <1>3, <3>1, <4>5, <5>2 DEF Ahead
            <6>2. \A w \in Workers : ListOf(w) = l /\ closed[w] =>
                    \A y \in Workers : y \in Members(t) => rank[w] < rank[y]
              BY <1>3, <3>1, <6>1
            <6> QED BY <4>1, <6>2, Zenon DEF LeadOK
          <5> QED BY <5>1, <5>2, Zenon
        <4> QED BY <2>0, <4>2, <4>3, <4>4, <4>5, Zenon DEF LeadOK
      <3> QED BY <3>2, <3>3, Zenon
    <2> QED BY <2>3, <2>4, <2>5, <2>6, Zenon DEF SignalMoves
  <1> QED BY <1>5, <1>6, Zenon DEF Ranked

(***************************************************************************)
(* In the beginning nobody is registered and nothing is closed.            *)
(***************************************************************************)
LEMMA InitRank == Init => RankOK
  <1> SUFFICES ASSUME Init PROVE RankOK
    BY Zenon
  <1> DEFINE rank == [w \in Workers |-> 0]
  <1>1. rank \in [Workers -> Nat] /\ 0 \in Nat
    BY Zenon
  <1>2. /\ \A l \in Lists : list[l] = <<>>
        /\ \A w \in Workers : seen[w] = <<>> /\ ~closed[w] /\ ~Registered(w)
        /\ \A s \in Signallers : sig[s].todo = <<>>
    BY Zenon DEF Init, SignalIdle, Registered
  <1> HIDE DEF rank
  <1>3. Ranked(rank, 0)
    BY <1>2, NoMembers, Zenon DEF Ranked, Order, LeadOK
  <1> QED BY <1>1, <1>3, Zenon DEF RankOK

(***************************************************************************)
(* Every step keeps the ranks.                                             *)
(***************************************************************************)
LEMMA StepKeepsRank == ASSUME BaseOK, RankOK, [Next]_vars PROVE RankOK'
  <1>1. PICK rank \in [Workers -> Nat], n \in Nat : Ranked(rank, n)
    BY Zenon DEF RankOK
  <1>2. SUFFICES \E new \in [Workers -> Nat], m \in Nat : Ranked(new, m)'
    BY Zenon DEF RankOK
  <1>3. ASSUME NEW w \in Workers, Writes(w) PROVE \E new \in [Workers -> Nat] : Ranked(new, n + 1)'
    BY <1>1, <1>3, WriteKeepsRank, Zenon
  <1>4. CASE Next
    <2>1. n + 1 \in Nat
      OBVIOUS
    <2>2. ASSUME NEW w \in Workers, Reads(w) \/ Opens(w) \/ Ends(w) PROVE Ranked(rank, n)'
      BY <1>1, <2>2, WorkKeepsRank, Zenon
    <2>3. ASSUME NEW s \in Signallers, NEW l \in Lists, Ranges(s, l) PROVE Ranked(rank, n)'
      BY <1>1, <2>3, RangeKeepsRank, Zenon
    <2>4. ASSUME NEW s \in Signallers, SignalMoves(s) PROVE Ranked(rank, n)'
      BY <1>1, <2>4, SignalKeepsRank, Zenon
    <2> QED BY <1>3, <1>4, <2>1, <2>2, <2>3, <2>4, Steps, Zenon
  <1>5. CASE UNCHANGED vars
    <2>1. Ranked(rank, n)'
      BY <1>1, <1>5, Zenon DEF vars, chanVars, Ranked, Order, LeadOK, Ahead, Finished, Active, Registered
    <2> QED BY <2>1, Zenon
  <1> QED BY <1>4, <1>5, Zenon

(***************************************************************************)
(* Of the requests that signal one list at once not all panic: when one    *)
(* did, another is at work on the list or got through it, also when        *)
(* appends overlapped and channels were lost.                              *)
(***************************************************************************)
THEOREM OneGetsThrough == Spec => []SomeoneFinishes
  <1>1. BaseOK /\ RankOK => SomeoneFinishes
    <2> SUFFICES ASSUME BaseOK, RankOK, NEW s \in Signallers, sig[s].pc = "panic"
                 PROVE  \E q \in Signallers \ {s} : Active(q, sig[s].on) \/ Finished(q, sig[s].on)
      BY Zenon DEF SomeoneFinishes
    <2>1. PICK rank \in [Workers -> Nat], n \in Nat : Ranked(rank, n)
      BY Zenon DEF RankOK
    <2>2. sig[s].on \in Lists /\ sig[s].todo \in Seq(Workers)
      BY Lookup, Zenon DEF BaseOK
    <2>3. sig[s].todo # <<>> /\ closed[Head(sig[s].todo)]
      BY Zenon DEF BaseOK, SignalOK
    <2>4. Head(sig[s].todo) \in Workers /\ ListOf(Head(sig[s].todo)) = sig[s].on
      BY <2>2, <2>3, TailMembers, Zenon DEF BaseOK, SignalOK, SliceOK
    <2>5. \E q \in Signallers : Finished(q, sig[s].on) \/ Active(q, sig[s].on)
      BY <2>1, <2>2, <2>3, <2>4, Zenon DEF Ranked, LeadOK
    <2>6. ~Finished(s, sig[s].on) /\ ~Active(s, sig[s].on)
      BY Zenon DEF Finished, Active
    <2> QED BY <2>5, <2>6, Zenon
  <1>2. BaseOK /\ RankOK /\ [Next]_vars => RankOK'
    BY StepKeepsRank, Zenon
  <1> QED BY Invariance, InitRank, <1>1, <1>2, PTL DEF Spec

(***************************************************************************)
(* SignalStop and SignalDetach return or panic: where no helper and no     *)
(* request has a step to take, no request is in the loop, for a full       *)
(* buffer belongs to a channel that is about to be closed.                 *)
(***************************************************************************)
THEOREM NobodyHeldUp == Spec => []SignalsFinish
  <1>1. BaseOK => SignalsFinish
    <2> SUFFICES ASSUME BaseOK, Quiet, NEW s \in Signallers PROVE sig[s].pc \in {"idle", "done", "panic"}
      BY Zenon DEF SignalsFinish
    <2>1. sig[s].pc \in {"idle", "range", "send", "close", "done", "panic"} /\ sig[s].todo \in Seq(Workers)
      BY Zenon DEF BaseOK, TypeOK
    <2>2. sig[s].pc # "send"
      <3> SUFFICES ASSUME sig[s].pc = "send" PROVE FALSE
        BY Zenon
      <3>1. PICK h : h = Head(sig[s].todo)
        BY Zenon
      <3>2. h \in Workers /\ ~closed[h] /\ buf[h] >= Capacity
        BY <2>1, <3>1, TailMembers, Zenon DEF Quiet
      <3>3. buf[h] > 0
        BY <3>2, Lookup DEF Capacity, BaseOK
      <3>4. WorkerOK(h)
        BY <3>2, Zenon DEF BaseOK
      <3> QED BY <3>2, <3>3, <3>4, Zenon DEF WorkerOK, Quiet
    <2> QED BY <2>1, <2>2, Zenon DEF Quiet
  <1> QED BY Invariance, <1>1, PTL

(***************************************************************************)
(* Where no helper and no request has a step to take, every helper whose   *)
(* channel is closed has ended or could not be started.                    *)
(***************************************************************************)
THEOREM EndOnceQuiet ==
    Spec => [](Quiet => \A w \in Workers : closed[w] => work[w] \in {"ended", "failed"})
  <1>1. BaseOK => (Quiet => \A w \in Workers : closed[w] => work[w] \in {"ended", "failed"})
    BY Zenon DEF BaseOK, TypeOK, WorkerOK, Registered, Quiet
  <1> QED BY Invariance, <1>1, PTL
============================================================================
