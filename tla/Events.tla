------------------------------- MODULE Events ------------------------------
(***************************************************************************)
(* Publishing and consuming events (internal/events and the /events        *)
(* endpoint).  Publish walks the map of observers without taking the       *)
(* mutex and sends to one channel after the other; Subscribe and           *)
(* Unsubscribe change the map under the mutex.                             *)
(***************************************************************************)
EXTENDS Naturals, Sequences

CONSTANTS
    Observers,   \* /events requests, each with its own subscription
    Publishers,  \* requests that publish
    None,        \* no observer
    About,       \* Publishers -> Type and ID of its events
    Filters,     \* Observers -> the filters it asks for, and how they are written
    MaxEvents    \* bound: Publishers -> events it publishes

ASSUME EventsAssumption == None \notin Observers /\ MaxEvents \in [Publishers -> Nat]

Capacity == 1   \* make(chan Message, 1)

VARIABLES
    observers,  \* the keys of the map
    chan,       \* what is buffered in the channel of each observer
    got,        \* what each observer received
    reader,     \* where each /events request is
    mu,         \* the observer that holds the mutex
    count,      \* events published by each publisher
    pub,        \* the loop of Publish: where it is, whom it served, whom it must serve
    thrown      \* "concurrent map iteration and map write" ended the process

vars == <<observers, chan, got, reader, mu, count, pub, thrown>>

Messages == UNION {{p} \X (1 .. MaxEvents[p]) : p \in Publishers}

Idle == [loop |-> "idle", at |-> None, seen |-> {}, due |-> {}]

TypeOK ==
    /\ observers \subseteq Observers
    /\ chan \in [Observers -> Seq(Messages)]
    /\ \A o \in Observers : Len(chan[o]) <= Capacity
    /\ got \in [Observers -> Seq(Messages)]
    /\ reader \in [Observers -> {"new", "subscribing", "reading", "leaving", "unsubscribing", "gone"}]
    /\ mu \in Observers \cup {None}
    /\ count \in [Publishers -> Nat] /\ \A p \in Publishers : count[p] <= MaxEvents[p]
    /\ pub \in [Publishers -> [loop : {"idle", "range"}, at : Observers \cup {None},
                               seen : SUBSET Observers, due : SUBSET Observers]]
    /\ thrown \in BOOLEAN

Init ==
    /\ observers = {}
    /\ chan = [o \in Observers |-> <<>>]
    /\ got = [o \in Observers |-> <<>>]
    /\ reader = [o \in Observers |-> "new"]
    /\ mu = None
    /\ count = [p \in Publishers |-> 0]
    /\ pub = [p \in Publishers |-> Idle]
    /\ thrown = FALSE

---------------------------------------------------------------------------
(* Publish.                                                                *)

Busy(p) == pub[p].loop = "range"

Message(p) == <<p, count[p]>>

Publish(p) ==
    /\ ~Busy(p)
    /\ count[p] < MaxEvents[p]
    /\ count' = [count EXCEPT ![p] = @ + 1]
    /\ pub' = [pub EXCEPT ![p] = [Idle EXCEPT !.loop = "range", !.due = observers]]
    /\ UNCHANGED <<observers, chan, got, reader, mu, thrown>>

(* The next key of the range.  A key added meanwhile may or may not come.  *)
NextObserver(p) ==
    /\ Busy(p)
    /\ pub[p].at = None
    /\ \E o \in observers \ pub[p].seen : pub' = [pub EXCEPT ![p].at = o]
    /\ UNCHANGED <<observers, chan, got, reader, mu, count, thrown>>

(* Variant: a full channel is skipped.                                     *)
SendOrSkip(p) ==
    LET o == pub[p].at
    IN  /\ o # None
        /\ chan' = IF Len(chan[o]) < Capacity THEN [chan EXCEPT ![o] = Append(@, Message(p))]
                                              ELSE chan
        /\ pub' = [pub EXCEPT ![p].at = None, ![p].seen = @ \cup {o}]
        /\ UNCHANGED <<observers, got, reader, mu, count, thrown>>

(* Variant: the loop may come to an observer again.                        *)
SendAgain(p) ==
    LET o == pub[p].at
    IN  /\ o # None
        /\ Len(chan[o]) < Capacity
        /\ chan' = [chan EXCEPT ![o] = Append(@, Message(p))]
        /\ \E again \in BOOLEAN :
             pub' = [pub EXCEPT ![p].at = None, ![p].seen = IF again THEN @ ELSE @ \cup {o}]
        /\ UNCHANGED <<observers, got, reader, mu, count, thrown>>

(* ob <- msg blocks while the buffer is full.                              *)
Send(p) ==
    LET o == pub[p].at
    IN  /\ o # None
        /\ Len(chan[o]) < Capacity
        /\ chan' = [chan EXCEPT ![o] = Append(@, Message(p))]
        /\ pub' = [pub EXCEPT ![p].at = None, ![p].seen = @ \cup {o}]
        /\ UNCHANGED <<observers, got, reader, mu, count, thrown>>

(* The range is over: every key it started with came, or was deleted.      *)
Published(p) ==
    /\ Busy(p)
    /\ pub[p].at = None
    /\ pub[p].due \cap observers \subseteq pub[p].seen
    /\ pub' = [pub EXCEPT ![p] = Idle]
    /\ UNCHANGED <<observers, chan, got, reader, mu, count, thrown>>

(* The range meets a write of the map: the Go runtime may end the process. *)
Throw(p) ==
    /\ Busy(p)
    /\ pub[p].at = None
    /\ mu # None
    /\ thrown' = TRUE
    /\ UNCHANGED <<observers, chan, got, reader, mu, count, pub>>

---------------------------------------------------------------------------
(* Filters.                                                                *)

(* filter.New: a list of keys asks for each of them, a map says for each   *)
(* whether it is to match; anything else is no filter at all.              *)
NewFilter(rq) ==
    CASE rq.format = "list" -> {[f EXCEPT !.P = TRUE] : f \in rq.body}
      [] rq.format = "map" -> rq.body
      [] OTHER -> {}

(* Message.Match.                                                          *)
Match(m, typ, key) ==
    CASE typ = "type" -> About[m[1]].Type = key
      [] typ # "type" /\ About[m[1]].Type = typ -> About[m[1]].ID = key
      [] OTHER -> TRUE

(* Filter.Match, of the filters of observer o.                             *)
Matches(o, m) == \A f \in NewFilter(Filters[o]) : Match(m, f.typ, f.K) = f.P

---------------------------------------------------------------------------
(* The /events endpoint.                                                   *)

Lock(o) ==
    /\ mu = None
    /\ \/ /\ reader[o] = "new"
          /\ reader' = [reader EXCEPT ![o] = "subscribing"]
       \/ /\ reader[o] = "leaving"
          /\ reader' = [reader EXCEPT ![o] = "unsubscribing"]
    /\ mu' = o
    /\ UNCHANGED <<observers, chan, got, count, pub, thrown>>

Subscribe(o) ==
    /\ reader[o] = "subscribing"
    /\ observers' = observers \cup {o}
    /\ reader' = [reader EXCEPT ![o] = "reading"]
    /\ mu' = None
    /\ UNCHANGED <<chan, got, count, pub, thrown>>

(* Variant: the endpoint answers one event and then only waits.            *)
ReceiveOnce(o) ==
    /\ reader[o] = "reading"
    /\ got[o] = <<>>
    /\ chan[o] # <<>>
    /\ got' = IF Matches(o, Head(chan[o])) THEN [got EXCEPT ![o] = Append(@, Head(chan[o]))] ELSE got
    /\ chan' = [chan EXCEPT ![o] = Tail(@)]
    /\ UNCHANGED <<observers, reader, mu, count, pub, thrown>>

Receive(o) ==
    /\ reader[o] = "reading"
    /\ chan[o] # <<>>
    /\ got' = IF Matches(o, Head(chan[o])) THEN [got EXCEPT ![o] = Append(@, Head(chan[o]))] ELSE got
    /\ chan' = [chan EXCEPT ![o] = Tail(@)]
    /\ UNCHANGED <<observers, reader, mu, count, pub, thrown>>

(* The client is gone: the request context is done.                        *)
Leave(o) ==
    /\ reader[o] = "reading"
    /\ reader' = [reader EXCEPT ![o] = "leaving"]
    /\ UNCHANGED <<observers, chan, got, mu, count, pub, thrown>>

Unsubscribe(o) ==
    /\ reader[o] = "unsubscribing"
    /\ observers' = observers \ {o}
    /\ reader' = [reader EXCEPT ![o] = "gone"]
    /\ mu' = None
    /\ UNCHANGED <<chan, got, count, pub, thrown>>

---------------------------------------------------------------------------

PublishStep(p) == NextObserver(p) \/ Send(p) \/ Published(p)

Subscription(o) == Lock(o) \/ Subscribe(o) \/ Unsubscribe(o)

Next ==
    /\ ~thrown
    /\ \/ \E p \in Publishers : Publish(p) \/ PublishStep(p) \/ Throw(p)
       \/ \E o \in Observers : Subscription(o) \/ Receive(o) \/ Leave(o)

Spec == Init /\ [][Next]_vars

(* Requests run, and an /events client that stays reads what it is sent.   *)
Fairness ==
    /\ \A p \in Publishers : WF_vars(~thrown /\ PublishStep(p))
    /\ \A o \in Observers : WF_vars(~thrown /\ Subscription(o)) /\ WF_vars(~thrown /\ Receive(o))

FairSpec == Spec /\ Fairness

---------------------------------------------------------------------------
(* What an observer received or will read next.                            *)
Stream(o) == got[o] \o chan[o]

(***************************************************************************)
(* Every observer sees the events of a publisher in the order they were    *)
(* published, and none of them twice, however the unlocked loops of        *)
(* Publish interleave with each other and with Subscribe and Unsubscribe.  *)
(***************************************************************************)
InOrder ==
    \A o \in Observers : \A i, j \in 1 .. Len(Stream(o)) :
        i < j /\ Stream(o)[i][1] = Stream(o)[j][1] => Stream(o)[i][2] < Stream(o)[j][2]

(***************************************************************************)
(* When Publish returns, the event is with every observer that was         *)
(* subscribed when it was called, has not unsubscribed since and did not   *)
(* filter it out.                                                          *)
(***************************************************************************)
PublishReachesAll ==
    [][\A p \in Publishers :
         Busy(p) /\ ~Busy(p)'
           => \A o \in pub[p].due \cap observers : Matches(o, Message(p)) =>
                \E i \in 1 .. Len(Stream(o)) : Stream(o)[i] = Message(p)]_vars

(***************************************************************************)
(* Publish is held up by nobody but an observer that left without reading  *)
(* its channel empty: the loop sends outside the mutex, and an observer    *)
(* that reads makes room.                                                  *)
(***************************************************************************)
HeldUpByLeaversOnly ==
    \A p \in Publishers :
        Busy(p) ~> \/ ~Busy(p) \/ thrown
                   \/ /\ pub[p].at # None
                      /\ reader[pub[p].at] \in {"leaving", "unsubscribing", "gone"}
============================================================================
