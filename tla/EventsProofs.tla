---------------------------- MODULE EventsProofs ---------------------------
(***************************************************************************)
(* Safety of what clients read: the events that are published, for any     *)
(* number of publishers and observers, and the output that the proxies of  *)
(* exec, attach and logs write to a connection, for any number of streams. *)
(***************************************************************************)
EXTENDS Events, SequenceTheorems, TLAPS

Loop == [loop : {"idle", "range"}, at : Observers \cup {None},
            seen : SUBSET Observers, due : SUBSET Observers]

(* A running loop has not yet sent to the observer it is at.               *)
LoopsOK == \A p \in Publishers : pub[p].at # None => Busy(p) /\ pub[p].at \notin pub[p].seen

(* A loop that runs has counted its event.                                 *)
Counted == \A p \in Publishers : Busy(p) => 1 <= count[p]

(* What is in a stream was published, and what a loop has still to send    *)
(* to the observer is newer than all it has of that publisher.             *)
PastOK ==
    \A o \in Observers : \A i \in 1 .. Len(Stream(o)) : \A p \in Publishers :
        Stream(o)[i][1] = p =>
            /\ Stream(o)[i][2] <= count[p]
            /\ Busy(p) /\ o \notin pub[p].seen => Stream(o)[i][2] < count[p]

(* Whom a loop has served has the event, unless it filtered it out.        *)
ServedOK ==
    \A p \in Publishers, o \in Observers :
        Busy(p) /\ o \in pub[p].seen /\ Matches(o, Message(p)) =>
            \E i \in 1 .. Len(Stream(o)) : Stream(o)[i] = Message(p)

(* The inductive invariant.                                                *)
Inv == TypeOK /\ LoopsOK /\ Counted /\ PastOK /\ ServedOK /\ InOrder

---------------------------------------------------------------------------
(* Streams.                                                                *)

(* t is s with m at its end.                                               *)
Grows(s, t, m) ==
    /\ Len(s) \in Nat /\ Len(t) = Len(s) + 1
    /\ \A i \in 1 .. Len(s) : t[i] = s[i]
    /\ t[Len(s) + 1] = m

(* Publish's send to a channel with room adds to the end of the stream.    *)
LEMMA SendGrows ==
    ASSUME NEW S, NEW g \in Seq(S), NEW c \in Seq(S), NEW m \in S
    PROVE  Grows(g \o c, g \o Append(c, m), m)
<1>1. Append(c, m) \in Seq(S) /\ Len(Append(c, m)) = Len(c) + 1 /\ Append(c, m)[Len(c) + 1] = m
      /\ \A i \in 1 .. Len(c) : Append(c, m)[i] = c[i]
  BY AppendProperties
<1>2. Len(g) \in Nat /\ Len(c) \in Nat
  BY LenProperties, Zenon
<1>3. /\ Len(g \o c) = Len(g) + Len(c)
      /\ \A i \in 1 .. Len(g) + Len(c) :
            (g \o c)[i] = IF i <= Len(g) THEN g[i] ELSE c[i - Len(g)]
  BY ConcatProperties, <1>2, Zenon
<1>4. /\ Len(g \o Append(c, m)) = Len(g) + Len(c) + 1
      /\ \A i \in 1 .. Len(g) + Len(c) + 1 :
            (g \o Append(c, m))[i] = IF i <= Len(g) THEN g[i] ELSE Append(c, m)[i - Len(g)]
  BY ConcatProperties, <1>1, <1>2
<1>5. \A i \in 1 .. Len(g) + Len(c) : (g \o Append(c, m))[i] = (g \o c)[i]
  <2>1. TAKE i \in 1 .. Len(g) + Len(c)
  <2>2. CASE i <= Len(g)
    BY <2>2, <1>2, <1>3, <1>4
  <2>3. CASE i > Len(g)
    <3>1. i - Len(g) \in 1 .. Len(c)
      BY <2>3, <1>2
    <3>2. Append(c, m)[i - Len(g)] = c[i - Len(g)]
      BY <3>1, <1>1, Zenon
    <3> QED BY <2>3, <3>2, <1>2, <1>3, <1>4
  <2> QED BY <2>2, <2>3, <1>2
<1>6. (g \o Append(c, m))[Len(g) + Len(c) + 1] = m
  <2>1. (Len(g) + Len(c) + 1) - Len(g) = Len(c) + 1
    BY <1>2
  <2>2. (g \o Append(c, m))[Len(g) + Len(c) + 1] = Append(c, m)[(Len(g) + Len(c) + 1) - Len(g)]
    BY <1>2, <1>4
  <2> QED BY <2>1, <2>2, <1>1, Zenon
<1> QED BY <1>2, <1>3, <1>4, <1>5, <1>6 DEF Grows

(* A channel with room for one message is empty once it is read.           *)
LEMMA OneMessage ==
    ASSUME NEW S, NEW c \in Seq(S), Len(c) <= Capacity, c # <<>>
    PROVE  /\ Head(c) \in S /\ Tail(c) \in Seq(S) /\ Len(Tail(c)) = 0 /\ Tail(c) = <<>>
           /\ Len(c) = 1 /\ c[1] = Head(c)
<1>1. Len(c) \in Nat /\ Len(c) # 0
  BY EmptySeq, LenProperties, Zenon
<1>2. Len(c) = 1
  BY <1>1 DEF Capacity
<1>3. Head(c) \in S /\ Tail(c) \in Seq(S) /\ Len(Tail(c)) = Len(c) - 1 /\ Head(c) = c[1]
  BY HeadTailProperties
<1>4. Len(Tail(c)) = 0
  BY <1>2, <1>3
<1>5. Tail(c) = <<>>
  BY <1>3, <1>4, EmptySeq, Zenon
<1> QED BY <1>2, <1>3, <1>4, <1>5, Zenon

(* Receive moves the message from the channel to what was received, or     *)
(* drops it from the end of the stream.                                    *)
LEMMA ReceiveMoves ==
    ASSUME NEW S, NEW g \in Seq(S), NEW c \in Seq(S), Len(c) <= Capacity, c # <<>>
    PROVE  /\ Append(g, Head(c)) \o Tail(c) = g \o c
           /\ Grows(g \o Tail(c), g \o c, Head(c))
<1>1. /\ Head(c) \in S /\ Tail(c) = <<>> /\ Tail(c) \in Seq(S)
      /\ Len(c) = 1 /\ c[1] = Head(c)
  BY OneMessage, Zenon
<1>2. Append(g, Head(c)) \in Seq(S) /\ g \o c \in Seq(S)
  BY <1>1, AppendProperties, ConcatProperties, Zenon
<1>3. Append(g, Head(c)) \o Tail(c) = Append(g, Head(c)) /\ g \o Tail(c) = g
  BY <1>1, <1>2, ConcatEmptySeq, Zenon
<1>4. Len(g) \in Nat
  BY LenProperties, Zenon
<1>5. /\ Len(g \o c) = Len(g) + 1
      /\ \A i \in 1 .. Len(g) + 1 : (g \o c)[i] = IF i <= Len(g) THEN g[i] ELSE c[i - Len(g)]
  BY ConcatProperties, <1>1, SMTT(30)
<1>6. (g \o c)[Len(g) + 1] = Head(c) /\ \A i \in 1 .. Len(g) : (g \o c)[i] = g[i]
  <2>1. (Len(g) + 1) - Len(g) = 1
    BY <1>4
  <2>2. (g \o c)[Len(g) + 1] = c[(Len(g) + 1) - Len(g)]
    BY <1>4, <1>5
  <2> QED BY <1>1, <1>4, <1>5, <2>1, <2>2
<1>7. /\ Len(Append(g, Head(c))) = Len(g) + 1 /\ Append(g, Head(c))[Len(g) + 1] = Head(c)
      /\ \A i \in 1 .. Len(g) : Append(g, Head(c))[i] = g[i]
  BY <1>1, AppendProperties
<1>8. \A i \in 1 .. Len(g) + 1 : Append(g, Head(c))[i] = (g \o c)[i]
  BY <1>4, <1>6, <1>7
<1>9. Append(g, Head(c)) = g \o c
  BY <1>2, <1>5, <1>7, <1>8, SeqEqual, Zenon
<1> QED BY <1>3, <1>4, <1>5, <1>6, <1>9, Zenon DEF Grows

(* A message is a pair of its publisher and a number.                      *)
LEMMA MessageTyping ==
    ASSUME TypeOK
    PROVE  /\ \A p \in Publishers : 1 <= count[p] => Message(p) \in Messages
           /\ \A o \in Observers : Stream(o) \in Seq(Messages) /\ Len(Stream(o)) \in Nat
           /\ \A o \in Observers : \A i \in 1 .. Len(Stream(o)) :
                 Stream(o)[i][1] \in Publishers /\ Stream(o)[i][2] \in Nat
<1>1. \A p \in Publishers : MaxEvents[p] \in Nat /\ count[p] \in Nat /\ count[p] <= MaxEvents[p]
  BY EventsAssumption, Zenon DEF TypeOK
<1>2. ASSUME NEW p \in Publishers, 1 <= count[p] PROVE Message(p) \in Messages
  <2>1. count[p] \in 1 .. MaxEvents[p]
    BY <1>1, <1>2
  <2> QED BY <2>1 DEF Message, Messages
<1>3. \A m \in Messages : m[1] \in Publishers /\ m[2] \in Nat
  <2>1. TAKE m \in Messages
  <2>2. PICK p \in Publishers : m \in {p} \X (1 .. MaxEvents[p])
    BY Zenon DEF Messages
  <2> QED BY <2>2, <1>1
<1>4. ASSUME NEW o \in Observers
      PROVE  Stream(o) \in Seq(Messages) /\ Len(Stream(o)) \in Nat
  <2>1. got[o] \in Seq(Messages) /\ chan[o] \in Seq(Messages)
    BY Zenon DEF TypeOK
  <2>2. Stream(o) \in Seq(Messages)
    BY <2>1, ConcatProperties, Zenon DEF Stream
  <2> QED BY <2>2, LenProperties, Zenon
<1>5. \A o \in Observers : \A i \in 1 .. Len(Stream(o)) : Stream(o)[i] \in Messages
  BY <1>4, ElementOfSeq, Zenon
<1> QED BY <1>2, <1>3, <1>4, <1>5, Zenon

---------------------------------------------------------------------------
(* The steps.                                                              *)

(* Steps that leave the streams and the loops alone.                       *)
LEMMA OthersKeepInv ==
    ASSUME Inv, UNCHANGED <<chan, got, count, pub>>
    PROVE  (LoopsOK /\ PastOK /\ ServedOK /\ InOrder /\ Counted)'
<1>1. \A o : Stream(o)' = Stream(o)
  BY Zenon DEF Stream
<1>2. \A p : (Busy(p)' <=> Busy(p)) /\ Message(p)' = Message(p)
  BY Zenon DEF Busy, Message
<1>3. LoopsOK' /\ Counted'
  BY <1>2, Zenon DEF Inv, LoopsOK, Counted
<1>4. PastOK'
  BY <1>1, <1>2, Zenon DEF Inv, PastOK
<1>5. ServedOK'
  BY <1>1, <1>2, Zenon DEF Inv, ServedOK
<1>6. InOrder'
  BY <1>1, Zenon DEF Inv, InOrder
<1> QED BY <1>3, <1>4, <1>5, <1>6, Zenon

(* Publish starts a loop that has served nobody, with a number nobody has. *)
LEMMA PublishKeepsInv ==
    ASSUME Inv, NEW p \in Publishers, Publish(p)
    PROVE  (LoopsOK /\ PastOK /\ ServedOK /\ InOrder /\ Counted)'
<1>1. \A o : Stream(o)' = Stream(o)
  BY Zenon DEF Stream, Publish
<1>2. /\ pub[p] \in Loop /\ pub' = [pub EXCEPT ![p] = pub'[p]]
      /\ pub'[p].at = None /\ pub'[p].seen = {} /\ \A q \in Publishers \ {p} : pub'[q] = pub[q]
  BY Zenon DEF Publish, Inv, TypeOK, Loop, Idle
<1>3. /\ count[p] \in Nat /\ count'[p] = count[p] + 1
      /\ \A q \in Publishers \ {p} : count'[q] = count[q]
  BY Zenon DEF Publish, Inv, TypeOK
<1>4. \A q \in Publishers \ {p} : (Busy(q)' <=> Busy(q)) /\ Message(q)' = Message(q)
  BY <1>2, <1>3, Zenon DEF Busy, Message
<1>5. LoopsOK' /\ Counted'
  BY <1>2, <1>3, <1>4 DEF Inv, LoopsOK, Counted
<1>6. PastOK'
  <2>1. SUFFICES ASSUME NEW o \in Observers, NEW i \in 1 .. Len(Stream(o)), NEW q \in Publishers,
                        Stream(o)[i][1] = q
                 PROVE  /\ Stream(o)[i][2] <= count'[q]
                        /\ Busy(q)' /\ o \notin pub'[q].seen => Stream(o)[i][2] < count'[q]
    BY <1>1, Zenon DEF PastOK
  <2>2. Stream(o)[i][2] \in Nat /\ Stream(o)[i][2] <= count[q]
    BY <2>1, MessageTyping, Zenon DEF Inv, PastOK
  <2>3. CASE q = p
    BY <2>2, <2>3, <1>3
  <2>4. CASE q # p
    BY <2>1, <2>2, <2>4, <1>2, <1>3, <1>4, Zenon DEF Inv, PastOK
  <2> QED BY <2>3, <2>4, Zenon
<1>7. ServedOK'
  <2>1. SUFFICES ASSUME NEW q \in Publishers, NEW o \in Observers,
                        Busy(q)', o \in pub'[q].seen, Matches(o, Message(q)')
                 PROVE  \E i \in 1 .. Len(Stream(o)) : Stream(o)[i] = Message(q)'
    BY <1>1, Zenon DEF ServedOK
  <2>2. q # p
    BY <2>1, <1>2, Zenon
  <2> QED BY <2>1, <2>2, <1>2, <1>4, ZenonT(30) DEF Inv, ServedOK
<1>8. InOrder'
  BY <1>1, Zenon DEF Inv, InOrder
<1> QED BY <1>5, <1>6, <1>7, <1>8, Zenon

(* The loop comes to an observer it has not served.                        *)
LEMMA NextObserverKeepsInv ==
    ASSUME Inv, NEW p \in Publishers, NextObserver(p)
    PROVE  (LoopsOK /\ PastOK /\ ServedOK /\ InOrder /\ Counted)'
<1>1. \A o : Stream(o)' = Stream(o)
  BY Zenon DEF Stream, NextObserver
<1>2. /\ pub'[p].at \notin pub'[p].seen
      /\ \A q \in Publishers : pub'[q].seen = pub[q].seen /\ pub'[q].loop = pub[q].loop
      /\ \A q \in Publishers \ {p} : pub'[q] = pub[q]
  BY DEF NextObserver, Inv, TypeOK
<1>3. \A q \in Publishers : (Busy(q)' <=> Busy(q)) /\ Message(q)' = Message(q) /\ count'[q] = count[q]
  BY <1>2, Zenon DEF Busy, Message, NextObserver
<1>4. LoopsOK' /\ Counted'
  BY <1>2, <1>3, Zenon DEF NextObserver, Inv, LoopsOK, Counted
<1>5. PastOK'
  BY <1>1, <1>2, <1>3, Zenon DEF Inv, PastOK
<1>6. ServedOK'
  <2>1. SUFFICES ASSUME NEW q \in Publishers, NEW o \in Observers,
                        Busy(q)', o \in pub'[q].seen, Matches(o, Message(q)')
                 PROVE  \E i \in 1 .. Len(Stream(o)) : Stream(o)[i] = Message(q)'
    BY <1>1, Zenon DEF ServedOK
  <2> QED BY <2>1, <1>2, <1>3, ZenonT(30) DEF Inv, ServedOK
<1>7. InOrder'
  BY <1>1, Zenon DEF Inv, InOrder
<1> QED BY <1>4, <1>5, <1>6, <1>7, Zenon

(* The range ends: there is nothing left to say of this loop.              *)
LEMMA PublishedKeepsInv ==
    ASSUME Inv, NEW p \in Publishers, Published(p)
    PROVE  (LoopsOK /\ PastOK /\ ServedOK /\ InOrder /\ Counted)'
<1>1. \A o : Stream(o)' = Stream(o)
  BY Zenon DEF Stream, Published
<1>2. /\ pub'[p].at = None /\ pub'[p].loop = "idle"
      /\ \A q \in Publishers \ {p} : pub'[q] = pub[q]
  BY Zenon DEF Published, Inv, TypeOK, Idle
<1>3. /\ ~Busy(p)'
      /\ \A q \in Publishers \ {p} : (Busy(q)' <=> Busy(q))
      /\ \A q \in Publishers : Message(q)' = Message(q) /\ count'[q] = count[q]
  BY <1>2, Zenon DEF Busy, Message, Published
<1>4. LoopsOK' /\ Counted'
  BY <1>2, <1>3, Zenon DEF Inv, LoopsOK, Counted
<1>5. PastOK'
  BY <1>1, <1>2, <1>3, Zenon DEF Inv, PastOK
<1>6. ServedOK'
  <2>1. SUFFICES ASSUME NEW q \in Publishers, NEW o \in Observers,
                        Busy(q)', o \in pub'[q].seen, Matches(o, Message(q)')
                 PROVE  \E i \in 1 .. Len(Stream(o)) : Stream(o)[i] = Message(q)'
    BY <1>1, Zenon DEF ServedOK
  <2> QED BY <2>1, <1>2, <1>3, ZenonT(30) DEF Inv, ServedOK
<1>7. InOrder'
  BY <1>1, Zenon DEF Inv, InOrder
<1> QED BY <1>4, <1>5, <1>6, <1>7, Zenon

(* Send adds the newest event of its publisher to one stream.              *)
LEMMA SendKeepsInv ==
    ASSUME Inv, NEW p \in Publishers, Send(p)
    PROVE  (LoopsOK /\ PastOK /\ ServedOK /\ InOrder /\ Counted)'
<1> DEFINE m == Message(p)
<1>0. PICK d \in Observers : d = pub[p].at
  BY Zenon DEF Send, Inv, TypeOK
<1>1. d \in Observers /\ Busy(p) /\ d \notin pub[p].seen
  BY <1>0, EventsAssumption, Zenon DEF Inv, LoopsOK
<1>2. m \in Messages
  BY <1>1, MessageTyping, Zenon DEF Inv, Counted
<1>3. /\ got' = got /\ chan'[d] = Append(chan[d], m)
      /\ \A o \in Observers \ {d} : chan'[o] = chan[o]
  BY <1>0, <1>1, Zenon DEF Send, Inv, TypeOK
<1>4. Grows(Stream(d), Stream(d)', m) /\ \A o \in Observers \ {d} : Stream(o)' = Stream(o)
  <2>1. got[d] \in Seq(Messages) /\ chan[d] \in Seq(Messages)
    BY <1>1, Zenon DEF Inv, TypeOK
  <2>2. Grows(got[d] \o chan[d], got[d] \o Append(chan[d], m), m)
    BY <1>2, <2>1, SendGrows, Zenon
  <2> QED BY <1>3, <2>2, Zenon DEF Stream
<1>5. /\ pub'[p].at = None /\ pub'[p].loop = pub[p].loop /\ pub'[p].seen = pub[p].seen \cup {d}
      /\ \A q \in Publishers \ {p} : pub'[q] = pub[q]
  BY <1>0, Zenon DEF Send, Inv, TypeOK
<1>6. \A q \in Publishers : (Busy(q)' <=> Busy(q)) /\ Message(q)' = Message(q) /\ count'[q] = count[q]
  BY <1>5, Zenon DEF Busy, Message, Send
<1>7. \A q \in Publishers : count[q] \in Nat
  BY Zenon DEF Inv, TypeOK
<1>8. m[1] = p /\ m[2] = count[p]
  BY Zenon DEF Message
<1>9. Message(p) = m
  BY Zenon
<1> HIDE DEF m
<1>10. LoopsOK' /\ Counted'
  BY <1>5, <1>6, Zenon DEF Inv, LoopsOK, Counted
<1>11. PastOK'
  <2>1. SUFFICES ASSUME NEW o \in Observers, NEW i \in 1 .. Len(Stream(o)'), NEW q \in Publishers,
                        Stream(o)'[i][1] = q
                 PROVE  /\ Stream(o)'[i][2] <= count'[q]
                        /\ Busy(q)' /\ o \notin pub'[q].seen => Stream(o)'[i][2] < count'[q]
    BY Zenon DEF PastOK
  <2>2. CASE i \in 1 .. Len(Stream(o)) /\ Stream(o)'[i] = Stream(o)[i]
    <3>1. /\ Stream(o)[i][2] <= count[q]
          /\ Busy(q) /\ o \notin pub[q].seen => Stream(o)[i][2] < count[q]
      BY <2>1, <2>2, Zenon DEF Inv, PastOK
    <3>2. o \notin pub'[q].seen => o \notin pub[q].seen
      BY <1>5, Zenon
    <3> QED BY <2>2, <3>1, <3>2, <1>6, Zenon
  <2>3. CASE o = d /\ Stream(o)'[i] = m
    <3>1. q = p /\ o \in pub'[q].seen
      BY <2>1, <2>3, <1>5, <1>8, Zenon
    <3> QED BY <2>3, <3>1, <1>6, <1>7, <1>8
  <2>4. (i \in 1 .. Len(Stream(o)) /\ Stream(o)'[i] = Stream(o)[i]) \/ (o = d /\ Stream(o)'[i] = m)
    BY <1>4 DEF Grows
  <2> QED BY <2>2, <2>3, <2>4, Zenon
<1>12. ServedOK'
  <2>1. SUFFICES ASSUME NEW q \in Publishers, NEW o \in Observers,
                        Busy(q)', o \in pub'[q].seen, Matches(o, Message(q)')
                 PROVE  \E i \in 1 .. Len(Stream(o)') : Stream(o)'[i] = Message(q)'
    BY Zenon DEF ServedOK
  <2>2. CASE q = p /\ o = d
    <3>1. Len(Stream(d)) + 1 \in 1 .. Len(Stream(d)') /\ Stream(d)'[Len(Stream(d)) + 1] = m
      BY <1>4 DEF Grows
    <3> QED BY <2>2, <3>1, <1>6, <1>9, Zenon
  <2>3. CASE ~(q = p /\ o = d)
    <3>1. o \in pub[q].seen
      BY <2>1, <2>3, <1>5, Zenon
    <3>2. PICK i \in 1 .. Len(Stream(o)) : Stream(o)[i] = Message(q)
      BY <2>1, <3>1, <1>6, Zenon DEF Inv, ServedOK
    <3>3. i \in 1 .. Len(Stream(o)') /\ Stream(o)'[i] = Stream(o)[i]
      BY <1>4 DEF Grows
    <3> QED BY <3>2, <3>3, <1>6, Zenon
  <2> QED BY <2>2, <2>3, Zenon
<1>13. InOrder'
  <2>1. SUFFICES ASSUME NEW o \in Observers,
                        NEW i \in 1 .. Len(Stream(o)'), NEW j \in 1 .. Len(Stream(o)'),
                        i < j, Stream(o)'[i][1] = Stream(o)'[j][1]
                 PROVE  Stream(o)'[i][2] < Stream(o)'[j][2]
    BY Zenon DEF InOrder
  <2>2. CASE o # d
    BY <2>1, <2>2, <1>4, Zenon DEF Inv, InOrder
  <2>3. CASE o = d
    <3>1. i \in 1 .. Len(Stream(o)) /\ Stream(o)'[i] = Stream(o)[i]
      BY <2>1, <2>3, <1>4 DEF Grows
    <3>2. CASE j \in 1 .. Len(Stream(o))
      <4>1. Stream(o)'[j] = Stream(o)[j]
        BY <2>3, <3>2, <1>4, Zenon DEF Grows
      <4> QED BY <2>1, <3>1, <3>2, <4>1, Zenon DEF Inv, InOrder
    <3>3. CASE j \notin 1 .. Len(Stream(o))
      <4>1. Stream(o)'[j] = m
        BY <2>3, <3>3, <1>4 DEF Grows
      <4>2. Stream(o)[i][1] = p
        BY <2>1, <3>1, <4>1, <1>8, Zenon
      <4>3. Stream(o)[i][2] < count[p]
        BY <2>3, <3>1, <4>2, <1>1, Zenon DEF Inv, PastOK
      <4> QED BY <3>1, <4>1, <4>3, <1>8, Zenon
    <3> QED BY <3>2, <3>3, Zenon
  <2> QED BY <2>2, <2>3, Zenon
<1> QED BY <1>10, <1>11, <1>12, <1>13, Zenon

(* Receive takes from a stream at most an event that its filter refuses.   *)
LEMMA ReceiveKeepsInv ==
    ASSUME Inv, NEW d \in Observers, Receive(d)
    PROVE  (LoopsOK /\ PastOK /\ ServedOK /\ InOrder /\ Counted)'
<1> DEFINE m == Head(chan[d])
<1>1. /\ got[d] \in Seq(Messages) /\ chan[d] \in Seq(Messages)
      /\ Len(chan[d]) <= Capacity /\ chan[d] # <<>>
  BY Zenon DEF Receive, Inv, TypeOK
<1>2. /\ chan'[d] = Tail(chan[d]) /\ \A o \in Observers \ {d} : chan'[o] = chan[o] /\ got'[o] = got[o]
      /\ Matches(d, m) => got'[d] = Append(got[d], m)
      /\ ~Matches(d, m) => got'[d] = got[d]
  BY Zenon DEF Receive, Inv, TypeOK
<1>3. Append(got[d], m) \o Tail(chan[d]) = got[d] \o chan[d]
      /\ Grows(got[d] \o Tail(chan[d]), got[d] \o chan[d], m)
  BY <1>1, ReceiveMoves, Zenon
<1>4. /\ \A o \in Observers \ {d} : Stream(o)' = Stream(o)
      /\ Stream(d)' = Stream(d) \/ (~Matches(d, m) /\ Grows(Stream(d)', Stream(d), m))
  BY <1>2, <1>3, Zenon DEF Stream
<1>5. pub' = pub /\ count' = count
  BY Zenon DEF Receive
<1>6. \A q \in Publishers : (Busy(q)' <=> Busy(q)) /\ Message(q)' = Message(q)
  BY <1>5, Zenon DEF Busy, Message
<1> HIDE DEF m
<1>7. \A o \in Observers : \A i \in 1 .. Len(Stream(o)') :
         i \in 1 .. Len(Stream(o)) /\ Stream(o)'[i] = Stream(o)[i]
  BY <1>4 DEF Grows
<1>8. LoopsOK' /\ Counted'
  BY <1>5, <1>6, Zenon DEF Inv, LoopsOK, Counted
<1>9. PastOK'
  BY <1>5, <1>6, <1>7, ZenonT(30) DEF Inv, PastOK
<1>10. ServedOK'
  <2>1. SUFFICES ASSUME NEW q \in Publishers, NEW o \in Observers,
                        Busy(q)', o \in pub'[q].seen, Matches(o, Message(q)')
                 PROVE  \E i \in 1 .. Len(Stream(o)') : Stream(o)'[i] = Message(q)'
    BY Zenon DEF ServedOK
  <2>2. PICK i \in 1 .. Len(Stream(o)) : Stream(o)[i] = Message(q)
    BY <2>1, <1>5, <1>6, Zenon DEF Inv, ServedOK
  <2>3. i \in 1 .. Len(Stream(o)') /\ Stream(o)'[i] = Stream(o)[i]
    <3>1. CASE Stream(o)' = Stream(o)
      BY <3>1, Zenon
    <3>2. CASE o = d /\ ~Matches(d, m) /\ Grows(Stream(d)', Stream(d), m)
      <4>1. Matches(d, Stream(d)[i])
        BY <2>1, <2>2, <3>2, <1>6, Zenon
      <4>2. Stream(d)[i] # m
        BY <4>1, <3>2, Zenon
      <4>3. i \in 1 .. Len(Stream(d)) /\ i # Len(Stream(d)') + 1
        BY <4>2, <3>2, Zenon DEF Grows
      <4> QED BY <4>3, <3>2 DEF Grows
    <3> QED BY <3>1, <3>2, <1>4, Zenon
  <2> QED BY <2>2, <2>3, <1>6, Zenon
<1>11. InOrder'
  BY <1>7, ZenonT(30) DEF Inv, InOrder
<1> QED BY <1>8, <1>9, <1>10, <1>11, Zenon

(* What a channel may hold after each step of the publisher and the        *)
(* observer, and the other types.                                          *)
LEMMA KeepsTypes ==
    ASSUME Inv, Next
    PROVE  TypeOK'
<1> USE DEF Loop
<1>1. TypeOK /\ LoopsOK /\ Counted
  BY Zenon DEF Inv
<1>2. ASSUME NEW p \in Publishers, Publish(p) PROVE TypeOK'
  <2>1. /\ count' \in [Publishers -> Nat] /\ \A q \in Publishers : count'[q] <= MaxEvents[q]
    <3>1. \A q \in Publishers : MaxEvents[q] \in Nat /\ count[q] \in Nat /\ count[q] <= MaxEvents[q]
      BY <1>1, EventsAssumption, Zenon DEF TypeOK
    <3>2. count[p] < MaxEvents[p] /\ count' = [count EXCEPT ![p] = count[p] + 1]
      BY <1>2, Zenon DEF Publish
    <3>3. count \in [Publishers -> Nat]
      BY <1>1, Zenon DEF TypeOK
    <3> QED BY <3>1, <3>2, <3>3
  <2>2. pub' \in [Publishers -> Loop]
    BY <1>1, <1>2, Zenon DEF TypeOK, Publish, Idle
  <2> QED BY <1>1, <1>2, <2>1, <2>2, Zenon DEF TypeOK, Publish
<1>3. ASSUME NEW p \in Publishers, NextObserver(p) PROVE TypeOK'
  <2>1. pub' \in [Publishers -> Loop]
    <3>1. PICK d \in observers : pub' = [pub EXCEPT ![p].at = d]
      BY <1>3, Zenon DEF NextObserver
    <3>2. d \in Observers /\ pub \in [Publishers -> Loop]
      BY <1>1, Zenon DEF TypeOK
    <3> QED BY <3>1, <3>2, Zenon
  <2> QED BY <1>1, <1>3, <2>1, Zenon DEF TypeOK, NextObserver
<1>4. ASSUME NEW p \in Publishers, Send(p) PROVE TypeOK'
  <2>1. PICK d \in Observers : d = pub[p].at
    BY <1>1, <1>4, Zenon DEF TypeOK, Send
  <2>2. Message(p) \in Messages
    BY <1>1, <2>1, MessageTyping, EventsAssumption, Zenon DEF LoopsOK, Counted
  <2>3. chan[d] \in Seq(Messages) /\ Len(chan[d]) < 1 /\ chan' = [chan EXCEPT ![d] = Append(@, Message(p))]
    BY <1>1, <1>4, <2>1, Zenon DEF TypeOK, Send, Capacity
  <2>4. /\ Append(chan[d], Message(p)) \in Seq(Messages) /\ Len(chan[d]) \in Nat
        /\ Len(Append(chan[d], Message(p))) = Len(chan[d]) + 1
    BY <2>2, <2>3, AppendProperties, LenProperties
  <2>5. Len(Append(chan[d], Message(p))) <= 1
    BY <2>3, <2>4
  <2>6. chan' \in [Observers -> Seq(Messages)] /\ \A o \in Observers : Len(chan'[o]) <= Capacity
    <3>1. chan \in [Observers -> Seq(Messages)] /\ \A o \in Observers : Len(chan[o]) <= 1
      BY <1>1, Zenon DEF TypeOK, Capacity
    <3> DEFINE new == Append(chan[d], Message(p))
    <3>2. new \in Seq(Messages) /\ Len(new) <= 1 /\ chan' = [chan EXCEPT ![d] = new]
      BY <2>3, <2>4, <2>5, Zenon
    <3> HIDE DEF new
    <3>3. chan' \in [Observers -> Seq(Messages)]
      BY <3>1, <3>2, Zenon
    <3>4. \A o \in Observers : chan'[o] = IF o = d THEN new ELSE chan[o]
      BY <3>1, <3>2, Zenon
    <3> QED BY <3>1, <3>2, <3>3, <3>4, Zenon DEF Capacity
  <2>7. pub' \in [Publishers -> Loop]
    <3>1. pub \in [Publishers -> Loop]
      BY <1>1, Zenon DEF TypeOK
    <3>2. pub' = [pub EXCEPT ![p].at = None, ![p].seen = @ \cup {d}]
      BY <1>4, <2>1, Zenon DEF Send
    <3> QED BY <3>1, <3>2, ZenonT(30)
  <2> QED BY <1>1, <1>4, <2>6, <2>7, Zenon DEF TypeOK, Send
<1>5. ASSUME NEW p \in Publishers, Published(p) PROVE TypeOK'
  <2>1. pub' \in [Publishers -> Loop]
    BY <1>1, <1>5, Zenon DEF TypeOK, Published, Idle
  <2> QED BY <1>1, <1>5, <2>1, Zenon DEF TypeOK, Published
<1>6. ASSUME NEW p \in Publishers, Throw(p) PROVE TypeOK'
  BY <1>1, <1>6, Zenon DEF TypeOK, Throw
<1>7. ASSUME NEW o \in Observers, Lock(o) PROVE TypeOK'
  BY <1>1, <1>7, Zenon DEF TypeOK, Lock
<1>8. ASSUME NEW o \in Observers, Subscribe(o) PROVE TypeOK'
  BY <1>1, <1>8, Zenon DEF TypeOK, Subscribe
<1>9. ASSUME NEW o \in Observers, Unsubscribe(o) PROVE TypeOK'
  BY <1>1, <1>9, Zenon DEF TypeOK, Unsubscribe
<1>10. ASSUME NEW o \in Observers, Leave(o) PROVE TypeOK'
  BY <1>1, <1>10, Zenon DEF TypeOK, Leave
<1>11. ASSUME NEW d \in Observers, Receive(d) PROVE TypeOK'
  <2>1. /\ got[d] \in Seq(Messages) /\ chan[d] \in Seq(Messages)
        /\ Len(chan[d]) <= Capacity /\ chan[d] # <<>>
    BY <1>1, <1>11, Zenon DEF TypeOK, Receive
  <2>2. Head(chan[d]) \in Messages /\ Tail(chan[d]) \in Seq(Messages) /\ Len(Tail(chan[d])) = 0
    BY <2>1, OneMessage, Zenon
  <2>3. Append(got[d], Head(chan[d])) \in Seq(Messages)
    BY <2>1, <2>2, AppendProperties, Zenon
  <2>4. got' \in [Observers -> Seq(Messages)]
    BY <1>1, <1>11, <2>3, Zenon DEF TypeOK, Receive
  <2>5. chan' \in [Observers -> Seq(Messages)] /\ \A o \in Observers : Len(chan'[o]) <= Capacity
    BY <1>1, <1>11, <2>2 DEF TypeOK, Receive, Capacity
  <2> QED BY <1>1, <1>11, <2>4, <2>5, Zenon DEF TypeOK, Receive
<1> QED BY <1>2, <1>3, <1>4, <1>5, <1>6, <1>7, <1>8, <1>9, <1>10, <1>11, Zenon
        DEF Next, PublishStep, Subscription

(* Nothing has been published and nobody has subscribed.                   *)
LEMMA InitInv == Init => Inv
<1> SUFFICES ASSUME Init PROVE Inv
  BY Zenon
<1>1. <<>> \in Seq(Messages) /\ Len(<<>>) = 0
  BY EmptySeq, Zenon
<1>2. TypeOK
  <2>1. /\ chan \in [Observers -> Seq(Messages)] /\ got \in [Observers -> Seq(Messages)]
        /\ \A o \in Observers : Len(chan[o]) <= Capacity
    BY <1>1 DEF Init, Capacity
  <2>2. count \in [Publishers -> Nat] /\ \A p \in Publishers : count[p] <= MaxEvents[p]
    BY EventsAssumption DEF Init
  <2>3. pub \in [Publishers -> Loop]
    BY Zenon DEF Init, Idle, Loop
  <2>4. thrown \in BOOLEAN
    BY Zenon DEF Init
  <2>5. /\ observers \subseteq Observers /\ mu \in Observers \cup {None}
        /\ reader \in [Observers -> {"new", "subscribing", "reading", "leaving", "unsubscribing", "gone"}]
    BY Zenon DEF Init
  <2> QED BY <2>1, <2>2, <2>3, <2>4, <2>5, Zenon DEF TypeOK, Loop
<1>3. \A o \in Observers : Stream(o) = <<>> /\ Len(Stream(o)) = 0
  <2>1. TAKE o \in Observers
  <2>2. got[o] = <<>> /\ chan[o] = <<>>
    BY Zenon DEF Init
  <2> QED BY <2>2, <1>1, ConcatEmptySeq, Zenon DEF Stream
<1>4. \A p \in Publishers : pub[p].at = None /\ ~Busy(p)
  BY Zenon DEF Init, Idle, Busy
<1> QED BY <1>2, <1>3, <1>4 DEF Inv, LoopsOK, Counted, PastOK, ServedOK, InOrder

(* The invariant is inductive.                                             *)
LEMMA StepInv == Inv /\ [Next]_vars => Inv'
<1> SUFFICES ASSUME Inv, [Next]_vars PROVE Inv'
  BY Zenon
<1>1. CASE UNCHANGED vars
  <2>1. TypeOK'
    BY <1>1, Zenon DEF Inv, TypeOK, vars
  <2> QED BY <1>1, <2>1, OthersKeepInv, Zenon DEF Inv, vars
<1>2. CASE Next
  <2>1. TypeOK'
    BY <1>2, KeepsTypes, Zenon
  <2>2. ASSUME NEW p \in Publishers, Publish(p) \/ PublishStep(p)
        PROVE  (LoopsOK /\ PastOK /\ ServedOK /\ InOrder /\ Counted)'
    BY <2>2, PublishKeepsInv, NextObserverKeepsInv, SendKeepsInv, PublishedKeepsInv, Zenon DEF PublishStep
  <2>3. ASSUME NEW p \in Publishers, Throw(p)
        PROVE  (LoopsOK /\ PastOK /\ ServedOK /\ InOrder /\ Counted)'
    BY <2>3, OthersKeepInv, Zenon DEF Throw
  <2>4. ASSUME NEW o \in Observers, Subscription(o) \/ Leave(o)
        PROVE  (LoopsOK /\ PastOK /\ ServedOK /\ InOrder /\ Counted)'
    BY <2>4, OthersKeepInv, Zenon DEF Subscription, Lock, Subscribe, Unsubscribe, Leave
  <2>5. ASSUME NEW o \in Observers, Receive(o)
        PROVE  (LoopsOK /\ PastOK /\ ServedOK /\ InOrder /\ Counted)'
    BY <2>5, ReceiveKeepsInv, Zenon
  <2>6. (LoopsOK /\ PastOK /\ ServedOK /\ InOrder /\ Counted)'
    BY <1>2, <2>2, <2>3, <2>4, <2>5, Zenon DEF Next
  <2> QED BY <2>1, <2>6, Zenon DEF Inv
<1> QED BY <1>1, <1>2, Zenon

(* The invariant holds of every behaviour.                                 *)
LEMMA EventsInv == Spec => []Inv
  BY InitInv, StepInv, PTL DEF Spec

(***************************************************************************)
(* Every observer sees the events of a publisher in the order of Publish   *)
(* and none twice, with any number of publishers, observers and events.    *)
(***************************************************************************)
THEOREM EventsInOrder == Spec => []InOrder
<1>1. Inv => InOrder
  BY Zenon DEF Inv
<1> QED BY <1>1, EventsInv, PTL

(***************************************************************************)
(* Publish leaves out no observer that was subscribed all along and did    *)
(* not filter the event out: only the end of the range ends the loop, and  *)
(* by then it has served them all.                                         *)
(***************************************************************************)
THEOREM ReachesAll == Spec => PublishReachesAll
<1> DEFINE Reached(p) == \A o \in pub[p].due \cap observers : Matches(o, Message(p)) =>
                            \E i \in 1 .. Len(Stream(o)) : Stream(o)[i] = Message(p)
<1>1. ASSUME Inv, Next, NEW p \in Publishers, Busy(p), ~Busy(p)'
      PROVE  Reached(p)
  <2>1. ASSUME NEW q \in Publishers, Publish(q) \/ NextObserver(q) \/ Send(q) \/ Throw(q)
        PROVE  FALSE
    <3>1. pub[p] \in Loop /\ pub[q] \in Loop /\ pub \in [Publishers -> Loop]
      BY <1>1, Zenon DEF Inv, TypeOK, Loop
    <3>2. CASE Publish(q)
      BY <1>1, <3>1, <3>2, Zenon DEF Publish, Busy, Idle
    <3>3. CASE NextObserver(q)
      BY <1>1, <3>1, <3>3 DEF NextObserver, Busy, Loop
    <3>4. CASE Send(q)
      BY <1>1, <3>1, <3>4, Zenon DEF Send, Busy, Loop
    <3>5. CASE Throw(q)
      BY <1>1, <3>5, Zenon DEF Throw, Busy
    <3> QED BY <2>1, <3>2, <3>3, <3>4, <3>5, Zenon
  <2>2. ASSUME NEW o \in Observers, Subscription(o) \/ Receive(o) \/ Leave(o)
        PROVE  FALSE
    BY <1>1, <2>2, Zenon DEF Subscription, Lock, Subscribe, Unsubscribe, Receive, Leave, Busy
  <2>3. PICK q \in Publishers : Published(q)
    BY <1>1, <2>1, <2>2, Zenon DEF Next, PublishStep
  <2>4. q = p
    BY <1>1, <2>3, Zenon DEF Published, Busy, Inv, TypeOK
  <2>5. pub[p].due \cap observers \subseteq pub[p].seen /\ pub[p].seen \subseteq Observers
    BY <2>3, <2>4, <1>1, Zenon DEF Published, Inv, TypeOK
  <2> QED BY <1>1, <2>5, Zenon DEF Inv, ServedOK
<1>2. Inv /\ [Next]_vars =>
        [\A p \in Publishers : Busy(p) /\ ~Busy(p)' => Reached(p)]_vars
  BY <1>1, Zenon
<1> QED BY <1>2, EventsInv, PTL DEF Spec, PublishReachesAll

---------------------------------------------------------------------------
(* The output of exec, attach and logs. What IoProxy assumes of its        *)
(* constants is a hypothesis of the lemmas that need it.                   *)

CONSTANTS Streams, Chunks, Newline, NoOne, MaxBytes

VARIABLES given, buf, flusher, timer, holder, todo, out, sent, open, pc

(* The proxies of a request.                                               *)
P == INSTANCE IoProxy

(* FramesWhole, of any sequence of pieces.                                 *)
Whole(q) ==
    \A i \in 1 .. Len(q) :
        IF q[i].kind = "header"
        THEN \A j \in 1 .. i - 1 : q[j].kind = "header" => j + q[j].val < i
        ELSE \E j \in 1 .. i - 1 :
               /\ q[j].kind = "header"
               /\ i <= j + q[j].val
               /\ \A k \in j .. i : q[k].stream = q[i].stream

(* Its last frame is complete.                                             *)
Complete(q) == \A j \in 1 .. Len(q) : q[j].kind = "header" => j + q[j].val <= Len(q)

(***************************************************************************)
(* A piece is a header with a length or a byte.                            *)
(***************************************************************************)
LEMMA PieceType ==
    ASSUME NEW x \in P!Pieces
    PROVE  /\ x.stream \in Streams
           /\ (x.kind = "header" /\ x.val \in Nat) \/ (x.kind = "byte" /\ x.val \in P!Bytes)
  BY DEF P!Pieces, P!Header, P!Byte

(***************************************************************************)
(* The pieces of two sequences, one behind the other.                      *)
(***************************************************************************)
LEMMA Joined ==
    ASSUME NEW S, NEW q \in Seq(S), NEW r \in Seq(S)
    PROVE  /\ q \o r \in Seq(S) /\ Len(q) \in Nat /\ Len(r) \in Nat /\ Len(q \o r) = Len(q) + Len(r)
           /\ \A i \in 1 .. Len(q) : (q \o r)[i] = q[i]
           /\ \A i \in Len(q) + 1 .. Len(q) + Len(r) : (q \o r)[i] = r[i - Len(q)]
  OBVIOUS

(***************************************************************************)
(* What write puts on the connection: a header with the length of the      *)
(* line, then its bytes.                                                   *)
(***************************************************************************)
LEMMA Written ==
    ASSUME NEW s \in Streams, NEW p \in Seq(P!Bytes)
    PROVE  /\ P!write(s, p) \in Seq(P!Pieces) /\ Len(p) \in Nat /\ Len(P!write(s, p)) = Len(p) + 1
           /\ P!write(s, p)[1].kind = "header" /\ P!write(s, p)[1].val = Len(p)
           /\ P!write(s, p)[1].stream = s
           /\ \A i \in 1 .. Len(p) : /\ P!write(s, p)[i + 1].kind = "byte"
                                     /\ P!write(s, p)[i + 1].val = p[i]
                                     /\ P!write(s, p)[i + 1].stream = s
  <1> DEFINE body == [i \in 1 .. Len(p) |-> P!Byte(s, p[i])]
             head == <<P!Header(s, Len(p))>>
  <1>1. Len(p) \in Nat /\ \A i \in 1 .. Len(p) : P!Byte(s, p[i]) \in P!Pieces
    BY DEF P!Pieces
  <1>2. body \in Seq(P!Pieces) /\ Len(body) = Len(p) /\ \A i \in 1 .. Len(p) : body[i] = P!Byte(s, p[i])
    BY <1>1
  <1>3. P!Header(s, Len(p)) \in P!Pieces
    BY <1>1 DEF P!Pieces
  <1>4. head \in Seq(P!Pieces) /\ Len(head) = 1 /\ head[1] = P!Header(s, Len(p))
    BY <1>3
  <1> HIDE DEF head, body
  <1>5. /\ head \o body \in Seq(P!Pieces) /\ Len(head \o body) = Len(p) + 1
        /\ (head \o body)[1] = P!Header(s, Len(p))
        /\ \A i \in 1 .. Len(p) : (head \o body)[i + 1] = P!Byte(s, p[i])
    <2>1. /\ head \o body \in Seq(P!Pieces) /\ Len(head \o body) = Len(p) + 1
          /\ (head \o body)[1] = P!Header(s, Len(p))
          /\ \A i \in 2 .. Len(p) + 1 : (head \o body)[i] = body[i - 1]
      <3>0. head \in Seq(P!Pieces) /\ body \in Seq(P!Pieces)
        BY <1>2, <1>4, Zenon
      <3>1. /\ head \o body \in Seq(P!Pieces) /\ Len(head \o body) = Len(head) + Len(body)
            /\ \A i \in 1 .. Len(head) : (head \o body)[i] = head[i]
            /\ \A i \in Len(head) + 1 .. Len(head) + Len(body) : (head \o body)[i] = body[i - Len(head)]
        BY <3>0, Joined, Zenon
      <3>2. PICK r : r = head \o body
        BY Zenon
      <3> QED BY <1>1, <1>2, <1>4, <3>1, <3>2
    <2>2. ASSUME NEW i \in 1 .. Len(p) PROVE (head \o body)[i + 1] = P!Byte(s, p[i])
      <3>1. i + 1 \in 2 .. Len(p) + 1 /\ (i + 1) - 1 = i
        BY <1>1
      <3> QED BY <1>2, <2>1, <3>1, Zenon
    <2> QED BY <2>1, <2>2, Zenon
  <1>6. P!write(s, p) = head \o body
    BY Zenon DEF P!write, head, body
  <1>7. /\ P!Header(s, Len(p)).kind = "header" /\ P!Header(s, Len(p)).val = Len(p)
        /\ P!Header(s, Len(p)).stream = s
        /\ \A i \in 1 .. Len(p) : /\ P!Byte(s, p[i]).kind = "byte" /\ P!Byte(s, p[i]).val = p[i]
                                  /\ P!Byte(s, p[i]).stream = s
    BY Zenon DEF P!Header, P!Byte
  <1> QED BY <1>1, <1>5, <1>6, <1>7, ZenonT(30)

(***************************************************************************)
(* A part of whole frames, from the first piece on, is in whole frames.    *)
(***************************************************************************)
LEMMA WholePrefix ==
    ASSUME NEW q \in Seq(P!Pieces), NEW r \in Seq(P!Pieces), Whole(q \o r)
    PROVE  Whole(q)
  <1>1. /\ Len(q) \in Nat /\ Len(r) \in Nat /\ Len(q \o r) = Len(q) + Len(r)
        /\ \A i \in 1 .. Len(q) : (q \o r)[i] = q[i]
    OBVIOUS
  <1> SUFFICES ASSUME NEW i \in 1 .. Len(q)
               PROVE  IF q[i].kind = "header"
                      THEN \A j \in 1 .. i - 1 : q[j].kind = "header" => j + q[j].val < i
                      ELSE \E j \in 1 .. i - 1 :
                             /\ q[j].kind = "header"
                             /\ i <= j + q[j].val
                             /\ \A k \in j .. i : q[k].stream = q[i].stream
    BY Zenon DEF Whole
  <1>2. /\ i \in 1 .. Len(q \o r)
        /\ \A j \in 1 .. i - 1 : j \in 1 .. Len(q) /\ \A k \in j .. i : k \in 1 .. Len(q)
    BY <1>1
  <1>3. /\ (q \o r)[i] = q[i]
        /\ \A j \in 1 .. i - 1 :
             (q \o r)[j] = q[j] /\ \A k \in j .. i : (q \o r)[k] = q[k]
    BY <1>1, <1>2, Zenon
  <1>4. CASE q[i].kind = "header"
    <2>1. \A j \in 1 .. i - 1 : (q \o r)[j].kind = "header" => j + (q \o r)[j].val < i
      BY <1>2, <1>3, <1>4, Zenon DEF Whole
    <2> QED BY <1>3, <1>4, <2>1, Zenon
  <1>5. CASE q[i].kind # "header"
    <2>1. PICK j \in 1 .. i - 1 : /\ (q \o r)[j].kind = "header"
                                  /\ i <= j + (q \o r)[j].val
                                  /\ \A k \in j .. i : (q \o r)[k].stream = (q \o r)[i].stream
      BY <1>2, <1>3, <1>5, Zenon DEF Whole
    <2>2. /\ q[j].kind = "header"
          /\ i <= j + q[j].val
          /\ \A k \in j .. i : q[k].stream = q[i].stream
      BY <1>3, <2>1, Zenon
    <2> QED BY <1>5, <2>2, Zenon
  <1> QED BY <1>4, <1>5, Zenon

(***************************************************************************)
(* write after complete frames leaves complete frames.                     *)
(***************************************************************************)
LEMMA WholeFrame ==
    ASSUME NEW q \in Seq(P!Pieces), Whole(q), Complete(q), NEW s \in Streams, NEW p \in Seq(P!Bytes)
    PROVE  Whole(q \o P!write(s, p)) /\ Complete(q \o P!write(s, p))
  <1>1. PICK w : w = P!write(s, p)
    BY Zenon
  <1>2. PICK n, m, r : n = Len(q) /\ m = Len(p) /\ r = q \o w
    BY Zenon
  <1>3. /\ w \in Seq(P!Pieces) /\ m \in Nat /\ Len(w) = m + 1 /\ n \in Nat
        /\ w[1].kind = "header" /\ w[1].val = m /\ w[1].stream = s
        /\ \A i \in 1 .. m : w[i + 1].kind = "byte" /\ w[i + 1].stream = s
    BY <1>1, <1>2, Written
  <1>4. /\ Len(r) = n + m + 1
        /\ \A i \in 1 .. n : r[i] = q[i]
        /\ \A i \in n + 1 .. n + m + 1 : r[i] = w[i - n]
    <2>1. /\ Len(q \o w) = Len(q) + Len(w)
          /\ \A i \in 1 .. Len(q) : (q \o w)[i] = q[i]
          /\ \A i \in Len(q) + 1 .. Len(q) + Len(w) : (q \o w)[i] = w[i - Len(q)]
      <3>1. q \in Seq(P!Pieces) /\ w \in Seq(P!Pieces)
        BY <1>3, Zenon
      <3> QED BY <3>1, Joined, Zenon
    <2>2. n + (m + 1) = n + m + 1
      BY <1>3
    <2> QED BY <1>2, <1>3, <2>1, <2>2, Zenon
  <1>5. /\ r[n + 1].kind = "header" /\ r[n + 1].val = m
        /\ \A i \in n + 1 .. n + m + 1 : r[i].stream = s
        /\ \A i \in n + 2 .. n + m + 1 : r[i].kind = "byte"
    <2>1. r[n + 1] = w[1]
      <3>1. n + 1 \in n + 1 .. n + m + 1 /\ (n + 1) - n = 1
        BY <1>3
      <3> QED BY <1>4, <3>1, Zenon
    <2>2. ASSUME NEW i \in n + 2 .. n + m + 1 PROVE r[i].kind = "byte" /\ r[i].stream = s
      <3>1. i - n - 1 \in 1 .. m /\ (i - n - 1) + 1 = i - n /\ i \in n + 1 .. n + m + 1
        BY <1>3, <2>2
      <3>2. r[i] = w[(i - n - 1) + 1]
        BY <1>4, <3>1, Zenon
      <3> QED BY <1>3, <3>1, <3>2, Zenon
    <2> QED BY <1>3, <2>1, <2>2
  <1>6. \A j \in 1 .. n : q[j].kind = "header" => q[j].val \in Nat /\ j + q[j].val <= n
    <2>1. \A j \in 1 .. n : q[j] \in P!Pieces
      BY <1>2
    <2> QED BY <1>2, <2>1, PieceType, Zenon DEF Complete
  <1>7. Whole(r)
    <2> SUFFICES ASSUME NEW i \in 1 .. n + m + 1
                 PROVE IF r[i].kind = "header"
                       THEN \A j \in 1 .. i - 1 : r[j].kind = "header" => j + r[j].val < i
                       ELSE \E j \in 1 .. i - 1 :
                              /\ r[j].kind = "header"
                              /\ i <= j + r[j].val
                              /\ \A k \in j .. i : r[k].stream = r[i].stream
      BY <1>4, Zenon DEF Whole
    <2>1. CASE i \in 1 .. n
      <3>1. \A j \in 1 .. i : r[j] = q[j]
        BY <1>3, <1>4, <2>1
      <3>2. IF q[i].kind = "header"
            THEN \A j \in 1 .. i - 1 : q[j].kind = "header" => j + q[j].val < i
            ELSE \E j \in 1 .. i - 1 :
                   /\ q[j].kind = "header"
                   /\ i <= j + q[j].val
                   /\ \A k \in j .. i : q[k].stream = q[i].stream
        BY <1>2, <2>1, Zenon DEF Whole
      <3>3. CASE q[i].kind = "header"
        BY <1>3, <2>1, <3>1, <3>2, <3>3, SMTT(30)
      <3>4. CASE q[i].kind # "header"
        <4>1. PICK j \in 1 .. i - 1 : /\ q[j].kind = "header" /\ i <= j + q[j].val
                                      /\ \A k \in j .. i : q[k].stream = q[i].stream
          BY <3>2, <3>4, Zenon
        <4>2. \A k \in j .. i : r[k].stream = r[i].stream
          BY <2>1, <3>1, <4>1
        <4> QED BY <2>1, <3>1, <3>4, <4>1, <4>2
      <3> QED BY <3>3, <3>4, Zenon
    <2>2. CASE i = n + 1
      <3>1. ASSUME NEW j \in 1 .. n, r[j].kind = "header" PROVE j + r[j].val < n + 1
        <4>1. r[j] = q[j] /\ q[j].val \in Nat /\ j + q[j].val <= n
          BY <1>4, <1>6, <3>1, Zenon
        <4>2. PICK v : v = q[j].val
          BY Zenon
        <4>3. j + v < n + 1
          BY <1>3, <4>1, <4>2
        <4> QED BY <4>1, <4>2, <4>3, Zenon
      <3>2. i - 1 = n /\ r[i].kind = "header"
        BY <1>3, <1>5, <2>2
      <3> QED BY <2>2, <3>1, <3>2, Zenon
    <2>3. CASE i \in n + 2 .. n + m + 1
      <3>1. n + 1 \in 1 .. i - 1 /\ i <= n + 1 + r[n + 1].val /\ \A k \in n + 1 .. i : r[k].stream = r[i].stream
        BY <1>3, <1>5, <2>3
      <3> QED BY <1>5, <2>3, <3>1, Zenon
    <2>4. i \in 1 .. n \/ i = n + 1 \/ i \in n + 2 .. n + m + 1
      BY <1>3
    <2> QED BY <2>1, <2>2, <2>3, <2>4, Zenon
  <1>8. Complete(r)
    <2>1. \A j \in 1 .. n : r[j].kind = "header" => j + r[j].val <= n + m + 1
      <3> SUFFICES ASSUME NEW j \in 1 .. n, q[j].kind = "header" PROVE j + q[j].val <= n + m + 1
        BY <1>4, Zenon
      <3>1. q[j].val \in Nat /\ j + q[j].val <= n
        BY <1>6, Zenon
      <3> QED BY <1>3, <3>1, SMTT(30)
    <2>2. \A j \in n + 1 .. n + m + 1 : r[j].kind = "header" => j + r[j].val <= n + m + 1
      BY <1>3, <1>5
    <2>3. \A j \in 1 .. n + m + 1 : j \in 1 .. n \/ j \in n + 1 .. n + m + 1
      BY <1>3
    <2> QED BY <1>4, <2>1, <2>2, <2>3, Zenon DEF Complete
  <1> QED BY <1>1, <1>2, <1>7, <1>8, Zenon

---------------------------------------------------------------------------
(* The bytes in pieces.                                                    *)
Vals(q) == [i \in 1 .. Len(q) |-> q[i].val]

(* The types that the invariant needs.                                     *)
IoTypes ==
    /\ given \in [Streams -> Seq(P!Bytes)] /\ buf \in [Streams -> Seq(P!Bytes)]
    /\ sent \in [Streams -> Seq(P!Bytes)]
    /\ holder \in Streams \cup {NoOne}
    /\ out \in Seq(P!Pieces) /\ todo \in Seq(P!Pieces)

(* What is left of a frame belongs to the stream that holds the mutex, and *)
(* only its first piece can be a header.                                   *)
FrameOK ==
    /\ holder = NoOne => todo = <<>>
    /\ \A i \in 1 .. Len(todo) : todo[i].stream = holder /\ (i # 1 => todo[i].kind = "byte")

(* The connection has whole frames, and complete ones once the frame that  *)
(* is on its way is out.                                                   *)
OutOK ==
    /\ Whole(out)
    /\ open => Whole(out \o todo) /\ Complete(out \o todo)

(* The inductive invariant of the writers.                                 *)
FrameInv == IoTypes /\ FrameOK /\ OutOK /\ P!NothingLost

(***************************************************************************)
(* Whoever does not hold the mutex has nothing on its way.                 *)
(***************************************************************************)
LEMMA NoPending ==
    ASSUME NEW s, holder # s \/ todo = <<>>
    PROVE  P!Pending(s) = <<>>
  BY DEF P!Pending

(***************************************************************************)
(* Before the header is out, all the bytes are on their way.               *)
(***************************************************************************)
LEMMA HeaderPending ==
    ASSUME todo \in Seq(P!Pieces), todo # <<>>, Head(todo).kind = "header"
    PROVE  P!Pending(holder) = Vals(Tail(todo))
  BY Zenon DEF P!Pending, Vals

(***************************************************************************)
(* After that, what is left of the frame.                                  *)
(***************************************************************************)
LEMMA BodyPending ==
    ASSUME todo \in Seq(P!Pieces), \A i \in 1 .. Len(todo) : todo[i].kind = "byte"
    PROVE  P!Pending(holder) = Vals(todo)
  <1>1. ~(todo # <<>> /\ Head(todo).kind = "header")
    OBVIOUS
  <1> QED BY <1>1, Zenon DEF P!Pending, Vals

(***************************************************************************)
(* The bytes in pieces, first and rest.                                    *)
(***************************************************************************)
LEMMA ValsType ==
    ASSUME NEW q \in Seq(P!Pieces), \A i \in 1 .. Len(q) : q[i].kind = "byte"
    PROVE  /\ Vals(q) \in Seq(P!Bytes) /\ Len(Vals(q)) = Len(q)
           /\ q # <<>> => /\ Vals(q) # <<>> /\ Head(Vals(q)) = Head(q).val
                          /\ Tail(Vals(q)) = Vals(Tail(q))
  <1>1. Len(q) \in Nat /\ \A i \in 1 .. Len(q) : q[i] \in P!Pieces
    OBVIOUS
  <1>2. \A i \in 1 .. Len(q) : q[i].val \in P!Bytes
    BY <1>1, PieceType, Zenon
  <1>3. Vals(q) \in Seq(P!Bytes) /\ Len(Vals(q)) = Len(q) /\ \A i \in 1 .. Len(q) : Vals(q)[i] = q[i].val
    BY <1>1, <1>2 DEF Vals
  <1>4. ASSUME q # <<>>
        PROVE  /\ Vals(q) # <<>> /\ Head(Vals(q)) = Head(q).val
               /\ Tail(Vals(q)) = Vals(Tail(q))
    <2>1. Len(q) # 0 /\ Vals(q) # <<>> /\ Head(Vals(q)) = Head(q).val
      BY <1>3, <1>4
    <2>2. /\ Len(Tail(q)) = Len(q) - 1 /\ \A i \in 1 .. Len(q) - 1 : Tail(q)[i] = q[i + 1]
          /\ Tail(q) \in Seq(P!Pieces)
      BY <1>4
    <2>3. \A i \in 1 .. Len(Tail(q)) : Tail(q)[i].val \in P!Bytes
      BY <1>1, <1>2, <2>1, <2>2
    <2>4. /\ Vals(Tail(q)) \in Seq(P!Bytes) /\ Len(Vals(Tail(q))) = Len(q) - 1
          /\ \A i \in 1 .. Len(q) - 1 : Vals(Tail(q))[i] = q[i + 1].val
      BY <2>2, <2>3 DEF Vals
    <2>5. PICK v, t : v = Vals(q) /\ t = Vals(Tail(q))
      BY Zenon
    <2>6. /\ Len(Tail(v)) = Len(q) - 1 /\ Tail(v) \in Seq(P!Bytes)
          /\ \A i \in 1 .. Len(q) - 1 : Tail(v)[i] = q[i + 1].val
      BY <1>1, <1>3, <2>1, <2>5
    <2>7. Tail(v) = t
      BY <1>1, <2>1, <2>4, <2>5, <2>6, SMTT(30)
    <2> QED BY <2>1, <2>5, <2>7, Zenon
  <1> QED BY <1>3, <1>4, Zenon

(***************************************************************************)
(* The bytes of a frame are the bytes of the line.                         *)
(***************************************************************************)
LEMMA WrittenVals ==
    ASSUME NEW s \in Streams, NEW p \in Seq(P!Bytes)
    PROVE  Vals(Tail(P!write(s, p))) = p
  <1>1. PICK w : w = P!write(s, p)
    BY Zenon
  <1>2. /\ w \in Seq(P!Pieces) /\ Len(p) \in Nat /\ Len(w) = Len(p) + 1
        /\ \A i \in 1 .. Len(p) : w[i + 1].val = p[i]
    BY <1>1, Written
  <1>3. Len(Tail(w)) = Len(p) /\ \A i \in 1 .. Len(p) : Tail(w)[i] = w[i + 1]
    BY <1>2
  <1>4. Vals(Tail(w)) = [i \in 1 .. Len(p) |-> p[i]]
    BY <1>2, <1>3, Zenon DEF Vals
  <1>5. p = [i \in 1 .. Len(p) |-> p[i]]
    OBVIOUS
  <1> QED BY <1>1, <1>4, <1>5, Zenon

(***************************************************************************)
(* Sequences are joined in any order.                                      *)
(***************************************************************************)
LEMMA JoinedThrice ==
    ASSUME NEW S, NEW q \in Seq(S), NEW r \in Seq(S), NEW t \in Seq(S)
    PROVE  (q \o r) \o t = q \o (r \o t)
  BY SMTT(30)

(***************************************************************************)
(* Joining nothing changes nothing.                                        *)
(***************************************************************************)
LEMMA JoinedEmpty ==
    ASSUME NEW S, NEW q \in Seq(S)
    PROVE  q \o <<>> = q /\ <<>> \o q = q /\ <<>> \in Seq(S)
  OBVIOUS

(***************************************************************************)
(* A piece goes from one sequence to the other.                            *)
(***************************************************************************)
LEMMA EmitJoins ==
    ASSUME NEW S, NEW q \in Seq(S), NEW r \in Seq(S), r # <<>>
    PROVE  Append(q, Head(r)) \o Tail(r) = q \o r
  BY SMTT(30)

(* The part p of the buffer of s becomes a frame, and b is left.           *)
Framed(s, p, b) ==
    /\ todo = <<>> /\ holder \in {s, NoOne}
    /\ buf[s] = p \o b
    /\ todo' = P!write(s, p) /\ holder' = s
    /\ buf' = [buf EXCEPT ![s] = b]
    /\ UNCHANGED <<given, out, sent, open>>

(***************************************************************************)
(* Such a step keeps the invariant.                                        *)
(***************************************************************************)
LEMMA FramedKeeps ==
    ASSUME FrameInv, NEW s \in Streams, NEW p \in Seq(P!Bytes), NEW b \in Seq(P!Bytes), Framed(s, p, b),
           NoOne \notin Streams
    PROVE  FrameInv'
  <1>1. IoTypes /\ P!NothingLost /\ OutOK
    BY Zenon DEF FrameInv
  <1>2. /\ todo' \in Seq(P!Pieces) /\ Len(p) \in Nat /\ Len(todo') = Len(p) + 1
        /\ todo'[1].kind = "header" /\ todo'[1].stream = s
        /\ \A i \in 1 .. Len(p) : todo'[i + 1].kind = "byte" /\ todo'[i + 1].stream = s
    BY Written DEF Framed
  <1>3. IoTypes'
    BY <1>1, <1>2, Zenon DEF Framed, IoTypes
  <1>4. FrameOK'
    <2>1. ASSUME NEW i \in 1 .. Len(p) + 1 PROVE todo'[i].stream = s /\ (i # 1 => todo'[i].kind = "byte")
      <3>1. CASE i = 1
        BY <1>2, <3>1, Zenon
      <3>2. CASE i # 1
        <4>1. i - 1 \in 1 .. Len(p) /\ (i - 1) + 1 = i
          BY <1>2, <2>1, <3>2
        <4> QED BY <1>2, <4>1, Zenon
      <3> QED BY <3>1, <3>2, Zenon
    <2> QED BY <1>2, <2>1, Zenon DEF FrameOK, Framed
  <1>5. OutOK'
    <2>1. out \in Seq(P!Pieces) /\ out \o todo = out
      BY <1>1, JoinedEmpty, Zenon DEF IoTypes, Framed
    <2>2. open => Whole(out) /\ Complete(out)
      BY <1>1, <2>1, Zenon DEF OutOK
    <2> QED BY <1>1, <2>1, <2>2, WholeFrame, Zenon DEF OutOK, Framed
  <1>6. P!NothingLost'
    <2> SUFFICES ASSUME open', NEW t \in Streams
                 PROVE  sent'[t] \o P!Pending(t)' \o buf'[t] = given'[t]
      BY Zenon DEF P!NothingLost
    <2>1. P!Pending(t) = <<>>
      BY NoPending, Zenon DEF Framed
    <2>2. sent[t] \o <<>> \o buf[t] = given[t]
      BY <1>1, <2>1, Zenon DEF P!NothingLost, Framed
    <2>3. sent[t] \in Seq(P!Bytes) /\ buf[t] \in Seq(P!Bytes)
      BY <1>1, Zenon DEF IoTypes
    <2>4. CASE t = s
      <3>1. P!Pending(s)' = p
        <4>1. todo' # <<>> /\ Head(todo').kind = "header"
          BY <1>2
        <4>2. P!Pending(s)' = Vals(Tail(todo'))
          BY <4>1, Zenon DEF P!Pending, Vals, Framed
        <4> QED BY <4>2, WrittenVals, Zenon DEF Framed
      <3>2. buf'[t] = b /\ sent' = sent /\ given' = given
        BY <1>1, <2>4, Zenon DEF Framed, IoTypes
      <3>3. sent[t] \o (p \o b) = given[t]
        BY <2>2, <2>3, <2>4, JoinedEmpty, Zenon DEF Framed
      <3>4. (sent[t] \o p) \o b = sent[t] \o (p \o b)
        <4>1. \A x \in Seq(P!Bytes) : (x \o p) \o b = x \o (p \o b)
          BY JoinedThrice, SMTT(30)
        <4> QED BY <2>3, <4>1, Zenon
      <3> QED BY <2>4, <3>1, <3>2, <3>3, <3>4, Zenon
    <2>5. CASE t # s
      <3>1. P!Pending(t)' = <<>>
        BY <2>5, Zenon DEF Framed, P!Pending
      <3>2. buf'[t] = buf[t] /\ sent' = sent /\ given' = given
        BY <1>1, <2>5, Zenon DEF Framed, IoTypes
      <3> QED BY <2>2, <3>1, <3>2, Zenon
    <2> QED BY <2>4, <2>5, Zenon
  <1> QED BY <1>3, <1>4, <1>5, <1>6, Zenon DEF FrameInv

(***************************************************************************)
(* Write puts a chunk behind what is buffered and keeps the invariant.     *)
(***************************************************************************)
LEMMA WriteKeeps ==
    ASSUME FrameInv, NEW s \in Streams, NEW p \in Seq(P!Bytes), P!Write(s, p), NoOne \notin Streams
    PROVE  FrameInv'
  <1>1. IoTypes /\ P!NothingLost /\ OutOK
    BY Zenon DEF FrameInv
  <1>2. /\ todo = <<>> /\ holder' = s /\ UNCHANGED <<todo, out, sent, open>>
        /\ given' = [given EXCEPT ![s] = given[s] \o p]
        /\ buf' = [buf EXCEPT ![s] = buf[s] \o p]
    BY Zenon DEF FrameInv, FrameOK, P!Write
  <1>3. \A t \in Streams : /\ sent[t] \in Seq(P!Bytes) /\ buf[t] \in Seq(P!Bytes)
                           /\ given[t] \in Seq(P!Bytes)
    BY <1>1, Zenon DEF IoTypes
  <1>4. IoTypes'
    <2>1. given[s] \o p \in Seq(P!Bytes) /\ buf[s] \o p \in Seq(P!Bytes)
      BY <1>3
    <2> QED BY <1>1, <1>2, <2>1, Zenon DEF IoTypes
  <1>5. FrameOK' /\ OutOK'
    BY <1>1, <1>2 DEF FrameOK, OutOK
  <1>6. P!NothingLost'
    <2> SUFFICES ASSUME open', NEW t \in Streams
                 PROVE  sent'[t] \o P!Pending(t)' \o buf'[t] = given'[t]
      BY Zenon DEF P!NothingLost
    <2>1. P!Pending(t) = <<>>
      BY <1>2, NoPending, Zenon
    <2>2. P!Pending(t)' = <<>>
      BY <1>2 DEF P!Pending
    <2>3. sent[t] \o <<>> \o buf[t] = given[t]
      BY <1>1, <1>2, <2>1, Zenon DEF P!NothingLost
    <2>4. CASE t = s
      <3>1. given'[t] = given[t] \o p /\ buf'[t] = buf[t] \o p
        BY <1>1, <1>2, <2>4, Zenon DEF IoTypes
      <3>2. sent[t] \o <<>> = sent[t] /\ (sent[t] \o buf[t]) \o p = sent[t] \o (buf[t] \o p)
        <4>1. sent[t] \in Seq(P!Bytes) /\ buf[t] \in Seq(P!Bytes)
          BY <1>3, Zenon
        <4>2. sent[t] \o <<>> = sent[t]
          BY <4>1, JoinedEmpty, Zenon
        <4>3. (sent[t] \o buf[t]) \o p = sent[t] \o (buf[t] \o p)
          <5>1. \A x, y \in Seq(P!Bytes) : (x \o y) \o p = x \o (y \o p)
            BY JoinedThrice, SMTT(30)
          <5> QED BY <4>1, <5>1, Zenon
        <4> QED BY <4>2, <4>3, Zenon
      <3> QED BY <1>2, <2>2, <2>3, <3>1, <3>2, Zenon
    <2>5. CASE t # s
      BY <1>1, <1>2, <2>2, <2>3, <2>5, Zenon DEF IoTypes
    <2> QED BY <2>4, <2>5, Zenon
  <1> QED BY <1>4, <1>5, <1>6, Zenon DEF FrameInv

(***************************************************************************)
(* A piece that is written, or an error that ends the frame, keeps the     *)
(* invariant.                                                              *)
(***************************************************************************)
LEMMA EmitKeeps ==
    ASSUME FrameInv, P!Emit, NoOne \notin Streams
    PROVE  FrameInv'
  <1>1. IoTypes /\ P!NothingLost /\ OutOK /\ FrameOK
    BY Zenon DEF FrameInv
  <1>2. todo # <<>> /\ holder \in Streams /\ UNCHANGED <<given, buf, holder, open>>
    BY <1>1, Zenon DEF P!Emit, FrameOK, IoTypes
  <1>3. CASE ~open
    <2>1. todo' = <<>> /\ out' = out /\ sent' = sent
      BY <1>3, Zenon DEF P!Emit
    <2>2. IoTypes' /\ FrameOK' /\ OutOK'
      BY <1>1, <1>2, <1>3, <2>1 DEF IoTypes, FrameOK, OutOK
    <2>3. P!NothingLost'
      BY <1>2, <1>3, Zenon DEF P!NothingLost
    <2> QED BY <2>2, <2>3, Zenon DEF FrameInv
  <1>4. CASE open
    <2>1. /\ out' = Append(out, Head(todo)) /\ todo' = Tail(todo)
          /\ sent' = IF Head(todo).kind = "header" THEN sent
                     ELSE [sent EXCEPT ![Head(todo).stream] = Append(sent[Head(todo).stream], Head(todo).val)]
      BY <1>4, Zenon DEF P!Emit
    <2>2. /\ out \in Seq(P!Pieces) /\ todo \in Seq(P!Pieces) /\ Head(todo) \in P!Pieces
          /\ Tail(todo) \in Seq(P!Pieces) /\ Append(out, Head(todo)) \in Seq(P!Pieces)
          /\ Head(todo) = todo[1] /\ Head(todo).stream = holder
          /\ \A i \in 1 .. Len(Tail(todo)) : Tail(todo)[i].stream = holder /\ Tail(todo)[i].kind = "byte"
      <3>1. out \in Seq(P!Pieces) /\ todo \in Seq(P!Pieces)
        BY <1>1, Zenon DEF IoTypes
      <3>2. /\ Head(todo) \in P!Pieces /\ Tail(todo) \in Seq(P!Pieces) /\ Append(out, Head(todo)) \in Seq(P!Pieces)
            /\ Head(todo) = todo[1] /\ Len(todo) \in Nat \ {0} /\ Len(Tail(todo)) = Len(todo) - 1
            /\ \A i \in 1 .. Len(todo) - 1 : Tail(todo)[i] = todo[i + 1]
        BY <1>2, <3>1
      <3>3. \A i \in 1 .. Len(todo) : todo[i].stream = holder /\ (i # 1 => todo[i].kind = "byte")
        BY <1>1, Zenon DEF FrameOK
      <3> QED BY <3>1, <3>2, <3>3
    <2>3. out' \o todo' = out \o todo
      BY <1>2, <2>1, <2>2, EmitJoins, Zenon
    <2>4. OutOK'
      <3>1. Whole(out')
        BY <1>1, <1>4, <2>1, <2>2, <2>3, WholePrefix, Zenon DEF OutOK
      <3> QED BY <1>1, <1>4, <2>3, <3>1, Zenon DEF OutOK
    <2>5. FrameOK'
      BY <1>2, <2>1, <2>2, Zenon DEF FrameOK
    <2>6. ASSUME NEW t \in Streams, t # holder PROVE sent'[t] \o P!Pending(t)' \o buf'[t] = given'[t]
      <3>1. P!Pending(t) = <<>> /\ P!Pending(t)' = <<>> /\ sent'[t] = sent[t]
        BY <1>1, <1>2, <2>1, <2>2, <2>6, NoPending, Zenon DEF P!Pending, IoTypes
      <3> QED BY <1>1, <1>2, <1>4, <3>1, Zenon DEF P!NothingLost
    <2>7. P!Pending(holder)' = Vals(Tail(todo))
      <3>1. ~(todo' # <<>> /\ Head(todo').kind = "header")
        <4>1. Tail(todo) # <<>> => 1 \in 1 .. Len(Tail(todo)) /\ Head(Tail(todo)) = Tail(todo)[1]
          BY <2>2
        <4> QED BY <2>1, <2>2, <4>1, Zenon
      <3> QED BY <1>2, <2>1, <3>1, Zenon DEF P!Pending, Vals
    <2>8. sent' \in [Streams -> Seq(P!Bytes)] /\ sent'[holder] \o P!Pending(holder)' = sent[holder] \o P!Pending(holder)
      <3>1. CASE Head(todo).kind = "header"
        BY <1>1, <1>2, <2>1, <2>2, <2>7, <3>1, HeaderPending, Zenon DEF IoTypes
      <3>2. CASE Head(todo).kind = "byte"
        <4>1. \A i \in 1 .. Len(todo) : todo[i].kind = "byte"
          BY <1>1, <2>2, <3>2, Zenon DEF FrameOK
        <4>2. P!Pending(holder) = Vals(todo)
          BY <2>2, <4>1, BodyPending, Zenon
        <4>3. /\ Vals(todo) \in Seq(P!Bytes) /\ Vals(todo) # <<>> /\ Head(Vals(todo)) = Head(todo).val
              /\ Tail(Vals(todo)) = Vals(Tail(todo))
          BY <1>2, <2>2, <4>1, ValsType, Zenon
        <4>4. sent[holder] \in Seq(P!Bytes) /\ Head(todo).val \in P!Bytes
          BY <1>1, <1>2, <2>2, <3>2, PieceType, Zenon DEF IoTypes
        <4>5. Append(sent[holder], Head(todo).val) \in Seq(P!Bytes)
          BY <4>4
        <4>6. sent' = [sent EXCEPT ![holder] = Append(sent[holder], Head(todo).val)]
          BY <2>1, <2>2, <3>2, Zenon
        <4>7. Append(sent[holder], Head(todo).val) \o Vals(Tail(todo)) = sent[holder] \o Vals(todo)
          BY <4>3, <4>4, EmitJoins, Zenon
        <4>8. sent' \in [Streams -> Seq(P!Bytes)] /\ sent'[holder] = Append(sent[holder], Head(todo).val)
          BY <1>1, <1>2, <4>5, <4>6, Zenon DEF IoTypes
        <4> QED BY <2>7, <4>2, <4>7, <4>8, Zenon
      <3> QED BY <2>2, <3>1, <3>2, PieceType, Zenon
    <2>9. P!NothingLost'
      BY <1>1, <1>2, <1>4, <2>6, <2>8, Zenon DEF P!NothingLost
    <2>10. IoTypes'
      BY <1>1, <1>2, <2>1, <2>2, <2>8, Zenon DEF IoTypes
    <2> QED BY <2>4, <2>5, <2>9, <2>10, Zenon DEF FrameInv
  <1> QED BY <1>3, <1>4, Zenon

(***************************************************************************)
(* The end of Write and of Flush keeps the invariant: the frame is out.    *)
(***************************************************************************)
LEMMA UnlockKeeps ==
    ASSUME FrameInv, NEW s \in Streams, P!Unlock(s), NoOne \notin Streams
    PROVE  FrameInv'
  <1>1. IoTypes /\ P!NothingLost /\ OutOK /\ FrameOK
    BY Zenon DEF FrameInv
  <1>2. todo = <<>> /\ holder' = NoOne /\ UNCHANGED <<given, buf, todo, out, sent, open>>
    BY Zenon DEF P!Unlock
  <1>3. IoTypes' /\ FrameOK' /\ OutOK'
    BY <1>1, <1>2 DEF IoTypes, FrameOK, OutOK
  <1>4. \A t \in Streams : P!Pending(t) = <<>> /\ P!Pending(t)' = <<>>
    BY <1>2 DEF P!Pending
  <1>5. P!NothingLost'
    BY <1>1, <1>2, <1>4, Zenon DEF P!NothingLost
  <1> QED BY <1>3, <1>5, Zenon DEF FrameInv

(***************************************************************************)
(* A buffer is its first line and the rest.                                *)
(***************************************************************************)
LEMMA FirstLine ==
    ASSUME NEW S, NEW q \in Seq(S), NEW n \in 1 .. Len(q)
    PROVE  /\ SubSeq(q, 1, n) \in Seq(S) /\ SubSeq(q, n + 1, Len(q)) \in Seq(S)
           /\ SubSeq(q, 1, n) \o SubSeq(q, n + 1, Len(q)) = q
  OBVIOUS

(***************************************************************************)
(* process makes the first line a frame.                                   *)
(***************************************************************************)
LEMMA ProcessFrames ==
    ASSUME FrameInv, NEW s \in Streams, P!process(s)
    PROVE  \E p, b \in Seq(P!Bytes) : Framed(s, p, b)
  <1>1. buf[s] \in Seq(P!Bytes)
    BY Zenon DEF FrameInv, IoTypes
  <1>2. PICK n \in 1 .. Len(buf[s]) :
          /\ todo' = P!write(s, SubSeq(buf[s], 1, n))
          /\ buf' = [buf EXCEPT ![s] = SubSeq(buf[s], n + 1, Len(buf[s]))]
    BY Zenon DEF P!process, P!Newlines
  <1>3. /\ SubSeq(buf[s], 1, n) \in Seq(P!Bytes) /\ SubSeq(buf[s], n + 1, Len(buf[s])) \in Seq(P!Bytes)
        /\ SubSeq(buf[s], 1, n) \o SubSeq(buf[s], n + 1, Len(buf[s])) = buf[s]
    BY <1>1, FirstLine, Zenon
  <1>4. holder = s /\ holder' = s /\ todo = <<>> /\ UNCHANGED <<given, out, sent, open>>
    BY Zenon DEF P!process
  <1>5. Framed(s, SubSeq(buf[s], 1, n), SubSeq(buf[s], n + 1, Len(buf[s])))
    BY <1>2, <1>3, <1>4, Zenon DEF Framed
  <1> QED BY <1>3, <1>5, Zenon

(***************************************************************************)
(* Flush makes all that is buffered a frame, or has nothing to do.         *)
(***************************************************************************)
LEMMA FlushFrames ==
    ASSUME FrameInv, NEW s \in Streams, P!Flush(s), UNCHANGED <<given, out, sent, open>>
    PROVE  \/ /\ UNCHANGED <<buf, todo, holder>>
              /\ buf[s] = <<>> /\ holder = NoOne
           \/ /\ Framed(s, buf[s], <<>>) /\ buf[s] \in Seq(P!Bytes) /\ <<>> \in Seq(P!Bytes)
              /\ buf[s] # <<>>
  <1>1. buf[s] \in Seq(P!Bytes) /\ holder = NoOne /\ todo = <<>>
    BY Zenon DEF FrameInv, IoTypes, FrameOK, P!Flush
  <1>2. buf[s] \o <<>> = buf[s] /\ <<>> \in Seq(P!Bytes)
    BY <1>1, JoinedEmpty, Zenon
  <1> QED BY <1>1, <1>2, Zenon DEF P!Flush, Framed

(***************************************************************************)
(* Steps of the request and a lost connection keep the invariant.          *)
(***************************************************************************)
LEMMA SameFrames ==
    ASSUME FrameInv, UNCHANGED <<given, buf, todo, holder, out, sent>>, open' => open
    PROVE  FrameInv'
  BY Zenon DEF FrameInv, IoTypes, FrameOK, OutOK, P!NothingLost, P!Pending

(***************************************************************************)
(* In the beginning there is nothing to write.                             *)
(***************************************************************************)
LEMMA InitFrames == P!Init => FrameInv
  <1> SUFFICES ASSUME P!Init PROVE FrameInv
    BY Zenon
  <1>1. <<>> \in Seq(P!Bytes) /\ <<>> \in Seq(P!Pieces)
    OBVIOUS
  <1>2. IoTypes /\ FrameOK
    BY <1>1 DEF P!Init, IoTypes, FrameOK
  <1>3. todo = <<>> /\ out = <<>>
    BY Zenon DEF P!Init
  <1>4. out \o todo = <<>> /\ Whole(<<>>) /\ Complete(<<>>)
    BY <1>3 DEF Whole, Complete
  <1>5. OutOK
    BY <1>3, <1>4, Zenon DEF OutOK
  <1>6. P!NothingLost
    <2>1. <<>> \o <<>> = <<>>
      BY <1>1, JoinedEmpty, Zenon
    <2>2. \A s \in Streams : P!Pending(s) = <<>>
      BY <1>3, NoPending, Zenon
    <2>3. \A s \in Streams : sent[s] = <<>> /\ buf[s] = <<>> /\ given[s] = <<>>
      BY Zenon DEF P!Init
    <2> QED BY <2>1, <2>2, <2>3, Zenon DEF P!NothingLost
  <1> QED BY <1>2, <1>5, <1>6, Zenon DEF FrameInv

(* A proxy that was flushed at the end has nothing buffered, and when the  *)
(* request has returned nobody writes.                                     *)
RestOK ==
    /\ DOMAIN pc = Streams
    /\ \A s \in Streams : pc[s] \in {"flushed", "returned"} => buf[s] = <<>>
    /\ (\A s \in Streams : pc[s] = "returned") => holder = NoOne

(***************************************************************************)
(* Every step keeps the invariant of the writers.                          *)
(***************************************************************************)
LEMMA StepKeepsFrames ==
    ASSUME FrameInv, [P!Next]_P!vars, NoOne \notin Streams, Chunks \subseteq Seq(P!Bytes)
    PROVE  FrameInv'
  <1>1. ASSUME NEW s \in Streams, P!Flush(s), UNCHANGED <<given, out, sent, open>> PROVE FrameInv'
    <2>1. CASE UNCHANGED <<buf, todo, holder>>
      BY <1>1, <2>1, SameFrames, Zenon
    <2> QED BY <1>1, <2>1, FlushFrames, FramedKeeps, Zenon
  <1>2. CASE UNCHANGED P!vars
    BY <1>2, SameFrames, Zenon DEF P!vars
  <1>3. CASE P!Disconnect \/ P!StreamEnds \/ P!Return
    BY <1>3, SameFrames DEF P!Disconnect, P!StreamEnds, P!Return
  <1>4. ASSUME NEW s \in Streams, P!process(s) PROVE FrameInv'
    BY <1>4, ProcessFrames, FramedKeeps, Zenon
  <1>5. ASSUME NEW s \in Streams, P!TimerFlush(s) \/ P!FinalFlush(s) PROVE FrameInv'
    BY <1>1, <1>5, Zenon DEF P!TimerFlush, P!FinalFlush
  <1> QED BY <1>2, <1>3, <1>4, <1>5, EmitKeeps, UnlockKeeps, WriteKeeps, Zenon DEF P!Next, P!Run

(***************************************************************************)
(* Every step keeps what holds of a request that has ended.                *)
(***************************************************************************)
LEMMA StepKeepsRest ==
    ASSUME FrameInv, RestOK, [P!Next]_P!vars, NoOne \notin Streams, Chunks \subseteq Seq(P!Bytes)
    PROVE  RestOK'
  <1>0. buf \in [Streams -> Seq(P!Bytes)]
    BY Zenon DEF FrameInv, IoTypes
  <1>1. CASE UNCHANGED <<buf, holder, pc>>
    BY <1>1, Zenon DEF RestOK
  <1>2. CASE P!Emit \/ P!Disconnect \/ UNCHANGED P!vars
    BY <1>1, <1>2, Zenon DEF P!Emit, P!Disconnect, P!vars
  <1>3. CASE P!StreamEnds \/ P!Return
    BY <1>3, Zenon DEF P!StreamEnds, P!Return, RestOK
  <1>4. ASSUME NEW s \in Streams, P!process(s) PROVE RestOK'
    <2>1. PICK p, b \in Seq(P!Bytes) : Framed(s, p, b)
      BY <1>4, ProcessFrames, Zenon
    <2>2. holder = s /\ pc' = pc
      BY <1>4, Zenon DEF P!process
    <2>3. buf[s] # <<>>
      BY <1>4 DEF P!process, P!Newlines
    <2> QED BY <1>0, <2>1, <2>2, <2>3, Zenon DEF Framed, RestOK
  <1>5. ASSUME NEW s \in Streams, P!Unlock(s) PROVE RestOK'
    BY <1>5, Zenon DEF P!Unlock, RestOK
  <1>6. ASSUME NEW s \in Streams, P!TimerFlush(s) PROVE RestOK'
    <2>1. P!Flush(s) /\ UNCHANGED <<given, out, sent, open, pc>>
      BY <1>6, Zenon DEF P!TimerFlush
    <2> QED BY <1>0, <1>1, <2>1, FlushFrames, Zenon DEF Framed, RestOK
  <1>7. ASSUME NEW s \in Streams, P!FinalFlush(s) PROVE RestOK'
    <2>1. P!Flush(s) /\ UNCHANGED <<given, out, sent, open>> /\ pc' = [pc EXCEPT ![s] = "flushed"]
      BY <1>7, Zenon DEF P!FinalFlush
    <2>2. buf'[s] = <<>> /\ \A t \in Streams : t # s => buf'[t] = buf[t]
      BY <1>0, <2>1, FlushFrames, Zenon DEF Framed
    <2> QED BY <2>1, <2>2, Zenon DEF RestOK
  <1>8. ASSUME NEW s \in Streams, NEW p \in Chunks, P!Write(s, p) PROVE RestOK'
    BY <1>0, <1>8, Zenon DEF P!Write, RestOK
  <1> QED BY <1>2, <1>3, <1>4, <1>5, <1>6, <1>7, <1>8, Zenon DEF P!Next, P!Run

(***************************************************************************)
(* Both hold in every state of every behaviour.                            *)
(***************************************************************************)
LEMMA IoInvariance ==
    ASSUME NoOne \notin Streams, Chunks \subseteq Seq(P!Bytes)
    PROVE  P!Spec => [](FrameInv /\ RestOK)
  <1>1. P!Init => RestOK
    BY Zenon DEF P!Init, RestOK
  <1>2. FrameInv /\ RestOK /\ [P!Next]_P!vars => FrameInv' /\ RestOK'
    BY StepKeepsFrames, StepKeepsRest, Zenon
  <1> QED BY InitFrames, <1>1, <1>2, PTL DEF P!Spec

(***************************************************************************)
(* The frames on the connection are whole, for any number of streams with  *)
(* their flushing goroutines, and whatever Write is given.                 *)
(***************************************************************************)
THEOREM WholeFrames ==
    ASSUME NoOne \notin Streams, Chunks \subseteq Seq(P!Bytes)
    PROVE  P!Spec => []P!FramesWhole
  <1>1. FrameInv => P!FramesWhole
    BY Zenon DEF FrameInv, OutOK, Whole, P!FramesWhole
  <1> QED BY IoInvariance, <1>1, PTL

(***************************************************************************)
(* While the client is there, what a stream was given is, in this order,   *)
(* on the connection, on its way and buffered.                             *)
(***************************************************************************)
THEOREM EverythingSent ==
    ASSUME NoOne \notin Streams, Chunks \subseteq Seq(P!Bytes)
    PROVE  P!Spec => []P!NothingLost
  <1>1. FrameInv => P!NothingLost
    BY Zenon DEF FrameInv
  <1> QED BY IoInvariance, <1>1, PTL

(***************************************************************************)
(* Nothing is written to the connection after the request has returned,    *)
(* although a flushing goroutine may still be asleep.                      *)
(***************************************************************************)
THEOREM NothingAfterReturn ==
    ASSUME NoOne \notin Streams, Chunks \subseteq Seq(P!Bytes)
    PROVE  P!Spec => P!QuietAfterReturn
  <1>1. FrameInv /\ RestOK /\ [P!Next]_P!vars => [(\A s \in Streams : pc[s] = "returned") => out' = out]_P!vars
    <2> SUFFICES ASSUME FrameInv, RestOK, P!Next, \A s \in Streams : pc[s] = "returned" PROVE out' = out
      BY Zenon DEF P!vars
    <2>1. todo = <<>>
      BY Zenon DEF FrameInv, FrameOK, RestOK
    <2> QED BY <2>1, Zenon DEF P!Next, P!Run, P!Write, P!process, P!Emit, P!Unlock, P!TimerFlush, P!FinalFlush,
                        P!StreamEnds, P!Return, P!Disconnect
  <1> QED BY IoInvariance, <1>1, PTL DEF P!Spec, P!QuietAfterReturn
============================================================================
