------------------------------ MODULE MCEvents -----------------------------
(* Two observers and two publishers; three events, more than a channel and *)
(* a blocked sender hold.                                                  *)
EXTENDS Events

CONSTANTS o1, o2, p1, p2

TwoObservers == {o1, o2}
TwoPublishers == {p1, p2}
ContainerAndImage == [p \in Publishers |-> IF p = p1 THEN [Type |-> "container", ID |-> "c"]
                                                     ELSE [Type |-> "image", ID |-> "i"]]

(* o1 asks for events of containers, o2 leaves out those of other ones.    *)
TypeAndContainer ==
    [o \in Observers |->
       IF o = o1 THEN [format |-> "map", body |-> {[typ |-> "type", K |-> "container", P |-> TRUE]}]
                 ELSE [format |-> "list", body |-> {[typ |-> "container", K |-> "c", P |-> FALSE]}]]

TwoAndOne == [p \in Publishers |-> IF p = p1 THEN 2 ELSE 1]
============================================================================
