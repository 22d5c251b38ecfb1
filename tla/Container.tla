----------------------------- MODULE Container -----------------------------
(***************************************************************************)
(* What the service promises about a container, whatever requests, the     *)
(* reaper and the cluster do: it is made once, owns objects of the         *)
(* namespace only while it is in use, and once it is gone it never comes   *)
(* back and what it left can only be swept.  A step concerns one           *)
(* container: no request touches what another container owns.              *)
(***************************************************************************)


CONSTANTS Containers, Objects

VARIABLES
    life,   \* Containers -> "new", "live" or "gone"
    owned   \* Containers -> its objects in the namespace

containerVars == <<life, owned>>

ContainerInit ==
    /\ life = [c \in Containers |-> "new"]
    /\ owned = [c \in Containers |-> {}]

Create(c) ==
    /\ life[c] = "new"
    /\ life' = [life EXCEPT ![c] = "live"]
    /\ UNCHANGED owned

(* Starting, stopping, failing: objects come and go.                       *)
Use(c) ==
    /\ life[c] = "live"
    /\ \E s \in SUBSET Objects : owned' = [owned EXCEPT ![c] = s]
    /\ UNCHANGED life

(* The record is deleted and the last request that held it returns; its    *)
(* last call may still create or delete an object.                         *)
Remove(c) ==
    /\ life[c] = "live"
    /\ life' = [life EXCEPT ![c] = "gone"]
    /\ \E s \in SUBSET Objects : owned' = [owned EXCEPT ![c] = s]

Sweep(c) ==
    /\ life[c] = "gone"
    /\ \E s \in SUBSET owned[c] : owned' = [owned EXCEPT ![c] = s]
    /\ UNCHANGED life

ContainerNext ==
    \E c \in Containers : Create(c) \/ Use(c) \/ Remove(c) \/ Sweep(c)

ContainerSpec == ContainerInit /\ [][ContainerNext]_containerVars
============================================================================
