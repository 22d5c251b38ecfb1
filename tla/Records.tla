------------------------------- MODULE Records -----------------------------
(***************************************************************************)
(* The container and network tables of the in-memory database              *)
(* (internal/model), and the requests that name, rename, connect and       *)
(* remove their records.  The tables hold pointers: a request changes the  *)
(* object in place and then saves it, so go-memdb compares the new object  *)
(* with itself and never drops the index entries of its former name.       *)
(* A step is one transaction or one assignment; nothing locks a request.   *)
(* (The Go runtime may also end the process when two goroutines use the    *)
(* Networks map of an object at once: then there are no further steps.)    *)
(***************************************************************************)
EXTENDS FiniteSets

CONSTANTS
    Containers,    \* ids of containers
    Names,         \* names of containers
    NoName,        \* the empty name
    Networks,      \* ids of networks
    NetNames,      \* names of networks
    Default,       \* the id of the network loadDefaults creates
    Bridge,        \* its name
    Predefined,    \* the names of predefined networks
    Nothing,       \* no record
    Handlers,      \* request goroutines
    Wanted,        \* the sets of networks new containers are asked to join
    Ops            \* the operations clients use

AllOps == {"create", "rename", "delete", "update", "netdelete", "prune", "connect", "disconnect"}

ASSUME RecordsAssumption ==
    /\ NoName \notin Names
    /\ Nothing \notin Containers \cup Networks
    /\ Containers \cap (Names \cup {NoName} \cup Networks) = {}
    /\ Networks \cap NetNames = {}
    /\ Default \in Networks
    /\ Bridge \in Predefined /\ Predefined \subseteq NetNames
    /\ Wanted \subseteq SUBSET (Networks \cup NetNames)
    /\ Ops \subseteq AllOps

VARIABLES
    ids,      \* containers in the table
    made,     \* containers created so far
    name,     \* Containers -> the Name field of the object
    byName,   \* the name index of the container table: pairs of name and id
    nets,     \* Containers -> the Networks field of the object
    netIds,   \* networks in the table
    netMade,  \* networks created so far
    netName,  \* Networks -> the Name field
    netBy,    \* NetNames -> the entry of the unique name index
    req,      \* Handlers -> the request being served
    spoiled   \* history: renamed containers, and containers and networks
              \* held by two requests at once

containerVars == <<ids, made, name, byName, nets>>
networkVars == <<netIds, netMade, netName, netBy>>
vars == <<containerVars, networkVars, req, spoiled>>

Idle == [op |-> "none", pc |-> "idle", con |-> Nothing, net |-> Nothing,
         name |-> NoName, todo |-> {}, nets |-> {}]

Labels == {"idle", "resolve", "container", "check", "assign", "save", "remove", "prune"}

TypeOK ==
    /\ ids \subseteq made /\ made \subseteq Containers
    /\ name \in [Containers -> Names \cup {NoName}]
    /\ byName \subseteq (Names \X made)
    /\ nets \in [Containers -> SUBSET netMade]
    /\ netIds \subseteq netMade /\ netMade \subseteq Networks
    /\ netName \in [Networks -> NetNames]
    /\ netBy \in [NetNames -> netIds \cup {Nothing}]
    /\ req \in [Handlers -> [op : AllOps \cup {"none"}, pc : Labels, con : made \cup {Nothing},
                             net : netMade \cup {Nothing}, name : Names \cup {NoName},
                             todo : SUBSET (Networks \cup NetNames), nets : SUBSET netMade]]
    /\ spoiled \subseteq made \cup netMade

Init ==
    /\ ids = {} /\ made = {}
    /\ name = [c \in Containers |-> NoName]
    /\ byName = {}
    /\ nets = [c \in Containers |-> {}]
    /\ netIds = {Default} /\ netMade = {Default}
    /\ netName = [n \in Networks |-> Bridge]
    /\ netBy = [k \in NetNames |-> IF k = Bridge THEN Default ELSE Nothing]
    /\ req = [h \in Handlers |-> Idle]
    /\ spoiled = {}

---------------------------------------------------------------------------
(* go-memdb.                                                               *)

(* Insert adds an entry under the present name; an empty name has none.    *)
Insert(c) ==
    /\ ids' = ids \cup {c}
    /\ byName' = byName \cup ({name[c]} \ {NoName}) \X {c}

(* Delete fails for an absent record; it drops the entry of the present    *)
(* name only.                                                              *)
Delete(c) ==
    /\ ids' = ids \ {c}
    /\ byName' = IF c \in ids THEN byName \ {<<name[c], c>>} ELSE byName

(* A unique index has one entry for a name, whichever record it is of.     *)
InsertNetwork(n, k) ==
    /\ netIds' = netIds \cup {n}
    /\ netBy' = [netBy EXCEPT ![k] = n]

DeleteNetwork(n) ==
    /\ netIds' = netIds \ {n}
    /\ netBy' = IF n \in netIds THEN [netBy EXCEPT ![netName[n]] = Nothing] ELSE netBy

(* GetContainer, GetContainerByNameOrID: by id or short id, else by name.  *)
(* Of several containers with the name the one with the least id comes,    *)
(* and ids are random.                                                     *)
GetContainer(key) ==
    IF key \in ids THEN {key} ELSE {e[2] : e \in {f \in byName : f[1] = key}}

GetNetworkByNameOrID(key) ==
    IF key \in netIds THEN key
    ELSE IF key \in NetNames THEN netBy[key] ELSE Nothing

ContainerKeys == Containers \cup Names
NetworkKeys == Networks \cup NetNames

IsPredefined(n) == netName[n] \in Predefined

getContainersInNetwork(n) == {c \in ids : n \in nets[c]}

---------------------------------------------------------------------------

At(h, o, l) == req[h].op = o /\ req[h].pc = l

Holds(g) == {req[g].con, req[g].net} \cup req[g].todo \cup req[g].nets

(* A request comes to hold xs, possibly together with another one.         *)
Take(h, xs) ==
    spoiled' = spoiled \cup {x \in xs : \E g \in Handlers \ {h} : x \in Holds(g)}

Goto(h, l) == req' = [req EXCEPT ![h].pc = l]

Return(h) == req' = [req EXCEPT ![h] = Idle]

Accept(h, o) == o \in Ops /\ req[h].pc = "idle"

---------------------------------------------------------------------------
(* Containers.                                                             *)

(* ContainerCreate: the networks asked for, one lookup at a time.          *)
ContainerCreate(h, n, wanted) ==
    /\ Accept(h, "create")
    /\ made # Containers
    /\ req' = [req EXCEPT ![h] = [Idle EXCEPT !.op = "create", !.pc = "resolve",
                                              !.name = n, !.todo = wanted]]
    /\ UNCHANGED <<containerVars, networkVars, spoiled>>

ResolveNetwork(h) ==
    /\ At(h, "create", "resolve")
    /\ \E key \in (IF req[h].todo \cup req[h].nets = {} THEN {Bridge} ELSE req[h].todo) :
         LET n == GetNetworkByNameOrID(key)
         IN  IF n = Nothing
             THEN Return(h) /\ UNCHANGED spoiled
             ELSE /\ req' = [req EXCEPT ![h].todo = @ \ {key}, ![h].nets = @ \cup {n}]
                  /\ Take(h, {n})
    /\ UNCHANGED <<containerVars, networkVars>>

(* SaveContainer with a new id.                                            *)
SaveNew(h) ==
    /\ At(h, "create", "resolve")
    /\ req[h].todo = {} /\ req[h].nets # {}
    /\ \E c \in Containers \ made :
         /\ made' = made \cup {c}
         /\ name' = [name EXCEPT ![c] = req[h].name]
         /\ nets' = [nets EXCEPT ![c] = req[h].nets]
         /\ ids' = ids \cup {c}
         /\ byName' = byName \cup ({req[h].name} \ {NoName}) \X {c}
    /\ Return(h)
    /\ UNCHANGED <<networkVars, spoiled>>

(* Lookup of the container a request is about.                             *)
Fetch(h, key, r) ==
    \E c \in GetContainer(key) :
        /\ req' = [req EXCEPT ![h] = [r EXCEPT !.con = c]]
        /\ Take(h, {c})
        /\ UNCHANGED <<containerVars, networkVars>>

(* Start, stop and the others: the record is fetched, and saved later.     *)
Update(h, key) ==
    /\ Accept(h, "update")
    /\ Fetch(h, key, [Idle EXCEPT !.op = "update", !.pc = "save"])

ContainerDelete(h, key) ==
    /\ Accept(h, "delete")
    /\ Fetch(h, key, [Idle EXCEPT !.op = "delete", !.pc = "remove"])

ContainerRename(h, key, n) ==
    /\ Accept(h, "rename")
    /\ Fetch(h, key, [Idle EXCEPT !.op = "rename", !.pc = "check", !.name = n])

(* A name that is found in the index is refused.                           *)
CheckName(h) ==
    /\ At(h, "rename", "check")
    /\ IF GetContainer(req[h].name) = {} THEN Goto(h, "assign") ELSE Return(h)
    /\ UNCHANGED <<containerVars, networkVars, spoiled>>

AssignName(h) ==
    /\ At(h, "rename", "assign")
    /\ name' = [name EXCEPT ![req[h].con] = req[h].name]
    /\ spoiled' = spoiled \cup {req[h].con}
    /\ Goto(h, "save")
    /\ UNCHANGED <<ids, made, byName, nets, networkVars>>

(* Variant: a record that is in the table already is not indexed again.    *)
SaveContainerOnce(h) ==
    /\ req[h].pc = "save"
    /\ IF req[h].con \in ids THEN UNCHANGED <<ids, byName>> ELSE Insert(req[h].con)
    /\ Return(h)
    /\ UNCHANGED <<made, name, nets, networkVars, spoiled>>

(* SaveContainer, also of a record that was deleted meanwhile.             *)
SaveContainer(h) ==
    /\ req[h].pc = "save"
    /\ Insert(req[h].con)
    /\ Return(h)
    /\ UNCHANGED <<made, name, nets, networkVars, spoiled>>

DropRecord(h) ==
    /\ At(h, "delete", "remove")
    /\ Delete(req[h].con)
    /\ Return(h)
    /\ UNCHANGED <<made, name, nets, networkVars, spoiled>>

---------------------------------------------------------------------------
(* Networks.                                                               *)

NetworksCreate(k) ==
    /\ \E n \in Networks \ netMade :
         /\ netMade' = netMade \cup {n}
         /\ netName' = [netName EXCEPT ![n] = k]
         /\ InsertNetwork(n, k)
    /\ UNCHANGED <<containerVars, req, spoiled>>

FetchNetwork(h, o, key, l) ==
    LET n == GetNetworkByNameOrID(key)
    IN  /\ Accept(h, o)
        /\ n # Nothing
        /\ req' = [req EXCEPT ![h] = [Idle EXCEPT !.op = o, !.pc = l, !.net = n]]
        /\ Take(h, {n})
        /\ UNCHANGED <<containerVars, networkVars>>

NetworksDelete(h, key) == FetchNetwork(h, "netdelete", key, "check")
NetworksConnect(h, key) == FetchNetwork(h, "connect", key, "container")
NetworksDisconnect(h, key) == FetchNetwork(h, "disconnect", key, "container")

(* Variants: one of the two conditions is forgotten.                       *)
RemovableUnused(n) == getContainersInNetwork(n) = {}
RemovableUser(n) == ~IsPredefined(n)

(* A predefined network, and one with containers in it, is kept.           *)
Removable(n) == ~IsPredefined(n) /\ getContainersInNetwork(n) = {}

CheckUnused(h) ==
    /\ At(h, "netdelete", "check")
    /\ IF Removable(req[h].net) THEN Goto(h, "remove") ELSE Return(h)
    /\ UNCHANGED <<containerVars, networkVars, spoiled>>

RemoveNetwork(h) ==
    /\ At(h, "netdelete", "remove")
    /\ DeleteNetwork(req[h].net)
    /\ Return(h)
    /\ UNCHANGED <<containerVars, netMade, netName, spoiled>>

(* NetworksPrune works on the list it fetched.                             *)
NetworksPrune(h) ==
    /\ Accept(h, "prune")
    /\ req' = [req EXCEPT ![h] = [Idle EXCEPT !.op = "prune", !.pc = "prune", !.todo = netIds]]
    /\ Take(h, netIds)
    /\ UNCHANGED <<containerVars, networkVars>>

PruneNext(h) ==
    /\ At(h, "prune", "prune")
    /\ \/ /\ req[h].todo = {}
          /\ Return(h)
       \/ \E n \in req[h].todo :
            req' = IF Removable(n) THEN [req EXCEPT ![h].pc = "remove", ![h].net = n]
                                   ELSE [req EXCEPT ![h].todo = @ \ {n}]
    /\ UNCHANGED <<containerVars, networkVars, spoiled>>

(* A network that is gone already ends the request.                        *)
PruneRemove(h) ==
    LET n == req[h].net
    IN  /\ At(h, "prune", "remove")
        /\ DeleteNetwork(n)
        /\ req' = [req EXCEPT ![h] = IF n \in netIds
                                     THEN [req[h] EXCEPT !.pc = "prune", !.net = Nothing,
                                                         !.todo = @ \ {n}]
                                     ELSE Idle]
        /\ UNCHANGED <<containerVars, netMade, netName, spoiled>>

(* Connect and disconnect look up the container after the network.         *)
FetchContainer(h, key) ==
    /\ req[h].pc = "container"
    /\ IF \/ GetContainer(key) = {}
          \/ req[h].op = "disconnect" /\ IsPredefined(req[h].net)
       THEN Return(h) /\ UNCHANGED <<containerVars, networkVars, spoiled>>
       ELSE Fetch(h, key, [req[h] EXCEPT !.pc = "assign"])

ConnectNetwork(h) ==
    /\ At(h, "connect", "assign")
    /\ nets' = [nets EXCEPT ![req[h].con] = @ \cup {req[h].net}]
    /\ Goto(h, "save")
    /\ UNCHANGED <<ids, made, name, byName, networkVars, spoiled>>

DisconnectNetwork(h) ==
    /\ At(h, "disconnect", "assign")
    /\ nets' = [nets EXCEPT ![req[h].con] = @ \ {req[h].net}]
    /\ IF req[h].net \in nets[req[h].con] THEN Goto(h, "save") ELSE Return(h)
    /\ UNCHANGED <<ids, made, name, byName, networkVars, spoiled>>

---------------------------------------------------------------------------

Request(h) ==
    \/ \E n \in Names \cup {NoName}, wanted \in Wanted : ContainerCreate(h, n, wanted)
    \/ \E key \in ContainerKeys : Update(h, key) \/ ContainerDelete(h, key)
    \/ \E key \in ContainerKeys, n \in Names \cup {NoName} : ContainerRename(h, key, n)
    \/ \E key \in NetworkKeys : \/ NetworksDelete(h, key) \/ NetworksConnect(h, key)
                                \/ NetworksDisconnect(h, key)
    \/ NetworksPrune(h)

Proceed(h) ==
    \/ ResolveNetwork(h) \/ SaveNew(h) \/ CheckName(h) \/ AssignName(h) \/ SaveContainer(h)
    \/ DropRecord(h) \/ CheckUnused(h) \/ RemoveNetwork(h) \/ PruneNext(h) \/ PruneRemove(h)
    \/ (\E key \in ContainerKeys : FetchContainer(h, key))
    \/ ConnectNetwork(h) \/ DisconnectNetwork(h)

Next ==
    \/ \E k \in NetNames : NetworksCreate(k)
    \/ \E h \in Handlers : Request(h) \/ Proceed(h)

Spec == Init /\ [][Next]_vars

---------------------------------------------------------------------------
(* A request that changes container c is being served.                     *)
Held(c) == \E h \in Handlers : req[h].con = c

(***************************************************************************)
(* The default network is always found by its name, which ContainerCreate  *)
(* relies on for a container without a network: although networks with the *)
(* same name may be created, and the unique index forgets the name when    *)
(* any of them is deleted, IsPredefined keeps all of them.                 *)
(***************************************************************************)
BridgeResolves ==
    LET n == GetNetworkByNameOrID(Bridge)
    IN  n \in netIds /\ netName[n] = Bridge

(***************************************************************************)
(* A container is found by its present name once the request that gave it  *)
(* the name is done, whatever renames, saves and deletions raced with it.  *)
(***************************************************************************)
NameResolves ==
    \A c \in ids : ~Held(c) /\ name[c] # NoName => c \in GetContainer(name[c])

(***************************************************************************)
(* The networks of a container exist: NetworksDelete and NetworksPrune     *)
(* keep a network with containers in it.  Their check and the removal are  *)
(* two steps, so requests for the same network or container may break it,  *)
(* and so may a rename, which leaves an entry that finds the record after  *)
(* its deletion.                                                           *)
(***************************************************************************)
NetworksExist == \A c \in ids \ spoiled : nets[c] \subseteq netIds \cup spoiled
============================================================================
