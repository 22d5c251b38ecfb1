--------------------------- MODULE RecordsProofs ---------------------------
(***************************************************************************)
(* Proofs about the container and network tables, for any number of        *)
(* containers, networks, names and request goroutines: the default network *)
(* and the containers are found by their names, and the networks of a      *)
(* container that no two requests held at once exist.                      *)
(***************************************************************************)
EXTENDS Records, TLAPS

(* The requests TypeOK allows.                                             *)
Requests == [op : AllOps \cup {"none"}, pc : Labels, con : made \cup {Nothing},
             net : netMade \cup {Nothing}, name : Names \cup {NoName},
             todo : SUBSET (Networks \cup NetNames), nets : SUBSET netMade]

Removes(r) == r.op \in {"netdelete", "prune"} /\ r.pc = "remove"

(* What a request has looked up at each of its steps.                      *)
ShapeOK(r) ==
    /\ r.pc \in {"save", "assign"} \/ r.op \in {"update", "delete", "rename"} => r.con \in made
    /\ r.pc = "container" => r.op \in {"connect", "disconnect"}
    /\ r.op \in {"netdelete", "connect", "disconnect"} => r.net \in netMade
    /\ r.op = "prune" => r.todo \subseteq netMade /\ r.nets = {}
    /\ r.op = "prune" /\ r.pc = "remove" => r.net \in r.todo
    /\ Removes(r) => ~IsPredefined(r.net)

(* The entries of the name index of networks are of networks so named.     *)
NetIndexOK == \A k \in NetNames : netBy[k] # Nothing => netName[netBy[k]] = k

BridgeOK == netBy[Bridge] \in netIds

(* The present name of a container is in the index, unless a rename has    *)
(* assigned it and not saved it yet.                                       *)
NamedOK ==
    \A c \in ids : name[c] # NoName =>
        \/ <<name[c], c>> \in byName
        \/ \E h \in Handlers : req[h].pc = "save" /\ req[h].con = c

(* The records a request works on.                                         *)
Owned(r) == {r.con, r.net} \cup r.nets \cup (IF r.op = "prune" THEN r.todo ELSE {})

(* A record two requests work on is spoiled.                               *)
Exclusive ==
    \A g, h \in Handlers : g # h => Owned(req[g]) \cap Owned(req[h]) \subseteq spoiled \cup {Nothing}

(* The index entries of an unspoiled container are those of a record in    *)
(* the table under its present name.                                       *)
EntriesOK == \A k \in Names : \A c \in made \ spoiled :
    <<k, c>> \in byName => c \in ids /\ name[c] = k

(* The records a request works on exist.                                   *)
HoldOK(r) ==
    /\ r.con \in ids \cup spoiled \cup {Nothing}
    /\ r.net \in netIds \cup spoiled \cup {Nothing}
    /\ r.nets \subseteq netIds \cup spoiled
    /\ r.op = "prune" => r.todo \subseteq netIds \cup spoiled

(* A network about to be removed is still unused.                          *)
UnusedOK(r) ==
    Removes(r) => r.net \in spoiled \/ \A c \in ids \ spoiled : r.net \notin nets[c]

RequestOK(r) == ShapeOK(r) /\ HoldOK(r) /\ UnusedOK(r)

TablesOK == NetIndexOK /\ BridgeOK /\ NamedOK /\ EntriesOK /\ NetworksExist

Inv == TypeOK /\ (\A h \in Handlers : RequestOK(req[h])) /\ Exclusive /\ TablesOK

---------------------------------------------------------------------------
(* The request goroutine h goes on with r, having come to hold xs.         *)
Serves(h, r, xs) ==
    /\ req' = [req EXCEPT ![h] = r]
    /\ Take(h, xs)
    /\ r \in Requests
    /\ xs \subseteq made \cup netMade
    /\ Owned(r) \subseteq Owned(req[h]) \cup xs \cup {Nothing}
    /\ RequestOK(r)
    /\ UNCHANGED <<containerVars, networkVars>>

(* The initial tables, with the default network, satisfy the invariant.    *)
LEMMA InitInv == Init => Inv
<1> SUFFICES ASSUME Init PROVE Inv
  OBVIOUS
<1> USE RecordsAssumption DEF Init
<1>1. TypeOK
  BY DEF TypeOK, Idle, Labels, AllOps
<1>2. \A h \in Handlers : RequestOK(req[h])
  BY DEF RequestOK, ShapeOK, HoldOK, UnusedOK, Removes, Idle
<1>3. Exclusive
  BY DEF Exclusive, Owned, Idle
<1>4. TablesOK
  BY DEF TablesOK, NetIndexOK, BridgeOK, NamedOK, EntriesOK, NetworksExist
<1>5. QED
  BY <1>1, <1>2, <1>3, <1>4 DEF Inv

(* Looking records up changes no table, and a record that another request  *)
(* holds is spoiled from then on.                                          *)
LEMMA ServesInv == ASSUME Inv, NEW h \in Handlers, NEW r, NEW xs, Serves(h, r, xs),
                          req[h].pc # "save"
                   PROVE  Inv'
<1> USE RecordsAssumption
<1>1. /\ spoiled \subseteq spoiled'
      /\ spoiled' \subseteq made \cup netMade
      /\ \A x \in xs : \A g \in Handlers : g # h /\ x \in Holds(g) => x \in spoiled'
  BY DEF Serves, Take, Inv, TypeOK
<1>2. TypeOK'
  BY <1>1 DEF Inv, TypeOK, Serves, Requests, containerVars, networkVars
<1>3. \A g \in Handlers : g # h => req'[g] = req[g]
  BY DEF Serves, Inv, TypeOK
<1>4. req'[h] = r
  BY DEF Serves, Inv, TypeOK
<1>5. \A g \in Handlers : RequestOK(req'[g])
  BY <1>3, <1>4 DEF Inv, Serves
<1>6. \A g \in Handlers : RequestOK(req[g])'
  BY <1>1, <1>5 DEF RequestOK, ShapeOK, HoldOK, UnusedOK, Removes, IsPredefined, Serves,
                    containerVars, networkVars
<1>7. \A g \in Handlers : Owned(req[g]) \subseteq Holds(g)
  BY DEF Owned, Holds
<1>8. Exclusive'
  <2> SUFFICES ASSUME NEW g \in Handlers, g # h,
                      NEW x, x \in Owned(req[g]), x \in Owned(r), x # Nothing
               PROVE  x \in spoiled'
    <3>1. SUFFICES ASSUME NEW g1 \in Handlers, NEW g2 \in Handlers, g1 # g2,
                          NEW x, x \in Owned(req[g1])', x \in Owned(req[g2])', x # Nothing
                   PROVE  x \in spoiled'
      BY DEF Exclusive
    <3>2. \A g \in Handlers \ {h} : Owned(req[g])' = Owned(req[g])
      BY <1>3 DEF Owned
    <3>3. Owned(req[h])' = Owned(r)
      BY <1>4 DEF Owned
    <3>4. CASE g1 # h /\ g2 # h
      BY <3>1, <3>2, <3>4, <1>1 DEF Inv, Exclusive
    <3>5. QED
      BY <3>1, <3>2, <3>3, <3>4
  <2>1. CASE x \in xs
    BY <2>1, <1>1, <1>7
  <2>2. CASE x \in Owned(req[h])
    BY <2>2, <1>1 DEF Inv, Exclusive
  <2>3. QED
    BY <2>1, <2>2 DEF Serves
<1>9. TablesOK'
  BY <1>1, <1>3 DEF Inv, TablesOK, NetIndexOK, BridgeOK, NamedOK, EntriesOK, NetworksExist, Serves,
              containerVars, networkVars
<1>10. QED
  BY <1>2, <1>6, <1>8, <1>9 DEF Inv

(* Nothing is taken by a step that looks nothing up.                       *)
LEMMA TakesNothing == ASSUME NEW h \in Handlers, UNCHANGED spoiled PROVE Take(h, {})
BY DEF Take

(* The containers a lookup finds are in the table, or spoiled.             *)
LEMMA ContainerFound == ASSUME Inv, NEW key, NEW c \in GetContainer(key)
                        PROVE  c \in made /\ c \in ids \cup spoiled
<1>1. CASE key \in ids
  BY <1>1 DEF GetContainer, Inv, TypeOK
<1>2. CASE key \notin ids
  <2>1. PICK e \in byName : e[1] = key /\ e[2] = c
    BY <1>2 DEF GetContainer
  <2>2. PICK k \in Names, d \in made : e = <<k, d>>
    BY <2>1 DEF Inv, TypeOK
  <2>3. d = c
    BY <2>1, <2>2
  <2>4. QED
    BY <2>1, <2>2, <2>3 DEF Inv, TablesOK, EntriesOK
<1>3. QED
  BY <1>1, <1>2

(* The network a lookup finds is in the table.                             *)
LEMMA NetworkFound == ASSUME Inv, NEW key, GetNetworkByNameOrID(key) # Nothing
                      PROVE  GetNetworkByNameOrID(key) \in netIds
BY DEF GetNetworkByNameOrID, Inv, TypeOK

(* An idle request holds nothing.                                          *)
LEMMA IdleOK == /\ Idle \in Requests /\ RequestOK(Idle)
                /\ Owned(Idle) = {Nothing}
BY RecordsAssumption, Zenon DEF Idle, Requests, RequestOK, ShapeOK, HoldOK, UnusedOK, Removes, Owned, Labels, AllOps

(* Ending a request that saves nothing preserves the invariant.            *)
LEMMA ReturnInv == ASSUME Inv, NEW h \in Handlers, Return(h), req[h].pc # "save",
                          UNCHANGED <<containerVars, networkVars, spoiled>>
                   PROVE  Inv'
<1>1. Take(h, {})
  BY TakesNothing
<1>2. Serves(h, Idle, {})
  BY <1>1, IdleOK DEF Serves, Return
<1>3. QED
  BY <1>2, ServesInv

(* Looking up the container of a request.                                  *)
LEMMA FetchInv == ASSUME Inv, NEW h \in Handlers, NEW key, NEW r \in Requests,
                         Fetch(h, key, r), req[h].pc # "save",
                         r.con = Nothing, Owned(r) \subseteq Owned(req[h]) \cup {Nothing},
                         \A c \in made : ShapeOK([r EXCEPT !.con = c]), HoldOK(r), ~Removes(r)
                  PROVE  Inv'
<1>1. PICK c \in GetContainer(key) : /\ req' = [req EXCEPT ![h] = [r EXCEPT !.con = c]]
                                     /\ Take(h, {c})
                                     /\ UNCHANGED <<containerVars, networkVars>>
  BY Zenon DEF Fetch
<1> DEFINE q == [r EXCEPT !.con = c]
<1>2. c \in made /\ c \in ids \cup spoiled
  BY ContainerFound
<1>3. q \in Requests
  BY <1>2 DEF Requests
<1>4. RequestOK(q)
  BY <1>2 DEF RequestOK, HoldOK, UnusedOK, Removes, Requests
<1>5. Owned(q) \subseteq Owned(req[h]) \cup {c} \cup {Nothing}
  BY DEF Owned, Requests
<1>6. Serves(h, q, {c})
  BY <1>1, <1>2, <1>3, <1>4, <1>5 DEF Serves
<1>7. QED
  BY <1>6, ServesInv

(* The types of what a request holds.                                      *)
LEMMA RequestTyped == ASSUME Inv, NEW h \in Handlers PROVE req[h] \in Requests /\ RequestOK(req[h])
BY DEF Inv, TypeOK, Requests

(* A new request that is about a container.                                *)
LEMMA ContainerRequests ==
    ASSUME Inv, NEW h \in Handlers, NEW key, NEW n \in Names \cup {NoName},
           Update(h, key) \/ ContainerDelete(h, key) \/ ContainerRename(h, key, n)
    PROVE  Inv'
<1>1. req[h].pc # "save"
  BY DEF Update, ContainerDelete, ContainerRename, Accept
<1> DEFINE u == [Idle EXCEPT !.op = "update", !.pc = "save"]
           d == [Idle EXCEPT !.op = "delete", !.pc = "remove"]
           m == [Idle EXCEPT !.op = "rename", !.pc = "check", !.name = n]
           Fresh(r) == /\ r \in Requests /\ r.con = Nothing /\ HoldOK(r) /\ ~Removes(r)
                       /\ Owned(r) \subseteq Owned(req[h]) \cup {Nothing}
                       /\ \A c \in made : ShapeOK([r EXCEPT !.con = c])
<1>2. Fresh(u)
  BY RecordsAssumption, Zenon DEF Idle, Requests, HoldOK, Removes, Owned, ShapeOK, Labels, AllOps
<1>3. Fresh(d)
  BY RecordsAssumption, Zenon DEF Idle, Requests, HoldOK, Removes, Owned, ShapeOK, Labels, AllOps
<1>4. Fresh(m)
  BY RecordsAssumption, Zenon DEF Idle, Requests, HoldOK, Removes, Owned, ShapeOK, Labels, AllOps
<1>5. Fetch(h, key, u) \/ Fetch(h, key, d) \/ Fetch(h, key, m)
  BY DEF Update, ContainerDelete, ContainerRename
<1>6. \A r : Fresh(r) /\ Fetch(h, key, r) => Inv'
  BY <1>1, FetchInv
<1> HIDE DEF u, d, m, Fresh
<1>7. QED
  BY <1>2, <1>3, <1>4, <1>5, <1>6

(* A new request to create a container.                                    *)
LEMMA CreateInv ==
    ASSUME Inv, NEW h \in Handlers, NEW n \in Names \cup {NoName}, NEW wanted \in Wanted,
           ContainerCreate(h, n, wanted)
    PROVE  Inv'
<1> DEFINE r == [Idle EXCEPT !.op = "create", !.pc = "resolve", !.name = n, !.todo = wanted]
<1>1. Take(h, {})
  BY TakesNothing DEF ContainerCreate
<1>2. r \in Requests /\ RequestOK(r) /\ Owned(r) = {Nothing}
  BY RecordsAssumption, Zenon
     DEF Idle, Requests, RequestOK, ShapeOK, HoldOK, UnusedOK, Removes, Owned, Labels, AllOps
<1>3. Serves(h, r, {})
  BY <1>1, <1>2 DEF Serves, ContainerCreate
<1>4. QED
  BY <1>3, ServesInv DEF ContainerCreate, Accept

(* Looking up the networks of a new container, one after the other.        *)
LEMMA ResolveInv == ASSUME Inv, NEW h \in Handlers, ResolveNetwork(h) PROVE Inv'
<1>1. req[h].pc # "save" /\ req[h].op = "create"
  BY DEF ResolveNetwork, At
<1>2. PICK key : LET n == GetNetworkByNameOrID(key)
                 IN  IF n = Nothing
                     THEN Return(h) /\ UNCHANGED spoiled
                     ELSE /\ req' = [req EXCEPT ![h].todo = @ \ {key}, ![h].nets = @ \cup {n}]
                          /\ Take(h, {n})
  BY Zenon DEF ResolveNetwork
<1> DEFINE n == GetNetworkByNameOrID(key)
<1>3. CASE n = Nothing
  BY <1>1, <1>2, <1>3, ReturnInv DEF ResolveNetwork
<1>4. CASE n # Nothing
  <2> DEFINE r == [req[h] EXCEPT !.todo = @ \ {key}, !.nets = @ \cup {n}]
  <2>1. n \in netIds /\ n \in netMade
    BY <1>4, NetworkFound DEF Inv, TypeOK
  <2>2. req' = [req EXCEPT ![h] = r]
    BY <1>2, <1>4, Zenon DEF Inv, TypeOK
  <2> HIDE DEF n
  <2>3. r \in Requests
    BY <2>1, RequestTyped, Zenon DEF Requests
  <2>4. RequestOK(r)
    BY <1>1, <2>1, RequestTyped DEF Requests, RequestOK, ShapeOK, HoldOK, UnusedOK, Removes
  <2>5. Owned(r) \subseteq Owned(req[h]) \cup {n} \cup {Nothing}
    BY <1>1, RequestTyped DEF Owned, Requests
  <2>6. Take(h, {n})
    BY <1>2, <1>4 DEF n
  <2>7. Serves(h, r, {n})
    BY <2>1, <2>2, <2>3, <2>4, <2>5, <2>6 DEF Serves, ResolveNetwork
  <2>8. QED
    BY <1>1, <2>7, ServesInv
<1>5. QED
  BY <1>3, <1>4

(* Going to another step with the records held so far.                     *)
LEMMA GotoInv == ASSUME Inv, NEW h \in Handlers, NEW l \in Labels, Goto(h, l), req[h].pc # "save",
                        RequestOK([req[h] EXCEPT !.pc = l]),
                        UNCHANGED <<containerVars, networkVars, spoiled>>
                 PROVE  Inv'
<1> DEFINE r == [req[h] EXCEPT !.pc = l]
<1>1. req' = [req EXCEPT ![h] = r]
  BY DEF Goto, Inv, TypeOK
<1>2. r \in Requests /\ Owned(r) = Owned(req[h])
  BY RequestTyped DEF Requests, Owned
<1>3. Serves(h, r, {})
  BY <1>1, <1>2, TakesNothing DEF Serves
<1>4. QED
  BY <1>3, ServesInv

(* The check of a new name.                                                *)
LEMMA CheckNameInv == ASSUME Inv, NEW h \in Handlers, CheckName(h) PROVE Inv'
<1>1. req[h].op = "rename" /\ req[h].pc = "check"
  BY DEF CheckName, At
<1>2. CASE Return(h)
  BY <1>1, <1>2, ReturnInv DEF CheckName
<1>3. CASE Goto(h, "assign")
  <2>1. RequestOK([req[h] EXCEPT !.pc = "assign"])
    BY <1>1, RequestTyped DEF Requests, RequestOK, ShapeOK, HoldOK, UnusedOK, Removes
  <2>2. QED
    BY <1>1, <1>3, <2>1, GotoInv, Zenon DEF CheckName, Labels
<1>4. QED
  BY <1>2, <1>3 DEF CheckName

(* A new request that is about a network.                                  *)
LEMMA NetworkRequests ==
    ASSUME Inv, NEW h \in Handlers, NEW key,
           NetworksDelete(h, key) \/ NetworksConnect(h, key) \/ NetworksDisconnect(h, key)
    PROVE  Inv'
<1> DEFINE n == GetNetworkByNameOrID(key)
<1>1. PICK o, l : /\ FetchNetwork(h, o, key, l)
                  /\ \/ o = "netdelete" /\ l = "check"
                     \/ o \in {"connect", "disconnect"} /\ l = "container"
  BY DEF NetworksDelete, NetworksConnect, NetworksDisconnect
<1> DEFINE r == [Idle EXCEPT !.op = o, !.pc = l, !.net = n]
<1>2. n \in netIds /\ n \in netMade
  BY <1>1, NetworkFound DEF FetchNetwork, Inv, TypeOK
<1>3. req' = [req EXCEPT ![h] = r] /\ Take(h, {n}) /\ UNCHANGED <<containerVars, networkVars>>
  BY <1>1 DEF FetchNetwork
<1> HIDE DEF n
<1>4. r \in Requests
  BY <1>1, <1>2, Zenon DEF Idle, Requests, Labels, AllOps
<1>5. RequestOK(r)
  BY <1>1, <1>2 DEF Idle, RequestOK, ShapeOK, HoldOK, UnusedOK, Removes
<1>6. Owned(r) \subseteq Owned(req[h]) \cup {n} \cup {Nothing}
  BY <1>1 DEF Idle, Owned
<1>7. Serves(h, r, {n})
  BY <1>2, <1>3, <1>4, <1>5, <1>6 DEF Serves
<1>8. QED
  BY <1>1, <1>7, ServesInv DEF FetchNetwork, Accept

(* A network that passes the check has no containers.                      *)
LEMMA CheckUnusedInv == ASSUME Inv, NEW h \in Handlers, CheckUnused(h) PROVE Inv'
<1>1. req[h].op = "netdelete" /\ req[h].pc = "check"
  BY DEF CheckUnused, At
<1>2. CASE ~Removable(req[h].net)
  BY <1>1, <1>2, ReturnInv DEF CheckUnused
<1>3. CASE Removable(req[h].net)
  <2>1. RequestOK([req[h] EXCEPT !.pc = "remove"])
    BY <1>1, <1>3, RequestTyped DEF Requests, RequestOK, ShapeOK, HoldOK, UnusedOK, Removes,
                                    Removable, IsPredefined, getContainersInNetwork
  <2>2. QED
    BY <1>1, <1>3, <2>1, GotoInv, Zenon DEF CheckUnused, Labels
<1>4. QED
  BY <1>2, <1>3

(* The list of networks a prune fetches.                                   *)
LEMMA PruneRequests == ASSUME Inv, NEW h \in Handlers, NetworksPrune(h) PROVE Inv'
<1> DEFINE r == [Idle EXCEPT !.op = "prune", !.pc = "prune", !.todo = netIds]
<1>1. netIds \subseteq netMade /\ netIds \subseteq Networks
  BY DEF Inv, TypeOK
<1>2. r \in Requests /\ Owned(r) \subseteq netIds \cup {Nothing}
  BY <1>1, Zenon DEF Idle, Requests, Owned, Labels, AllOps
<1>3. RequestOK(r)
  BY <1>1 DEF Idle, RequestOK, ShapeOK, HoldOK, UnusedOK, Removes
<1>4. Serves(h, r, netIds)
  BY <1>1, <1>2, <1>3 DEF Serves, NetworksPrune
<1>5. QED
  BY <1>4, ServesInv DEF NetworksPrune, Accept

(* The next network of the list.                                           *)
LEMMA PruneNextInv == ASSUME Inv, NEW h \in Handlers, PruneNext(h) PROVE Inv'
<1>1. req[h].op = "prune" /\ req[h].pc = "prune"
  BY DEF PruneNext, At
<1>2. CASE Return(h)
  BY <1>1, <1>2, ReturnInv DEF PruneNext
<1>3. ASSUME NEW n \in req[h].todo,
             req' = IF Removable(n) THEN [req EXCEPT ![h].pc = "remove", ![h].net = n]
                                    ELSE [req EXCEPT ![h].todo = @ \ {n}]
      PROVE  Inv'
  <2> DEFINE q == [req[h] EXCEPT !.pc = "remove", !.net = n]
             r == [req[h] EXCEPT !.todo = @ \ {n}]
  <2>1. n \in netMade /\ n \in netIds \cup spoiled
    BY <1>1, RequestTyped DEF RequestOK, ShapeOK, HoldOK
  <2>2. CASE Removable(n)
    <3>1. req' = [req EXCEPT ![h] = q]
      BY <1>3, <2>2, Zenon DEF Inv, TypeOK
    <3>2. q \in Requests
      BY <2>1, RequestTyped, ZenonT(30) DEF Requests, Labels
    <3>3. RequestOK(q)
      BY <1>1, <2>1, <2>2, RequestTyped DEF Requests, RequestOK, ShapeOK, HoldOK, UnusedOK,
                 Removes, Removable, IsPredefined, getContainersInNetwork
    <3>4. Owned(q) \subseteq Owned(req[h])
      BY <1>1, RequestTyped DEF Requests, Owned
    <3>5. Serves(h, q, {})
      BY <3>1, <3>2, <3>3, <3>4, TakesNothing DEF Serves, PruneNext
    <3>6. QED
      BY <1>1, <3>5, ServesInv
  <2>3. CASE ~Removable(n)
    <3>1. req' = [req EXCEPT ![h] = r]
      BY <1>3, <2>3 DEF Inv, TypeOK
    <3>2. r \in Requests
      BY RequestTyped DEF Requests
    <3>3. RequestOK(r)
      BY <1>1, RequestTyped DEF Requests, RequestOK, ShapeOK, HoldOK, UnusedOK, Removes
    <3>4. Owned(r) \subseteq Owned(req[h])
      BY <1>1, RequestTyped DEF Requests, Owned
    <3>5. Serves(h, r, {})
      BY <3>1, <3>2, <3>3, <3>4, TakesNothing, Zenon DEF Serves, PruneNext
    <3>6. QED
      BY <1>1, <3>5, ServesInv
  <2>4. QED
    BY <2>2, <2>3
<1>4. QED
  BY <1>2, <1>3 DEF PruneNext

(* Connect and disconnect look up the container as well.                   *)
LEMMA FetchContainerInv == ASSUME Inv, NEW h \in Handlers, NEW key, FetchContainer(h, key)
                           PROVE  Inv'
<1>1. req[h].pc = "container" /\ req[h].op \in {"connect", "disconnect"}
  BY RequestTyped DEF FetchContainer, RequestOK, ShapeOK
<1>2. CASE Return(h) /\ UNCHANGED <<containerVars, networkVars, spoiled>>
  BY <1>1, <1>2, ReturnInv
<1>3. CASE Fetch(h, key, [req[h] EXCEPT !.pc = "assign"])
  <2>1. PICK c \in GetContainer(key) :
             /\ req' = [req EXCEPT ![h] = [[req[h] EXCEPT !.pc = "assign"] EXCEPT !.con = c]]
             /\ Take(h, {c})
             /\ UNCHANGED <<containerVars, networkVars>>
    BY <1>3, Zenon DEF Fetch
  <2> DEFINE r == [[req[h] EXCEPT !.pc = "assign"] EXCEPT !.con = c]
  <2>2. c \in made /\ c \in ids \cup spoiled
    BY ContainerFound
  <2>3. r \in Requests
    BY <2>2, RequestTyped, Zenon DEF Requests, Labels
  <2>4. RequestOK(r)
    BY <1>1, <2>2, RequestTyped DEF Requests, RequestOK, ShapeOK, HoldOK, UnusedOK, Removes
  <2>5. Owned(r) \subseteq Owned(req[h]) \cup {c} \cup {Nothing}
    BY RequestTyped DEF Requests, Owned
  <2>6. Serves(h, r, {c})
    BY <2>1, <2>2, <2>3, <2>4, <2>5 DEF Serves
  <2>7. QED
    BY <1>1, <2>6, ServesInv
<1>4. QED
  BY <1>2, <1>3 DEF FetchContainer

---------------------------------------------------------------------------
(* The steps that change a table.                                          *)

(* A request that gives records up shares no others.                       *)
LEMMA ExclusiveKept ==
    ASSUME Inv, NEW h \in Handlers, NEW r, req' = [req EXCEPT ![h] = r],
           Owned(r) \subseteq Owned(req[h]) \cup {Nothing}, spoiled \subseteq spoiled'
    PROVE  Exclusive'
<1>1. \A g \in Handlers \ {h} : Owned(req[g])' = Owned(req[g])
  BY DEF Owned, Inv, TypeOK
<1>2. Owned(req[h])' = Owned(r)
  BY DEF Owned, Inv, TypeOK
<1>3. QED
  BY <1>1, <1>2 DEF Inv, Exclusive

(* The network a request is about to remove is one it looked up.           *)
LEMMA RemovesMade == ASSUME Inv, NEW h \in Handlers, Removes(req[h])
                     PROVE  req[h].net \in netMade /\ req[h].net # Nothing
BY RequestTyped, RecordsAssumption DEF RequestOK, ShapeOK, Removes, Inv, TypeOK

(* A step of one request leaves the others as they are.                    *)
LEMMA Assigned == ASSUME Inv, NEW h \in Handlers, NEW r, req' = [req EXCEPT ![h] = r]
                  PROVE  req'[h] = r /\ \A g \in Handlers : g # h => req'[g] = req[g]
<1>1. req = [g \in Handlers |-> req[g]]
  BY Zenon DEF Inv, TypeOK
<1>2. QED
  BY <1>1

(* What two requests work on is spoiled.                                   *)
LEMMA Shared == ASSUME Inv, NEW g \in Handlers, NEW h \in Handlers, g # h, NEW x,
                       x \in Owned(req[g]), x \in Owned(req[h]), x # Nothing
                PROVE  x \in spoiled
BY DEF Inv, Exclusive

(* A request has what it looked up while the tables grow.                  *)
LEMMA StillHeld ==
    ASSUME NEW g \in Handlers, RequestOK(req'[g]),
           made \subseteq made', netMade \subseteq netMade', ids \subseteq ids',
           netIds \subseteq netIds', spoiled \subseteq spoiled',
           Removes(req'[g]) => netName'[req'[g].net] = netName[req'[g].net]
    PROVE  ShapeOK(req[g])' /\ HoldOK(req[g])'
<1>1. ShapeOK(req[g])'
  BY Zenon DEF RequestOK, ShapeOK, Removes, IsPredefined
<1>2. HoldOK(req[g])'
  BY Zenon DEF RequestOK, HoldOK
<1>3. QED
  BY <1>1, <1>2, Zenon

(* The container of a request is in the table, or spoiled.                 *)
LEMMA MadeHeld == ASSUME Inv, NEW h \in Handlers, req[h].con \in made
                  PROVE  req[h].con \in ids \cup spoiled /\ req[h].con # Nothing
<1>1. Nothing \notin made
  BY RecordsAssumption DEF Inv, TypeOK
<1>2. RequestOK(req[h])
  BY RequestTyped, Zenon
<1>3. QED
  BY <1>1, <1>2, Zenon DEF RequestOK, HoldOK

(* A request has what it looked up when a network goes that it shared.     *)
LEMMA HeldButOne ==
    ASSUME NEW g \in Handlers, NEW n, RequestOK(req'[g]), n \in Owned(req'[g]) => n \in spoiled,
           netIds' = netIds \ {n}, UNCHANGED <<ids, spoiled>>
    PROVE  HoldOK(req[g])'
BY DEF RequestOK, HoldOK, Owned

(* A network stays unused while no container joins it.                     *)
LEMMA StillUnused ==
    ASSUME NEW g \in Handlers, RequestOK(req'[g]), spoiled \subseteq spoiled',
           \A c \in ids' \ spoiled' : c \in ids \ spoiled /\ nets'[c] = nets[c]
    PROVE  UnusedOK(req[g])'
BY Zenon DEF RequestOK, UnusedOK, Removes

(* A new container is found by its name, and its networks exist.           *)
LEMMA SaveNewInv == ASSUME Inv, NEW h \in Handlers, SaveNew(h) PROVE Inv'
<1> USE RecordsAssumption
<1>1. req[h].pc = "resolve" /\ req' = [req EXCEPT ![h] = Idle] /\ UNCHANGED <<networkVars, spoiled>>
  BY DEF SaveNew, At, Return
<1>2. PICK c \in Containers \ made :
         /\ made' = made \cup {c}
         /\ name' = [name EXCEPT ![c] = req[h].name]
         /\ nets' = [nets EXCEPT ![c] = req[h].nets]
         /\ ids' = ids \cup {c}
         /\ byName' = byName \cup ({req[h].name} \ {NoName}) \X {c}
  BY Zenon DEF SaveNew
<1>3. req[h] \in Requests /\ RequestOK(req[h])
  BY RequestTyped
<1>4. c \notin spoiled /\ c \notin ids
  BY DEF Inv, TypeOK
<1>5. TypeOK'
  <2>1. byName' \subseteq (Names \X made)'
    BY <1>2, <1>3 DEF Inv, TypeOK, Requests
  <2>2. nets' \in [Containers -> SUBSET netMade]' /\ name' \in [Containers -> Names \cup {NoName}]'
    BY <1>1, <1>2, <1>3 DEF Inv, TypeOK, Requests, networkVars
  <2>3. (req \in [Handlers -> Requests])'
    BY <1>1, <1>2, IdleOK DEF Inv, TypeOK, Requests, networkVars
  <2>4. QED
    BY <1>1, <1>2, <2>1, <2>2, <2>3 DEF Inv, TypeOK, Requests, networkVars
<1>6. Exclusive'
  BY <1>1, IdleOK, ExclusiveKept, Zenon
<1>7. \A g \in Handlers : RequestOK(req[g])'
  <2> SUFFICES ASSUME NEW g \in Handlers PROVE RequestOK(req[g])'
    OBVIOUS
  <2>1. CASE g = h
    <3>1. req'[g] = Idle
      BY <1>1, <2>1, Assigned, Zenon
    <3>2. QED
      BY <3>1 DEF RequestOK, ShapeOK, HoldOK, UnusedOK, Removes, Idle
  <2>2. CASE g # h
    <3>1. req'[g] = req[g] /\ RequestOK(req[g])
      BY <1>1, <2>2, Assigned, RequestTyped, Zenon
    <3>2. ShapeOK(req[g])' /\ HoldOK(req[g])'
      <4>1. /\ made \subseteq made' /\ ids \subseteq ids'
            /\ UNCHANGED <<netMade, netIds, netName, spoiled>>
        BY <1>1, <1>2, Zenon DEF networkVars
      <4>2. QED
        BY <3>1, <4>1, StillHeld, Zenon
    <3>3. Removes(req[g]) /\ req[g].net \notin spoiled => req[g].net \notin req[h].nets
      BY <2>2, RemovesMade, Shared, Zenon DEF Owned
    <3>4. UnusedOK(req[g])'
      BY <1>1, <1>2, <1>4, <3>1, <3>3 DEF RequestOK, UnusedOK, Removes, Inv, TypeOK
    <3>5. QED
      BY <3>2, <3>4 DEF RequestOK
  <2>3. QED
    BY <2>1, <2>2
<1>8. NetIndexOK' /\ BridgeOK'
  BY <1>1, Zenon DEF Inv, TablesOK, NetIndexOK, BridgeOK, networkVars
<1>9. NamedOK'
  <2> SUFFICES ASSUME NEW d \in ids', name'[d] # NoName
               PROVE  <<name'[d], d>> \in byName' \/ \E g \in Handlers : req'[g].pc = "save" /\ req'[g].con = d
    BY DEF NamedOK
  <2>1. CASE d = c
    BY <1>2, <2>1 DEF Inv, TypeOK
  <2>2. CASE d # c
    <3>1. d \in ids /\ name'[d] = name[d]
      BY <1>2, <2>2 DEF Inv, TypeOK
    <3>2. CASE <<name[d], d>> \in byName
      BY <1>2, <3>1, <3>2
    <3>3. CASE \E g \in Handlers : req[g].pc = "save" /\ req[g].con = d
      BY <1>1, <3>3, SMTT(30) DEF Inv, TypeOK
    <3>4. QED
      BY <3>1, <3>2, <3>3 DEF Inv, TablesOK, NamedOK
  <2>3. QED
    BY <2>1, <2>2
<1>10. EntriesOK'
  <2> SUFFICES ASSUME NEW k \in Names, NEW d \in made' \ spoiled', <<k, d>> \in byName'
               PROVE  d \in ids' /\ name'[d] = k
    BY DEF EntriesOK
  <2>1. CASE d = c
    <3>1. <<k, c>> \notin byName
      BY DEF Inv, TypeOK
    <3>2. QED
      BY <1>2, <2>1, <3>1 DEF Inv, TypeOK
  <2>2. CASE d # c
    BY <1>1, <1>2, <2>2, SMTT(30) DEF Inv, TypeOK, TablesOK, EntriesOK
  <2>3. QED
    BY <2>1, <2>2
<1>11. NetworksExist'
  BY <1>1, <1>2, <1>3, SMTT(30) DEF Inv, TypeOK, TablesOK, NetworksExist, RequestOK, HoldOK, networkVars
<1>12. QED
  BY <1>5, <1>6, <1>7, <1>8, <1>9, <1>10, <1>11, Zenon DEF Inv, TablesOK

(* A rename spoils the container: the entry of its former name stays.      *)
LEMMA AssignNameInv == ASSUME Inv, NEW h \in Handlers, AssignName(h) PROVE Inv'
<1> USE RecordsAssumption
<1> DEFINE c == req[h].con
           r == [req[h] EXCEPT !.pc = "save"]
<1>1. /\ req[h].pc = "assign" /\ req[h].op = "rename"
      /\ name' = [name EXCEPT ![c] = req[h].name]
      /\ spoiled' = spoiled \cup {c}
      /\ UNCHANGED <<ids, made, byName, nets, networkVars>>
  BY Zenon DEF AssignName, At
<1>2. req' = [req EXCEPT ![h] = r]
  BY DEF AssignName, Goto, Inv, TypeOK
<1>3. req[h] \in Requests /\ RequestOK(req[h]) /\ c \in made
  BY <1>1, RequestTyped, Zenon DEF RequestOK, ShapeOK
<1>4. r \in Requests /\ Owned(r) = Owned(req[h])
  BY <1>3 DEF Requests, Labels, Owned
<1>5. TypeOK'
  BY <1>1, <1>2, <1>3, <1>4, SMTT(30) DEF Inv, TypeOK, Requests, networkVars
<1>6. Exclusive'
  BY <1>1, <1>2, <1>4, ExclusiveKept, Zenon
<1>7. \A g \in Handlers : RequestOK(req[g])'
  <2> SUFFICES ASSUME NEW g \in Handlers PROVE RequestOK(req[g])'
    OBVIOUS
  <2>1. RequestOK(req'[g])
    BY <1>1, <1>2, <1>3, SMTT(30) DEF Inv, TypeOK, RequestOK, ShapeOK, HoldOK, UnusedOK, Removes, Requests
  <2>2. QED
    <3>1. spoiled \subseteq spoiled' /\ UNCHANGED <<made, ids, nets, netMade, netIds, netName>>
      BY <1>1, Zenon DEF networkVars
    <3>2. ShapeOK(req[g])' /\ HoldOK(req[g])'
      BY <2>1, <3>1, StillHeld, Zenon
    <3>3. UnusedOK(req[g])'
      BY <2>1, <3>1, StillUnused, Zenon
    <3>4. QED
      BY <3>2, <3>3, Zenon DEF RequestOK
<1>8. NetIndexOK' /\ BridgeOK' /\ EntriesOK' /\ NetworksExist'
  BY <1>1, <1>3, Zenon DEF Inv, TypeOK, TablesOK, NetIndexOK, BridgeOK, EntriesOK, NetworksExist, networkVars
<1>9. NamedOK'
  <2> SUFFICES ASSUME NEW d \in ids', name'[d] # NoName
               PROVE  <<name'[d], d>> \in byName' \/ \E g \in Handlers : req'[g].pc = "save" /\ req'[g].con = d
    BY Zenon DEF NamedOK
  <2>1. CASE d = c
    BY <1>2, <1>3, <2>1 DEF Inv, TypeOK, Requests
  <2>2. CASE d # c
    <3>1. d \in ids /\ name'[d] = name[d]
      BY <1>1, <2>2 DEF Inv, TypeOK
    <3>2. CASE \E g \in Handlers : req[g].pc = "save" /\ req[g].con = d
      BY <1>1, <1>2, <3>2 DEF Inv, TypeOK
    <3>3. QED
      BY <1>1, <3>1, <3>2, SMTT(30) DEF Inv, TablesOK, NamedOK
  <2>3. QED
    BY <2>1, <2>2, Zenon
<1>10. QED
  BY <1>5, <1>6, <1>7, <1>8, <1>9 DEF Inv, TablesOK

(* A save puts the record under its present name, also one that was        *)
(* deleted meanwhile.                                                      *)
LEMMA SaveContainerInv == ASSUME Inv, NEW h \in Handlers, SaveContainer(h) PROVE Inv'
<1> USE RecordsAssumption
<1> DEFINE c == req[h].con
<1>1. /\ req[h].pc = "save" /\ req' = [req EXCEPT ![h] = Idle]
      /\ ids' = ids \cup {c} /\ byName' = byName \cup ({name[c]} \ {NoName}) \X {c}
      /\ UNCHANGED <<made, name, nets, networkVars, spoiled>>
  BY DEF SaveContainer, Insert, Return
<1>2. req[h] \in Requests /\ RequestOK(req[h]) /\ c \in made /\ c \in ids \cup spoiled
  BY <1>1, MadeHeld, RequestTyped, Zenon DEF RequestOK, ShapeOK
<1>3. name[c] \in Names \cup {NoName}
  BY <1>2 DEF Inv, TypeOK
<1>4. TypeOK'
  <2>1. byName' \subseteq Names \X made
    BY <1>1, <1>2, <1>3, Zenon DEF Inv, TypeOK
  <2>2. QED
    BY <1>1, <1>2, <2>1, IdleOK, SMTT(30) DEF Inv, TypeOK, Requests, networkVars
<1>5. Exclusive'
  BY <1>1, IdleOK, ExclusiveKept, Zenon
<1>6. \A g \in Handlers : RequestOK(req[g])'
  <2> SUFFICES ASSUME NEW g \in Handlers PROVE RequestOK(req[g])'
    OBVIOUS
  <2>1. RequestOK(req'[g])
    BY <1>1, IdleOK, SMTT(30) DEF Inv, TypeOK
  <2>2. ShapeOK(req[g])' /\ HoldOK(req[g])'
    <3>1. ids \subseteq ids' /\ UNCHANGED <<made, netMade, netIds, netName, spoiled>>
      BY <1>1, Zenon DEF networkVars
    <3>2. QED
      BY <2>1, <3>1, StillHeld, Zenon
  <2>3. \A d \in ids' \ spoiled' : d \in ids \ spoiled
    BY <1>1, <1>2
  <2>4. UnusedOK(req[g])'
    BY <1>1, <2>1, <2>3, Zenon DEF RequestOK, UnusedOK, Removes
  <2>5. QED
    BY <2>2, <2>4, Zenon DEF RequestOK
<1>7. NetIndexOK' /\ BridgeOK' /\ NetworksExist'
  BY <1>1, <1>2, ZenonT(30) DEF Inv, TablesOK, NetIndexOK, BridgeOK, NetworksExist, networkVars
<1>8. NamedOK'
  <2> SUFFICES ASSUME NEW d \in ids', name'[d] # NoName
               PROVE  <<name'[d], d>> \in byName' \/ \E g \in Handlers : req'[g].pc = "save" /\ req'[g].con = d
    BY DEF NamedOK
  <2>1. CASE d = c
    BY <1>1, <2>1
  <2>2. CASE d # c
    <3>1. d \in ids /\ name'[d] = name[d]
      BY <1>1, <2>2, Zenon
    <3>2. ASSUME NEW g \in Handlers, req[g].pc = "save" /\ req[g].con = d PROVE req'[g] = req[g]
      BY <1>1, <2>2, <3>2, SMTT(30) DEF Inv, TypeOK
    <3>3. QED
      BY <1>1, <3>1, <3>2, SMTT(30) DEF Inv, TablesOK, NamedOK
  <2>3. QED
    BY <2>1, <2>2, Zenon
<1>9. EntriesOK'
  <2> SUFFICES ASSUME NEW k \in Names, NEW d \in made \ spoiled, <<k, d>> \in byName'
               PROVE  d \in ids' /\ name[d] = k
    BY <1>1, Zenon DEF EntriesOK
  <2>1. CASE <<k, d>> \in byName
    BY <1>1, <2>1, Zenon DEF Inv, TablesOK, EntriesOK
  <2>2. CASE <<k, d>> \notin byName
    <3>1. d = c /\ k = name[c]
      BY <1>1, <2>2, Zenon
    <3>2. QED
      BY <1>1, <3>1, Zenon
  <2>3. QED
    BY <2>1, <2>2
<1>10. QED
  BY <1>4, <1>5, <1>6, <1>7, <1>8, <1>9 DEF Inv, TablesOK

(* A record is dropped with the entry of its present name.                 *)
LEMMA DropRecordInv == ASSUME Inv, NEW h \in Handlers, DropRecord(h) PROVE Inv'
<1> USE RecordsAssumption
<1> DEFINE c == req[h].con
<1>1. /\ req[h].op = "delete" /\ req[h].pc = "remove" /\ req' = [req EXCEPT ![h] = Idle]
      /\ ids' = ids \ {c}
      /\ byName' = IF c \in ids THEN byName \ {<<name[c], c>>} ELSE byName
      /\ UNCHANGED <<made, name, nets, networkVars, spoiled>>
  BY Zenon DEF DropRecord, At, Delete, Return
<1>2. /\ req[h] \in Requests /\ RequestOK(req[h])
      /\ c \in made /\ c \in ids \cup spoiled /\ c # Nothing
  BY <1>1, MadeHeld, RequestTyped, Zenon DEF RequestOK, ShapeOK
<1>3. TypeOK'
  BY <1>1, IdleOK, Zenon DEF Inv, TypeOK, Requests, networkVars
<1>4. Exclusive'
  BY <1>1, IdleOK, ExclusiveKept, Zenon
<1>5. \A g \in Handlers : RequestOK(req[g])'
  <2> SUFFICES ASSUME NEW g \in Handlers PROVE RequestOK(req[g])'
    OBVIOUS
  <2>1. RequestOK(req'[g])
    BY <1>1, Assigned, RequestTyped, IdleOK, Zenon
  <2>2. req'[g].con = c => c \in spoiled
    <3>1. CASE g = h
      <4>1. req'[g] = Idle
        BY <1>1, <3>1, Assigned, Zenon
      <4>2. req'[g].con = Nothing
        BY <4>1 DEF Idle
      <4>3. QED
        BY <1>2, <4>2, Zenon
    <3>2. CASE g # h
      <4>1. req'[g] = req[g]
        BY <1>1, <3>2, Assigned, Zenon
      <4>2. QED
        BY <1>2, <3>2, <4>1, Shared, Zenon DEF Owned
    <3>3. QED
      BY <3>1, <3>2, Zenon
  <2>3. ids' = ids \ {c} /\ UNCHANGED <<made, nets, spoiled, netMade, netIds, netName>>
    BY <1>1, Zenon DEF networkVars
  <2>4. ShapeOK(req[g])'
    BY <2>1, <2>3, Zenon DEF RequestOK, ShapeOK, Removes, IsPredefined
  <2>5. HoldOK(req[g])'
    BY <2>1, <2>2, <2>3, Zenon DEF RequestOK, HoldOK
  <2>6. UnusedOK(req[g])'
    BY <2>1, <2>3, StillUnused, Zenon
  <2>7. QED
    BY <2>4, <2>5, <2>6, Zenon DEF RequestOK
<1>6. NetIndexOK' /\ BridgeOK' /\ NetworksExist'
  BY <1>1, Zenon DEF Inv, TablesOK, NetIndexOK, BridgeOK, NetworksExist, networkVars
<1>7. NamedOK'
  <2> SUFFICES ASSUME NEW d \in ids', name[d] # NoName
               PROVE  <<name[d], d>> \in byName' \/ \E g \in Handlers : req'[g].pc = "save" /\ req'[g].con = d
    BY <1>1, Zenon DEF NamedOK
  <2>1. d \in ids /\ d # c
    BY <1>1, Zenon
  <2>2. \A g \in Handlers : req[g].pc = "save" => req'[g] = req[g]
    <3> SUFFICES ASSUME NEW g \in Handlers, req[g].pc = "save" PROVE req'[g] = req[g]
      OBVIOUS
    <3>1. g # h
      BY <1>1
    <3>2. QED
      BY <1>1, <3>1, Assigned, Zenon
  <2>3. CASE <<name[d], d>> \in byName
    BY <1>1, <2>1, <2>3, Zenon
  <2>4. CASE \E g \in Handlers : req[g].pc = "save" /\ req[g].con = d
    BY <2>2, <2>4, Zenon
  <2>5. QED
    BY <2>1, <2>3, <2>4, Zenon DEF Inv, TablesOK, NamedOK
<1>8. EntriesOK'
  <2> SUFFICES ASSUME NEW k \in Names, NEW d \in made \ spoiled, <<k, d>> \in byName'
               PROVE  d \in ids' /\ name[d] = k
    BY <1>1, Zenon DEF EntriesOK
  <2>1. d \in ids /\ name[d] = k
    BY <1>1, Zenon DEF Inv, TablesOK, EntriesOK
  <2>2. d # c
    BY <1>1, <2>1, Zenon
  <2>3. QED
    BY <1>1, <2>1, <2>2, Zenon
<1>9. QED
  BY <1>3, <1>4, <1>5, <1>6, <1>7, <1>8 DEF Inv, TablesOK

(* Connect and disconnect change the networks of a container in place: no  *)
(* other request holds the network, or it is spoiled.                      *)
LEMMA ConnectInv == ASSUME Inv, NEW h \in Handlers, ConnectNetwork(h) \/ DisconnectNetwork(h)
                    PROVE  Inv'
<1> USE RecordsAssumption
<1> DEFINE c == req[h].con
           n == req[h].net
           r == [req[h] EXCEPT !.pc = "save"]
<1>1. /\ req[h].pc = "assign" /\ req[h].op \in {"connect", "disconnect"}
      /\ UNCHANGED <<ids, made, name, byName, networkVars, spoiled>>
  BY Zenon DEF ConnectNetwork, DisconnectNetwork, At
<1>2. PICK ns : nets' = [nets EXCEPT ![c] = ns] /\ ns \subseteq nets[c] \cup {n}
  <2> DEFINE P(ns) == nets' = [nets EXCEPT ![c] = ns] /\ ns \subseteq nets[c] \cup {n}
  <2>1. CASE ConnectNetwork(h)
    <3>1. P(nets[c] \cup {n})
      BY <2>1, Zenon DEF ConnectNetwork
    <3>2. QED
      BY <3>1, ZenonT(30)
  <2>2. CASE DisconnectNetwork(h)
    <3>1. P(nets[c] \ {n})
      BY <2>2, Zenon DEF DisconnectNetwork
    <3>2. QED
      BY <3>1, Zenon
  <2>3. QED
    BY <2>1, <2>2, Zenon
<1>3. PICK q \in {Idle, r} : req' = [req EXCEPT ![h] = q]
  BY DEF ConnectNetwork, DisconnectNetwork, Goto, Return, Inv, TypeOK
<1>4. req[h] \in Requests /\ RequestOK(req[h]) /\ c \in made /\ n \in netMade /\ n # Nothing
  BY <1>1, RequestTyped, SMTT(30) DEF RequestOK, ShapeOK, Inv, TypeOK
<1>5. q \in Requests /\ Owned(q) \subseteq Owned(req[h]) \cup {Nothing}
  <2>1. r \in Requests /\ Owned(r) = Owned(req[h])
    BY <1>4 DEF Requests, Labels, Owned
  <2>2. QED
    BY <2>1, IdleOK
<1>6. RequestOK(q)
  <2>1. RequestOK(r)
    BY <1>1, <1>4 DEF Requests, RequestOK, ShapeOK, HoldOK, UnusedOK, Removes
  <2>2. QED
    BY <2>1, IdleOK
<1> HIDE DEF r
<1>7. TypeOK'
  <2>1. nets' \in [Containers -> SUBSET netMade]
    BY <1>2, <1>4, SMTT(30) DEF Inv, TypeOK
  <2>2. req' \in [Handlers -> Requests]
    BY <1>3, <1>5, RequestTyped, Zenon DEF Inv, TypeOK
  <2>3. QED
    BY <1>1, <2>1, <2>2, Zenon DEF Inv, TypeOK, Requests, networkVars
<1>8. Exclusive'
  BY <1>1, <1>3, <1>5, ExclusiveKept, Zenon
<1>9. \A g \in Handlers : RequestOK(req[g])'
  <2> SUFFICES ASSUME NEW g \in Handlers PROVE RequestOK(req[g])'
    OBVIOUS
  <2>1. RequestOK(req'[g])
    BY <1>3, <1>6 DEF Inv, TypeOK
  <2>2. ShapeOK(req[g])' /\ HoldOK(req[g])'
    BY <1>1, <2>1, Zenon DEF RequestOK, ShapeOK, HoldOK, Removes, IsPredefined, networkVars
  <2>3. Removes(req'[g]) /\ req'[g].net \notin spoiled => req'[g].net # n
    <3>1. CASE g = h
      BY <1>1, <1>3, <1>4, <3>1 DEF r, Removes, Idle, Inv, TypeOK, Requests
    <3>2. CASE g # h
      <4>1. req'[g] = req[g]
        BY <1>3, <3>2, Assigned, Zenon
      <4>2. QED
        BY <1>4, <3>2, <4>1, Shared, Zenon DEF Owned
    <3>3. QED
      BY <3>1, <3>2, Zenon
  <2>4. UnusedOK(req[g])'
    BY <1>1, <1>2, <2>1, <2>3, Zenon DEF RequestOK, UnusedOK, Removes, Inv, TypeOK
  <2>5. QED
    BY <2>2, <2>4 DEF RequestOK
<1>10. NetIndexOK' /\ BridgeOK' /\ EntriesOK'
  BY <1>1, Zenon DEF Inv, TablesOK, NetIndexOK, BridgeOK, EntriesOK, networkVars
<1>11. NamedOK'
  BY <1>1, <1>3, Zenon DEF Inv, TypeOK, TablesOK, NamedOK
<1>12. NetworksExist'
  <2>1. n \in netIds \cup spoiled
    BY <1>4 DEF RequestOK, HoldOK
  <2>2. QED
    <3>1. nets = [d \in Containers |-> nets[d]]
      BY Zenon DEF Inv, TypeOK
    <3>2. \A d \in ids : d \in Containers
      BY Zenon DEF Inv, TypeOK
    <3>3. \A d \in Containers : nets'[d] \subseteq nets[d] \cup {n} /\ (d # c => nets'[d] = nets[d])
      BY <1>2, <3>1
    <3>4. UNCHANGED <<ids, netIds, spoiled>>
      BY <1>1, Zenon DEF networkVars
    <3>5. QED
      BY <2>1, <3>2, <3>3, <3>4, Zenon DEF Inv, TablesOK, NetworksExist
<1>13. QED
  BY <1>7, <1>8, <1>9, <1>10, <1>11, <1>12, Zenon DEF Inv, TablesOK

(* The removal of a network: it is not predefined, and unused unless       *)
(* spoiled; a request that still holds it shares it with the one that      *)
(* removes it.                                                             *)
LEMMA NetworkGone ==
    ASSUME Inv, NEW h \in Handlers, Removes(req[h]), DeleteNetwork(req[h].net),
           NEW r \in Requests, req' = [req EXCEPT ![h] = r], RequestOK(r), ~Removes(r),
           Owned(r) \subseteq Owned(req[h]) \cup {Nothing}, req[h].net \notin Owned(r),
           UNCHANGED <<containerVars, netMade, netName, spoiled>>
    PROVE  Inv'
<1> USE RecordsAssumption
<1> DEFINE n == req[h].net
<1>1. n \in netMade /\ n # Nothing
  BY RemovesMade, Zenon
<1>2. RequestOK(req[h]) /\ netName[n] \notin Predefined
  BY RequestTyped, Zenon DEF RequestOK, ShapeOK, IsPredefined
<1>3. /\ netIds' = netIds \ {n}
      /\ netBy' = IF n \in netIds THEN [netBy EXCEPT ![netName[n]] = Nothing] ELSE netBy
  BY Zenon DEF DeleteNetwork
<1>4. \A k \in NetNames : netBy'[k] \in {netBy[k], Nothing} /\ netBy'[k] # n
  <2> SUFFICES ASSUME NEW k \in NetNames PROVE netBy'[k] \in {netBy[k], Nothing} /\ netBy'[k] # n
    BY Zenon
  <2>1. netBy[k] = n => k = netName[n] /\ n \in netIds
    BY <1>1, Zenon DEF Inv, TypeOK, TablesOK, NetIndexOK
  <2>2. QED
    <3>1. netBy = [x \in NetNames |-> netBy[x]] /\ Nothing # n
      BY <1>1, Zenon DEF Inv, TypeOK
    <3>2. CASE n \in netIds
      BY <1>3, <2>1, <3>1, <3>2
    <3>3. CASE n \notin netIds
      BY <1>3, <2>1, <3>3, Zenon
    <3>4. QED
      BY <3>2, <3>3
<1>5. TypeOK'
  <2>1. netBy' \in [NetNames -> netIds \cup {Nothing}]'
    BY <1>3, <1>4, Zenon DEF Inv, TypeOK
  <2>2. QED
    BY <1>3, <2>1, Zenon DEF Inv, TypeOK, Requests, containerVars
<1>6. Exclusive'
  BY ExclusiveKept, Zenon
<1>7. \A g \in Handlers : RequestOK(req[g])'
  <2> SUFFICES ASSUME NEW g \in Handlers PROVE RequestOK(req[g])'
    BY Zenon
  <2>1. RequestOK(req'[g])
    BY Assigned, RequestTyped, Zenon
  <2>2. n \in Owned(req'[g]) => n \in spoiled
    <3>1. CASE g = h
      BY <3>1, Assigned, Zenon
    <3>2. CASE g # h
      <4>1. req'[g] = req[g]
        BY <3>2, Assigned, Zenon
      <4>2. n \in Owned(req[h])
        BY Zenon DEF Owned
      <4>3. QED
        BY <1>1, <3>2, <4>1, <4>2, Shared, Zenon
    <3>3. QED
      BY <3>1, <3>2, Zenon
  <2>3. HoldOK(req[g])'
    <3>1. netIds' = netIds \ {n} /\ UNCHANGED <<ids, spoiled>>
      BY <1>3, Zenon DEF containerVars
    <3>2. QED
      BY <2>1, <2>2, <3>1, HeldButOne, Zenon
  <2>4. ShapeOK(req[g])' /\ UnusedOK(req[g])'
    BY <2>1, Zenon DEF RequestOK, ShapeOK, UnusedOK, Removes, IsPredefined, containerVars
  <2>5. QED
    BY <2>3, <2>4, Zenon DEF RequestOK
<1>8. NetIndexOK'
  BY <1>4, Zenon DEF Inv, TablesOK, NetIndexOK
<1>9. BridgeOK'
  <2>1. netBy[Bridge] # n /\ Bridge # netName[n] /\ Bridge \in NetNames
    BY <1>1, <1>2, Zenon DEF Inv, TablesOK, NetIndexOK
  <2>2. netBy'[Bridge] = netBy[Bridge]
    <3>1. netBy = [x \in NetNames |-> netBy[x]]
      BY Zenon DEF Inv, TypeOK
    <3>2. QED
      BY <1>3, <2>1, <3>1
  <2>3. netBy[Bridge] \in netIds \ {n}
    BY <2>1, Zenon DEF Inv, TablesOK, BridgeOK
  <2>4. netBy'[Bridge] \in netIds'
    BY <1>3, <2>2, <2>3, Zenon
  <2>5. QED
    BY <2>4, Zenon DEF BridgeOK
<1>10. NamedOK'
  <2>1. \A g \in Handlers : req[g].pc = "save" => req'[g] = req[g]
    <3> SUFFICES ASSUME NEW g \in Handlers, req[g].pc = "save" PROVE req'[g] = req[g]
      OBVIOUS
    <3>1. g # h
      BY DEF Removes
    <3>2. QED
      BY <3>1, Assigned, Zenon
  <2>2. QED
    BY <2>1, ZenonT(30) DEF Inv, TablesOK, NamedOK, containerVars
<1>11. EntriesOK'
  BY Zenon DEF Inv, TablesOK, EntriesOK, containerVars
<1>12. NetworksExist'
  BY <1>2, <1>3, ZenonT(30) DEF Inv, TablesOK, NetworksExist, RequestOK, UnusedOK, containerVars
<1>13. QED
  BY <1>5, <1>6, <1>7, <1>8, <1>9, <1>10, <1>11, <1>12, Zenon DEF Inv, TablesOK

(* The two requests that remove networks.                                  *)
LEMMA RemoveInv == ASSUME Inv, NEW h \in Handlers, RemoveNetwork(h) \/ PruneRemove(h) PROVE Inv'
<1> USE RecordsAssumption
<1> DEFINE n == req[h].net
<1>1. /\ Removes(req[h]) /\ DeleteNetwork(n)
      /\ UNCHANGED <<containerVars, netMade, netName, spoiled>>
  BY DEF RemoveNetwork, PruneRemove, At, Removes
<1>2. n # Nothing
  BY <1>1, RemovesMade, Zenon
<1>3. CASE req' = [req EXCEPT ![h] = Idle]
  BY <1>1, <1>2, <1>3, IdleOK, NetworkGone, Zenon DEF Removes, Idle
<1>4. CASE PruneRemove(h) /\ n \in netIds
  <2> DEFINE r == [req[h] EXCEPT !.pc = "prune", !.net = Nothing, !.todo = @ \ {n}]
  <2>1. req' = [req EXCEPT ![h] = r] /\ req[h].op = "prune"
    BY <1>4 DEF PruneRemove, At
  <2>2. req[h] \in Requests /\ RequestOK(req[h]) /\ n \notin made
    BY <1>1, RequestTyped, RemovesMade, Zenon DEF Inv, TypeOK
  <2>3. r \in Requests
    BY <2>2, Zenon DEF Requests, Labels
  <2>4. RequestOK(r) /\ ~Removes(r)
    BY <2>1, <2>2 DEF Requests, RequestOK, ShapeOK, HoldOK, UnusedOK, Removes
  <2>5. Owned(r) \subseteq Owned(req[h]) \cup {Nothing} /\ n \notin Owned(r)
    BY <1>2, <2>1, <2>2 DEF Requests, Owned, RequestOK, ShapeOK
  <2>6. QED
    BY <1>1, <2>1, <2>3, <2>4, <2>5, NetworkGone, Zenon
<1>5. QED
  BY <1>3, <1>4 DEF RemoveNetwork, PruneRemove, Return

(* A new network takes the entry of its name.                              *)
LEMMA NetworksCreateInv == ASSUME Inv, NEW k \in NetNames, NetworksCreate(k) PROVE Inv'
<1> USE RecordsAssumption
<1>1. PICK n \in Networks \ netMade : /\ netMade' = netMade \cup {n}
                                      /\ netName' = [netName EXCEPT ![n] = k]
                                      /\ netIds' = netIds \cup {n}
                                      /\ netBy' = [netBy EXCEPT ![k] = n]
  BY Zenon DEF NetworksCreate, InsertNetwork
<1>2. UNCHANGED <<containerVars, req, spoiled>>
  BY DEF NetworksCreate
<1>3. TypeOK'
  <2>1. (req \in [Handlers -> Requests])'
    BY <1>1, <1>2, Zenon DEF Inv, TypeOK, Requests, containerVars
  <2>2. netBy' \in [NetNames -> netIds' \cup {Nothing}] /\ netName' \in [Networks -> NetNames]
    BY <1>1, Zenon DEF Inv, TypeOK
  <2>3. /\ nets \in [Containers -> SUBSET netMade] /\ netMade \subseteq Networks
        /\ netIds \subseteq netMade /\ spoiled \subseteq made \cup netMade
    BY Zenon DEF Inv, TypeOK
  <2>4. /\ nets \in [Containers -> SUBSET netMade'] /\ netMade' \subseteq Networks
        /\ netIds' \subseteq netMade' /\ spoiled \subseteq made \cup netMade'
    BY <1>1, <2>3
  <2>5. QED
    BY <1>2, <2>1, <2>2, <2>4, Zenon DEF Inv, TypeOK, Requests, containerVars
<1>4. Exclusive'
  <2>1. \A g \in Handlers : Owned(req[g])' = Owned(req[g])
    BY <1>2, Zenon DEF Owned
  <2>2. QED
    BY <1>2, <2>1, Zenon DEF Inv, Exclusive
<1>5. \A g \in Handlers : RequestOK(req[g])'
  <2> SUFFICES ASSUME NEW g \in Handlers PROVE RequestOK(req[g])'
    OBVIOUS
  <2>1. RequestOK(req[g])
    BY DEF Inv
  <2>2. Removes(req[g]) => netName'[req[g].net] = netName[req[g].net]
    <3>1. netName = [x \in Networks |-> netName[x]] /\ netMade \subseteq Networks
      BY Zenon DEF Inv, TypeOK
    <3>2. Removes(req[g]) => req[g].net \in netMade
      BY RemovesMade, Zenon
    <3>3. QED
      BY <1>1, <3>1, <3>2
  <2>3. QED
    BY <1>1, <1>2, <2>1, <2>2, ZenonT(30)
       DEF RequestOK, ShapeOK, HoldOK, UnusedOK, Removes, IsPredefined, containerVars
<1>6. NetIndexOK' /\ BridgeOK'
  BY <1>1, SMTT(30) DEF Inv, TypeOK, TablesOK, NetIndexOK, BridgeOK
<1>7. NamedOK' /\ EntriesOK' /\ NetworksExist'
  BY <1>1, <1>2, Zenon DEF Inv, TablesOK, NamedOK, EntriesOK, NetworksExist, containerVars
<1>8. QED
  BY <1>3, <1>4, <1>5, <1>6, <1>7, Zenon DEF Inv, TablesOK

---------------------------------------------------------------------------
(* Every step preserves the invariant.                                     *)
LEMMA NextInv == ASSUME Inv, [Next]_vars PROVE Inv'
<1>1. CASE UNCHANGED vars
  <2> USE <1>1 DEF vars, containerVars, networkVars, Inv
  <2>1. TypeOK'
    BY Zenon DEF TypeOK
  <2>2. \A h \in Handlers : RequestOK(req[h])'
    BY Zenon DEF RequestOK, ShapeOK, HoldOK, UnusedOK, Removes, IsPredefined
  <2>3. Exclusive'
    <3>1. \A h \in Handlers : Owned(req[h])' = Owned(req[h])
      BY Zenon DEF Owned
    <3>2. QED
      BY <3>1, Zenon DEF Exclusive
  <2>4. TablesOK'
    BY Zenon DEF TablesOK, NetIndexOK, BridgeOK, NamedOK, EntriesOK, NetworksExist
  <2> QED BY <2>1, <2>2, <2>3, <2>4
<1>2. CASE \E k \in NetNames : NetworksCreate(k)
  BY <1>2, NetworksCreateInv
<1>3. ASSUME NEW h \in Handlers, Request(h) PROVE Inv'
  <2>1. ASSUME NEW n \in Names \cup {NoName}, NEW wanted \in Wanted, ContainerCreate(h, n, wanted)
        PROVE  Inv'
    BY <2>1, CreateInv
  <2>2. ASSUME NEW key \in ContainerKeys, Update(h, key) \/ ContainerDelete(h, key) PROVE Inv'
    BY <2>2, ContainerRequests
  <2>3. ASSUME NEW key \in ContainerKeys, NEW n \in Names \cup {NoName}, ContainerRename(h, key, n)
        PROVE  Inv'
    BY <2>3, ContainerRequests
  <2>4. ASSUME NEW key \in NetworkKeys,
               NetworksDelete(h, key) \/ NetworksConnect(h, key) \/ NetworksDisconnect(h, key)
        PROVE  Inv'
    BY <2>4, NetworkRequests
  <2>5. CASE NetworksPrune(h)
    BY <2>5, PruneRequests
  <2>6. QED
    BY <1>3, <2>1, <2>2, <2>3, <2>4, <2>5 DEF Request
<1>4. ASSUME NEW h \in Handlers, Proceed(h) PROVE Inv'
  BY <1>4, ResolveInv, SaveNewInv, CheckNameInv, AssignNameInv, SaveContainerInv, DropRecordInv,
     CheckUnusedInv, RemoveInv, PruneNextInv, FetchContainerInv, ConnectInv DEF Proceed
<1>5. QED
  BY <1>1, <1>2, <1>3, <1>4 DEF Next

(***************************************************************************)
(* The inductive invariant: the tables and the records requests hold agree *)
(* in every state.                                                         *)
(***************************************************************************)
THEOREM RecordsInv == Spec => []Inv
<1>1. Init => Inv
  BY InitInv
<1>2. Inv /\ [Next]_vars => Inv'
  BY NextInv
<1>3. QED
  BY <1>1, <1>2, PTL DEF Spec

(***************************************************************************)
(* The default network is always found by its name: NetworksDelete and     *)
(* NetworksPrune refuse every network with a predefined name, so the entry *)
(* of the name is only ever moved to another network of that name.         *)
(***************************************************************************)
THEOREM BridgeIsFound == Spec => []BridgeResolves
<1>1. Inv => BridgeResolves
  BY RecordsAssumption DEF Inv, TypeOK, TablesOK, NetIndexOK, BridgeOK, BridgeResolves, GetNetworkByNameOrID
<1>2. QED
  BY <1>1, RecordsInv, PTL

(***************************************************************************)
(* A container whose requests are done is found by its present name,       *)
(* whatever renames, saves and deletions raced.                            *)
(***************************************************************************)
THEOREM NamesAreFound == Spec => []NameResolves
<1>1. Inv => NameResolves
  <2> SUFFICES ASSUME Inv, NEW c \in ids, ~Held(c), name[c] # NoName
               PROVE  c \in GetContainer(name[c])
    BY DEF NameResolves
  <2>1. <<name[c], c>> \in byName
    BY DEF Inv, TablesOK, NamedOK, Held
  <2>2. name[c] \in Names /\ name[c] \notin ids
    BY RecordsAssumption, Zenon DEF Inv, TypeOK
  <2> DEFINE e == <<name[c], c>>
  <2>3. e[1] = name[c] /\ e[2] = c
    BY Zenon
  <2> HIDE DEF e
  <2>4. QED
    BY <2>1, <2>2, <2>3 DEF GetContainer, e
<1>2. QED
  BY <1>1, RecordsInv, PTL

(***************************************************************************)
(* The networks of a container exist, although the check that a network is *)
(* unused and its removal are two steps, as long as no two requests worked *)
(* on the container or the network at once.                                *)
(***************************************************************************)
THEOREM NetworksAreKept == Spec => []NetworksExist
<1>1. Inv => NetworksExist
  BY DEF Inv, TablesOK
<1>2. QED
  BY <1>1, RecordsInv, PTL
============================================================================
