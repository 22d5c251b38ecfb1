--------------------------- MODULE WorkloadProofs ---------------------------
(***************************************************************************)
(* The image policy and the Secret policy hold for the Pods, whatever the  *)
(* policy files, requests, images and containers are.                      *)
(***************************************************************************)
EXTENDS Workload, SequenceTheorems, TLAPS

(* The fields of a record and of a Pod that the policies decide about.     *)
RecordFields == {"asked", "image", "env", "secretEnv", "secretFile"}
PodFields == {"image", "env", "secretEnv", "secretFile"}

(* The fields that later sections are about.                               *)
DataFields == {"id", "exposed", "imagePorts", "hostPorts", "mapped", "archives"}
PodDataFields == {"labels", "services", "archives"}

(* What the create settled for the record co.                              *)
Admitted(co) ==
    /\ RecordFields \cup DataFields \subseteq DOMAIN co
    /\ Resolve(policy, co.asked).ok
    /\ co.image = Resolve(policy, co.asked).image
    /\ EnvVars(co.secretEnv, co.env).ok
    /\ Files(co.secretFile).ok

(* The Pod p was made from the record co.                                  *)
MadeFrom(p, co) ==
    /\ PodFields \cup PodDataFields \subseteq DOMAIN p
    /\ p.image = co.image
    /\ p.env = co.env
    /\ p.secretEnv = EnvVars(co.secretEnv, co.env).refs
    /\ p.secretFile = Files(co.secretFile).refs

(* The phases with a Pod.                                                  *)
Up == {"deployed", "mapped", "running"}

(* The inductive invariant.  The records are what links a Pod to the       *)
(* request: neither the policy nor these fields change afterwards.         *)
IInv ==
    /\ policy = IF file = Nothing THEN Passthrough ELSE Decode(file)
    /\ phase \in [Containers -> Phases]
    /\ DOMAIN con = Containers
    /\ DOMAIN pod = Containers
    /\ \A c \in Containers : Created(c) => Admitted(con[c])
    /\ \A c \in Containers :
         IF phase[c] \in Up THEN MadeFrom(pod[c], con[c]) ELSE pod[c] = Nothing

---------------------------------------------------------------------------
(* The policies.                                                           *)

(***************************************************************************)
(* Resolve of a loaded policy file: the target of a rule for the image, or *)
(* its normal form if there is none and the default is to allow.           *)
(***************************************************************************)
LEMMA ResolveDecoded ==
    ASSUME NEW f, NEW raw, Resolve(Decode(f), raw).ok,
           NEW asked, asked = Normalize(raw),
           NEW rules, rules = {r \in Range(f.rules) : Normalize(r.source) = asked}
    PROVE  IF rules = {} THEN f.action = "allow" /\ Resolve(Decode(f), raw).image = asked
           ELSE \E r \in rules : Resolve(Decode(f), raw).image =
                  IF r.target = NoTarget THEN asked ELSE Normalize(r.target)
  <1>1. CASE rules = {}
    <2>1. asked \notin DOMAIN Decode(f).rules
      BY <1>1, Zenon DEF Decode
    <2> QED BY <1>1, <2>1, Zenon DEF Resolve, Refused, Decode
  <1>2. CASE rules # {}
    <2>1. asked \in DOMAIN Decode(f).rules
      BY <1>2, Zenon DEF Decode
    <2>2. Resolve(Decode(f), raw).image = Decode(f).rules[asked]
      BY <2>1, Zenon DEF Resolve, Refused, Decode
    <2> DEFINE r == CHOOSE r \in Range(f.rules) : Normalize(r.source) = asked
    <2>3. r \in rules
      BY <1>2, Zenon
    <2>4. Decode(f).rules[asked] = IF r.target = NoTarget THEN asked ELSE Normalize(r.target)
      BY <2>1, <2>3 DEF Decode
    <2> QED BY <1>2, <2>2, <2>3, <2>4, Zenon
  <1> QED BY <1>1, <1>2, Zenon

(***************************************************************************)
(* EnvVars yields references to allowed Secrets, under new names.          *)
(***************************************************************************)
LEMMA EnvVarsAllowed ==
    ASSUME NEW secrets, NEW existing, EnvVars(secrets, existing).ok,
           NEW ref \in EnvVars(secrets, existing).refs
    PROVE  ref[2] \in AllowedSecrets /\ ref[1] \notin existing
  BY DEF EnvVars, Refused, parseReference

(***************************************************************************)
(* Files yields references to allowed Secrets.                             *)
(***************************************************************************)
LEMMA FilesAllowed ==
    ASSUME NEW secrets, Files(secrets).ok, NEW ref \in Files(secrets).refs
    PROVE  ref[2] \in AllowedSecrets
  BY DEF Files, Refused, parseReference

---------------------------------------------------------------------------
(* Steps.                                                                  *)

(***************************************************************************)
(* A new record is admitted: both routes resolve the image and validate    *)
(* the labels before they save it.                                         *)
(***************************************************************************)
LEMMA CreateKeepsIInv ==
    ASSUME IInv, NEW c \in Containers, NEW r \in Requests, ContainerCreate(c, r)
    PROVE  IInv'
  <1>1. PICK ports \in KnownPorts(r.image), hostPorts \in HostPortMaps(r.bindings) :
          /\ ValidateContainerRequest(NewContainer(c, r, ports, hostPorts))
          /\ con' = [con EXCEPT ![c] = NewContainer(c, r, ports, hostPorts)]
    BY Zenon DEF ContainerCreate
  <1> DEFINE co == NewContainer(c, r, ports, hostPorts)
  <1>2. /\ Resolve(policy, r.image).ok
        /\ phase[c] = "none"
        /\ phase' = [phase EXCEPT ![c] = "created"]
        /\ UNCHANGED <<policy, file, pod>>
    BY Zenon DEF ContainerCreate
  <1>3. Admitted(co)
    BY <1>1, <1>2, Zenon DEF Admitted, RecordFields, DataFields, NewContainer, ValidateContainerRequest, Validate
  <1>4. con'[c] = co /\ \A d \in Containers \ {c} : con'[d] = con[d]
    BY <1>1, Zenon DEF IInv
  <1> HIDE DEF co
  <1>5. \A d \in Containers : Created(d)' => Admitted(con[d])'
    BY <1>2, <1>3, <1>4, ZenonT(30) DEF IInv, Created, Admitted
  <1>6. \A d \in Containers : IF phase'[d] \in Up THEN MadeFrom(pod[d], con[d])' ELSE pod'[d] = Nothing
    BY <1>2, <1>4, Zenon DEF IInv, Up, MadeFrom
  <1> QED BY <1>1, <1>2, <1>5, <1>6, Zenon DEF IInv, Phases

(***************************************************************************)
(* A step that leaves the fields of the records alone, and of the Pods,    *)
(* keeps the invariant.                                                    *)
(***************************************************************************)
LEMMA SameFieldsKeepIInv ==
    ASSUME IInv, UNCHANGED <<policy, file>>,
           phase' \in [Containers -> Phases], DOMAIN con' = Containers, DOMAIN pod' = Containers,
           \A d \in Containers : Created(d)' <=> Created(d),
           \A d \in Containers : Created(d) =>
               /\ DOMAIN con'[d] = DOMAIN con[d]
               /\ \A x \in RecordFields : con'[d][x] = con[d][x],
           \A d \in Containers :
               IF phase'[d] \in Up
               THEN /\ phase[d] \in Up
                    /\ DOMAIN pod'[d] = DOMAIN pod[d]
                    /\ \A x \in PodFields : pod'[d][x] = pod[d][x]
               ELSE pod'[d] = Nothing
    PROVE  IInv'
  <1>1. \A d \in Containers : Created(d)' => Admitted(con[d])'
    BY DEF IInv, Admitted, RecordFields
  <1>2. \A d \in Containers : IF phase'[d] \in Up THEN MadeFrom(pod[d], con[d])' ELSE pod'[d] = Nothing
    BY DEF IInv, Created, Up, MadeFrom, RecordFields, PodFields
  <1> QED BY <1>1, <1>2, Zenon DEF IInv

(***************************************************************************)
(* A start makes a Pod from the record.                                    *)
(***************************************************************************)
LEMMA StartKeepsIInv ==
    ASSUME IInv, NEW c \in Containers, StartContainer(c) PROVE IInv'
  <1>1. /\ phase[c] = "created"
        /\ UNCHANGED <<policy, file, con>>
        /\ \E p, l : /\ pod' = [pod EXCEPT ![c] = p]
                     /\ phase' = [phase EXCEPT ![c] = l]
                     /\ \/ l = "created" /\ p = Nothing
                        \/ l = "deployed" /\ MadeFrom(p, con[c])
    <2>1. PICK out \in ResourceOutcomes(con[c]), arch \in PreArchiveMounts(con[c]) :
            \E done \in BOOLEAN :
              /\ pod' = [pod EXCEPT ![c] =
                   IF done THEN PodOf(con[c], Overlay(resources, con[c], out.done), arch) ELSE Nothing]
              /\ phase' = [phase EXCEPT ![c] = IF done THEN "deployed" ELSE "created"]
      BY Zenon DEF StartContainer, SettingsOK
    <2>2. \A res : MadeFrom(PodOf(con[c], res, arch), con[c])
      BY ZenonT(60) DEF MadeFrom, PodOf, PodFields, PodDataFields
    <2> QED BY <2>1, <2>2, Zenon DEF StartContainer
  <1>2. PICK p, l : /\ pod' = [pod EXCEPT ![c] = p]
                    /\ phase' = [phase EXCEPT ![c] = l]
                    /\ \/ l = "created" /\ p = Nothing
                       \/ l = "deployed" /\ MadeFrom(p, con[c])
    BY <1>1, Zenon
  <1>3. \A d \in Containers : Created(d)' => Admitted(con[d])'
    BY <1>1, <1>2, Zenon DEF IInv, Created, Admitted
  <1>4. \A d \in Containers : IF phase'[d] \in Up THEN MadeFrom(pod[d], con[d])' ELSE pod'[d] = Nothing
    BY <1>1, <1>2, Zenon DEF IInv, Up, MadeFrom
  <1> QED BY <1>1, <1>2, <1>3, <1>4, Zenon DEF IInv, Phases

(***************************************************************************)
(* Ports, Services, a stop and archives change other fields.               *)
(***************************************************************************)
LEMMA OthersKeepIInv ==
    ASSUME IInv, NEW c \in Containers,
           \/ MapContainerTCPPorts(c) \/ Started(c) \/ ContainerStop(c)
           \/ (\E a \in Archives : PutArchive(c, a)) \/ PutQueue(c) \/ PutCopy(c)
    PROVE  IInv'
  <1> USE SameFieldsKeepIInv DEF IInv, Created, Phases, Up, RecordFields, PodFields
  <1>1. CASE MapContainerTCPPorts(c)
    BY <1>1 DEF MapContainerTCPPorts
  <1>2. CASE Started(c)
    BY <1>2 DEF Started
  <1>3. CASE ContainerStop(c)
    BY <1>3, Zenon DEF ContainerStop
  <1>4. CASE \E a \in Archives : PutArchive(c, a)
    BY <1>4, Zenon DEF PutArchive
  <1>5. CASE PutQueue(c)
    <2>1. \E x : con' = [con EXCEPT ![c] = [@ EXCEPT !.archives = x]]
      BY <1>5, Zenon DEF PutQueue
    <2>2. UNCHANGED <<policy, file, phase, pod>>
      BY <1>5, Zenon DEF PutQueue
    <2> QED BY <2>1, <2>2
  <1>6. CASE PutCopy(c)
    <2>1. UNCHANGED <<policy, file, phase, con>>
      BY <1>6, Zenon DEF PutCopy
    <2>2. CASE UNCHANGED pod
      BY <2>1, <2>2, Zenon
    <2>3. CASE /\ phase[c] = "running"
               /\ \E x : pod' = [pod EXCEPT ![c] = [@ EXCEPT !.archives = x]]
      BY <2>1, <2>3
    <2> QED BY <1>6, <2>2, <2>3, Zenon DEF PutCopy
  <1> QED BY <1>1, <1>2, <1>3, <1>4, <1>5, <1>6, Zenon

(***************************************************************************)
(* The invariant holds in every state of every behaviour.                  *)
(***************************************************************************)
LEMMA Invariance == Spec => []IInv
  <1>1. Init => IInv
    BY Zenon DEF Init, IInv, Created, Phases, Up
  <1>2. IInv /\ [Next]_vars => IInv'
    <2> SUFFICES ASSUME IInv, [Next]_vars PROVE IInv'
      BY Zenon
    <2>1. CASE UNCHANGED vars
      BY <2>1, SameFieldsKeepIInv, Zenon DEF vars, IInv, Created
    <2>2. ASSUME NEW name \in Pulls, ImageCreate(name) \/ ImageJSON(name) PROVE IInv'
      BY <2>2, SameFieldsKeepIInv, Zenon DEF ImageCreate, ImageJSON, IInv, Created
    <2> QED BY <2>1, <2>2, CreateKeepsIInv, StartKeepsIInv, OthersKeepIInv, Zenon DEF Next
  <1> QED BY <1>1, <1>2, PTL DEF Spec

---------------------------------------------------------------------------

(***************************************************************************)
(* For any policy file, any images and any requests, whatever a Pod runs   *)
(* is what the file says of the image that was asked for.                  *)
(***************************************************************************)
THEOREM ImagesFollow == Spec => []ImagesFollowPolicy
  <1>1. IInv => ImagesFollowPolicy
    <2> SUFFICES ASSUME IInv PROVE ImagesFollowPolicy
      BY Zenon
    <2> DEFINE asked(c) == Normalize(con[c].asked)
               rules(c) == {r \in Range(file.rules) : Normalize(r.source) = asked(c)}
    <2>1. ASSUME NEW c \in Containers, pod[c] # Nothing, file # Nothing
          PROVE  IF rules(c) = {} THEN file.action = "allow" /\ pod[c].image = asked(c)
                 ELSE \E r \in rules(c) : pod[c].image =
                        IF r.target = NoTarget THEN asked(c) ELSE Normalize(r.target)
      <3>1. /\ policy = Decode(file)
            /\ Admitted(con[c])
            /\ MadeFrom(pod[c], con[c])
        BY <2>1, Zenon DEF IInv, Created, Up
      <3>2. /\ Resolve(Decode(file), con[c].asked).ok
            /\ pod[c].image = Resolve(Decode(file), con[c].asked).image
        BY <3>1, Zenon DEF Admitted, MadeFrom
      <3>3. PICK a, R : a = asked(c) /\ R = rules(c)
        BY Zenon
      <3>4. IF R = {} THEN file.action = "allow" /\ pod[c].image = a
            ELSE \E r \in R : pod[c].image = IF r.target = NoTarget THEN a ELSE Normalize(r.target)
        BY <3>2, <3>3, ResolveDecoded
      <3> QED BY <3>3, <3>4, Zenon
    <2> QED BY <2>1, Zenon DEF ImagesFollowPolicy
  <1> QED BY Invariance, <1>1, PTL

(***************************************************************************)
(* A start never refuses what the create accepted: the Secret policy gives *)
(* the same answer both times, since nothing changes what it looks at.     *)
(***************************************************************************)
THEOREM AcceptedAdmitted == Spec => []AcceptedIsAdmitted
  <1>1. IInv => AcceptedIsAdmitted
    BY Zenon DEF IInv, AcceptedIsAdmitted, Admitted
  <1> QED BY Invariance, <1>1, PTL

(***************************************************************************)
(* Pods refer to allowed Secrets only, for any allowlist and any bound on  *)
(* the number of references, and no variable has two definitions.          *)
(***************************************************************************)
THEOREM Secrets == Spec => []SecretsAsConfigured
  <1>1. IInv => SecretsAsConfigured
    <2> SUFFICES ASSUME IInv, NEW c \in Containers, pod[c] # Nothing
                 PROVE  /\ \A ref \in pod[c].secretEnv \cup pod[c].secretFile : ref[2] \in AllowedSecrets
                        /\ \A ref \in pod[c].secretEnv : ref[1] \notin pod[c].env
      BY Zenon DEF SecretsAsConfigured
    <2>1. MadeFrom(pod[c], con[c]) /\ Admitted(con[c])
      BY Zenon DEF IInv, Created, Up
    <2> QED BY <2>1, EnvVarsAllowed, FilesAllowed, Zenon DEF MadeFrom, Admitted
  <1> QED BY Invariance, <1>1, PTL

---------------------------------------------------------------------------
(* Labels and the ports of images.                                         *)

(***************************************************************************)
(* What is copied into a map comes first.                                  *)
(***************************************************************************)
LEMMA Over ==
    ASSUME NEW f, NEW g
    PROVE  /\ DOMAIN (f ++ g) = DOMAIN f \cup DOMAIN g
           /\ \A x \in DOMAIN f : (f ++ g)[x] = f[x]
           /\ \A x \in DOMAIN g \ DOMAIN f : (f ++ g)[x] = g[x]
  BY Zenon DEF ++

(***************************************************************************)
(* The labels getLabels sets last are there, whatever the others are.      *)
(***************************************************************************)
LEMMA LabelsFound ==
    ASSUME NEW co, NEW labels
    PROVE  /\ getLabels(co, labels)["container-id"] = co.id
           /\ \A k \in DOMAIN SystemLabels : getLabels(co, labels)[k] = SystemLabels[k]
  <1> DEFINE id == Entry("container-id", co.id)
             a == id ++ SystemLabels
             b == a ++ UserLabels(co)
             d == b ++ DefaultLabels
  <1>1. DOMAIN id = {"container-id"} /\ id["container-id"] = co.id
    BY Zenon DEF Entry
  <1> HIDE DEF id
  <1>2. /\ DOMAIN a = {"container-id"} \cup DOMAIN SystemLabels
        /\ a["container-id"] = co.id
        /\ \A k \in DOMAIN SystemLabels : a[k] = SystemLabels[k]
    <2>1. /\ DOMAIN a = DOMAIN id \cup DOMAIN SystemLabels
          /\ \A k \in DOMAIN id : a[k] = id[k]
          /\ \A k \in DOMAIN SystemLabels \ DOMAIN id : a[k] = SystemLabels[k]
      BY Over, Zenon
    <2> HIDE DEF a
    <2> QED BY <1>1, <2>1, LabelsAssumption, Zenon
  <1>3. getLabels(co, labels) = d ++ labels
    BY Zenon DEF getLabels, id
  <1> HIDE DEF a
  <1>4. DOMAIN a \subseteq DOMAIN b /\ \A k \in DOMAIN a : b[k] = a[k]
    BY Over, Zenon
  <1> HIDE DEF b
  <1>5. DOMAIN b \subseteq DOMAIN d /\ \A k \in DOMAIN b : d[k] = b[k]
    BY Over, Zenon
  <1> HIDE DEF d
  <1>6. \A k \in DOMAIN d : (d ++ labels)[k] = d[k]
    BY Over, Zenon
  <1> QED BY <1>2, <1>3, <1>4, <1>5, <1>6, Zenon

(* A record of an image that was pulled has the ports of the image the     *)
(* policy resolves its name to.                                            *)
PulledOK ==
    \A n, ports : <<n, ports>> \in images /\ n \notin inspected =>
        ports = Inspect(Resolve(policy, n).image)

(* The Pod p of container c is found by the labels of c.                   *)
Findable(p, c) ==
    /\ p.labels["container-id"] = c
    /\ \A k \in DOMAIN SystemLabels : p.labels[k] = SystemLabels[k]

(* Image records, records and Pods agree on ports and labels.              *)
LabelsInv ==
    /\ PulledOK
    /\ \A r \in images : r = <<r[1], r[2]>>
    /\ \A c \in Containers : Created(c) =>
         /\ con[c].id = c
         /\ con[c].asked \notin inspected => con[c].imagePorts \in {{}, Inspect(con[c].image)}
    /\ \A c \in Containers : phase[c] \in Up => Findable(pod[c], c)

(***************************************************************************)
(* A container takes the ports of a record with the name it asks for.      *)
(***************************************************************************)
LEMMA CreateKeepsLabels ==
    ASSUME IInv, LabelsInv, NEW c \in Containers, NEW r \in Requests, ContainerCreate(c, r)
    PROVE  LabelsInv'
  <1>1. PICK ports \in KnownPorts(r.image), hostPorts \in HostPortMaps(r.bindings) :
          con' = [con EXCEPT ![c] = NewContainer(c, r, ports, hostPorts)]
    BY Zenon DEF ContainerCreate
  <1>2. /\ phase[c] = "none"
        /\ phase' = [phase EXCEPT ![c] = "created"]
        /\ UNCHANGED <<policy, images, inspected, pod>>
    BY Zenon DEF ContainerCreate
  <1>3. /\ con'[c].id = c /\ con'[c].asked = r.image /\ con'[c].imagePorts = ports
        /\ con'[c].image = Resolve(policy, r.image).image
    BY <1>1, Zenon DEF IInv, NewContainer
  <1>4. r.image \notin inspected => ports \in {{}, Inspect(Resolve(policy, r.image).image)}
    <2>1. CASE ports = {}
      BY <2>1, Zenon
    <2>2. CASE \E q \in images : q[1] = r.image /\ q[2] = ports
      BY <2>2 DEF LabelsInv, PulledOK
    <2> QED BY <2>1, <2>2, Zenon DEF KnownPorts
  <1>5. \A d \in Containers \ {c} : con'[d] = con[d] /\ phase'[d] = phase[d]
    BY <1>1, <1>2, Zenon DEF IInv
  <1>6. \A d \in Containers : Created(d)' =>
          /\ con'[d].id = d
          /\ con'[d].asked \notin inspected' => con'[d].imagePorts \in {{}, Inspect(con'[d].image)}
    BY <1>2, <1>3, <1>4, <1>5, Zenon DEF LabelsInv, Created
  <1>7. \A d \in Containers : phase'[d] \in Up => Findable(pod[d], d)'
    BY <1>2, <1>5 DEF LabelsInv, Findable, IInv, Up
  <1>8. PulledOK' /\ \A q \in images' : q = <<q[1], q[2]>>
    BY <1>2, Zenon DEF LabelsInv, PulledOK
  <1> QED BY <1>6, <1>7, <1>8, Zenon DEF LabelsInv

(***************************************************************************)
(* A Pod gets its labels when it is made, and keeps them; the rest of the  *)
(* steps change neither these nor what a container took from its image.    *)
(***************************************************************************)
LEMMA SameLabels ==
    ASSUME IInv, LabelsInv, PulledOK', \A r \in images' : r = <<r[1], r[2]>>,
           inspected \subseteq inspected',
           \A d \in Containers : Created(d)' =>
               /\ Created(d)
               /\ \A x \in {"id", "asked", "imagePorts", "image"} : con'[d][x] = con[d][x],
           \A d \in Containers : phase'[d] \in Up =>
               \/ phase[d] \in Up /\ pod'[d].labels = pod[d].labels
               \/ Findable(pod[d], d)'
    PROVE  LabelsInv'
  <1>1. \A d \in Containers : Created(d)' =>
          /\ con'[d].id = d
          /\ con'[d].asked \notin inspected' => con'[d].imagePorts \in {{}, Inspect(con'[d].image)}
    BY Zenon DEF LabelsInv
  <1>2. \A d \in Containers : phase'[d] \in Up => Findable(pod[d], d)'
    BY DEF LabelsInv, Findable
  <1> QED BY <1>1, <1>2, Zenon DEF LabelsInv

(***************************************************************************)
(* A pull records the ports of the resolved image, an inspect marks the    *)
(* name it records.                                                        *)
(***************************************************************************)
LEMMA ImagesKeepLabels ==
    ASSUME IInv, LabelsInv, NEW n, ImageCreate(n) \/ ImageJSON(n)
    PROVE  LabelsInv'
  <1>1. UNCHANGED <<policy, con, phase, pod>>
    BY Zenon DEF ImageCreate, ImageJSON
  <1>2. PICK ports : images' = images \cup {<<n, ports>>}
    BY Zenon DEF ImageCreate, ImageJSON
  <1>3. inspected \subseteq inspected'
    BY Zenon DEF ImageCreate, ImageJSON
  <1>4. n \notin inspected' => ports = Inspect(Resolve(policy, n).image)
    <2>1. CASE ImageJSON(n)
      BY <2>1, Zenon DEF ImageJSON
    <2>2. CASE ImageCreate(n)
      <3>1. images' = images \cup {<<n, Inspect(Resolve(policy, n).image)>>}
        BY <2>2, Zenon DEF ImageCreate
      <3>2. <<n, ports>> \in images \/ ports = Inspect(Resolve(policy, n).image)
        BY <1>2, <3>1
      <3> QED BY <1>3, <3>2, Zenon DEF LabelsInv, PulledOK
    <2> QED BY <2>1, <2>2, Zenon
  <1>5. PulledOK'
    BY <1>1, <1>2, <1>3, <1>4, Zenon DEF LabelsInv, PulledOK, Inspect
  <1>6. \A r \in images' : r = <<r[1], r[2]>>
    BY <1>2 DEF LabelsInv
  <1> QED BY <1>1, <1>3, <1>5, <1>6, SameLabels, Zenon DEF Created

(* StartContainer labels the Pod it makes with the id of its record.       *)
LEMMA StartKeepsLabels ==
    ASSUME IInv, LabelsInv, NEW c \in Containers, StartContainer(c)
    PROVE  LabelsInv'
  <1>1. UNCHANGED <<policy, images, inspected, con>> /\ phase[c] = "created"
    BY Zenon DEF StartContainer
  <1>2. PICK out \in ResourceOutcomes(con[c]), arch \in PreArchiveMounts(con[c]) :
          \E done \in BOOLEAN :
            /\ pod' = [pod EXCEPT ![c] =
                 IF done THEN PodOf(con[c], Overlay(resources, con[c], out.done), arch) ELSE Nothing]
            /\ phase' = [phase EXCEPT ![c] = IF done THEN "deployed" ELSE "created"]
    BY Zenon DEF StartContainer, SettingsOK
  <1>3. \A res : PodOf(con[c], res, arch).labels = getLabels(con[c], TemplateLabels)
    BY Zenon DEF PodOf
  <1>4. con[c].id = c
    BY <1>1, Zenon DEF LabelsInv, Created
  <1>5. phase'[c] \in Up => Findable(pod[c], c)'
    <2>1. PICK res : phase'[c] \in Up => pod'[c] = PodOf(con[c], res, arch)
      BY <1>2, ZenonT(30) DEF Up, IInv
    <2>2. phase'[c] \in Up => pod'[c].labels = getLabels(con[c], TemplateLabels)
      BY <1>3, <2>1, Zenon
    <2> DEFINE labels == getLabels(con[c], TemplateLabels)
    <2>3. /\ labels["container-id"] = c
          /\ \A k \in DOMAIN SystemLabels : labels[k] = SystemLabels[k]
      BY <1>4, LabelsFound, Zenon
    <2> HIDE DEF labels
    <2> QED BY <2>2, <2>3, Zenon DEF Findable, labels
  <1>6. \A d \in Containers \ {c} : phase'[d] = phase[d] /\ pod'[d] = pod[d]
    BY <1>2, Zenon DEF IInv
  <1>7. \A d \in Containers : Created(d)' => Created(d)
    BY <1>1, <1>6, Zenon DEF Created
  <1>8. PulledOK' /\ \A r \in images' : r = <<r[1], r[2]>>
    BY <1>1, Zenon DEF LabelsInv, PulledOK
  <1> QED BY <1>1, <1>5, <1>6, <1>7, <1>8, SameLabels, Zenon

(* No other step makes a Pod, and none changes the id of a record.         *)
LEMMA OthersKeepLabels ==
    ASSUME IInv, LabelsInv, NEW c \in Containers,
           \/ MapContainerTCPPorts(c) \/ Started(c) \/ ContainerStop(c)
           \/ (\E a \in Archives : PutArchive(c, a)) \/ PutQueue(c) \/ PutCopy(c)
    PROVE  LabelsInv'
  <1>1. UNCHANGED <<policy, images, inspected>>
    BY Zenon DEF MapContainerTCPPorts, Started, ContainerStop, PutArchive, PutQueue, PutCopy
  <1>2. PulledOK' /\ \A r \in images' : r = <<r[1], r[2]>>
    BY <1>1, Zenon DEF LabelsInv, PulledOK
  <1> DEFINE Same == /\ \A d \in Containers : Created(d)' =>
                          /\ Created(d)
                          /\ \A x \in {"id", "asked", "imagePorts", "image"} : con'[d][x] = con[d][x]
                     /\ \A d \in Containers : phase'[d] \in Up =>
                          phase[d] \in Up /\ pod'[d].labels = pod[d].labels
  <1>3. Same
    <2> USE DEF IInv, Created, Phases, Up
    <2>1. CASE MapContainerTCPPorts(c)
      BY <2>1 DEF MapContainerTCPPorts
    <2>2. CASE Started(c)
      BY <2>2 DEF Started
    <2>3. CASE ContainerStop(c)
      BY <2>3, Zenon DEF ContainerStop
    <2>4. CASE \E a \in Archives : PutArchive(c, a)
      BY <2>4, Zenon DEF PutArchive
    <2>5. CASE PutQueue(c)
      <3>1. \E x : con' = [con EXCEPT ![c] = [@ EXCEPT !.archives = x]]
        BY <2>5, Zenon DEF PutQueue
      <3>2. UNCHANGED <<phase, pod>>
        BY <2>5, Zenon DEF PutQueue
      <3> QED BY <3>1, <3>2
    <2>6. CASE PutCopy(c)
      <3>1. UNCHANGED <<phase, con>>
        BY <2>6, Zenon DEF PutCopy
      <3>2. CASE UNCHANGED pod
        BY <3>1, <3>2, Zenon
      <3>3. CASE \E x : pod' = [pod EXCEPT ![c] = [@ EXCEPT !.archives = x]]
        BY <3>1, <3>3
      <3> QED BY <2>6, <3>2, <3>3, Zenon DEF PutCopy
    <2> QED BY <2>1, <2>2, <2>3, <2>4, <2>5, <2>6, Zenon
  <1> QED BY <1>1, <1>2, <1>3, SameLabels, Zenon

(* Every Pod that is up carries the labels its record is found by.         *)
LEMMA LabelsInvariance == Spec => []LabelsInv
  <1>1. Init => LabelsInv
    BY DEF Init, LabelsInv, PulledOK, Created, Up
  <1>2. IInv /\ LabelsInv /\ [Next]_vars => LabelsInv'
    <2> SUFFICES ASSUME IInv, LabelsInv, [Next]_vars PROVE LabelsInv'
      BY Zenon
    <2>1. CASE UNCHANGED vars
      BY <2>1, Zenon DEF vars, LabelsInv, PulledOK, Created, Findable
    <2> QED BY <2>1, CreateKeepsLabels, ImagesKeepLabels, StartKeepsLabels, OthersKeepLabels, Zenon DEF Next
  <1> QED BY <1>1, <1>2, Invariance, PTL DEF Spec

(***************************************************************************)
(* No label of a request, of the defaults or of the template hides a Pod   *)
(* from the lookups by container and by instance.                          *)
(***************************************************************************)
THEOREM ObjectsFindable == Spec => []ObjectsAreFindable
  <1>1. IInv /\ LabelsInv => ObjectsAreFindable
    BY Zenon DEF IInv, LabelsInv, ObjectsAreFindable, Findable
  <1> QED BY Invariance, LabelsInvariance, <1>1, PTL

(***************************************************************************)
(* A container takes its ports from the image it runs, for any policy and  *)
(* any registry, whatever order images are pulled and inspected in.        *)
(***************************************************************************)
THEOREM ImagePortsFitting == Spec => []ImagePortsFit
  <1>1. LabelsInv => ImagePortsFit
    BY Zenon DEF LabelsInv, ImagePortsFit
  <1> QED BY LabelsInvariance, <1>1, PTL

---------------------------------------------------------------------------
(* Files.                                                                  *)

(* The archives as, but for those in skip, are in files.                   *)
Arrived(as, skip, files) ==
    LET early == DOMAIN as \ skip
    IN  \A i \in early :
          /\ as[i].file \in DOMAIN files
          /\ (\A j \in early \ {i} : as[j].base = as[i].base => as[j].file = as[i].file /\ j < i) =>
               files[as[i].file] = as[i].data

(***************************************************************************)
(* What addPreArchives mounts: of the archives of one file the last, and   *)
(* of the files with one base name any.                                    *)
(***************************************************************************)
LEMMA MountsArrive ==
    ASSUME NEW co, co.archives \in Seq(Archives), NEW files \in PreArchiveMounts(co)
    PROVE  Arrived(co.archives, {}, files)
  <1> DEFINE as == co.archives
             data == GetPreArchiveFiles(co)
             Base(f) == (CHOOSE a \in Range(as) : a.file = f).base
  <1>1. as \in Seq(Archives) /\ DOMAIN as = 1 .. Len(as) /\ Len(as) \in Nat
    OBVIOUS
  <1>2. DOMAIN data = {as[i].file : i \in DOMAIN as}
    BY Zenon DEF GetPreArchiveFiles
  <1>3. PICK item \in [{Base(f) : f \in DOMAIN data} -> DOMAIN data] :
          /\ \A b \in DOMAIN item : Base(item[b]) = b
          /\ files = [f \in DOMAIN data |-> data[item[Base(f)]]]
    BY Zenon DEF PreArchiveMounts
  <1>4. \A i \in DOMAIN as : Base(as[i].file) = as[i].base
    <2> SUFFICES ASSUME NEW i \in DOMAIN as PROVE Base(as[i].file) = as[i].base
      BY Zenon
    <2> DEFINE a == CHOOSE a \in Range(as) : a.file = as[i].file
    <2>1. as[i] \in Range(as)
      BY Zenon DEF Range
    <2>2. a \in Range(as) /\ a.file = as[i].file
      BY <2>1, Zenon
    <2>3. a \in Archives /\ as[i] \in Archives
      BY <1>1, <2>2 DEF Range
    <2> QED BY <2>2, <2>3, WorkloadAssumption, Zenon
  <1> HIDE DEF Base
  <1>5. ASSUME NEW i \in DOMAIN as,
               \A j \in DOMAIN as \ {i} : as[j].base = as[i].base => as[j].file = as[i].file /\ j < i
        PROVE  data[as[i].file] = as[i].data /\ item[Base(as[i].file)] = as[i].file
    <2> DEFINE Last(k) == /\ as[k].file = as[i].file
                          /\ \A j \in k + 1 .. Len(as) : as[j].file # as[i].file
    <2>1. \A j \in DOMAIN as : as[j].file = as[i].file => as[j].base = as[i].base
      BY <1>4, Zenon
    <2>2. i \in Nat /\ \A j \in DOMAIN as : j \in Nat
      BY <1>1
    <2>3. Last(i)
      BY <1>1, <1>5, <2>1, <2>2
    <2>4. \A k \in DOMAIN as : Last(k) => k = i
      BY <1>1, <1>5, <2>1, <2>2, SMTT(30)
    <2>5. data[as[i].file] = as[CHOOSE k \in DOMAIN as : Last(k)].data
      BY <1>2, Zenon DEF GetPreArchiveFiles
    <2>6. data[as[i].file] = as[i].data
      <3> HIDE DEF Last
      <3> QED BY <2>3, <2>4, <2>5, Zenon
    <2> DEFINE g == item[Base(as[i].file)]
    <2>7. g \in DOMAIN data /\ Base(g) = Base(as[i].file)
      BY <1>2, <1>3, SMTT(30)
    <2>8. PICK j \in DOMAIN as : g = as[j].file
      BY <1>2, <2>7, Zenon
    <2>9. as[j].base = as[i].base
      BY <1>4, <2>7, <2>8, Zenon
    <2>10. g = as[i].file
      BY <1>5, <2>8, <2>9, Zenon
    <2> QED BY <2>6, <2>10, Zenon
  <1>6. \A i \in DOMAIN as : as[i].file \in DOMAIN files
    BY <1>2, <1>3, Zenon
  <1>7. ASSUME NEW i \in DOMAIN as,
               \A j \in DOMAIN as \ {i} : as[j].base = as[i].base => as[j].file = as[i].file /\ j < i
        PROVE  files[as[i].file] = as[i].data
    BY <1>2, <1>3, <1>5, <1>7, Zenon
  <1> HIDE DEF data, as
  <1>8. Arrived(as, {}, files)
    BY <1>6, <1>7, Zenon DEF Arrived
  <1> QED BY <1>8, Zenon DEF as

(* A Pod under construction has the files accepted before it was built.    *)
FilesInv ==
    /\ DOMAIN put = Containers /\ DOMAIN late = Containers
    /\ \A c \in Containers :
         /\ put[c] # Nothing => Created(c) /\ put[c].archive \in Archives
         /\ Created(c) => con[c].archives \in Seq(Archives)
         /\ phase[c] \notin Up => late[c] = {}
         /\ phase[c] \in {"deployed", "mapped"} => Arrived(con[c].archives, late[c], pod[c].archives)

(***************************************************************************)
(* An appended element comes after the others.                             *)
(***************************************************************************)
LEMMA Appended ==
    ASSUME NEW as \in Seq(Archives), NEW a \in Archives, NEW bs, bs = Append(as, a)
    PROVE  /\ \A i : i \in DOMAIN as <=> i \in DOMAIN bs /\ i # Len(bs)
           /\ \A i \in DOMAIN as : bs[i] = as[i]
  <1>1. Len(bs) = Len(as) + 1 /\ DOMAIN bs = 1 .. Len(bs)
    BY AppendProperties, LenProperties, Zenon
  <1>2. DOMAIN as = 1 .. Len(as) /\ Len(as) \in Nat
    BY LenProperties, Zenon
  <1>3. \A i \in 1 .. Len(as) : bs[i] = as[i]
    BY AppendProperties
  <1>4. \A n \in Nat : \A i : i \in 1 .. n <=> i \in 1 .. n + 1 /\ i # n + 1
    OBVIOUS
  <1>5. \A i : i \in 1 .. Len(as) <=> i \in 1 .. Len(as) + 1 /\ i # Len(as) + 1
    BY <1>2, <1>4, Zenon
  <1>6. \A i : i \in DOMAIN as <=> i \in DOMAIN bs /\ i # Len(bs)
    BY <1>1, <1>2, <1>5, Zenon
  <1> QED BY <1>2, <1>3, <1>6, Zenon

(***************************************************************************)
(* An archive that is queued when the Pod exists is a late one: what the   *)
(* others left in the Pod is as it was.                                    *)
(***************************************************************************)
LEMMA AppendKeepsArrived ==
    ASSUME NEW as \in Seq(Archives), NEW a \in Archives, NEW skip, NEW files, Arrived(as, skip, files)
    PROVE  Arrived(Append(as, a), skip \cup {Len(Append(as, a))}, files)
  <1> DEFINE bs == Append(as, a)
             early == DOMAIN as \ skip
             early2 == DOMAIN bs \ (skip \cup {Len(bs)})
  <1>1. bs = Append(as, a)
    BY Zenon
  <1> HIDE DEF bs
  <1>2. /\ \A i : i \in DOMAIN as <=> i \in DOMAIN bs /\ i # Len(bs)
        /\ \A i \in DOMAIN as : bs[i] = as[i]
    BY <1>1, Appended, ZenonT(30)
  <1>4. early2 = early
    BY <1>2, Zenon
  <1>5. \A i \in early : bs[i] = as[i]
    BY <1>2, Zenon
  <1>6. Arrived(bs, skip \cup {Len(bs)}, files)
    BY <1>4, <1>5, ZenonT(30) DEF Arrived
  <1> QED BY <1>6, Zenon DEF bs

(* PutArchive appends to the queue; a late archive is noted.               *)
LEMMA PutQueueKeepsFiles ==
    ASSUME IInv, FilesInv, NEW c \in Containers, PutQueue(c)
    PROVE  FilesInv'
  <1> DEFINE as == con[c].archives
             bs == Append(as, put[c].archive)
  <1>1. /\ con' = [con EXCEPT ![c].archives = bs]
        /\ late' = [late EXCEPT ![c] = IF phase[c] = "created" THEN @ ELSE @ \cup {Len(con'[c].archives)}]
        /\ put' = [put EXCEPT ![c] = Nothing]
        /\ UNCHANGED <<phase, pod>>
    BY Zenon DEF PutQueue
  <1>2. Created(c) /\ put[c].archive \in Archives /\ as \in Seq(Archives)
    BY Zenon DEF FilesInv, PutQueue
  <1>3. con'[c].archives = bs /\ bs \in Seq(Archives)
    BY <1>1, <1>2 DEF IInv, Admitted, DataFields
  <1>4. \A d \in Containers \ {c} : con'[d] = con[d] /\ late'[d] = late[d] /\ put'[d] = put[d]
    BY <1>1, Zenon DEF IInv, FilesInv
  <1>5. late'[c] = IF phase[c] \in Up THEN late[c] \cup {Len(bs)} ELSE late[c]
    BY <1>1, <1>2, <1>3, Zenon DEF IInv, FilesInv, Phases, Up, Created
  <1>6. phase[c] \in {"deployed", "mapped"} => Arrived(bs, late[c] \cup {Len(bs)}, pod[c].archives)
    BY <1>2, AppendKeepsArrived, Zenon DEF FilesInv
  <1> HIDE DEF bs, as
  <1>7. phase'[c] \in {"deployed", "mapped"} => Arrived(con'[c].archives, late'[c], pod'[c].archives)
    BY <1>1, <1>3, <1>5, <1>6, Zenon DEF Up
  <1>8. DOMAIN put' = Containers /\ DOMAIN late' = Containers /\ put'[c] = Nothing
    BY <1>1, Zenon DEF FilesInv
  <1> QED BY <1>1, <1>3, <1>4, <1>5, <1>7, <1>8, ZenonT(30) DEF FilesInv, Created

(***************************************************************************)
(* The other steps: a Pod that is made shows the archives so far, a copy   *)
(* waits until the container runs, and a stop forgets what was late.       *)
(***************************************************************************)
LEMMA SameFiles ==
    ASSUME IInv, FilesInv, DOMAIN put' = Containers, DOMAIN late' = Containers,
           \A d \in Containers :
             /\ put'[d] # Nothing => Created(d)' /\ put'[d].archive \in Archives
             /\ Created(d)' => \/ Created(d) /\ con'[d].archives = con[d].archives
                               \/ con'[d].archives = <<>>
             /\ phase'[d] \notin Up => late'[d] = {}
             /\ phase'[d] \in {"deployed", "mapped"} =>
                  \/ Arrived(con'[d].archives, late'[d], pod'[d].archives)
                  \/ /\ phase[d] \in {"deployed", "mapped"} /\ late'[d] = late[d]
                     /\ con'[d].archives = con[d].archives /\ pod'[d].archives = pod[d].archives
    PROVE  FilesInv'
  <1>1. <<>> \in Seq(Archives)
    OBVIOUS
  <1> QED BY <1>1, Zenon DEF FilesInv

(* A new container has an empty queue and no Pod.                          *)
LEMMA CreateKeepsFiles ==
    ASSUME IInv, FilesInv, NEW c \in Containers, NEW r \in Requests, ContainerCreate(c, r)
    PROVE  FilesInv'
  <1>1. PICK ports \in KnownPorts(r.image), hostPorts \in HostPortMaps(r.bindings) :
          con' = [con EXCEPT ![c] = NewContainer(c, r, ports, hostPorts)]
    BY Zenon DEF ContainerCreate
  <1>2. /\ phase[c] = "none" /\ phase' = [phase EXCEPT ![c] = "created"]
        /\ UNCHANGED <<pod, put, late>>
    BY Zenon DEF ContainerCreate
  <1>3. con'[c].archives = <<>> /\ \A d \in Containers \ {c} : con'[d] = con[d] /\ phase'[d] = phase[d]
    BY <1>1, <1>2, Zenon DEF IInv, NewContainer
  <1>4. phase'[c] = "created" /\ late[c] = {}
    BY <1>2, Zenon DEF IInv, FilesInv, Up
  <1> QED BY <1>2, <1>3, <1>4, SameFiles, Zenon DEF FilesInv, Created, Up

(* StartContainer gives the Pod every archive queued so far.               *)
LEMMA StartKeepsFiles ==
    ASSUME IInv, FilesInv, NEW c \in Containers, StartContainer(c)
    PROVE  FilesInv'
  <1>1. UNCHANGED <<con, put, late>> /\ phase[c] = "created"
    BY Zenon DEF StartContainer
  <1>2. PICK out \in ResourceOutcomes(con[c]), arch \in PreArchiveMounts(con[c]) :
          \E done \in BOOLEAN :
            /\ pod' = [pod EXCEPT ![c] =
                 IF done THEN PodOf(con[c], Overlay(resources, con[c], out.done), arch) ELSE Nothing]
            /\ phase' = [phase EXCEPT ![c] = IF done THEN "deployed" ELSE "created"]
    BY Zenon DEF StartContainer, SettingsOK
  <1>3. \A res : PodOf(con[c], res, arch).archives = arch
    BY Zenon DEF PodOf
  <1>4. late[c] = {} /\ con[c].archives \in Seq(Archives)
    BY <1>1, Zenon DEF FilesInv, Up, Created
  <1>5. Arrived(con[c].archives, {}, arch)
    BY <1>4, MountsArrive, Zenon
  <1>6. phase'[c] \in {"created", "deployed"} /\ (phase'[c] = "deployed" => pod'[c].archives = arch)
    BY <1>2, <1>3 DEF IInv
  <1>7. \A d \in Containers \ {c} : phase'[d] = phase[d] /\ pod'[d] = pod[d]
    BY <1>2, Zenon DEF IInv
  <1> QED BY <1>1, <1>4, <1>5, <1>6, <1>7, SameFiles, Zenon DEF FilesInv, Created, Up

(* The other steps leave the queue of a starting Pod alone.                *)
LEMMA OthersKeepFiles ==
    ASSUME IInv, FilesInv, NEW c \in Containers,
           \/ MapContainerTCPPorts(c) \/ Started(c) \/ ContainerStop(c)
           \/ (\E a \in Archives : PutArchive(c, a)) \/ PutCopy(c)
    PROVE  FilesInv'
  <1>1. CASE MapContainerTCPPorts(c)
    <2>1. \E x : con' = [con EXCEPT ![c] = [@ EXCEPT !.mapped = x]]
      BY <1>1, Zenon DEF MapContainerTCPPorts
    <2>2. \A d \in Containers : Created(d) => con'[d].archives = con[d].archives
      BY <2>1 DEF IInv
    <2>3. UNCHANGED <<pod, put, late>> /\ phase[c] = "deployed" /\ phase' = [phase EXCEPT ![c] = "mapped"]
      BY <1>1, Zenon DEF MapContainerTCPPorts
    <2> QED BY <2>2, <2>3, SameFiles, Zenon DEF FilesInv, Created, Up, IInv
  <1>2. CASE Started(c)
    <2>1. UNCHANGED <<con, put, late>> /\ phase[c] = "mapped" /\ phase' = [phase EXCEPT ![c] = "running"]
      BY <1>2, Zenon DEF Started
    <2>2. \A d \in Containers \ {c} : pod'[d] = pod[d]
      BY <1>2, Zenon DEF Started, IInv
    <2> QED BY <2>1, <2>2, SameFiles, Zenon DEF FilesInv, Created, Up, IInv
  <1>3. CASE ContainerStop(c)
    <2>1. /\ UNCHANGED <<con, put>> /\ phase[c] = "running" /\ phase' = [phase EXCEPT ![c] = "created"]
          /\ late' = [late EXCEPT ![c] = {}] /\ pod' = [pod EXCEPT ![c] = Nothing]
      BY <1>3, Zenon DEF ContainerStop
    <2> QED BY <2>1, SameFiles, Zenon DEF FilesInv, Created, Up, IInv
  <1>4. ASSUME NEW a \in Archives, PutArchive(c, a) PROVE FilesInv'
    <2>1. UNCHANGED <<con, phase, pod, late>> /\ Created(c)
      BY <1>4, Zenon DEF PutArchive
    <2>2. \E how : put' = [put EXCEPT ![c] = [archive |-> a, how |-> how]]
      BY <1>4, Zenon DEF PutArchive
    <2>3. /\ DOMAIN put' = Containers
          /\ \A d \in Containers : put'[d] # Nothing => Created(d) /\ put'[d].archive \in Archives
      <3>1. PICK how : put' = [put EXCEPT ![c] = [archive |-> a, how |-> how]]
        BY <2>2, Zenon
      <3>2. /\ DOMAIN put = Containers
            /\ \A d \in Containers : put[d] # Nothing => Created(d) /\ put[d].archive \in Archives
        BY Zenon DEF FilesInv
      <3> QED BY <2>1, <3>1, <3>2, Zenon
    <2> QED BY <2>1, <2>3, SameFiles, Zenon DEF FilesInv, Created
  <1>5. CASE PutCopy(c)
    <2>1. UNCHANGED <<con, phase, late>> /\ put' = [put EXCEPT ![c] = Nothing]
      BY <1>5, Zenon DEF PutCopy
    <2>2. UNCHANGED pod \/ (phase[c] = "running" /\ \A d \in Containers \ {c} : pod'[d] = pod[d])
      BY <1>5, Zenon DEF PutCopy, IInv
    <2> QED BY <2>1, <2>2, SameFiles, Zenon DEF FilesInv, Created
  <1> QED BY <1>1, <1>2, <1>3, <1>4, <1>5, Zenon

(* A starting Pod has every file queued before it was made.                *)
LEMMA FilesInvariance == Spec => []FilesInv
  <1>1. Init => FilesInv
    BY Zenon DEF Init, FilesInv, Created, Up
  <1>2. IInv /\ FilesInv /\ [Next]_vars => FilesInv'
    <2> SUFFICES ASSUME IInv, FilesInv, [Next]_vars PROVE FilesInv'
      BY Zenon
    <2>1. CASE UNCHANGED vars
      BY <2>1, Zenon DEF vars, FilesInv, Created
    <2>2. ASSUME NEW n \in Pulls, ImageCreate(n) \/ ImageJSON(n) PROVE FilesInv'
      BY <2>2, Zenon DEF ImageCreate, ImageJSON, FilesInv, Created
    <2> QED BY <2>1, <2>2, CreateKeepsFiles, StartKeepsFiles, OthersKeepFiles, PutQueueKeepsFiles, Zenon DEF Next
  <1> QED BY <1>1, <1>2, Invariance, PTL DEF Spec

(***************************************************************************)
(* A file accepted before the Pod was built is in the Pod, with the data   *)
(* of the last archive, for any number of archives in any order.           *)
(***************************************************************************)
THEOREM QueuedFiles == Spec => []QueuedFilesArrive
  <1>1. FilesInv => QueuedFilesArrive
    BY Zenon DEF FilesInv, QueuedFilesArrive, Arrived
  <1> QED BY FilesInvariance, <1>1, PTL

---------------------------------------------------------------------------
(* Ports.                                                                  *)

(* The ports of a record: those it was asked for with a host port of their *)
(* own, and those that MapContainerTCPPorts chose, all at once.            *)
RecordPortsOK(co) ==
    /\ \A s \in DOMAIN co.hostPorts : s \in Int /\ (s > 0 => s \notin Ephemeral)
    /\ DOMAIN co.mapped \subseteq Ephemeral
    /\ DOMAIN co.mapped = {} \/ Unmapped(co) = {}

(* A container that no other one got in the way of: its ports are chosen,  *)
(* free, and then its own.                                                 *)
AloneOK(c) ==
    /\ phase[c] \in {"created", "deployed"} => DOMAIN con[c].mapped = {}
    /\ phase[c] = "mapped" =>
         /\ \A d \in Containers \ {c} : phase[d] # "mapped"
         /\ \A s \in DOMAIN con[c].mapped : \A l \in listeners : l[2] # s
    /\ phase[c] = "running" => \A s \in DOMAIN con[c].mapped : <<c, s>> \in listeners

(* Records, Services and listeners agree on the ports.                     *)
PortsInv ==
    /\ \A c \in Containers : Created(c) => RecordPortsOK(con[c])
    /\ \A c \in Containers : phase[c] \in {"mapped", "running"} => Unmapped(con[c]) = {}
    /\ \A c \in Containers : phase[c] = "running" => pod[c].services \in ServicePortMaps(con[c])
    /\ \A c \in Containers \ mixed : AloneOK(c)

(* The fields the ports of a container depend on.                          *)
SamePorts(a, b) ==
    a.exposed = b.exposed /\ a.imagePorts = b.imagePorts /\ a.hostPorts = b.hostPorts /\ a.mapped = b.mapped

(* The ports of a record depend on these of its fields only.               *)
LEMMA PortsDepend ==
    ASSUME NEW a, NEW b, SamePorts(a, b)
    PROVE  /\ Unmapped(a) = Unmapped(b) /\ ServicePortMaps(a) = ServicePortMaps(b)
           /\ RecordPortsOK(a) = RecordPortsOK(b)
  <1>1. Unmapped(a) = Unmapped(b)
    BY Zenon DEF SamePorts, Unmapped
  <1>2. ServicePortMaps(a) = ServicePortMaps(b)
    <2> DEFINE Own(ports) == [p \in ports |-> p]
               Key(hp, k) == IF k < 0 THEN hp[k] ELSE k
               Host(hp) == {f \in [{Key(hp, k) : k \in DOMAIN hp} -> Range(hp)] :
                              \A s \in DOMAIN f : \E k \in DOMAIN hp : Key(hp, k) = s /\ hp[k] = f[s]}
               Maps(m, hp, e, i) == {m ++ h ++ Own(e) ++ Own(i) : h \in Host(hp)}
    <2>1. /\ ServicePortMaps(a) = Maps(a.mapped, a.hostPorts, a.exposed, a.imagePorts)
          /\ ServicePortMaps(b) = Maps(b.mapped, b.hostPorts, b.exposed, b.imagePorts)
      BY Zenon DEF ServicePortMaps
    <2> HIDE DEF Maps
    <2> QED BY <2>1, Zenon DEF SamePorts
  <1> QED BY <1>1, <1>2, Zenon DEF SamePorts, RecordPortsOK

(***************************************************************************)
(* GetServicePorts has every exposed port that is mapped, or bound to a    *)
(* host port, unless two host ports compete.                               *)
(***************************************************************************)
LEMMA PortServed ==
    ASSUME NEW co, RecordPortsOK(co), NEW services \in ServicePortMaps(co), NEW p,
           \/ p \in Range(co.mapped)
           \/ \E s \in DOMAIN co.hostPorts : s > 0 /\ co.hostPorts[s] = p
    PROVE  p \in Range(services) \/ \E f, g \in ServicePortMaps(co) : f # g
  <1> DEFINE Own(ports) == [q \in ports |-> q]
             Key(k) == IF k < 0 THEN co.hostPorts[k] ELSE k
             Host == {f \in [{Key(k) : k \in DOMAIN co.hostPorts} -> Range(co.hostPorts)] :
                        \A s \in DOMAIN f : \E k \in DOMAIN co.hostPorts :
                            Key(k) = s /\ co.hostPorts[k] = f[s]}
             Map(h) == co.mapped ++ h ++ Own(co.exposed) ++ Own(co.imagePorts)
  <1>1. ServicePortMaps(co) = {Map(h) : h \in Host}
    BY Zenon DEF ServicePortMaps
  <1>2. \A h : /\ DOMAIN co.mapped \cup DOMAIN h \subseteq DOMAIN Map(h)
               /\ \A s \in DOMAIN co.mapped : Map(h)[s] = co.mapped[s]
               /\ \A s \in DOMAIN h \ DOMAIN co.mapped : Map(h)[s] = h[s]
    <2> SUFFICES ASSUME NEW h
                 PROVE  /\ DOMAIN co.mapped \cup DOMAIN h \subseteq DOMAIN Map(h)
                        /\ \A s \in DOMAIN co.mapped : Map(h)[s] = co.mapped[s]
                        /\ \A s \in DOMAIN h \ DOMAIN co.mapped : Map(h)[s] = h[s]
      BY Zenon
    <2> HIDE DEF Own
    <2> DEFINE a == co.mapped ++ h
               b == a ++ Own(co.exposed)
    <2>1. /\ DOMAIN a = DOMAIN co.mapped \cup DOMAIN h
          /\ \A s \in DOMAIN co.mapped : a[s] = co.mapped[s]
          /\ \A s \in DOMAIN h \ DOMAIN co.mapped : a[s] = h[s]
      BY Over, ZenonT(30)
    <2> HIDE DEF a
    <2>2. DOMAIN a \subseteq DOMAIN b /\ \A s \in DOMAIN a : b[s] = a[s]
      BY Over, Zenon
    <2> HIDE DEF b
    <2>3. DOMAIN b \subseteq DOMAIN (b ++ Own(co.imagePorts)) /\ \A s \in DOMAIN b : (b ++ Own(co.imagePorts))[s] = b[s]
      BY Over, Zenon
    <2>4. Map(h) = b ++ Own(co.imagePorts)
      BY Zenon DEF a, b
    <2> HIDE DEF Map
    <2> QED BY <2>1, <2>2, <2>3, <2>4, Zenon
  <1> HIDE DEF Map, Own
  <1>3. PICK h \in Host : services = Map(h)
    BY <1>1, Zenon
  <1>4. CASE p \in Range(co.mapped)
    BY <1>2, <1>3, <1>4, Zenon DEF Range
  <1>5. ASSUME NEW s \in DOMAIN co.hostPorts, s > 0, co.hostPorts[s] = p
        PROVE  p \in Range(services) \/ \E f, g \in ServicePortMaps(co) : f # g
    <2>1. s \in Int /\ s \notin DOMAIN co.mapped /\ Key(s) = s
      BY <1>5, SMTT(30) DEF RecordPortsOK
    <2> HIDE DEF Key
    <2>2. s \in DOMAIN h /\ h \in [DOMAIN h -> Range(co.hostPorts)] /\ DOMAIN h = {Key(k) : k \in DOMAIN co.hostPorts}
      BY <2>1, Zenon
    <2> DEFINE h2 == [h EXCEPT ![s] = p]
    <2>3. h2 \in Host
      <3>1. p \in Range(co.hostPorts)
        BY <1>5, Zenon DEF Range
      <3>2. h2 \in [{Key(k) : k \in DOMAIN co.hostPorts} -> Range(co.hostPorts)]
        BY <2>2, <3>1, Zenon
      <3>3. \A t \in DOMAIN h2 : \E k \in DOMAIN co.hostPorts : Key(k) = t /\ co.hostPorts[k] = h2[t]
        BY <1>5, <2>1, <2>2, Zenon
      <3> QED BY <3>2, <3>3, Zenon
    <2>4. h2[s] = p /\ DOMAIN h2 = DOMAIN h
      BY <2>2, Zenon
    <2> HIDE DEF h2, Host
    <2>5. CASE h[s] = p
      BY <1>2, <1>3, <2>1, <2>2, <2>5, Zenon DEF Range
    <2>6. CASE h[s] # p
      <3>1. Map(h)[s] # Map(h2)[s]
        BY <1>2, <2>1, <2>2, <2>4, <2>6
      <3>2. Map(h) \in ServicePortMaps(co) /\ Map(h2) \in ServicePortMaps(co)
        BY <1>1, <1>3, <2>3, Zenon
      <3> QED BY <3>1, <3>2, Zenon
    <2> QED BY <2>5, <2>6, Zenon
  <1> QED BY <1>4, <1>5, Zenon

(***************************************************************************)
(* MapContainerTCPPorts leaves no exposed port unmapped, and takes free    *)
(* ports.                                                                  *)
(***************************************************************************)
LEMMA PortsChosen ==
    ASSUME NEW a, RecordPortsOK(a), NEW f \in [Unmapped(a) -> Free], IsInjective(f),
           NEW b, b.exposed = a.exposed, b.hostPorts = a.hostPorts, b.mapped = MapPorts(a.mapped, f)
    PROVE  /\ Unmapped(b) = {}
           /\ DOMAIN b.mapped \subseteq DOMAIN a.mapped \cup Free
  <1> DEFINE new == [s \in Range(f) |-> CHOOSE p \in DOMAIN f : f[p] = s]
  <1>1. b.mapped = new ++ a.mapped
    BY Zenon DEF MapPorts
  <1>2. DOMAIN new = Range(f) /\ Range(f) \subseteq Free /\ DOMAIN f = Unmapped(a)
    BY Zenon DEF Range
  <1>3. \A p \in DOMAIN f : f[p] \in DOMAIN new /\ new[f[p]] = p
    BY Zenon DEF Range, IsInjective
  <1> HIDE DEF new
  <1>4. /\ DOMAIN b.mapped = DOMAIN new \cup DOMAIN a.mapped
        /\ \A s \in DOMAIN new : b.mapped[s] = new[s]
        /\ \A s \in DOMAIN a.mapped \ DOMAIN new : b.mapped[s] = a.mapped[s]
    <2>1. /\ DOMAIN (new ++ a.mapped) = DOMAIN new \cup DOMAIN a.mapped
          /\ \A s \in DOMAIN new : (new ++ a.mapped)[s] = new[s]
          /\ \A s \in DOMAIN a.mapped \ DOMAIN new : (new ++ a.mapped)[s] = a.mapped[s]
      BY Over, ZenonT(30)
    <2> QED BY <1>1, <2>1, Zenon
  <1>5. \A p \in Unmapped(a) : p \in Range(b.mapped)
    BY <1>2, <1>3, <1>4, Zenon DEF Range
  <1>6. \A p \in Range(a.mapped) : p \in Range(b.mapped) \/ Unmapped(a) # {}
    <2> SUFFICES ASSUME NEW s \in DOMAIN a.mapped, Unmapped(a) = {} PROVE a.mapped[s] \in Range(b.mapped)
      BY Zenon DEF Range
    <2>1. DOMAIN new = {}
      BY <1>2, Zenon DEF Range
    <2> QED BY <1>4, <2>1, Zenon DEF Range
  <1>7. DOMAIN a.mapped = {} => Range(a.mapped) = {}
    BY Zenon DEF Range
  <1>8. Unmapped(b) = {}
    BY <1>5, <1>6, <1>7, Zenon DEF Unmapped, RecordPortsOK
  <1> QED BY <1>2, <1>4, <1>8, Zenon

(***************************************************************************)
(* The host ports of a request are never among those the system hands out. *)
(***************************************************************************)
LEMMA HostPortsFixed ==
    ASSUME NEW r \in Requests, NEW hp \in HostPortMaps(r.bindings), NEW s \in DOMAIN hp
    PROVE  s \in Int /\ (s > 0 => s \notin Ephemeral)
  <1>1. PICK b \in r.bindings : s = HostKey(b)
    BY Zenon DEF HostPortMaps
  <1>2. b.host \in Nat /\ b.port \in Nat /\ b.host \notin Ephemeral
    BY WorkloadAssumption, Zenon
  <1>3. CASE b.host = 0
    BY <1>1, <1>2, <1>3 DEF HostKey
  <1>4. CASE b.host # 0
    BY <1>1, <1>2, <1>4 DEF HostKey
  <1> QED BY <1>3, <1>4, Zenon

(***************************************************************************)
(* Steps that leave the ports of every record alone.                       *)
(***************************************************************************)
LEMMA SameKeepsPorts ==
    ASSUME IInv, PortsInv,
           \A d \in Containers : Created(d)' => Created(d) /\ SamePorts(con'[d], con[d]),
           \A d \in Containers :
               \/ phase'[d] = phase[d]
               \/ phase'[d] \in {"created", "deployed"} /\ (phase[d] \in {"created", "deployed"} \/ d \in mixed'),
           \A d \in Containers : phase'[d] = "running" => pod'[d].services = pod[d].services,
           mixed \subseteq mixed', listeners' \subseteq listeners,
           \A d \in Containers \ mixed' : \A s : <<d, s>> \in listeners => <<d, s>> \in listeners'
    PROVE  PortsInv'
  <1>1. \A d \in Containers : Created(d)' =>
          /\ RecordPortsOK(con[d])' /\ Unmapped(con[d])' = Unmapped(con[d])
          /\ ServicePortMaps(con[d])' = ServicePortMaps(con[d])
    <2> SUFFICES ASSUME NEW d \in Containers, Created(d)'
                 PROVE  /\ RecordPortsOK(con'[d]) /\ Unmapped(con'[d]) = Unmapped(con[d])
                        /\ ServicePortMaps(con'[d]) = ServicePortMaps(con[d])
      BY Zenon DEF RecordPortsOK, Unmapped, ServicePortMaps
    <2>1. SamePorts(con'[d], con[d]) /\ RecordPortsOK(con[d])
      BY Zenon DEF PortsInv
    <2> QED BY <2>1, PortsDepend, Zenon
  <1>2. \A d \in Containers : phase'[d] \in {"mapped", "running"} => Created(d)' /\ phase'[d] = phase[d]
    BY Zenon DEF Created
  <1>3. ASSUME NEW d \in Containers \ mixed' PROVE AloneOK(d)'
    <2>1. AloneOK(d)
      BY Zenon DEF PortsInv
    <2>2. \A e \in Containers : phase'[e] = "mapped" => phase[e] = "mapped"
      BY Zenon
    <2>3. CASE phase'[d] = phase[d]
      <3>1. phase[d] \in {"created", "deployed", "mapped", "running"} => con'[d].mapped = con[d].mapped
        BY <2>3, Zenon DEF Created, SamePorts
      <3> QED BY <2>1, <2>2, <2>3, <3>1, Zenon DEF AloneOK
    <2>4. CASE phase'[d] \in {"created", "deployed"} /\ phase[d] \in {"created", "deployed"}
      <3>1. con'[d].mapped = con[d].mapped
        BY <2>4, Zenon DEF Created, SamePorts
      <3> QED BY <2>1, <2>4, <3>1, Zenon DEF AloneOK
    <2> QED BY <2>3, <2>4, Zenon
  <1> QED BY <1>1, <1>2, <1>3, Zenon DEF PortsInv

(* A new record has mapped no port yet.                                    *)
LEMMA CreateKeepsPorts ==
    ASSUME IInv, PortsInv, NEW c \in Containers, NEW r \in Requests, ContainerCreate(c, r)
    PROVE  PortsInv'
  <1>1. PICK ports \in KnownPorts(r.image), hp \in HostPortMaps(r.bindings) :
          con' = [con EXCEPT ![c] = NewContainer(c, r, ports, hp)]
    BY Zenon DEF ContainerCreate
  <1>2. /\ phase[c] = "none" /\ phase' = [phase EXCEPT ![c] = "created"]
        /\ UNCHANGED <<pod, listeners, mixed>>
    BY Zenon DEF ContainerCreate
  <1>3. con'[c].mapped = <<>> /\ con'[c].hostPorts = hp
    BY <1>1, Zenon DEF IInv, NewContainer
  <1>4. DOMAIN con'[c].mapped = {}
    BY <1>3
  <1>5. RecordPortsOK(con'[c])
    BY <1>3, <1>4, HostPortsFixed, Zenon DEF RecordPortsOK
  <1>6. \A d \in Containers \ {c} : con'[d] = con[d] /\ phase'[d] = phase[d]
    BY <1>1, <1>2, Zenon DEF IInv
  <1>7. phase'[c] = "created"
    BY <1>2, Zenon DEF IInv
  <1>8. \A d \in Containers : Created(d)' => RecordPortsOK(con[d])'
    <2> SUFFICES ASSUME NEW d \in Containers, Created(d)' PROVE RecordPortsOK(con'[d])
      BY Zenon DEF RecordPortsOK, Unmapped
    <2> QED BY <1>5, <1>6, Zenon DEF PortsInv, Created
  <1>9. \A d \in Containers : phase'[d] \in {"mapped", "running"} => Unmapped(con[d])' = {}
    BY <1>6, <1>7, Zenon DEF PortsInv, Unmapped
  <1>10. \A d \in Containers : phase'[d] = "running" => pod'[d].services \in ServicePortMaps(con'[d])
    BY <1>2, <1>6, <1>7, Zenon DEF PortsInv
  <1>11. ASSUME NEW d \in Containers \ mixed' PROVE AloneOK(d)'
    BY <1>2, <1>4, <1>6, <1>7, ZenonT(30) DEF PortsInv, AloneOK
  <1> QED BY <1>8, <1>9, <1>10, <1>11, Zenon DEF PortsInv, ServicePortMaps

(* MapContainerTCPPorts gives every port of the record a host port.        *)
LEMMA MapKeepsPorts ==
    ASSUME IInv, PortsInv, NEW c \in Containers, MapContainerTCPPorts(c)
    PROVE  PortsInv'
  <1>1. PICK f \in [Unmapped(con[c]) -> Free] :
          /\ IsInjective(f)
          /\ con' = [con EXCEPT ![c].mapped = MapPorts(@, f)]
    BY Zenon DEF MapContainerTCPPorts
  <1>2. /\ phase[c] = "deployed" /\ phase' = [phase EXCEPT ![c] = "mapped"]
        /\ UNCHANGED <<pod, listeners>>
        /\ mixed' = IF \E d \in Containers \ {c} : phase[d] = "mapped"
                    THEN mixed \cup {c} \cup {d \in Containers : phase[d] = "mapped"}
                    ELSE mixed
    BY Zenon DEF MapContainerTCPPorts
  <1>3. \A d \in Containers \ {c} : con'[d] = con[d] /\ phase'[d] = phase[d]
    BY <1>1, <1>2, Zenon DEF IInv
  <1>4. phase'[c] = "mapped"
    BY <1>2, Zenon DEF IInv
  <1>5. /\ con'[c].exposed = con[c].exposed /\ con'[c].hostPorts = con[c].hostPorts
        /\ con'[c].mapped = MapPorts(con[c].mapped, f)
    BY <1>1, <1>2, Zenon DEF IInv, Created, Admitted, DataFields
  <1>6. RecordPortsOK(con[c])
    BY <1>2, Zenon DEF PortsInv, Created
  <1>7. /\ Unmapped(con'[c]) = {}
        /\ DOMAIN con'[c].mapped \subseteq DOMAIN con[c].mapped \cup Free
    <2> DEFINE co == con'[c]
    <2>1. co.exposed = con[c].exposed /\ co.hostPorts = con[c].hostPorts /\ co.mapped = MapPorts(con[c].mapped, f)
      BY <1>5, Zenon
    <2> HIDE DEF co
    <2>2. Unmapped(co) = {} /\ DOMAIN co.mapped \subseteq DOMAIN con[c].mapped \cup Free
      BY <1>1, <1>6, <2>1, PortsChosen, Zenon
    <2> QED BY <2>2, Zenon DEF co
  <1>8. RecordPortsOK(con'[c])
    BY <1>5, <1>6, <1>7, Zenon DEF RecordPortsOK, Free
  <1>9. \A d \in Containers : Created(d)' => RecordPortsOK(con[d])'
    <2> SUFFICES ASSUME NEW d \in Containers, Created(d)' PROVE RecordPortsOK(con'[d])
      BY Zenon DEF RecordPortsOK, Unmapped
    <2> QED BY <1>3, <1>8, Zenon DEF PortsInv, Created
  <1>10. \A d \in Containers : phase'[d] \in {"mapped", "running"} => Unmapped(con'[d]) = {}
    BY <1>3, <1>7, Zenon DEF PortsInv
  <1>11. \A d \in Containers : phase'[d] = "running" => pod'[d].services \in ServicePortMaps(con'[d])
    BY <1>2, <1>3, <1>4, Zenon DEF PortsInv
  <1>12. ASSUME NEW d \in Containers \ mixed' PROVE AloneOK(d)'
    <2>1. d \notin mixed /\ AloneOK(d)
      BY <1>2, Zenon DEF PortsInv
    <2>2. CASE d = c
      <3>1. \A e \in Containers \ {c} : phase[e] # "mapped"
        BY <1>2, <2>2, Zenon
      <3>2. DOMAIN con'[c].mapped \subseteq Free
        BY <1>2, <1>7, <2>1, <2>2, Zenon DEF AloneOK
      <3>3. \A s \in Free : \A l \in listeners : l[2] # s
        BY Zenon DEF Free
      <3> QED BY <1>2, <1>3, <1>4, <2>2, <3>1, <3>2, <3>3, Zenon DEF AloneOK
    <2>3. CASE d # c
      <3>1. phase[d] # "mapped"
        BY <1>2, <2>3, Zenon
      <3> QED BY <1>2, <1>3, <2>1, <2>3, <3>1, Zenon DEF AloneOK
    <2> QED BY <2>2, <2>3, Zenon
  <1> QED BY <1>9, <1>10, <1>11, <1>12, Zenon DEF PortsInv, Unmapped, ServicePortMaps

(* Started puts the container up with the ports mapped before.             *)
LEMMA StartedKeepsPorts ==
    ASSUME IInv, PortsInv, NEW c \in Containers, Started(c)
    PROVE  PortsInv'
  <1>1. /\ phase[c] = "mapped" /\ phase' = [phase EXCEPT ![c] = "running"]
        /\ listeners' = listeners \cup
             ({c} \X {s \in Published(con[c]) : \A l \in listeners : l[2] # s})
        /\ UNCHANGED <<con, mixed>>
    BY Zenon DEF Started
  <1>2. PICK ports \in ServicePortMaps(con[c]) : pod' = [pod EXCEPT ![c].services = ports]
    BY Zenon DEF Started
  <1>3. \A d \in Containers \ {c} : phase'[d] = phase[d] /\ pod'[d] = pod[d]
    BY <1>1, <1>2, Zenon DEF IInv
  <1>4. phase'[c] = "running" /\ pod'[c].services = ports
    BY <1>1, <1>2, Zenon DEF IInv, MadeFrom, PodDataFields, Up
  <1>5. \A d \in Containers : Created(d)' => RecordPortsOK(con[d])'
    BY <1>1, <1>3, Zenon DEF PortsInv, RecordPortsOK, Unmapped, Created
  <1>6. \A d \in Containers : phase'[d] \in {"mapped", "running"} => Unmapped(con'[d]) = {}
    BY <1>1, <1>3, Zenon DEF PortsInv
  <1>7. \A d \in Containers : phase'[d] = "running" => pod'[d].services \in ServicePortMaps(con'[d])
    BY <1>1, <1>3, <1>4, Zenon DEF PortsInv
  <1>8. ASSUME NEW d \in Containers \ mixed' PROVE AloneOK(d)'
    <2>1. d \notin mixed /\ AloneOK(d)
      BY <1>1, Zenon DEF PortsInv
    <2>2. CASE d = c
      <3>1. \A s \in DOMAIN con[c].mapped : s \in Published(con[c]) /\ \A l \in listeners : l[2] # s
        BY <1>1, <2>1, <2>2, Zenon DEF AloneOK, Published
      <3>2. \A s \in DOMAIN con[c].mapped : <<c, s>> \in listeners'
        BY <1>1, <3>1, Zenon
      <3> QED BY <1>1, <1>4, <2>2, <3>2, Zenon DEF AloneOK
    <2>3. CASE d # c
      <3>1. phase[d] # "mapped"
        BY <1>1, <2>1, <2>3, Zenon DEF AloneOK
      <3> QED BY <1>1, <1>3, <2>1, <2>3, <3>1, Zenon DEF AloneOK
    <2> QED BY <2>2, <2>3, Zenon
  <1> QED BY <1>5, <1>6, <1>7, <1>8, Zenon DEF PortsInv, Unmapped, ServicePortMaps

(* The other steps leave the ports of a started container alone.           *)
LEMMA OthersKeepPorts ==
    ASSUME IInv, PortsInv, NEW c \in Containers,
           \/ StartContainer(c) \/ ContainerStop(c)
           \/ (\E a \in Archives : PutArchive(c, a)) \/ PutQueue(c) \/ PutCopy(c)
    PROVE  PortsInv'
  <1>1. CASE StartContainer(c)
    <2>1. UNCHANGED <<con, listeners, mixed>> /\ phase[c] = "created"
      BY <1>1, Zenon DEF StartContainer
    <2>2. \E p, l : /\ pod' = [pod EXCEPT ![c] = p] /\ phase' = [phase EXCEPT ![c] = l]
                    /\ l \in {"created", "deployed"}
      BY <1>1, Zenon DEF StartContainer
    <2> QED BY <2>1, <2>2, SameKeepsPorts, Zenon DEF IInv, Created, SamePorts
  <1>2. CASE ContainerStop(c)
    <2>1. /\ UNCHANGED con /\ phase[c] = "running" /\ phase' = [phase EXCEPT ![c] = "created"]
          /\ pod' = [pod EXCEPT ![c] = Nothing] /\ mixed' = mixed \cup {c}
          /\ listeners' = {l \in listeners : l[1] # c}
      BY <1>2, Zenon DEF ContainerStop
    <2>2. \A d \in Containers \ mixed' : \A s : <<d, s>> \in listeners => <<d, s>> \in listeners'
      BY <2>1, Zenon
    <2> QED BY <2>1, <2>2, SameKeepsPorts, Zenon DEF IInv, Created, SamePorts
  <1>3. CASE \E a \in Archives : PutArchive(c, a)
    <2>1. UNCHANGED <<con, phase, pod, listeners, mixed>>
      BY <1>3, Zenon DEF PutArchive
    <2> QED BY <2>1, SameKeepsPorts, Zenon DEF IInv, Created, SamePorts
  <1>4. CASE PutQueue(c)
    <2>1. UNCHANGED <<phase, pod, listeners, mixed>>
      BY <1>4, Zenon DEF PutQueue
    <2>2. \E x : con' = [con EXCEPT ![c] = [@ EXCEPT !.archives = x]]
      BY <1>4, Zenon DEF PutQueue
    <2>3. \A d \in Containers : SamePorts(con'[d], con[d])
      BY <2>2 DEF IInv, SamePorts
    <2> QED BY <2>1, <2>3, SameKeepsPorts, Zenon DEF IInv, Created
  <1>5. CASE PutCopy(c)
    <2>1. UNCHANGED <<con, phase, listeners, mixed>>
      BY <1>5, Zenon DEF PutCopy
    <2>2. UNCHANGED pod \/ \E x : pod' = [pod EXCEPT ![c] = [@ EXCEPT !.archives = x]]
      BY <1>5, Zenon DEF PutCopy
    <2>3. ASSUME NEW d \in Containers, phase[d] = "running" PROVE pod'[d].services = pod[d].services
      <3>1. "services" \in DOMAIN pod[d]
        BY <2>3, Zenon DEF IInv, Up, MadeFrom, PodDataFields
      <3> QED BY <2>2, <3>1 DEF IInv
    <2> QED BY <2>1, <2>3, SameKeepsPorts, Zenon DEF IInv, Created, SamePorts
  <1> QED BY <1>1, <1>2, <1>3, <1>4, <1>5, Zenon

(* A started container has its ports mapped and served.                    *)
LEMMA PortsInvariance == Spec => []PortsInv
  <1>1. Init => PortsInv
    BY Zenon DEF Init, PortsInv, Created, AloneOK
  <1>2. IInv /\ PortsInv /\ [Next]_vars => PortsInv'
    <2> SUFFICES ASSUME IInv, PortsInv, [Next]_vars PROVE PortsInv'
      BY Zenon
    <2>1. CASE UNCHANGED vars
      BY <2>1, SameKeepsPorts, Zenon DEF vars, IInv, Created, SamePorts
    <2>2. ASSUME NEW n \in Pulls, ImageCreate(n) \/ ImageJSON(n) PROVE PortsInv'
      BY <2>2, SameKeepsPorts, Zenon DEF ImageCreate, ImageJSON, IInv, Created, SamePorts
    <2> QED BY <2>1, <2>2, CreateKeepsPorts, MapKeepsPorts, StartedKeepsPorts, OthersKeepPorts, Zenon DEF Next
  <1> QED BY <1>1, <1>2, Invariance, PTL DEF Spec

(***************************************************************************)
(* A container whose ports were chosen while no other start was between    *)
(* choosing and opening answers on each of them: what was free when it was *)
(* chosen is free when it is opened, and stays its own.                    *)
(***************************************************************************)
THEOREM MappedAnswer == Spec => []MappedPortsAnswer
  <1>1. PortsInv => MappedPortsAnswer
    BY Zenon DEF PortsInv, AloneOK, MappedPortsAnswer
  <1> QED BY PortsInvariance, <1>1, PTL

(***************************************************************************)
(* The exposed ports of a running container have host ports, and ports of  *)
(* the Services, for any bindings.                                         *)
(***************************************************************************)
THEOREM ExposedServed == Spec => []ExposedPortsServed
  <1>1. PortsInv => ExposedPortsServed
    <2> SUFFICES ASSUME PortsInv, NEW c \in Containers, phase[c] = "running", NEW p \in con[c].exposed
                 PROVE  /\ \/ p \in Range(con[c].mapped)
                           \/ \E s \in DOMAIN con[c].hostPorts : s > 0 /\ con[c].hostPorts[s] = p
                        /\ \/ p \in Range(pod[c].services)
                           \/ \E f, g \in ServicePortMaps(con[c]) : f # g
      BY Zenon DEF ExposedPortsServed
    <2>1. /\ RecordPortsOK(con[c]) /\ Unmapped(con[c]) = {}
          /\ pod[c].services \in ServicePortMaps(con[c])
      BY Zenon DEF PortsInv, Created
    <2>2. \/ p \in Range(con[c].mapped)
          \/ \E s \in DOMAIN con[c].hostPorts : s > 0 /\ con[c].hostPorts[s] = p
      BY <2>1, Zenon DEF Unmapped
    <2> QED BY <2>1, <2>2, PortServed, Zenon
  <1> QED BY PortsInvariance, <1>1, PTL
============================================================================
