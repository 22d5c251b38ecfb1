------------------------------ MODULE Workload ------------------------------
(***************************************************************************)
(* From a request to a workload: images are pulled or inspected, a         *)
(* container is created through the Docker or the libpod route, files are  *)
(* put into it before or after it starts, and a start turns its record     *)
(* into a Pod, ConfigMaps, Service ports and listeners.  What happens to   *)
(* the flags, the Pod and the other objects afterwards is in System; here  *)
(* the data is followed that System leaves out.                            *)
(***************************************************************************)
EXTENDS PodSpec

CONSTANTS
    Containers,
    Nothing,
    PolicyFiles,    \* image policy files the operator may configure
    Requests,       \* create requests
    Pulls,          \* images clients pull and inspect
    Config,         \* [defaults, account, ignoreMemory, preArchive, inspector]
    ImagePorts,     \* image -> the ports its configuration exposes (registry)
    Archives,       \* [file, base, data, single]: what clients put
    Targets,        \* the containers clients put archives into
    MaxArchives,    \* bound on archives queued for a container
    Template,       \* [requests, limits, shared, node, account, user]
    Ephemeral       \* ports the operating system hands out

(* Nobody asks for a port of those the operating system hands out: one of  *)
(* them could be chosen for another port of the container, and a mapped    *)
(* port wins.  The base of a file is a function of its name.               *)
ASSUME WorkloadAssumption ==
    /\ Nothing \notin Containers
    /\ Targets \subseteq Containers
    /\ MaxArchives \in Nat
    /\ \A r \in Requests : \A b \in r.bindings :
         b.host \in Nat /\ b.port \in Nat /\ b.host \notin Ephemeral
    /\ \A a, b \in Archives : a.file = b.file => a.base = b.base

VARIABLES
    policy,     \* the resolver
    file,       \* the policy file it was loaded from, or Nothing
    images,     \* records of the image table: <<name, ports>>
    con,        \* Containers -> its record, or Nothing
    phase,      \* Containers -> how far its start is
    resources,  \* the resource maps of containerTemplate
    pod,        \* Containers -> its Pod, or Nothing
    put,        \* Containers -> the archive request being served, or Nothing
    listeners,  \* pairs of container and host port
    inspected,  \* history: names whose record comes from ImageJSON
    late,       \* history: Containers -> archives queued after the Pod was built
    mixed       \* history: containers with ports chosen while another one had
                \* chosen but not opened its own, or started more than once

vars == <<policy, file, images, con, phase, resources, pod, put, listeners, inspected, late, mixed>>

Phases == {"none", "created", "deployed", "mapped", "running"}

Created(c) == phase[c] # "none"

TypeOK ==
    /\ phase \in [Containers -> Phases]
    /\ \A c \in Containers :
         /\ Created(c) <=> con[c] # Nothing
         /\ phase[c] \in {"deployed", "mapped", "running"} <=> pod[c] # Nothing
         /\ put[c] # Nothing => Created(c)
         /\ Created(c) => Len(con[c].archives) <= MaxArchives
    /\ listeners \subseteq Containers \X (Nat \cup Ephemeral)
    /\ \A l \in listeners : phase[l[1]] = "running"

(* LoadFile: an invalid file ends the start of the server.                 *)
Init ==
    /\ file \in {f \in PolicyFiles : ValidPolicy(f)} \cup {Nothing}
    /\ policy = IF file = Nothing THEN Passthrough ELSE Decode(file)
    /\ images = {}
    /\ con = [c \in Containers |-> Nothing]
    /\ phase = [c \in Containers |-> "none"]
    /\ resources = [requests |-> Template.requests, limits |-> Template.limits]
    /\ pod = [c \in Containers |-> Nothing]
    /\ put = [c \in Containers |-> Nothing]
    /\ listeners = {}
    /\ inspected = {}
    /\ late = [c \in Containers |-> {}]
    /\ mixed = {}

---------------------------------------------------------------------------
(* Images.                                                                 *)

Inspect(image) == IF Config.inspector THEN ImagePorts[image] ELSE {}

(* Variant: the reference of the request is inspected.                     *)
ImageCreateUnresolved(name) ==
    /\ Resolve(policy, name).ok
    /\ images' = images \cup {<<name, Inspect(name)>>}
    /\ UNCHANGED <<policy, file, con, phase, resources, pod, put, listeners, inspected, late, mixed>>

(* A pull.  Pulling twice adds a second record with the name.              *)
ImageCreate(name) ==
    /\ Resolve(policy, name).ok
    /\ images' = images \cup {<<name, Inspect(Resolve(policy, name).image)>>}
    /\ UNCHANGED <<policy, file, con, phase, resources, pod, put, listeners, inspected, late, mixed>>

(* An image that is not known is recorded as it is asked for.              *)
ImageJSON(name) ==
    /\ \A r \in images : r[1] # name
    /\ images' = images \cup {<<name, Inspect(name)>>}
    /\ inspected' = inspected \cup {name}
    /\ UNCHANGED <<policy, file, con, phase, resources, pod, put, listeners, late, mixed>>

(* GetImageByNameOrID finds any of the records with the name.              *)
KnownPorts(name) ==
    LET found == {r[2] : r \in {q \in images : q[1] = name}}
    IN  IF found = {} THEN {{}} ELSE found

---------------------------------------------------------------------------
(* Create.                                                                 *)

(* The settings both routes put into the labels.  What the request asks    *)
(* for in its body wins over its labels, and these over the configuration; *)
(* the service account is always the configured one.  The libpod route     *)
(* knows no memory and no cpu.                                             *)
RequestLabels(r) ==
    LET docker == r.api = "docker"
        user == IF r.user = Nothing THEN <<>> ELSE [user |-> r.user]
        memory == IF docker /\ r.memory # Nothing /\ ~Config.ignoreMemory
                  THEN [memory |-> r.memory] ELSE <<>>
        cpu == IF docker /\ r.cpu # Nothing THEN [cpu |-> r.cpu] ELSE <<>>
    IN  [account |-> Config.account] ++ user ++ memory ++ cpu ++ r.labels ++ Config.defaults

(* The record.  libpod turns mounts into binds and exposes what it maps.   *)
NewContainer(c, r, ports, hostPorts) ==
    [id |-> c, asked |-> r.image, image |-> Resolve(policy, r.image).image, env |-> r.env,
     labels |-> RequestLabels(r), secretEnv |-> r.secretEnv, secretFile |-> r.secretFile,
     exposed |-> IF r.api = "docker" THEN r.exposed ELSE {b.port : b \in r.bindings},
     imagePorts |-> ports, hostPorts |-> hostPorts, mapped |-> <<>>,
     binds |-> IF r.api = "docker" THEN r.binds ELSE r.mounts,
     mounts |-> IF r.api = "docker" THEN r.mounts ELSE {},
     archives |-> <<>>]

(* Variant: the Secret policy is left to the start.                        *)
ValidateContainerRequestSocket(co) == ~HasDockerSockBinding(co)

ValidateContainerRequest(co) == ~HasDockerSockBinding(co) /\ Validate(co)

(* A request that is refused leaves nothing.                               *)
ContainerCreate(c, r) ==
    /\ phase[c] = "none"
    /\ Resolve(policy, r.image).ok
    /\ \E ports \in KnownPorts(r.image), hostPorts \in HostPortMaps(r.bindings) :
         /\ ValidateContainerRequest(NewContainer(c, r, ports, hostPorts))
         /\ con' = [con EXCEPT ![c] = NewContainer(c, r, ports, hostPorts)]
    /\ phase' = [phase EXCEPT ![c] = "created"]
    /\ UNCHANGED <<policy, file, images, resources, pod, put, listeners, inspected, late, mixed>>

---------------------------------------------------------------------------
(* Start.                                                                  *)

(* The setters that only fail on a bad label; no object exists yet.        *)
SettingsOK(co) ==
    /\ GetNodeSelector(co, Template.node).ok
    /\ GetActiveDeadlineSeconds(co)
    /\ GetPodSecurityContext(co, Template.user).ok

(* The Pod of container co, whose resources are res and whose pre-archived *)
(* files have the contents in arch.                                        *)
PodOf(co, res, arch) ==
    [image |-> co.image,
     env |-> co.env,
     secretEnv |-> EnvVars(co.secretEnv, co.env).refs,
     secretFile |-> Files(co.secretFile).refs,
     pull |-> GetImagePullPolicy(co).policy,
     requests |-> res.requests, limits |-> res.limits,
     node |-> GetNodeSelector(co, Template.node).selector,
     account |-> GetServiceAccountName(co, Template.account),
     user |-> GetPodSecurityContext(co, Template.user).user,
     folders |-> IF HasVolumes(co) THEN GetVolumeFolders(co) ELSE {},
     files |-> IF HasVolumes(co) THEN GetVolumeFiles(co) ELSE {},
     archives |-> arch,
     services |-> <<>>,
     labels |-> getLabels(co, TemplateLabels),
     configMaps |-> [vf |-> HasVolumes(co) /\ GetVolumeFiles(co) # {},
                     pf |-> HasPreArchives(co)]]

(* container.Resources is a copy of the template's struct, with the same   *)
(* maps: a map the template has is written to, one it lacks is new.        *)
Written(res) ==
    [requests |-> IF "requests" \in Template.shared THEN res.requests ELSE resources.requests,
     limits |-> IF "limits" \in Template.shared THEN res.limits ELSE resources.limits]

(* Everything up to Pods.Create.  A bad label ends the start with an error *)
(* and the record stays as it is.                                          *)
StartContainer(c) ==
    /\ phase[c] = "created"
    /\ \E out \in ResourceOutcomes(con[c]), arch \in PreArchiveMounts(con[c]) :
         LET res == Overlay(resources, con[c], out.done)
             early == /\ GetImagePullPolicy(con[c]).ok
                      /\ EnvVars(con[c].secretEnv, con[c].env).ok
                      /\ Files(con[c].secretFile).ok
             done == early /\ out.ok /\ SettingsOK(con[c])
         IN  /\ resources' = IF early THEN Written(res) ELSE resources
             /\ pod' = [pod EXCEPT ![c] = IF done THEN PodOf(con[c], res, arch) ELSE Nothing]
             /\ phase' = [phase EXCEPT ![c] = IF done THEN "deployed" ELSE "created"]
    /\ UNCHANGED <<policy, file, images, con, put, listeners, inspected, late, mixed>>

(* Variant: a port is drawn without opening it.                            *)
FreeUnchecked == Ephemeral

(* The kernel picks free ports.                                            *)
Free == Ephemeral \ {l[2] : l \in listeners}

(* MapPort, for each pair of f: port of the container -> local port.       *)
MapPorts(mapped, f) == [s \in Range(f) |-> CHOOSE p \in DOMAIN f : f[p] = s] ++ mapped

(* The ports are all different; they are closed again when the function    *)
(* returns.                                                                *)
MapContainerTCPPorts(c) ==
    /\ phase[c] = "deployed"
    /\ \E f \in {g \in [Unmapped(con[c]) -> Free] : IsInjective(g)} :
         con' = [con EXCEPT ![c].mapped = MapPorts(@, f)]
    /\ phase' = [phase EXCEPT ![c] = "mapped"]
    /\ mixed' = IF \E d \in Containers \ {c} : phase[d] = "mapped"
                THEN mixed \cup {c} \cup {d \in Containers : phase[d] = "mapped"}
                ELSE mixed
    /\ UNCHANGED <<policy, file, images, resources, pod, put, listeners, inspected, late>>

(* createServices, CreateReverseProxies and the flags.  A port that        *)
(* another listener has is an error in the log.                            *)
Started(c) ==
    /\ phase[c] = "mapped"
    /\ \E ports \in ServicePortMaps(con[c]) :
         pod' = [pod EXCEPT ![c].services = ports]
    /\ listeners' = listeners \cup
         ({c} \X {s \in Published(con[c]) : \A l \in listeners : l[2] # s})
    /\ phase' = [phase EXCEPT ![c] = "running"]
    /\ UNCHANGED <<policy, file, images, con, resources, put, inspected, late, mixed>>

(* Stop: Pod and listeners go, the record stays, with its mapped ports.    *)
ContainerStop(c) ==
    /\ phase[c] = "running"
    /\ phase' = [phase EXCEPT ![c] = "created"]
    /\ pod' = [pod EXCEPT ![c] = Nothing]
    /\ listeners' = {l \in listeners : l[1] # c}
    /\ late' = [late EXCEPT ![c] = {}]
    /\ mixed' = mixed \cup {c}
    /\ UNCHANGED <<policy, file, images, con, resources, put, inspected>>

---------------------------------------------------------------------------
(* PutArchive.                                                             *)

(* The flags are read before the body.                                     *)
PutArchive(c, a) ==
    /\ c \in Targets
    /\ Created(c)
    /\ put[c] = Nothing
    /\ Len(con[c].archives) < MaxArchives
    /\ put' = [put EXCEPT ![c] =
         [archive |-> a, how |-> IF phase[c] # "running" /\ Config.preArchive /\ a.single
                                 THEN "queue" ELSE "copy"]]
    /\ UNCHANGED <<policy, file, images, con, phase, resources, pod, listeners, inspected, late, mixed>>

PutQueue(c) ==
    /\ put[c] # Nothing
    /\ put[c].how = "queue"
    /\ con' = [con EXCEPT ![c].archives = Append(@, put[c].archive)]
    /\ late' = [late EXCEPT ![c] = IF phase[c] = "created" THEN @ ELSE @ \cup {Len(con'[c].archives)}]
    /\ put' = [put EXCEPT ![c] = Nothing]
    /\ UNCHANGED <<policy, file, images, phase, resources, pod, listeners, inspected, mixed>>

Overwrite(files, a) == Entry(a.file, a.data) ++ files

(* The request has started the container, or found it started; tar writes  *)
(* over the file.  If the start failed, the request fails.                 *)
PutCopy(c) ==
    /\ put[c] # Nothing
    /\ put[c].how = "copy"
    /\ \/ /\ phase[c] = "running"
          /\ pod' = [pod EXCEPT ![c].archives = Overwrite(@, put[c].archive)]
       \/ /\ phase[c] = "created"
          /\ UNCHANGED pod
    /\ put' = [put EXCEPT ![c] = Nothing]
    /\ UNCHANGED <<policy, file, images, con, phase, resources, listeners, inspected, late, mixed>>

---------------------------------------------------------------------------

Next ==
    \/ \E name \in Pulls : ImageCreate(name) \/ ImageJSON(name)
    \/ \E c \in Containers :
         \/ \E r \in Requests : ContainerCreate(c, r)
         \/ StartContainer(c) \/ MapContainerTCPPorts(c) \/ Started(c) \/ ContainerStop(c)
         \/ (\E a \in Archives : PutArchive(c, a)) \/ PutQueue(c) \/ PutCopy(c)

Spec == Init /\ [][Next]_vars

---------------------------------------------------------------------------
(* Properties.                                                             *)

(***************************************************************************)
(* A Pod runs what the policy file says of the image that was asked for,   *)
(* in whatever spelling and through whichever route: the target of its     *)
(* rule, or, where the default is to allow, its normal form.  An image     *)
(* that is not listed under "deny" never gets a Pod.                       *)
(***************************************************************************)
ImagesFollowPolicy ==
    \A c \in Containers : pod[c] # Nothing /\ file # Nothing =>
        LET asked == Normalize(con[c].asked)
            rules == {r \in Range(file.rules) : Normalize(r.source) = asked}
        IN  IF rules = {} THEN file.action = "allow" /\ pod[c].image = asked
            ELSE \E r \in rules :
                   pod[c].image = IF r.target = NoTarget THEN asked ELSE Normalize(r.target)

(***************************************************************************)
(* The ports a container takes from its image are those of the image it    *)
(* runs, not of the one it was asked for, unless the record was made by an *)
(* image inspect, which looks at the name as it is.                        *)
(***************************************************************************)
ImagePortsFit ==
    \A c \in Containers : Created(c) /\ con[c].asked \notin inspected =>
        con[c].imagePorts \in {{}, Inspect(con[c].image)}

(***************************************************************************)
(* The labels a start checks a second time were settled by the create: a   *)
(* container that exists is never refused by the Secret policy when it     *)
(* starts.                                                                 *)
(***************************************************************************)
AcceptedIsAdmitted ==
    \A c \in Containers : Created(c) =>
        EnvVars(con[c].secretEnv, con[c].env).ok /\ Files(con[c].secretFile).ok

(***************************************************************************)
(* A Pod refers to Secrets of the allowlist only, and no variable of it is *)
(* defined both by the request and by a Secret.                            *)
(***************************************************************************)
SecretsAsConfigured ==
    \A c \in Containers : pod[c] # Nothing =>
        /\ \A ref \in pod[c].secretEnv \cup pod[c].secretFile : ref[2] \in AllowedSecrets
        /\ \A ref \in pod[c].secretEnv : ref[1] \notin pod[c].env

(***************************************************************************)
(* DeleteContainer, the exit handler and the reaper find objects by their  *)
(* labels.  No label of a request, of the defaults or of the Pod template  *)
(* hides a Pod from them, not even one that becomes the same key when it   *)
(* is made legal.                                                          *)
(***************************************************************************)
ObjectsAreFindable ==
    \A c \in Containers : pod[c] # Nothing =>
        /\ pod[c].labels["container-id"] = c
        /\ \A k \in DOMAIN SystemLabels : pod[c].labels[k] = SystemLabels[k]

(***************************************************************************)
(* A file that was accepted before the Pod was built is in the Pod, with   *)
(* the data of the last archive accepted by then, unless another accepted  *)
(* file has the same base name: both are items of one volume.  (One that   *)
(* is accepted while the start is under way waits for the next start.)     *)
(***************************************************************************)
QueuedFilesArrive ==
    \A c \in Containers : phase[c] \in {"deployed", "mapped"} =>
        LET early == DOMAIN con[c].archives \ late[c]
            Archive(i) == con[c].archives[i]
        IN  \A i \in early :
              /\ Archive(i).file \in DOMAIN pod[c].archives
              /\ (\A j \in early \ {i} : Archive(j).base = Archive(i).base =>
                      Archive(j).file = Archive(i).file /\ j < i) =>
                   pod[c].archives[Archive(i).file] = Archive(i).data

(***************************************************************************)
(* Every exposed port of a running container has a host port that inspect  *)
(* reports, and a port of its Services, unless two host ports of the       *)
(* request compete for one Service port.                                   *)
(***************************************************************************)
ExposedPortsServed ==
    \A c \in Containers : phase[c] = "running" =>
        \A p \in con[c].exposed :
            /\ \/ p \in Range(con[c].mapped)
               \/ \E s \in DOMAIN con[c].hostPorts : s > 0 /\ con[c].hostPorts[s] = p
            /\ \/ p \in Range(pod[c].services)
               \/ \E f, g \in ServicePortMaps(con[c]) : f # g

(***************************************************************************)
(* MapContainerTCPPorts gives its ports back before they are opened for    *)
(* good.  Still, a container that was started once, and did not choose     *)
(* ports while another one was between these two points, answers on every  *)
(* port it reports as mapped.                                              *)
(***************************************************************************)
MappedPortsAnswer ==
    \A c \in Containers \ mixed : phase[c] = "running" =>
        \A s \in DOMAIN con[c].mapped : <<c, s>> \in listeners

(***************************************************************************)
(* GetResourceRequirements returns "a k8s request/limits configuration     *)
(* based on the LabelRequestCPU and LabelRequestMemory labels set on the   *)
(* container": the requests and limits of a Pod are those of the template, *)
(* with its own labels over them.                                          *)
(***************************************************************************)
OwnResources ==
    \A c \in Containers : pod[c] # Nothing =>
        LET own == Overlay([requests |-> Template.requests, limits |-> Template.limits],
                           con[c], ResourceLabels(con[c]))
        IN  pod[c].requests = own.requests /\ pod[c].limits = own.limits
============================================================================
