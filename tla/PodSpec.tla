------------------------------ MODULE PodSpec ------------------------------
(***************************************************************************)
(* From the record of a container to its Pod: the getters of               *)
(* internal/model/types/container.go and the part of startContainer        *)
(* (internal/backend/deploy.go) that fills in the Pod.                     *)
(*                                                                         *)
(* A container is a record.  labels maps label names to values already     *)
(* told apart the way the getters parse them: a resource label is          *)
(* [parts, request, limit] with 0 for an empty part, a user                *)
(* [kind, id], a node selector [wellFormed, pairs], a deadline             *)
(* [number, seconds].  The labels with a Secret prefix are in secretEnv    *)
(* and secretFile.  Functions are Go maps.                                 *)
(***************************************************************************)
EXTENDS Policies, Integers, TLC

CONSTANTS
    KubernetesKey,   \* label name -> toKubernetesKey of it
    NoKey,           \* ... of a name without a legal character
    SystemLabels,    \* config.SystemLabels
    DefaultLabels,   \* config.DefaultLabels
    TemplateLabels   \* labels of the Pod template

(* container-id is no key of the map literal in config/kubernetes.go.      *)
ASSUME LabelsAssumption == "container-id" \notin DOMAIN SystemLabels

(* A map with one entry, and the map g after f is copied into it.          *)
Entry(k, v) == [x \in {k} |-> v]

f ++ g == [x \in DOMAIN f \cup DOMAIN g |-> IF x \in DOMAIN f THEN f[x] ELSE g[x]]

Types == {"cpu", "memory", "storage"}

(* The labels that carry settings.                                         *)
Settings == Types \cup {"user", "prefix", "pull", "node", "deadline", "account"}

Label(co, key) == key \in DOMAIN co.labels

---------------------------------------------------------------------------
(* Settings.                                                               *)

PullPolicies == [default |-> "IfNotPresent", notpresent |-> "IfNotPresent",
                 ifnotpresent |-> "IfNotPresent", always |-> "Always",
                 allways |-> "Always", never |-> "Never"]

GetImagePullPolicy(co) ==
    LET p == IF Label(co, "pull") THEN co.labels["pull"] ELSE "default"
    IN  IF p \in DOMAIN PullPolicies THEN [ok |-> TRUE, policy |-> PullPolicies[p]] ELSE Refused

ValidQuantity(v) == v.parts \in 1 .. 2 /\ (v.request # 0 \/ v.limit # 0)

(* A limit alone is also the request.                                      *)
Requested(v) == IF v.request = 0 THEN v.limit ELSE v.request

(* req is the record of the two maps of the template.  The labels of the   *)
(* types in done are written over them.                                    *)
Overlay(req, co, done) ==
    [requests |-> [t \in done |-> Requested(co.labels[t])] ++ req.requests,
     limits |-> [t \in {u \in done : co.labels[u].limit # 0} |-> co.labels[t].limit] ++ req.limits]

ResourceLabels(co) == Types \cap DOMAIN co.labels

(* The types may come in any order; the first bad one ends the loop, with  *)
(* those in done already written.                                          *)
ResourceOutcomes(co) ==
    LET good == {t \in ResourceLabels(co) : ValidQuantity(co.labels[t])}
    IN  IF good = ResourceLabels(co) THEN {[ok |-> TRUE, done |-> good]}
        ELSE {[ok |-> FALSE, done |-> d] : d \in SUBSET good}

GetNodeSelector(co, nodesel) ==
    IF ~Label(co, "node") THEN [ok |-> TRUE, selector |-> nodesel]
    ELSE IF co.labels["node"].wellFormed
    THEN [ok |-> TRUE, selector |-> co.labels["node"].pairs ++ nodesel]
    ELSE Refused

GetServiceAccountName(co, current) ==
    IF Label(co, "account") THEN co.labels["account"] ELSE current

GetActiveDeadlineSeconds(co) == Label(co, "deadline") => co.labels["deadline"].number

(* 0 is the user of the image unless the template names one.               *)
GetPodSecurityContext(co, user) ==
    IF ~Label(co, "user") THEN [ok |-> TRUE, user |-> user]
    ELSE CASE co.labels["user"].kind = "root" -> [ok |-> TRUE, user |-> 0]
           [] co.labels["user"].kind = "number" -> [ok |-> TRUE, user |-> co.labels["user"].id]
           [] OTHER -> Refused

---------------------------------------------------------------------------
(* Ports.                                                                  *)

(* A binding [host, port] without a host port is kept under -port.  Go     *)
(* ranges over the bindings in any order: of two for one host port the     *)
(* last one stays.                                                         *)
HostKey(b) == IF b.host = 0 THEN -b.port ELSE b.host

HostPortMaps(bindings) ==
    {f \in [{HostKey(b) : b \in bindings} -> {b.port : b \in bindings}] :
        \A k \in DOMAIN f : \E b \in bindings : HostKey(b) = k /\ b.port = f[k]}

(* The maps GetServicePorts may return: mapped ports win over host ports,  *)
(* and these over the ports of container and image.  Of two host ports     *)
(* that become the same Service port, either may stay.                     *)
ServicePortMaps(co) ==
    LET Own(ports) == [p \in ports |-> p]
        Key(k) == IF k < 0 THEN co.hostPorts[k] ELSE k
        Host == {f \in [{Key(k) : k \in DOMAIN co.hostPorts} -> Range(co.hostPorts)] :
                    \A s \in DOMAIN f : \E k \in DOMAIN co.hostPorts :
                        Key(k) = s /\ co.hostPorts[k] = f[s]}
    IN  {co.mapped ++ h ++ Own(co.exposed) ++ Own(co.imagePorts) : h \in Host}

(* Variant: a binding without a host port counts as one with.              *)
UnmappedUnbound(co) == co.exposed \ (Range(co.hostPorts) \cup Range(co.mapped))

(* The exposed ports MapContainerTCPPorts still has to map.                *)
Unmapped(co) ==
    {p \in co.exposed : /\ \A s \in DOMAIN co.hostPorts : s > 0 => co.hostPorts[s] # p
                        /\ p \notin Range(co.mapped)}

(* The host ports CreateReverseProxies and CreatePortForwards open, which  *)
(* are also those inspect reports.                                         *)
Published(co) == {s \in DOMAIN co.hostPorts : s > 0} \cup DOMAIN co.mapped

---------------------------------------------------------------------------
(* Volumes and archives.                                                   *)

(* A mount wins over a bind with the same target.                          *)
GetVolumes(co) ==
    [d \in {v.dst : v \in co.mounts} |-> (CHOOSE v \in co.mounts : v.dst = d).kind]
        ++ [d \in {v.dst : v \in co.binds} |-> (CHOOSE v \in co.binds : v.dst = d).kind]

GetVolumeFolders(co) == {d \in DOMAIN GetVolumes(co) : GetVolumes(co)[d] = "folder"}

GetVolumeFiles(co) == {d \in DOMAIN GetVolumes(co) : GetVolumes(co)[d] = "file"}

HasDockerSockBinding(co) == "docker.sock" \in DOMAIN GetVolumes(co)

HasVolumes(co) == co.binds # {}

HasPreArchives(co) == co.archives # <<>>

(* Variant: the first archive of a file stays.                             *)
GetPreArchiveFilesFirst(co) ==
    [f \in {co.archives[i].file : i \in DOMAIN co.archives} |->
        co.archives[CHOOSE i \in DOMAIN co.archives :
                      /\ co.archives[i].file = f
                      /\ \A j \in 1 .. i - 1 : co.archives[j].file # f].data]

(* file -> data; the last archive of a file wins.                          *)
GetPreArchiveFiles(co) ==
    [f \in {co.archives[i].file : i \in DOMAIN co.archives} |->
        co.archives[CHOOSE i \in DOMAIN co.archives :
                      /\ co.archives[i].file = f
                      /\ \A j \in i + 1 .. Len(co.archives) : co.archives[j].file # f].data]

(* addPreArchives: the files are items of one ConfigMap volume, under      *)
(* their base names.  Of two with one base name, either may be the one     *)
(* that both mounts show.                                                  *)
PreArchiveMounts(co) ==
    LET data == GetPreArchiveFiles(co)
        Base(f) == (CHOOSE a \in Range(co.archives) : a.file = f).base
    IN  {[f \in DOMAIN data |-> data[item[Base(f)]]] :
           item \in {g \in [{Base(f) : f \in DOMAIN data} -> DOMAIN data] :
                       \A b \in DOMAIN g : Base(g[b]) = b}}

---------------------------------------------------------------------------
(* Labels of the objects.                                                  *)

(* What the request may add: any label with a legal name.  The settings    *)
(* keep keys of their own, which no system label has; of two labels with   *)
(* one key it is not told apart which one stays.                           *)
UserLabels(co) ==
    LET plain == {k \in DOMAIN co.labels \ Settings : KubernetesKey[k] # NoKey}
    IN  [kk \in {KubernetesKey[k] : k \in plain} |->
            co.labels[CHOOSE k \in plain : KubernetesKey[k] = kk]]

(* Variant: what the request says comes last.                              *)
getLabelsUserLast(co, labels) ==
    UserLabels(co) ++ Entry("container-id", co.id) ++ SystemLabels ++ DefaultLabels ++ labels

getLabels(co, labels) ==
    Entry("container-id", co.id) ++ SystemLabels ++ UserLabels(co) ++ DefaultLabels ++ labels
============================================================================
