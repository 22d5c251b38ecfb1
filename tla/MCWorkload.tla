----------------------------- MODULE MCWorkload -----------------------------
(* Small instances of Workload for TLC.                                    *)
EXTENDS Workload

CONSTANTS c1, c2, p1, p2

TwoContainers == {c1, c2}

TwoPorts == {p1, p2}

PortSymmetry == Permutations(TwoPorts)

(* Two spellings of one image, its mirror, another image, and one that     *)
(* does not parse.                                                         *)
MCNormal == [pg |-> "docker.io/pg:latest", redis |-> "docker.io/redis:latest", bad |-> "malformed"]
              @@ ("docker.io/pg:latest" :> "docker.io/pg:latest")
              @@ ("docker.io/redis:latest" :> "docker.io/redis:latest")
              @@ ("mirror/pg:1" :> "mirror/pg:1") @@ ("mirror/redis" :> "mirror/redis:latest")

MCImagePorts == [pg |-> {91}, redis |-> {}, bad |-> {}]
                  @@ ("mirror/pg:1" :> {90})
                  @@ ("docker.io/pg:latest" :> {91})
                  @@ ("docker.io/redis:latest" :> {})
                  @@ ("mirror/redis:latest" :> {})

Rule(s, t) == [source |-> s, target |-> t]

(* Allow and deny what is not listed; the third has one source in two spellings.   *)
MCPolicyFiles ==
    {[version |-> "v1", action |-> "allow", rules |-> <<Rule("pg", "mirror/pg:1")>>],
     [version |-> "v1", action |-> "deny", rules |-> <<Rule("redis", "mirror/redis")>>],
     [version |-> "v1", action |-> "deny",
      rules |-> <<Rule("pg", "mirror/pg:1"), Rule("docker.io/pg:latest", NoTarget)>>]}

Secret(s) == [wellFormed |-> TRUE, secret |-> s]

Plain(api, image) ==
    [api |-> api, image |-> image, env |-> {"A"}, user |-> Nothing, memory |-> Nothing, cpu |-> Nothing,
     labels |-> <<>>, secretEnv |-> <<>>, secretFile |-> <<>>, exposed |-> {}, bindings |-> {},
     binds |-> {}, mounts |-> {}]

Bind(h, p) == [host |-> h, port |-> p]

MCRequests ==
    { \* a database with a Secret, memory, and a label that looks like a system label
      [Plain("docker", "pg") EXCEPT !.memory = [parts |-> 1, request |-> 64, limit |-> 0],
         !.secretEnv = [B |-> Secret("db")], !.exposed = {80},
         !.labels = ("_managed" :> "false") @@ ("container-id" :> "other")],
      \* the other spelling through libpod, with a folder, and host ports that
      \* compete for one Service port
      [Plain("libpod", "docker.io/pg:latest") EXCEPT
         !.bindings = {Bind(80, 82), Bind(0, 80), Bind(82, 83)},
         !.mounts = {[dst |-> "data", kind |-> "folder"]}, !.secretFile = [k |-> Secret("db")],
         !.user = [kind |-> "number", id |-> 1000]],
      \* another image, with a memory label that is refused when it starts
      [Plain("docker", "redis") EXCEPT !.cpu = [parts |-> 1, request |-> 2, limit |-> 0],
         !.labels = ("memory" :> [parts |-> 3, request |-> 1, limit |-> 1])],
      \* refused: a Secret that is not allowed, a name defined twice, too many
      \* references (of an image that does not parse), the socket
      [Plain("docker", "pg") EXCEPT !.secretEnv = [B |-> Secret("other")]],
      [Plain("libpod", "pg") EXCEPT !.secretEnv = [A |-> Secret("db")]],
      [Plain("docker", "bad") EXCEPT !.secretFile = [k |-> Secret("db"), l |-> Secret("db")]],
      [Plain("docker", "pg") EXCEPT !.mounts = {[dst |-> "docker.sock", kind |-> "file"]}] }

MCConfig ==
    [defaults |-> [pull |-> "always", memory |-> [parts |-> 2, request |-> 0, limit |-> 32]],
     account |-> "default", ignoreMemory |-> FALSE, preArchive |-> TRUE, inspector |-> TRUE]

(* Two contents of one file, a file with the same base name, and an        *)
(* archive with several files.                                             *)
MCArchives ==
    {[file |-> "a/f", base |-> "f", data |-> 1, single |-> TRUE],
     [file |-> "a/f", base |-> "f", data |-> 2, single |-> TRUE],
     [file |-> "b/f", base |-> "f", data |-> 3, single |-> TRUE],
     [file |-> "b/f", base |-> "f", data |-> 3, single |-> FALSE]}

MCKubernetesKey == [app |-> "app", managed |-> "managed"]
                     @@ ("_managed" :> "managed") @@ ("container-id" :> "container-id")

MCSystemLabels == ("managed" :> "true") @@ ("instance-id" :> "i")

MCDefaultLabels == ("managed" :> "no")

MCTemplateLabels == ("app" :> "t") @@ ("instance-id" :> "t")

NoResources ==
    [requests |-> <<>>, limits |-> <<>>, shared |-> {}, node |-> <<>>, account |-> "", user |-> 0]

(* A Pod template whose container requests memory.                         *)
SomeResources == [NoResources EXCEPT !.requests = [memory |-> 16], !.shared = {"requests"}]
============================================================================
