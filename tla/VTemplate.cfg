SPECIFICATION Spec
CONSTANTS
    c1 = c1
    c2 = c2
    Nothing = Nothing
    Malformed = "malformed"
    NoTarget = "none"
    NoKey = "nokey"
    AllowedSecrets = {"db"}
    MaxReferences = 1
    MaxArchives = 2
    Targets = {c1}
    p1 = p1
    p2 = p2
    Ephemeral <- TwoPorts
    Pulls = {}
    Normal <- MCNormal
    ImagePorts <- MCImagePorts
    PolicyFiles <- MCPolicyFiles
    Requests <- MCRequests
    Config <- MCConfig
    Archives <- MCArchives
    KubernetesKey <- MCKubernetesKey
    SystemLabels <- MCSystemLabels
    DefaultLabels <- MCDefaultLabels
    TemplateLabels <- MCTemplateLabels
    Template <- SomeResources
    Containers <- TwoContainers
INVARIANT OwnResources
CHECK_DEADLOCK FALSE
