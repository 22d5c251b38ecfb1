------------------------------ MODULE Policies ------------------------------
(***************************************************************************)
(* The image policy (internal/policy/image) and the Secret policy          *)
(* (internal/policy/secret): what they load, admit and produce.            *)
(* A function is a Go map; a Go error is the record Refused.               *)
(***************************************************************************)
EXTENDS Naturals, Sequences, FiniteSets, Functions

CONSTANTS
    Normal,          \* image reference -> its normalised form (distribution/reference)
    Malformed,       \* the "normal form" of a reference that does not parse
    NoTarget,        \* the empty target of a rule
    AllowedSecrets,  \* allowed-secrets
    MaxReferences    \* maxEnvReferences

Refused == [ok |-> FALSE]

---------------------------------------------------------------------------
(* Image policy.  A policy file has a version, a default action and rules  *)
(* [source, target].                                                       *)

Normalize(raw) == Normal[raw]

(* The file is rejected when a rule does not parse, or when two rules have *)
(* the same source.                                                        *)
ValidPolicy(file) ==
    /\ file.version = "v1"
    /\ file.action \in {"allow", "deny"}
    /\ \A i \in DOMAIN file.rules :
         /\ Normalize(file.rules[i].source) # Malformed
         /\ file.rules[i].target # NoTarget => Normalize(file.rules[i].target) # Malformed
    /\ \A i, j \in DOMAIN file.rules :
         Normalize(file.rules[i].source) = Normalize(file.rules[j].source) => i = j

Decode(file) ==
    LET Source(r) == Normalize(r.source)
        Target(r) == IF r.target = NoTarget THEN Source(r) ELSE Normalize(r.target)
        Rules == Range(file.rules)
    IN  [enabled |-> TRUE,
         allowUnmatched |-> file.action = "allow",
         rules |-> [s \in {Source(r) : r \in Rules} |->
                      Target(CHOOSE r \in Rules : Source(r) = s)]]

(* No policy file.                                                         *)
Passthrough == [enabled |-> FALSE, allowUnmatched |-> FALSE, rules |-> <<>>]

(* Variant: a reference that is not listed is passed on as it is.          *)
ResolveUnlisted(policy, requested) ==
    LET normalized == Normalize(requested)
    IN  IF normalized \in DOMAIN policy.rules
        THEN [ok |-> TRUE, image |-> policy.rules[normalized]]
        ELSE [ok |-> TRUE, image |-> requested]

Resolve(policy, requested) ==
    LET normalized == Normalize(requested)
    IN  IF ~policy.enabled THEN [ok |-> TRUE, image |-> requested]
        ELSE IF normalized = Malformed THEN Refused
        ELSE IF normalized \in DOMAIN policy.rules
        THEN [ok |-> TRUE, image |-> policy.rules[normalized]]
        ELSE IF policy.allowUnmatched THEN [ok |-> TRUE, image |-> normalized]
        ELSE Refused

---------------------------------------------------------------------------
(* Secret policy.  secrets is the part of the labels of a container that   *)
(* starts with one prefix: name -> [wellFormed, secret].  A name that      *)
(* Kubernetes does not accept makes its reference ill-formed.              *)

parseReference(ref) == ref.wellFormed /\ ref.secret \in AllowedSecrets

(* Variant: ordinary variables may be replaced.                            *)
EnvVarsReplace(secrets, existing) ==
    IF /\ Cardinality(DOMAIN secrets) <= MaxReferences
       /\ \A name \in DOMAIN secrets : parseReference(secrets[name])
    THEN [ok |-> TRUE, refs |-> {<<name, secrets[name].secret>> : name \in DOMAIN secrets}]
    ELSE Refused

(* existing is the set of names of ordinary variables.                     *)
EnvVars(secrets, existing) ==
    IF /\ Cardinality(DOMAIN secrets) <= MaxReferences
       /\ \A name \in DOMAIN secrets : name \notin existing /\ parseReference(secrets[name])
    THEN [ok |-> TRUE, refs |-> {<<name, secrets[name].secret>> : name \in DOMAIN secrets}]
    ELSE Refused

Files(secrets) ==
    IF /\ Cardinality(DOMAIN secrets) <= MaxReferences
       /\ \A name \in DOMAIN secrets : parseReference(secrets[name])
    THEN [ok |-> TRUE, refs |-> {<<name, secrets[name].secret>> : name \in DOMAIN secrets}]
    ELSE Refused

Validate(co) == EnvVars(co.secretEnv, co.env).ok /\ Files(co.secretFile).ok
============================================================================
