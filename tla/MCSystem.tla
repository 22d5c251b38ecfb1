------------------------------ MODULE MCSystem ------------------------------
(* Small instances of System for TLC.                                      *)
EXTENDS System, TLC

CONSTANTS c1, c2, n1, h1, h2

OneContainer == {c1}
TwoContainers == {c1, c2}
OneName == {n1}
OneHandler == {h1}
TwoHandlers == {h1, h2}

(* Every container asks for the same Service name.                         *)
OneAlias == [c \in Containers |-> {n1}]
NoAlias == [c \in Containers |-> {}]

VolumeFile == [c \in Containers |-> {"vf"}]
NoFiles == [c \in Containers |-> {}]

(* Handlers are interchangeable; used for safety properties only.          *)
HandlerSymmetry == Permutations(Handlers)
============================================================================
