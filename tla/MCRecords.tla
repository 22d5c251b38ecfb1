----------------------------- MODULE MCRecords -----------------------------
(* Small instances of Records.                                             *)
EXTENDS Records, TLC

CONSTANTS c1, c2, a, b, bridge, n1, n2, x, h1, h2

OneContainer == {c1}
TwoContainers == {c1, c2}
OneName == {a}
TwoNames == {a, b}
UserNetwork == {bridge, n1}
UserNetworks == {bridge, n1, n2}
BridgeOrUser == {Bridge, x}
OneHandler == {h1}
TwoHandlers == {h1, h2}
NoneOrUser == { {}, {x} }

HandlerSymmetry == Permutations(Handlers)
============================================================================
