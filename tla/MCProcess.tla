----------------------------- MODULE MCProcess ------------------------------
(* Small instances of Process for TLC.                                     *)
EXTENDS Process

CONSTANTS i1, i2

TwoInstances == {i1, i2}
============================================================================
