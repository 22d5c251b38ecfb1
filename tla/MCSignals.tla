----------------------------- MODULE MCSignals ------------------------------
(* Small instances of Signals for TLC.                                     *)
EXTENDS Signals

CONSTANTS t1, f1, a1, r1, r2

OneTunnel == {t1}
OneFollower == {f1}
OneSession == {a1}
TwoRequests == {r1, r2}
============================================================================
