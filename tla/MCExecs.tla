------------------------------ MODULE MCExecs ------------------------------
(* Two execs, one of them malformed, of one container, started twice.      *)
EXTENDS Execs

CONSTANTS e1, e2, r1, r2, c1

TwoExecs == {e1, e2}
OneMalformed == {e2}
TwoRuns == {r1, r2}
OneContainer == {c1}
============================================================================
