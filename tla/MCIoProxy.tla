------------------------------ MODULE MCIoProxy ----------------------------
(* Two streams, and chunks that hold no line, a part of a line, and more   *)
(* than a line.                                                            *)
EXTENDS IoProxy

CONSTANTS stdout, stderr, x, nl

BothStreams == {stdout, stderr}
SomeChunks == { <<x>>, <<nl>>, <<x, nl, x>>, <<nl, nl>> }
============================================================================
