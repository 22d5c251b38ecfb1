------------------------------ MODULE IoProxy ------------------------------
(***************************************************************************)
(* The multiplexing writers of exec, attach and logs                       *)
(* (internal/util/ioproxy).  Each proxy cuts its stream into lines and     *)
(* writes a frame, a header with the length and then the bytes, to the     *)
(* connection; the proxies of one request share the connection and a       *)
(* mutex.  A goroutine flushes an unfinished line after 100 ms.  When the  *)
(* remote command is over, the request flushes its proxies and returns.    *)
(***************************************************************************)
EXTENDS Naturals, Sequences

CONSTANTS
    Streams,   \* the proxies of one request: stdout, stderr
    Chunks,    \* what one call of Write may bring, sequences of bytes
    Newline,   \* the byte '\n'
    NoOne,     \* nobody holds the mutex
    MaxBytes   \* bound: bytes written to a stream

(* The bytes that a chunk may hold.                                        *)
Bytes == UNION {{p[i] : i \in DOMAIN p} : p \in Chunks}

ASSUME IoProxyAssumption ==
    /\ NoOne \notin Streams
    /\ Chunks \subseteq Seq(Bytes)
    /\ MaxBytes \in Nat

VARIABLES
    given,    \* history: what Write got, for each stream
    buf,      \* the buffer of each proxy
    flusher,  \* its flag
    timer,    \* its goroutine that sleeps
    holder,   \* the proxy whose Write or Flush holds the mutex
    todo,     \* what that call still has to write of a frame
    out,      \* what is on the connection
    sent,     \* history: the bytes of each stream in out
    open,     \* writes to the connection succeed
    pc        \* the request: streaming, then Flush after Flush, then returned

vars == <<given, buf, flusher, timer, holder, todo, out, sent, open, pc>>

Header(s, n) == [stream |-> s, kind |-> "header", val |-> n]
Byte(s, b) == [stream |-> s, kind |-> "byte", val |-> b]

Init ==
    /\ given = [s \in Streams |-> <<>>]
    /\ buf = [s \in Streams |-> <<>>]
    /\ flusher = [s \in Streams |-> FALSE]
    /\ timer = [s \in Streams |-> FALSE]
    /\ holder = NoOne
    /\ todo = <<>>
    /\ out = <<>>
    /\ sent = [s \in Streams |-> <<>>]
    /\ open = TRUE
    /\ pc = [s \in Streams |-> "streaming"]

---------------------------------------------------------------------------
(* write: the header, then the bytes.                                      *)
write(s, p) == <<Header(s, Len(p))>> \o [i \in 1 .. Len(p) |-> Byte(s, p[i])]

(* Positions of the newlines in b.                                         *)
Newlines(b) == {i \in 1 .. Len(b) : b[i] = Newline}

(* Write takes the mutex and puts the chunk behind what is buffered.       *)
Write(s, p) ==
    /\ pc[s] = "streaming"
    /\ holder = NoOne
    /\ Len(given[s]) + Len(p) <= MaxBytes
    /\ given' = [given EXCEPT ![s] = @ \o p]
    /\ buf' = [buf EXCEPT ![s] = @ \o p]
    /\ holder' = s
    /\ UNCHANGED <<flusher, timer, todo, out, sent, open, pc>>

(* Its loop: process writes the first line that is complete.               *)
process(s) ==
    /\ holder = s
    /\ todo = <<>>
    /\ \E n \in Newlines(buf[s]) :
         /\ \A i \in Newlines(buf[s]) : n <= i
         /\ todo' = write(s, SubSeq(buf[s], 1, n))
         /\ buf' = [buf EXCEPT ![s] = SubSeq(@, n + 1, Len(@))]
    /\ UNCHANGED <<given, flusher, timer, holder, out, sent, open, pc>>

(* writeAll, one piece at a time; an error is logged and ends the frame.   *)
Emit ==
    /\ todo # <<>>
    /\ IF open
       THEN /\ out' = Append(out, Head(todo))
            /\ todo' = Tail(todo)
            /\ sent' = IF Head(todo).kind = "header" THEN sent
                       ELSE [sent EXCEPT ![Head(todo).stream] = Append(@, Head(todo).val)]
       ELSE out' = out /\ sent' = sent /\ todo' = <<>>
    /\ UNCHANGED <<given, buf, flusher, timer, holder, open, pc>>

(* Variant: the mutex is given back before the buffered bytes are out.     *)
UnlockEarly(s) ==
    /\ holder = s
    /\ Len(todo) <= 1
    /\ Newlines(buf[s]) = {}
    /\ holder' = NoOne
    /\ flusher' = [flusher EXCEPT ![s] = @ \/ buf[s] # <<>>]
    /\ timer' = [timer EXCEPT ![s] = @ \/ (buf[s] # <<>> /\ ~flusher[s])]
    /\ UNCHANGED <<given, buf, todo, out, sent, open, pc>>

(* The end of Write and of Flush.  An unfinished line starts a goroutine,  *)
(* unless there is one; Flush leaves no line.                              *)
Unlock(s) ==
    /\ holder = s
    /\ todo = <<>>
    /\ Newlines(buf[s]) = {}
    /\ holder' = NoOne
    /\ flusher' = [flusher EXCEPT ![s] = @ \/ buf[s] # <<>>]
    /\ timer' = [timer EXCEPT ![s] = @ \/ (buf[s] # <<>> /\ ~flusher[s])]
    /\ UNCHANGED <<given, buf, todo, out, sent, open, pc>>

(* Variant: the buffer is kept.                                            *)
FlushKeep(s) ==
    /\ holder = NoOne
    /\ IF buf[s] = <<>> THEN UNCHANGED <<buf, flusher, todo, holder>>
       ELSE /\ todo' = write(s, buf[s])
            /\ flusher' = [flusher EXCEPT ![s] = FALSE]
            /\ holder' = s
            /\ UNCHANGED buf

(* Flush: an empty buffer leaves the flag as it is.                        *)
Flush(s) ==
    /\ holder = NoOne
    /\ IF buf[s] = <<>> THEN UNCHANGED <<buf, flusher, todo, holder>>
       ELSE /\ todo' = write(s, buf[s])
            /\ buf' = [buf EXCEPT ![s] = <<>>]
            /\ flusher' = [flusher EXCEPT ![s] = FALSE]
            /\ holder' = s

(* The goroutine wakes up.                                                 *)
TimerFlush(s) ==
    /\ timer[s]
    /\ timer' = [timer EXCEPT ![s] = FALSE]
    /\ Flush(s)
    /\ UNCHANGED <<given, out, sent, open, pc>>

(* The remote command is over; the deferred calls flush the proxies.       *)
StreamEnds ==
    /\ holder = NoOne
    /\ \A s \in Streams : pc[s] = "streaming"
    /\ pc' = [s \in Streams |-> "flush"]
    /\ UNCHANGED <<given, buf, flusher, timer, holder, todo, out, sent, open>>

(* Variant: an unfinished line is left to the goroutine.                   *)
FinalFlushTrusting(s) ==
    /\ pc[s] = "flush"
    /\ IF flusher[s] THEN holder = NoOne /\ UNCHANGED <<buf, flusher, todo, holder>>
                     ELSE Flush(s)
    /\ pc' = [pc EXCEPT ![s] = "flushed"]
    /\ UNCHANGED <<given, timer, out, sent, open>>

FinalFlush(s) ==
    /\ pc[s] = "flush"
    /\ Flush(s)
    /\ pc' = [pc EXCEPT ![s] = "flushed"]
    /\ UNCHANGED <<given, timer, out, sent, open>>

(* The request returns: its connection goes back to the server.            *)
Return ==
    /\ holder = NoOne
    /\ \A s \in Streams : pc[s] = "flushed"
    /\ pc' = [s \in Streams |-> "returned"]
    /\ UNCHANGED <<given, buf, flusher, timer, holder, todo, out, sent, open>>

(* The client closes the connection, or the end of a detached attach       *)
(* session does (CloseStreams).                                            *)
Disconnect ==
    /\ open
    /\ open' = FALSE
    /\ UNCHANGED <<given, buf, flusher, timer, holder, todo, out, sent, pc>>

---------------------------------------------------------------------------

Run ==
    \/ Emit \/ StreamEnds \/ Return
    \/ \E s \in Streams : process(s) \/ Unlock(s) \/ TimerFlush(s) \/ FinalFlush(s)

Next ==
    \/ \E s \in Streams, p \in Chunks : Write(s, p)
    \/ Run
    \/ Disconnect

Spec == Init /\ [][Next]_vars

---------------------------------------------------------------------------

Pieces == {Header(s, n) : s \in Streams, n \in Nat} \cup {Byte(s, b) : s \in Streams, b \in Bytes}

TypeOK ==
    /\ {given, buf, sent} \subseteq [Streams -> Seq(Bytes)]
    /\ flusher \in [Streams -> BOOLEAN] /\ timer \in [Streams -> BOOLEAN]
    /\ holder \in Streams \cup {NoOne}
    /\ out \in Seq(Pieces) /\ todo \in Seq(Pieces)
    /\ open \in BOOLEAN
    /\ pc \in [Streams -> {"streaming", "flush", "flushed", "returned"}]

(* The bytes of s in what is left of the frame that is being written.      *)
Pending(s) ==
    LET body == IF todo # <<>> /\ Head(todo).kind = "header" THEN Tail(todo) ELSE todo
    IN  IF holder = s THEN [i \in 1 .. Len(body) |-> body[i].val] ELSE <<>>

(***************************************************************************)
(* The frames on the connection are whole: every byte belongs to a header  *)
(* of its own stream, and nothing comes in between, although the writers   *)
(* of both streams and their flushing goroutines write to one connection.  *)
(***************************************************************************)
FramesWhole ==
    \A i \in 1 .. Len(out) :
        IF out[i].kind = "header"
        THEN \A j \in 1 .. i - 1 : out[j].kind = "header" => j + out[j].val < i
        ELSE \E j \in 1 .. i - 1 :
               /\ out[j].kind = "header"
               /\ i <= j + out[j].val
               /\ \A k \in j .. i : out[k].stream = out[i].stream

(***************************************************************************)
(* While the client is there nothing is lost, repeated or reordered: what  *)
(* a stream was given is on the connection, on its way, or buffered.       *)
(***************************************************************************)
NothingLost ==
    open => \A s \in Streams : sent[s] \o Pending(s) \o buf[s] = given[s]

(***************************************************************************)
(* Nothing is written to the connection after the request has returned,    *)
(* although a flushing goroutine may still be asleep.                      *)
(***************************************************************************)
QuietAfterReturn == [][(\A s \in Streams : pc[s] = "returned") => out' = out]_vars
============================================================================
