----------------------------- MODULE BufferFifo -----------------------------
(***************************************************************************)
(* What the video DMA queue promises its users, without saying how: the    *)
(* buffers handed to the driver come back one by one, each once, in the    *)
(* order in which they were handed over.  The oldest ones have been        *)
(* started, and these cannot be taken back: the first of them is delivered *)
(* as filled, or a timeout fails all of them and starts more.  The others  *)
(* wait, until they are started, and can be cancelled.  Nothing overtakes  *)
(* and nothing is lost.                                                    *)
(***************************************************************************)
EXTENDS Naturals, Sequences

CONSTANT Bufs

VARIABLES
    pending,    \* the buffers in the driver's hands, oldest first
    started,    \* how many of them have been started
    result      \* where each buffer is, and how it came back

fifo == <<pending, started, result>>

Results == {"app", "driver", "filled", "failed"}

Init == pending = <<>> /\ started = 0 /\ result = [b \in Bufs |-> "app"]

\* The application hands over a buffer: it is started when nothing waits
\* before it, and otherwise, or when it needs other settings, it waits.
Submit(b) ==
    /\ result[b] = "app"
    /\ pending' = Append(pending, b)
    /\ result' = [result EXCEPT ![b] = "driver"]
    /\ \/ started = Len(pending) /\ started' = started + 1
       \/ pending # <<>> /\ UNCHANGED started

\* The oldest buffer is delivered.
Deliver ==
    /\ started > 0
    /\ pending' = Tail(pending)
    /\ started' = started - 1
    /\ result' = [result EXCEPT ![Head(pending)] = "filled"]

\* All started buffers fail, and if others wait some of them are started.
Timeout ==
    LET rest == SubSeq(pending, started + 1, Len(pending)) IN
    /\ pending' = rest
    /\ \/ rest = <<>> /\ started' = 0
       \/ started' \in 1..Len(rest)
    /\ result' = [b \in Bufs |-> IF \E i \in 1..started : pending[i] = b
                                 THEN "failed" ELSE result[b]]

\* The oldest of those that wait are started.
Start ==
    /\ started' \in (started + 1)..Len(pending)
    /\ UNCHANGED <<pending, result>>

\* A buffer that has not been started is taken back, in the i-th place.
Cancel(i) ==
    /\ i \in (started + 1)..Len(pending)
    /\ pending' = SubSeq(pending, 1, i - 1) \o SubSeq(pending, i + 1, Len(pending))
    /\ result' = [result EXCEPT ![pending[i]] = "failed"]
    /\ UNCHANGED started

\* The application takes back a buffer that is not with the driver.
Reclaim(b) ==
    /\ result[b] \in {"filled", "failed"}
    /\ result' = [result EXCEPT ![b] = "app"]
    /\ UNCHANGED <<pending, started>>

Next ==
    \/ \E b \in Bufs : Submit(b) \/ Reclaim(b)
    \/ Deliver \/ Timeout \/ Start
    \/ \E i \in 1..Len(pending) : Cancel(i)

Spec == Init /\ [][Next]_fifo

\* What has been started comes back.  Nothing is promised of what waits.
Fairness == WF_fifo(started > 0 /\ (Deliver \/ Timeout))

FairSpec == Spec /\ Fairness
=============================================================================
