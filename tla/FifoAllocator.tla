----------------------------- MODULE FifoAllocator -----------------------------
(***************************************************************************)
(* What cp8_core::acquire_buffer promises its callers (p8_core.hpp): a     *)
(* fixed number of interchangeable buffers; a blocking acquire waits in a  *)
(* strict FIFO queue until a buffer is recycled, and comes back without    *)
(* one only on shutdown.  How buffers are allocated, which thread is       *)
(* notified when, and the mutex are not visible here.                      *)
(***************************************************************************)
EXTENDS Integers, Sequences

CONSTANTS Threads, Capacity

VARIABLES
    avail,   \* buffers a caller could get now, allocated or not
    queue,   \* threads waiting, oldest first
    client,  \* what each thread's blocking acquire has come to
    closed   \* shutdown has begun

vars == <<avail, queue, client, closed>>

Init ==
    /\ avail = Capacity
    /\ queue = <<>>
    /\ client = [t \in Threads |-> "idle"]
    /\ closed = FALSE

\* A buffer is there: the caller has it at once.
Take(t) ==
    /\ client[t] \in {"idle", "asking"}
    /\ avail > 0
    /\ avail' = avail - 1
    /\ client' = [client EXCEPT ![t] = "idle"]
    /\ UNCHANGED <<queue, closed>>

\* None is there, and the caller means to wait.
Ask(t) ==
    /\ client[t] = "idle" /\ avail = 0
    /\ client' = [client EXCEPT ![t] = "asking"]
    /\ UNCHANGED <<avail, queue, closed>>

Enqueue(t) ==
    /\ client[t] = "asking" /\ avail = 0 /\ ~closed
    /\ queue' = Append(queue, t)
    /\ client' = [client EXCEPT ![t] = "waiting"]
    /\ UNCHANGED <<avail, closed>>

\* After shutdown nobody starts to wait.
TurnAway(t) ==
    /\ client[t] = "asking" /\ avail = 0 /\ closed
    /\ client' = [client EXCEPT ![t] = "idle"]
    /\ UNCHANGED <<avail, queue, closed>>

\* n buffers come back at once: the oldest waiters get one each, in their order, and
\* what is left over is free.
GiveBack(n) ==
    LET served == IF n < Len(queue) THEN n ELSE Len(queue)
        lucky  == {queue[i] : i \in 1 .. served}
    IN  /\ avail + n <= Capacity
        /\ client' = [t \in Threads |-> IF t \in lucky THEN "granted" ELSE client[t]]
        /\ queue' = SubSeq(queue, served + 1, Len(queue))
        /\ avail' = avail + n - served
        /\ UNCHANGED closed

\* Shutdown refuses everyone who is waiting.
Close ==
    /\ closed' = TRUE
    /\ client' = [t \in Threads |-> IF client[t] = "waiting" THEN "refused" ELSE client[t]]
    /\ queue' = <<>>
    /\ UNCHANGED avail

Return(t) ==
    /\ client[t] \in {"granted", "refused"}
    /\ client' = [client EXCEPT ![t] = "idle"]
    /\ UNCHANGED <<avail, queue, closed>>

Next ==
    \/ \E t \in Threads : Take(t) \/ Ask(t) \/ Enqueue(t) \/ TurnAway(t) \/ Return(t)
    \/ \E n \in 1 .. Capacity : GiveBack(n)
    \/ Close

Spec == Init /\ [][Next]_vars
===============================================================================
