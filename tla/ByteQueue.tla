------------------------------ MODULE ByteQueue ------------------------------
(***************************************************************************)
(* What a BlockingBuffer promises to its callers, with the ring, the mutex  *)
(* and the condition variables left out: a FIFO queue of at most Size       *)
(* elements that answers requests.  A thread makes a request, the queue     *)
(* answers it in one atomic step, and `ret' holds what it handed back.  A   *)
(* blocking operation is an answer with a guard; `released' is the          *)
(* permission to return short that closing the connection gives.            *)
(***************************************************************************)
EXTENDS Integers, Sequences

CONSTANTS Thread,    \* the threads that call the buffer
          Size,      \* the capacity
          Call,      \* the requests: records with op, bytes, n and offset
          NoCall     \* the thread has made no request

VARIABLES q,         \* the stored elements, oldest first
          released,  \* has the buffer been forcefully woken up
          call,      \* call[t]: the request of t
          ret        \* ret[t]: the outcome of t's last operation

vars == <<q, released, call, ret>>

Lesser(a, b) == IF a <= b THEN a ELSE b

\* An outcome: the size_t the operation returns and the bytes it copies out.
Outcome(n, s) == [n |-> n, data |-> s]

Init == /\ q = <<>>
        /\ released = FALSE
        /\ call = [t \in Thread |-> NoCall]
        /\ ret = [t \in Thread |-> Outcome(0, <<>>)]

Request(t) ==
    /\ call[t] = NoCall
    /\ \E c \in Call : call' = [call EXCEPT ![t] = c]
    /\ UNCHANGED <<q, released, ret>>

Asks(t, op) == call[t] # NoCall /\ call[t].op = op
Answer(t, n, s) ==
    /\ ret' = [ret EXCEPT ![t] = Outcome(n, s)]
    /\ call' = [call EXCEPT ![t] = NoCall]
    /\ UNCHANGED released

\* The oldest k elements, and what remains without them.
Front(k) == SubSeq(q, 1, k)
Rest(k) == SubSeq(q, k + 1, Len(q))

\* write: waits for room, then stores as long a prefix as fits.
Write(t) ==
    LET k == Lesser(Len(call[t].bytes), Size - Len(q)) IN
    /\ Asks(t, "write")
    /\ Len(q) < Size \/ released
    /\ q' = q \o SubSeq(call[t].bytes, 1, k)
    /\ Answer(t, k, <<>>)

\* Takes at most n elements from the front.
Take(t) ==
    LET k == Lesser(call[t].n, Len(q)) IN
    /\ q' = Rest(k)
    /\ Answer(t, k, Front(k))

\* read: waits for an element.
Read(t) == /\ Asks(t, "read")
           /\ q # <<>> \/ released
           /\ Take(t)

\* try_read: never waits.
TryRead(t) == /\ Asks(t, "try_read")
              /\ Take(t)

\* peek: copies at most n elements from position `offset', removes nothing.
Peek(t) ==
    LET off == call[t].offset
        k == IF off >= Len(q) THEN 0 ELSE Lesser(call[t].n, Len(q) - off)
    IN
    /\ Asks(t, "peek")
    /\ Answer(t, k, SubSeq(q, off + 1, off + k))
    /\ UNCHANGED q

\* discard: drops at most n elements from the front.
Discard(t) ==
    LET k == Lesser(call[t].n, Len(q)) IN
    /\ Asks(t, "discard")
    /\ q' = Rest(k)
    /\ Answer(t, k, <<>>)

Inquire(t) == /\ \/ Asks(t, "size") /\ Answer(t, Len(q), <<>>)
                 \/ Asks(t, "available_capacity") /\ Answer(t, Size - Len(q), <<>>)
              /\ UNCHANGED q

\* force_wake_up_: takes effect at some point before it returns.
Release(t) == /\ Asks(t, "force_wake_up_")
              /\ released' = TRUE
              /\ UNCHANGED <<q, call, ret>>
Released(t) == /\ Asks(t, "force_wake_up_")
               /\ released
               /\ call' = [call EXCEPT ![t] = NoCall]
               /\ UNCHANGED <<q, released, ret>>

Next == \E t \in Thread :
           \/ Request(t) \/ Write(t) \/ Read(t) \/ TryRead(t) \/ Peek(t)
           \/ Discard(t) \/ Inquire(t) \/ Release(t) \/ Released(t)

Spec == Init /\ [][Next]_vars
=============================================================================
