---------------------------- MODULE BlockingBuffer ----------------------------
(***************************************************************************)
(* BlockingBuffer.h: the ring buffer behind every send_buffer and           *)
(* recv_buffer, with its mutex and its two condition variables.             *)
(*                                                                          *)
(* A call of thread t walks through pc[t]:                                  *)
(*   "lock"     about to take mutex_ (first time, or after a wake-up)       *)
(*   "test"     holds mutex_, about to evaluate the wait predicate          *)
(*   "block"    holds mutex_, the predicate was false: about to wait        *)
(*   "waiting"  inside condition_variable::wait, mutex_ released            *)
(* force_wake_up_ takes no lock; its three statements are three steps.      *)
(*                                                                          *)
(* Testing the predicate and entering the wait set are separate steps,      *)
(* both under mutex_: this is the window a notification sent without the    *)
(* mutex can fall into.  The body of an operation only touches state that   *)
(* mutex_ protects and ends in a notification, so it is one step.           *)
(*                                                                          *)
(* An operator named Op_Fault is Op with a fault its code could have; the   *)
(* runs use them to show that a property would notice it.                   *)
(***************************************************************************)
EXTENDS Integers, Sequences

CONSTANTS Thread,    \* the threads that call the buffer
          Data,      \* the elements (bytes)
          Size,      \* the template parameter Size
          MinArg,    \* the shortest span a caller passes
          MaxArg,    \* bound: the longest span a caller passes
          Ops,       \* Ops[t]: the operations thread t calls
          NoThread   \* mutex_ is free

ASSUME SizeAssumption == Size \in Nat \ {0}
ASSUME MaxArgAssumption == MaxArg \in Nat
ASSUME NoThreadAssumption == NoThread \notin Thread

VARIABLES
    read_pos_, write_pos_, curr_len_, buffer_,
    is_forcefully_woken_up_,
    mutex_,                  \* the thread that holds it, or NoThread
    can_read_, can_write_,   \* the threads parked on each condition variable
    pc, call,                \* the progress and the arguments of each call
    ret                      \* the outcome of each thread's last operation

ring == <<read_pos_, write_pos_, curr_len_, buffer_>>
waiters == <<can_read_, can_write_>>
vars == <<ring, is_forcefully_woken_up_, mutex_, waiters, pc, call, ret>>

Slot == 0 .. Size - 1
Chunk == UNION {[1..n -> Data] : n \in 0..MaxArg}
Count == 0..MaxArg

NoCall == [op |-> "none", bytes |-> <<>>, n |-> 0, offset |-> 0]
Op == {"write", "read", "try_read", "peek", "discard", "size",
       "available_capacity", "force_wake_up_"}
Call == [op : Op, bytes : Chunk, n : Count, offset : Count]

Lesser_Unclamped(a, b) == a
Lesser(a, b) == IF a <= b THEN a ELSE b

\* buffer_ is not initialised by the constructor: its content is arbitrary.
Init ==
    /\ read_pos_ = 0 /\ write_pos_ = 0 /\ curr_len_ = 0
    /\ buffer_ \in [Slot -> Data]
    /\ is_forcefully_woken_up_ = FALSE
    /\ mutex_ = NoThread
    /\ can_read_ = {} /\ can_write_ = {}
    /\ pc = [t \in Thread |-> "idle"]
    /\ call = [t \in Thread |-> NoCall]
    /\ ret = [t \in Thread |-> [n |-> 0, data |-> <<>>]]

-----------------------------------------------------------------------------
(* Calling an operation, and the lock protocol of condition_variable::wait. *)

\* Only the arguments an operation has are chosen; the others are fixed.
Calls(t) ==
    {c \in Call :
        /\ c.op \in Ops[t]
        /\ IF c.op = "write" THEN Len(c.bytes) >= MinArg ELSE c.bytes = <<>>
        /\ IF c.op \in {"read", "try_read", "peek", "discard"}
             THEN c.n >= MinArg ELSE c.n = 0
        /\ c.op # "peek" => c.offset = 0}

Begin(t) ==
    /\ pc[t] = "idle"
    /\ \E c \in Calls(t) :
         /\ call' = [call EXCEPT ![t] = c]
         /\ pc' = [pc EXCEPT ![t] =
                     IF c.op = "force_wake_up_" THEN "flag" ELSE "lock"]
    /\ UNCHANGED <<ring, is_forcefully_woken_up_, mutex_, waiters, ret>>

Acquire_Anyway(t) ==
    /\ pc[t] = "lock"
    /\ mutex_' = t
    /\ pc' = [pc EXCEPT ![t] = "test"]
    /\ UNCHANGED <<ring, is_forcefully_woken_up_, waiters, call, ret>>

Acquire(t) ==
    /\ pc[t] = "lock"
    /\ mutex_ = NoThread
    /\ mutex_' = t
    /\ pc' = [pc EXCEPT ![t] = "test"]
    /\ UNCHANGED <<ring, is_forcefully_woken_up_, waiters, call, ret>>

\* The predicate an operation waits for; the others do not wait.
CanGo(t) ==
    CASE call[t].op = "write" -> curr_len_ < Size \/ is_forcefully_woken_up_
      [] call[t].op = "read"  -> curr_len_ > 0 \/ is_forcefully_woken_up_
      [] OTHER -> TRUE

Test(t) ==
    /\ pc[t] = "test"
    /\ ~ CanGo(t)
    /\ pc' = [pc EXCEPT ![t] = "block"]
    /\ UNCHANGED <<ring, is_forcefully_woken_up_, mutex_, waiters, call, ret>>

Block(t) ==
    /\ pc[t] = "block"
    /\ mutex_' = NoThread
    /\ pc' = [pc EXCEPT ![t] = "waiting"]
    /\ \/ /\ call[t].op = "read"
          /\ can_read_' = can_read_ \cup {t} /\ UNCHANGED can_write_
       \/ /\ call[t].op = "write"
          /\ can_write_' = can_write_ \cup {t} /\ UNCHANGED can_read_
    /\ UNCHANGED <<ring, is_forcefully_woken_up_, call, ret>>

\* condition_variable::wait may return without a notification.
SpuriousWakeup(t) ==
    /\ pc[t] = "waiting"
    /\ can_read_' = can_read_ \ {t}
    /\ can_write_' = can_write_ \ {t}
    /\ pc' = [pc EXCEPT ![t] = "lock"]
    /\ UNCHANGED <<ring, is_forcefully_woken_up_, mutex_, call, ret>>

\* The threads a notification may wake.
NotifyOne(cv) == IF cv = {} THEN {{}} ELSE {{t} : t \in cv}
NotifyAll(cv) == {cv}

\* t returns n and the bytes s, releases mutex_; the threads in `woken' and t
\* move on.
Finish(t, n, s, woken) ==
    /\ ret' = [ret EXCEPT ![t] = [n |-> n, data |-> s]]
    /\ mutex_' = NoThread
    /\ pc' = [u \in Thread |-> IF u = t THEN "idle"
                               ELSE IF u \in woken THEN "lock" ELSE pc[u]]
    /\ call' = [call EXCEPT ![t] = NoCall]
    /\ UNCHANGED is_forcefully_woken_up_

Running(t, op) == pc[t] = "test" /\ call[t].op = op /\ CanGo(t)

-----------------------------------------------------------------------------
(* The bodies.                                                              *)

\* The k stored elements from ring position p on.
Copy(p, k) == [i \in 1..k |-> buffer_[(p + i - 1) % Size]]

Advance_NoMove(k) ==
    /\ curr_len_' = curr_len_ - k
    /\ UNCHANGED <<read_pos_, write_pos_, buffer_>>

Advance(k) ==
    /\ read_pos_' = (read_pos_ + k) % Size
    /\ curr_len_' = curr_len_ - k
    /\ UNCHANGED <<write_pos_, buffer_>>

write(t) ==
    LET bytes == call[t].bytes
        count == Lesser(Len(bytes), Size - curr_len_)
        Index(s) == (s - write_pos_) % Size
    IN
    /\ Running(t, "write")
    /\ buffer_' = [s \in Slot |-> IF Index(s) < count THEN bytes[Index(s) + 1]
                                  ELSE buffer_[s]]
    /\ write_pos_' = (write_pos_ + count) % Size
    /\ curr_len_' = curr_len_ + count
    /\ UNCHANGED read_pos_
    /\ \E woken \in NotifyOne(can_read_) :
         /\ can_read_' = can_read_ \ woken
         /\ Finish(t, count, <<>>, woken)
    /\ UNCHANGED can_write_

\* The common tail of read and of try_read on a non-empty buffer.
TakeFront(t) ==
    LET count == Lesser(call[t].n, curr_len_) IN
    /\ Advance(count)
    /\ \E woken \in NotifyOne(can_write_) :
         /\ can_write_' = can_write_ \ woken
         /\ Finish(t, count, Copy(read_pos_, count), woken)
    /\ UNCHANGED can_read_

read(t) == /\ Running(t, "read")
           /\ TakeFront(t)

try_read(t) ==
    /\ Running(t, "try_read")
    /\ \/ /\ curr_len_ = 0
          /\ Finish(t, 0, <<>>, {})
          /\ UNCHANGED <<ring, waiters>>
       \/ /\ curr_len_ > 0
          /\ TakeFront(t)

peek_NoOffset(t) ==
    LET count == Lesser(call[t].n, curr_len_) IN
    /\ Running(t, "peek")
    /\ Finish(t, count, Copy(read_pos_, count), {})
    /\ UNCHANGED <<ring, waiters>>

peek(t) ==
    LET offset == call[t].offset
        count == IF offset >= curr_len_ THEN 0
                 ELSE Lesser(call[t].n, curr_len_ - offset)
    IN
    /\ Running(t, "peek")
    /\ Finish(t, count, Copy((read_pos_ + offset) % Size, count), {})
    /\ UNCHANGED <<ring, waiters>>

discard_WakesNobody(t) ==
    LET to_discard == Lesser(call[t].n, curr_len_) IN
    /\ Running(t, "discard")
    /\ Advance(to_discard)
    /\ Finish(t, to_discard, <<>>, {})
    /\ UNCHANGED waiters

discard(t) ==
    LET to_discard == Lesser(call[t].n, curr_len_) IN
    /\ Running(t, "discard")
    /\ Advance(to_discard)
    /\ \E woken \in (IF to_discard > 0 THEN NotifyAll(can_write_) ELSE {{}}) :
         /\ can_write_' = can_write_ \ woken
         /\ Finish(t, to_discard, <<>>, woken)
    /\ UNCHANGED can_read_

size(t) ==
    /\ Running(t, "size")
    /\ Finish(t, curr_len_, <<>>, {})
    /\ UNCHANGED <<ring, waiters>>

available_capacity(t) ==
    /\ Running(t, "available_capacity")
    /\ Finish(t, Size - curr_len_, <<>>, {})
    /\ UNCHANGED <<ring, waiters>>

-----------------------------------------------------------------------------
(* force_wake_up_: the flag, then the two notifications, without mutex_.    *)

SetFlag(t) ==
    /\ pc[t] = "flag"
    /\ is_forcefully_woken_up_' = TRUE
    /\ pc' = [pc EXCEPT ![t] = "notify_read"]
    /\ UNCHANGED <<ring, mutex_, waiters, call, ret>>

\* notify_all on cv; t goes on to `next'.
Rouse(t, cv, next) ==
    pc' = [u \in Thread |-> IF u = t THEN next
                            ELSE IF u \in cv THEN "lock" ELSE pc[u]]

NotifyReaders(t) ==
    /\ pc[t] = "notify_read"
    /\ can_read_' = {}
    /\ Rouse(t, can_read_, "notify_write")
    /\ UNCHANGED <<ring, is_forcefully_woken_up_, mutex_, can_write_, call, ret>>

NotifyWriters(t) ==
    /\ pc[t] = "notify_write"
    /\ can_write_' = {}
    /\ Rouse(t, can_write_, "idle")
    /\ call' = [call EXCEPT ![t] = NoCall]
    /\ UNCHANGED <<ring, is_forcefully_woken_up_, mutex_, can_read_, ret>>

-----------------------------------------------------------------------------

Body(t) == \/ write(t) \/ read(t) \/ try_read(t) \/ peek(t) \/ discard(t)
           \/ size(t) \/ available_capacity(t)

\* A step a thread inside a call takes by itself.
Step(t) == \/ Acquire(t) \/ Test(t) \/ Block(t) \/ Body(t)
           \/ SetFlag(t) \/ NotifyReaders(t) \/ NotifyWriters(t)

Next == \E t \in Thread : Begin(t) \/ Step(t) \/ SpuriousWakeup(t)

Spec == Init /\ [][Next]_vars

\* A scheduled thread keeps running, and a thread that wants mutex_ is not
\* overtaken for ever.  Nobody owes the buffer a call or a spurious wake-up.
FairSpec == Spec /\ \A t \in Thread : WF_vars(Step(t)) /\ SF_vars(Acquire(t))

-----------------------------------------------------------------------------
(* Properties.                                                              *)

\* Types, with the bounds of the ring indices.
TypeOK ==
    /\ read_pos_ \in Slot /\ write_pos_ \in Slot /\ curr_len_ \in 0..Size
    /\ buffer_ \in [Slot -> Data]
    /\ is_forcefully_woken_up_ \in BOOLEAN
    /\ mutex_ \in Thread \cup {NoThread}
    /\ can_read_ \subseteq Thread /\ can_write_ \subseteq Thread
    /\ pc \in [Thread -> {"idle", "lock", "test", "block", "waiting",
                          "flag", "notify_read", "notify_write"}]
    /\ call \in [Thread -> Call \cup {NoCall}]
    /\ ret \in [Thread -> [n : Nat, data : Seq(Data)]]

\* The three indices of the ring agree: the write position is always the one
\* curr_len_ slots after the read position, so stored bytes are never skipped
\* or overwritten.
RingConsistent == write_pos_ = (read_pos_ + curr_len_) % Size

\* mutex_ protects the predicate, the wait and the body of every call, and
\* a thread is parked exactly while it is in a wait set.
LockDiscipline ==
    /\ \A t \in Thread : pc[t] \in {"test", "block"} <=> mutex_ = t
    /\ \A t \in Thread :
         (pc[t] = "waiting") <=> (t \in can_read_ \cup can_write_)
    /\ can_read_ \cap can_write_ = {}

\* No reader sleeps while there is something to read and no writer while
\* there is room, unless the buffer is being closed: with one reader and one
\* writer each notify_one reaches the thread that needs it.
OneEach ==
    \A t, u \in Thread : \A op \in {"read", "write"} :
        op \in Ops[t] /\ op \in Ops[u] => t = u
NobodyOversleeps ==
    ~ is_forcefully_woken_up_ =>
        /\ can_read_ # {} => curr_len_ = 0
        /\ can_write_ # {} => curr_len_ = Size

\* The ring buffer implements the bounded FIFO queue, whatever the
\* interleaving: every call is answered as if it ran alone at one moment
\* between its start and its return, nothing is lost, duplicated or reordered,
\* and a blocking call returns short only once the buffer is closed.
Contents == [i \in 1..curr_len_ |-> buffer_[(read_pos_ + i - 1) % Size]]
Queue == INSTANCE ByteQueue WITH q <- Contents,
                                 released <- is_forcefully_woken_up_
ImplementsQueue == Queue!Spec

\* "Called by the TCB to force wake up the closing socket" (BlockingBuffer.h:37):
\* once the flag is set no thread stays parked for ever.
ForceWakeUpWakes ==
    \A t \in Thread :
        is_forcefully_woken_up_ /\ pc[t] = "waiting" ~> pc[t] # "waiting"
=============================================================================
