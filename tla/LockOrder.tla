------------------------------ MODULE LockOrder ------------------------------
(***************************************************************************)
(* The mutexes of a stack, and the order in which its threads take them.    *)
(*                                                                          *)
(* An operation is reduced to its paths: the sequences of lock, unlock and  *)
(* condition-variable wait that the code can go through.  What the critical *)
(* sections do is left to the other modules; which of its paths a call      *)
(* takes is chosen freely.                                                  *)
(***************************************************************************)
EXTENDS Integers, Sequences

CONSTANTS
    App,             \* the application threads; the daemon is one more
    Daemon,
    Block,           \* control blocks of connections
    Listener,        \* control block of a listening socket
    level_,          \* Logger::level_: DEBUG 0, INFO 1, WARN 2, ERROR 3
    MaxCalls         \* bound: calls and daemon rounds begun

ASSUME DaemonAssumption == Daemon \notin App
ASSUME NumbersAssumption == level_ \in Nat /\ MaxCalls \in Nat

Thread == App \cup {Daemon}

-----------------------------------------------------------------------------
(* Sets of paths.                                                           *)

Lock(m) == [do |-> "lock", m |-> m]
Unlock(m) == [do |-> "unlock", m |-> m]
Wait(m) == [do |-> "wait", m |-> m]

Nothing == {<<>>}
A ++ B == {a \o b : a \in A, b \in B}
Maybe(A) == A \cup Nothing
\* A critical section that takes no further lock is one step.
Touch(m) == [do |-> "touch", m |-> m]
Guarded(m, body) == {IF b = <<>> THEN <<Touch(m)>>
                     ELSE <<Lock(m)>> \o b \o <<Unlock(m)>> : b \in body}
\* A predicate evaluated under m, perhaps again after a wait.
AwaitUnder(m, predicate) == predicate ++ Maybe({<<Wait(m)>>} ++ predicate)

\* Logger::Write: the level is compared before the lock is taken.  A line is
\* written once, when it is destroyed at the end of its statement, whatever
\* locks the statement runs under; moving it from the tag writes nothing.
Write(level) == IF level < level_ THEN Nothing ELSE Guarded(<<"log">>, Nothing)
Line(level) == Nothing ++ Write(level)
INFO == Line(1)
WARN == Line(2)
ERROR == Line(3)

-----------------------------------------------------------------------------
(* The tables, the buffers and the control block.                           *)

InSocketTable == Guarded(<<"sockets">>, Nothing)
create_socket == InSocketTable
destroy_socket == InSocketTable
contains == InSocketTable
get_tcb == InSocketTable

\* ListenerTable::find and ListenerTable::contains.
FindListener == Guarded(<<"listeners">>, Maybe(contains))
bind_new_SocketsFirst ==
    Guarded(<<"sockets">>, Guarded(<<"listeners">>, Nothing))
bind_new == Guarded(<<"listeners">>, create_socket)

FindConnection == Guarded(<<"connections">>, Maybe(contains))
\* ConnectionTable::insert and ConnectionTable::erase.
InConnectionTable == Guarded(<<"connections">>, Nothing)
register_connection ==
    Guarded(<<"connections">>, create_socket \cup (contains ++ (create_socket \cup get_tcb)))
destroy_connection == InConnectionTable ++ Maybe(destroy_socket)

\* A buffer operation that does not wait, and one that may.
OnBuffer(b, which) == Guarded(<<b, which>>, Nothing)
OnBufferWaiting(b, which) ==
    Guarded(<<b, which>>, AwaitUnder(<<b, which>>, Nothing))

set_state(b) == Guarded(<<b, "state">>, Nothing)

-----------------------------------------------------------------------------
(* TcpStack.                                                                *)

write_packet_ == Maybe(Guarded(<<"loopback">>, Nothing))

send_control_packet_(b) == OnBuffer(b, "recv_buffer") ++ write_packet_

add_dirty_tcb == contains ++ Maybe(Guarded(<<"stack">>, Nothing))

\* Copying bytes out of the send buffer into a segment.
SendSegment(b) == OnBuffer(b, "recv_buffer") ++ write_packet_

process_block_(b) ==
    get_tcb ++ Maybe(
      send_control_packet_(b)
      \cup (OnBuffer(b, "send_buffer") ++ Maybe(
              SendSegment(b) ++ OnBuffer(b, "send_buffer") ++ Maybe(add_dirty_tcb))))

process_dirty_blocks_ ==
    Guarded(<<"stack">>, Nothing) ++ UNION {process_block_(b) : b \in Block}

SwapLoopback == Guarded(<<"loopback">>, Nothing)

check_retransmissions__Looks ==
    Guarded(<<"sockets">>, Maybe(UNION {
        get_tcb ++ OnBuffer(b, "send_buffer") ++ Maybe(SendSegment(b)) : b \in Block}))

\* for_each_socket holds the table's mutex around the callback.
check_retransmissions_ ==
    Guarded(<<"sockets">>, Maybe(UNION {
        OnBuffer(b, "send_buffer") ++ Maybe(SendSegment(b)) : b \in Block}))

handle_closed_reset_response_ == write_packet_

handle_passive_open_syn_(b) ==
    FindListener ++ Maybe(
      INFO ++ create_socket ++ get_tcb ++ Maybe(
        InConnectionTable ++ INFO ++ send_control_packet_(b)))

handle_syn_sent_state_(b) ==
    Maybe(INFO ++ set_state(b))
    \cup (WARN ++ Maybe(send_control_packet_(b)))
    \cup (INFO ++ set_state(b) ++ Maybe(INFO) ++ send_control_packet_(b))

handle_syn_received_state_(b) ==
    (INFO ++ set_state(b) ++ InConnectionTable ++ destroy_socket)
    \cup Maybe(WARN)
    \cup (INFO ++ set_state(b) ++ FindListener
          ++ Maybe(get_tcb ++ Maybe(Guarded(<<Listener, "state">>, Nothing)))
          ++ Maybe(send_control_packet_(b)))

handle_established_state__WritesLocked(b) ==
    OnBuffer(b, "send_buffer")
    ++ Guarded(<<b, "state">>, OnBufferWaiting(b, "recv_buffer"))
    ++ send_control_packet_(b)

handle_established_state_(b) ==
    (INFO ++ send_control_packet_(b) ++ set_state(b))
    \cup (Maybe(Maybe(OnBuffer(b, "send_buffer")) ++ Guarded(<<b, "state">>, Nothing)
                ++ OnBuffer(b, "send_buffer") ++ Maybe(add_dirty_tcb))
          ++ Maybe(OnBufferWaiting(b, "recv_buffer") ++ send_control_packet_(b)))

\* handle_fin_wait_1_state_, handle_fin_wait_2_state_, handle_closing_state_
\* and handle_last_ack_state_.
HandleTeardown(b) ==
    Maybe(INFO ++ Maybe(send_control_packet_(b)) ++ set_state(b)
          ++ Maybe(destroy_connection))

process_incoming_packet_ ==
    FindConnection ++
      ((FindListener ++ (handle_closed_reset_response_
                         \cup UNION {handle_passive_open_syn_(b) : b \in Block}))
       \cup (get_tcb ++ (handle_closed_reset_response_
                         \cup UNION {handle_passive_open_syn_(b) : b \in Block}))
       \cup (get_tcb ++ get_tcb ++ UNION {
               handle_syn_sent_state_(b) \cup handle_syn_received_state_(b)
               \cup handle_established_state_(b) \cup HandleTeardown(b) : b \in Block}))

\* The parts lifecycle_ goes through, in any order.
lifecycle_ ==
    process_dirty_blocks_ \cup SwapLoopback \cup process_incoming_packet_
    \cup check_retransmissions_

close_connection(b) ==
    get_tcb ++ Maybe(INFO ++
      ((process_block_(b) ++ set_state(b) ++ set_state(b) ++ send_control_packet_(b))
       \cup (set_state(b) ++ destroy_connection)))

\* One probe of allocate_ephemeral_port; the loop repeats it.
allocate_ephemeral_port == FindListener

-----------------------------------------------------------------------------
(* TcpSocket.                                                               *)

bind == Maybe(allocate_ephemeral_port) ++ INFO ++ bind_new ++ get_tcb

listen == get_tcb ++ (INFO \cup WARN)

connect(b) ==
    Maybe(get_tcb) ++ Maybe(allocate_ephemeral_port) ++ register_connection
    ++ get_tcb ++ INFO ++ set_state(b) ++ add_dirty_tcb
    ++ Guarded(<<b, "state">>, AwaitUnder(<<b, "state">>, get_tcb) ++ get_tcb ++ Maybe(INFO))

accept ==
    get_tcb ++
      (WARN \cup (INFO ++ Guarded(<<Listener, "state">>,
                    AwaitUnder(<<Listener, "state">>, get_tcb) ++ get_tcb
                    ++ (ERROR \cup (get_tcb ++ Maybe(INFO))))))

send(b) == get_tcb ++ Maybe(OnBufferWaiting(b, "send_buffer") ++ add_dirty_tcb)

recv(b) == get_tcb ++ Maybe(OnBufferWaiting(b, "recv_buffer"))

Calls == bind \cup listen \cup accept
         \cup UNION {connect(b) \cup send(b) \cup recv(b) \cup close_connection(b) : b \in Block}

-----------------------------------------------------------------------------
(* The threads.                                                             *)

VARIABLES
    calls,           \* calls begun so far
    todo,            \* what is left of each thread's path
    held,            \* the mutexes each thread holds
    asleep           \* the threads in a wait

vars == <<calls, todo, held, asleep>>

Init ==
    /\ calls = 0
    /\ todo = [t \in Thread |-> <<>>]
    /\ held = [t \in Thread |-> {}]
    /\ asleep = {}

Begin(t) ==
    /\ todo[t] = <<>>
    /\ calls < MaxCalls
    /\ calls' = calls + 1
    /\ \E path \in IF t = Daemon THEN lifecycle_ ELSE Calls :
         todo' = [todo EXCEPT ![t] = path]
    /\ UNCHANGED <<held, asleep>>

At(t, do) == t \notin asleep /\ todo[t] # <<>> /\ Head(todo[t]).do = do
Want(t) == Head(todo[t]).m

Acquire(t) ==
    /\ At(t, "lock")
    /\ \A u \in Thread : Want(t) \notin held[u]
    /\ held' = [held EXCEPT ![t] = @ \cup {Want(t)}]
    /\ todo' = [todo EXCEPT ![t] = Tail(@)]
    /\ UNCHANGED <<calls, asleep>>

\* A lock that is given back before the thread wants another one.
Pass(t) ==
    /\ At(t, "touch")
    /\ \A u \in Thread : Want(t) \notin held[u]
    /\ todo' = [todo EXCEPT ![t] = Tail(@)]
    /\ UNCHANGED <<calls, held, asleep>>

Release(t) ==
    /\ At(t, "unlock")
    /\ held' = [held EXCEPT ![t] = @ \ {Want(t)}]
    /\ todo' = [todo EXCEPT ![t] = Tail(@)]
    /\ UNCHANGED <<calls, asleep>>

\* condition_variable::wait gives the mutex back, sleeps, and takes it again.
Sleep(t) ==
    /\ At(t, "wait")
    /\ held' = [held EXCEPT ![t] = @ \ {Want(t)}]
    /\ todo' = [todo EXCEPT ![t] = <<Lock(Want(t))>> \o Tail(@)]
    /\ asleep' = asleep \cup {t}
    /\ UNCHANGED calls

\* A notification, or a spurious wake-up.
Wake(t) ==
    /\ t \in asleep
    /\ asleep' = asleep \ {t}
    /\ UNCHANGED <<calls, todo, held>>

Step(t) == Acquire(t) \/ Pass(t) \/ Release(t) \/ Sleep(t)

Next == \E t \in Thread : Begin(t) \/ Step(t) \/ Wake(t)

Spec == Init /\ [][Next]_vars

\* A runnable thread is scheduled; nobody promises a sleeper its wake-up.
FairSpec == Spec /\ \A t \in Thread : WF_vars(Step(t))

-----------------------------------------------------------------------------
(* Properties.                                                              *)

\* No group of threads waits for mutexes that only the group holds, and no
\* thread for one it holds itself: the callbacks run under a lock
\* (for_each_socket, the predicates of connect and accept) and the tables that
\* look into the socket table do not close a cycle of locks.
Blocked(t, S) == (At(t, "lock") \/ At(t, "touch")) /\ \E u \in S : Want(t) \in held[u]
NoDeadlock == \A S \in (SUBSET Thread) \ {{}} : \E t \in S : ~ Blocked(t, S)

\* A thread that waits on a condition variable, for as long as it takes, keeps
\* no other mutex from anybody: connect and accept give up state_mutex, write
\* and read the buffer's, and no caller has wrapped them in another lock.
SleepersHoldNothing == \A t \in asleep : held[t] = {}

\* When no more calls begin, all mutexes come free, whatever becomes of the
\* sleepers: nobody keeps one while it waits for something else than a mutex.
LocksComeFree == <>[](\A t \in Thread : held[t] = {})
=============================================================================
