---------------------------- MODULE EphemeralPorts ----------------------------
(***************************************************************************)
(* TcpStack::allocate_ephemeral_port at the width of a uint16_t counter,    *)
(* called from several threads: bind and connect with port 0.  The counter  *)
(* is a static atomic, so each of its fetch_adds and its store is one step, *)
(* and so is each look at the listener table.  A port handed to connect     *)
(* goes into the connection table only, which the allocator never reads.    *)
(***************************************************************************)
EXTENDS Integers

CONSTANTS Thread,    \* the calling threads
          PortMod,   \* ports are 0 .. PortMod-1 (2^16 in the code)
          First,     \* the first ephemeral port (49152)
          Tries,     \* candidates an allocation looks at (16384)
          Chosen,    \* ports applications bind by number
          Mortal     \* bound ports whose sockets may be destroyed meanwhile

ASSUME RangeAssumption ==
    /\ PortMod \in Nat /\ First \in 1 .. PortMod - 2
    /\ Tries = PortMod - First
ASSUME ChosenAssumption == Chosen \subseteq 0 .. PortMod - 1

VARIABLES
    next_port,   \* the static counter
    listeners_,  \* ports with a live listening socket
    pc,          \* per thread: "idle", "fetch", "reset", "probe", "use", "last"
    i,           \* its loop counter
    candidate,
    callers      \* the threads that allocate ports in this run

vars == <<next_port, listeners_, pc, i, candidate, callers>>

Port == 0 .. PortMod - 1
\* The ports the loop can return: the last one of the range is never used.
Ephemeral == First .. PortMod - 2

Init ==
    /\ next_port = First
    /\ listeners_ = {}
    /\ pc = [t \in Thread |-> "idle"]
    /\ i = [t \in Thread |-> 0]
    /\ candidate = [t \in Thread |-> 0]
    /\ callers \in (SUBSET Thread) \ {{}}

Goto(t, at) == pc' = [pc EXCEPT ![t] = at]
fetch_add_NoWrap == next_port' = next_port + 1
fetch_add == next_port' = (next_port + 1) % PortMod

\* The loop starts counting at one.
Call_OneTryLess(t) ==
    /\ pc[t] = "idle" /\ t \in callers
    /\ i' = [i EXCEPT ![t] = 1]
    /\ Goto(t, "fetch")
    /\ UNCHANGED <<next_port, listeners_, candidate>>

\* A call with port 0, for a bind or a connect.
Call(t) ==
    /\ pc[t] = "idle" /\ t \in callers
    /\ Goto(t, "fetch")
    /\ UNCHANGED <<next_port, listeners_, i, candidate>>

Fetch_NoLowCheck(t) ==
    /\ pc[t] = "fetch" /\ i[t] < Tries
    /\ fetch_add
    /\ candidate' = [candidate EXCEPT ![t] = next_port]
    /\ Goto(t, IF next_port >= PortMod - 1 THEN "reset" ELSE "probe")
    /\ UNCHANGED <<listeners_, i>>

\* The next candidate, as long as there are tries left.
Fetch(t) ==
    /\ pc[t] = "fetch" /\ i[t] < Tries
    /\ fetch_add
    /\ candidate' = [candidate EXCEPT ![t] = next_port]
    /\ Goto(t, IF next_port >= PortMod - 1 \/ next_port < First
               THEN "reset" ELSE "probe")
    /\ UNCHANGED <<listeners_, i>>

\* Back to the start of the range.
Reset(t) ==
    /\ pc[t] = "reset"
    /\ next_port' = First
    /\ candidate' = [candidate EXCEPT ![t] = First]
    /\ Goto(t, "probe")
    /\ UNCHANGED <<listeners_, i>>

Probe(t) ==
    /\ pc[t] = "probe"
    /\ \/ /\ candidate[t] \notin listeners_
          /\ Goto(t, "use")
          /\ UNCHANGED i
       \/ /\ candidate[t] \in listeners_
          /\ i' = [i EXCEPT ![t] = @ + 1]
          /\ Goto(t, "fetch")
    /\ UNCHANGED <<next_port, listeners_, candidate>>

\* All candidates were taken: the counter is handed out as it is.
Fallback(t) ==
    /\ pc[t] = "fetch" /\ i[t] = Tries
    /\ fetch_add
    /\ candidate' = [candidate EXCEPT ![t] = next_port]
    /\ Goto(t, "last")
    /\ UNCHANGED <<listeners_, i>>

\* The caller puts the port to use: bind_new, or register_connection, which
\* leaves the listener table alone.
Use(t) ==
    /\ pc[t] \in {"use", "last"}
    /\ \/ listeners_' = listeners_ \cup {candidate[t]}
       \/ UNCHANGED listeners_
    /\ i' = [i EXCEPT ![t] = 0]
    /\ candidate' = [candidate EXCEPT ![t] = 0]
    /\ Goto(t, "idle")
    /\ UNCHANGED next_port

\* An application binds a port of its own choice.
BindChosen ==
    /\ \E p \in Chosen \ listeners_ : listeners_' = listeners_ \cup {p}
    /\ UNCHANGED <<next_port, pc, i, candidate>>

\* The socket of a bound port is destroyed: contains no longer finds it.
Destroy ==
    /\ \E p \in Mortal \cap listeners_ : listeners_' = listeners_ \ {p}
    /\ UNCHANGED <<next_port, pc, i, candidate>>

allocate_ephemeral_port(t) ==
    Call(t) \/ Fetch(t) \/ Reset(t) \/ Probe(t) \/ Fallback(t) \/ Use(t)

Next == /\ \/ \E t \in Thread : allocate_ephemeral_port(t)
           \/ BindChosen \/ Destroy
        /\ UNCHANGED callers

Spec == Init /\ [][Next]_vars

-----------------------------------------------------------------------------
(* Properties.                                                              *)

\* Types; the counter stays a 16-bit number.
TypeOK ==
    /\ next_port \in Port /\ listeners_ \subseteq Port
    /\ pc \in [Thread -> {"idle", "fetch", "reset", "probe", "use", "last"}]
    /\ i \in [Thread -> 0..Tries]
    /\ candidate \in [Thread -> Port]
    /\ callers \subseteq Thread

\* Whatever the threads do to the counter, the loop of allocate_ephemeral_port
\* returns a port of 49152..65534: no thread slips through with the candidate it
\* fetched past the end of the range.
AllocatedInRange == \A t \in Thread : pc[t] \in {"probe", "use"} => candidate[t] \in Ephemeral

\* A caller that has the counter to itself gives up only when every port the
\* loop may return has a listener, those aside whose sockets are destroyed
\* meanwhile: its 16384 tries, one of them spent on the wrap, reach all 16383
\* ports from wherever the counter stood.
GivesUpOnlyWhenFull ==
    \A t \in Thread : pc[t] = "last" /\ callers = {t} =>
        Ephemeral \ Mortal \subseteq listeners_
=============================================================================
