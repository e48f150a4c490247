--------------------------- MODULE LockOrderProofs ---------------------------
(***************************************************************************)
(* The threads of a stack cannot deadlock and a sleeper holds no mutex,     *)
(* proved for every number of application threads and of connections, every *)
(* log level and every number of calls.                                     *)
(*                                                                          *)
(* The argument is a lock order.  A path never holds more than one lock for *)
(* several steps, and under that lock it only touches mutexes of a higher   *)
(* rank or waits on the lock itself.                                        *)
(***************************************************************************)
EXTENDS LockOrder, TLAPS

Mutex == {<<"log">>, <<"sockets">>, <<"listeners">>, <<"connections">>, <<"loopback">>, <<"stack">>}
         \cup (Block \cup {Listener}) \X {"state", "send_buffer", "recv_buffer"}

\* state_mutex before the tables, the table of connections or listeners before
\* that of the sockets, and that before the rest.
Rank(m) == IF m \in (Block \cup {Listener}) \X {"state"} THEN 0
           ELSE IF m \in {<<"listeners">>, <<"connections">>} THEN 1
           ELSE IF m = <<"sockets">> THEN 2
           ELSE 3

\* A thread that holds x may go on to m.
Below(x, m) == \A n \in x : Rank(n) < Rank(m)

\* One step takes a thread from holding x to holding y.
Fits(s, x, y) ==
    \/ s.do = "lock" /\ x = {} /\ y = {s.m}
    \/ s.do = "unlock" /\ x = {s.m} /\ y = {}
    \/ s.do = "wait" /\ x = {s.m} /\ y = x
    \/ s.do = "touch" /\ y = x /\ Below(x, s.m)

Steps == [do : {"lock", "unlock", "wait", "touch"}, m : Mutex]

\* The path p takes a thread from holding x to holding y; H[i] is what it holds
\* after i steps.
Path(p, x, y) ==
    /\ p \in Seq(Steps)
    /\ \E H \in [0..Len(p) -> SUBSET Mutex] :
         /\ H[0] = x /\ H[Len(p)] = y
         /\ \A i \in 1..Len(p) : Fits(p[i], H[i - 1], H[i])

\* Every path of A may be gone through while x is held, and then x is held again.
Runs(A, x) == \A p \in A : Path(p, x, x)

\* The inductive invariant: what is left of a path begins with what is held.
LockInv ==
    /\ todo \in [Thread -> Seq(Steps)]
    /\ held \in [Thread -> SUBSET Mutex]
    /\ \A t \in Thread : Path(todo[t], held[t], {})
    /\ asleep \subseteq Thread
    /\ \A t \in asleep : held[t] = {}

-----------------------------------------------------------------------------
(* Paths.                                                                   *)

\* The empty path changes nothing.
LEMMA EmptyPath ==
  ASSUME NEW x \in SUBSET Mutex
  PROVE  Path(<<>>, x, x)
<1>1. <<>> \in Seq(Steps) /\ Len(<<>>) = 0
  OBVIOUS
<1> DEFINE H == [i \in 0..0 |-> x]
<1>2. H \in [0..0 -> SUBSET Mutex] /\ H[0] = x
  OBVIOUS
<1> HIDE DEF H
<1> QED
  BY <1>1, <1>2 DEF Path

\* A single step.
LEMMA StepPath ==
  ASSUME NEW x \in SUBSET Mutex, NEW y \in SUBSET Mutex, NEW s \in Steps, Fits(s, x, y)
  PROVE  Path(<<s>>, x, y)
<1>1. <<s>> \in Seq(Steps) /\ Len(<<s>>) = 1 /\ <<s>>[1] = s
  OBVIOUS
<1> DEFINE H == [i \in 0..1 |-> IF i = 0 THEN x ELSE y]
<1>2. H \in [0..1 -> SUBSET Mutex] /\ H[0] = x /\ H[1] = y
  OBVIOUS
<1> HIDE DEF H
<1>3. \A i \in 1..1 : Fits(<<s>>[i], H[i - 1], H[i])
  <2>1. \A i \in 1..1 : i = 1 /\ i - 1 = 0
    OBVIOUS
  <2> QED
    BY <1>1, <1>2, <2>1
<1> QED
  BY <1>1, <1>2, <1>3 DEF Path

\* Paths that meet are one path.
LEMMA JoinedPath ==
  ASSUME NEW a, NEW b, NEW x, NEW y, NEW z, Path(a, x, y), Path(b, y, z)
  PROVE  Path(a \o b, x, z)
<1>1. a \in Seq(Steps) /\ b \in Seq(Steps)
  BY DEF Path
<1>2. PICK G \in [0..Len(a) -> SUBSET Mutex] :
         /\ G[0] = x /\ G[Len(a)] = y
         /\ \A i \in 1..Len(a) : Fits(a[i], G[i - 1], G[i])
  BY DEF Path
<1>3. PICK K \in [0..Len(b) -> SUBSET Mutex] :
         /\ K[0] = y /\ K[Len(b)] = z
         /\ \A i \in 1..Len(b) : Fits(b[i], K[i - 1], K[i])
  BY DEF Path
<1> DEFINE l == Len(a)
           n == Len(b)
           c == a \o b
           H == [i \in 0..l + n |-> IF i <= l THEN G[i] ELSE K[i - l]]
<1>4. /\ l \in Nat /\ n \in Nat /\ c \in Seq(Steps) /\ Len(c) = l + n
      /\ \A i \in 1..l : c[i] = a[i]
      /\ \A i \in l + 1 .. l + n : c[i] = b[i - l]
  BY <1>1
<1>5. ASSUME NEW i \in 0..l + n PROVE H[i] \in SUBSET Mutex
  <2>1. CASE i <= l
    <3>1. i \in 0..l /\ H[i] = G[i]
      BY <1>4, <2>1
    <3> QED
      BY <1>2, <3>1
  <2>2. CASE ~ (i <= l)
    <3>1. i - l \in 0..n /\ H[i] = K[i - l]
      BY <1>4, <2>2
    <3> QED
      BY <1>3, <3>1
  <2> QED
    BY <2>1, <2>2
<1>6. H \in [0..l + n -> SUBSET Mutex]
  BY <1>5
<1>7. H[0] = x /\ H[l] = y
  BY <1>2, <1>4
<1>8. H[l + n] = z
  <2>1. CASE n = 0
    BY <1>2, <1>3, <1>4, <2>1
  <2>2. CASE n # 0
    <3>1. ~ (l + n <= l) /\ (l + n) - l = n /\ l + n \in 0..l + n
      BY <1>4, <2>2
    <3> QED
      BY <1>3, <3>1
  <2> QED
    BY <2>1, <2>2
<1>9. ASSUME NEW i \in 1..l + n PROVE Fits(c[i], H[i - 1], H[i])
  <2>1. CASE i <= l
    <3>1. i \in 1..l /\ i - 1 <= l /\ i - 1 \in 0..l + n /\ i \in 0..l + n
      BY <1>4, <2>1
    <3>2. c[i] = a[i] /\ H[i] = G[i] /\ H[i - 1] = G[i - 1]
      BY <1>4, <2>1, <3>1
    <3> HIDE DEF H, c
    <3> QED
      BY <1>2, <3>1, <3>2
  <2>2. CASE i > l
    <3>1. /\ i \in l + 1 .. l + n /\ i - 1 \in 0..l + n /\ i \in 0..l + n
          /\ i - l \in 1..n /\ (i - 1) - l = (i - l) - 1 /\ ~ (i <= l)
      BY <1>4, <2>2
    <3>2. c[i] = b[i - l] /\ H[i] = K[i - l]
      BY <1>4, <3>1
    <3>3. H[i - 1] = K[(i - l) - 1]
      <4>1. CASE i - 1 <= l
        <5>1. i - 1 = l /\ (i - l) - 1 = 0
          BY <1>4, <3>1, <4>1
        <5> QED
          BY <1>3, <1>7, <5>1
      <4>2. CASE ~ (i - 1 <= l)
        BY <3>1, <4>2
      <4> QED
        BY <4>1, <4>2
    <3> HIDE DEF H, c
    <3> QED
      BY <1>3, <3>1, <3>2, <3>3
  <2> QED
    BY <1>4, <2>1, <2>2
<1> HIDE DEF H, c
<1>10. \E h \in [0..Len(c) -> SUBSET Mutex] :
         /\ h[0] = x /\ h[Len(c)] = z
         /\ \A i \in 1..Len(c) : Fits(c[i], h[i - 1], h[i])
  BY <1>4, <1>6, <1>7, <1>8, <1>9
<1> QED
  BY <1>4, <1>10 DEF Path, c

\* What remains of a path after its first step.
LEMMA RestOfPath ==
  ASSUME NEW p, NEW x, NEW y, Path(p, x, y), p # <<>>
  PROVE  /\ Head(p) \in Steps /\ Tail(p) \in Seq(Steps)
         /\ \E w \in SUBSET Mutex : Fits(Head(p), x, w) /\ Path(Tail(p), w, y)
<1>1. p \in Seq(Steps) /\ Len(p) \in Nat /\ Len(p) >= 1
  BY DEF Path
<1>2. PICK H \in [0..Len(p) -> SUBSET Mutex] :
         /\ H[0] = x /\ H[Len(p)] = y
         /\ \A i \in 1..Len(p) : Fits(p[i], H[i - 1], H[i])
  BY DEF Path
<1> DEFINE q == Tail(p)
           n == Len(p) - 1
           K == [i \in 0..n |-> H[i + 1]]
<1>3. /\ Head(p) = p[1] /\ Head(p) \in Steps /\ q \in Seq(Steps) /\ Len(q) = n
      /\ \A i \in 1..n : q[i] = p[i + 1]
  BY <1>1
<1>4. n \in Nat /\ n + 1 = Len(p)
  BY <1>1
<1>5. ASSUME NEW i \in 0..n PROVE K[i] \in SUBSET Mutex
  <2>1. i + 1 \in 0..Len(p)
    BY <1>4
  <2> QED
    BY <1>2, <2>1
<1>6. K \in [0..n -> SUBSET Mutex]
  BY <1>5
<1>7. K[0] = H[1] /\ K[n] = y
  BY <1>2, <1>4
<1>8. ASSUME NEW i \in 1..n PROVE Fits(q[i], K[i - 1], K[i])
  <2>1. i + 1 \in 1..Len(p) /\ (i + 1) - 1 = i /\ i - 1 \in 0..n /\ i \in 0..n /\ (i - 1) + 1 = i
    BY <1>4
  <2>2. Fits(p[i + 1], H[i], H[i + 1])
    BY <1>2, <2>1
  <2> QED
    BY <1>3, <2>1, <2>2
<1>9. Fits(Head(p), x, H[1]) /\ H[1] \in SUBSET Mutex
  <2>1. 1 \in 1..Len(p) /\ 1 \in 0..Len(p) /\ 1 - 1 = 0
    BY <1>1
  <2> QED
    BY <1>2, <1>3, <2>1
<1> HIDE DEF K, q
<1>10. \E h \in [0..Len(q) -> SUBSET Mutex] :
         /\ h[0] = H[1] /\ h[Len(q)] = y
         /\ \A i \in 1..Len(q) : Fits(q[i], h[i - 1], h[i])
  BY <1>3, <1>6, <1>7, <1>8
<1>11. Path(q, H[1], y)
  BY <1>3, <1>10 DEF Path
<1> QED
  BY <1>3, <1>9, <1>11 DEF q

-----------------------------------------------------------------------------
(* Sets of paths.                                                           *)

\* The sets of paths are closed under what they are built with.
LEMMA RunsBuilt ==
  ASSUME NEW x \in SUBSET Mutex
  PROVE  /\ Runs(Nothing, x)
         /\ \A A, B : Runs(A, x) /\ Runs(B, x) => Runs(A ++ B, x) /\ Runs(A \cup B, x)
         /\ \A A : Runs(A, x) => Runs(Maybe(A), x)
<1>1. Runs(Nothing, x)
  BY EmptyPath DEF Runs, Nothing
<1>2. ASSUME NEW A, NEW B, Runs(A, x), Runs(B, x)
      PROVE  Runs(A ++ B, x) /\ Runs(A \cup B, x)
  <2>1. ASSUME NEW p \in A ++ B PROVE Path(p, x, x)
    <3>1. PICK a \in A, b \in B : p = a \o b
      BY DEF ++
    <3> QED
      BY <1>2, <3>1, JoinedPath DEF Runs
  <2> QED
    BY <1>2, <2>1 DEF Runs
<1>3. ASSUME NEW A, Runs(A, x) PROVE Runs(Maybe(A), x)
  BY <1>1, <1>3 DEF Runs, Maybe
<1> QED
  BY <1>1, <1>2, <1>3

\* A critical section that takes no further lock.
LEMMA RunsTouch ==
  ASSUME NEW x \in SUBSET Mutex, NEW m \in Mutex, Below(x, m)
  PROVE  Runs(Guarded(m, Nothing), x)
<1>1. Touch(m) \in Steps /\ Fits(Touch(m), x, x)
  BY DEF Touch, Steps, Fits
<1>2. Path(<<Touch(m)>>, x, x)
  BY <1>1, StepPath
<1> QED
  BY <1>2 DEF Runs, Guarded, Nothing

\* A critical section whose body runs under its mutex.
LEMMA RunsGuarded ==
  ASSUME NEW m \in Mutex, NEW body, Runs(body, {m})
  PROVE  Runs(Guarded(m, body), {})
<1>1. /\ Lock(m) \in Steps /\ Unlock(m) \in Steps /\ Touch(m) \in Steps
      /\ Fits(Lock(m), {}, {m}) /\ Fits(Unlock(m), {m}, {}) /\ Fits(Touch(m), {}, {})
  BY DEF Lock, Unlock, Touch, Steps, Fits, Below
<1>2. {} \in SUBSET Mutex /\ {m} \in SUBSET Mutex
  OBVIOUS
<1>3. /\ Path(<<Lock(m)>>, {}, {m}) /\ Path(<<Unlock(m)>>, {m}, {}) /\ Path(<<Touch(m)>>, {}, {})
  BY <1>1, <1>2, StepPath
<1>4. ASSUME NEW b \in body PROVE Path(<<Lock(m)>> \o b \o <<Unlock(m)>>, {}, {})
  <2>1. Path(b, {m}, {m})
    BY DEF Runs
  <2>2. Path(<<Lock(m)>> \o b, {}, {m})
    BY <1>3, <2>1, JoinedPath
  <2> QED
    BY <1>3, <2>2, JoinedPath
<1> QED
  BY <1>3, <1>4 DEF Runs, Guarded

\* A predicate that runs under the mutex may wait there.
LEMMA RunsAwait ==
  ASSUME NEW m \in Mutex, NEW predicate, Runs(predicate, {m})
  PROVE  Runs(AwaitUnder(m, predicate), {m})
<1>1. Wait(m) \in Steps /\ Fits(Wait(m), {m}, {m}) /\ {m} \in SUBSET Mutex
  BY DEF Wait, Steps, Fits
<1>2. Runs({<<Wait(m)>>}, {m})
  BY <1>1, StepPath DEF Runs
<1> QED
  BY <1>1, <1>2, RunsBuilt DEF AwaitUnder

-----------------------------------------------------------------------------
(* The operations, from the tables up.                                      *)

\* The mutexes and their ranks.
LEMMA Ranks ==
  /\ \A b \in Block \cup {Listener} :
       /\ <<b, "state">> \in Mutex /\ Rank(<<b, "state">>) = 0
       /\ <<b, "send_buffer">> \in Mutex /\ Rank(<<b, "send_buffer">>) = 3
       /\ <<b, "recv_buffer">> \in Mutex /\ Rank(<<b, "recv_buffer">>) = 3
  /\ {<<"listeners">>, <<"connections">>, <<"sockets">>, <<"loopback">>, <<"stack">>, <<"log">>}
       \subseteq Mutex
  /\ Rank(<<"listeners">>) = 1 /\ Rank(<<"connections">>) = 1 /\ Rank(<<"sockets">>) = 2
  /\ Rank(<<"loopback">>) = 3 /\ Rank(<<"stack">>) = 3 /\ Rank(<<"log">>) = 3
  /\ \A m : Rank(m) \in 0..3
<1>1. \A m : Rank(m) \in 0..3
  BY DEF Rank
<1>2. ASSUME NEW b \in Block \cup {Listener}
      PROVE  /\ <<b, "state">> \in Mutex /\ Rank(<<b, "state">>) = 0
             /\ <<b, "send_buffer">> \in Mutex /\ Rank(<<b, "send_buffer">>) = 3
             /\ <<b, "recv_buffer">> \in Mutex /\ Rank(<<b, "recv_buffer">>) = 3
  BY DEF Mutex, Rank
<1>3. \A s : <<s>> \notin (Block \cup {Listener}) \X {"state"}
  OBVIOUS
<1>4. /\ Rank(<<"listeners">>) = 1 /\ Rank(<<"connections">>) = 1 /\ Rank(<<"sockets">>) = 2
      /\ Rank(<<"loopback">>) = 3 /\ Rank(<<"stack">>) = 3 /\ Rank(<<"log">>) = 3
  BY <1>3 DEF Rank
<1>5. {<<"listeners">>, <<"connections">>, <<"sockets">>, <<"loopback">>, <<"stack">>, <<"log">>}
        \subseteq Mutex
  BY DEF Mutex
<1> QED
  BY <1>1, <1>2, <1>4, <1>5

\* What a thread may hold when it enters an operation that only touches.
Outer == {{}, {<<"listeners">>}, {<<"connections">>}}
         \cup {{<<b, "state">>} : b \in Block \cup {Listener}}

\* The socket table and the log may be used under the locks of the other tables
\* and under a state_mutex.
LEMMA RunsInner ==
  ASSUME NEW x \in Outer
  PROVE  /\ x \in SUBSET Mutex
         /\ Runs(create_socket, x) /\ Runs(destroy_socket, x)
         /\ Runs(contains, x) /\ Runs(get_tcb, x)
         /\ Runs(INFO, x) /\ Runs(WARN, x) /\ Runs(ERROR, x)
<1>1. x \in SUBSET Mutex /\ Below(x, <<"sockets">>) /\ Below(x, <<"log">>)
      /\ <<"sockets">> \in Mutex /\ <<"log">> \in Mutex
  <2>1. <<"sockets">> \in Mutex /\ <<"log">> \in Mutex
    BY Ranks
  <2>2. CASE x = {}
    BY <2>1, <2>2 DEF Below
  <2>3. CASE x \in {{<<"listeners">>}, {<<"connections">>}}
    <3>1. PICK m \in Mutex : x = {m} /\ Rank(m) = 1
      BY <2>3, Ranks
    <3> QED
      BY <2>1, <3>1, Ranks DEF Below
  <2>4. CASE \E b \in Block \cup {Listener} : x = {<<b, "state">>}
    <3>1. PICK m \in Mutex : x = {m} /\ Rank(m) = 0
      BY <2>4, Ranks
    <3> QED
      BY <2>1, <3>1, Ranks DEF Below
  <2> QED
    BY <2>2, <2>3, <2>4 DEF Outer
<1>2. Runs(InSocketTable, x)
  BY <1>1, RunsTouch DEF InSocketTable
<1>3. \A level : Runs(Line(level), x)
  BY <1>1, RunsTouch, RunsBuilt DEF Line, Write
<1> QED
  BY <1>1, <1>2, <1>3 DEF create_socket, destroy_socket, contains, get_tcb, INFO, WARN, ERROR

\* The tables.
LEMMA RunsTables ==
  /\ Runs(FindListener, {}) /\ Runs(bind_new, {})
  /\ Runs(FindConnection, {}) /\ Runs(InConnectionTable, {})
  /\ Runs(register_connection, {}) /\ Runs(destroy_connection, {})
<1> DEFINE L == {<<"listeners">>}
           C == {<<"connections">>}
<1>1. {} \in Outer /\ L \in Outer /\ C \in Outer
  BY DEF Outer
<1>2. {} \in SUBSET Mutex /\ L \in SUBSET Mutex /\ C \in SUBSET Mutex
  BY <1>1, RunsInner
<1>3. /\ Runs(Maybe(contains), L) /\ Runs(create_socket, L)
      /\ Runs(Maybe(contains), C)
      /\ Runs(create_socket \cup (contains ++ (create_socket \cup get_tcb)), C)
  BY <1>1, <1>2, RunsInner, RunsBuilt
<1>4. <<"listeners">> \in Mutex /\ <<"connections">> \in Mutex
  BY Ranks
<1>5. /\ Runs(FindListener, {}) /\ Runs(bind_new, {}) /\ Runs(FindConnection, {})
      /\ Runs(register_connection, {})
  BY <1>3, <1>4, RunsGuarded DEF FindListener, bind_new, FindConnection, register_connection
<1>6. Runs(InConnectionTable, {})
  BY <1>2, <1>4, RunsTouch DEF InConnectionTable, Below
<1>7. Runs(destroy_connection, {})
  BY <1>1, <1>2, <1>6, RunsInner, RunsBuilt DEF destroy_connection
<1> QED
  BY <1>5, <1>6, <1>7

\* Segments and control packets may be written under the lock of the socket
\* table, which check_retransmissions_ does.
LEMMA RunsSending ==
  ASSUME NEW b \in Block, NEW x \in {{}, {<<"sockets">>}}
  PROVE  /\ x \in SUBSET Mutex
         /\ Runs(OnBuffer(b, "send_buffer"), x) /\ Runs(OnBuffer(b, "recv_buffer"), x)
         /\ Runs(write_packet_, x) /\ Runs(SendSegment(b), x) /\ Runs(send_control_packet_(b), x)
<1>1. /\ <<b, "send_buffer">> \in Mutex /\ Rank(<<b, "send_buffer">>) = 3
      /\ <<b, "recv_buffer">> \in Mutex /\ Rank(<<b, "recv_buffer">>) = 3
      /\ <<"sockets">> \in Mutex /\ Rank(<<"sockets">>) = 2
      /\ <<"loopback">> \in Mutex /\ Rank(<<"loopback">>) = 3
  BY Ranks
<1>2. x \in SUBSET Mutex
  BY <1>1
<1>3. \A m \in Mutex : Rank(m) = 3 => Below(x, m)
  BY <1>1 DEF Below
<1>4. Runs(OnBuffer(b, "send_buffer"), x) /\ Runs(OnBuffer(b, "recv_buffer"), x)
  BY <1>1, <1>2, <1>3, RunsTouch DEF OnBuffer
<1>5. Runs(Guarded(<<"loopback">>, Nothing), x)
  BY <1>1, <1>2, <1>3, RunsTouch
<1>6. Runs(write_packet_, x)
  BY <1>2, <1>5, RunsBuilt DEF write_packet_
<1>7. Runs(SendSegment(b), x) /\ Runs(send_control_packet_(b), x)
  BY <1>2, <1>4, <1>6, RunsBuilt DEF SendSegment, send_control_packet_
<1> QED
  BY <1>2, <1>4, <1>6, <1>7

\* What every operation below is built from, with no lock held.
Basics ==
  /\ Runs(create_socket, {}) /\ Runs(destroy_socket, {}) /\ Runs(contains, {})
  /\ Runs(get_tcb, {}) /\ Runs(INFO, {}) /\ Runs(WARN, {}) /\ Runs(ERROR, {})
  /\ Runs(FindListener, {}) /\ Runs(bind_new, {}) /\ Runs(FindConnection, {})
  /\ Runs(InConnectionTable, {}) /\ Runs(register_connection, {})
  /\ Runs(destroy_connection, {})
  /\ Runs(SwapLoopback, {}) /\ Runs(write_packet_, {}) /\ Runs(add_dirty_tcb, {})
  /\ Runs(Guarded(<<"stack">>, Nothing), {})
  /\ Runs(Guarded(<<Listener, "state">>, Nothing), {})

OfBlock(b) ==
  /\ Runs(OnBuffer(b, "send_buffer"), {}) /\ Runs(OnBuffer(b, "recv_buffer"), {})
  /\ Runs(OnBufferWaiting(b, "send_buffer"), {}) /\ Runs(OnBufferWaiting(b, "recv_buffer"), {})
  /\ Runs(set_state(b), {}) /\ Runs(Guarded(<<b, "state">>, Nothing), {})
  /\ Runs(SendSegment(b), {}) /\ Runs(send_control_packet_(b), {})

\* They all run with no lock held.
LEMMA RunsBasics == Basics /\ \A b \in Block : OfBlock(b)
<1>1. {} \in Outer /\ {} \in SUBSET Mutex
  BY DEF Outer
<1>2. /\ Runs(create_socket, {}) /\ Runs(destroy_socket, {}) /\ Runs(contains, {})
      /\ Runs(get_tcb, {}) /\ Runs(INFO, {}) /\ Runs(WARN, {}) /\ Runs(ERROR, {})
  BY <1>1, RunsInner
<1>3. \A m \in Mutex : Runs(Guarded(m, Nothing), {})
  BY <1>1, RunsTouch DEF Below
<1>4. /\ Runs(Guarded(<<"stack">>, Nothing), {}) /\ Runs(Guarded(<<"loopback">>, Nothing), {})
      /\ Runs(Guarded(<<Listener, "state">>, Nothing), {})
  BY <1>3, Ranks
<1>5. Runs(SwapLoopback, {}) /\ Runs(write_packet_, {}) /\ Runs(add_dirty_tcb, {})
  BY <1>1, <1>2, <1>4, RunsBuilt DEF SwapLoopback, write_packet_, add_dirty_tcb
<1>6. ASSUME NEW b \in Block PROVE OfBlock(b)
  <2>1. <<b, "state">> \in Mutex /\ <<b, "send_buffer">> \in Mutex /\ <<b, "recv_buffer">> \in Mutex
    BY Ranks
  <2>2. ASSUME NEW m \in Mutex PROVE Runs(Guarded(m, AwaitUnder(m, Nothing)), {})
    <3>1. Runs(Nothing, {m})
      BY RunsBuilt
    <3> QED
      BY <3>1, RunsAwait, RunsGuarded
  <2>3. Runs(OnBufferWaiting(b, "send_buffer"), {}) /\ Runs(OnBufferWaiting(b, "recv_buffer"), {})
    BY <2>1, <2>2 DEF OnBufferWaiting
  <2>4. Runs(set_state(b), {}) /\ Runs(Guarded(<<b, "state">>, Nothing), {})
    BY <1>3, <2>1 DEF set_state
  <2> QED
    BY <2>3, <2>4, RunsSending DEF OfBlock
<1> QED
  BY <1>2, <1>4, <1>5, <1>6, RunsTables DEF Basics

-----------------------------------------------------------------------------
(* The daemon.                                                              *)

\* process_block_, by the daemon or by the thread that closes.
LEMMA RunsProcessBlock == \A b \in Block : Runs(process_block_(b), {})
<1> SUFFICES ASSUME NEW b \in Block PROVE Runs(process_block_(b), {})
  OBVIOUS
<1>1. {} \in SUBSET Mutex /\ Basics /\ OfBlock(b)
  BY RunsBasics
<1>2. Runs(SendSegment(b) ++ OnBuffer(b, "send_buffer") ++ Maybe(add_dirty_tcb), {})
  BY <1>1, RunsBuilt DEF Basics, OfBlock
<1>3. Runs(send_control_packet_(b)
           \cup (OnBuffer(b, "send_buffer") ++ Maybe(
                   SendSegment(b) ++ OnBuffer(b, "send_buffer") ++ Maybe(add_dirty_tcb))), {})
  BY <1>1, <1>2, RunsBuilt DEF OfBlock
<1> QED
  BY <1>1, <1>3, RunsBuilt DEF process_block_, Basics

\* Going through the dirty blocks.
LEMMA RunsDirty == Runs(process_dirty_blocks_, {})
<1>1. Runs(UNION {process_block_(b) : b \in Block}, {})
  BY RunsProcessBlock DEF Runs
<1> QED
  BY <1>1, RunsBasics, RunsBuilt DEF process_dirty_blocks_, Basics

\* The callback of for_each_socket takes nothing below the socket table.
LEMMA RunsRetransmissions == Runs(check_retransmissions_, {})
<1> DEFINE S == {<<"sockets">>}
           F(b) == OnBuffer(b, "send_buffer") ++ Maybe(SendSegment(b))
<1>1. <<"sockets">> \in Mutex /\ S \in SUBSET Mutex /\ S \in {{}, {<<"sockets">>}}
  BY Ranks
<1>2. ASSUME NEW b \in Block PROVE Runs(F(b), S)
  BY <1>1, RunsSending, RunsBuilt
<1> HIDE DEF F
<1>3. Runs(UNION {F(b) : b \in Block}, S)
  BY <1>2 DEF Runs
<1>4. Runs(Maybe(UNION {F(b) : b \in Block}), S)
  BY <1>1, <1>3, RunsBuilt
<1> QED
  BY <1>1, <1>4, RunsGuarded DEF check_retransmissions_, F

\* The passive open.
LEMMA RunsPassiveOpen == \A b \in Block : Runs(handle_passive_open_syn_(b), {})
<1> SUFFICES ASSUME NEW b \in Block PROVE Runs(handle_passive_open_syn_(b), {})
  OBVIOUS
<1>1. {} \in SUBSET Mutex /\ Basics /\ OfBlock(b)
  BY RunsBasics
<1>2. Runs(Maybe(InConnectionTable ++ INFO ++ send_control_packet_(b)), {})
  BY <1>1, RunsBuilt DEF Basics, OfBlock
<1> QED
  BY <1>1, <1>2, RunsBuilt DEF handle_passive_open_syn_, Basics

\* The handlers of the other states.
LEMMA RunsHandlers ==
  \A b \in Block : Runs(handle_syn_sent_state_(b) \cup handle_syn_received_state_(b)
                        \cup handle_established_state_(b) \cup HandleTeardown(b), {})
<1> SUFFICES ASSUME NEW b \in Block
             PROVE  Runs(handle_syn_sent_state_(b) \cup handle_syn_received_state_(b)
                         \cup handle_established_state_(b) \cup HandleTeardown(b), {})
  OBVIOUS
<1>0. {} \in SUBSET Mutex /\ Basics /\ OfBlock(b)
  BY RunsBasics
<1>1. Runs(handle_syn_sent_state_(b), {})
  <2>1. Runs(Maybe(INFO ++ set_state(b)), {})
    BY <1>0, RunsBuilt DEF Basics, OfBlock
  <2>2. Runs(WARN ++ Maybe(send_control_packet_(b)), {})
    BY <1>0, RunsBuilt DEF Basics, OfBlock
  <2>3. Runs(INFO ++ set_state(b) ++ Maybe(INFO) ++ send_control_packet_(b), {})
    BY <1>0, RunsBuilt DEF Basics, OfBlock
  <2> QED
    BY <1>0, <2>1, <2>2, <2>3, RunsBuilt DEF handle_syn_sent_state_
<1>2. Runs(handle_syn_received_state_(b), {})
  <2>1. Runs(INFO ++ set_state(b) ++ InConnectionTable ++ destroy_socket, {})
    BY <1>0, RunsBuilt DEF Basics, OfBlock
  <2>2. Runs(Maybe(get_tcb ++ Maybe(Guarded(<<Listener, "state">>, Nothing))), {})
    BY <1>0, RunsBuilt DEF Basics
  <2>3. Runs(INFO ++ set_state(b) ++ FindListener
             ++ Maybe(get_tcb ++ Maybe(Guarded(<<Listener, "state">>, Nothing)))
             ++ Maybe(send_control_packet_(b)), {})
    BY <1>0, <2>2, RunsBuilt DEF Basics, OfBlock
  <2> QED
    BY <1>0, <2>1, <2>3, RunsBuilt DEF handle_syn_received_state_, Basics
<1>3. Runs(handle_established_state_(b), {})
  <2>1. Runs(INFO ++ send_control_packet_(b) ++ set_state(b), {})
    BY <1>0, RunsBuilt DEF Basics, OfBlock
  <2>2. Runs(Maybe(Maybe(OnBuffer(b, "send_buffer")) ++ Guarded(<<b, "state">>, Nothing)
                   ++ OnBuffer(b, "send_buffer") ++ Maybe(add_dirty_tcb)), {})
    BY <1>0, RunsBuilt DEF Basics, OfBlock
  <2>3. Runs(Maybe(OnBufferWaiting(b, "recv_buffer") ++ send_control_packet_(b)), {})
    BY <1>0, RunsBuilt DEF OfBlock
  <2> QED
    BY <1>0, <2>1, <2>2, <2>3, RunsBuilt DEF handle_established_state_
<1>4. Runs(HandleTeardown(b), {})
  BY <1>0, RunsBuilt DEF HandleTeardown, Basics, OfBlock
<1> QED
  BY <1>0, <1>1, <1>2, <1>3, <1>4, RunsBuilt

\* Everything the daemon does begins and ends without a lock.
LEMMA RunsLifecycle == Runs(lifecycle_, {})
<1>0. {} \in SUBSET Mutex /\ Basics
  BY RunsBasics
<1> DEFINE open == UNION {handle_passive_open_syn_(b) : b \in Block}
           states == UNION {handle_syn_sent_state_(b) \cup handle_syn_received_state_(b)
                            \cup handle_established_state_(b) \cup HandleTeardown(b) : b \in Block}
<1>1. Runs(open, {})
  BY RunsPassiveOpen DEF Runs
<1>2. Runs(states, {})
  BY RunsHandlers DEF Runs
<1>3. Runs(handle_closed_reset_response_, {})
  BY <1>0 DEF handle_closed_reset_response_, Basics
<1> HIDE DEF open, states
<1>4. Runs(FindConnection ++
             ((FindListener ++ (handle_closed_reset_response_ \cup open))
              \cup (get_tcb ++ (handle_closed_reset_response_ \cup open))
              \cup (get_tcb ++ get_tcb ++ states)), {})
  BY <1>0, <1>1, <1>2, <1>3, RunsBuilt DEF Basics
<1>5. Runs(process_incoming_packet_, {})
  BY <1>4 DEF process_incoming_packet_, open, states
<1> QED
  BY <1>0, <1>5, RunsDirty, RunsRetransmissions, RunsBuilt DEF lifecycle_, Basics

-----------------------------------------------------------------------------
(* The calls of the applications.                                           *)

\* close_connection.
LEMMA RunsClose == \A b \in Block : Runs(close_connection(b), {})
<1> SUFFICES ASSUME NEW b \in Block PROVE Runs(close_connection(b), {})
  OBVIOUS
<1>0. {} \in SUBSET Mutex /\ Basics /\ OfBlock(b) /\ Runs(process_block_(b), {})
  BY RunsBasics, RunsProcessBlock
<1>1. Runs(process_block_(b) ++ set_state(b) ++ set_state(b) ++ send_control_packet_(b), {})
  BY <1>0, RunsBuilt DEF OfBlock
<1>2. Runs(set_state(b) ++ destroy_connection, {})
  BY <1>0, RunsBuilt DEF OfBlock, Basics
<1> QED
  BY <1>0, <1>1, <1>2, RunsBuilt DEF close_connection, Basics

\* The predicate of connect's wait looks into the socket table under state_mutex.
LEMMA RunsConnect == \A b \in Block : Runs(connect(b), {})
<1> SUFFICES ASSUME NEW b \in Block PROVE Runs(connect(b), {})
  OBVIOUS
<1> DEFINE m == <<b, "state">>
<1>0. {} \in SUBSET Mutex /\ Basics /\ OfBlock(b)
  BY RunsBasics
<1>1. m \in Mutex /\ {m} \in Outer
  BY Ranks DEF Outer
<1> HIDE DEF m
<1>2. Runs(get_tcb, {m}) /\ Runs(INFO, {m}) /\ {m} \in SUBSET Mutex
  BY <1>1, RunsInner
<1>3. Runs(AwaitUnder(m, get_tcb) ++ get_tcb ++ Maybe(INFO), {m})
  BY <1>1, <1>2, RunsAwait, RunsBuilt
<1>4. Runs(Guarded(m, AwaitUnder(m, get_tcb) ++ get_tcb ++ Maybe(INFO)), {})
  BY <1>1, <1>3, RunsGuarded
<1>5. Runs(Maybe(get_tcb) ++ Maybe(FindListener) ++ register_connection
           ++ get_tcb ++ INFO ++ set_state(b) ++ add_dirty_tcb, {})
  BY <1>0, RunsBuilt DEF Basics, OfBlock
<1> QED
  BY <1>0, <1>4, <1>5, RunsBuilt DEF connect, allocate_ephemeral_port, m

\* So does that of accept, under the state_mutex of the listener.
LEMMA RunsAccept == Runs(accept, {})
<1> DEFINE m == <<Listener, "state">>
<1>0. {} \in SUBSET Mutex /\ Basics
  BY RunsBasics
<1>1. m \in Mutex /\ {m} \in Outer
  BY Ranks DEF Outer
<1> HIDE DEF m
<1>2. Runs(get_tcb, {m}) /\ Runs(INFO, {m}) /\ Runs(ERROR, {m}) /\ {m} \in SUBSET Mutex
  BY <1>1, RunsInner
<1>3. Runs(AwaitUnder(m, get_tcb) ++ get_tcb ++ (ERROR \cup (get_tcb ++ Maybe(INFO))), {m})
  BY <1>1, <1>2, RunsAwait, RunsBuilt
<1>4. Runs(Guarded(m, AwaitUnder(m, get_tcb) ++ get_tcb
                      ++ (ERROR \cup (get_tcb ++ Maybe(INFO)))), {})
  BY <1>1, <1>3, RunsGuarded
<1> QED
  BY <1>0, <1>4, RunsBuilt DEF accept, m, Basics

\* Every call of an application begins and ends without a lock.
LEMMA RunsCalls == Runs(Calls, {})
<1>0. {} \in SUBSET Mutex /\ Basics
  BY RunsBasics
<1>1. Runs(bind, {}) /\ Runs(listen, {})
  BY <1>0, RunsBuilt DEF bind, listen, allocate_ephemeral_port, Basics
<1>2. ASSUME NEW b \in Block
      PROVE  Runs(connect(b) \cup send(b) \cup recv(b) \cup close_connection(b), {})
  <2>1. Runs(send(b), {}) /\ Runs(recv(b), {})
    BY <1>0, RunsBasics, RunsBuilt DEF send, recv, Basics, OfBlock
  <2> QED
    BY <1>0, <2>1, RunsConnect, RunsClose, RunsBuilt
<1>3. Runs(UNION {connect(b) \cup send(b) \cup recv(b) \cup close_connection(b) : b \in Block}, {})
  BY <1>2 DEF Runs
<1> QED
  BY <1>0, <1>1, <1>3, RunsAccept, RunsBuilt DEF Calls

-----------------------------------------------------------------------------
(* The theorems.                                                            *)

\* At first nobody holds or wants anything.
LEMMA InitLocks == Init => LockInv
<1> SUFFICES ASSUME Init PROVE LockInv
  OBVIOUS
<1>1. \A S : <<>> \in Seq(S)
  OBVIOUS
<1>2. todo = [t \in Thread |-> <<>>] /\ held = [t \in Thread |-> {}] /\ asleep = {}
  BY DEF Init
<1>3. \A t \in Thread : todo[t] = <<>> /\ held[t] = {}
  BY <1>2
<1>4. Path(<<>>, {}, {})
  BY EmptyPath
<1> QED
  BY <1>1, <1>2, <1>3, <1>4 DEF LockInv

\* A thread without a path left holds nothing.
LEMMA DoneHoldsNothing == ASSUME NEW x, Path(<<>>, x, {}) PROVE x = {}
<1>1. Len(<<>>) = 0
  OBVIOUS
<1> QED
  BY <1>1 DEF Path

\* Only the thread that steps changes, and what it is left with fits.
LEMMA OneThread ==
  ASSUME LockInv, NEW t \in Thread, NEW p, NEW x \in SUBSET Mutex, Path(p, x, {}),
         todo' = [todo EXCEPT ![t] = p], held' = [held EXCEPT ![t] = x],
         \A u \in asleep' : u \in asleep \/ u = t,
         t \in asleep' => x = {}
  PROVE  LockInv'
<1>1. p \in Seq(Steps)
  BY DEF Path
<1>2. todo' \in [Thread -> Seq(Steps)] /\ held' \in [Thread -> SUBSET Mutex]
  BY <1>1 DEF LockInv
<1>3. \A u \in Thread : /\ todo'[u] = IF u = t THEN p ELSE todo[u]
                        /\ held'[u] = IF u = t THEN x ELSE held[u]
  BY DEF LockInv
<1>4. \A u \in Thread : Path(todo'[u], held'[u], {})
  BY <1>3 DEF LockInv
<1>5. \A u \in asleep' : u \in Thread /\ held'[u] = {}
  BY <1>3 DEF LockInv
<1> QED
  BY <1>2, <1>4, <1>5 DEF LockInv

\* A step of a thread follows its path.
LEMMA NextLocks == LockInv /\ [Next]_vars => LockInv'
<1> SUFFICES ASSUME LockInv, [Next]_vars PROVE LockInv'
  OBVIOUS
<1>1. CASE UNCHANGED vars
  BY <1>1 DEF vars, LockInv
<1>2. ASSUME NEW t \in Thread, Begin(t) PROVE LockInv'
  <2>1. PICK path \in IF t = Daemon THEN lifecycle_ ELSE Calls : todo' = [todo EXCEPT ![t] = path]
    BY <1>2 DEF Begin
  <2>2. Path(path, {}, {})
    BY <2>1, RunsLifecycle, RunsCalls DEF Runs
  <2>3. held[t] = {}
    BY <1>2, DoneHoldsNothing DEF Begin, LockInv
  <2>4. held' = [held EXCEPT ![t] = {}] /\ asleep' = asleep
    BY <1>2, <2>3 DEF Begin, LockInv
  <2> QED
    BY <2>1, <2>2, <2>4, OneThread
<1>3. ASSUME NEW t \in Thread, Step(t) PROVE LockInv'
  <2> DEFINE s == Head(todo[t])
             r == Tail(todo[t])
  <2>1. todo[t] # <<>> /\ t \notin asleep /\ Path(todo[t], held[t], {}) /\ todo[t] \in Seq(Steps)
    BY <1>3 DEF Step, Acquire, Pass, Release, Sleep, At, LockInv
  <2>2. /\ s \in Steps /\ r \in Seq(Steps)
        /\ \E w \in SUBSET Mutex : Fits(s, held[t], w) /\ Path(r, w, {})
    BY <2>1, RestOfPath
  <2>3. PICK w \in SUBSET Mutex : Fits(s, held[t], w) /\ Path(r, w, {})
    BY <2>2
  <2>4. s.m \in Mutex
    BY <2>2 DEF Steps
  <2>5. CASE Acquire(t)
    <3>1. s.do = "lock" /\ held' = [held EXCEPT ![t] = @ \cup {s.m}]
          /\ todo' = [todo EXCEPT ![t] = r] /\ asleep' = asleep
      BY <2>5 DEF Acquire, At, Want
    <3>2. w = held[t] \cup {s.m}
      BY <2>3, <3>1 DEF Fits
    <3>3. held' = [held EXCEPT ![t] = w]
      BY <3>1, <3>2 DEF LockInv
    <3> QED
      BY <2>1, <2>3, <3>1, <3>3, OneThread
  <2>6. CASE Pass(t)
    <3>1. s.do = "touch" /\ held' = held /\ todo' = [todo EXCEPT ![t] = r] /\ asleep' = asleep
      BY <2>6 DEF Pass, At
    <3>2. w = held[t]
      BY <2>3, <3>1 DEF Fits
    <3>3. held' = [held EXCEPT ![t] = w]
      BY <3>1, <3>2 DEF LockInv
    <3> QED
      BY <2>1, <2>3, <3>1, <3>3, OneThread
  <2>7. CASE Release(t)
    <3>1. s.do = "unlock" /\ held' = [held EXCEPT ![t] = @ \ {s.m}]
          /\ todo' = [todo EXCEPT ![t] = r] /\ asleep' = asleep
      BY <2>7 DEF Release, At, Want
    <3>2. w = held[t] \ {s.m}
      BY <2>3, <3>1 DEF Fits
    <3>3. held' = [held EXCEPT ![t] = w]
      BY <3>1, <3>2 DEF LockInv
    <3> QED
      BY <2>1, <2>3, <3>1, <3>3, OneThread
  <2>8. CASE Sleep(t)
    <3>1. s.do = "wait" /\ held' = [held EXCEPT ![t] = @ \ {s.m}]
          /\ todo' = [todo EXCEPT ![t] = <<Lock(s.m)>> \o r] /\ asleep' = asleep \cup {t}
      BY <2>8 DEF Sleep, At, Want
    <3>2. w = {s.m} /\ held[t] \ {s.m} = {}
      BY <2>3, <3>1 DEF Fits
    <3>3. held' = [held EXCEPT ![t] = {}]
      BY <3>1, <3>2 DEF LockInv
    <3>4. Lock(s.m) \in Steps /\ Fits(Lock(s.m), {}, {s.m})
      BY <2>4 DEF Lock, Steps, Fits
    <3>5. Path(<<Lock(s.m)>>, {}, {s.m})
      BY <2>4, <3>4, StepPath
    <3>6. Path(<<Lock(s.m)>> \o r, {}, {})
      BY <2>3, <3>2, <3>5, JoinedPath
    <3> QED
      BY <3>1, <3>3, <3>6, OneThread
  <2> QED
    BY <1>3, <2>5, <2>6, <2>7, <2>8 DEF Step
<1>4. ASSUME NEW t \in Thread, Wake(t) PROVE LockInv'
  BY <1>4 DEF Wake, LockInv
<1> QED
  BY <1>1, <1>2, <1>3, <1>4 DEF Next

\* The inductive invariant holds in every behaviour.
LEMMA SpecLocks == Spec => []LockInv
  BY InitLocks, NextLocks, PTL DEF Spec

\* A holder that is blocked is blocked by a holder of a higher rank.
LEMMA RanksRise ==
  ASSUME LockInv, NEW S \in SUBSET Thread, \A t \in S : Blocked(t, S),
         NEW u \in S, NEW n \in held[u]
  PROVE  \E v \in S : \E k \in held[v] : Rank(n) < Rank(k)
<1>1. todo[u] # <<>> /\ Head(todo[u]).do \in {"lock", "touch"}
  BY DEF Blocked, At
<1>2. PICK v \in S : Want(u) \in held[v]
  BY DEF Blocked
<1>3. Path(todo[u], held[u], {})
  BY DEF LockInv
<1>4. PICK w : Fits(Head(todo[u]), held[u], w)
  BY <1>1, <1>3, RestOfPath
<1>5. Rank(n) < Rank(Want(u))
  BY <1>1, <1>4 DEF Fits, Below, Want
<1> QED
  BY <1>2, <1>5

\* No set of threads, however many and whatever they call, waits for mutexes
\* that only they hold: the order in which TcpStack, its tables, the buffers and
\* the logger nest their locks has no cycle, and no callback locks what its
\* caller has locked.
THEOREM DeadlockFree == Spec => []NoDeadlock
<1>1. LockInv => NoDeadlock
  <2> SUFFICES ASSUME LockInv, NEW S \in (SUBSET Thread) \ {{}}, \A t \in S : Blocked(t, S)
               PROVE  FALSE
    BY DEF NoDeadlock
  <2>1. PICK u1 \in S : \E n \in held[u1] : Rank(n) >= 0
    <3>1. PICK t \in S : Blocked(t, S)
      OBVIOUS
    <3>2. PICK u \in S : Want(t) \in held[u]
      BY <3>1 DEF Blocked
    <3>3. Rank(Want(t)) >= 0
      BY Ranks
    <3> QED
      BY <3>2, <3>3
  <2>2. ASSUME NEW i \in Int, \E u \in S : \E n \in held[u] : Rank(n) >= i
        PROVE  \E u \in S : \E n \in held[u] : Rank(n) >= i + 1
    <3>1. PICK u \in S : \E n \in held[u] : Rank(n) >= i
      BY <2>2
    <3>2. PICK n \in held[u] : Rank(n) >= i
      BY <3>1
    <3>3. PICK v \in S : \E k \in held[v] : Rank(n) < Rank(k)
      BY RanksRise
    <3>4. PICK k \in held[v] : Rank(n) < Rank(k)
      BY <3>3
    <3>5. Rank(n) \in Int /\ Rank(k) \in Int
      BY Ranks
    <3> QED
      BY <3>2, <3>4, <3>5
  <2>3. \E u \in S : \E n \in held[u] : Rank(n) >= 4
    <3> DEFINE P(i) == \E u \in S : \E n \in held[u] : Rank(n) >= i
    <3>1. P(0) /\ \A i \in Int : P(i) => P(i + 1)
      BY <2>1, <2>2
    <3> HIDE DEF P
    <3>2. P(0 + 1)
      BY <3>1
    <3>3. P(1 + 1)
      BY <3>1, <3>2
    <3>4. P(2 + 1)
      BY <3>1, <3>3
    <3>5. P(3 + 1)
      BY <3>1, <3>4
    <3> QED
      BY <3>5 DEF P
  <2> QED
    BY <2>3, Ranks
<1> QED
  BY <1>1, SpecLocks, PTL

\* A thread asleep on a condition variable holds no mutex: nothing in the paths
\* of connect, accept, read and write wraps the wait in another lock.
THEOREM SleepersFree == Spec => []SleepersHoldNothing
<1>1. LockInv => SleepersHoldNothing
  BY DEF LockInv, SleepersHoldNothing
<1> QED
  BY <1>1, SpecLocks, PTL
=============================================================================
