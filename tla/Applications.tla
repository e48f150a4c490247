----------------------------- MODULE Applications -----------------------------
(***************************************************************************)
(* The programs that use the stack, reduced to their socket calls: the      *)
(* demo, the HTTP client, the load test and the throughput benchmark.  A    *)
(* thread's program is a sequence of calls; l, a, b, c name its TcpSocket   *)
(* objects.                                                                 *)
(***************************************************************************)
EXTENDS Integers, Sequences
LOCAL INSTANCE SequencesExt

Bind(o, a) == [op |-> "bind", o |-> o, addr |-> a]
Listen(o) == [op |-> "listen", o |-> o]
Register(o, a) == [op |-> "register", o |-> o, addr |-> a]
Connect(o, a) == [op |-> "connect", o |-> o, addr |-> a]
Accept(o, into) == [op |-> "accept", o |-> o, into |-> into]
Send(o, n) == [op |-> "send", o |-> o, n |-> n]
Recv(o, n) == [op |-> "recv", o |-> o, n |-> n]
Drain(o) == [op |-> "drain", o |-> o]
Close(o) == [op |-> "close", o |-> o]
Crash(o) == [op |-> "crash", o |-> o]
Stop == [op |-> "stop"]
Started(t) == [op |-> "after", of |-> t]

Times(n, calls) == FlattenSeq([i \in 1..n |-> calls])

\* main.cpp: two bound sockets and their routes, but no handshake.
DemoMain(a, b, addr_a, addr_b, kIterations) ==
    <<Bind(a, addr_a), Bind(b, addr_b), Register(a, addr_b), Register(b, addr_a)>>
    \o Times(kIterations, <<Send(a, 1), Recv(b, 1)>>)

\* http_client.cpp: the response ends when the server closes.
HttpClient(c, server_addr, request) ==
    <<Connect(c, server_addr), Send(c, request), Drain(c), Close(c), Stop>>
\* The server of HttpClientTest.
HttpServer(l, a, request, response) ==
    <<Accept(l, a), Recv(a, request), Send(a, response), Close(a)>>

\* throughput_benchmark.cpp, unidirectional.
BenchmarkServer(l, a, total_bytes) == <<Accept(l, a), Recv(a, total_bytes), Close(a)>>
BenchmarkClient(c, server_addr, total_bytes) ==
    <<Connect(c, server_addr), Send(c, total_bytes), Close(c)>>

\* load_test.cpp: requests of payload_size bytes, each answered by as many.
LoadServer(l, a, iterations, payload_size) ==
    <<Accept(l, a)>> \o Times(iterations, <<Recv(a, payload_size), Send(a, payload_size)>>)
    \o <<Close(a)>>
LoadClient(c, server_addr, iterations, payload_size) ==
    <<Connect(c, server_addr)>>
    \o Times(iterations, <<Send(c, payload_size), Recv(c, payload_size)>>) \o <<Close(c)>>
=============================================================================
