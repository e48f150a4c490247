------------------------------ MODULE MCTcpSocket ------------------------------
(* The programs of the tests and applications, and the small instances.     *)
EXTENDS TcpSocket, Applications, TLC

\* Sequence numbers that wrap during the run.
WrapISN == {SeqMod - 2}

\* Two stacks, each the home of its own address.  Packets to the own address
\* take the loopback queue, the others the network between the devices.
TwoStacks == {"A", "B"}
TwoRoute == "A" :> "A" @@ "B" :> "B"
Web == <<"A", 80>>
Nowhere == <<"A", 81>>

\* The threads of the programs and their sockets: on A a listener and its
\* callers, on B a caller and a thread that shares its socket.
App == {"main", "server", "client", "other", "remote", "helper"}
AppObj == {"l", "a", "b", "c", "d", "r"}
AppHome == [x \in App \cup AppObj |->
              IF x \in {"remote", "helper", "r"} THEN "B" ELSE "A"]
Idle == [t \in App |-> <<>>]
Main == <<Bind("l", Web), Listen("l")>>

\* A server and a client thread on one stack (TcpSocketTest, HttpClientTest),
\* or on two.
PairOf(server, client) ==
    "main" :> Main
    @@ "server" :> (<<Started("main"), Accept("l", "a")>> \o server)
    @@ "client" :> (<<Started("main"), Connect("c", Web)>> \o client)
    @@ Idle
RemotePairOf(server, remote) ==
    "main" :> Main
    @@ "server" :> (<<Started("main"), Accept("l", "a")>> \o server)
    @@ "remote" :> (<<Started("main"), Connect("r", Web)>> \o remote)
    @@ Idle

\* Request and response, and both sides sending at once.
Exchange ==
    {PairOf(<<Recv("a", 3), Send("a", 2)>>, <<Send("c", 3), Recv("c", 2)>>),
     PairOf(<<Send("a", 3), Recv("a", 3)>>, <<Send("c", 3), Recv("c", 3)>>)}

\* More than a buffer, one way and both ways at once: windows close and reopen.
Bulk ==
    {PairOf(<<Recv("a", 5), Send("a", 4)>>, <<Send("c", 5), Recv("c", 4)>>),
     PairOf(<<Send("a", 4), Recv("a", 2)>>, <<Send("c", 2), Recv("c", 4)>>),
     PairOf(<<Send("a", 5)>>, <<Recv("c", 1), Send("c", 1), Recv("c", 4)>>)}

\* The same in one direction only.
OneWay == {PairOf(<<Recv("a", 5)>>, <<Send("c", 5)>>)}

\* One side closes and the other follows when it sees the end of the stream
\* (TcpTeardownTest figure 13, HttpClientTest); an HTTP client on a stack of its
\* own, which it stops at the end.
Http(o) == Tail(HttpClient(o, Web, 1))
NormalClose ==
    {PairOf(<<Drain("a"), Close("a")>>, <<Send("c", 2), Close("c")>>),
     PairOf(Tail(HttpServer("l", "a", 1, 2)), SubSeq(Http("c"), 1, 3))}
RemoteClose ==
    {RemotePairOf(<<Drain("a"), Close("a")>>, <<Send("r", 1), Close("r")>>)}
RemoteHttp == {RemotePairOf(Tail(HttpServer("l", "a", 1, 1)), Http("r"))}

\* Both sides close at will (TcpTeardownTest figure 14), or when they have done
\* their share of the work.
AnyClose ==
    {PairOf(<<Close("a")>>, <<Close("c")>>),
     PairOf(Tail(BenchmarkServer("l", "a", 1)), Tail(BenchmarkClient("c", Web, 1))),
     PairOf(Tail(LoadServer("l", "a", 1, 1)), Tail(LoadClient("c", Web, 1, 1)))}

\* One end loses the route of its connection and the other goes on sending.
HalfOpen ==
    {PairOf(<<Crash("a")>>, <<Send("c", 3)>>),
     RemotePairOf(<<Send("a", 1), Crash("a")>>, <<Recv("r", 1), Send("r", 1)>>)}

\* The demo, whose sockets are routed to each other and stay CLOSED.
Demo == {"main" :> DemoMain("c", "d", Web, Nowhere, 1) @@ Idle}

\* Nobody listens: connect is refused, and a call on the empty socket that an
\* accept without listen returns hands back nothing; or a refused socket listens instead and
\* the address it called calls back.
Refused ==
    {"main" :> <<Bind("l", Web), Accept("l", "a"), Send("a", 1)>>
       @@ "client" :> <<Connect("c", Nowhere)>>
       @@ Idle,
     "main" :> <<Bind("l", Web), Connect("l", Nowhere), Listen("l")>>
       @@ "server" :> <<Started("main"), Accept("l", "a"), Send("a", 1)>>
       @@ "client" :> <<Started("main"), Bind("c", Nowhere), Connect("c", Web),
                        Recv("c", 1)>>
       @@ Idle}

\* Two clients of one listener (LoadTest).
TwoClients ==
    {"main" :> Main
     @@ "server" :> <<Started("main"), Accept("l", "a"), Accept("l", "b"),
                      Send("a", 1)>>
     @@ "client" :> <<Started("main"), Connect("c", Web)>>
     @@ "other" :> <<Started("main"), Connect("d", Web), Send("d", 1)>>
     @@ Idle}

\* Both ends bind and connect to each other (Rfc793ScenariosTest figure 8).
SimultaneousOpen ==
    {"main" :> <<Bind("c", Web), Bind("d", Nowhere)>>
     @@ "client" :> <<Started("main"), Connect("c", Nowhere)>>
     @@ "other" :> <<Started("main"), Connect("d", Web)>>
     @@ Idle}

\* A transfer between the stacks, for a network that loses packets.
RemoteExchange ==
    {RemotePairOf(<<Recv("a", 3), Send("a", 1)>>, <<Send("r", 3), Recv("r", 1)>>)}
RemoteShort == {RemotePairOf(<<Recv("a", 1)>>, <<Send("r", 1)>>)}

\* A connect given up while its handshake is under way, and one that is
\* refused by a peer whose reset comes twice.
GiveUp ==
    {"main" :> Main
       @@ "remote" :> <<Started("main"), Connect("r", Web)>>
       @@ "helper" :> <<Started("main"), Close("r")>>
       @@ Idle,
     "remote" :> <<Bind("r", <<"B", 82>>), Connect("r", Nowhere), Listen("r")>>
       @@ Idle}

\* What the stack promises to carry through, what it may leave unfinished,
\* and what it goes through on an unreliable network.
Orderly == Exchange \cup NormalClose \cup RemoteHttp \cup Refused \cup TwoClients
Disorderly == Bulk \cup AnyClose \cup SimultaneousOpen \cup HalfOpen \cup Demo
Troubled == RemoteShort \cup GiveUp
=============================================================================
