------------------------------- MODULE EchoTest -------------------------------
(***************************************************************************)
(* The echo test of src/src/testlib_fdoper.c: a server thread on a bound   *)
(* socket, for connections or for datagrams, clients that run one after    *)
(* the other on the main thread, and the way the server is stopped: a      *)
(* flag, and for datagrams a signal.  A request is at most 48 bytes over   *)
(* the loopback and moves in one piece; AmStream has the pieces.           *)
(***************************************************************************)
EXTENDS Integers, Sequences

CONSTANTS Clients,  \* the clients run, a number
          Requests  \* the requests of each, a number

EchoAssumption == Clients \in Nat \ {0} /\ Requests \in Nat \ {0}

Rounds == 1 .. Clients

VARIABLES type,  \* SOCK_STREAM or SOCK_DGRAM
          srv,   \* server_args: up, keep_running and err
          sthr,  \* the server thread: where it is, its client and its buffer
          main,  \* the main thread: where it is, its client and requests_remaining
          net,   \* of each client: the requests on their way, the echoes on
                 \* theirs, and whether it is connected, accepted or closed
          missed \* history: the signal came just before the call it should end

echoVars == <<type, srv, sthr, main, net, missed>>

Init ==
    /\ type \in {"STREAM", "DGRAM"}
    /\ srv = [up |-> FALSE, keep_running |-> TRUE, err |-> 0]
    /\ sthr = [at |-> "none", client |-> 0, buffer |-> 0]
    /\ main = [at |-> "create", client |-> 1, remaining |-> Requests]
    /\ net = [c \in Rounds |-> [to |-> <<>>, from |-> <<>>, conn |-> "none", closed |-> FALSE]]
    /\ missed = FALSE

-----------------------------------------------------------------------------
(* _test_server_tcp_thread and _test_server_udp_thread *)

ServerAt(at, next) == sthr.at = at /\ sthr' = [sthr EXCEPT !.at = next]

ServerUp ==
    /\ ServerAt("start", "check")
    /\ srv' = [srv EXCEPT !.up = TRUE]
    /\ UNCHANGED <<type, main, net, missed>>

\* The socket of the server of connections cannot be made not to block.
ServerFails ==
    /\ type = "STREAM"
    /\ ServerAt("start", "gone")
    /\ srv' = [srv EXCEPT !.keep_running = FALSE, !.err = @ + 1]
    /\ UNCHANGED <<type, main, net, missed>>

ServerCheck ==
    /\ ServerAt("check", IF ~srv.keep_running THEN "end"
                         ELSE IF type = "STREAM" THEN "accept" ELSE "recv")
    /\ UNCHANGED <<type, srv, main, net, missed>>

\* The socket does not block: without a client the thread sleeps and looks again.
ServerAccept ==
    /\ sthr.at = "accept"
    /\ \/ \E c \in Rounds :
            /\ net[c].conn = "pending"
            /\ sthr' = [sthr EXCEPT !.at = "echo", !.client = c]
            /\ net' = [net EXCEPT ![c].conn = "accepted"]
       \/ /\ \A c \in Rounds : net[c].conn # "pending"
          /\ sthr' = [sthr EXCEPT !.at = "check"]
          /\ UNCHANGED net
    /\ UNCHANGED <<type, srv, main, missed>>

\* recvfrom is entered, to wait: a signal ends the wait from here on.
ServerWait ==
    /\ ServerAt("recv", "waiting")
    /\ UNCHANGED <<type, srv, main, net, missed>>

ServerRecv == \E c \in Rounds :
    /\ sthr.at = "waiting" \/ (sthr.at = "echo" /\ c = sthr.client)
    /\ net[c].to # <<>>
    /\ sthr' = [at |-> "send", client |-> c, buffer |-> Head(net[c].to)]
    /\ net' = [net EXCEPT ![c].to = Tail(@)]
    /\ UNCHANGED <<type, srv, main, missed>>

\* To cln, or to the address the datagram came from.
ServerSend ==
    /\ ServerAt("send", IF type = "STREAM" THEN "echo" ELSE "check")
    /\ net' = [net EXCEPT ![sthr.client].from = Append(@, sthr.buffer)]
    /\ UNCHANGED <<type, srv, main, missed>>

\* The client has closed its end, and recv returns 0.
ServerClose ==
    /\ sthr.at = "echo" /\ net[sthr.client].to = <<>> /\ net[sthr.client].closed
    /\ sthr' = [sthr EXCEPT !.at = "check", !.client = 0]
    /\ net' = [net EXCEPT ![sthr.client].conn = "gone"]
    /\ UNCHANGED <<type, srv, main, missed>>

ServerEnd ==
    /\ ServerAt("end", "gone")
    /\ srv' = [srv EXCEPT !.keep_running = FALSE]
    /\ UNCHANGED <<type, main, net, missed>>

Server == ServerUp \/ ServerFails \/ ServerCheck \/ ServerAccept \/ ServerWait \/ ServerRecv
          \/ ServerSend \/ ServerClose \/ ServerEnd

-----------------------------------------------------------------------------
(* _test_server_socket and _test_client_tcp_socket *)

MainAt(at, next) == main.at = at /\ main' = [main EXCEPT !.at = next]

Create ==
    /\ MainAt("create", "up")
    /\ sthr' = [sthr EXCEPT !.at = "start"]
    /\ UNCHANGED <<type, srv, net, missed>>

WaitUp ==
    /\ srv.up
    /\ MainAt("up", "connect")
    /\ UNCHANGED <<type, srv, sthr, net, missed>>

Connect ==
    /\ MainAt("connect", "send")
    /\ net' = [net EXCEPT ![main.client].conn = IF type = "STREAM" THEN "pending" ELSE "gone"]
    /\ UNCHANGED <<type, srv, sthr, missed>>

\* The number of requests that remain is in the request.
Send ==
    /\ main.at = "send"
    /\ main' = [main EXCEPT !.at = "receive", !.remaining = @ - 1]
    /\ net' = [net EXCEPT ![main.client].to = Append(@, main.remaining - 1)]
    /\ UNCHANGED <<type, srv, sthr, missed>>

\* An echo that is not the request is an error, and ends the client.
Receive ==
    LET c == main.client
        good == Head(net[c].from) = main.remaining
    IN  /\ main.at = "receive" /\ net[c].from # <<>>
        /\ net' = [net EXCEPT ![c].from = Tail(@)]
        /\ main' = [main EXCEPT !.at = IF good /\ main.remaining > 0 THEN "send" ELSE "close"]
        /\ srv' = IF good THEN srv ELSE [srv EXCEPT !.err = @ + 1]
        /\ UNCHANGED <<type, sthr, missed>>

ClientClose ==
    /\ main.at = "close"
    /\ net' = [net EXCEPT ![main.client].closed = TRUE]
    /\ main' = IF main.client < Clients
               THEN [at |-> "connect", client |-> main.client + 1, remaining |-> Requests]
               ELSE [main EXCEPT !.at = "stop"]
    /\ UNCHANGED <<type, srv, sthr, missed>>

\* Slip: the server is not told.
StopSilent ==
    /\ MainAt("stop", IF type = "DGRAM" THEN "kill" ELSE "join")
    /\ UNCHANGED <<type, srv, sthr, net, missed>>

Stop ==
    /\ MainAt("stop", IF type = "DGRAM" THEN "kill" ELSE "join")
    /\ srv' = [srv EXCEPT !.keep_running = FALSE]
    /\ UNCHANGED <<type, sthr, net, missed>>

\* pthread_kill: the handler does nothing, but a wait ends with EINTR, which this
\* server does not ignore.
Kill ==
    /\ MainAt("kill", "join")
    /\ sthr' = IF sthr.at = "waiting" THEN [sthr EXCEPT !.at = "end"] ELSE sthr
    /\ missed' = (sthr.at = "recv")
    /\ UNCHANGED <<type, srv, net>>

Join ==
    /\ sthr.at = "gone"
    /\ MainAt("join", "ended")
    /\ UNCHANGED <<type, srv, sthr, net, missed>>

Main == Create \/ WaitUp \/ Connect \/ Send \/ Receive \/ ClientClose \/ Stop \/ Kill \/ Join

-----------------------------------------------------------------------------
Next == Server \/ Main

\* Both threads run.
EchoFairness == WF_echoVars(Server) /\ WF_echoVars(Main)

Spec == Init /\ [][Next]_echoVars /\ EchoFairness

-----------------------------------------------------------------------------
(* Properties *)

\* The server has given up before it was up.
NeverUp == sthr.at = "gone" /\ ~srv.up

\* Every client gets back its own requests and nobody else's, an echo is only on
\* its way to the client that waits for it, and when the test is over nothing is
\* left on the way, and every connection that was accepted is closed at both ends.
EchoFaithful ==
    /\ srv.err = IF NeverUp THEN 1 ELSE 0
    /\ \A c \in Rounds : net[c].from # <<>> =>
          c = main.client /\ main.at = "receive" /\ net[c].from = <<main.remaining>>
    /\ main.at = "ended" => /\ \A c \in Rounds : net[c].to = <<>> /\ net[c].from = <<>>
                            /\ \A c \in Rounds : net[c].closed /\ net[c].conn # "accepted"

\* The test ends, unless the signal comes after the server of datagrams looked at
\* keep_running and before it waits: then it waits forever, and so does the join
\* (testlib_fdoper.c:524).  Nor does it when the server gives up before it is up,
\* which the main thread waits for (testlib_fdoper.c:496).
EchoEnds == <>(main.at = "ended" \/ missed \/ NeverUp)
=============================================================================
