--------------------------------- MODULE AmFd ---------------------------------
(***************************************************************************)
(* How src/src/libam_fdopers.c obtains descriptors: sockets that serve and *)
(* sockets that connect, in an older way from an address and in a newer    *)
(* one from a host and a port, and files read and written whole.  Each     *)
(* system call is a step and may fail.  One thread calls.                  *)
(*                                                                         *)
(* A port is the pair of its bytes.  A port stored as the machine has it   *)
(* goes out with its bytes swapped, which htons makes up for.              *)
(***************************************************************************)
EXTENDS Integers, Sequences, FiniteSets, Functions

CONSTANTS Fds,   \* the descriptors there are
          Ports, \* the ports asked for
          Zero,  \* port 0: any
          NoFd   \* -1

Bytes == 0 .. 255

ASSUME FdAssumption ==
    /\ Fds \subseteq Nat /\ NoFd \notin Fds
    /\ Ports \subseteq Bytes \X Bytes /\ Zero \notin Bytes \X Bytes

Families == {"INET", "INET6"}
Swap(port) == IF port = Zero THEN Zero ELSE <<port[2], port[1]>>

\* sizeof(struct sockaddr) is the length of an IPv4 address and too short for
\* the other, which the kernel refuses.
FitsSockaddr(family) == family = "INET"

VARIABLES open, \* the descriptors the kernel has given and not had back
          held, \* those the program was given by the library, and has
          addr, \* an address of the program: family, and port as stored
          call  \* the call in progress

fdVars == <<open, held, addr, call>>

Idle == [op |-> "none", at |-> "none", fd |-> NoFd, families |-> <<>>, type |-> "STREAM",
         port |-> Zero]

FdInit ==
    /\ open = <<>>
    /\ held = {}
    /\ addr = [family |-> "UNSPEC", port |-> Zero]
    /\ call = Idle

-----------------------------------------------------------------------------
(* The kernel *)

\* The lowest descriptor that is free, if there is one.
FreeFd == {fd \in Fds \ DOMAIN open : \A d \in Fds \ DOMAIN open : fd <= d}

\* A descriptor for the call in progress.
NewFd(family, next) == \E fd \in FreeFd :
    /\ open' = [d \in DOMAIN open \cup {fd} |->
                  IF d = fd THEN [op |-> call.op, stage |-> "new", family |-> family,
                                  type |-> call.type, asked |-> call.port, wire |-> Zero]
                  ELSE open[d]]
    /\ call' = [call EXCEPT !.fd = fd, !.at = next]

Close(fd) == open' = Restrict(open, DOMAIN open \ {fd})

\* The port on the wire, of one stored: the kernel picks one for 0.
WirePorts(stored) == IF stored = Zero THEN Ports ELSE {Swap(stored)}

\* Somebody listens there, or datagrams are sent and nobody is asked.
Reachable(family, type, wire) ==
    \/ type = "DGRAM"
    \/ \E d \in DOMAIN open : /\ open[d].stage = "listening"
                              /\ open[d].family = family /\ open[d].wire = wire

At(op, at) == call.op = op /\ call.at = at

-----------------------------------------------------------------------------
(* Addresses.  They are made between calls. *)

\* amskt_port2addr, for an address that is unset or of the family, and
\* amskt_str2addr for any.
AddrNetwork == \E f \in Families, p \in Ports \cup {Zero} :
    /\ call = Idle
    /\ addr' = [family |-> f, port |-> Swap(p)]
    /\ UNCHANGED <<open, held, call>>

\* amskt_port2addr of an address of another family, and amskt_str2addr of a
\* string that is no address.
AddrCleared ==
    /\ call = Idle /\ addr.family # "UNSPEC"
    /\ addr' = [family |-> "UNSPEC", port |-> Zero]
    /\ UNCHANGED <<open, held, call>>

\* amskt_addr_set_port, when it succeeds: the port is stored as it is.
AddrSetPort == \E f \in Families, p \in Ports \cup {Zero} :
    /\ call = Idle /\ addr.family \in {"UNSPEC", f}
    /\ addr' = [family |-> f, port |-> p]
    /\ UNCHANGED <<open, held, call>>

\* amskt_local_to_addr: what getsockname says of a socket.
AddrLocal == \E fd \in held :
    /\ call = Idle /\ open[fd].stage \in {"bound", "listening"}
    /\ addr' = [family |-> open[fd].family, port |-> Swap(open[fd].wire)]
    /\ UNCHANGED <<open, held, call>>

\* amskt_addr_to_port, and the number that amskt_addr_to_portstr and
\* amskt_addr_to_str write.
ToPort(a) == IF a.family \in Families THEN a.port ELSE Zero

-----------------------------------------------------------------------------
(* Sockets *)

Begin(op, families, type, port) ==
    /\ call = Idle
    /\ call' = [op |-> op, at |-> "socket", fd |-> NoFd, families |-> families,
                type |-> type, port |-> port]
    /\ UNCHANGED <<open, held, addr>>

\* The results of getaddrinfo: none if it fails.
Results(family) == {<<>>} \cup
    {r \in {<<"INET">>, <<"INET6">>, <<"INET", "INET6">>, <<"INET6", "INET">>} :
        family = "UNSPEC" \/ r = <<family>>}

\* amskt_get_server_socket, with a family, a type and a port it takes.
ServerCall == \E f \in Families \cup {"UNSPEC"}, t \in {"STREAM", "DGRAM"},
                 p \in Ports \cup {Zero} :
    \E r \in Results(f) : Begin("server", r, t, p)

\* amskt_get_client_socket; the port cannot be 0.  It may be that of an address.
ClientCall == \E f \in Families \cup {"UNSPEC"}, t \in {"STREAM", "DGRAM"},
                 p \in (Ports \cup {ToPort(addr)}) \ {Zero} :
    \E r \in Results(f) : Begin("client", r, t, p)

\* amskt_listen and amskt_connect: an address of another family is refused.
OfAddr == IF addr.family \in Families THEN <<addr.family>> ELSE <<>>
ListenCall == Begin("listen", OfAddr, "STREAM", addr.port)
ConnectCall == Begin("connect", OfAddr, "STREAM", addr.port)

\* socket()
Socket ==
    /\ call.at = "socket" /\ call.families # <<>>
    /\ \/ NewFd(Head(call.families), IF call.op \in {"server", "listen"} THEN "options"
                                     ELSE "connect")
       \/ call' = [call EXCEPT !.families = Tail(@)] /\ UNCHANGED open
    /\ UNCHANGED <<held, addr>>

Goes(next, stage, wire) ==
    /\ open' = [open EXCEPT ![call.fd].stage = stage, ![call.fd].wire = wire]
    /\ call' = [call EXCEPT !.at = next]
    /\ UNCHANGED <<held, addr>>

NextResult == call' = [call EXCEPT !.at = "socket", !.fd = NoFd, !.families = Tail(@)]

\* The socket is closed and the next result is tried, if there is one.
GivenUp == NextResult /\ Close(call.fd) /\ UNCHANGED <<held, addr>>

\* SO_REUSEADDR and SO_REUSEPORT
SetOptions ==
    /\ call.at = "options"
    /\ Goes("bind", "new", Zero) \/ GivenUp

ServerBind ==
    /\ At("server", "bind")
    /\ \/ \E w \in WirePorts(call.port) :
              Goes(IF call.type = "STREAM" THEN "listen" ELSE "done", "bound", w)
       \/ GivenUp

ListenBind ==
    /\ At("listen", "bind")
    /\ \/ /\ FitsSockaddr(open[call.fd].family)
          /\ \E w \in WirePorts(call.port) : Goes("listen", "bound", w)
       \/ GivenUp

Listen ==
    /\ call.at = "listen"
    /\ Goes("done", "listening", open[call.fd].wire) \/ GivenUp

\* Slip: a socket that did not connect is forgotten.
ClientConnectLeak ==
    /\ At("client", "connect")
    /\ \/ /\ Reachable(open[call.fd].family, call.type, Swap(call.port))
          /\ Goes("done", "connected", Swap(call.port))
       \/ NextResult /\ UNCHANGED <<open, held, addr>>

ClientConnect ==
    /\ At("client", "connect")
    /\ \/ /\ Reachable(open[call.fd].family, call.type, Swap(call.port))
          /\ Goes("done", "connected", Swap(call.port))
       \/ GivenUp

\* amskt_connect does forget it (libam_fdopers.c:206).
Connect ==
    /\ At("connect", "connect")
    /\ \/ /\ FitsSockaddr(open[call.fd].family)
          /\ Reachable(open[call.fd].family, "STREAM", Swap(call.port))
          /\ Goes("done", "connected", Swap(call.port))
       \/ NextResult /\ UNCHANGED <<open, held, addr>>

\* The call returns the socket, or the results ran out.
Return ==
    /\ call.at = "done" \/ (call.at = "socket" /\ call.families = <<>>)
    /\ held' = held \cup ({call.fd} \ {NoFd})
    /\ call' = Idle
    /\ UNCHANGED <<open, addr>>

\* amskt_accept of a client that waits; without one, or on an error, nothing changes.
Accept == \E server \in held, fd \in FreeFd :
    /\ call = Idle /\ open[server].stage = "listening"
    /\ open' = [d \in DOMAIN open \cup {fd} |->
                  IF d = fd THEN [open[server] EXCEPT !.op = "accept", !.stage = "connected"]
                  ELSE open[d]]
    /\ held' = held \cup {fd}
    /\ UNCHANGED <<addr, call>>

\* amskt_disconnect, or the program's close.
Disconnect == \E fd \in held :
    /\ call = Idle
    /\ Close(fd)
    /\ held' = held \ {fd}
    /\ UNCHANGED <<addr, call>>

-----------------------------------------------------------------------------
(* Files *)

FileCall == \E op \in {"fileRead", "fileWrite"} :
    /\ call = Idle
    /\ call' = [call EXCEPT !.op = op, !.at = "open"]
    /\ UNCHANGED <<open, held, addr>>

FileOpen ==
    /\ call.at = "open"
    /\ NewFd("FILE", IF call.op = "fileRead" THEN "prepare" ELSE "transfer")
       \/ (call' = Idle /\ UNCHANGED open)
    /\ UNCHANGED <<held, addr>>

\* The size is asked for, and memory: without them amfile_read returns at once,
\* with the file open (libam_fdopers.c:94, 106).
FileReadPrepare ==
    /\ At("fileRead", "prepare")
    /\ call' = [call EXCEPT !.at = "transfer"] \/ call' = Idle
    /\ UNCHANGED <<open, held, addr>>

\* amfd_read of all bytes, or amfd_write, and close, whatever came of it.
FileTransfer ==
    /\ call.at = "transfer"
    /\ Close(call.fd)
    /\ call' = Idle
    /\ UNCHANGED <<held, addr>>

-----------------------------------------------------------------------------
FdNext ==
    \/ AddrNetwork \/ AddrCleared \/ AddrSetPort \/ AddrLocal
    \/ ServerCall \/ ClientCall \/ ListenCall \/ ConnectCall
    \/ Socket \/ SetOptions \/ ServerBind \/ ListenBind \/ Listen \/ ClientConnect \/ Connect
    \/ Return \/ Accept \/ Disconnect
    \/ FileCall \/ FileOpen \/ FileReadPrepare \/ FileTransfer

FdSpec == FdInit /\ [][FdNext]_fdVars

-----------------------------------------------------------------------------
(* Properties *)

\* Whichever system call fails, no descriptor the program was given is closed
\* behind its back, and none is left open without an owner, but for those of two
\* sites: a connection that failed in amskt_connect, and a file that
\* amfile_read could not get the size of or the memory for.
NoStrayDescriptor ==
    /\ held \subseteq DOMAIN open
    /\ \A fd \in DOMAIN open \ (held \cup {call.fd}) :
          open[fd].op \in {"connect", "fileRead"} /\ open[fd].stage = "new"

\* What a call returns is what was asked for: a server is bound, and listens if it
\* is for connections; a client is connected.  The port of a socket obtained from
\* a host and a port goes out with its bytes swapped, so that such servers and
\* clients only meet each other; and amskt_listen and amskt_connect never come
\* by a socket of IPv6.
SocketsReady == \A fd \in held :
    LET s == open[fd]
    IN  /\ s.stage = CASE s.op \in {"client", "connect", "accept"} -> "connected"
                       [] s.op = "server" /\ s.type = "DGRAM" -> "bound"
                       [] OTHER -> "listening"
        /\ s.op \in {"server", "client"} /\ s.asked # Zero => s.wire = Swap(s.asked)
        /\ s.op \in {"listen", "connect"} => s.family = "INET"

\* The descriptors libam_fdopers.c opens, in both respects.
DescriptorsSound == NoStrayDescriptor /\ SocketsReady
=============================================================================
