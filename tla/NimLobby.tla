------------------------------- MODULE NimLobby -------------------------------
(***************************************************************************)
(* How two players of NIM find each other: the UDP server of               *)
(* comp4320/project3/src/Server.c, the clients of Client.py up to and      *)
(* including their TCP connection, and the network between them.           *)
(*                                                                         *)
(* A client sends one datagram with the port it wants to play on and reads *)
(* one answer, without a timeout.  The server remembers at most one client *)
(* that is waiting: the first one is told to listen on its port, the next  *)
(* one is told where.  Datagrams may be lost, duplicated and overtaken;    *)
(* a client may be interrupted and the server restarted at any time.  The  *)
(* game itself is NimPeers; here it is one step that ends both processes.  *)
(***************************************************************************)
EXTENDS Integers, Sequences, FiniteSets

CONSTANTS
    Clients,      \* the client processes that are ever started
    Machine,      \* Machine[c]: the IP address of the machine c runs on
    play_port,    \* play_port[c]: the port number on c's command line
    group_id,     \* GROUP_ID, the byte in every request
    AcceptQueue,  \* connections a listening socket holds before accept()
    MaxFaults,    \* MaxFaults[k]: bound on the faults of kind k
    MaxAllFaults, \* bound on the faults of all kinds together
    NoClient

FaultKinds == {"loss", "duplicate", "interrupt", "restart"}

LastPort == 65535
Ports == 0..LastPort

ASSUME LobbyAssumption ==
    /\ play_port \in [Clients -> Ports]
    /\ DOMAIN Machine = Clients
    /\ group_id \in 0..127
    /\ AcceptQueue \in Nat \ {0}
    /\ MaxFaults \in [FaultKinds -> Nat]
    /\ MaxAllFaults \in Nat
    /\ NoClient \notin Clients

VARIABLES
    waitingClient,  \* server: is there a client waiting to play?
    waitingaddr,    \* server: the socket address of that client
    clientPo,       \* server: the port it wants to play on
    request,        \* request[c]: copies of c's request on their way
    reply,          \* reply[c]: the answers on their way to c
    pc,             \* pc[c]: where client c is
    addr,           \* addr[c]: the address c was told to listen on or connect to
    queue,          \* queue[c]: connections to c that c has not accepted
    opponent,       \* opponent[c]: the process at the other end of c's connection
    matched,        \* history: the pairs <<guest, host>> the server made
    faults          \* faults[k]: the faults of kind k so far

server == <<waitingClient, waitingaddr, clientPo, matched>>
vars == <<server, request, reply, pc, addr, queue, opponent, faults>>

Address(ip, port) == [ip |-> ip, port |-> port]
NoAddress == [ip |-> NoClient, port |-> 0]
Endpoint(c) == Address(Machine[c], play_port[c])

\* The three datagrams a client tells apart by their length: a registration
\* and an error have five bytes, of which the last two matter.
FiveBytes(b4, b5) == [len |-> 5, byte4 |-> b4, byte5 |-> b5]
NineBytes(a) == [len |-> 9, address |-> a]

Hi(port) == port \div 256
Lo(port) == port % 256

-----------------------------------------------------------------------------
(* The server.                                                             *)

\* buf is an array of char, which is signed, and portNo is a short.
signed_char(b) == IF b >= 128 THEN b - 256 ELSE b
short(n) == ((n + 32768) % 65536) - 32768

portNo(port) == short(signed_char(Hi(port)) * 256 + signed_char(Lo(port)))

rangeCheck(portno, gid) ==
    LET lowerRange == 10010 + gid * 5
        upperRange == lowerRange + 4
    IN  portno >= lowerRange /\ portno <= upperRange

Valid(c) == rangeCheck(portNo(play_port[c]), group_id)

\* recvfrom() returns a copy of c's request.
Receive(c) ==
    /\ request[c] > 0
    /\ request' = [request EXCEPT ![c] = @ - 1]

Send(c, m) == reply' = [reply EXCEPT ![c] = @ \cup {m}]

\* Faulty: a client that is already waiting is overwritten.
StoreClient_Overwrites(c) ==
    /\ Receive(c)
    /\ Valid(c)
    /\ waitingaddr' = c
    /\ waitingClient' = TRUE
    /\ clientPo' = 256 * Hi(play_port[c]) + Lo(play_port[c])
    /\ Send(c, FiveBytes(Hi(play_port[c]), Lo(play_port[c])))
    /\ UNCHANGED <<matched, pc, addr, queue, opponent, faults>>

\* Nobody is waiting: c is remembered and gets its own request back.
StoreClient(c) ==
    /\ Receive(c)
    /\ Valid(c)
    /\ ~waitingClient
    /\ waitingaddr' = c
    /\ waitingClient' = TRUE
    /\ clientPo' = 256 * Hi(play_port[c]) + Lo(play_port[c])
    /\ Send(c, FiveBytes(Hi(play_port[c]), Lo(play_port[c])))
    /\ UNCHANGED <<matched, pc, addr, queue, opponent, faults>>

\* Faulty: waitingClient is not reset.
MatchClient_NoReset(c) ==
    /\ Receive(c)
    /\ Valid(c)
    /\ waitingClient
    /\ Send(c, NineBytes(Address(Machine[waitingaddr], clientPo)))
    /\ matched' = matched \cup {<<c, waitingaddr>>}
    /\ UNCHANGED <<waitingClient, waitingaddr, clientPo, pc, addr, queue, opponent, faults>>

\* Faulty: the guest is sent its own IP address, clientaddr for waitingaddr.
MatchClient_OwnAddress(c) ==
    /\ Receive(c)
    /\ Valid(c)
    /\ waitingClient
    /\ waitingClient' = FALSE
    /\ Send(c, NineBytes(Address(Machine[c], clientPo)))
    /\ matched' = matched \cup {<<c, waitingaddr>>}
    /\ UNCHANGED <<waitingaddr, clientPo, pc, addr, queue, opponent, faults>>

\* Somebody is waiting: c is told where.
MatchClient(c) ==
    /\ Receive(c)
    /\ Valid(c)
    /\ waitingClient
    /\ waitingClient' = FALSE
    /\ Send(c, NineBytes(Address(Machine[waitingaddr], clientPo)))
    /\ matched' = matched \cup {<<c, waitingaddr>>}
    /\ UNCHANGED <<waitingaddr, clientPo, pc, addr, queue, opponent, faults>>

RejectClient(c) ==
    /\ Receive(c)
    /\ ~Valid(c)
    /\ Send(c, FiveBytes(0, 1))
    /\ UNCHANGED <<server, pc, addr, queue, opponent, faults>>

-----------------------------------------------------------------------------
(* The clients.                                                            *)

Ended == {"rejected", "done", "died", "exited"}

Goto(c, label) == pc' = [pc EXCEPT ![c] = label]

send_request(c) ==
    /\ pc[c] = "init"
    /\ request' = [request EXCEPT ![c] = @ + 1]
    /\ Goto(c, "await")
    /\ UNCHANGED <<server, reply, addr, queue, opponent, faults>>

is_error(m) == m.byte4 = 0

\* One recv(), whose length decides what the client becomes.
get_response(c) ==
    /\ pc[c] = "await"
    /\ \E m \in reply[c] :
          /\ reply' = [reply EXCEPT ![c] = @ \ {m}]
          /\ \/ /\ m.len = 5
                /\ is_error(m)
                /\ Goto(c, "rejected")
                /\ UNCHANGED addr
             \/ /\ m.len = 5
                /\ ~is_error(m)
                /\ Goto(c, "bind")
                /\ addr' = [addr EXCEPT ![c] =
                               Address(Machine[c], 256 * m.byte4 + m.byte5)]
             \/ /\ m.len = 9
                /\ Goto(c, "connect")
                /\ addr' = [addr EXCEPT ![c] = m.address]
    /\ UNCHANGED <<server, request, queue, opponent, faults>>

Listening(c) == pc[c] \in {"accept", "hosting"}

\* The sockets that listen on address a.  A listening socket stays open
\* until its process ends, also after accept().
Listeners(a) == {h \in Clients : Listening(h) /\ addr[h] = a}

\* The connection of a process that has ended may linger on the address a it
\* listened on.
Lingers(a) ==
    \E h \in Clients :
        /\ pc[h] \in Ended
        /\ addr[h] = a
        /\ opponent[h] # NoClient
        /\ opponent[opponent[h]] = h

\* bind() and listen(); between the two nobody can connect either.  The
\* address may be in use, by a listening socket or, as SO_REUSEADDR is not
\* set, by a connection that lingers: EADDRINUSE is not caught.
establish_server(c) ==
    /\ pc[c] = "bind"
    /\ \/ /\ Listeners(addr[c]) = {}
          /\ Goto(c, "accept")
       \/ /\ Listeners(addr[c]) # {} \/ Lingers(addr[c])
          /\ Goto(c, "died")
    /\ UNCHANGED <<server, request, reply, addr, queue, opponent, faults>>

\* The connection is complete as soon as the kernel of the host has queued
\* it; a full queue makes connect() wait.
connect_to_opponent(c) ==
    /\ pc[c] = "connect"
    /\ \E h \in Listeners(addr[c]) :
          /\ Len(queue[h]) < AcceptQueue
          /\ queue' = [queue EXCEPT ![h] = Append(@, c)]
          /\ opponent' = [opponent EXCEPT ![c] = h]
    /\ Goto(c, "visiting")
    /\ UNCHANGED <<server, request, reply, addr, faults>>

\* ECONNREFUSED is not caught.
connection_refused(c) ==
    /\ pc[c] = "connect"
    /\ Listeners(addr[c]) = {}
    /\ Goto(c, "died")
    /\ UNCHANGED <<server, request, reply, addr, queue, opponent, faults>>


accept(c) ==
    /\ pc[c] = "accept"
    /\ queue[c] # <<>>
    /\ opponent' = [opponent EXCEPT ![c] = Head(queue[c])]
    /\ queue' = [queue EXCEPT ![c] = Tail(@)]
    /\ Goto(c, "hosting")
    /\ UNCHANGED <<server, request, reply, addr, faults>>

\* The game of host c is won and lost (see NimPeers): both processes exit.
end_game(c) ==
    /\ pc[c] = "hosting"
    /\ pc[opponent[c]] = "visiting"
    /\ pc' = [pc EXCEPT ![c] = "done", ![opponent[c]] = "done"]
    /\ UNCHANGED <<server, request, reply, addr, queue, opponent, faults>>

\* The process at the other end is gone; struct.unpack of nothing raises.
connection_lost(c) ==
    /\ \/ /\ pc[c] = "visiting"
          /\ ~Listening(opponent[c])
       \/ /\ pc[c] = "hosting"
          /\ pc[opponent[c]] # "visiting"
    /\ Goto(c, "died")
    /\ UNCHANGED <<server, request, reply, addr, queue, opponent, faults>>

-----------------------------------------------------------------------------
(* The faults.                                                             *)

AllFaults ==
    faults["loss"] + faults["duplicate"] + faults["interrupt"]
        + faults["restart"]

Fault(k) ==
    /\ faults[k] < MaxFaults[k]
    /\ AllFaults < MaxAllFaults
    /\ faults' = [faults EXCEPT ![k] = @ + 1]

LoseRequest(c) ==
    /\ Fault("loss")
    /\ Receive(c)
    /\ UNCHANGED <<server, reply, pc, addr, queue, opponent>>

LoseReply(c) ==
    /\ Fault("loss")
    /\ \E m \in reply[c] : reply' = [reply EXCEPT ![c] = @ \ {m}]
    /\ UNCHANGED <<server, request, pc, addr, queue, opponent>>

DuplicateRequest(c) ==
    /\ Fault("duplicate")
    /\ request[c] > 0
    /\ request' = [request EXCEPT ![c] = @ + 1]
    /\ UNCHANGED <<server, reply, pc, addr, queue, opponent>>

\* Ctrl-C
Interrupt(c) ==
    /\ Fault("interrupt")
    /\ pc[c] \notin Ended \cup {"init"}
    /\ Goto(c, "exited")
    /\ UNCHANGED <<server, request, reply, addr, queue, opponent>>

\* Faulty: the new server starts with the flag of the old one.
RestartServer_KeepsFlag ==
    /\ Fault("restart")
    /\ waitingaddr' = NoClient
    /\ clientPo' = 0
    /\ UNCHANGED <<waitingClient, matched, request, reply, pc, addr, queue, opponent>>

\* The server is killed and started again: nothing it knew was stored.  What
\* arrives while it is down is lost (LoseRequest).
RestartServer ==
    /\ Fault("restart")
    /\ waitingClient' = FALSE
    /\ waitingaddr' = NoClient
    /\ clientPo' = 0
    /\ UNCHANGED <<matched, request, reply, pc, addr, queue, opponent>>

-----------------------------------------------------------------------------
Init ==
    /\ waitingClient = FALSE
    /\ waitingaddr = NoClient
    /\ clientPo = 0
    /\ matched = {}
    /\ request = [c \in Clients |-> 0]
    /\ reply = [c \in Clients |-> {}]
    /\ pc = [c \in Clients |-> "init"]
    /\ addr = [c \in Clients |-> NoAddress]
    /\ queue = [c \in Clients |-> <<>>]
    /\ opponent = [c \in Clients |-> NoClient]
    /\ faults = [k \in FaultKinds |-> 0]

Serve(c) == StoreClient(c) \/ MatchClient(c) \/ RejectClient(c)

\* What a client does on its own, once it has been started.
ClientStep(c) ==
    \/ get_response(c)
    \/ establish_server(c)
    \/ connect_to_opponent(c)
    \/ connection_refused(c)
    \/ accept(c)
    \/ connection_lost(c)

FaultStep(c) ==
    LoseRequest(c) \/ LoseReply(c) \/ DuplicateRequest(c) \/ Interrupt(c)

Next ==
    \/ \E c \in Clients :
          send_request(c) \/ Serve(c) \/ ClientStep(c) \/ end_game(c) \/ FaultStep(c)
    \/ RestartServer

Spec == Init /\ [][Next]_vars

\* The server and every started client that can go on do; datagrams that
\* are not lost arrive.  Nobody has to start a client, finish a game or
\* press Ctrl-C.
FairSpec ==
    /\ Spec
    /\ \A c \in Clients : WF_vars(Serve(c)) /\ WF_vars(ClientStep(c))

-----------------------------------------------------------------------------
Machines == {Machine[c] : c \in Clients}

Addresses == [ip : Machines, port : Ports]

Datagrams ==
    [len : {5}, byte4 : 0..255, byte5 : 0..255] \cup [len : {9}, address : Addresses]

Labels == {"init", "await", "bind", "accept", "hosting", "connect", "visiting"} \cup Ended

TypeOK ==
    /\ waitingClient \in BOOLEAN
    /\ waitingaddr \in Clients \cup {NoClient}
    /\ waitingClient => waitingaddr \in Clients
    /\ clientPo \in Ports
    /\ matched \subseteq Clients \X Clients
    /\ request \in [Clients -> Nat]
    /\ reply \in [Clients -> SUBSET Datagrams]
    /\ pc \in [Clients -> Labels]
    /\ addr \in [Clients -> Addresses \cup {NoAddress}]
    /\ queue \in [Clients -> Seq(Clients)]
    /\ opponent \in [Clients -> Clients \cup {NoClient}]
    /\ faults \in [FaultKinds -> Nat]

\* S has no more members than there were faults of kind k.
BlamedOn(S, k) == IsFiniteSet(S) /\ Cardinality(S) <= faults[k]

\* c is a party to m, a pair that the server made.
In(c, m) == c \in {m[1], m[2]}

Rematched ==
    {c \in Clients :
        \/ <<c, c>> \in matched
        \/ \E m, n \in matched : m # n /\ In(c, m) /\ In(c, n)}

\* The server does not look at who is asking (Server.c 136, 161): a request
\* that the network duplicates may pair its client a second time, or with
\* itself.  But each such request does so to one client at most, however the
\* copies interleave with the requests of others: the second time counts the
\* client that repeats itself, not the one it is paired with.
MatchedOnce == BlamedOn(Rematched, "duplicate")

\* The hosts that the server does not remember and handed to nobody.
Forgotten ==
    {c \in Clients :
        /\ pc[c] \in {"bind", "accept"}
        /\ ~(waitingClient /\ waitingaddr = c)
        /\ ~\E g \in Clients : <<g, c>> \in matched}

\* A client that became a host is the one the server remembers, or has been
\* handed to a guest: no registration is overwritten, whatever is lost,
\* duplicated or interrupted.  A restart, after which the server knows
\* nobody, costs one registration at most, also when the answer to it is
\* still on its way.
NoRegistrationForgotten == BlamedOn(Forgotten, "restart")

\* "First client starts a TCP server on the port it requested to play on"
\* and "Second client ... is given the first client's information"
\* (README.md 3-4): through two byte-wise conversions of the port and the
\* test for an error, a host listens on its own address, and a guest is
\* connected to a process at the address of the host it was matched with.
AddressesAreRight ==
    \A c \in Clients :
        /\ pc[c] = "bind" \/ Listening(c) => addr[c] = Endpoint(c)
        /\ pc[c] \in {"connect", "visiting"} =>
              \E h \in Clients : <<c, h>> \in matched /\ addr[c] = Endpoint(h)
        /\ pc[c] = "visiting" => addr[opponent[c]] = addr[c]

UniqueEndpoint(h) == \A c \in Clients \ {h} : Endpoint(c) # Endpoint(h)

\* The hosts with a guest that is not the only one: the connection of
\* another is before or behind it in the queue, or was accepted instead.
Crowded ==
    {h \in Clients :
        /\ Listening(h)
        /\ UniqueEndpoint(h)
        /\ \E g \in Clients :
              /\ pc[g] = "visiting"
              /\ opponent[g] = h
              /\ \/ pc[h] = "accept" /\ queue[h] # <<g>>
                 \/ pc[h] = "hosting" /\ opponent[h] # g}

\* A connection that is queued behind another one is never accepted
\* (Client.py 137-142 leaves the loop after the first): a duplicated request
\* gives that second guest to one host at most, and nothing else does.
NobodyStranded == BlamedOn(Crowded, "duplicate")

\* Every request is answered, with an address to listen on, an address to
\* connect to, or an error: from some time on, since a client asks once and
\* waits without a timeout (Client.py 58), each lost datagram leaves one
\* client at most waiting for an answer, and nothing else leaves one.
RequestIsAnswered ==
    <>[]BlamedOn({c \in Clients : pc[c] = "await"}, "loss")

\* A guest whose connection got through is accepted, or ends because the
\* host did: from some time on a guest is left in the queue (Client.py
\* 137-142) of one host at most for each duplicated request, and of no other.
ConnectedGuestPlays ==
    <>[]BlamedOn({h \in Clients :
                    /\ UniqueEndpoint(h)
                    /\ \E g \in Clients :
                          pc[g] = "visiting" /\ opponent[g] = h /\ opponent[h] # g},
                 "duplicate")


\* "Second client connects to first client's TCP server and the game begins"
\* (README.md 5).
GameBegins ==
    \A g, h \in Clients : (<<g, h>> \in matched) ~> (opponent[h] = g)

\* A client that asks for one of the five ports of its group
\* (Server.c 41-42) plays on it (README.md 3) or joins a game.
InRangePortAccepted ==
    \A c \in Clients :
        rangeCheck(play_port[c], group_id) => pc[c] # "rejected"
=============================================================================
