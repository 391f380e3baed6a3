------------------------------ MODULE Resolver ------------------------------
(***************************************************************************)
(* The name resolver of comp4320/project2: the server UDPserver.py, the    *)
(* clients UDPClient.c, and a network that may lose, duplicate, reorder    *)
(* and corrupt their datagrams.                                            *)
(*                                                                         *)
(* A client sends one datagram with all its host names and waits for the   *)
(* answer; if what comes back does not verify it sends the request again.  *)
(* Bytes are kept as bytes: what the two programs do depends on what their *)
(* checksum tells apart.                                                   *)
(***************************************************************************)
EXTENDS Checksum, FiniteSets, FiniteSetsExt, SequencesExt, Bags

CONSTANTS
    Clients,      \* the client processes
    gid,          \* the group ID, 16 in the program
    reqID,        \* reqID[c]: the request ID on c's command line
    Hosts,        \* Hosts[c]: the host names on c's command line, in order
    Address,      \* Address[h]: the IP address of host h; external
    BUFSIZE,      \* the size of either program's buffer, 1024
    Tries,        \* how often a client sends its request, 7
    Noise,        \* the values a corrupted byte may take
    MaxFaults     \* MaxFaults[k]: bound on the faults of kind k

delim == 126      \* '~'

\* A corrupted byte is one that was 0 and is 255, or the reverse, or any
\* other: the checksum cannot tell 0 from 255.
FaultKinds == {"loss", "duplicate", "corrupt", "flip"}

\* Host names are ASCII.
Names == Seq(1..127 \ {delim}) \ {<<>>}

\* Two bytes are enough for the length of the answer to anything that fits
\* in a buffer.
ASSUME ResolverAssumption ==
    /\ BUFSIZE \in Nat /\ 4 * (BUFSIZE + 1) + 5 < 256 * 256
    /\ Tries \in Nat \ {0}
    /\ Noise \subseteq Byte
    /\ MaxFaults \in [FaultKinds -> Nat]

\* Every answer, with room for what the printing loop skips, fits in buf.
ASSUME RequestAssumption ==
    /\ gid \in Byte
    /\ reqID \in [Clients -> Byte]
    /\ DOMAIN Hosts = Clients
    /\ \A c \in Clients :
          /\ Hosts[c] \in Seq(Names) \ {<<>>}
          /\ 5 + 8 * Len(Hosts[c]) <= BUFSIZE

ASSUME AddressAssumption ==
    \A h \in DOMAIN Address :
        /\ Address[h] \in [1..4 -> Byte]
        /\ Address[h][1] # 255

VARIABLES
    up,         \* is the server running?
    request,    \* request[c]: the bag of c's requests on their way
    reply,      \* reply[c]: the bag of replies on their way to c
    pc,         \* pc[c]: where client c is in its loop
    trys,       \* trys[c]: the loop's counter
    buf,        \* buf[c]: c's buffer, zeroed once, before the loop
    printed,    \* printed[c]: what c has told its user about each host
    faults      \* faults[k]: the faults of kind k so far

vars == <<up, request, reply, pc, trys, buf, printed, faults>>

\* A datagram, as much of it as recvfrom() will copy, and whether the
\* network has left it alone: it corrupts at most one byte of each.
Datagram(bytes) ==
    [bytes |-> SubSeq(bytes, 1, Min({Len(bytes), BUFSIZE})), clean |-> TRUE]

Put(bag, m) == bag (+) SetToBag({m})
Take(bag, m) == bag (-) SetToBag({m})

\* A message with its checksum in the third byte, which is zero so far.
Sealed(message) == [message EXCEPT ![3] = checkSum(message)]

-----------------------------------------------------------------------------
(* The server.  Numbers of bytes are the program's, counted from zero,     *)
(* plus one.                                                               *)

lengthOfPacket(data) == data[1] * 256 + data[2]

\* The parts of body between the bytes that are d, as str.split() has them.
split(body, d) ==
    LET ends == {i \in 1..Len(body) : body[i] = d} \cup {Len(body) + 1}
        after(i) == Min({j \in ends : j > i})
        end[k \in 0..Cardinality(ends)] == IF k = 0 THEN 0 ELSE after(end[k - 1])
    IN  [k \in 1..Cardinality(ends) |-> SubSeq(body, end[k - 1] + 1, end[k] - 1)]

\* actualMessage.split(chr(data[5]))
listOfHosts(data) == split(SubSeq(data, 7, lengthOfPacket(data)), data[6])

unresolved == <<255, 255, 255, 255>>

\* gethostbyname() may fail for a host that exists.
Lookups(host) ==
    {unresolved} \cup (IF host \in DOMAIN Address THEN {Address[host]} ELSE {})

\* What the server may find for a list of hosts.
Resolutions(hosts) ==
    {ips \in [1..Len(hosts) -> UNION {Lookups(h) : h \in Range(hosts)}] :
        \A k \in 1..Len(hosts) : ips[k] \in Lookups(hosts[k])}

\* The reply to a valid request.
answerMessage(data, ips) ==
    LET length == Len(ips) * 4 + 5
    IN  Sealed(<<length \div 256, length % 256, 0, data[4], data[5]>>
               \o FlattenSeq(ips))

\* What is sent for a request that does not verify: its own sum is put
\* where the checksum belongs.
errorMessage(data) == <<0, 7, checkTheCheckSum[data], data[4], data[5], 0, 0>>

\* Faulty: the length is looked at before the checksum.
Mismatch_First(data) == lengthOfPacket(data) # Len(data)

\* A datagram that verifies with a length that is not its own: line 108
\* calls a function that does not exist.
Mismatch(data) == Verifies(data) /\ lengthOfPacket(data) # Len(data)

Crash(c, m) ==
    /\ Mismatch(m.bytes)
    /\ up' = FALSE
    /\ request' = [request EXCEPT ![c] = Take(@, m)]
    /\ UNCHANGED <<reply, pc, trys, buf, printed, faults>>

AnswerRequest(c, m) ==
    /\ Verifies(m.bytes)
    /\ ~Mismatch(m.bytes)
    /\ request' = [request EXCEPT ![c] = Take(@, m)]
    /\ \E hosts \in {listOfHosts(m.bytes)} :
          \E ips \in Resolutions(hosts) :
             reply' = [reply EXCEPT ![c] = Put(@, Datagram(answerMessage(m.bytes, ips)))]
    /\ UNCHANGED <<up, pc, trys, buf, printed, faults>>

\* Faulty: a request that does not verify is ignored.
RejectRequest_Silent(c, m) ==
    /\ ~Verifies(m.bytes)
    /\ request' = [request EXCEPT ![c] = Take(@, m)]
    /\ UNCHANGED <<up, reply, pc, trys, buf, printed, faults>>

RejectRequest(c, m) ==
    /\ ~Verifies(m.bytes)
    /\ request' = [request EXCEPT ![c] = Take(@, m)]
    /\ reply' = [reply EXCEPT ![c] = Put(@, Datagram(errorMessage(m.bytes)))]
    /\ UNCHANGED <<up, pc, trys, buf, printed, faults>>

Serve(c) ==
    /\ up
    /\ \E m \in DOMAIN request[c] :
          Crash(c, m) \/ AnswerRequest(c, m) \/ RejectRequest(c, m)

-----------------------------------------------------------------------------
(* The clients.                                                            *)

\* The datagram built from the command line; length is the sum of the names
\* and a delimiter between any two.  The zero that sprintf() puts behind the
\* last name is not counted, and not sent.
Request(c) ==
    LET body == Tail(FlattenSeq([e \in 1..Len(Hosts[c]) |-> <<delim>> \o Hosts[c][e]]))
        length == 6 + Len(body)
    IN  Sealed(<<(length \div 256) % 256, length % 256, 0, gid, reqID[c], delim>> \o body)

\* recvfrom() overwrites as much of buf as it received.
Overwrite(buffer, data) ==
    [i \in 1..BUFSIZE |-> IF i <= Len(data) THEN data[i] ELSE buffer[i]]

\* The index in buffer at which the printing loop begins host e.
Index(buffer, count) ==
    LET after(i) == IF buffer[i] = 255 THEN i + 8 ELSE i + 4
        index[e \in 1..count] == IF e = 1 THEN 6 ELSE after(index[e - 1])
    IN  index

\* What the loop prints about each host.  The address of a host that was
\* not resolved is skipped, and the next four bytes are printed as its own.
Printout(buffer, count) ==
    [e \in 1..count |->
        LET i == Index(buffer, count)[e]
            issues == buffer[i] = 255
            first == IF issues THEN i + 4 ELSE i
        IN  [issues |-> issues, ip |-> SubSeq(buffer, first, first + 3)]]

Send(c) ==
    /\ pc[c] = "send"
    /\ request' = [request EXCEPT ![c] = Put(@, Datagram(Request(c)))]
    /\ pc' = [pc EXCEPT ![c] = "recv"]
    /\ UNCHANGED <<up, reply, trys, buf, printed, faults>>

\* A reply arrives.
Receive(c, m) ==
    /\ pc[c] = "recv"
    /\ reply' = [reply EXCEPT ![c] = Take(@, m)]
    /\ buf' = [buf EXCEPT ![c] = Overwrite(@, m.bytes)]
    /\ UNCHANGED <<up, request, faults>>

\* Faulty: the loop ends one try early.
InvalidResponse_OneTooFew(c, m) ==
    /\ Receive(c, m)
    /\ ~Verifies(buf'[c])
    /\ trys' = [trys EXCEPT ![c] = @ + 1]
    /\ pc' = [pc EXCEPT ![c] = IF trys'[c] < Tries - 1 THEN "send" ELSE "failed"]
    /\ UNCHANGED printed

\* The whole buffer is added up, with what earlier replies have left in it.
InvalidResponse(c, m) ==
    /\ Receive(c, m)
    /\ ~Verifies(buf'[c])
    /\ trys' = [trys EXCEPT ![c] = @ + 1]
    /\ pc' = [pc EXCEPT ![c] = IF trys'[c] < Tries THEN "send" ELSE "failed"]
    /\ UNCHANGED printed

\* Seven bytes that verify are an error "from server side".
ServerError(c, m) ==
    /\ Receive(c, m)
    /\ Verifies(buf'[c])
    /\ Len(m.bytes) = 7
    /\ pc' = [pc EXCEPT ![c] = "error"]
    /\ UNCHANGED <<trys, printed>>

\* Faulty: the checksum of the answer is not looked at.
Answer_Unchecked(c, m) ==
    /\ Receive(c, m)
    /\ Len(m.bytes) # 7
    /\ printed' = [printed EXCEPT ![c] = Printout(buf'[c], Len(Hosts[c]))]
    /\ pc' = [pc EXCEPT ![c] = "answered"]
    /\ UNCHANGED trys

Answer(c, m) ==
    /\ Receive(c, m)
    /\ Verifies(buf'[c])
    /\ Len(m.bytes) # 7
    /\ printed' = [printed EXCEPT ![c] = Printout(buf'[c], Len(Hosts[c]))]
    /\ pc' = [pc EXCEPT ![c] = "answered"]
    /\ UNCHANGED trys

ClientStep(c) ==
    \/ Send(c)
    \/ \E m \in DOMAIN reply[c] :
          InvalidResponse(c, m) \/ ServerError(c, m) \/ Answer(c, m)

-----------------------------------------------------------------------------
(* The network.                                                            *)

Fault(k) ==
    /\ faults[k] < MaxFaults[k]
    /\ faults' = [faults EXCEPT ![k] = @ + 1]

\* The kind of fault that turns byte a into byte b.
Corruption(a, b) == IF {a, b} = {0, 255} THEN "flip" ELSE "corrupt"

\* m with byte b in place i.
Corrupted(m, i, b) == [bytes |-> [m.bytes EXCEPT ![i] = b], clean |-> FALSE]

\* The ways one byte of a datagram may change.
Corruptions(m) ==
    UNION {{<<Corrupted(m, i, b), Corruption(m.bytes[i], b)>> :
            b \in Noise \ {m.bytes[i]}} : i \in 1..Len(m.bytes)}

\* What may become of the datagrams on their way, by one fault.
Disturbances(bag) ==
    UNION {{<<Take(bag, m), "loss">>, <<Put(bag, m), "duplicate">>}
           \cup (IF m.clean
                 THEN {<<Put(Take(bag, m), x[1]), x[2]>> : x \in Corruptions(m)}
                 ELSE {}) :
           m \in DOMAIN bag}

DisturbRequest(c) ==
    /\ \E x \in Disturbances(request[c]) :
          Fault(x[2]) /\ request' = [request EXCEPT ![c] = x[1]]
    /\ UNCHANGED <<up, reply, pc, trys, buf, printed>>

DisturbReply(c) ==
    /\ \E x \in Disturbances(reply[c]) :
          Fault(x[2]) /\ reply' = [reply EXCEPT ![c] = x[1]]
    /\ UNCHANGED <<up, request, pc, trys, buf, printed>>

-----------------------------------------------------------------------------
Init ==
    /\ up = TRUE
    /\ request = [c \in Clients |-> EmptyBag]
    /\ reply = [c \in Clients |-> EmptyBag]
    /\ pc = [c \in Clients |-> "send"]
    /\ trys = [c \in Clients |-> 0]
    /\ buf = [c \in Clients |-> [i \in 1..BUFSIZE |-> 0]]
    /\ printed = [c \in Clients |-> <<>>]
    /\ faults = [k \in FaultKinds |-> 0]

Next ==
    \E c \in Clients :
        Serve(c) \/ ClientStep(c) \/ DisturbRequest(c) \/ DisturbReply(c)

Spec == Init /\ [][Next]_vars

\* The server and the clients go on while they can, and datagrams that are
\* not lost arrive.
FairSpec ==
    /\ Spec
    /\ \A c \in Clients : WF_vars(Serve(c)) /\ WF_vars(ClientStep(c))

-----------------------------------------------------------------------------
Ended == {"answered", "error", "failed"}

Datagrams == [bytes : Seq(Byte), clean : BOOLEAN]

TypeOK ==
    /\ up \in BOOLEAN
    /\ \A c \in Clients :
          /\ IsABag(request[c]) /\ DOMAIN request[c] \subseteq Datagrams
          /\ IsABag(reply[c]) /\ DOMAIN reply[c] \subseteq Datagrams
    /\ pc \in [Clients -> {"send", "recv"} \cup Ended]
    /\ trys \in [Clients -> 0..Tries]
    /\ buf \in [Clients -> [1..BUFSIZE -> Byte]]
    /\ printed \in [Clients -> Seq([issues : BOOLEAN, ip : Seq(Byte)])]
    /\ faults \in [FaultKinds -> Nat]

NoFlips == faults["flip"] = 0

Fits(c) == Len(Request(c)) <= BUFSIZE

\* "Host %s has IP address:" (UDPClient.c 230).  Whatever is lost,
\* duplicated, delayed or corrupted in one byte, and whatever earlier replies
\* have left in the buffer, what the client prints about its hosts, in their
\* order and up to the first that was not resolved, are their addresses,
\* if its request fits in the buffer of the server.
PrintedAddressesAreRight ==
    NoFlips =>
        \A c \in Clients : Fits(c) =>
            \A e \in 1..Len(printed[c]) :
                (\A k \in 1..e : ~printed[c][k].issues) =>
                    printed[c][e].ip = Address[Hosts[c][e]]

\* The same for every host that is printed.
EveryPrintedAddressIsRight ==
    \A c \in Clients : \A e \in 1..Len(printed[c]) :
        printed[c][e].ip \in Lookups(Hosts[c][e])

\* The server outlives corrupted requests (UDPserver.py 97, 141): the
\* checksum keeps them from its unguarded length test, unless the corruption
\* is the one it cannot see or a request exceeds the buffer.
ServerStaysUp ==
    NoFlips /\ (\A c \in Clients : Fits(c)) => up

\* "If the request is not valid because it is too short/lomgth (length
\* mistmach), the server must return a message" (UDPserver.py 20-22).
LengthMismatchIsAnswered == up

\* "can only try 7 times" (UDPClient.c 221): a client that has used up its
\* tries met as many corrupted or duplicated datagrams.  No try is wasted: a
\* good answer is accepted over anything that is left in the buffer.
TriesAreSpentOnFaults ==
    \A c \in Clients :
        pc[c] = "failed" /\ Fits(c) =>
            faults["corrupt"] + faults["duplicate"] >= Tries

\* A client comes to an end if the network loses nothing and the server does
\* not die: every try is answered, with an answer or an error.
ClientEnds ==
    [](up /\ faults["loss"] = 0) =>
        \A c \in Clients : (pc[c] = "recv") ~> (pc[c] \in Ended)
=============================================================================
