--------------------------- MODULE NimLobbyProofs ---------------------------
(***************************************************************************)
(* The matching of NimLobby for every set of clients, machines, ports and  *)
(* group, and any number of faults.                                        *)
(***************************************************************************)
EXTENDS NimLobby, FiniteSetTheorems, TLAPS

(***************************************************************************)
(* The conversions of the port.                                            *)
(***************************************************************************)
LEMMA PortRange == \A n : n \in Ports <=> n \in Int /\ 0 <= n /\ n <= 65535
<1>1. LastPort \in Int
  BY DEF LastPort
<1>2. \A n : n \in Ports <=> n \in Int /\ 0 <= n /\ n <= LastPort
  BY <1>1 DEF Ports
<1>. QED  BY <1>2 DEF LastPort

\* Splitting a port into two bytes and putting it together again gives the
\* port back (Client.py 49, 75; Server.c 150-151, 174).
LEMMA PortBytes ==
    ASSUME NEW p \in Ports
    PROVE  /\ Hi(p) \in 0..255
           /\ Lo(p) \in 0..255
           /\ 256 * Hi(p) + Lo(p) = p
<1>1. p \in Int /\ 0 <= p /\ p <= 65535
  BY PortRange
<1>. QED  BY <1>1 DEF Hi, Lo

LEMMA BytesPort ==
    \A b4, b5 \in Int :
        0 <= b4 /\ b4 <= 255 /\ 0 <= b5 /\ b5 <= 255 => 256 * b4 + b5 \in Ports
<1>. TAKE b4, b5 \in Int
<1>. HAVE 0 <= b4 /\ b4 <= 255 /\ 0 <= b5 /\ b5 <= 255
<1>1. PICK p \in Int : p = 256 * b4 + b5
  OBVIOUS
<1>2. 0 <= p /\ p <= 65535
  BY <1>1
<1>3. p \in Ports
  BY <1>2, PortRange
<1>. QED  BY <1>1, <1>3

LEMMA SmallShort ==
    \A n \in Int : -32768 <= n /\ n <= 32767 => short(n) = n
BY DEF short

LEMMA SignedChar ==
    \A b \in 0..255 : signed_char(b) \in Int /\ -128 <= signed_char(b) /\ signed_char(b) <= 127
BY DEF signed_char

LEMMA PortOfLowByte ==
    ASSUME NEW p, Hi(p) = 0, Lo(p) \in 0..255
    PROVE  portNo(p) \in Int /\ portNo(p) < 128
<1>. DEFINE n == signed_char(Lo(p))
<1>1. n \in Int /\ -128 <= n /\ n <= 127
  BY SignedChar
<1>2. signed_char(Hi(p)) = 0
  BY DEF signed_char
<1>3. 0 * 256 + n = n
  BY <1>1
<1>4. short(n) = n
  BY <1>1, SmallShort
<1>. QED  BY <1>1, <1>2, <1>3, <1>4 DEF portNo

\* A registration is never taken for an error: a port that the server
\* accepts does not have a high byte of zero.
LEMMA ValidPortHasHighByte ==
    ASSUME NEW c \in Clients, Valid(c)
    PROVE  Hi(play_port[c]) # 0
<1>. DEFINE p == play_port[c]
<1>1. p \in Ports /\ group_id \in Nat
  BY LobbyAssumption
<1>2. Lo(p) \in 0..255
  BY <1>1, PortBytes
<1>3. \A n \in Int : n < 128 => ~rangeCheck(n, group_id)
  BY <1>1 DEF rangeCheck
<1>. QED  BY <1>2, <1>3, PortOfLowByte DEF Valid

(***************************************************************************)
(* Type correctness.                                                       *)
(***************************************************************************)
LEMMA AddressTypes ==
    ASSUME NEW c \in Clients, NEW p \in Ports
    PROVE  Address(Machine[c], p) \in Addresses
BY DEF Address, Addresses, Machines

LEMMA DatagramTypes ==
    /\ \A b4, b5 \in 0..255 : FiveBytes(b4, b5) \in Datagrams
    /\ \A a \in Addresses : NineBytes(a) \in Datagrams
BY ZenonT(30) DEF FiveBytes, NineBytes, Datagrams

LEMMA ReceiveType ==
    ASSUME request \in [Clients -> Nat], NEW c \in Clients, Receive(c)
    PROVE  request' \in [Clients -> Nat]
<1>1. request[c] - 1 \in Nat
  BY DEF Receive
<1>. QED  BY <1>1 DEF Receive

LEMMA SendType ==
    ASSUME reply \in [Clients -> SUBSET Datagrams], NEW c \in Clients,
           NEW m \in Datagrams, Send(c, m)
    PROVE  reply' \in [Clients -> SUBSET Datagrams]
BY DEF Send

LEMMA FaultType ==
    ASSUME faults \in [FaultKinds -> Nat], NEW k \in FaultKinds, Fault(k)
    PROVE  faults' \in [FaultKinds -> Nat]
BY DEF Fault

LEMMA ServeKeepsTypeOK ==
    ASSUME TypeOK, NEW c \in Clients, Serve(c)
    PROVE  TypeOK'
<1>. USE DEF server
<1>0. /\ request' \in [Clients -> Nat]
      /\ request \in [Clients -> Nat]
      /\ reply \in [Clients -> SUBSET Datagrams]
  <2>1. Receive(c)
    BY DEF Serve, StoreClient, MatchClient, RejectClient
  <2>. QED  BY <2>1, ReceiveType DEF TypeOK
<1>1. CASE StoreClient(c)
  <2>1. play_port[c] \in Ports
    BY LobbyAssumption
  <2>2. Hi(play_port[c]) \in 0..255 /\ Lo(play_port[c]) \in 0..255
    BY <2>1, PortBytes
  <2>3. clientPo' \in Ports
    BY <1>1, <2>1, PortBytes DEF StoreClient
  <2>4. reply' \in [Clients -> SUBSET Datagrams]
    <3>1. FiveBytes(Hi(play_port[c]), Lo(play_port[c])) \in Datagrams
      BY <2>2, DatagramTypes, ZenonT(30)
    <3>. QED  BY <1>0, <1>1, <3>1, SendType DEF StoreClient
  <2>. QED  BY <1>0, <1>1, <2>3, <2>4 DEF StoreClient, TypeOK
<1>2. CASE MatchClient(c)
  <2>1. waitingaddr \in Clients /\ clientPo \in Ports
    BY <1>2 DEF MatchClient, TypeOK
  <2>2. reply' \in [Clients -> SUBSET Datagrams]
    <3>1. NineBytes(Address(Machine[waitingaddr], clientPo)) \in Datagrams
      BY <2>1, AddressTypes, DatagramTypes, ZenonT(30)
    <3>. QED  BY <1>0, <1>2, <3>1, SendType DEF MatchClient
  <2>3. matched' \subseteq Clients \X Clients
    BY <1>2, <2>1 DEF MatchClient, TypeOK
  <2>. QED  BY <1>0, <1>2, <2>1, <2>2, <2>3 DEF MatchClient, TypeOK
<1>3. CASE RejectClient(c)
  <2>1. reply' \in [Clients -> SUBSET Datagrams]
    <3>1. 0 \in 0..255 /\ 1 \in 0..255
      OBVIOUS
    <3>2. FiveBytes(0, 1) \in Datagrams
      BY <3>1, DatagramTypes, ZenonT(30)
    <3>. QED  BY <1>0, <1>3, <3>2, SendType DEF RejectClient
  <2>. QED  BY <1>0, <1>3, <2>1, SMTT(30) DEF RejectClient, TypeOK
<1>. QED  BY <1>1, <1>2, <1>3 DEF Serve

LEMMA ClientKeepsTypeOK ==
    ASSUME TypeOK, NEW c \in Clients, send_request(c) \/ ClientStep(c) \/ end_game(c)
    PROVE  TypeOK'
<1>1. CASE send_request(c)
  BY <1>1 DEF send_request, TypeOK, Goto, server, Labels, Ended
<1>2. CASE get_response(c)
  <2>1. PICK m \in reply[c] :
          /\ reply' = [reply EXCEPT ![c] = @ \ {m}]
          /\ \/ Goto(c, "rejected") /\ UNCHANGED addr
             \/ /\ m.len = 5 /\ Goto(c, "bind")
                /\ addr' = [addr EXCEPT ![c] =
                               Address(Machine[c], 256 * m.byte4 + m.byte5)]
             \/ /\ m.len = 9 /\ Goto(c, "connect")
                /\ addr' = [addr EXCEPT ![c] = m.address]
    BY <1>2 DEF get_response
  <2>2. m \in Datagrams
    BY <2>1, SMTT(30) DEF TypeOK
  <2>3. addr' \in [Clients -> Addresses \cup {NoAddress}]
    <3>1. CASE m.len = 5
      <4>1. m.byte4 \in 0..255 /\ m.byte5 \in 0..255
        BY <2>2, <3>1 DEF Datagrams
      <4>2. Address(Machine[c], 256 * m.byte4 + m.byte5) \in Addresses
        <5>1. /\ m.byte4 \in Int /\ 0 <= m.byte4 /\ m.byte4 <= 255
              /\ m.byte5 \in Int /\ 0 <= m.byte5 /\ m.byte5 <= 255
          BY ONLY <4>1
        <5>2. 256 * m.byte4 + m.byte5 \in Ports
          BY ONLY <5>1, BytesPort
        <5>. QED  BY <5>2, AddressTypes
      <4>3. \/ addr' = addr
            \/ addr' = [addr EXCEPT ![c] =
                           Address(Machine[c], 256 * m.byte4 + m.byte5)]
        BY <2>1, <3>1
      <4>4. addr \in [Clients -> Addresses \cup {NoAddress}]
        BY DEF TypeOK
      <4>. QED  BY <4>2, <4>3, <4>4
    <3>2. CASE m.len = 9
      <4>1. m.address \in Addresses
        BY <2>2, <3>2 DEF Datagrams
      <4>2. addr' = addr \/ addr' = [addr EXCEPT ![c] = m.address]
        BY <2>1, <3>2
      <4>. QED  BY <4>1, <4>2 DEF TypeOK
    <3>. QED  BY <2>2, <3>1, <3>2 DEF Datagrams
  <2>4. reply' \in [Clients -> SUBSET Datagrams] /\ pc' \in [Clients -> Labels]
    <3>1. PICK l \in {"rejected", "bind", "connect"} : pc' = [pc EXCEPT ![c] = l]
      BY <2>1 DEF Goto
    <3>. QED  BY <2>1, <3>1 DEF TypeOK, Labels, Ended
  <2>. QED  BY <1>2, <2>3, <2>4 DEF get_response, TypeOK, server
<1>. USE DEF Goto, server, Labels, Ended
<1>3. CASE establish_server(c)
  BY <1>3 DEF establish_server, TypeOK
<1>4. CASE connect_to_opponent(c)
  <2>1. PICK h \in Clients :
          /\ queue' = [queue EXCEPT ![h] = Append(@, c)]
          /\ opponent' = [opponent EXCEPT ![c] = h]
    BY <1>4 DEF connect_to_opponent, Listeners
  <2>2. queue' \in [Clients -> Seq(Clients)]
    BY <2>1 DEF TypeOK
  <2>. QED  BY <1>4, <2>1, <2>2 DEF connect_to_opponent, TypeOK
<1>5. CASE connection_refused(c)
  BY <1>5 DEF connection_refused, TypeOK
<1>6. CASE accept(c)
  <2>1. queue[c] \in Seq(Clients) /\ queue[c] # <<>>
    BY <1>6 DEF accept, TypeOK
  <2>2. Head(queue[c]) \in Clients /\ Tail(queue[c]) \in Seq(Clients)
    BY <2>1
  <2>. QED  BY <1>6, <2>2 DEF accept, TypeOK
<1>7. CASE connection_lost(c)
  BY <1>7 DEF connection_lost, TypeOK
<1>8. CASE end_game(c)
  BY <1>8 DEF end_game, TypeOK
<1>. QED
  BY <1>1, <1>2, <1>3, <1>4, <1>5, <1>6, <1>7, <1>8 DEF ClientStep

LEMMA FaultKeepsTypeOK ==
    ASSUME TypeOK, RestartServer \/ \E c \in Clients : FaultStep(c)
    PROVE  TypeOK'
<1>. USE DEF Goto, server, Labels, Ended
<1>0. ASSUME NEW k \in FaultKinds, Fault(k)
      PROVE  faults' \in [FaultKinds -> Nat]
  BY <1>0, FaultType DEF TypeOK
<1>1. CASE RestartServer
  <2>1. faults' \in [FaultKinds -> Nat]
    BY <1>0, <1>1 DEF RestartServer, FaultKinds
  <2>2. /\ waitingClient' = FALSE
        /\ waitingaddr' = NoClient
        /\ clientPo' = 0
        /\ UNCHANGED <<matched, request, reply, pc, addr, queue, opponent>>
    BY <1>1 DEF RestartServer
  <2>3. 0 \in Ports
    BY PortRange
  <2>. QED  BY <2>1, <2>2, <2>3 DEF TypeOK
<1>2. ASSUME NEW c \in Clients, LoseRequest(c)
      PROVE  TypeOK'
  <2>1. faults' \in [FaultKinds -> Nat]
    BY <1>0, <1>2 DEF LoseRequest, FaultKinds
  <2>2. request' \in [Clients -> Nat]
    BY <1>2, ReceiveType DEF LoseRequest, TypeOK
  <2>. QED  BY <1>2, <2>1, <2>2 DEF LoseRequest, TypeOK
<1>3. ASSUME NEW c \in Clients, LoseReply(c)
      PROVE  TypeOK'
  <2>1. faults' \in [FaultKinds -> Nat]
    BY <1>0, <1>3 DEF LoseReply, FaultKinds
  <2>. QED  BY <1>3, <2>1 DEF LoseReply, TypeOK
<1>4. ASSUME NEW c \in Clients, DuplicateRequest(c)
      PROVE  TypeOK'
  <2>1. faults' \in [FaultKinds -> Nat]
    BY <1>0, <1>4 DEF DuplicateRequest, FaultKinds
  <2>. QED  BY <1>4, <2>1 DEF DuplicateRequest, TypeOK
<1>5. ASSUME NEW c \in Clients, Interrupt(c)
      PROVE  TypeOK'
  <2>1. faults' \in [FaultKinds -> Nat]
    BY <1>0, <1>5 DEF Interrupt, FaultKinds
  <2>. QED  BY <1>5, <2>1 DEF Interrupt, TypeOK
<1>. QED  BY <1>1, <1>2, <1>3, <1>4, <1>5 DEF FaultStep

\* Bytes stay bytes, ports stay ports, and the stored client is one whenever
\* the server says that somebody waits.
THEOREM TypeCorrect == Spec => []TypeOK
<1>1. Init => TypeOK
  <2>1. 0 \in Ports /\ {} \in SUBSET Datagrams /\ <<>> \in Seq(Clients)
    BY PortRange
  <2>. SUFFICES ASSUME Init PROVE TypeOK
    OBVIOUS
  <2>2. /\ waitingClient = FALSE /\ waitingaddr = NoClient /\ clientPo = 0
        /\ matched = {}
    BY DEF Init
  <2>3. request \in [Clients -> Nat] /\ faults \in [FaultKinds -> Nat]
    BY DEF Init
  <2>4. /\ pc \in [Clients -> Labels]
        /\ addr \in [Clients -> Addresses \cup {NoAddress}]
        /\ opponent \in [Clients -> Clients \cup {NoClient}]
    BY DEF Init, Labels
  <2>5. /\ queue \in [Clients -> Seq(Clients)]
        /\ reply \in [Clients -> SUBSET Datagrams]
    BY <2>1 DEF Init
  <2>. QED  BY <2>1, <2>2, <2>3, <2>4, <2>5 DEF TypeOK
<1>2. ASSUME TypeOK, [Next]_vars
      PROVE  TypeOK'
  <2>1. CASE UNCHANGED vars
    BY <1>2, <2>1 DEF TypeOK, vars, server
  <2>2. CASE Next
    BY <1>2, <2>2, ServeKeepsTypeOK, ClientKeepsTypeOK, FaultKeepsTypeOK DEF Next
  <2>. QED  BY <1>2, <2>1, <2>2
<1>. QED  BY <1>1, <1>2, PTL DEF Spec

(***************************************************************************)
(* Counting: the clients to which something happened against the faults    *)
(* that are to blame.  Clients need not be finite; the sets counted are.   *)
(***************************************************************************)
LEMMA NobodyToBlame == IsFiniteSet({}) /\ Cardinality({}) <= 0
<1>1. Cardinality({}) = 0
  BY FS_EmptySet
<1>. QED  BY <1>1, FS_EmptySet

LEMMA Fewer ==
    ASSUME NEW n \in Nat, NEW S, NEW T, T \subseteq S,
           IsFiniteSet(S), Cardinality(S) <= n
    PROVE  IsFiniteSet(T) /\ Cardinality(T) <= n
<1>1. IsFiniteSet(T) /\ Cardinality(T) <= Cardinality(S)
  BY FS_Subset
<1>2. Cardinality(T) \in Nat /\ Cardinality(S) \in Nat
  BY <1>1, FS_CardinalityType
<1>. QED  BY <1>1, <1>2

LEMMA SmallerToBlame ==
    ASSUME TypeOK, NEW k \in FaultKinds, NEW S, NEW T, T \subseteq S,
           BlamedOn(S, k)
    PROVE  BlamedOn(T, k)
<1>1. faults[k] \in Nat
  BY DEF TypeOK
<1>. QED  BY <1>1, Fewer DEF BlamedOn

\* No step takes a fault back.
LEMMA FewerToBlame ==
    ASSUME TypeOK, [Next]_vars, NEW k \in FaultKinds, NEW S, NEW T, T \subseteq S,
           IsFiniteSet(S), Cardinality(S) <= faults[k]
    PROVE  IsFiniteSet(T) /\ Cardinality(T) <= faults'[k]
<1>1. faults[k] \in Nat
  BY DEF TypeOK
<1>2. \/ UNCHANGED faults
      \/ \E j \in FaultKinds : Fault(j)
  <2>1. CASE UNCHANGED vars
    BY <2>1 DEF vars
  <2>2. CASE RestartServer
    BY <2>2 DEF RestartServer, FaultKinds
  <2>3. ASSUME NEW c \in Clients, FaultStep(c)
        PROVE  \E j \in FaultKinds : Fault(j)
    BY <2>3 DEF FaultStep, LoseRequest, LoseReply, DuplicateRequest, Interrupt, FaultKinds
  <2>4. ASSUME NEW c \in Clients,
               send_request(c) \/ Serve(c) \/ ClientStep(c) \/ end_game(c)
        PROVE  UNCHANGED faults
    BY <2>4 DEF send_request, Serve, StoreClient, MatchClient, RejectClient,
         ClientStep, get_response, establish_server, connect_to_opponent,
         connection_refused, accept, connection_lost, end_game
  <2>. QED  BY <2>1, <2>2, <2>3, <2>4 DEF Next
<1>3. faults'[k] = faults[k] \/ faults'[k] = faults[k] + 1
  BY <1>2 DEF Fault, TypeOK
<1>4. IsFiniteSet(T) /\ Cardinality(T) <= faults[k] /\ Cardinality(T) \in Nat
  BY <1>1, Fewer, FS_CardinalityType
<1>. QED  BY <1>1, <1>3, <1>4

LEMMA OneMoreToBlame ==
    ASSUME TypeOK, NEW k \in FaultKinds, NEW S, NEW T, NEW x,
           T \subseteq S \cup {x}, faults'[k] = faults[k] + 1,
           IsFiniteSet(S), Cardinality(S) <= faults[k]
    PROVE  IsFiniteSet(T) /\ Cardinality(T) <= faults'[k]
<1>1. faults[k] \in Nat /\ Cardinality(S) \in Nat
  BY FS_CardinalityType DEF TypeOK
<1>2. IsFiniteSet(S \cup {x}) /\ Cardinality(S \cup {x}) <= Cardinality(S) + 1
  <2>1. /\ IsFiniteSet(S \cup {x})
        /\ \/ Cardinality(S \cup {x}) = Cardinality(S)
           \/ Cardinality(S \cup {x}) = Cardinality(S) + 1
    BY FS_AddElement, Zenon
  <2>. QED  BY <1>1, <2>1
<1>3. faults'[k] \in Nat /\ Cardinality(S \cup {x}) <= faults'[k]
  BY <1>1, <1>2, FS_CardinalityType
<1>. QED  BY <1>2, <1>3, Fewer

(***************************************************************************)
(* Nobody is matched twice without a duplicate of its own request.  The    *)
(* server does not know its clients; what keeps it from pairing one twice  *)
(* is that a client has one request, and that the request is consumed when *)
(* the client becomes known.  A duplicate gives one client, its sender, a  *)
(* request in excess of that, and an excess is never passed on.            *)
(***************************************************************************)
Paired(c) == \E m \in matched : In(c, m)

Known(c) == (waitingClient /\ waitingaddr = c) \/ Paired(c)

Fresh == \A c \in Clients : pc[c] = "init" => request[c] = 0 /\ ~Known(c)

Exceeds(c) ==
    \/ request[c] > 1
    \/ request[c] = 1 /\ Known(c)
    \/ waitingClient /\ waitingaddr = c /\ Paired(c)
    \/ c \in Rematched

Excess == {c \in Clients : Exceeds(c)}

OnceInv == Fresh /\ BlamedOn(Excess, "duplicate")

\* c is being served, and known already: one of its requests was in excess.
LEMMA ServedAgain ==
    ASSUME TypeOK, NEW c \in Clients, Receive(c), Known(c)
    PROVE  Exceeds(c)
<1>1. request[c] \in Nat /\ request[c] > 0
  BY DEF TypeOK, Receive
<1>. QED  BY <1>1 DEF Exceeds

LEMMA Received ==
    ASSUME TypeOK, NEW c \in Clients, Receive(c), NEW d \in Clients
    PROVE  /\ request'[d] \in Nat /\ request[d] \in Nat
           /\ request'[d] <= request[d]
           /\ d = c => request[d] = request'[d] + 1
BY DEF TypeOK, Receive

\* Steps that match nobody and remember nobody.
LEMMA ExcessStable ==
    ASSUME TypeOK,
           waitingClient' => waitingClient /\ waitingaddr' = waitingaddr,
           matched' = matched,
           \A c \in Clients : request'[c] \in Nat /\ request'[c] <= request[c]
    PROVE  Excess' \subseteq Excess
<1>. SUFFICES ASSUME NEW c \in Clients, Exceeds(c)' PROVE Exceeds(c)
  BY DEF Excess
<1>1. request[c] \in Nat /\ request'[c] \in Nat /\ request'[c] <= request[c]
  BY DEF TypeOK
<1>2. (Known(c)' => Known(c)) /\ (Paired(c)' => Paired(c))
  BY DEF Known, Paired, In
<1>3. c \in Rematched' => c \in Rematched
  BY DEF Rematched, In
<1>. QED  BY <1>1, <1>2, <1>3 DEF Exceeds

LEMMA StoreAddsNoExcess ==
    ASSUME TypeOK, NEW c \in Clients, StoreClient(c)
    PROVE  Excess' \subseteq Excess
<1>. SUFFICES ASSUME NEW d \in Clients, Exceeds(d)' PROVE Exceeds(d)
  BY DEF Excess
<1>1. /\ Receive(c) /\ waitingaddr' = c /\ UNCHANGED matched
  BY DEF StoreClient
<1>2. /\ request'[d] \in Nat /\ request[d] \in Nat
      /\ request'[d] <= request[d]
      /\ d = c => request[d] = request'[d] + 1
  BY <1>1, Received
<1>3. (Paired(d)' <=> Paired(d)) /\ (d \in Rematched' <=> d \in Rematched)
  BY <1>1 DEF Paired, Rematched, In
<1>4. CASE d = c
  <2>1. Paired(c) => Exceeds(c)
    BY <1>1, ServedAgain DEF Known
  <2>. QED  BY <1>2, <1>3, <1>4, <2>1 DEF Exceeds
<1>5. CASE d # c
  BY <1>1, <1>2, <1>3, <1>5 DEF Exceeds, Known
<1>. QED  BY <1>4, <1>5

\* The pair <<c, waitingaddr>>: neither is paired before, unless in excess.
LEMMA MatchAddsNoExcess ==
    ASSUME TypeOK, NEW c \in Clients, MatchClient(c)
    PROVE  Excess' \subseteq Excess
<1>. DEFINE w == waitingaddr
            new == <<c, w>>
<1>. SUFFICES ASSUME NEW d \in Clients, Exceeds(d)', ~Exceeds(d) PROVE FALSE
  BY DEF Excess
<1>1. /\ Receive(c) /\ waitingClient /\ w \in Clients
      /\ ~waitingClient' /\ matched' = matched \cup {new}
  BY DEF MatchClient, TypeOK
<1>2. /\ request'[d] \in Nat /\ request[d] \in Nat
      /\ request'[d] <= request[d]
      /\ d = c => request[d] = request'[d] + 1
  BY <1>1, Received
<1>3. \A x : In(x, new) <=> x = c \/ x = w
  BY DEF In
<1>. HIDE DEF new
<1>4. Paired(d)' => Paired(d) \/ d = c \/ d = w
  BY <1>1, <1>3 DEF Paired, In
<1>5. d = c => ~Known(d)
  BY <1>1, ServedAgain
<1>6. d = w => ~Paired(d)
  BY <1>1 DEF Exceeds
<1>7. d \notin Rematched'
  <2>1. d \notin Rematched
    BY DEF Exceeds
  <2>2. <<d, d>> \notin matched'
    <3>1. <<d, d>> \notin matched
      BY <2>1 DEF Rematched
    <3>2. <<d, d>> # new
      BY <1>1, <1>5 DEF new, Known
    <3>. QED  BY <1>1, <3>1, <3>2
  <2>3. ASSUME NEW m \in matched', NEW n \in matched', m # n, In(d, m), In(d, n)
        PROVE  FALSE
    <3>1. CASE m \in matched /\ n \in matched
      BY <2>1, <2>3, <3>1 DEF Rematched
    <3>2. CASE m = new \/ n = new
      <4>1. d = c \/ d = w
        BY <1>3, <2>3, <3>2
      <4>2. Paired(d)
        BY <1>1, <2>3, <3>2 DEF Paired
      <4>. QED  BY <1>5, <1>6, <4>1, <4>2 DEF Known
    <3>. QED  BY <1>1, <3>1, <3>2
  <2>. QED  BY <2>2, <2>3 DEF Rematched, In
<1>8. request'[d] <= 1 /\ (request'[d] = 1 => Known(d)')
  BY <1>1, <1>2, <1>7 DEF Exceeds
<1>9. request'[d] = 1 /\ d # c /\ Known(d)'
  BY <1>1, <1>2, <1>7, <1>8 DEF Exceeds
<1>10. Known(d)
  BY <1>1, <1>4, <1>9 DEF Known
<1>. QED  BY <1>2, <1>9, <1>10 DEF Exceeds

LEMMA OnceInvariant == Spec => []OnceInv
<1>1. Init => OnceInv
  <2>. SUFFICES ASSUME Init PROVE OnceInv
    OBVIOUS
  <2>1. Fresh
    BY DEF Init, Fresh, Known, Paired
  <2>2. Excess = {}
    BY DEF Init, Excess, Exceeds, Known, Paired, Rematched
  <2>. QED  BY <2>1, <2>2, NobodyToBlame DEF Init, OnceInv, BlamedOn, FaultKinds
<1>2. ASSUME TypeOK, OnceInv, [Next]_vars
      PROVE  OnceInv'
  <2>0. \/ Excess' \subseteq Excess
        \/ \E c \in Clients : DuplicateRequest(c) /\ Excess' \subseteq Excess \cup {c}
    <3>1. ASSUME NEW c \in Clients, send_request(c)
          PROVE  Excess' \subseteq Excess
      <4>. SUFFICES ASSUME NEW d \in Clients, Exceeds(d)' PROVE Exceeds(d)
        BY DEF Excess
      <4>1. UNCHANGED <<waitingClient, waitingaddr, matched>>
        BY <3>1 DEF send_request, server
      <4>2. /\ Known(d)' <=> Known(d)
            /\ Paired(d)' <=> Paired(d)
            /\ d \in Rematched' <=> d \in Rematched
        BY <4>1 DEF Known, Paired, Rematched, In
      <4>3. CASE d = c
        <5>1. request'[c] = 1 /\ ~Known(c)
          BY <1>2, <3>1 DEF send_request, OnceInv, Fresh, TypeOK
        <5>. QED  BY <4>1, <4>2, <4>3, <5>1 DEF Exceeds
      <4>4. CASE d # c
        <5>1. request'[d] = request[d]
          BY <1>2, <3>1, <4>4 DEF send_request, TypeOK
        <5>. QED  BY <4>1, <4>2, <5>1 DEF Exceeds
      <4>. QED  BY <4>3, <4>4
    <3>2. ASSUME NEW c \in Clients, RejectClient(c) \/ LoseRequest(c)
          PROVE  Excess' \subseteq Excess
      <4>1. UNCHANGED <<waitingClient, waitingaddr, matched>> /\ Receive(c)
        BY <3>2 DEF RejectClient, LoseRequest, server
      <4>2. \A d \in Clients : request'[d] \in Nat /\ request'[d] <= request[d]
        BY <1>2, <4>1, Received
      <4>. QED  BY <1>2, <4>1, <4>2, ExcessStable
    <3>3. ASSUME NEW c \in Clients,
                 ClientStep(c) \/ end_game(c) \/ LoseReply(c) \/ Interrupt(c)
          PROVE  Excess' \subseteq Excess
      <4>1. UNCHANGED <<waitingClient, waitingaddr, matched, request>>
        BY <3>3
           DEF ClientStep, get_response, establish_server, connect_to_opponent,
               connection_refused, accept, connection_lost, end_game, LoseReply,
               Interrupt, server
      <4>. QED  BY <1>2, <4>1, ExcessStable DEF TypeOK
    <3>4. CASE RestartServer \/ UNCHANGED vars
      <4>1. /\ waitingClient' => waitingClient /\ waitingaddr' = waitingaddr
            /\ UNCHANGED <<matched, request>>
        BY <3>4 DEF RestartServer, vars, server
      <4>. QED  BY <1>2, <4>1, ExcessStable DEF TypeOK
    <3>5. ASSUME NEW c \in Clients, DuplicateRequest(c)
          PROVE  Excess' \subseteq Excess \cup {c}
      <4>. SUFFICES ASSUME NEW d \in Clients, Exceeds(d)', d # c PROVE Exceeds(d)
        BY DEF Excess
      <4>1. UNCHANGED <<waitingClient, waitingaddr, matched>> /\ request'[d] = request[d]
        BY <1>2, <3>5 DEF DuplicateRequest, server, TypeOK
      <4>. QED  BY <4>1 DEF Exceeds, Known, Paired, Rematched, In
    <3>. QED
      BY <1>2, <3>1, <3>2, <3>3, <3>4, <3>5, StoreAddsNoExcess, MatchAddsNoExcess
         DEF Next, Serve, FaultStep
  <2>1. BlamedOn(Excess, "duplicate")'
    <3>1. CASE Excess' \subseteq Excess
      BY <1>2, <3>1, FewerToBlame DEF OnceInv, BlamedOn, FaultKinds
    <3>2. ASSUME NEW c \in Clients, DuplicateRequest(c), Excess' \subseteq Excess \cup {c}
          PROVE  BlamedOn(Excess, "duplicate")'
      <4>1. faults'["duplicate"] = faults["duplicate"] + 1
        BY <1>2, <3>2 DEF DuplicateRequest, Fault, FaultKinds, TypeOK
      <4>. QED  BY <1>2, <3>2, <4>1, OneMoreToBlame DEF OnceInv, BlamedOn, FaultKinds
    <3>. QED  BY <2>0, <3>1, <3>2
  <2>2. Fresh'
    <3>. SUFFICES ASSUME NEW d \in Clients, pc'[d] = "init"
                  PROVE  request'[d] = 0 /\ ~Known(d)'
      BY DEF Fresh
    <3>1. CASE UNCHANGED vars
      BY <1>2, <3>1 DEF vars, server, OnceInv, Fresh, Known, Paired, In
    <3>2. CASE RestartServer
      BY <1>2, <3>2 DEF RestartServer, OnceInv, Fresh, Known, Paired, In
    <3>3. ASSUME NEW c \in Clients, Serve(c)
          PROVE  request'[d] = 0 /\ ~Known(d)'
      <4>1. UNCHANGED pc /\ Receive(c)
        BY <3>3 DEF Serve, StoreClient, MatchClient, RejectClient
      <4>2. request[d] = 0 /\ ~Known(d)
        BY <1>2, <4>1 DEF OnceInv, Fresh
      <4>3. d # c /\ request'[d] = 0
        BY <1>2, <4>1, <4>2 DEF Receive, TypeOK
      <4>4. \A x : In(d, <<c, x>>) => x = d
        BY <4>3 DEF In
      <4>5. matched' = matched \/ (waitingClient /\ matched' = matched \cup {<<c, waitingaddr>>})
        BY <3>3 DEF Serve, StoreClient, MatchClient, RejectClient, server
      <4>6. ~Paired(d)'
        BY <4>2, <4>4, <4>5 DEF Paired, Known, In
      <4>7. waitingClient' => waitingaddr' = c \/ (waitingClient /\ waitingaddr' = waitingaddr)
        BY <3>3 DEF Serve, StoreClient, MatchClient, RejectClient, server
      <4>. QED  BY <4>2, <4>3, <4>6, <4>7 DEF Known
    <3>4. ASSUME NEW c \in Clients,
                 send_request(c) \/ ClientStep(c) \/ end_game(c) \/ FaultStep(c)
          PROVE  request'[d] = 0 /\ ~Known(d)'
      <4>1. UNCHANGED <<waitingClient, waitingaddr, matched>>
        BY <3>4
           DEF send_request, ClientStep, get_response, establish_server,
               connect_to_opponent, connection_refused, accept, connection_lost,
               end_game, FaultStep, LoseRequest, LoseReply, DuplicateRequest,
               Interrupt, server
      <4>2. pc[d] = "init"
        BY <1>2, <3>4
           DEF send_request, ClientStep, get_response, establish_server,
               connect_to_opponent, connection_refused, accept, connection_lost,
               end_game, FaultStep, LoseRequest, LoseReply, DuplicateRequest,
               Interrupt, Goto, TypeOK
      <4>3. request[d] = 0 /\ ~Known(d)
        BY <1>2, <4>2 DEF OnceInv, Fresh
      <4>4. request'[d] = request[d]
        BY <1>2, <3>4, <4>2, <4>3
           DEF send_request, ClientStep, get_response, establish_server,
               connect_to_opponent, connection_refused, accept, connection_lost,
               end_game, FaultStep, LoseRequest, LoseReply, DuplicateRequest,
               Interrupt, Receive, Goto, TypeOK
      <4>. QED  BY <4>1, <4>3, <4>4 DEF Known, Paired, In
    <3>. QED  BY <1>2, <3>1, <3>2, <3>3, <3>4 DEF Next
  <2>. QED  BY <2>1, <2>2 DEF OnceInv
<1>. QED  BY <1>1, <1>2, TypeCorrect, PTL DEF Spec

\* A duplicated request has one client at most matched twice, as guest or as
\* host, or with itself; nothing else has one, however the requests of
\* several clients are mixed and whatever is lost, interrupted or restarted.
THEOREM NobodyIsMatchedTwice == Spec => []MatchedOnce
<1>1. TypeOK /\ OnceInv => MatchedOnce
  <2>1. Rematched \subseteq Excess
    BY DEF Rematched, Excess, Exceeds
  <2>. QED  BY <2>1, SmallerToBlame DEF OnceInv, MatchedOnce, FaultKinds
<1>. QED  BY <1>1, TypeCorrect, OnceInvariant, PTL

(***************************************************************************)
(* Everybody goes to the right address, no registration is forgotten, and  *)
(* no guest is left in the queue of a host.  What the three rest on is     *)
(* what the datagrams under way say, and that nobody goes back: a client   *)
(* that has listened or connected never asks for an address again.         *)
(***************************************************************************)
Registration(m) == m.len = 5 /\ ~is_error(m)

\* An answer names the port that its client asked for, or the host that the
\* client was matched with.
RepliesAreRight ==
    \A c \in Clients : \A m \in reply[c] :
        /\ Registration(m) => 256 * m.byte4 + m.byte5 = play_port[c]
        /\ m.len = 9 =>
              \E h \in Clients : <<c, h>> \in matched /\ m.address = Endpoint(h)

WaitingIsRight == waitingClient => clientPo = play_port[waitingaddr]

\* Where clients are that have not listened yet, and that have connected.
Early == {"init", "await", "bind", "connect"}
Late == {"visiting"} \cup Ended

VisitorsAreRight ==
    \A c \in Clients : pc[c] = "visiting" =>
        opponent[c] \in Clients /\ pc[opponent[c]] \notin Early

\* A process that connected to h, and was sent to h's address.
IsGuest(g, h) ==
    /\ g \in Clients /\ pc[g] \in Late
    /\ addr[g] = addr[h]
    /\ \E k \in Clients : <<g, k>> \in matched /\ addr[g] = Endpoint(k)

\* Those who wait for h, and the one h is playing with.
GuestsOf(h) ==
    {queue[h][i] : i \in 1..Len(queue[h])}
        \cup {g \in {opponent[h]} : pc[h] = "hosting"}

GuestsAreRight ==
    \A h \in Clients :
        /\ queue[h] # <<>> => pc[h] \notin Early
        /\ \A g \in GuestsOf(h) : IsGuest(g, h)

LobbyInv ==
    /\ RepliesAreRight
    /\ WaitingIsRight
    /\ AddressesAreRight
    /\ VisitorsAreRight
    /\ GuestsAreRight

\* A step that adds nothing: datagrams may get lost, clients end.
LEMMA LobbyStable ==
    ASSUME LobbyInv,
           matched' = matched,
           waitingClient' =>
               waitingClient /\ waitingaddr' = waitingaddr /\ clientPo' = clientPo,
           UNCHANGED <<addr, queue, opponent>>,
           \A c \in Clients :
              /\ reply'[c] \subseteq reply[c]
              /\ pc'[c] = pc[c] \/ pc'[c] \in Ended
    PROVE  LobbyInv'
<1>. USE DEF Ended, Late, Early, Listening
<1>1. RepliesAreRight'
  BY DEF LobbyInv, RepliesAreRight, Registration, is_error, Endpoint
<1>2. WaitingIsRight'
  BY DEF LobbyInv, WaitingIsRight
<1>3. AddressesAreRight'
  BY DEF LobbyInv, AddressesAreRight, Endpoint
<1>4. VisitorsAreRight'
  BY DEF LobbyInv, VisitorsAreRight
<1>5. \A g, h : IsGuest(g, h) => IsGuest(g, h)'
  BY DEF IsGuest, Endpoint
<1>6. GuestsAreRight'
  <2>1. \A h \in Clients : GuestsOf(h)' \subseteq GuestsOf(h)
    BY DEF GuestsOf
  <2>. QED  BY <1>5, <2>1 DEF LobbyInv, GuestsAreRight
<1>. QED  BY <1>1, <1>2, <1>3, <1>4, <1>6 DEF LobbyInv

(***************************************************************************)
(* The server.                                                             *)
(***************************************************************************)
\* Datagram m is sent to c.
LEMMA SentKeepsRight ==
    ASSUME TypeOK, LobbyInv, NEW c \in Clients, NEW m, Send(c, m),
           matched \subseteq matched',
           UNCHANGED <<pc, addr, queue, opponent>>,
           Registration(m) => 256 * m.byte4 + m.byte5 = play_port[c],
           m.len = 9 => \E h \in Clients :
                           <<c, h>> \in matched' /\ m.address = Endpoint(h)
    PROVE  RepliesAreRight' /\ AddressesAreRight' /\ VisitorsAreRight' /\ GuestsAreRight'
<1>1. RepliesAreRight'
  <2>. SUFFICES ASSUME NEW d \in Clients, NEW n \in reply'[d]
                PROVE  /\ Registration(n) => 256 * n.byte4 + n.byte5 = play_port[d]
                       /\ n.len = 9 => \E h \in Clients :
                             <<d, h>> \in matched' /\ n.address = Endpoint(h)
    BY DEF RepliesAreRight, Registration, is_error, Endpoint
  <2>1. n \in reply[d] \/ (d = c /\ n = m)
    BY DEF Send, TypeOK
  <2>. QED  BY <2>1 DEF LobbyInv, RepliesAreRight
<1>2. AddressesAreRight'
  BY DEF LobbyInv, AddressesAreRight, Endpoint, Listening
<1>3. VisitorsAreRight'
  BY DEF LobbyInv, VisitorsAreRight
<1>4. \A g, h : IsGuest(g, h) => IsGuest(g, h)'
  BY DEF IsGuest, Endpoint
<1>5. GuestsAreRight'
  <2>1. \A h \in Clients : GuestsOf(h)' = GuestsOf(h)
    BY DEF GuestsOf
  <2>. QED  BY <1>4, <2>1 DEF LobbyInv, GuestsAreRight
<1>. QED  BY <1>1, <1>2, <1>3, <1>5

LEMMA StoreKeepsLobbyInv ==
    ASSUME TypeOK, LobbyInv, NEW c \in Clients, StoreClient(c)
    PROVE  LobbyInv'
<1>. DEFINE m == FiveBytes(Hi(play_port[c]), Lo(play_port[c]))
<1>1. 256 * Hi(play_port[c]) + Lo(play_port[c]) = play_port[c]
  BY LobbyAssumption, PortBytes
<1>2. /\ m.len = 5 /\ m.byte4 = Hi(play_port[c]) /\ m.byte5 = Lo(play_port[c])
  BY DEF FiveBytes
<1>3. /\ Send(c, m) /\ ~waitingClient
      /\ waitingClient' = TRUE /\ waitingaddr' = c /\ clientPo' = play_port[c]
      /\ UNCHANGED <<matched, pc, addr, queue, opponent, faults>>
  BY <1>1 DEF StoreClient
<1>. HIDE DEF m
<1>4. RepliesAreRight' /\ AddressesAreRight' /\ VisitorsAreRight' /\ GuestsAreRight'
  BY <1>1, <1>2, <1>3, SentKeepsRight
<1>5. WaitingIsRight'
  BY <1>3 DEF WaitingIsRight
<1>. QED  BY <1>4, <1>5 DEF LobbyInv

LEMMA MatchKeepsLobbyInv ==
    ASSUME TypeOK, LobbyInv, NEW c \in Clients, MatchClient(c)
    PROVE  LobbyInv'
<1>. DEFINE w == waitingaddr
            m == NineBytes(Address(Machine[w], clientPo))
<1>1. /\ w \in Clients /\ clientPo = play_port[w]
      /\ waitingClient' = FALSE /\ Send(c, m)
      /\ matched' = matched \cup {<<c, w>>}
      /\ UNCHANGED <<waitingaddr, clientPo, pc, addr, queue, opponent, faults>>
  BY DEF MatchClient, TypeOK, LobbyInv, WaitingIsRight
<1>2. m.len = 9 /\ m.address = Endpoint(w) /\ ~Registration(m)
  BY <1>1 DEF NineBytes, Endpoint, Registration
<1>. HIDE DEF m
<1>3. RepliesAreRight' /\ AddressesAreRight' /\ VisitorsAreRight' /\ GuestsAreRight'
  <2>1. <<c, w>> \in matched' /\ matched \subseteq matched'
    BY <1>1
  <2>. QED  BY <1>1, <1>2, <2>1, SentKeepsRight
<1>4. WaitingIsRight'
  BY <1>1 DEF WaitingIsRight
<1>. QED  BY <1>3, <1>4 DEF LobbyInv

LEMMA RejectKeepsLobbyInv ==
    ASSUME TypeOK, LobbyInv, NEW c \in Clients, RejectClient(c)
    PROVE  LobbyInv'
<1>. DEFINE m == FiveBytes(0, 1)
<1>1. Send(c, m) /\ UNCHANGED <<server, pc, addr, queue, opponent, faults>>
  BY DEF RejectClient
<1>2. m.len = 5 /\ ~Registration(m)
  BY DEF FiveBytes, Registration, is_error
<1>. HIDE DEF m
<1>3. RepliesAreRight' /\ AddressesAreRight' /\ VisitorsAreRight' /\ GuestsAreRight'
  BY <1>1, <1>2, SentKeepsRight DEF server
<1>4. WaitingIsRight'
  BY <1>1 DEF server, WaitingIsRight, LobbyInv
<1>. QED  BY <1>3, <1>4 DEF LobbyInv

(***************************************************************************)
(* The clients.                                                            *)
(***************************************************************************)
\* A client that has not listened or connected yet goes on: nobody depends
\* on where it is.
LEMMA EarlyMove ==
    ASSUME TypeOK, LobbyInv, NEW c \in Clients, pc[c] \in Early,
           NEW l \in {"await", "bind", "connect", "accept", "rejected", "died"},
           NEW a,
           pc' = [pc EXCEPT ![c] = l],
           addr' = [addr EXCEPT ![c] = a],
           UNCHANGED <<server, queue, opponent, faults>>,
           \A d \in Clients : reply'[d] \subseteq reply[d],
           l \in {"bind", "accept"} => a = Endpoint(c),
           l = "connect" =>
              \E h \in Clients : <<c, h>> \in matched /\ a = Endpoint(h)
    PROVE  LobbyInv'
<1>1. /\ pc'[c] = l /\ addr'[c] = a
      /\ \A d \in Clients \ {c} : pc'[d] = pc[d] /\ addr'[d] = addr[d]
  BY DEF TypeOK
<1>2. RepliesAreRight'
  BY DEF LobbyInv, RepliesAreRight, Registration, is_error, Endpoint, server
<1>3. WaitingIsRight'
  BY DEF LobbyInv, WaitingIsRight, server
<1>4. \A d \in Clients : pc'[d] = "visiting" =>
          /\ d # c /\ opponent[d] # c
          /\ opponent[d] \in Clients /\ pc[opponent[d]] \notin Early
  BY <1>1 DEF LobbyInv, VisitorsAreRight
<1>5. AddressesAreRight'
  <2>1. \A d \in Clients : pc'[d] = "bind" \/ Listening(d)' => addr'[d] = Endpoint(d)
    BY <1>1 DEF LobbyInv, AddressesAreRight, Listening
  <2>2. \A d \in Clients : pc'[d] \in {"connect", "visiting"} =>
            \E h \in Clients : <<d, h>> \in matched /\ addr'[d] = Endpoint(h)
    <3>. SUFFICES ASSUME NEW d \in Clients, pc'[d] \in {"connect", "visiting"}
                  PROVE  \E h \in Clients : <<d, h>> \in matched /\ addr'[d] = Endpoint(h)
      OBVIOUS
    <3>1. CASE d = c
      <4>1. l = "connect" /\ addr'[d] = a
        BY <1>1, <3>1
      <4>. QED  BY <3>1, <4>1
    <3>2. CASE d # c
      BY <1>1, <3>2 DEF LobbyInv, AddressesAreRight
    <3>. QED  BY <3>1, <3>2
  <2>3. \A d \in Clients : pc'[d] = "visiting" => addr'[opponent[d]] = addr'[d]
    BY <1>1, <1>4 DEF LobbyInv, AddressesAreRight
  <2>. QED  BY <2>1, <2>2, <2>3 DEF AddressesAreRight, Endpoint, server
<1>6. VisitorsAreRight'
  BY <1>1, <1>4 DEF VisitorsAreRight
<1>7. \A g, h : h \in Clients \ {c} /\ IsGuest(g, h) => IsGuest(g, h)'
  <2>1. \A g, h : IsGuest(g, h) => g # c
    BY DEF IsGuest, Late, Early, Ended
  <2>. QED  BY <1>1, <2>1 DEF IsGuest, Endpoint, server
<1>8. GuestsAreRight'
  <2>. SUFFICES ASSUME NEW h \in Clients
                PROVE  /\ queue'[h] # <<>> => pc'[h] \notin Early
                       /\ \A g \in GuestsOf(h)' : IsGuest(g, h)'
    BY DEF GuestsAreRight, Early
  <2>1. CASE h = c
    <3>1. queue'[c] = <<>>
      BY DEF LobbyInv, GuestsAreRight
    <3>2. GuestsOf(c)' = {}
      BY <1>1, <3>1 DEF GuestsOf
    <3>. QED  BY <2>1, <3>1, <3>2
  <2>2. CASE h # c
    <3>1. GuestsOf(h)' = GuestsOf(h)
      BY <1>1, <2>2 DEF GuestsOf
    <3>. QED  BY <1>1, <1>7, <2>2, <3>1 DEF LobbyInv, GuestsAreRight
  <2>. QED  BY <2>1, <2>2
<1>. QED  BY <1>2, <1>3, <1>5, <1>6, <1>8 DEF LobbyInv

LEMMA ResponseKeepsLobbyInv ==
    ASSUME TypeOK, LobbyInv, NEW c \in Clients, get_response(c)
    PROVE  LobbyInv'
<1>1. PICK m \in reply[c] :
        /\ reply' = [reply EXCEPT ![c] = @ \ {m}]
        /\ \/ Goto(c, "rejected") /\ UNCHANGED addr
           \/ /\ Registration(m) /\ Goto(c, "bind")
              /\ addr' = [addr EXCEPT ![c] =
                             Address(Machine[c], 256 * m.byte4 + m.byte5)]
           \/ /\ m.len = 9 /\ Goto(c, "connect")
              /\ addr' = [addr EXCEPT ![c] = m.address]
  <2>1. PICK m \in reply[c] :
          /\ reply' = [reply EXCEPT ![c] = @ \ {m}]
          /\ \/ /\ m.len = 5
                /\ is_error(m)
                /\ Goto(c, "rejected")
                /\ UNCHANGED addr
             \/ /\ m.len = 5
                /\ ~is_error(m)
                /\ Goto(c, "bind")
                /\ addr' = [addr EXCEPT ![c] =
                               Address(Machine[c], 256 * m.byte4 + m.byte5)]
             \/ /\ m.len = 9
                /\ Goto(c, "connect")
                /\ addr' = [addr EXCEPT ![c] = m.address]
    BY Zenon DEF get_response
  <2>2. \/ Goto(c, "rejected") /\ UNCHANGED addr
        \/ /\ Registration(m) /\ Goto(c, "bind")
           /\ addr' = [addr EXCEPT ![c] =
                          Address(Machine[c], 256 * m.byte4 + m.byte5)]
        \/ /\ m.len = 9 /\ Goto(c, "connect")
           /\ addr' = [addr EXCEPT ![c] = m.address]
    BY <2>1, Zenon DEF Registration
  <2>. QED  BY <2>1, <2>2, Zenon
<1>2. pc[c] \in Early /\ UNCHANGED <<server, queue, opponent, faults>>
  <2>1. pc[c] = "await" /\ UNCHANGED <<server, queue, opponent, faults>>
    BY Zenon DEF get_response
  <2>. QED  BY <2>1 DEF Early
<1>3. \A d \in Clients : reply'[d] \subseteq reply[d]
  <2>1. reply' = [reply EXCEPT ![c] = @ \ {m}] /\ DOMAIN reply = Clients
    BY <1>1 DEF TypeOK
  <2>. QED  BY <2>1
<1>4. /\ Registration(m) => 256 * m.byte4 + m.byte5 = play_port[c]
      /\ m.len = 9 =>
            \E h \in Clients : <<c, h>> \in matched /\ m.address = Endpoint(h)
  BY <1>1 DEF LobbyInv, RepliesAreRight
<1>5. CASE Goto(c, "rejected") /\ UNCHANGED addr
  <2>1. addr' = [addr EXCEPT ![c] = addr[c]]
    BY <1>5 DEF TypeOK
  <2>. QED  BY <1>2, <1>3, <1>5, <2>1, EarlyMove DEF Goto
<1>6. CASE /\ Registration(m) /\ Goto(c, "bind")
           /\ addr' = [addr EXCEPT ![c] =
                          Address(Machine[c], 256 * m.byte4 + m.byte5)]
  <2>1. Address(Machine[c], 256 * m.byte4 + m.byte5) = Endpoint(c)
    BY <1>4, <1>6 DEF Endpoint
  <2>2. /\ pc' = [pc EXCEPT ![c] = "bind"]
        /\ addr' = [addr EXCEPT ![c] = Endpoint(c)]
    BY <1>6, <2>1 DEF Goto
  <2>. QED  BY <1>2, <1>3, <2>2, EarlyMove
<1>7. CASE /\ m.len = 9 /\ Goto(c, "connect")
           /\ addr' = [addr EXCEPT ![c] = m.address]
  <2>1. pc' = [pc EXCEPT ![c] = "connect"]
    BY <1>7 DEF Goto
  <2>. QED  BY <1>2, <1>3, <1>4, <1>7, <2>1, EarlyMove
<1>. QED  BY <1>1, <1>5, <1>6, <1>7

LEMMA EstablishKeepsLobbyInv ==
    ASSUME TypeOK, LobbyInv, NEW c \in Clients, establish_server(c)
    PROVE  LobbyInv'
<1>1. PICK l \in {"accept", "died"} : pc' = [pc EXCEPT ![c] = l]
  BY DEF establish_server, Goto
<1>2. pc[c] = "bind" /\ UNCHANGED <<server, reply, addr, queue, opponent, faults>>
  BY DEF establish_server
<1>3. addr' = [addr EXCEPT ![c] = addr[c]] /\ addr[c] = Endpoint(c)
  BY <1>2 DEF TypeOK, LobbyInv, AddressesAreRight
<1>. QED  BY <1>1, <1>2, <1>3, EarlyMove DEF Early

\* A guest arrives: it joins the queue of a process that listens where it
\* was sent.
LEMMA ConnectKeepsLobbyInv ==
    ASSUME TypeOK, LobbyInv, NEW c \in Clients, connect_to_opponent(c)
    PROVE  LobbyInv'
<1>1. PICK h \in Clients :
        /\ Listening(h) /\ addr[h] = addr[c]
        /\ queue' = [queue EXCEPT ![h] = Append(@, c)]
        /\ opponent' = [opponent EXCEPT ![c] = h]
  BY DEF connect_to_opponent, Listeners
<1>2. /\ pc[c] = "connect" /\ pc' = [pc EXCEPT ![c] = "visiting"]
      /\ UNCHANGED <<server, reply, addr, faults>>
  BY DEF connect_to_opponent, Goto
<1>3. /\ c # h /\ pc[h] \in {"accept", "hosting"}
      /\ pc'[c] = "visiting" /\ opponent'[c] = h
      /\ \A d \in Clients \ {c} : pc'[d] = pc[d] /\ opponent'[d] = opponent[d]
  BY <1>1, <1>2 DEF TypeOK, Listening
<1>4. RepliesAreRight' /\ WaitingIsRight'
  BY <1>2 DEF LobbyInv, RepliesAreRight, WaitingIsRight, Registration, is_error,
              Endpoint, server
<1>5. AddressesAreRight'
  <2>1. \A d \in Clients : pc'[d] = "bind" \/ Listening(d)' => addr[d] = Endpoint(d)
    BY <1>3 DEF LobbyInv, AddressesAreRight, Listening
  <2>2. \A d \in Clients : pc'[d] \in {"connect", "visiting"} =>
            \E k \in Clients : <<d, k>> \in matched /\ addr[d] = Endpoint(k)
    BY <1>2, <1>3 DEF LobbyInv, AddressesAreRight
  <2>3. \A d \in Clients : pc'[d] = "visiting" => addr[opponent'[d]] = addr[d]
    BY <1>1, <1>3 DEF LobbyInv, AddressesAreRight
  <2>. QED  BY <1>2, <2>1, <2>2, <2>3 DEF AddressesAreRight, Endpoint, server
<1>6. VisitorsAreRight'
  BY <1>1, <1>2, <1>3 DEF LobbyInv, VisitorsAreRight, Early
<1>7. \A g, d : IsGuest(g, d) => g # c /\ IsGuest(g, d)'
  BY <1>2, <1>3 DEF IsGuest, Late, Ended, Endpoint, server
<1>8. IsGuest(c, h)'
  BY <1>1, <1>2, <1>3 DEF LobbyInv, AddressesAreRight, IsGuest, Late, Endpoint, server
<1>9. GuestsAreRight'
  <2>. SUFFICES ASSUME NEW d \in Clients
                PROVE  /\ queue'[d] # <<>> => pc'[d] \notin Early
                       /\ \A g \in GuestsOf(d)' : IsGuest(g, d)'
    BY DEF GuestsAreRight, Early
  <2>1. /\ queue[d] # <<>> => pc[d] \notin Early
        /\ \A g \in GuestsOf(d) : IsGuest(g, d)'
    BY <1>7 DEF LobbyInv, GuestsAreRight
  <2>2. CASE d = h
    <3>1. queue[h] \in Seq(Clients) /\ queue'[h] = Append(queue[h], c)
      BY <1>1 DEF TypeOK
    <3>2. \A i \in 1..Len(queue'[h]) :
              \/ i \in 1..Len(queue[h]) /\ queue'[h][i] = queue[h][i]
              \/ queue'[h][i] = c
      BY <3>1
    <3>3. GuestsOf(h)' \subseteq GuestsOf(h) \cup {c}
      BY <1>3, <3>2 DEF GuestsOf
    <3>. QED  BY <1>3, <1>8, <2>1, <2>2, <3>3 DEF Early
  <2>3. CASE d # h
    <3>1. queue'[d] = queue[d]
      BY <1>1, <2>3 DEF TypeOK
    <3>2. GuestsOf(d)' \subseteq GuestsOf(d)
      BY <1>3, <3>1 DEF GuestsOf
    <3>. QED  BY <1>3, <2>1, <3>1, <3>2 DEF Early
  <2>. QED  BY <2>2, <2>3
<1>. QED  BY <1>4, <1>5, <1>6, <1>9 DEF LobbyInv

\* A host takes the first of its queue.
LEMMA AcceptKeepsLobbyInv ==
    ASSUME TypeOK, LobbyInv, NEW c \in Clients, accept(c)
    PROVE  LobbyInv'
<1>1. /\ pc[c] = "accept" /\ queue[c] # <<>>
      /\ opponent' = [opponent EXCEPT ![c] = Head(queue[c])]
      /\ queue' = [queue EXCEPT ![c] = Tail(@)]
      /\ pc' = [pc EXCEPT ![c] = "hosting"]
      /\ UNCHANGED <<server, reply, addr, faults>>
  BY DEF accept, Goto
<1>2. queue[c] \in Seq(Clients)
  BY DEF TypeOK
<1>3. /\ pc'[c] = "hosting" /\ opponent'[c] = queue[c][1]
      /\ \A d \in Clients \ {c} : /\ pc'[d] = pc[d] /\ opponent'[d] = opponent[d]
                                  /\ queue'[d] = queue[d]
  BY <1>1, <1>2 DEF TypeOK
<1>4. RepliesAreRight' /\ WaitingIsRight'
  BY <1>1 DEF LobbyInv, RepliesAreRight, WaitingIsRight, Registration, is_error,
              Endpoint, server
<1>5. AddressesAreRight'
  <2>1. \A d \in Clients : pc'[d] = "bind" \/ Listening(d)' => addr[d] = Endpoint(d)
    BY <1>1, <1>3 DEF LobbyInv, AddressesAreRight, Listening
  <2>2. \A d \in Clients : pc'[d] \in {"connect", "visiting"} =>
            \E k \in Clients : <<d, k>> \in matched /\ addr[d] = Endpoint(k)
    BY <1>3 DEF LobbyInv, AddressesAreRight
  <2>3. \A d \in Clients : pc'[d] = "visiting" => addr[opponent'[d]] = addr[d]
    BY <1>3 DEF LobbyInv, AddressesAreRight
  <2>. QED  BY <1>1, <2>1, <2>2, <2>3 DEF AddressesAreRight, Endpoint, server
<1>6. VisitorsAreRight'
  BY <1>3 DEF LobbyInv, VisitorsAreRight, Early
<1>7. \A g, d : IsGuest(g, d) => IsGuest(g, d)'
  BY <1>1, <1>3 DEF IsGuest, Late, Ended, Endpoint, server
<1>8. GuestsAreRight'
  <2>. SUFFICES ASSUME NEW d \in Clients
                PROVE  /\ queue'[d] # <<>> => pc'[d] \notin Early
                       /\ \A g \in GuestsOf(d)' : IsGuest(g, d)'
    BY DEF GuestsAreRight, Early
  <2>1. /\ queue[d] # <<>> => pc[d] \notin Early
        /\ \A g \in GuestsOf(d) : IsGuest(g, d)'
    BY <1>7 DEF LobbyInv, GuestsAreRight
  <2>2. CASE d = c
    <3>1. queue'[c] = Tail(queue[c])
      BY <1>1 DEF TypeOK
    <3>2. \A i \in 1..Len(queue'[c]) :
              i + 1 \in 1..Len(queue[c]) /\ queue'[c][i] = queue[c][i + 1]
      <4>1. Len(Tail(queue[c])) = Len(queue[c]) - 1 /\ Len(queue[c]) \in Nat
        BY <1>1, <1>2
      <4>2. \A i \in 1..Len(Tail(queue[c])) : Tail(queue[c])[i] = queue[c][i + 1]
        BY <1>1, <1>2
      <4>. QED  BY <3>1, <4>1, <4>2
    <3>3. 1 \in 1..Len(queue[c])
      BY <1>1, <1>2
    <3>4. GuestsOf(c)' \subseteq GuestsOf(c)
      BY <1>3, <3>2, <3>3 DEF GuestsOf
    <3>. QED  BY <1>3, <2>1, <2>2, <3>4 DEF Early
  <2>3. CASE d # c
    <3>1. GuestsOf(d)' = GuestsOf(d)
      BY <1>3, <2>3 DEF GuestsOf
    <3>. QED  BY <1>3, <2>1, <2>3, <3>1
  <2>. QED  BY <2>2, <2>3
<1>. QED  BY <1>4, <1>5, <1>6, <1>8 DEF LobbyInv

LEMMA LobbyInvariance == Spec => []LobbyInv
<1>1. Init => LobbyInv
  <2>. SUFFICES ASSUME Init PROVE LobbyInv
    OBVIOUS
  <2>1. /\ waitingClient = FALSE /\ reply = [c \in Clients |-> {}]
        /\ pc = [c \in Clients |-> "init"] /\ queue = [c \in Clients |-> <<>>]
    BY DEF Init
  <2>2. RepliesAreRight /\ WaitingIsRight
    BY <2>1 DEF RepliesAreRight, WaitingIsRight
  <2>3. AddressesAreRight /\ VisitorsAreRight
    BY <2>1 DEF AddressesAreRight, VisitorsAreRight, Listening
  <2>4. GuestsAreRight
    BY <2>1 DEF GuestsAreRight, GuestsOf
  <2>. QED  BY <2>2, <2>3, <2>4 DEF LobbyInv
<1>2. ASSUME TypeOK, LobbyInv, [Next]_vars
      PROVE  LobbyInv'
  <2>1. ASSUME NEW c \in Clients, Serve(c)
        PROVE  LobbyInv'
    BY <1>2, <2>1, StoreKeepsLobbyInv, MatchKeepsLobbyInv, RejectKeepsLobbyInv DEF Serve
  <2>2. ASSUME NEW c \in Clients, send_request(c)
        PROVE  LobbyInv'
    <3>1. /\ pc[c] \in Early /\ pc' = [pc EXCEPT ![c] = "await"]
          /\ addr' = [addr EXCEPT ![c] = addr[c]]
          /\ UNCHANGED <<server, reply, queue, opponent, faults>>
      BY <1>2, <2>2 DEF send_request, Goto, Early, TypeOK
    <3>. QED  BY <1>2, <3>1, EarlyMove
  <2>3. ASSUME NEW c \in Clients, connection_refused(c)
        PROVE  LobbyInv'
    <3>1. /\ pc[c] \in Early /\ pc' = [pc EXCEPT ![c] = "died"]
          /\ addr' = [addr EXCEPT ![c] = addr[c]]
          /\ UNCHANGED <<server, reply, queue, opponent, faults>>
      BY <1>2, <2>3 DEF connection_refused, Goto, Early, TypeOK
    <3>. QED  BY <1>2, <3>1, EarlyMove
  <2>4. ASSUME NEW c \in Clients, connection_lost(c) \/ end_game(c)
        PROVE  LobbyInv'
    <3>1. \A d \in Clients : pc'[d] = pc[d] \/ pc'[d] \in Ended
      BY <1>2, <2>4 DEF connection_lost, end_game, Goto, Ended, TypeOK
    <3>2. UNCHANGED <<server, reply, addr, queue, opponent, faults>>
      BY <2>4 DEF connection_lost, end_game
    <3>. QED  BY <1>2, <3>1, <3>2, LobbyStable DEF server
  <2>5. ASSUME NEW c \in Clients, LoseRequest(c) \/ DuplicateRequest(c)
        PROVE  LobbyInv'
    <3>1. UNCHANGED <<server, reply, pc, addr, queue, opponent>>
      BY <2>5 DEF LoseRequest, DuplicateRequest
    <3>. QED  BY <1>2, <3>1, LobbyStable DEF server
  <2>6. ASSUME NEW c \in Clients, LoseReply(c)
        PROVE  LobbyInv'
    <3>1. /\ UNCHANGED <<server, pc, addr, queue, opponent>>
          /\ \A d \in Clients : reply'[d] \subseteq reply[d]
      BY <1>2, <2>6 DEF LoseReply, TypeOK
    <3>. QED  BY <1>2, <3>1, LobbyStable DEF server
  <2>7. ASSUME NEW c \in Clients, Interrupt(c)
        PROVE  LobbyInv'
    <3>1. /\ UNCHANGED <<server, reply, addr, queue, opponent>>
          /\ \A d \in Clients : pc'[d] = pc[d] \/ pc'[d] \in Ended
      BY <1>2, <2>7 DEF Interrupt, Goto, Ended, TypeOK
    <3>. QED  BY <1>2, <3>1, LobbyStable DEF server
  <2>8. CASE RestartServer
    <3>1. /\ waitingClient' = FALSE
          /\ UNCHANGED <<matched, reply, pc, addr, queue, opponent>>
      BY <2>8 DEF RestartServer
    <3>. QED  BY <1>2, <3>1, LobbyStable
  <2>9. CASE UNCHANGED vars
    BY <1>2, <2>9, LobbyStable DEF vars, server
  <2>. QED
    BY <1>2, <2>1, <2>2, <2>3, <2>4, <2>5, <2>6, <2>7, <2>8, <2>9,
       ResponseKeepsLobbyInv, EstablishKeepsLobbyInv, ConnectKeepsLobbyInv,
       AcceptKeepsLobbyInv
       DEF Next, ClientStep, FaultStep
<1>. QED  BY <1>1, <1>2, TypeCorrect, PTL DEF Spec

\* Whatever is lost, duplicated or interrupted, and however often the server
\* restarts: a host listens on its own address, and a guest is at the address
\* of the host it was matched with.
THEOREM EverybodyAtTheRightAddress == Spec => []AddressesAreRight
<1>1. LobbyInv => AddressesAreRight
  BY DEF LobbyInv
<1>. QED  BY <1>1, LobbyInvariance, PTL

(***************************************************************************)
(* A restart forgets one registration at most: that of the client that the *)
(* server remembered.  What counts is the registration, from the answer    *)
(* that confirms it on, and not only the host that the client becomes.     *)
(***************************************************************************)
Registers(c) ==
    (\E m \in reply[c] : Registration(m)) \/ pc[c] \in {"bind", "accept"}

\* c is the one the server remembers, or has been handed to a guest.
Handed(c) ==
    \/ waitingClient /\ waitingaddr = c
    \/ \E g \in Clients : <<g, c>> \in matched

Unregistered == {c \in Clients : Registers(c) /\ ~Handed(c)}

Registered == BlamedOn(Unregistered, "restart")

\* A step of the server other than a restart.
LEMMA ServeForgetsNobody ==
    ASSUME TypeOK, NEW c \in Clients, Serve(c)
    PROVE  Unregistered' \subseteq Unregistered
<1>. SUFFICES ASSUME NEW d \in Clients, Registers(d)', ~Handed(d)'
              PROVE  Registers(d) /\ ~Handed(d)
  BY DEF Unregistered
<1>0. UNCHANGED pc
  BY DEF Serve, StoreClient, MatchClient, RejectClient
<1>1. ASSUME NEW m, Send(c, m), ~Registration(m)
      PROVE  Registers(d)
  <2>1. \A n \in reply'[d] : n \in reply[d] \/ n = m
    BY <1>1 DEF Send, TypeOK
  <2>. QED  BY <1>0, <1>1, <2>1 DEF Registers, Registration, is_error
<1>2. CASE StoreClient(c)
  <2>1. /\ ~waitingClient /\ waitingClient' = TRUE /\ waitingaddr' = c
        /\ UNCHANGED matched
    BY <1>2 DEF StoreClient
  <2>2. d # c /\ ~Handed(d)
    BY <2>1 DEF Handed
  <2>3. reply'[d] = reply[d]
    BY <1>2, <2>2 DEF StoreClient, Send, TypeOK
  <2>. QED  BY <1>0, <2>2, <2>3 DEF Registers, Registration, is_error
<1>3. CASE MatchClient(c)
  <2>. DEFINE m == NineBytes(Address(Machine[waitingaddr], clientPo))
  <2>1. /\ waitingaddr \in Clients /\ matched' = matched \cup {<<c, waitingaddr>>}
        /\ Send(c, m)
    BY <1>3 DEF MatchClient, TypeOK
  <2>2. ~Registration(m)
    BY DEF NineBytes, Registration
  <2>3. ~Handed(d)
    BY <2>1 DEF Handed
  <2>. HIDE DEF m
  <2>. QED  BY <1>1, <2>1, <2>2, <2>3
<1>4. CASE RejectClient(c)
  <2>. DEFINE m == FiveBytes(0, 1)
  <2>1. Send(c, m) /\ UNCHANGED server
    BY <1>4 DEF RejectClient
  <2>2. ~Registration(m)
    BY DEF FiveBytes, Registration, is_error
  <2>3. ~Handed(d)
    BY <2>1 DEF server, Handed
  <2>. HIDE DEF m
  <2>. QED  BY <1>1, <2>1, <2>2, <2>3
<1>. QED  BY <1>2, <1>3, <1>4 DEF Serve

\* A client that starts to listen does so on a registration.
LEMMA ClientForgetsNobody ==
    ASSUME TypeOK, NEW c \in Clients,
           send_request(c) \/ ClientStep(c) \/ end_game(c) \/ FaultStep(c)
    PROVE  Unregistered' \subseteq Unregistered
<1>. SUFFICES ASSUME NEW d \in Clients, Registers(d)'
              PROVE  Registers(d)
  <2>1. UNCHANGED server
    BY DEF send_request, ClientStep, get_response, establish_server,
           connect_to_opponent, connection_refused, accept, connection_lost,
           end_game, FaultStep, LoseRequest, LoseReply, DuplicateRequest, Interrupt
  <2>. QED  BY <2>1 DEF Unregistered, Handed, server
<1>1. CASE get_response(c)
  <2>1. PICK m \in reply[c] :
          /\ reply' = [reply EXCEPT ![c] = @ \ {m}]
          /\ \E l : /\ Goto(c, l)
                    /\ l \in {"rejected", "connect"} \/ Registration(m)
    BY <1>1 DEF get_response, Registration
  <2>2. reply'[d] \subseteq reply[d]
    BY <2>1 DEF TypeOK
  <2>3. pc'[d] = pc[d] \/ pc'[d] \in {"rejected", "connect"} \/ Registers(d)
    BY <2>1 DEF Goto, TypeOK, Registers
  <2>. QED  BY <2>2, <2>3 DEF Registers, Registration, is_error
<1>2. CASE ~get_response(c)
  <2>1. reply'[d] \subseteq reply[d]
    BY <1>2 DEF send_request, ClientStep, establish_server,
           connect_to_opponent, connection_refused, accept, connection_lost,
           end_game, FaultStep, LoseRequest, LoseReply, DuplicateRequest, Interrupt,
           TypeOK
  <2>2. pc'[d] \in {"bind", "accept"} => pc[d] \in {"bind", "accept"}
    BY <1>2 DEF send_request, ClientStep, establish_server,
           connect_to_opponent, connection_refused, accept, connection_lost,
           end_game, FaultStep, LoseRequest, LoseReply, DuplicateRequest, Interrupt,
           Goto, Ended, TypeOK
  <2>. QED  BY <2>1, <2>2 DEF Registers, Registration, is_error
<1>. QED  BY <1>1, <1>2

LEMMA RegisteredInvariance == Spec => []Registered
<1>1. Init => Registered
  <2>. SUFFICES ASSUME Init PROVE Registered
    OBVIOUS
  <2>1. Unregistered = {}
    BY DEF Init, Unregistered, Registers
  <2>. QED  BY <2>1, NobodyToBlame DEF Init, Registered, BlamedOn, FaultKinds
<1>2. ASSUME TypeOK, Registered, [Next]_vars
      PROVE  Registered'
  <2>1. CASE RestartServer
    <3>1. Unregistered' \subseteq Unregistered \cup {waitingaddr}
      BY <2>1 DEF RestartServer, Unregistered, Registers, Handed, Registration, is_error
    <3>2. faults'["restart"] = faults["restart"] + 1
      BY <1>2, <2>1 DEF RestartServer, Fault, FaultKinds, TypeOK
    <3>. QED  BY <1>2, <3>1, <3>2, OneMoreToBlame DEF Registered, BlamedOn, FaultKinds
  <2>2. CASE ~RestartServer
    <3>1. Unregistered' \subseteq Unregistered
      <4>1. CASE UNCHANGED vars
        BY <4>1 DEF vars, server, Unregistered, Registers, Handed, Registration, is_error
      <4>. QED
        BY <1>2, <2>2, <4>1, ServeForgetsNobody, ClientForgetsNobody DEF Next
    <3>. QED  BY <1>2, <3>1, FewerToBlame DEF Registered, BlamedOn, FaultKinds
  <2>. QED  BY <2>1, <2>2
<1>. QED  BY <1>1, <1>2, TypeCorrect, PTL DEF Spec

\* The server remembers every client that it told to listen, until it hands
\* that client to a guest, but for one client at most for each time it was
\* restarted, whatever is lost, duplicated or interrupted.
THEOREM RegistrationsAreKept == Spec => []NoRegistrationForgotten
<1>1. TypeOK /\ Registered => NoRegistrationForgotten
  <2>1. Forgotten \subseteq Unregistered
    BY DEF Forgotten, Unregistered, Registers, Handed
  <2>. QED  BY <2>1, SmallerToBlame DEF Registered, NoRegistrationForgotten, FaultKinds
<1>. QED  BY <1>1, TypeCorrect, RegisteredInvariance, PTL

(***************************************************************************)
(* A host whose address is its own has one guest at most, unless it was    *)
(* matched twice: all that come to it were matched with it.                *)
(***************************************************************************)
LEMMA OneGuest ==
    ASSUME TypeOK, LobbyInv,
           NEW h \in Clients, Listening(h), UniqueEndpoint(h), h \notin Rematched,
           NEW c \in Clients, pc[c] = "connect", addr[c] = addr[h]
    PROVE  queue[h] = <<>> /\ pc[h] = "accept"
<1>1. addr[h] = Endpoint(h)
  BY DEF LobbyInv, AddressesAreRight
<1>2. \A k \in Clients : Endpoint(k) = Endpoint(h) => k = h
  BY DEF UniqueEndpoint
<1>3. <<c, h>> \in matched
  <2>1. PICK k \in Clients : <<c, k>> \in matched /\ addr[c] = Endpoint(k)
    BY DEF LobbyInv, AddressesAreRight
  <2>2. k = h
    BY <1>1, <1>2, <2>1
  <2>. QED  BY <2>1, <2>2
<1>4. \A g \in GuestsOf(h) : <<g, h>> \in matched /\ pc[g] \in Late
  BY <1>1, <1>2 DEF LobbyInv, GuestsAreRight, IsGuest
<1>5. GuestsOf(h) = {}
  <2>. SUFFICES ASSUME NEW g \in GuestsOf(h) PROVE FALSE
    OBVIOUS
  <2>1. <<g, h>> = <<c, h>>
    <3>. DEFINE m == <<g, h>>
                n == <<c, h>>
    <3>1. m \in matched /\ n \in matched /\ m[2] = h /\ n[2] = h
      BY <1>3, <1>4
    <3>. HIDE DEF m, n
    <3>2. m = n
      BY <3>1 DEF Rematched, In
    <3>. QED  BY <3>2 DEF m, n
  <2>2. g = c
    BY <2>1
  <2>. QED  BY <1>4, <2>2 DEF Late, Ended
<1>6. queue[h] = <<>>
  <2>1. queue[h] \in Seq(Clients)
    BY DEF TypeOK
  <2>2. ~(1 \in 1..Len(queue[h]))
    BY <1>5 DEF GuestsOf
  <2>. QED  BY <2>1, <2>2
<1>7. pc[h] # "hosting"
  BY <1>5 DEF GuestsOf
<1>. QED  BY <1>6, <1>7 DEF Listening

OnlyGuest(g, h) == IF pc[h] = "accept" THEN queue[h] = <<g>> ELSE opponent[h] = g

NobodyCrowded ==
    \A g \in Clients :
        /\ pc[g] = "visiting"
        /\ Listening(opponent[g])
        /\ UniqueEndpoint(opponent[g])
        /\ opponent[g] \notin Rematched
        => OnlyGuest(g, opponent[g])

\* No pair is ever forgotten.
LEMMA RematchedGrows ==
    ASSUME matched \subseteq matched', NEW h, h \notin Rematched'
    PROVE  h \notin Rematched
BY DEF Rematched, In

\* A step after which nobody has just begun to visit or to listen to guests.
LEMMA CrowdedStable ==
    ASSUME NobodyCrowded,
           matched \subseteq matched',
           UNCHANGED <<queue, opponent>>,
           \A g \in Clients :
              pc'[g] = "visiting" =>
                 /\ pc[g] = "visiting"
                 /\ pc'[opponent[g]] \in {"accept", "hosting"} =>
                       pc'[opponent[g]] = pc[opponent[g]]
    PROVE  NobodyCrowded'
BY RematchedGrows DEF NobodyCrowded, OnlyGuest, Listening, UniqueEndpoint, Endpoint

LEMMA ConnectStrandsNobody ==
    ASSUME TypeOK, LobbyInv, NobodyCrowded,
           NEW c \in Clients, connect_to_opponent(c)
    PROVE  NobodyCrowded'
<1>1. PICK h \in Clients :
        /\ Listening(h) /\ addr[h] = addr[c]
        /\ queue' = [queue EXCEPT ![h] = Append(@, c)]
        /\ opponent' = [opponent EXCEPT ![c] = h]
  BY DEF connect_to_opponent, Listeners
<1>2. /\ pc[c] = "connect" /\ pc' = [pc EXCEPT ![c] = "visiting"]
      /\ UNCHANGED <<server, reply, addr, faults>>
  BY DEF connect_to_opponent, Goto
<1>. SUFFICES ASSUME NEW g \in Clients, NEW d,
                     d = opponent'[g], pc'[g] = "visiting",
                     pc'[d] \in {"accept", "hosting"}, UniqueEndpoint(d),
                     d \notin Rematched'
              PROVE  IF pc'[d] = "accept" THEN queue'[d] = <<g>> ELSE opponent'[d] = g
  BY DEF NobodyCrowded, OnlyGuest, Listening, UniqueEndpoint, Endpoint
<1>3. d \notin Rematched
  BY <1>2, RematchedGrows DEF server
<1>4. c # h /\ pc'[h] = pc[h] /\ pc'[c] = "visiting" /\ opponent'[c] = h
  BY <1>1, <1>2 DEF TypeOK, Listening
<1>5. CASE g = c
  <2>1. queue[h] = <<>> /\ pc[h] = "accept"
    BY <1>1, <1>2, <1>3, <1>4, <1>5, OneGuest
  <2>2. queue'[h] = <<c>>
    BY <1>1, <2>1 DEF TypeOK
  <2>. QED  BY <1>4, <1>5, <2>1, <2>2
<1>6. CASE g # c
  <2>1. /\ d = opponent[g] /\ pc[g] = "visiting" /\ d \in Clients
        /\ d # c /\ pc'[d] = pc[d] /\ opponent'[d] = opponent[d]
    BY <1>1, <1>2, <1>4, <1>6 DEF LobbyInv, VisitorsAreRight, TypeOK
  <2>2. Listening(d)
    BY <2>1 DEF Listening
  <2>3. IF pc[d] = "accept" THEN queue[d] = <<g>> ELSE opponent[d] = g
    BY <1>3, <2>1, <2>2 DEF NobodyCrowded, OnlyGuest
  <2>4. CASE d = h
    <3>1. queue[h] = <<>> /\ pc[h] = "accept"
      BY <1>1, <1>2, <1>3, <2>4, OneGuest
    <3>2. <<g>> # <<>>
      OBVIOUS
    <3>. QED  BY <2>3, <2>4, <3>1, <3>2
  <2>5. CASE d # h
    BY <1>1, <2>1, <2>3, <2>5 DEF TypeOK
  <2>. QED  BY <2>4, <2>5
<1>. QED  BY <1>5, <1>6

LEMMA AcceptStrandsNobody ==
    ASSUME TypeOK, LobbyInv, NobodyCrowded, NEW c \in Clients, accept(c)
    PROVE  NobodyCrowded'
<1>1. /\ pc[c] = "accept" /\ pc' = [pc EXCEPT ![c] = "hosting"]
      /\ opponent' = [opponent EXCEPT ![c] = Head(queue[c])]
      /\ queue' = [queue EXCEPT ![c] = Tail(@)]
      /\ UNCHANGED <<server, reply, addr, faults>>
  BY DEF accept, Goto
<1>. SUFFICES ASSUME NEW g \in Clients, NEW d,
                     d = opponent'[g], pc'[g] = "visiting",
                     pc'[d] \in {"accept", "hosting"}, UniqueEndpoint(d),
                     d \notin Rematched'
              PROVE  IF pc'[d] = "accept" THEN queue'[d] = <<g>> ELSE opponent'[d] = g
  BY DEF NobodyCrowded, OnlyGuest, Listening, UniqueEndpoint, Endpoint
<1>2. /\ g # c /\ pc[g] = "visiting" /\ d = opponent[g] /\ d \in Clients
  BY <1>1 DEF LobbyInv, VisitorsAreRight, TypeOK
<1>3. Listening(d) /\ d \notin Rematched
  <2>1. d \notin Rematched
    BY <1>1, RematchedGrows DEF server
  <2>. QED  BY <1>1, <1>2, <2>1 DEF Listening, TypeOK
<1>4. IF pc[d] = "accept" THEN queue[d] = <<g>> ELSE opponent[d] = g
  BY <1>2, <1>3 DEF NobodyCrowded, OnlyGuest
<1>5. CASE d = c
  <2>1. queue[c] = <<g>>
    BY <1>1, <1>4, <1>5
  <2>2. opponent'[c] = g /\ pc'[c] = "hosting"
    BY <1>1, <2>1 DEF TypeOK
  <2>. QED  BY <1>5, <2>2
<1>6. CASE d # c
  BY <1>1, <1>2, <1>4, <1>6 DEF TypeOK
<1>. QED  BY <1>5, <1>6

LEMMA CrowdedInvariance == Spec => []NobodyCrowded
<1>1. Init => NobodyCrowded
  BY DEF Init, NobodyCrowded
<1>2. ASSUME TypeOK, LobbyInv, NobodyCrowded, [Next]_vars
      PROVE  NobodyCrowded'
  <2>0. \A g \in Clients : pc[g] = "visiting" => pc[opponent[g]] \notin Early
    BY <1>2 DEF LobbyInv, VisitorsAreRight
  <2>1. ASSUME NEW c \in Clients, Serve(c)
        PROVE  NobodyCrowded'
    <3>1. UNCHANGED <<pc, queue, opponent>> /\ matched \subseteq matched'
      BY <2>1 DEF Serve, StoreClient, MatchClient, RejectClient, server
    <3>. QED  BY <1>2, <3>1, CrowdedStable
  <2>2. ASSUME NEW c \in Clients,
               \/ send_request(c) \/ get_response(c) \/ establish_server(c)
               \/ connection_refused(c) \/ connection_lost(c) \/ end_game(c)
        PROVE  NobodyCrowded'
    <3>1. UNCHANGED <<server, queue, opponent>>
      BY <2>2 DEF send_request, get_response, establish_server,
                  connection_refused, connection_lost, end_game
    <3>2. \A d \in Clients :
             \/ pc'[d] = pc[d]
             \/ pc'[d] \in {"await", "bind", "connect"} \cup Ended
             \/ pc[d] = "bind" /\ pc'[d] = "accept"
      BY <1>2, <2>2 DEF send_request, get_response, establish_server,
                  connection_refused, connection_lost, end_game, Goto, Ended, TypeOK
    <3>3. \A g \in Clients : pc[g] = "visiting" => opponent[g] \in Clients
      BY <1>2 DEF LobbyInv, VisitorsAreRight
    <3>. QED  BY <1>2, <2>0, <3>1, <3>2, <3>3, CrowdedStable DEF server, Early, Ended
  <2>3. ASSUME NEW c \in Clients, FaultStep(c)
        PROVE  NobodyCrowded'
    <3>1. UNCHANGED <<server, queue, opponent>>
      BY <2>3 DEF FaultStep, LoseRequest, LoseReply, DuplicateRequest, Interrupt
    <3>2. pc' = pc \/ pc' = [pc EXCEPT ![c] = "exited"]
      BY <2>3 DEF FaultStep, LoseRequest, LoseReply, DuplicateRequest, Interrupt, Goto
    <3>3. \A d \in Clients : pc'[d] = pc[d] \/ pc'[d] = "exited"
      BY <1>2, <3>2 DEF TypeOK
    <3>4. \A g \in Clients : pc[g] = "visiting" => opponent[g] \in Clients
      BY <1>2 DEF LobbyInv, VisitorsAreRight
    <3>. QED  BY <1>2, <3>1, <3>3, <3>4, CrowdedStable DEF server
  <2>4. CASE RestartServer
    <3>1. UNCHANGED <<matched, pc, queue, opponent>>
      BY <2>4 DEF RestartServer
    <3>. QED  BY <1>2, <3>1, CrowdedStable
  <2>5. CASE UNCHANGED vars
    BY <1>2, <2>5, CrowdedStable DEF vars, server
  <2>. QED
    BY <1>2, <2>1, <2>2, <2>3, <2>4, <2>5, ConnectStrandsNobody, AcceptStrandsNobody
       DEF Next, ClientStep
<1>. QED  BY <1>1, <1>2, TypeCorrect, LobbyInvariance, PTL DEF Spec

\* A duplicated request gives one host at most, of those whose address is
\* their own, a second guest; to any other host the connection that accept()
\* takes is the only one that ever arrives (Client.py 137-142), whatever is
\* lost, interrupted or restarted.
THEOREM NobodyIsStranded == Spec => []NobodyStranded
<1>1. TypeOK /\ MatchedOnce /\ NobodyCrowded => NobodyStranded
  <2>1. NobodyCrowded => Crowded \subseteq Rematched
    BY DEF NobodyCrowded, OnlyGuest, Crowded
  <2>. QED  BY <2>1, SmallerToBlame DEF MatchedOnce, NobodyStranded, FaultKinds
<1>. QED  BY <1>1, TypeCorrect, NobodyIsMatchedTwice, CrowdedInvariance, PTL
=============================================================================
