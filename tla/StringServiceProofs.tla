------------------------ MODULE StringServiceProofs ------------------------
(***************************************************************************)
(* What can end the UDP string server, and what the users of both services *)
(* are shown, proved for any number of clients, any texts and any bytes.   *)
(***************************************************************************)
EXTENDS StringService, WellFoundedInduction, FiniteSetTheorems, TLAPS

\* A reply whose text was one byte too long for its block.
Culprit ==
    \E c \in UDP : \E answer \in reply[c] :
        op(c) = "disemvowel" /\ Len(answer) \in Overrun

RequestsAreUDP ==
    /\ request \in [Clients -> Int]
    /\ \A c \in Clients : request[c] > 0 => c \in UDP

RepliesAreSets == reply = [c \in Clients |-> reply[c]]

\* A damaged heap has a culprit, which was answered and is never forgotten.
HeapInv == heap = "overrun" => Culprit

IInv == RequestsAreUDP /\ RepliesAreSets /\ HeapInv /\ UdpServerFallsFor

\* What no step does: change a question or take back a reply.
NothingTakenBack ==
    /\ asked' = asked
    /\ RepliesAreSets'
    /\ \A c \in Clients : reply[c] \subseteq reply'[c]

\* Both services only ever add to the replies (serverUDP.c 237, 265;
\* serverTCP.py 51, 61).
LEMMA ReplyAdds ==
    ASSUME RepliesAreSets, NEW c, NEW answer, Reply(c, answer)
    PROVE  /\ RepliesAreSets'
           /\ \A d \in Clients : reply[d] \subseteq reply'[d]
           /\ c \in Clients => answer \in reply'[c]
BY DEF RepliesAreSets, Reply

LEMMA SameReplies ==
    ASSUME RepliesAreSets, UNCHANGED reply
    PROVE  RepliesAreSets' /\ \A d \in Clients : reply[d] \subseteq reply'[d]
BY DEF RepliesAreSets

\* Once there is a culprit there always is.
LEMMA CulpritStays == ASSUME NothingTakenBack, Culprit PROVE Culprit'
BY DEF NothingTakenBack, Culprit, UDP, op

\* What ends the server stays true if nothing new ends it.
LEMMA FallsForStays ==
    ASSUME NothingTakenBack, UdpServerFallsFor, UNCHANGED up
    PROVE  UdpServerFallsFor'
<1>1. CASE up
  BY <1>1 DEF UdpServerFallsFor
<1>2. CASE \E c \in UDP : ~Named(c) \/ BadLength(c)
  BY <1>2 DEF NothingTakenBack, UdpServerFallsFor, UDP, Named, BadLength,
              packetLength, message_length, op, text
<1>3. CASE Culprit
  BY <1>3, CulpritStays DEF Culprit, UdpServerFallsFor
<1> QED
  BY <1>1, <1>2, <1>3 DEF UdpServerFallsFor, Culprit

\* A step that leaves the UDP server alone.
LEMMA ServerAlone ==
    ASSUME IInv, NothingTakenBack, UNCHANGED <<up, heap>>, RequestsAreUDP'
    PROVE  IInv'
BY CulpritStays, FallsForStays DEF IInv, HeapInv, NothingTakenBack

LEMMA InitIInv == ASSUME Init PROVE IInv
BY DEF Init, InitClients, UdpInit, IInv, RequestsAreUDP, RepliesAreSets,
       HeapInv, UdpServerFallsFor

-----------------------------------------------------------------------------
\* The server takes a request; it answers it, ignores it, or ends.
LEMMA ServeIInv ==
    ASSUME IInv, NEW c \in Clients, UdpServe(c)
    PROVE  IInv'
<1>1. up /\ c \in UDP /\ RequestsAreUDP /\ RepliesAreSets
  BY DEF UdpServe, IInv, RequestsAreUDP
<1>2. asked' = asked
  BY DEF UdpServe, Fall, CountVowels, Disemvowel, Ignore, clientVars
<1>3. RequestsAreUDP'
  BY <1>1, <1>2 DEF UdpServe, RequestsAreUDP, UDP
<1>4. CASE Fall(c)
  <2>1. NothingTakenBack
    BY <1>1, <1>2, <1>4, SameReplies DEF Fall, clientVars, NothingTakenBack
  <2>2. HeapInv'
    BY <1>4, <2>1, CulpritStays DEF Fall, HeapInv, IInv
  <2>3. CASE ~Named(c) \/ BadLength(c)
    <3>1. c \in UDP' /\ (~Named(c) \/ BadLength(c))'
      BY <1>1, <1>2, <2>3 DEF UDP, Named, BadLength, packetLength,
                              message_length, op, text
    <3> QED
      BY <1>3, <2>1, <2>2, <3>1 DEF IInv, UdpServerFallsFor, NothingTakenBack
  <2>4. CASE heap = "overrun"
    <3>1. Culprit'
      BY <2>1, <2>4, CulpritStays DEF IInv, HeapInv
    <3> QED
      BY <1>3, <2>1, <2>2, <3>1
      DEF IInv, Culprit, UdpServerFallsFor, NothingTakenBack
  <2> QED
    BY <1>4, <2>3, <2>4 DEF Fall
<1>5. CASE CountVowels(c)
  <2>1. PICK b \in buffer(c) : Reply(c, vowelNumber(b))
    BY <1>5 DEF CountVowels
  <2>2. NothingTakenBack
    BY <1>1, <1>2, <2>1, ReplyAdds DEF NothingTakenBack
  <2> QED
    BY <1>3, <1>5, <2>2, ServerAlone DEF CountVowels
<1>6. CASE Disemvowel(c)
  <2>1. PICK b \in buffer(c) :
            /\ Reply(c, disemVoweling(b))
            /\ heap' = IF Len(disemVoweling(b)) \in Overrun THEN "overrun" ELSE heap
    BY <1>6 DEF Disemvowel
  <2>2. NothingTakenBack /\ disemVoweling(b) \in reply'[c]
    BY <1>1, <1>2, <2>1, ReplyAdds DEF NothingTakenBack
  <2>3. HeapInv'
    <3>1. CASE Len(disemVoweling(b)) \in Overrun
      BY <1>1, <1>2, <1>6, <2>2, <3>1 DEF Culprit, HeapInv, Disemvowel, UDP, op
    <3>2. CASE Len(disemVoweling(b)) \notin Overrun
      BY <2>1, <2>2, <3>2, CulpritStays DEF HeapInv, IInv
    <3> QED
      BY <3>1, <3>2
  <2>4. UdpServerFallsFor'
    BY <1>6, <2>2, FallsForStays DEF Disemvowel, IInv
  <2> QED
    BY <1>3, <2>2, <2>3, <2>4 DEF IInv, NothingTakenBack
<1>7. CASE Ignore(c)
  <2>1. NothingTakenBack
    BY <1>1, <1>2, <1>7, SameReplies DEF Ignore, clientVars, NothingTakenBack
  <2> QED
    BY <1>3, <1>7, <2>1, ServerAlone DEF Ignore
<1> QED
  BY <1>4, <1>5, <1>6, <1>7 DEF UdpServe

\* What the UDP clients and the network do.
LEMMA ClientIInv ==
    ASSUME IInv, NEW c \in Clients,
           SendDatagram(c) \/ GetResponse(c) \/ Refused(c) \/ Duplicate(c)
    PROVE  IInv'
<1>1. UNCHANGED <<asked, reply, up, heap>>
  BY DEF SendDatagram, GetResponse, Refused, Duplicate, clientVars, udpVars
<1>2. NothingTakenBack
  BY <1>1, SameReplies DEF IInv, NothingTakenBack
<1>3. RequestsAreUDP'
  BY <1>1 DEF IInv, RequestsAreUDP, UDP, SendDatagram, GetResponse, Refused,
              Duplicate, udpVars
<1> QED
  BY <1>1, <1>2, <1>3, ServerAlone

\* The other service leaves this one alone.
LEMMA TcpIInv ==
    ASSUME IInv, TcpNext, UNCHANGED udpVars
    PROVE  IInv'
<1>1. asked' = asked
  BY DEF TcpNext, Accept, TcpServe, TcpClientStep, Interrupt, Connect,
         SendMessage, ReceiveReply, ReceiveNothing, clientVars
<1>2. RepliesAreSets' /\ \A d \in Clients : reply[d] \subseteq reply'[d]
  <2>1. CASE UNCHANGED reply
    BY <2>1, SameReplies DEF IInv
  <2>2. CASE \E c, answer : Reply(c, answer)
    BY <2>2, ReplyAdds DEF IInv
  <2>3. ASSUME TcpServe PROVE UNCHANGED reply \/ \E c, answer : Reply(c, answer)
    BY <2>3 DEF TcpServe, Serve, HangUp, process_data
  <2> QED
    BY <2>1, <2>2, <2>3
    DEF TcpNext, Accept, TcpClientStep, Interrupt, Connect, SendMessage,
        ReceiveReply, ReceiveNothing, clientVars
<1>3. NothingTakenBack
  BY <1>1, <1>2 DEF NothingTakenBack
<1>4. RequestsAreUDP'
  BY <1>1 DEF IInv, RequestsAreUDP, UDP, udpVars
<1> QED
  BY <1>3, <1>4, ServerAlone DEF udpVars

LEMMA StepIInv == ASSUME IInv, [Next]_vars PROVE IInv'
<1>1. CASE UdpNext
  BY <1>1, ServeIInv, ClientIInv DEF UdpNext
<1>2. CASE TcpNext /\ UNCHANGED udpVars
  BY <1>2, TcpIInv
<1>3. CASE UNCHANGED vars
  <2>1. NothingTakenBack
    BY <1>3, SameReplies DEF vars, clientVars, IInv, NothingTakenBack
  <2>2. RequestsAreUDP'
    BY <1>3 DEF vars, clientVars, udpVars, IInv, RequestsAreUDP, UDP
  <2> QED
    BY <1>3, <2>1, <2>2, ServerAlone DEF vars, udpVars
<1> QED
  BY <1>1, <1>2, <1>3 DEF Next

\* The server is only ever ended by a client without a name, by a length
\* whose low byte is negative, or by a text it has disemvowelled and answered
\* (serverUDP.c 122, 199, 218): for any clients, texts, interleaving and
\* duplicated datagrams.
THEOREM ServerFallsFor == Spec => []UdpServerFallsFor
<1>1. Init => IInv
  BY InitIInv
<1>2. IInv /\ [Next]_vars => IInv'
  BY StepIInv
<1>3. IInv => UdpServerFallsFor
  BY DEF IInv
<1> QED
  BY <1>1, <1>2, <1>3, PTL DEF Spec

-----------------------------------------------------------------------------
(* The answers.                                                            *)

\* The shorter of two lengths.
LEMMA MinOfTwo ==
    ASSUME NEW m \in Nat, NEW n \in Nat, m <= n
    PROVE  Min({m, n}) = m /\ Min({n, m}) = m
<1>1. ASSUME NEW S, S = {m, n}
      PROVE  Min(S) = m
  <2>1. m \in S /\ \A y \in S : m =< y
    BY <1>1
  <2>2. \A x \in S : (\A y \in S : x =< y) => x = m
    BY <1>1
  <2>3. QED
    BY <2>1, <2>2, Zenon DEF Min
<1>2. {n, m} = {m, n}
  OBVIOUS
<1>3. QED
  BY <1>1, <1>2

\* The beginning of a text is that text, whatever follows it.
LEMMA FirstOfText ==
    ASSUME NEW S, NEW s \in Seq(S), NEW t \in Seq(S)
    PROVE  /\ First(Len(s), s \o t) = s
           /\ \A n \in Nat : n >= Len(s) => First(n, s) = s
<1>1. /\ Len(s) \in Nat /\ Len(t) \in Nat
      /\ s \o t \in Seq(S) /\ Len(s \o t) = Len(s) + Len(t)
      /\ \A i \in 1..Len(s) : (s \o t)[i] = s[i]
  OBVIOUS
<1>2. ASSUME NEW u \in Seq(S), Len(u) >= Len(s),
             \A i \in 1..Len(s) : u[i] = s[i]
      PROVE  SubSeq(u, 1, Len(s)) = s
  <2>1. /\ SubSeq(u, 1, Len(s)) \in Seq(S)
        /\ Len(SubSeq(u, 1, Len(s))) = Len(s)
        /\ \A i \in 1..Len(s) : SubSeq(u, 1, Len(s))[i] = u[i]
    BY <1>1, <1>2
  <2>2. QED
    BY <1>2, <2>1
<1>3. First(Len(s), s \o t) = s
  <2> DEFINE u == s \o t
  <2>1. /\ u \in Seq(S) /\ Len(u) \in Nat /\ Len(s) <= Len(u)
        /\ \A i \in 1..Len(s) : u[i] = s[i]
    BY <1>1
  <2> HIDE DEF u
  <2>2. Min({Len(s), Len(u)}) = Len(s) /\ SubSeq(u, 1, Len(s)) = s
    BY <1>1, <1>2, <2>1, MinOfTwo
  <2>3. QED
    BY <2>2, Zenon DEF First, u
<1>4. ASSUME NEW n \in Nat, n >= Len(s)
      PROVE  First(n, s) = s
  BY <1>1, <1>2, <1>4, MinOfTwo DEF First
<1>5. QED
  BY <1>3, <1>4

\* The bytes of a length are put together again if neither is negative.
LEMMA LengthComesBack ==
    ASSUME NEW n \in Nat, n < ByteSize * (ByteSize \div 2),
           Lo(n) < ByteSize \div 2
    PROVE  signed_char(Hi(n)) * ByteSize + signed_char(Lo(n)) = n
<1> DEFINE half == ByteSize \div 2
<1>1. ByteSize \in Nat \ {0} /\ half \in Nat
  BY ByteAssumption
<1>2. /\ n \div ByteSize \in Nat /\ n % ByteSize \in Nat
      /\ n = ByteSize * (n \div ByteSize) + (n % ByteSize)
  BY <1>1
<1>3. n \div ByteSize < half
  BY <1>1, <1>2
<1>4. signed_char(Hi(n)) = n \div ByteSize /\ signed_char(Lo(n)) = n % ByteSize
  BY <1>1, <1>2, <1>3 DEF signed_char, Hi, Lo
<1>5. QED
  BY <1>1, <1>2, <1>4

\* The client's message fits the server's buffer, and no byte of its length
\* is a negative char.
FitsBuffer(c) ==
    message_length(c) <= BUFSIZE /\ Lo(message_length(c)) < ByteSize \div 2

\* What nobody has written is a sequence of characters nevertheless.
LEMMA UnsetIsText ==
    ASSUME NEW n \in Nat, NEW junk \in Unset(n)
    PROVE  junk \in Seq(STRING) /\ Len(junk) = n
<1> DEFINE Ch == STRING
<1>1. PICK ch \in Junk : junk = [i \in 1..n |-> ch]
  BY DEF Unset
<1>2. ch \in Ch
  BY <1>1, JunkAssumption, Zenon
<1> HIDE DEF Ch
<1>3. junk \in Seq(Ch) /\ Len(junk) = n
  BY <1>1, <1>2
<1> QED
  BY <1>3 DEF Ch

\* The server reads the text of such a message, and nothing but the text.
LEMMA BufferHoldsText ==
    ASSUME asked \in [Clients -> Questions], NEW c \in Clients, FitsBuffer(c),
           NEW b \in buffer(c)
    PROVE  b = text(c)
<1> DEFINE s == text(c)
           Ch == STRING
           cut == First(BUFSIZE - 5, s)
<1>1. s \in Seq(Ch)
  BY QuestionsAssumption DEF text
<1>2. PICK junk \in Unset(Len(s)) :
         b = First(packetLength(c) - 5, cut \o junk)
  BY DEF buffer
<1>3. junk \in Seq(Ch)
  <2>1. Len(s) \in Nat
    BY <1>1
  <2> QED
    BY <2>1, UnsetIsText
<1> HIDE DEF s, Ch
<1>4. Len(s) \in Nat /\ message_length(c) = 5 + Len(s)
  BY <1>1 DEF message_length, s
<1>5. packetLength(c) = message_length(c)
  BY <1>4, UDPAssumption, ByteAssumption, LengthComesBack
     DEF FitsBuffer, packetLength
<1>6. BUFSIZE - 5 \in Nat /\ BUFSIZE - 5 >= Len(s)
  BY <1>4, UDPAssumption DEF FitsBuffer
<1>7. cut = s
  BY <1>1, <1>6, FirstOfText
<1>8. packetLength(c) - 5 = Len(s)
  BY <1>4, <1>5
<1>9. First(Len(s), s \o junk) = s
  BY <1>1, <1>3, FirstOfText, Zenon
<1>10. QED
  BY <1>2, <1>7, <1>8, <1>9, Zenon DEF s

\* The one answer there is to the client's question, and what its user sees.
Answer(c) ==
    IF op(c) = "vLength" THEN vowelNumber(text(c)) ELSE disemVoweling(text(c))
Seen(c) ==
    IF op(c) = "vLength" THEN vowelNumber(text(c))
    ELSE strip(disemVoweling(text(c)))

\* Why the client may die while the server is up.
ShortCount(c) == Lo(vowelNumber(text(c))) \in White

\* What was sent to a UDP client, what it has shown, and why it died.
RightSoFar(c) ==
    /\ reply[c] \subseteq {Answer(c)}
    /\ shown[c] \subseteq {Seen(c)}
    /\ pc[c] = "died" /\ up => ShortCount(c)

\* The clients of one service are none of the other's.
ServicesApart ==
    /\ backlog \in Seq(TCP) /\ serving \subseteq TCP
    /\ \A c \in UDP : pc[c] \in {"start", "recv", "done", "died"}
    /\ \A c \in Clients : request[c] > 0 => c \in UDP

ClientFunctions ==
    /\ asked \in [Clients -> Questions]
    /\ pc = [c \in Clients |-> pc[c]]
    /\ reply = [c \in Clients |-> reply[c]]
    /\ shown = [c \in Clients |-> shown[c]]
    /\ request \in [Clients -> Int]

AnswersInv ==
    /\ ClientFunctions /\ ServicesApart
    /\ \A c \in UDP : FitsBuffer(c) => RightSoFar(c)

\* A step that adds no wrong answer for any client keeps the answers right.
LEMMA AnswersStayRight ==
    ASSUME AnswersInv, asked' = asked, ClientFunctions', ServicesApart',
           up' => up,
           \A c \in UDP : FitsBuffer(c) =>
              /\ reply'[c] \subseteq reply[c] \cup {Answer(c)}
              /\ shown'[c] \subseteq shown[c] \cup {Seen(c)}
              /\ pc'[c] = "died" /\ up' => pc[c] = "died" \/ ShortCount(c)
    PROVE  AnswersInv'
<1>1. /\ UDP' = UDP
      /\ \A c : FitsBuffer(c)' <=> FitsBuffer(c)
      /\ \A c : Answer(c)' = Answer(c) /\ Seen(c)' = Seen(c)
      /\ \A c : ShortCount(c)' <=> ShortCount(c)
  BY DEF UDP, FitsBuffer, Answer, Seen, ShortCount, op, text, message_length
<1>2. SUFFICES ASSUME NEW c \in UDP, FitsBuffer(c)
               PROVE  RightSoFar(c)'
  BY <1>1, Zenon DEF AnswersInv
<1>3. RightSoFar(c)
  BY <1>2, Zenon DEF AnswersInv
<1>4. /\ reply'[c] \subseteq reply[c] \cup {Answer(c)}
      /\ shown'[c] \subseteq shown[c] \cup {Seen(c)}
      /\ pc'[c] = "died" /\ up' => pc[c] = "died" \/ ShortCount(c)
  BY <1>2, Zenon
<1>5. reply'[c] \subseteq {Answer(c)} /\ shown'[c] \subseteq {Seen(c)}
  BY <1>3, <1>4, Zenon DEF RightSoFar
<1>6. pc'[c] = "died" /\ up' => ShortCount(c)
  BY <1>3, <1>4, Zenon DEF RightSoFar
<1>7. QED
  BY <1>1, <1>5, <1>6, Zenon DEF RightSoFar

LEMMA AnswersInit == Init => AnswersInv
<1> SUFFICES ASSUME Init
             PROVE  AnswersInv
  OBVIOUS
<1>1. ClientFunctions /\ ServicesApart
  BY DEF Init, InitClients, UdpInit, TcpInit, ClientFunctions, ServicesApart,
         UDP, TCP
<1>2. ASSUME NEW c \in UDP
      PROVE  RightSoFar(c)
  BY <1>2 DEF Init, InitClients, RightSoFar, UDP
<1>3. QED
  BY <1>1, <1>2, Zenon DEF AnswersInv

\* The server answers with what it has read.
LEMMA ServeAnswersRight ==
    ASSUME AnswersInv, NEW c \in Clients, UdpServe(c), UNCHANGED tcpVars
    PROVE  AnswersInv'
<1>1. /\ asked' = asked /\ pc' = pc /\ shown' = shown
      /\ backlog' = backlog /\ serving' = serving
      /\ request' = [request EXCEPT ![c] = @ - 1]
      /\ up' => up
  BY DEF UdpServe, Fall, CountVowels, Disemvowel, Ignore, clientVars, tcpVars
<1>2. ClientFunctions /\ ServicesApart /\ c \in UDP /\ request[c] > 0
  BY DEF AnswersInv, ServicesApart, UdpServe
<1>3. \/ reply' = reply
      \/ op(c) = "vLength" /\ \E b \in buffer(c) : Reply(c, vowelNumber(b))
      \/ op(c) = "disemvowel" /\ \E b \in buffer(c) : Reply(c, disemVoweling(b))
  BY Zenon DEF UdpServe, Fall, CountVowels, Disemvowel, Ignore, clientVars
<1>4. ClientFunctions'
  <2>1. reply' = [d \in Clients |-> reply'[d]]
    BY <1>2, <1>3 DEF ClientFunctions, Reply
  <2>2. request' \in [Clients -> Int]
    BY <1>1, <1>2 DEF ClientFunctions
  <2>3. QED
    BY <1>1, <1>2, <2>1, <2>2, Zenon DEF ClientFunctions
<1>5. ServicesApart'
  <2>1. UDP' = UDP /\ TCP' = TCP
    BY <1>1 DEF UDP, TCP
  <2>2. \A d \in Clients : request'[d] > 0 => d \in UDP
    BY <1>1, <1>2 DEF ServicesApart, ClientFunctions
  <2>3. QED
    BY <1>1, <1>2, <2>1, <2>2, Zenon DEF ServicesApart
<1>6. ASSUME NEW d \in UDP, FitsBuffer(d)
      PROVE  reply'[d] \subseteq reply[d] \cup {Answer(d)}
  <2>1. d \in Clients
    BY <1>6 DEF UDP
  <2>2. CASE reply' = reply
    BY <2>2
  <2>3. ASSUME NEW answer, Reply(c, answer), c = d => answer = Answer(d)
        PROVE  reply'[d] \subseteq reply[d] \cup {Answer(d)}
    BY <1>2, <2>1, <2>3 DEF Reply, ClientFunctions
  <2>4. ASSUME NEW b \in buffer(c), c = d
        PROVE  b = text(d)
    BY <1>2, <1>6, <2>4, BufferHoldsText DEF ClientFunctions
  <2>5. ASSUME NEW b \in buffer(c), op(c) = "vLength", Reply(c, vowelNumber(b))
        PROVE  reply'[d] \subseteq reply[d] \cup {Answer(d)}
    BY <2>3, <2>4, <2>5, Zenon DEF Answer
  <2>6. ASSUME NEW b \in buffer(c), op(c) = "disemvowel",
               Reply(c, disemVoweling(b))
        PROVE  reply'[d] \subseteq reply[d] \cup {Answer(d)}
    <3>1. op(c) # "vLength"
      BY <2>6
    <3>2. c = d => disemVoweling(b) = Answer(d)
      BY <2>4, <2>6, <3>1, Zenon DEF Answer
    <3>3. QED
      BY <2>3, <2>6, <3>2, Zenon
  <2>7. QED
    BY <1>3, <2>2, <2>5, <2>6, Zenon
<1>7. QED
  BY <1>1, <1>4, <1>5, <1>6, AnswersStayRight, Zenon

\* What a client of the datagram service shows is what it was sent.
LEMMA GetResponseIsRight ==
    ASSUME AnswersInv, NEW c \in Clients, GetResponse(c), UNCHANGED tcpVars
    PROVE  AnswersInv'
<1>1. /\ asked' = asked /\ reply' = reply /\ request' = request /\ up' = up
      /\ backlog' = backlog /\ serving' = serving /\ c \in UDP
      /\ \E answer \in reply[c] : ReadCount(c, answer) \/ ReadText(c, answer)
  BY DEF GetResponse, udpVars, tcpVars
<1>2. ClientFunctions /\ ServicesApart
  BY DEF AnswersInv
<1>3. PICK answer \in reply[c] : ReadCount(c, answer) \/ ReadText(c, answer)
  BY <1>1
<1>4. \/ /\ op(c) = "vLength" /\ Lo(answer) \in White
         /\ pc' = [pc EXCEPT ![c] = "died"] /\ shown' = shown
      \/ op(c) = "vLength" /\ Show(c, answer)
      \/ op(c) = "disemvowel" /\ Show(c, strip(answer))
  BY <1>3, Zenon DEF ReadCount, ReadText
<1>5. /\ pc' = [d \in Clients |-> pc'[d]] /\ shown' = [d \in Clients |-> shown'[d]]
      /\ \A d \in Clients : d # c => pc'[d] = pc[d] /\ shown'[d] = shown[d]
      /\ pc'[c] \in {"done", "died"}
  BY <1>2, <1>4 DEF ClientFunctions, Show
<1>6. ClientFunctions'
  BY <1>1, <1>2, <1>5, Zenon DEF ClientFunctions
<1>7. ServicesApart'
  <2>1. UDP' = UDP /\ TCP' = TCP /\ UDP \subseteq Clients
    BY <1>1 DEF UDP, TCP
  <2>2. \A d \in UDP : pc'[d] \in {"start", "recv", "done", "died"}
    BY <1>2, <1>5, <2>1 DEF ServicesApart
  <2>3. QED
    BY <1>1, <1>2, <2>1, <2>2, Zenon DEF ServicesApart
<1>8. ASSUME NEW d \in UDP, FitsBuffer(d)
      PROVE  /\ shown'[d] \subseteq shown[d] \cup {Seen(d)}
             /\ pc'[d] = "died" => pc[d] = "died" \/ ShortCount(d)
  <2>1. d \in Clients
    BY <1>8 DEF UDP
  <2>2. CASE d # c
    BY <1>5, <2>1, <2>2
  <2>3. CASE d = c
    <3>1. answer = Answer(c)
      BY <1>8, <2>3, Zenon DEF AnswersInv, RightSoFar
    <3>2. CASE /\ op(c) = "vLength" /\ Lo(answer) \in White
               /\ pc' = [pc EXCEPT ![c] = "died"] /\ shown' = shown
      BY <2>3, <3>1, <3>2, Zenon DEF Answer, ShortCount
    <3>3. CASE op(c) = "vLength" /\ Show(c, answer)
      <4>1. answer = Seen(c)
        BY <3>1, <3>3, Zenon DEF Answer, Seen
      <4>2. shown'[c] = {answer} /\ pc'[c] = "done"
        BY <1>2, <3>3 DEF Show, ClientFunctions
      <4>3. QED
        BY <2>3, <4>1, <4>2
    <3>4. CASE op(c) = "disemvowel" /\ Show(c, strip(answer))
      <4>1. op(c) # "vLength"
        BY <3>4
      <4>2. strip(answer) = Seen(c)
        BY <3>1, <4>1, Zenon DEF Answer, Seen
      <4>3. shown'[c] = {strip(answer)} /\ pc'[c] = "done"
        BY <1>2, <3>4 DEF Show, ClientFunctions
      <4>4. QED
        BY <2>3, <4>2, <4>3
    <3>5. QED
      BY <1>4, <3>2, <3>3, <3>4
  <2>4. QED
    BY <2>2, <2>3
<1>9. QED
  BY <1>1, <1>6, <1>7, <1>8, AnswersStayRight, Zenon

\* A UDP client sends, is refused, or has its request duplicated.
LEMMA NoAnswerIsRight ==
    ASSUME AnswersInv, NEW c \in Clients, UNCHANGED tcpVars,
           SendDatagram(c) \/ Refused(c) \/ Duplicate(c)
    PROVE  AnswersInv'
<1>1. /\ asked' = asked /\ reply' = reply /\ shown' = shown /\ up' = up
      /\ backlog' = backlog /\ serving' = serving
      /\ \/ c \in UDP /\ pc' = [pc EXCEPT ![c] = "recv"]
         \/ c \in UDP /\ pc' = [pc EXCEPT ![c] = "died"] /\ ~up
         \/ pc' = pc
  BY DEF SendDatagram, Refused, Duplicate, tcpVars, clientVars
<1>2. ClientFunctions /\ ServicesApart
  BY DEF AnswersInv
<1>3. /\ request' \in [Clients -> Int]
      /\ \A d \in Clients : request'[d] > 0 => d \in UDP
  <2>1. PICK k \in Int : /\ request' = [request EXCEPT ![c] = k]
                         /\ c \in UDP
    <3>1. request[c] \in Int /\ request[c] - 1 \in Int /\ request[c] + 1 \in Int
      BY <1>2 DEF ClientFunctions
    <3>2. request[c] > 0 => c \in UDP
      BY <1>2, Zenon DEF ServicesApart
    <3>3. CASE SendDatagram(c)
      <4>1. request' = [request EXCEPT ![c] = 1] /\ c \in UDP /\ 1 \in Int
        BY <3>3 DEF SendDatagram
      <4>2. QED
        BY <4>1, Zenon
    <3>4. CASE Refused(c)
      BY <3>1, <3>4, Zenon DEF Refused
    <3>5. CASE Duplicate(c)
      BY <3>1, <3>2, <3>5, Zenon DEF Duplicate
    <3>6. QED
      BY <3>3, <3>4, <3>5
  <2>2. QED
    BY <1>2, <2>1 DEF ClientFunctions, ServicesApart
<1>4. ClientFunctions'
  <2>1. pc' = [d \in Clients |-> pc'[d]]
    BY <1>1, <1>2 DEF ClientFunctions
  <2>2. QED
    BY <1>1, <1>2, <1>3, <2>1, Zenon DEF ClientFunctions
<1>5. ServicesApart'
  <2>1. UDP' = UDP /\ TCP' = TCP /\ UDP \subseteq Clients
    BY <1>1 DEF UDP, TCP
  <2>2. \A d \in UDP : pc'[d] \in {"start", "recv", "done", "died"}
    BY <1>1, <1>2, <2>1 DEF ServicesApart, ClientFunctions
  <2>3. QED
    BY <1>1, <1>2, <1>3, <2>1, <2>2, Zenon DEF ServicesApart
<1>6. ASSUME NEW d \in UDP, pc'[d] = "died", up'
      PROVE  pc[d] = "died"
  <2>1. d \in Clients
    BY <1>6 DEF UDP
  <2>2. QED
    BY <1>1, <1>2, <1>6, <2>1 DEF ClientFunctions
<1>7. QED
  BY <1>1, <1>4, <1>5, <1>6, AnswersStayRight, Zenon

\* The TCP server and its clients leave the UDP clients alone.
LEMMA TcpAnswersRight ==
    ASSUME AnswersInv, TcpNext, UNCHANGED udpVars
    PROVE  AnswersInv'
<1>1. ClientFunctions /\ ServicesApart /\ up' = up /\ request' = request
  BY DEF AnswersInv, udpVars
<1>2. asked' = asked
  BY DEF TcpNext, Accept, TcpServe, TcpClientStep, Interrupt, Connect,
         SendMessage, ReceiveReply, ReceiveNothing, clientVars
<1>3. UDP' = UDP /\ TCP' = TCP /\ UDP \cap TCP = {} /\ TCP \subseteq Clients
  BY <1>2 DEF UDP, TCP
\* What a step may do to the clients and their connections.
<1> DEFINE Harmless ==
              /\ ClientFunctions'
              /\ backlog' \in Seq(TCP) /\ serving' \subseteq TCP
              /\ \A d \in UDP :
                    reply'[d] = reply[d] /\ shown'[d] = shown[d] /\ pc'[d] = pc[d]
<1>4. ASSUME Accept
      PROVE  Harmless
  <2>1. backlog # <<>> => Head(backlog) \in TCP /\ Tail(backlog) \in Seq(TCP)
    BY <1>1 DEF ServicesApart
  <2>2. backlog' \in Seq(TCP) /\ serving' \subseteq TCP
    BY <1>4, <2>1 DEF Accept
  <2>3. pc' = pc /\ reply' = reply /\ shown' = shown
    BY <1>4 DEF Accept, clientVars
  <2>4. ClientFunctions'
    BY <1>1, <1>2, <2>3, Zenon DEF ClientFunctions
  <2>5. QED
    BY <2>2, <2>3, <2>4
<1>5. ASSUME TcpServe
      PROVE  Harmless
  <2>1. PICK c \in serving : Serve(c) \/ HangUp(c)
    BY <1>5 DEF TcpServe
  <2>2. c \in TCP /\ c \in Clients
    BY <1>1, <1>3, <2>1 DEF ServicesApart
  <2>3. pc' = pc /\ shown' = shown /\ backlog' = backlog /\ serving' = {}
    BY <1>5, <2>1 DEF TcpServe, Serve, HangUp
  <2>4. UNCHANGED reply \/ \E answer : Reply(c, answer)
    BY <2>1, Zenon DEF Serve, HangUp, process_data
  <2>5. /\ reply' = [d \in Clients |-> reply'[d]]
        /\ \A d \in Clients : d # c => reply'[d] = reply[d]
    BY <1>1, <2>4 DEF ClientFunctions, Reply
  <2>6. ClientFunctions'
    BY <1>1, <1>2, <2>3, <2>5, Zenon DEF ClientFunctions
  <2>7. \A d \in UDP : reply'[d] = reply[d]
    BY <1>3, <2>2, <2>5 DEF UDP
  <2>8. QED
    BY <1>1, <2>3, <2>6, <2>7 DEF ServicesApart
<1>6. ASSUME NEW c \in Clients, TcpClientStep(c) \/ Interrupt(c)
      PROVE  Harmless
  <2>1. c \in TCP
    <3>1. asked[c].service \in {"UDP", "TCP"}
      BY <1>1, QuestionsAssumption DEF ClientFunctions
    <3>2. c \notin UDP => c \in TCP
      BY <3>1 DEF UDP, TCP
    <3>3. CASE SendMessage(c) \/ Interrupt(c)
      BY <1>1, <3>2, <3>3 DEF SendMessage, Interrupt, ServicesApart
    <3>4. CASE Connect(c) \/ ReceiveReply(c) \/ ReceiveNothing(c)
      BY <3>4 DEF Connect, ReceiveReply, ReceiveNothing
    <3>5. QED
      BY <1>6, <3>3, <3>4 DEF TcpClientStep
  <2>2. /\ reply' = reply /\ serving' = serving
        /\ backlog' \in {backlog, Append(backlog, c)}
    BY <1>6 DEF TcpClientStep, Connect, SendMessage, ReceiveReply,
                ReceiveNothing, Interrupt, tcpVars
  <2>3. (\E p : pc' = [pc EXCEPT ![c] = p])
           /\ (shown' = shown \/ \E s : shown' = [shown EXCEPT ![c] = s])
    <3>1. ASSUME NEW answer, Show(c, answer)
          PROVE  /\ \E p : pc' = [pc EXCEPT ![c] = p]
                 /\ shown' = shown \/ \E s : shown' = [shown EXCEPT ![c] = s]
      BY <3>1, Zenon DEF Show
    <3>2. CASE ReceiveReply(c)
      <4>1. \E answer : Show(c, answer)
        BY <3>2, Zenon DEF ReceiveReply
      <4>2. QED
        BY <3>1, <4>1, Zenon
    <3>3. CASE Connect(c) \/ SendMessage(c) \/ ReceiveNothing(c) \/ Interrupt(c)
      BY <3>3, Zenon DEF Connect, SendMessage, ReceiveNothing, Interrupt
    <3>4. QED
      BY <1>6, <3>2, <3>3, Zenon DEF TcpClientStep
  <2>4. /\ pc' = [d \in Clients |-> pc'[d]] /\ shown' = [d \in Clients |-> shown'[d]]
        /\ \A d \in Clients : d # c => pc'[d] = pc[d] /\ shown'[d] = shown[d]
    BY <1>1, <2>3 DEF ClientFunctions
  <2>5. ClientFunctions'
    BY <1>1, <1>2, <2>2, <2>4, Zenon DEF ClientFunctions
  <2>6. \A d \in UDP : pc'[d] = pc[d] /\ shown'[d] = shown[d]
    BY <1>3, <2>1, <2>4 DEF UDP
  <2>7. backlog' \in Seq(TCP) /\ serving' \subseteq TCP
    BY <1>1, <2>1, <2>2 DEF ServicesApart
  <2>8. QED
    BY <2>2, <2>5, <2>6, <2>7
<1>7. Harmless
  BY <1>4, <1>5, <1>6 DEF TcpNext
<1>8. ServicesApart'
  BY <1>1, <1>3, <1>7, Zenon DEF ServicesApart
<1>9. QED
  BY <1>1, <1>2, <1>7, <1>8, AnswersStayRight

LEMMA AnswersStep == AnswersInv /\ [Next]_vars => AnswersInv'
<1> SUFFICES ASSUME AnswersInv, [Next]_vars
             PROVE  AnswersInv'
  OBVIOUS
<1>1. CASE UdpNext /\ UNCHANGED tcpVars
  BY <1>1, ServeAnswersRight, GetResponseIsRight, NoAnswerIsRight DEF UdpNext
<1>2. CASE TcpNext /\ UNCHANGED udpVars
  BY <1>2, TcpAnswersRight
<1>3. CASE UNCHANGED vars
  <2>1. UNCHANGED <<asked, pc, reply, shown, up, request, backlog, serving>>
    BY <1>3 DEF vars, clientVars, udpVars, tcpVars
  <2>2. UDP' = UDP /\ TCP' = TCP
    BY <2>1 DEF UDP, TCP
  <2>3. ClientFunctions' /\ ServicesApart'
    BY <2>1, <2>2, Zenon DEF AnswersInv, ClientFunctions, ServicesApart
  <2>4. QED
    BY <2>1, <2>3, AnswersStayRight
<1>4. QED
  BY <1>1, <1>2, <1>3 DEF Next

\* Whatever the clients, their texts, the interleaving with each other and
\* with the TCP service, the bytes found in memory and the datagrams that are
\* duplicated or lost: what is shown to the user of a UDP client whose message
\* fits is the answer to his own question, and the client dies only of a count
\* that ends in whitespace or of a server that has gone.
THEOREM UdpAnswers == Spec => []UdpAnswersAreRight
<1>1. AnswersInv => UdpAnswersAreRight
  <2> SUFFICES ASSUME AnswersInv, NEW c \in UDP, FitsBuffer(c)
               PROVE  /\ \A answer \in shown[c] : answer = Seen(c)
                      /\ pc[c] = "died" /\ up => ShortCount(c)
    BY Zenon DEF UdpAnswersAreRight, FitsBuffer, Seen, ShortCount
  <2>1. RightSoFar(c)
    BY Zenon DEF AnswersInv
  <2>2. QED
    BY <2>1, Zenon DEF RightSoFar
<1>2. QED
  BY <1>1, AnswersInit, AnswersStep, PTL DEF Spec

-----------------------------------------------------------------------------
(* Texts, character by character.                                          *)

\* A set of numbers that is not empty has a least element.
LEMMA LeastElement ==
    ASSUME NEW T, T \subseteq Nat, T # {}
    PROVE  \E n \in T : \A m \in T : n <= m
<1>1. PICK n \in T : \A m \in T : <<m, n>> \notin OpToRel(<, Nat)
  BY NatLessThanWellFounded, WFMin, Zenon
<1>2. \A m \in T : ~(m < n)
  BY <1>1, Zenon DEF OpToRel
<1> QED
  BY <1>2

\* What is true before the first character, and after every further one, is
\* true of a whole text.
LEMMA Induction ==
    ASSUME NEW N \in Nat, NEW T, 0 \in T,
           \A n \in 1..N : n - 1 \in T => n \in T
    PROVE  0..N \subseteq T
<1> DEFINE U == (0..N) \ T
<1> SUFFICES ASSUME U # {} PROVE FALSE
  OBVIOUS
<1>1. U \subseteq Nat
  OBVIOUS
<1>2. PICK n \in U : \A m \in U : n <= m
  BY <1>1, LeastElement
<1>3. n \in 1..N /\ n - 1 \in 0..N /\ ~(n <= n - 1)
  BY <1>2
<1>4. n - 1 \in T
  BY <1>2, <1>3
<1> QED
  BY <1>2, <1>3, <1>4

\* f is what is left of s after each of its characters.
IsRest(f, s, chars, n) ==
    f = [k \in 0..n |->
            IF k = 0 THEN <<>>
            ELSE IF s[k] \in chars THEN f[k - 1] ELSE Append(f[k - 1], s[k])]

LEMMA RestExists ==
    ASSUME NEW s, NEW chars, NEW N \in Nat
    PROVE  \E f : IsRest(f, s, chars, N)
<1> DEFINE T == {n \in 0..N : \E f : IsRest(f, s, chars, n)}
<1>1. 0 \in T
  <2> DEFINE f == [k \in 0..0 |-> <<>>]
  <2>1. IsRest(f, s, chars, 0)
    BY DEF IsRest
  <2> QED
    BY <2>1
<1>2. ASSUME NEW n \in 1..N, n - 1 \in T
      PROVE  n \in T
  <2>1. PICK f : IsRest(f, s, chars, n - 1)
    BY <1>2
  <2> DEFINE last == IF s[n] \in chars THEN f[n - 1] ELSE Append(f[n - 1], s[n])
             g == [k \in 0..n |-> IF k = n THEN last ELSE f[k]]
  <2>2. \A k \in 0..n - 1 :
            f[k] = IF k = 0 THEN <<>>
                   ELSE IF s[k] \in chars THEN f[k - 1] ELSE Append(f[k - 1], s[k])
    BY <2>1 DEF IsRest
  <2>3. \A k \in 0..n :
            g[k] = IF k = 0 THEN <<>>
                   ELSE IF s[k] \in chars THEN g[k - 1] ELSE Append(g[k - 1], s[k])
    <3> TAKE k \in 0..n
    <3>1. CASE k = n
      <4>1. n \in 0..n /\ n - 1 \in 0..n /\ n - 1 # n /\ n # 0
        OBVIOUS
      <4>2. g[n] = last /\ g[n - 1] = f[n - 1]
        <5> HIDE DEF last
        <5> QED
          BY <4>1
      <4> QED
        BY <3>1, <4>1, <4>2
    <3>2. CASE k # n
      <4>1. k \in 0..n - 1 /\ (k # 0 => k - 1 \in 0..n /\ k - 1 # n)
        BY <3>2
      <4>2. g[k] = f[k] /\ (k # 0 => g[k - 1] = f[k - 1])
        <5> HIDE DEF last
        <5> QED
          BY <3>2, <4>1
      <4> HIDE DEF g
      <4> QED
        BY <2>2, <4>1, <4>2
    <3> QED
      BY <3>1, <3>2
  <2>4. IsRest(g, s, chars, n)
    <3>1. g = [k \in 0..n |-> g[k]]
      OBVIOUS
    <3> HIDE DEF g
    <3> QED
      BY <2>3, <3>1 DEF IsRest
  <2> QED
    BY <2>4
<1> HIDE DEF T
<1>3. 0..N \subseteq T
  BY <1>1, <1>2, Induction
<1> QED
  BY <1>3 DEF T

Rest(s, chars) == CHOOSE f : IsRest(f, s, chars, Len(s))

\* One character at a time: what a loop over s that copies the characters
\* that are not in chars has copied (serverUDP.c 114-121).
LEMMA RestSteps ==
    ASSUME NEW S, NEW s \in Seq(S), NEW chars
    PROVE  /\ Without(s, chars) = Rest(s, chars)[Len(s)]
           /\ Rest(s, chars)[0] = <<>>
           /\ \A k \in 1..Len(s) :
                 Rest(s, chars)[k] =
                     IF s[k] \in chars THEN Rest(s, chars)[k - 1]
                     ELSE Append(Rest(s, chars)[k - 1], s[k])
<1>1. Len(s) \in Nat
  OBVIOUS
<1>2. IsRest(Rest(s, chars), s, chars, Len(s))
  BY <1>1, RestExists DEF Rest
<1>3. Without(s, chars) = Rest(s, chars)[Len(s)]
  BY DEF Without, Rest, IsRest
<1> DEFINE f == Rest(s, chars)
<1> HIDE DEF f
<1>4. \A k \in 0..Len(s) :
          f[k] = IF k = 0 THEN <<>>
                 ELSE IF s[k] \in chars THEN f[k - 1] ELSE Append(f[k - 1], s[k])
  BY <1>2 DEF IsRest, f
<1>5. /\ f[0] = <<>>
      /\ \A k \in 1..Len(s) :
            f[k] = IF s[k] \in chars THEN f[k - 1] ELSE Append(f[k - 1], s[k])
  BY <1>1, <1>4
<1> QED
  BY <1>3, <1>5 DEF f

\* What is left of a text is a text, and no longer.
LEMMA RestType ==
    ASSUME NEW S, NEW s \in Seq(S), NEW chars
    PROVE  /\ \A k \in 0..Len(s) : Rest(s, chars)[k] \in Seq(S)
           /\ Without(s, chars) \in Seq(S)
<1> DEFINE f == Rest(s, chars)
           N == Len(s)
           T == {k \in 0..N : f[k] \in Seq(S)}
<1>1. N \in Nat
  OBVIOUS
<1>2. /\ Without(s, chars) = f[N] /\ f[0] = <<>>
      /\ \A k \in 1..N :
            f[k] = IF s[k] \in chars THEN f[k - 1] ELSE Append(f[k - 1], s[k])
  BY RestSteps
<1> HIDE DEF f
<1>3. 0 \in T
  <2>1. <<>> \in Seq(S) /\ 0 \in 0..N
    BY <1>1
  <2> QED
    BY <1>2, <2>1, Zenon
<1>4. ASSUME NEW n \in 1..N, n - 1 \in T
      PROVE  n \in T
  <2>1. n \in 0..N /\ s[n] \in S /\ f[n - 1] \in Seq(S)
    BY <1>1, <1>4
  <2>2. Append(f[n - 1], s[n]) \in Seq(S)
    BY <2>1
  <2> QED
    BY <1>2, <2>1, <2>2
<1> HIDE DEF T
<1>5. 0..N \subseteq T
  BY <1>1, <1>3, <1>4, Induction
<1>6. \A k \in 0..N : f[k] \in Seq(S)
  BY <1>5 DEF T
<1>7. N \in 0..N
  BY <1>1
<1> QED
  BY <1>2, <1>6, <1>7 DEF f

\* Two texts that begin alike leave the same.
LEMMA RestOfPart ==
    ASSUME NEW S, NEW s \in Seq(S), NEW t \in Seq(S), NEW chars, NEW N \in Nat,
           N <= Len(s), N <= Len(t), \A k \in 1..N : s[k] = t[k]
    PROVE  \A k \in 0..N : Rest(s, chars)[k] = Rest(t, chars)[k]
<1> DEFINE f == Rest(s, chars)
           g == Rest(t, chars)
           T == {k \in 0..N : f[k] = g[k]}
<1>1. /\ f[0] = <<>> /\ g[0] = <<>>
      /\ \A k \in 1..Len(s) :
            f[k] = IF s[k] \in chars THEN f[k - 1] ELSE Append(f[k - 1], s[k])
      /\ \A k \in 1..Len(t) :
            g[k] = IF t[k] \in chars THEN g[k - 1] ELSE Append(g[k - 1], t[k])
  BY RestSteps
<1> HIDE DEF f, g
<1>2. 0 \in T
  BY <1>1
<1>3. ASSUME NEW n \in 1..N, n - 1 \in T
      PROVE  n \in T
  <2>1. n \in 0..N /\ n \in 1..Len(s) /\ n \in 1..Len(t)
    OBVIOUS
  <2>2. s[n] = t[n] /\ f[n - 1] = g[n - 1]
    BY <1>3
  <2>3. /\ f[n] = IF s[n] \in chars THEN f[n - 1] ELSE Append(f[n - 1], s[n])
        /\ g[n] = IF t[n] \in chars THEN g[n - 1] ELSE Append(g[n - 1], t[n])
    BY <1>1, <2>1
  <2>4. f[n] = g[n]
    BY <2>2, <2>3
  <2> QED
    BY <2>1, <2>4
<1> HIDE DEF T
<1>4. 0..N \subseteq T
  BY <1>2, <1>3, Induction
<1> QED
  BY <1>4 DEF T, f, g

LEMMA WithoutEmpty ==
    ASSUME NEW chars
    PROVE  Without(<<>>, chars) = <<>>
<1> DEFINE s == <<>>
<1>1. s \in Seq({}) /\ Len(s) = 0
  OBVIOUS
<1> HIDE DEF s
<1>2. Without(s, chars) = Rest(s, chars)[0] /\ Rest(s, chars)[0] = <<>>
  BY <1>1, RestSteps
<1> QED
  BY <1>2 DEF s

\* One character more.
LEMMA WithoutAppend ==
    ASSUME NEW S, NEW s \in Seq(S), NEW ch \in S, NEW chars
    PROVE  /\ ch \in chars => Without(Append(s, ch), chars) = Without(s, chars)
           /\ ch \notin chars =>
                 Without(Append(s, ch), chars) = Append(Without(s, chars), ch)
<1> DEFINE t == Append(s, ch)
           N == Len(s)
<1>1. /\ t \in Seq(S) /\ N \in Nat /\ Len(t) = N + 1 /\ t[N + 1] = ch
      /\ \A k \in 1..N : t[k] = s[k]
  OBVIOUS
<1> HIDE DEF t
<1>2. /\ Without(t, chars) = Rest(t, chars)[N + 1]
      /\ Rest(t, chars)[N + 1] =
            IF t[N + 1] \in chars THEN Rest(t, chars)[N + 1 - 1]
            ELSE Append(Rest(t, chars)[N + 1 - 1], t[N + 1])
  <2>1. N + 1 \in 1..Len(t)
    BY <1>1
  <2> QED
    BY <1>1, <2>1, RestSteps
<1>3. N + 1 - 1 = N /\ N \in 0..N /\ N <= Len(t) /\ N <= Len(s)
  BY <1>1
<1>4. Rest(t, chars)[N] = Without(s, chars)
  <2>1. \A k \in 0..N : Rest(t, chars)[k] = Rest(s, chars)[k]
    BY <1>1, <1>3, RestOfPart
  <2> QED
    BY <1>3, <2>1, RestSteps
<1> QED
  BY <1>1, <1>2, <1>3, <1>4 DEF t

\* Taking out one set of characters and then another is taking out both.
LEMMA WithoutBoth ==
    ASSUME NEW S, NEW s \in Seq(S), NEW A, NEW B
    PROVE  Without(Without(s, A), B) = Without(s, A \cup B)
<1> DEFINE f == Rest(s, A)
           h == Rest(s, A \cup B)
           N == Len(s)
           T == {k \in 0..N : Without(f[k], B) = h[k]}
<1>1. N \in Nat
  OBVIOUS
<1>2. /\ Without(s, A) = f[N] /\ f[0] = <<>>
      /\ \A k \in 1..N : f[k] = IF s[k] \in A THEN f[k - 1] ELSE Append(f[k - 1], s[k])
      /\ \A k \in 0..N : f[k] \in Seq(S)
  BY RestSteps, RestType
<1>3. /\ Without(s, A \cup B) = h[N] /\ h[0] = <<>>
      /\ \A k \in 1..N :
            h[k] = IF s[k] \in A \cup B THEN h[k - 1] ELSE Append(h[k - 1], s[k])
  BY RestSteps
<1> HIDE DEF f, h
<1>4. 0 \in T
  BY <1>1, <1>2, <1>3, WithoutEmpty
<1>5. ASSUME NEW n \in 1..N, n - 1 \in T
      PROVE  n \in T
  <2>1. n \in 0..N /\ n - 1 \in 0..N /\ s[n] \in S
    BY <1>1
  <2>2. /\ f[n] = IF s[n] \in A THEN f[n - 1] ELSE Append(f[n - 1], s[n])
        /\ h[n] = IF s[n] \in A \cup B THEN h[n - 1] ELSE Append(h[n - 1], s[n])
        /\ f[n - 1] \in Seq(S) /\ Without(f[n - 1], B) = h[n - 1]
    BY <1>2, <1>3, <1>5, <2>1
  <2>3. /\ s[n] \in B => Without(Append(f[n - 1], s[n]), B) = Without(f[n - 1], B)
        /\ s[n] \notin B =>
              Without(Append(f[n - 1], s[n]), B) = Append(Without(f[n - 1], B), s[n])
    <3>1. ASSUME NEW t \in Seq(S), NEW ch \in S
          PROVE  /\ ch \in B => Without(Append(t, ch), B) = Without(t, B)
                 /\ ch \notin B =>
                       Without(Append(t, ch), B) = Append(Without(t, B), ch)
      BY WithoutAppend, SMT
    <3>2. f[n - 1] \in Seq(S) /\ s[n] \in S
      BY <2>1, <2>2
    <3> QED
      BY <3>1, <3>2, Zenon
  <2>4. Without(f[n], B) = h[n]
    <3>1. CASE s[n] \in A
      BY <2>2, <3>1
    <3>2. CASE s[n] \notin A
      BY <2>2, <2>3, <3>2
    <3> QED
      BY <3>1, <3>2
  <2> QED
    BY <2>1, <2>4
<1> HIDE DEF T
<1>6. 0..N \subseteq T
  BY <1>1, <1>4, <1>5, Induction
<1>7. N \in T
  BY <1>1, <1>6
<1> QED
  BY <1>2, <1>3, <1>7 DEF T

\* f is the text after each replace().
IsMessage(f, s, n) ==
    f = [k \in 0..n |-> IF k = 0 THEN s ELSE Without(f[k - 1], {vowels[k]})]

LEMMA MessageExists ==
    ASSUME NEW s, NEW N \in Nat
    PROVE  \E f : IsMessage(f, s, N)
<1> DEFINE T == {n \in 0..N : \E f : IsMessage(f, s, n)}
<1>1. 0 \in T
  <2> DEFINE f == [k \in 0..0 |-> s]
  <2>1. IsMessage(f, s, 0)
    BY DEF IsMessage
  <2> QED
    BY <2>1
<1>2. ASSUME NEW n \in 1..N, n - 1 \in T
      PROVE  n \in T
  <2>1. PICK f : IsMessage(f, s, n - 1)
    BY <1>2
  <2> DEFINE g == [k \in 0..n |->
                     IF k = n THEN Without(f[n - 1], {vowels[n]}) ELSE f[k]]
  <2>2. \A k \in 0..n - 1 : f[k] = IF k = 0 THEN s ELSE Without(f[k - 1], {vowels[k]})
    BY <2>1 DEF IsMessage
  <2>3. \A k \in 0..n : g[k] = IF k = 0 THEN s ELSE Without(g[k - 1], {vowels[k]})
    <3> TAKE k \in 0..n
    <3>1. CASE k = n
      <4>1. n \in 0..n /\ n - 1 \in 0..n /\ n - 1 # n /\ n # 0
        OBVIOUS
      <4>2. g[n] = Without(f[n - 1], {vowels[n]}) /\ g[n - 1] = f[n - 1]
        BY <4>1
      <4> QED
        BY <3>1, <4>1, <4>2
    <3>2. CASE k # n
      <4>1. k \in 0..n - 1 /\ (k # 0 => k - 1 \in 0..n /\ k - 1 # n)
        BY <3>2
      <4>2. g[k] = f[k] /\ (k # 0 => g[k - 1] = f[k - 1])
        BY <3>2, <4>1
      <4> HIDE DEF g
      <4> QED
        BY <2>2, <4>1, <4>2
    <3> QED
      BY <3>1, <3>2
  <2>4. IsMessage(g, s, n)
    BY <2>3 DEF IsMessage
  <2> QED
    BY <2>4
<1> HIDE DEF T
<1>3. 0..N \subseteq T
  BY <1>1, <1>2, Induction
<1> QED
  BY <1>3 DEF T

\* Ten replace()s, or one loop: both servers disemvowel alike
\* (serverTCP.py 80-81, serverUDP.c 114-121).
LEMMA DisemvowelIsDisemVoweling ==
    ASSUME NEW S, NEW s \in Seq(S)
    PROVE  disemvowel(s) = disemVoweling(s)
<1> DEFINE N == Len(vowels)
           f == CHOOSE g : IsMessage(g, s, N)
           set(k) == {vowels[j] : j \in 1..k}
           T == {k \in 0..N - 1 : f[k + 1] = Without(s, set(k + 1))}
<1>1. N = 10 /\ N \in Nat
  BY DEF vowels
<1>2. IsMessage(f, s, N)
  BY <1>1, MessageExists
<1>3. disemvowel(s) = f[N]
  BY DEF disemvowel, IsMessage
<1> HIDE DEF f, N
<1>4. /\ f[0] = s
      /\ \A k \in 1..N : f[k] = Without(f[k - 1], {vowels[k]})
  BY <1>1, <1>2 DEF IsMessage
<1>5. 0 \in T
  <2>1. f[1] = Without(s, {vowels[1]})
    BY <1>1, <1>4
  <2>2. set(1) = {vowels[1]}
    OBVIOUS
  <2>3. 0 + 1 = 1 /\ 0 \in 0..N - 1
    BY <1>1
  <2> HIDE DEF set
  <2> QED
    BY <2>1, <2>2, <2>3
<1>6. ASSUME NEW n \in 1..N - 1, n - 1 \in T
      PROVE  n \in T
  <2>1. n \in 0..N - 1 /\ n + 1 \in 1..N /\ n + 1 - 1 = n /\ n - 1 + 1 = n
    BY <1>1
  <2>2. set(n + 1) = set(n) \cup {vowels[n + 1]}
    <3>1. \A j : j \in 1..n + 1 <=> j \in 1..n \/ j = n + 1
      BY <1>1
    <3> QED
      BY <3>1, Zenon
  <2> HIDE DEF set
  <2>3. f[n] = Without(s, set(n))
    BY <1>6, <2>1
  <2>4. f[n + 1] = Without(f[n], {vowels[n + 1]})
    <3>1. ASSUME NEW k \in 1..N, NEW i, k - 1 = i
          PROVE  f[k] = Without(f[i], {vowels[k]})
      BY <1>4, <3>1, Zenon
    <3> DEFINE k == n + 1
    <3>2. k \in 1..N /\ k - 1 = n
      BY <2>1
    <3> HIDE DEF k
    <3>3. f[k] = Without(f[n], {vowels[k]})
      BY <3>1, <3>2, Zenon
    <3> QED
      BY <3>3 DEF k
  <2>5. Without(Without(s, set(n)), {vowels[n + 1]}) =
            Without(s, set(n) \cup {vowels[n + 1]})
    <3>1. ASSUME NEW A, NEW B
          PROVE  Without(Without(s, A), B) = Without(s, A \cup B)
      BY WithoutBoth, SMT
    <3> QED
      BY <3>1, Zenon
  <2>6. f[n + 1] = Without(s, set(n + 1))
    BY <2>2, <2>3, <2>4, <2>5, Zenon
  <2> QED
    BY <2>1, <2>6
<1> HIDE DEF T
<1>7. 0..N - 1 \subseteq T
  <2>1. N - 1 \in Nat
    BY <1>1
  <2> QED
    BY <1>5, <1>6, <2>1, Induction
<1>8. set(N) = Range(vowels)
  <2>1. DOMAIN vowels = 1..N
    BY DEF vowels, N
  <2> QED
    BY <2>1, Zenon DEF Range
<1>9. f[N] = Without(s, set(N))
  <2>1. N - 1 \in T /\ N - 1 + 1 = N
    BY <1>1, <1>7
  <2> HIDE DEF set
  <2> QED
    BY <2>1, Zenon DEF T
<1> QED
  BY <1>3, <1>8, <1>9, Zenon DEF disemVoweling

-----------------------------------------------------------------------------
(* Counting vowels.                                                        *)

\* f is the count after each character of s.
IsCount(f, s, n) ==
    f = [k \in 0..n |->
            IF k = 0 THEN 0
            ELSE IF isaVowel(s[k]) THEN f[k - 1] + 1 ELSE f[k - 1]]

LEMMA CountExists ==
    ASSUME NEW s, NEW N \in Nat
    PROVE  \E f : IsCount(f, s, N)
<1> DEFINE T == {n \in 0..N : \E f : IsCount(f, s, n)}
<1>1. 0 \in T
  <2> DEFINE f == [k \in 0..0 |-> 0]
  <2>1. IsCount(f, s, 0)
    BY DEF IsCount
  <2> QED
    BY <2>1
<1>2. ASSUME NEW n \in 1..N, n - 1 \in T
      PROVE  n \in T
  <2>1. PICK f : IsCount(f, s, n - 1)
    BY <1>2
  <2> DEFINE last == IF isaVowel(s[n]) THEN f[n - 1] + 1 ELSE f[n - 1]
             g == [k \in 0..n |-> IF k = n THEN last ELSE f[k]]
  <2>2. \A k \in 0..n - 1 :
            f[k] = IF k = 0 THEN 0
                   ELSE IF isaVowel(s[k]) THEN f[k - 1] + 1 ELSE f[k - 1]
    BY <2>1 DEF IsCount
  <2>3. \A k \in 0..n :
            g[k] = IF k = 0 THEN 0
                   ELSE IF isaVowel(s[k]) THEN g[k - 1] + 1 ELSE g[k - 1]
    <3> TAKE k \in 0..n
    <3>1. CASE k = n
      <4>1. n \in 0..n /\ n - 1 \in 0..n /\ n - 1 # n /\ n # 0
        OBVIOUS
      <4>2. g[n] = last /\ g[n - 1] = f[n - 1]
        <5> HIDE DEF last
        <5> QED
          BY <4>1
      <4> QED
        BY <3>1, <4>1, <4>2
    <3>2. CASE k # n
      <4>1. k \in 0..n - 1 /\ (k # 0 => k - 1 \in 0..n /\ k - 1 # n)
        BY <3>2
      <4>2. g[k] = f[k] /\ (k # 0 => g[k - 1] = f[k - 1])
        <5> HIDE DEF last
        <5> QED
          BY <3>2, <4>1
      <4> HIDE DEF g
      <4> QED
        BY <2>2, <4>1, <4>2
    <3> QED
      BY <3>1, <3>2
  <2>4. IsCount(g, s, n)
    <3>1. g = [k \in 0..n |-> g[k]]
      OBVIOUS
    <3> HIDE DEF g
    <3> QED
      BY <2>3, <3>1 DEF IsCount
  <2> QED
    BY <2>4
<1> HIDE DEF T
<1>3. 0..N \subseteq T
  BY <1>1, <1>2, Induction
<1> QED
  BY <1>3 DEF T

\* The vowels among the first k characters of s.
VowelsOf(s, k) == {i \in 1..k : isaVowel(s[i])}

LEMMA OneVowelMore ==
    ASSUME NEW s, NEW n \in Nat \ {0}
    PROVE  /\ Cardinality(VowelsOf(s, 0)) = 0
           /\ Cardinality(VowelsOf(s, n)) \in Nat
           /\ isaVowel(s[n]) =>
                 Cardinality(VowelsOf(s, n)) = Cardinality(VowelsOf(s, n - 1)) + 1
           /\ ~isaVowel(s[n]) =>
                 Cardinality(VowelsOf(s, n)) = Cardinality(VowelsOf(s, n - 1))
<1>1. \A k \in Nat : IsFiniteSet(VowelsOf(s, k))
  <2> TAKE k \in Nat
  <2>1. IsFiniteSet(1..k) /\ VowelsOf(s, k) \subseteq 1..k
    BY FS_Interval DEF VowelsOf
  <2> QED
    BY <2>1, FS_Subset, Zenon
<1>2. VowelsOf(s, 0) = {}
  BY DEF VowelsOf
<1>3. n \notin VowelsOf(s, n - 1)
  BY DEF VowelsOf
<1>4. isaVowel(s[n]) => VowelsOf(s, n) = VowelsOf(s, n - 1) \cup {n}
  BY DEF VowelsOf
<1>5. ~isaVowel(s[n]) => VowelsOf(s, n) = VowelsOf(s, n - 1)
  BY DEF VowelsOf
<1>6. IsFiniteSet(VowelsOf(s, n)) /\ IsFiniteSet(VowelsOf(s, n - 1))
  BY <1>1
<1>7. Cardinality(VowelsOf(s, n - 1) \cup {n}) = Cardinality(VowelsOf(s, n - 1)) + 1
  BY <1>3, <1>6, FS_AddElement
<1>8. Cardinality(VowelsOf(s, n)) \in Nat /\ Cardinality({}) = 0
  BY <1>6, FS_CardinalityType, FS_EmptySet
<1> QED
  BY <1>2, <1>4, <1>5, <1>7, <1>8

\* Counting character by character finds the number of the vowels, whether
\* or not the other characters at the end are there: get_vowel_count
\* (serverTCP.py 71-75) against vowelNumber (serverUDP.c 41-76).
LEMMA CountIsNumber ==
    ASSUME NEW S, NEW s \in Seq(S), NEW t \in Seq(S), Len(s) <= Len(t),
           \A k \in 1..Len(s) : s[k] = t[k],
           \A k \in Len(s) + 1..Len(t) : ~isaVowel(t[k])
    PROVE  get_vowel_count(s) = vowelNumber(t) /\ vowelNumber(t) \in Nat
<1> DEFINE N == Len(s)
           f == CHOOSE g : IsCount(g, s, N)
           T == {k \in 0..N : f[k] = Cardinality(VowelsOf(s, k))}
<1>1. N \in Nat
  OBVIOUS
<1>2. IsCount(f, s, N)
  BY <1>1, CountExists
<1>3. get_vowel_count(s) = f[N]
  BY DEF get_vowel_count, IsCount
<1>4. VowelsOf(s, N) = {i \in DOMAIN t : isaVowel(t[i])}
  BY DEF VowelsOf
<1> HIDE DEF f, N
<1>5. /\ f[0] = 0
      /\ \A k \in 1..N : f[k] = IF isaVowel(s[k]) THEN f[k - 1] + 1 ELSE f[k - 1]
  BY <1>1, <1>2 DEF IsCount
<1>6. 0 \in T
  <2>1. 0 \in 0..N /\ 1 \in Nat \ {0}
    BY <1>1
  <2>2. Cardinality(VowelsOf(s, 0)) = 0
    BY <2>1, OneVowelMore
  <2> QED
    BY <1>5, <2>1, <2>2
<1>7. ASSUME NEW n \in 1..N, n - 1 \in T
      PROVE  n \in T
  <2>1. n \in 0..N /\ n \in Nat \ {0}
    BY <1>1
  <2>2. f[n - 1] = Cardinality(VowelsOf(s, n - 1))
    BY <1>7
  <2>3. /\ isaVowel(s[n]) =>
              Cardinality(VowelsOf(s, n)) = Cardinality(VowelsOf(s, n - 1)) + 1
        /\ ~isaVowel(s[n]) =>
              Cardinality(VowelsOf(s, n)) = Cardinality(VowelsOf(s, n - 1))
    BY <2>1, OneVowelMore
  <2>4. f[n] = IF isaVowel(s[n]) THEN f[n - 1] + 1 ELSE f[n - 1]
    BY <1>5
  <2>5. f[n] = Cardinality(VowelsOf(s, n))
    BY <2>2, <2>3, <2>4
  <2> QED
    BY <2>1, <2>5
<1> HIDE DEF T
<1>8. 0..N \subseteq T
  BY <1>1, <1>6, <1>7, Induction
<1>9. f[N] = Cardinality(VowelsOf(s, N))
  <2>1. N \in T
    BY <1>1, <1>8
  <2> QED
    BY <2>1 DEF T
<1>10. Cardinality(VowelsOf(s, N)) \in Nat
  <2>1. CASE N = 0
    <3>1. 1 \in Nat \ {0}
      OBVIOUS
    <3>2. Cardinality(VowelsOf(s, 0)) = 0
      BY <3>1, OneVowelMore
    <3> QED
      BY <2>1, <3>2
  <2>2. CASE N # 0
    BY <1>1, <2>2, OneVowelMore
  <2> QED
    BY <2>1, <2>2
<1> QED
  BY <1>3, <1>4, <1>9, <1>10 DEF vowelNumber

-----------------------------------------------------------------------------
(* The text in what the TCP server has read.                               *)

\* A set of numbers up to N that is not empty has a greatest element.
LEMMA GreatestElement ==
    ASSUME NEW N \in Nat, NEW T, T \subseteq 0..N, T # {}
    PROVE  Max(T) \in T /\ \A y \in T : Max(T) >= y
<1> DEFINE U == {n \in 0..N : N - n \in T}
<1>1. U \subseteq Nat /\ U # {}
  <2>1. PICK x \in T : TRUE
    OBVIOUS
  <2>2. N - x \in 0..N /\ N - (N - x) = x
    BY <2>1
  <2>3. N - x \in U
    BY <2>1, <2>2
  <2>4. U \subseteq Nat
    OBVIOUS
  <2> HIDE DEF U
  <2> QED
    BY <2>3, <2>4
<1>2. PICK n \in U : \A m \in U : n <= m
  BY <1>1, LeastElement
<1>3. ASSUME NEW y \in T
      PROVE  N - n >= y
  <2>1. y \in 0..N /\ N - y \in 0..N /\ N - (N - y) = y
    OBVIOUS
  <2>2. N - y \in U
    BY <2>1
  <2>3. n <= N - y
    BY <1>2, <2>2
  <2> QED
    BY <2>1, <2>3
<1>4. N - n \in T
  OBVIOUS
<1> QED
  BY <1>3, <1>4, Zenon DEF Max

\* The provers know this character by name only.
Blank == " "

\* strip() cuts off the whitespace at the end, all of it and nothing else.
LEMMA StripCuts ==
    ASSUME NEW S, NEW s \in Seq(S)
    PROVE  \E j \in 0..Len(s) :
              /\ strip(s) = SubSeq(s, 1, j)
              /\ \A i \in j + 1..Len(s) : s[i] = Blank
              /\ j # 0 => s[j] # Blank
<1> DEFINE T == {0} \cup {i \in DOMAIN s : s[i] # Blank}
           j == Max(T)
<1>1. Len(s) \in Nat /\ DOMAIN s = 1..Len(s)
  OBVIOUS
<1>2. T \subseteq 0..Len(s) /\ T # {}
  <2>1. \A i \in 1..Len(s) : i \in 0..Len(s)
    BY <1>1
  <2>2. 0 \in 0..Len(s) /\ 0 \in T
    BY <1>1
  <2>3. \A i \in T : i = 0 \/ i \in 1..Len(s)
    BY <1>1
  <2> HIDE DEF T
  <2> QED
    BY <2>1, <2>2, <2>3
<1>3. strip(s) = SubSeq(s, 1, j)
  BY Zenon DEF strip, Blank
<1> HIDE DEF T
<1>4. j \in T /\ \A y \in T : j >= y
  BY <1>1, <1>2, GreatestElement
<1> HIDE DEF j
<1>5. j \in 0..Len(s)
  BY <1>2, <1>4
<1>6. j # 0 => s[j] # Blank
  BY <1>4 DEF T
<1>7. ASSUME NEW i \in j + 1..Len(s)
      PROVE  s[i] = Blank
  <2>1. i \in 1..Len(s) /\ ~(j >= i)
    BY <1>5
  <2>2. i \notin T
    BY <1>4, <2>1
  <2> QED
    BY <1>1, <2>1, <2>2 DEF T
<1> QED
  BY <1>3, <1>5, <1>6, <1>7

LEMMA FirstIs ==
    ASSUME NEW S, NEW s \in Seq(S), NEW n \in Nat
    PROVE  /\ First(n, s) \in Seq(S)
           /\ n <= Len(s) => Len(First(n, s)) = n
           /\ n >= Len(s) => Len(First(n, s)) = Len(s)
           /\ \A i \in 1..Len(First(n, s)) : First(n, s)[i] = s[i]
<1>1. Len(s) \in Nat
  OBVIOUS
<1>2. ASSUME NEW m \in 0..Len(s)
      PROVE  /\ SubSeq(s, 1, m) \in Seq(S) /\ Len(SubSeq(s, 1, m)) = m
             /\ \A i \in 1..m : SubSeq(s, 1, m)[i] = s[i]
  BY <1>1
<1>3. CASE n <= Len(s)
  <2>1. n \in 0..Len(s) /\ Min({n, Len(s)}) = n
    BY <1>1, <1>3, MinOfTwo
  <2>2. First(n, s) = SubSeq(s, 1, n)
    BY <2>1 DEF First
  <2> QED
    BY <1>1, <1>2, <1>3, <2>1, <2>2
<1>4. CASE ~(n <= Len(s))
  <2>1. Len(s) \in 0..Len(s) /\ Len(s) <= n
    BY <1>1, <1>4
  <2>2. Min({n, Len(s)}) = Len(s)
    BY <1>1, <2>1, MinOfTwo
  <2>3. First(n, s) = SubSeq(s, 1, Len(s))
    BY <2>2 DEF First
  <2> QED
    BY <1>1, <1>2, <1>4, <2>1, <2>3
<1> QED
  BY <1>3, <1>4

\* m is the text s, but for whitespace at its end.
Holds(m, s) ==
    /\ m \in Seq(STRING) /\ Len(m) <= Len(s)
    /\ \A i \in 1..Len(m) : m[i] = s[i]
    /\ \A i \in Len(m) + 1..Len(s) : s[i] = Blank

\* data[5:message_length] of what recv().strip() returned (serverTCP.py 27,
\* 40): a sequence of characters, and the text if all of it has come.
LEMMA TextsHoldText ==
    ASSUME asked \in [Clients -> Questions], NEW c \in Clients,
           NEW k \in Nat, k >= 5, NEW m \in Texts(c, k)
    PROVE  /\ m \in Seq(STRING)
           /\ k >= message_length(c) => Holds(m, text(c))
<1> DEFINE s == text(c)
           Ch == STRING
<1>1. s \in Seq(Ch)
  BY QuestionsAssumption DEF text
<1>2. PICK junk \in Unset(k) :
         m = First(Len(s), strip(First(k - 5, s \o junk)))
  BY Zenon DEF Texts
<1>3. junk \in Seq(Ch) /\ Len(junk) = k
  BY UnsetIsText
<1> HIDE DEF s, Ch
<1> DEFINE u == First(k - 5, s \o junk)
           w == strip(u)
<1>4. /\ Len(s) \in Nat /\ k - 5 \in Nat
      /\ s \o junk \in Seq(Ch) /\ Len(s \o junk) = Len(s) + k
      /\ \A i \in 1..Len(s) : (s \o junk)[i] = s[i]
  BY <1>1, <1>3
<1>5. /\ u \in Seq(Ch) /\ Len(u) = k - 5
      /\ \A i \in 1..Len(u) : u[i] = (s \o junk)[i]
  <2> DEFINE v == s \o junk
  <2>1. v \in Seq(Ch) /\ k - 5 <= Len(v)
    BY <1>4
  <2> HIDE DEF v
  <2>2. /\ First(k - 5, v) \in Seq(Ch) /\ Len(First(k - 5, v)) = k - 5
        /\ \A i \in 1..Len(First(k - 5, v)) : First(k - 5, v)[i] = v[i]
    BY <1>4, <2>1, FirstIs
  <2> QED
    BY <2>2 DEF v
<1> HIDE DEF u
<1>6. PICK j \in 0..Len(u) :
         /\ w = SubSeq(u, 1, j)
         /\ \A i \in j + 1..Len(u) : u[i] = Blank
  BY <1>5, StripCuts
<1>7. w \in Seq(Ch) /\ Len(w) = j /\ \A i \in 1..j : w[i] = u[i]
  <2>1. /\ SubSeq(u, 1, j) \in Seq(Ch) /\ Len(SubSeq(u, 1, j)) = j
        /\ \A i \in 1..j : SubSeq(u, 1, j)[i] = u[i]
    BY <1>5
  <2> HIDE DEF w
  <2> QED
    BY <1>6, <2>1, Zenon
<1> HIDE DEF w
<1>8. m = First(Len(s), w)
  BY <1>2, Zenon DEF w, u
<1>9. /\ m \in Seq(Ch)
      /\ Len(s) <= Len(w) => Len(m) = Len(s)
      /\ Len(s) >= Len(w) => Len(m) = Len(w)
      /\ \A i \in 1..Len(m) : m[i] = w[i]
  BY <1>4, <1>7, <1>8, FirstIs
<1>10. ASSUME k >= 5 + Len(s)
       PROVE  Holds(m, s)
  <2>1. Len(u) >= Len(s) /\ Len(m) \in Nat /\ Len(m) <= Len(s) /\ Len(m) <= j
    BY <1>4, <1>5, <1>7, <1>9, <1>10
  <2>2. ASSUME NEW i \in 1..Len(m)
        PROVE  m[i] = s[i]
    <3>1. i \in 1..j /\ i \in 1..Len(u) /\ i \in 1..Len(s)
      <4>1. Len(u) \in Nat /\ Len(s) \in Nat /\ Len(m) <= Len(u)
        <5>1. Len(u) = k - 5 /\ k - 5 \in Nat /\ Len(s) \in Nat
          BY <1>4, <1>5, Zenon
        <5>2. Len(m) \in Nat /\ Len(m) <= j
          BY <2>1, Zenon
        <5> HIDE DEF u
        <5> QED
          BY <5>1, <5>2
      <4>2. Len(m) <= Len(s) /\ Len(m) <= j /\ Len(m) \in Nat
        BY <2>1, Zenon
      <4> QED
        BY <2>2, <4>1, <4>2
    <3>2. m[i] = w[i] /\ w[i] = u[i] /\ u[i] = (s \o junk)[i]
      BY <1>5, <1>7, <1>9, <3>1
    <3>3. (s \o junk)[i] = s[i]
      BY <1>4, <3>1
    <3> QED
      BY <3>2, <3>3
  <2>3. ASSUME NEW i \in Len(m) + 1..Len(s)
        PROVE  s[i] = Blank
    <3>1. Len(m) = j /\ i \in j + 1..Len(u) /\ i \in 1..Len(s) /\ i \in 1..Len(u)
      BY <1>4, <1>7, <1>9, <2>1
    <3>2. u[i] = Blank /\ u[i] = (s \o junk)[i] /\ (s \o junk)[i] = s[i]
      BY <1>4, <1>5, <1>6, <3>1
    <3> QED
      BY <3>2
  <2> QED
    BY <1>9, <2>1, <2>2, <2>3 DEF Holds, Ch
<1> QED
  BY <1>9, <1>10, Zenon DEF message_length, s, Ch

LEMMA NoVowel == ~isaVowel(Blank) /\ Blank \notin Range(vowels)
<1>1. DOMAIN vowels = 1..10
  BY DEF vowels
<1>2. ASSUME NEW i \in 1..10
      PROVE  vowels[i] # Blank
  <2>1. \/ i = 1 \/ i = 2 \/ i = 3 \/ i = 4 \/ i = 5
        \/ i = 6 \/ i = 7 \/ i = 8 \/ i = 9 \/ i = 10
    OBVIOUS
  <2>2. /\ vowels[1] = "a" /\ vowels[2] = "e" /\ vowels[3] = "i"
        /\ vowels[4] = "o" /\ vowels[5] = "u" /\ vowels[6] = "A"
        /\ vowels[7] = "E" /\ vowels[8] = "I" /\ vowels[9] = "O"
        /\ vowels[10] = "U"
    BY DEF vowels
  <2>3. /\ "a" # Blank /\ "e" # Blank /\ "i" # Blank /\ "o" # Blank
        /\ "u" # Blank /\ "A" # Blank /\ "E" # Blank /\ "I" # Blank
        /\ "O" # Blank /\ "U" # Blank
    BY Zenon DEF Blank
  <2> QED
    BY <2>1, <2>2, <2>3, Zenon
<1> QED
  BY <1>1, <1>2 DEF isaVowel, Range

LEMMA WiderSeq ==
    ASSUME NEW S, NEW s \in Seq(S), NEW ch
    PROVE  s \in Seq(S \cup {ch})
<1> DEFINE R == S \cup {ch}
<1>1. \A i \in 1..Len(s) : s[i] \in R
  OBVIOUS
<1>2. s = [i \in 1..Len(s) |-> s[i]] /\ Len(s) \in Nat
  OBVIOUS
<1> HIDE DEF R
<1>3. s \in Seq(R)
  BY <1>1, <1>2
<1> QED
  BY <1>3 DEF R

\* The whitespace at the end of a text comes last in what is left of it.
LEMMA WithoutEnd ==
    ASSUME NEW s \in Seq(STRING), NEW m, Holds(m, s), NEW chars, Blank \notin chars
    PROVE  /\ Len(Without(m, chars)) <= Len(Without(s, chars))
           /\ \A i \in 1..Len(Without(m, chars)) :
                 Without(s, chars)[i] = Without(m, chars)[i]
           /\ \A i \in Len(Without(m, chars)) + 1..Len(Without(s, chars)) :
                 Without(s, chars)[i] = Blank
<1> DEFINE Ch == STRING \cup {Blank}
           f == Rest(s, chars)
           r == Without(m, chars)
           N == Len(s) - Len(m)
           Fits(k) == /\ f[Len(m) + k] \in Seq(Ch)
                      /\ Len(f[Len(m) + k]) = Len(r) + k
                      /\ \A i \in 1..Len(r) : f[Len(m) + k][i] = r[i]
                      /\ \A i \in Len(r) + 1..Len(r) + k : f[Len(m) + k][i] = Blank
           T == {k \in 0..N : Fits(k)}
<1>0. s \in Seq(Ch) /\ m \in Seq(Ch) /\ Blank \in Ch
  <2>1. m \in Seq(STRING)
    BY Zenon DEF Holds
  <2>2. s \in Seq(Ch) /\ m \in Seq(Ch)
    BY <2>1, WiderSeq, Zenon
  <2> QED
    BY <2>2
<1> HIDE DEF Ch, f, r, T, Fits
<1>1. /\ Len(s) \in Nat /\ Len(m) \in Nat /\ N \in Nat /\ Len(m) + N = Len(s)
      /\ \A i \in 1..Len(m) : m[i] = s[i]
      /\ \A i \in Len(m) + 1..Len(s) : s[i] = Blank
  <2>1. /\ Len(m) <= Len(s)
        /\ \A i \in 1..Len(m) : m[i] = s[i]
        /\ \A i \in Len(m) + 1..Len(s) : s[i] = Blank
    BY Zenon DEF Holds
  <2>2. Len(s) \in Nat /\ Len(m) \in Nat
    BY <1>0
  <2>3. N \in Nat /\ Len(m) + N = Len(s)
    BY <2>1, <2>2
  <2> QED
    BY <2>1, <2>2, <2>3, Zenon
<1>2. r \in Seq(Ch) /\ Len(r) \in Nat
  <2>1. r \in Seq(Ch)
    BY <1>0, RestType DEF r
  <2> QED
    BY <2>1
<1>3. f[Len(m)] = r
  <2>1. \A k \in 0..Len(m) : Rest(m, chars)[k] = Rest(s, chars)[k]
    <3>1. Len(m) <= Len(m) /\ Len(m) <= Len(s)
      BY <1>1
    <3> QED
      BY <1>0, <1>1, <3>1, RestOfPart
  <2>2. r = Rest(m, chars)[Len(m)]
    BY <1>0, RestSteps DEF r
  <2>3. Len(m) \in 0..Len(m)
    BY <1>1
  <2> QED
    BY <2>1, <2>2, <2>3, Zenon DEF f
<1>4. /\ Without(s, chars) = f[Len(s)]
      /\ \A k \in 1..Len(s) :
            f[k] = IF s[k] \in chars THEN f[k - 1] ELSE Append(f[k - 1], s[k])
  BY <1>0, RestSteps DEF f
<1> HIDE DEF N
<1>5. Fits(0)
  <2>1. Len(m) + 0 = Len(m) /\ Len(r) + 0 = Len(r)
    BY <1>1, <1>2
  <2>2. \A i \in Len(r) + 1..Len(r) + 0 : FALSE
    BY <1>2
  <2> QED
    BY <1>2, <1>3, <2>1, <2>2 DEF Fits
<1>6. 0 \in T
  BY <1>1, <1>5 DEF T
<1>7. ASSUME NEW n \in 1..N, n - 1 \in T
      PROVE  n \in T
  <2> DEFINE g == f[Len(m) + (n - 1)]
             h == f[Len(m) + n]
  <2>1. /\ g \in Seq(Ch) /\ Len(g) = Len(r) + (n - 1)
        /\ \A i \in 1..Len(r) : g[i] = r[i]
        /\ \A i \in Len(r) + 1..Len(r) + (n - 1) : g[i] = Blank
    BY <1>7 DEF T, Fits
  <2>2. h = Append(g, Blank)
    <3>1. /\ Len(m) + n \in 1..Len(s) /\ Len(m) + n - 1 = Len(m) + (n - 1)
          /\ Len(m) + n \in Len(m) + 1..Len(s)
      BY <1>1
    <3>2. s[Len(m) + n] = Blank
      BY <1>1, <3>1
    <3>3. ASSUME NEW k \in 1..Len(s), NEW i, i = k - 1, s[k] = Blank
          PROVE  f[k] = Append(f[i], Blank)
      BY <1>4, <3>3
    <3> DEFINE k == Len(m) + n
               i == Len(m) + (n - 1)
    <3>4. k \in 1..Len(s) /\ i = k - 1 /\ s[k] = Blank
      BY <1>1, <3>1, <3>2
    <3> HIDE DEF k, i
    <3>5. f[k] = Append(f[i], Blank)
      BY <3>3, <3>4, Zenon
    <3> QED
      BY <3>5, Zenon DEF k, i
  <2> HIDE DEF g, h
  <2>3. /\ h \in Seq(Ch) /\ Len(h) = Len(r) + n
        /\ \A i \in 1..Len(g) : h[i] = g[i]
        /\ h[Len(r) + n] = Blank
    BY <1>0, <1>2, <2>1, <2>2
  <2>4. \A i \in 1..Len(r) : h[i] = r[i]
    BY <1>2, <2>1, <2>3
  <2>5. ASSUME NEW i \in Len(r) + 1..Len(r) + n
        PROVE  h[i] = Blank
    <3>1. CASE i = Len(r) + n
      BY <2>3, <3>1
    <3>2. CASE i # Len(r) + n
      <4>1. i \in Len(r) + 1..Len(r) + (n - 1) /\ i \in 1..Len(g)
        <5>1. Len(g) = Len(r) + (n - 1) /\ Len(r) \in Nat
          BY <1>2, <2>1, Zenon
        <5>2. n \in Nat /\ N \in Nat
          BY <1>1
        <5> QED
          BY <2>5, <3>2, <5>1, <5>2
      <4> QED
        BY <2>1, <2>3, <4>1
    <3> QED
      BY <3>1, <3>2
  <2>6. Fits(n)
    BY <2>3, <2>4, <2>5 DEF h, Fits
  <2> QED
    BY <1>1, <2>6 DEF T
<1>8. Fits(N)
  <2>1. 0..N \subseteq T
    BY <1>1, <1>6, <1>7, Induction
  <2>2. N \in T
    BY <1>1, <2>1
  <2> QED
    BY <2>2 DEF T
<1> DEFINE t == Without(s, chars)
<1>9. t = f[Len(m) + N]
  BY <1>1, <1>4, Zenon
<1> HIDE DEF t
<1>10. /\ Len(t) = Len(r) + N
       /\ \A i \in 1..Len(r) : t[i] = r[i]
       /\ \A i \in Len(r) + 1..Len(r) + N : t[i] = Blank
  BY <1>8, <1>9 DEF Fits
<1>11. /\ Len(r) <= Len(t)
       /\ \A i \in 1..Len(r) : t[i] = r[i]
       /\ \A i \in Len(r) + 1..Len(t) : t[i] = Blank
  BY <1>1, <1>2, <1>10
<1> QED
  BY <1>11 DEF t, r

\* The text that is sent begins with the right one, but for whitespace at its
\* end, and so does whatever follows it.
LEMMA AnswerBeginsRight ==
    ASSUME NEW s \in Seq(STRING), NEW m, Holds(m, s), NEW junk \in Seq(STRING)
    PROVE  /\ IsPrefix(strip(disemVoweling(s)), disemvowel(m))
           /\ IsPrefix(strip(disemVoweling(s)), disemvowel(m) \o junk)
<1> DEFINE Ch == STRING
           t == disemVoweling(s)
           r == disemVoweling(m)
<1>1. disemvowel(m) = r
  BY DisemvowelIsDisemVoweling DEF Holds
<1>2. t \in Seq(Ch) /\ r \in Seq(Ch) /\ junk \in Seq(Ch)
  <2>1. s \in Seq(Ch) /\ m \in Seq(Ch)
    BY DEF Holds
  <2> HIDE DEF Ch
  <2>2. t \in Seq(Ch) /\ r \in Seq(Ch)
    BY <2>1, RestType DEF disemVoweling
  <2> QED
    BY <2>2 DEF Ch
<1>3. /\ Len(r) <= Len(t)
      /\ \A i \in 1..Len(r) : t[i] = r[i]
      /\ \A i \in Len(r) + 1..Len(t) : t[i] = Blank
  <2> DEFINE V == Range(vowels)
  <2>1. Blank \notin V
    BY NoVowel
  <2> HIDE DEF V
  <2>2. /\ Len(Without(m, V)) <= Len(Without(s, V))
        /\ \A i \in 1..Len(Without(m, V)) : Without(s, V)[i] = Without(m, V)[i]
        /\ \A i \in Len(Without(m, V)) + 1..Len(Without(s, V)) :
              Without(s, V)[i] = Blank
    BY <2>1, WithoutEnd
  <2> QED
    BY <2>2, Zenon DEF disemVoweling, V
<1> HIDE DEF Ch, t, r
<1>4. PICK j \in 0..Len(t) : strip(t) = SubSeq(t, 1, j) /\ (j # 0 => t[j] # Blank)
  BY <1>2, StripCuts
<1>5. Len(r) \in Nat /\ Len(t) \in Nat /\ Len(junk) \in Nat
  BY <1>2
<1>6. j <= Len(r)
  <2>1. j \notin Len(r) + 1..Len(t)
    BY <1>3, <1>4, <1>5
  <2> QED
    BY <1>4, <1>5, <2>1
<1> DEFINE p == strip(t)
<1>7. p \in Seq(Ch) /\ Len(p) = j /\ \A i \in 1..j : p[i] = t[i]
  BY <1>2, <1>4
<1> HIDE DEF p
<1>8. ASSUME NEW v \in Seq(Ch), j <= Len(v), \A i \in 1..j : v[i] = t[i]
      PROVE  IsPrefix(p, v)
  <2>1. SubSeq(v, 1, j) = SubSeq(p, 1, j)
    <3>1. /\ SubSeq(v, 1, j) \in Seq(Ch) /\ Len(SubSeq(v, 1, j)) = j
          /\ \A i \in 1..j : SubSeq(v, 1, j)[i] = v[i]
      BY <1>4, <1>5, <1>8
    <3>2. /\ SubSeq(p, 1, j) \in Seq(Ch) /\ Len(SubSeq(p, 1, j)) = j
          /\ \A i \in 1..j : SubSeq(p, 1, j)[i] = p[i]
      BY <1>4, <1>5, <1>7
    <3> QED
      BY <1>7, <1>8, <3>1, <3>2
  <2> QED
    BY <1>7, <1>8, <2>1 DEF IsPrefix
<1>9. \A i \in 1..j : r[i] = t[i]
  BY <1>3, <1>4, <1>5, <1>6
<1>10. IsPrefix(p, r)
  BY <1>2, <1>6, <1>8, <1>9
<1>11. /\ r \o junk \in Seq(Ch) /\ j <= Len(r \o junk)
       /\ \A i \in 1..j : (r \o junk)[i] = t[i]
  BY <1>2, <1>4, <1>5, <1>6, <1>9
<1>12. IsPrefix(p, r \o junk)
  BY <1>8, <1>11, Zenon
<1> QED
  BY <1>1, <1>10, <1>12 DEF p, t

-----------------------------------------------------------------------------
(* Types.                                                                  *)

\* What may be sent to a client, and shown by it.
IsAnswer(c, answer) ==
    IF op(c) = "vLength" THEN answer \in Nat ELSE answer \in Seq(STRING)

LEMMA NumberIsNat ==
    ASSUME NEW s \in Seq(STRING)
    PROVE  vowelNumber(s) \in Nat /\ get_vowel_count(s) \in Nat
<1>1. Len(s) <= Len(s) /\ \A k \in Len(s) + 1..Len(s) : ~isaVowel(s[k])
  OBVIOUS
<1> QED
  BY <1>1, CountIsNumber

LEMMA BytesAreNat ==
    ASSUME NEW n \in Nat
    PROVE  /\ Hi(n) \in Nat /\ Lo(n) \in 0..ByteSize - 1
           /\ signed_char(Lo(n)) \in Int /\ signed_char(Lo(n)) >= 0 - ByteSize
           /\ signed_char(Hi(n)) \in Int
<1>1. ByteSize \in Nat \ {0} /\ ByteSize \div 2 \in Nat
  BY ByteAssumption
<1>2. n \div ByteSize \in Nat /\ n % ByteSize \in 0..ByteSize - 1
  BY <1>1
<1> QED
  BY <1>1, <1>2 DEF Hi, Lo, signed_char

\* What the UDP server puts in its buffer is a sequence of characters, as
\* long as the length it has read is not negative.
LEMMA BufferIsText ==
    ASSUME asked \in [Clients -> Questions], NEW c \in Clients,
           ~(packetLength(c) < 5), NEW b \in buffer(c)
    PROVE  b \in Seq(STRING)
<1> DEFINE s == text(c)
           Ch == STRING
           cut == First(BUFSIZE - 5, s)
<1>1. s \in Seq(Ch)
  BY QuestionsAssumption DEF text
<1>2. PICK junk \in Unset(Len(s)) : b = First(packetLength(c) - 5, cut \o junk)
  BY DEF buffer
<1>3. junk \in Seq(Ch)
  <2>1. Len(s) \in Nat
    BY <1>1
  <2> QED
    BY <2>1, UnsetIsText
<1> HIDE DEF s, Ch
<1>4. cut \in Seq(Ch)
  <2>1. BUFSIZE - 5 \in Nat
    BY UDPAssumption
  <2> QED
    BY <1>1, <2>1, FirstIs
<1> HIDE DEF cut
<1>5. cut \o junk \in Seq(Ch)
  BY <1>3, <1>4
<1>6. packetLength(c) - 5 \in Nat
  <2>1. message_length(c) \in Nat
    BY <1>1 DEF message_length, s
  <2>2. signed_char(Hi(message_length(c))) \in Int /\ signed_char(Lo(message_length(c))) \in Int
    BY <2>1, BytesAreNat
  <2>3. packetLength(c) \in Int
    BY <2>2, ByteAssumption DEF packetLength
  <2> QED
    BY <2>3
<1>7. First(packetLength(c) - 5, cut \o junk) \in Seq(Ch)
  <2> DEFINE v == cut \o junk
  <2>1. v \in Seq(Ch)
    BY <1>5
  <2> HIDE DEF v
  <2>2. First(packetLength(c) - 5, v) \in Seq(Ch)
    BY <1>6, <2>1, FirstIs
  <2> QED
    BY <2>2 DEF v
<1> QED
  BY <1>2, <1>7, Zenon DEF Ch, cut

LEMMA PrintedIsAnswer ==
    ASSUME NEW count \in Nat
    PROVE  /\ PrintedCount(count) \in Nat
           /\ Lo(count) < ByteSize \div 2 => PrintedCount(count) = count
<1>1. ByteSize \in Nat \ {0} /\ ByteSize \div 2 \in Nat
  BY ByteAssumption
<1>2. ByteSize * ByteSize \in Nat /\ ByteSize * ByteSize >= ByteSize
  BY <1>1
<1>3. Lo(count) \in Nat /\ signed_char(Lo(count)) \in Int
      /\ signed_char(Lo(count)) >= 0 - ByteSize
  BY BytesAreNat
<1>4. ByteSize * ByteSize + signed_char(Lo(count)) \in Nat
  <2> DEFINE z == ByteSize * ByteSize
             x == signed_char(Lo(count))
  <2>1. z \in Nat /\ z >= ByteSize /\ x \in Int /\ x >= 0 - ByteSize
    BY <1>2, <1>3
  <2> HIDE DEF z, x
  <2>2. z + x \in Nat
    BY <1>1, <2>1
  <2> QED
    BY <2>2 DEF z, x
<1>5. Lo(count) < ByteSize \div 2 => ~(signed_char(Lo(count)) < 0)
  BY <1>1, <1>3 DEF signed_char
<1> QED
  BY <1>4, <1>5 DEF PrintedCount

LEMMA PrintedIsText ==
    ASSUME NEW message \in Seq(STRING), NEW m \in PrintedText(message)
    PROVE  m \in Seq(STRING)
<1>1. CASE m = message
  BY <1>1
<1>2. CASE m # message
  <2>1. PICK junk \in Unset(1) : m = message \o junk
    BY <1>2, Zenon DEF PrintedText
  <2>2. junk \in Seq(STRING)
    BY UnsetIsText
  <2> DEFINE Ch == STRING
  <2>3. message \in Seq(Ch) /\ junk \in Seq(Ch)
    BY <2>2
  <2> HIDE DEF Ch
  <2>4. message \o junk \in Seq(Ch)
    BY <2>3
  <2> QED
    BY <2>1, <2>4, Zenon DEF Ch
<1> QED
  BY <1>1, <1>2

LEMMA StripIsText ==
    ASSUME NEW s \in Seq(STRING)
    PROVE  strip(s) \in Seq(STRING)
<1> DEFINE Ch == STRING
<1>1. s \in Seq(Ch)
  OBVIOUS
<1> HIDE DEF Ch
<1>2. PICK j \in 0..Len(s) : strip(s) = SubSeq(s, 1, j)
  BY <1>1, StripCuts
<1>3. strip(s) \in Seq(Ch)
  BY <1>1, <1>2
<1> QED
  BY <1>3 DEF Ch

LEMMA WithoutIsText ==
    ASSUME NEW s \in Seq(STRING)
    PROVE  disemVoweling(s) \in Seq(STRING) /\ disemvowel(s) \in Seq(STRING)
<1> DEFINE Ch == STRING
<1>1. s \in Seq(Ch)
  OBVIOUS
<1> HIDE DEF Ch
<1>2. disemvowel(s) = disemVoweling(s)
  BY <1>1, DisemvowelIsDisemVoweling
<1>3. disemVoweling(s) \in Seq(Ch)
  BY <1>1, RestType DEF disemVoweling
<1> QED
  BY <1>2, <1>3 DEF Ch

LEMMA AskedStays == ASSUME [Next]_vars PROVE asked' = asked
<1>1. CASE UdpNext
  BY <1>1 DEF UdpNext, UdpServe, Fall, CountVowels, Disemvowel, Ignore,
              SendDatagram, GetResponse, Refused, Duplicate, clientVars
<1>2. CASE TcpNext
  BY <1>2 DEF TcpNext, Accept, TcpServe, TcpClientStep, Interrupt, Connect,
              SendMessage, ReceiveReply, ReceiveNothing, clientVars
<1>3. CASE UNCHANGED vars
  BY <1>3 DEF vars, clientVars
<1> QED
  BY <1>1, <1>2, <1>3 DEF Next

\* Where a client may be.
Places == {"start", "send", "recv", "done", "died", "killed", "misled"}

LEMMA PlacesStay ==
    ASSUME pc \in [Clients -> Places], [Next]_vars
    PROVE  pc' \in [Clients -> Places]
<1>1. CASE \E c, p : p \in Places /\ pc' = [pc EXCEPT ![c] = p]
  BY <1>1
<1>2. {"start", "send", "recv", "done", "died", "killed", "misled"} \subseteq Places
  BY DEF Places
<1> HIDE DEF Places
<1>3. ASSUME NEW c, NEW answer, Show(c, answer)
      PROVE  \E d, p : p \in Places /\ pc' = [pc EXCEPT ![d] = p]
  BY <1>2, <1>3, Zenon DEF Show
<1>4. CASE UdpNext
  <2>1. PICK c \in Clients :
           UdpServe(c) \/ SendDatagram(c) \/ GetResponse(c) \/ Refused(c) \/ Duplicate(c)
    BY <1>4 DEF UdpNext
  <2>2. CASE UdpServe(c) \/ Duplicate(c)
    <3>1. pc' = pc
      BY <2>2 DEF UdpServe, Fall, CountVowels, Disemvowel, Ignore, Duplicate, clientVars
    <3> QED
      BY <3>1
  <2>3. CASE SendDatagram(c) \/ Refused(c)
    BY <1>1, <1>2, <2>3, Zenon DEF SendDatagram, Refused
  <2>4. CASE GetResponse(c)
    <3>1. PICK answer \in reply[c] : ReadCount(c, answer) \/ ReadText(c, answer)
      BY <2>4 DEF GetResponse
    <3> QED
      BY <1>1, <1>2, <1>3, <3>1, Zenon DEF ReadCount, ReadText
  <2> QED
    BY <2>1, <2>2, <2>3, <2>4
<1>5. CASE TcpNext
  <2>1. CASE Accept \/ TcpServe
    BY <2>1 DEF Accept, TcpServe, clientVars
  <2>2. ASSUME NEW c \in Clients, TcpClientStep(c) \/ Interrupt(c)
        PROVE  \E d, p : p \in Places /\ pc' = [pc EXCEPT ![d] = p]
    <3>1. CASE ReceiveReply(c)
      BY <1>3, <3>1, Zenon DEF ReceiveReply
    <3>2. CASE Connect(c) \/ SendMessage(c) \/ ReceiveNothing(c) \/ Interrupt(c)
      BY <1>2, <3>2, Zenon DEF Connect, SendMessage, ReceiveNothing, Interrupt
    <3> QED
      BY <2>2, <3>1, <3>2, Zenon DEF TcpClientStep
  <2> QED
    BY <1>1, <1>5, <2>1, <2>2, Zenon DEF TcpNext
<1>6. CASE UNCHANGED vars
  BY <1>6 DEF vars, clientVars
<1> QED
  BY <1>4, <1>5, <1>6, Zenon DEF Next

\* Every answer that was sent or shown is one.
AnswersTyped == \A c \in Clients : \A answer \in reply[c] \cup shown[c] : IsAnswer(c, answer)

\* One more reply, or one more thing that is shown.
LEMMA OneAnswerMore ==
    ASSUME ClientFunctions, AnswersTyped, asked' = asked, NEW c,
           \/ UNCHANGED <<reply, shown>>
           \/ \E answer : IsAnswer(c, answer) /\ Reply(c, answer) /\ UNCHANGED shown
           \/ \E answer : IsAnswer(c, answer) /\ Show(c, answer) /\ UNCHANGED reply
    PROVE  AnswersTyped'
<1>1. /\ reply = [d \in Clients |-> reply[d]] /\ shown = [d \in Clients |-> shown[d]]
      /\ \A d, a : IsAnswer(d, a)' <=> IsAnswer(d, a)
  BY DEF ClientFunctions, IsAnswer, op
<1>2. CASE UNCHANGED <<reply, shown>>
  BY <1>1, <1>2 DEF AnswersTyped
<1>3. ASSUME NEW answer, IsAnswer(c, answer), Reply(c, answer), UNCHANGED shown
      PROVE  AnswersTyped'
  <2>1. \A d \in Clients : reply'[d] = reply[d] \/ (d = c /\ reply'[d] = reply[d] \cup {answer})
    BY <1>1, <1>3 DEF Reply
  <2> QED
    BY <1>1, <1>3, <2>1 DEF AnswersTyped
<1>4. ASSUME NEW answer, IsAnswer(c, answer), Show(c, answer), UNCHANGED reply
      PROVE  AnswersTyped'
  <2>1. \A d \in Clients : shown'[d] = shown[d] \/ (d = c /\ shown'[d] = {answer})
    BY <1>1, <1>4 DEF Show
  <2> QED
    BY <1>1, <1>4, <2>1 DEF AnswersTyped
<1> QED
  BY <1>2, <1>3, <1>4, Zenon

LEMMA UdpAnswersTyped ==
    ASSUME ClientFunctions, AnswersTyped, UdpNext, asked' = asked
    PROVE  AnswersTyped'
<1>1. PICK c \in Clients :
         UdpServe(c) \/ SendDatagram(c) \/ GetResponse(c) \/ Refused(c) \/ Duplicate(c)
  BY DEF UdpNext
<1>2. asked \in [Clients -> Questions]
  BY DEF ClientFunctions
<1>3. CASE SendDatagram(c) \/ Refused(c) \/ Duplicate(c)
  <2>1. UNCHANGED <<reply, shown>>
    BY <1>3 DEF SendDatagram, Refused, Duplicate, clientVars
  <2> QED
    BY <2>1, OneAnswerMore
<1>4. CASE GetResponse(c)
  <2>1. PICK answer \in reply[c] : ReadCount(c, answer) \/ ReadText(c, answer)
    BY <1>4 DEF GetResponse
  <2>2. IsAnswer(c, answer) /\ reply' = reply
    BY <1>4, <2>1 DEF AnswersTyped, GetResponse
  <2>3. CASE ReadCount(c, answer)
    BY <2>2, <2>3, OneAnswerMore DEF ReadCount
  <2>4. CASE ReadText(c, answer)
    <3>1. op(c) = "disemvowel" /\ Show(c, strip(answer))
      BY <2>4 DEF ReadText
    <3>2. IsAnswer(c, strip(answer))
      BY <2>2, <3>1, StripIsText DEF IsAnswer
    <3> QED
      BY <2>2, <3>1, <3>2, OneAnswerMore, Zenon
  <2> QED
    BY <2>1, <2>3, <2>4
<1>5. CASE UdpServe(c)
  <2>1. CASE Fall(c) \/ Ignore(c)
    <3>1. UNCHANGED <<reply, shown>>
      BY <2>1 DEF Fall, Ignore, clientVars
    <3> QED
      BY <3>1, OneAnswerMore
  <2>2. CASE ~BadLength(c) /\ CountVowels(c)
    <3>1. PICK b \in buffer(c) : Reply(c, vowelNumber(b))
      BY <2>2 DEF CountVowels
    <3>2. op(c) = "vLength" /\ shown' = shown
      BY <2>2 DEF CountVowels
    <3>3. b \in Seq(STRING)
      BY <1>2, <2>2, <3>2, BufferIsText DEF BadLength
    <3>4. IsAnswer(c, vowelNumber(b))
      BY <3>2, <3>3, NumberIsNat DEF IsAnswer
    <3> QED
      BY <3>1, <3>2, <3>4, OneAnswerMore, Zenon
  <2>3. CASE ~BadLength(c) /\ Disemvowel(c)
    <3>1. PICK b \in buffer(c) : Reply(c, disemVoweling(b))
      BY <2>3 DEF Disemvowel
    <3>2. op(c) = "disemvowel" /\ shown' = shown
      BY <2>3 DEF Disemvowel
    <3>3. b \in Seq(STRING)
      BY <1>2, <2>3, <3>2, BufferIsText DEF BadLength
    <3>4. IsAnswer(c, disemVoweling(b))
      BY <3>2, <3>3, WithoutIsText DEF IsAnswer
    <3> QED
      BY <3>1, <3>2, <3>4, OneAnswerMore, Zenon
  <2> QED
    BY <1>5, <2>1, <2>2, <2>3 DEF UdpServe
<1> QED
  BY <1>1, <1>3, <1>4, <1>5

\* The number of bytes that one recv() returns.
LEMMA BytesRead ==
    ASSUME asked \in [Clients -> Questions], NEW c \in Clients,
           NEW k \in {RecvMax} \cup Segments
    PROVE  Min({k, SendLength(c)}) \in Nat
<1>1. text(c) \in Seq(STRING)
  BY QuestionsAssumption DEF text
<1>2. message_length(c) \in Nat
  BY <1>1 DEF message_length
<1>3. ByteSize \in Nat
  BY ByteAssumption
<1>4. Hi(message_length(c)) \in Nat /\ Lo(message_length(c)) \in Nat
  BY <1>2, <1>3, BytesAreNat
<1>5. SendLength(c) \in Nat
  BY <1>3, <1>4 DEF SendLength
<1>6. k \in Nat
  BY TCPAssumption
<1>7. CASE k <= SendLength(c)
  BY <1>5, <1>6, <1>7, MinOfTwo
<1>8. CASE ~(k <= SendLength(c))
  <2>1. SendLength(c) <= k
    BY <1>5, <1>6, <1>8
  <2> QED
    BY <1>5, <1>6, <2>1, MinOfTwo
<1> QED
  BY <1>7, <1>8

LEMMA TcpAnswersTyped ==
    ASSUME ClientFunctions, AnswersTyped, serving \subseteq Clients, TcpNext,
           asked' = asked
    PROVE  AnswersTyped'
<1>1. asked \in [Clients -> Questions]
  BY DEF ClientFunctions
<1>2. CASE Accept
  <2>1. UNCHANGED <<reply, shown>>
    BY <1>2 DEF Accept, clientVars
  <2> QED
    BY <2>1, OneAnswerMore
<1>3. CASE TcpServe
  <2>1. PICK c \in serving : Serve(c) \/ HangUp(c)
    BY <1>3 DEF TcpServe
  <2>2. c \in Clients /\ shown' = shown
    BY <1>3 DEF TcpServe
  <2>3. CASE HangUp(c)
    BY <2>2, <2>3, OneAnswerMore DEF HangUp
  <2>4. CASE Serve(c)
    <3>1. PICK k \in {RecvMax} \cup Segments :
             LET n == Min({k, SendLength(c)})
             IN  IF n < 5 THEN UNCHANGED reply
                 ELSE \E message \in Texts(c, n) : process_data(c, message)
      BY <2>4, Zenon DEF Serve
    <3> DEFINE n == Min({k, SendLength(c)})
    <3>2. n \in Nat
      BY <1>1, <2>2, BytesRead
    <3> HIDE DEF n
    <3>3. CASE UNCHANGED reply
      BY <2>2, <3>3, OneAnswerMore
    <3>4. ASSUME ~(n < 5), NEW message \in Texts(c, n), process_data(c, message)
          PROVE  UNCHANGED reply \/ \E a : IsAnswer(c, a) /\ Reply(c, a)
      <4>1. message \in Seq(STRING)
        BY <1>1, <2>2, <3>2, <3>4, TextsHoldText
      <4>2. /\ get_vowel_count(message) \in Nat
            /\ disemvowel(message) \in Seq(STRING)
        BY <4>1, NumberIsNat, WithoutIsText
      <4> QED
        BY <3>4, <4>2 DEF process_data, IsAnswer
    <3>5. UNCHANGED reply \/ \E a : IsAnswer(c, a) /\ Reply(c, a)
      BY <3>1, <3>4, Zenon DEF n
    <3> QED
      BY <2>2, <3>3, <3>5, OneAnswerMore, Zenon
  <2> QED
    BY <2>1, <2>3, <2>4
<1>4. ASSUME NEW c \in Clients, TcpClientStep(c) \/ Interrupt(c)
      PROVE  AnswersTyped'
  <2>1. CASE Connect(c) \/ SendMessage(c) \/ ReceiveNothing(c) \/ Interrupt(c)
    <3>1. UNCHANGED <<reply, shown>>
      BY <2>1 DEF Connect, SendMessage, ReceiveNothing, Interrupt
    <3> QED
      BY <3>1, OneAnswerMore
  <2>2. CASE ReceiveReply(c)
    <3>1. PICK answer \in reply[c] :
             \/ op(c) = "vLength" /\ Show(c, PrintedCount(answer))
             \/ op(c) = "disemvowel" /\ \E m \in PrintedText(answer) : Show(c, m)
      BY <2>2, Zenon DEF ReceiveReply
    <3>2. IsAnswer(c, answer) /\ reply' = reply
      BY <2>2 DEF AnswersTyped, ReceiveReply
    <3>3. CASE op(c) = "vLength" /\ Show(c, PrintedCount(answer))
      <4>1. IsAnswer(c, PrintedCount(answer))
        BY <3>2, <3>3, PrintedIsAnswer DEF IsAnswer
      <4> QED
        BY <3>2, <3>3, <4>1, OneAnswerMore, Zenon
    <3>4. CASE op(c) = "disemvowel" /\ \E m \in PrintedText(answer) : Show(c, m)
      <4>1. PICK m \in PrintedText(answer) : Show(c, m)
        BY <3>4
      <4>2. answer \in Seq(STRING)
        BY <3>2, <3>4 DEF IsAnswer
      <4>3. m \in Seq(STRING)
        BY <4>1, <4>2, PrintedIsText
      <4>4. IsAnswer(c, m)
        BY <3>4, <4>3 DEF IsAnswer
      <4> QED
        BY <3>2, <4>1, <4>4, OneAnswerMore, Zenon
    <3> QED
      BY <3>1, <3>3, <3>4
  <2> QED
    BY <1>4, <2>1, <2>2 DEF TcpClientStep
<1> QED
  BY <1>2, <1>3, <1>4 DEF TcpNext

\* One copy of a request, and one more for each that the network makes.
RequestsBounded == \A c \in Clients : request[c] <= duplicates + 1

LEMMA UdpTypesStay ==
    ASSUME UdpTypeOK, RequestsBounded, [Next]_vars
    PROVE  UdpTypeOK' /\ RequestsBounded'
<1>1. /\ MaxDuplicates \in Nat
      /\ request \in [Clients -> 0..MaxDuplicates + 1] /\ duplicates \in 0..MaxDuplicates
      /\ up \in BOOLEAN /\ heap \in {"sound", "overrun"}
      /\ \A c \in Clients : request[c] <= duplicates + 1
  BY UDPAssumption DEF UdpTypeOK, RequestsBounded
<1>2. CASE UNCHANGED udpVars
  BY <1>1, <1>2 DEF udpVars, UdpTypeOK, RequestsBounded
<1>3. ASSUME NEW c \in Clients, UdpServe(c)
      PROVE  UdpTypeOK' /\ RequestsBounded'
  <2>1. /\ request[c] > 0 /\ request' = [request EXCEPT ![c] = @ - 1]
        /\ duplicates' = duplicates
    BY <1>3 DEF UdpServe, Fall, CountVowels, Disemvowel, Ignore
  <2>2. up' \in BOOLEAN /\ heap' \in {"sound", "overrun"}
    BY <1>1, <1>3 DEF UdpServe, Fall, CountVowels, Disemvowel, Ignore
  <2>3. request' \in [Clients -> 0..MaxDuplicates + 1]
    BY <1>1, <2>1
  <2>4. \A d \in Clients : request'[d] <= duplicates' + 1
    BY <1>1, <2>1
  <2> QED
    BY <1>1, <2>1, <2>2, <2>3, <2>4 DEF UdpTypeOK, RequestsBounded
<1>4. ASSUME NEW c \in Clients, SendDatagram(c) \/ Refused(c) \/ Duplicate(c)
      PROVE  UdpTypeOK' /\ RequestsBounded'
  <2>1. up' = up /\ heap' = heap
    BY <1>4 DEF SendDatagram, Refused, Duplicate
  <2>2. \/ request' = [request EXCEPT ![c] = 1] /\ duplicates' = duplicates
        \/ /\ request[c] > 0 /\ request' = [request EXCEPT ![c] = @ - 1]
           /\ duplicates' = duplicates
        \/ /\ duplicates < MaxDuplicates /\ request' = [request EXCEPT ![c] = @ + 1]
           /\ duplicates' = duplicates + 1
    BY <1>4, Zenon DEF SendDatagram, Refused, Duplicate
  <2>3. /\ request' \in [Clients -> 0..MaxDuplicates + 1]
        /\ duplicates' \in 0..MaxDuplicates
        /\ \A d \in Clients : request'[d] <= duplicates' + 1
    BY <1>1, <2>2
  <2> QED
    BY <1>1, <2>1, <2>3 DEF UdpTypeOK, RequestsBounded
<1>5. ASSUME NEW c \in Clients, GetResponse(c)
      PROVE  UNCHANGED udpVars
  BY <1>5 DEF GetResponse
<1>6. CASE UdpNext
  BY <1>2, <1>3, <1>4, <1>5, <1>6, Zenon DEF UdpNext
<1> QED
  BY <1>2, <1>6, Zenon DEF Next, vars

\* The connections that are open or wait to be.
TcpTypes ==
    /\ backlog \in Seq(TCP) /\ Len(backlog) <= Backlog + 1
    /\ serving \subseteq TCP
    /\ serving = {} \/ \E c : serving = {c}
    /\ heard \in [Clients -> Nat]

LEMMA TcpTypesAre == TcpTypes => TcpTypeOK
<1>1. ASSUME NEW c
      PROVE  Cardinality({c}) <= 1
  <2>1. Cardinality({c}) = 1
    BY FS_Singleton, Zenon
  <2> QED
    BY <2>1
<1>2. Cardinality({}) <= 1
  BY FS_EmptySet
<1> QED
  BY <1>1, <1>2 DEF TcpTypes, TcpTypeOK

LEMMA TcpTypesStay ==
    ASSUME TcpTypes, asked \in [Clients -> Questions], [Next]_vars
    PROVE  TcpTypes'
<1>1. TCP' = TCP /\ TCP \subseteq Clients
  BY AskedStays DEF TCP
<1>2. CASE UNCHANGED tcpVars
  BY <1>1, <1>2 DEF tcpVars, TcpTypes
<1>3. Backlog \in Nat /\ Len(backlog) \in Nat
  BY TCPAssumption DEF TcpTypes
<1>4. CASE Accept
  <2>1. /\ backlog # <<>> /\ serving' = {Head(backlog)} /\ backlog' = Tail(backlog)
        /\ heard' = heard
    BY <1>4 DEF Accept
  <2>2. /\ Head(backlog) \in TCP /\ Tail(backlog) \in Seq(TCP)
        /\ Len(Tail(backlog)) <= Backlog + 1
    BY <1>3, <2>1 DEF TcpTypes
  <2>3. /\ backlog' \in Seq(TCP') /\ Len(backlog') <= Backlog + 1
        /\ serving' \subseteq TCP' /\ \E c : serving' = {c}
    BY <1>1, <2>1, <2>2
  <2> QED
    BY <2>1, <2>3 DEF TcpTypes
<1>5. CASE TcpServe
  <2>1. PICK c \in serving : Serve(c) \/ HangUp(c)
    BY <1>5 DEF TcpServe
  <2>2. c \in Clients /\ backlog' = backlog
    BY <1>1, <1>5 DEF TcpServe, TcpTypes
  <2>3. serving' = {} /\ (heard' = heard \/ \E n \in Nat : heard' = [heard EXCEPT ![c] = n])
    <3>1. CASE HangUp(c)
      BY <3>1 DEF HangUp
    <3>2. CASE Serve(c)
      <4>1. PICK k \in {RecvMax} \cup Segments :
               heard' = [heard EXCEPT ![c] = Min({k, SendLength(c)})]
        BY <3>2, Zenon DEF Serve
      <4>2. Min({k, SendLength(c)}) \in Nat
        BY <2>2, BytesRead
      <4>3. serving' = {}
        BY <3>2, Zenon DEF Serve
      <4> QED
        BY <4>1, <4>2, <4>3, Zenon
    <3> QED
      BY <2>1, <3>1, <3>2
  <2>4. heard' \in [Clients -> Nat]
    BY <2>3 DEF TcpTypes
  <2> QED
    BY <1>1, <2>2, <2>3, <2>4 DEF TcpTypes
<1>6. ASSUME NEW c \in Clients, TcpClientStep(c) \/ Interrupt(c)
      PROVE  TcpTypes'
  <2>1. CASE Connect(c)
    <3>1. /\ c \in TCP /\ Len(backlog) <= Backlog /\ backlog' = Append(backlog, c)
          /\ serving' = serving /\ heard' = heard
      BY <2>1 DEF Connect
    <3>2. Append(backlog, c) \in Seq(TCP) /\ Len(Append(backlog, c)) <= Backlog + 1
      BY <1>3, <3>1 DEF TcpTypes
    <3> QED
      BY <1>1, <3>1, <3>2 DEF TcpTypes
  <2>2. CASE SendMessage(c) \/ ReceiveReply(c) \/ ReceiveNothing(c) \/ Interrupt(c)
    BY <1>2, <2>2 DEF SendMessage, ReceiveReply, ReceiveNothing, Interrupt
  <2> QED
    BY <1>6, <2>1, <2>2 DEF TcpClientStep
<1>7. CASE TcpNext
  BY <1>4, <1>5, <1>6, <1>7 DEF TcpNext
<1> QED
  BY <1>2, <1>7, Zenon DEF Next, vars

TypesInv ==
    /\ AnswersInv /\ AnswersTyped
    /\ pc \in [Clients -> Places]
    /\ UdpTypeOK /\ RequestsBounded
    /\ TcpTypes

LEMMA TypesInit == Init => TypesInv
<1> SUFFICES ASSUME Init PROVE TypesInv
  OBVIOUS
<1>1. /\ asked \in [Clients -> Questions] /\ pc = [c \in Clients |-> "start"]
      /\ reply = [c \in Clients |-> {}] /\ shown = [c \in Clients |-> {}]
  BY DEF Init, InitClients
<1>2. AnswersTyped /\ pc \in [Clients -> Places]
  BY <1>1 DEF AnswersTyped, Places
<1>3. UdpTypeOK /\ RequestsBounded
  BY UDPAssumption DEF Init, UdpInit, UdpTypeOK, RequestsBounded
<1>4. TcpTypes
  <2>1. <<>> \in Seq(TCP) /\ Len(<<>>) <= Backlog + 1
    BY TCPAssumption
  <2> QED
    BY <2>1 DEF Init, TcpInit, TcpTypes
<1> QED
  BY <1>2, <1>3, <1>4, AnswersInit DEF TypesInv

LEMMA TypesStep == TypesInv /\ [Next]_vars => TypesInv'
<1> SUFFICES ASSUME TypesInv, [Next]_vars PROVE TypesInv'
  OBVIOUS
<1>1. ClientFunctions /\ asked \in [Clients -> Questions] /\ asked' = asked
  BY AskedStays DEF TypesInv, AnswersInv, ClientFunctions
<1>2. AnswersInv'
  BY AnswersStep DEF TypesInv
<1>3. AnswersTyped'
  <2>1. CASE UdpNext
    BY <1>1, <2>1, UdpAnswersTyped DEF TypesInv
  <2>2. CASE TcpNext
    <3>1. serving \subseteq Clients
      BY DEF TypesInv, TcpTypes, TCP
    <3> QED
      BY <1>1, <2>2, <3>1, TcpAnswersTyped DEF TypesInv
  <2>3. CASE UNCHANGED vars
    <3>1. UNCHANGED <<reply, shown>>
      BY <2>3 DEF vars, clientVars
    <3> QED
      BY <1>1, <3>1, OneAnswerMore DEF TypesInv
  <2> QED
    BY <2>1, <2>2, <2>3 DEF Next
<1>4. pc' \in [Clients -> Places]
  BY PlacesStay DEF TypesInv
<1>5. UdpTypeOK' /\ RequestsBounded'
  BY UdpTypesStay DEF TypesInv
<1>6. TcpTypes'
  BY <1>1, TcpTypesStay DEF TypesInv
<1> QED
  BY <1>2, <1>3, <1>4, <1>5, <1>6 DEF TypesInv

\* Every variable of both services keeps its type: numbers are sent and shown
\* where vowels are counted and sequences of characters where they are taken
\* out, whatever is found in memory or is cut off by recv(); no more copies of
\* a request are on their way than were made; one connection is served at a
\* time and the kernel holds one more than listen() was asked for.
THEOREM ServicesKeepTypes == Spec => []TypeOK
<1>1. TypesInv => TypeOK
  <2> SUFFICES ASSUME TypesInv PROVE TypeOK
    OBVIOUS
  <2>1. asked \in [Clients -> Questions]
    BY DEF TypesInv, AnswersInv, ClientFunctions
  <2>2. \A c \in Clients : \A answer \in reply[c] \cup shown[c] :
           IF op(c) = "vLength" THEN answer \in Nat ELSE answer \in Seq(STRING)
    BY Zenon DEF TypesInv, AnswersTyped, IsAnswer
  <2>3. pc \in [Clients -> {"start", "send", "recv", "done", "died", "killed", "misled"}]
    BY DEF TypesInv, Places
  <2>4. UdpTypeOK /\ TcpTypeOK
    BY TcpTypesAre DEF TypesInv
  <2> QED
    BY <2>1, <2>2, <2>3, <2>4, Zenon DEF TypeOK
<1> QED
  BY <1>1, TypesInit, TypesStep, PTL DEF Spec

-----------------------------------------------------------------------------
(* What the TCP clients show.                                              *)

\* A connection waits in line once or is open, and only after connect().
ServedOnce ==
    /\ \A i, j \in 1..Len(backlog) : backlog[i] = backlog[j] => i = j
    /\ \A i \in 1..Len(backlog) :
          backlog[i] \notin serving /\ pc[backlog[i]] # "start"
    /\ \A c \in serving : pc[c] # "start"

\* The server has not read c's request.
Waiting(c) ==
    pc[c] = "start" \/ c \in serving \/ \E i \in 1..Len(backlog) : backlog[i] = c

HeardAll(c) == heard[c] >= message_length(c)

\* What is sent is right whatever is printed behind it.
RightReply(c, answer) ==
    IF op(c) = "vLength" THEN answer = vowelNumber(text(c))
    ELSE /\ IsPrefix(strip(disemVoweling(text(c))), answer)
         /\ \A junk \in Seq(STRING) :
               IsPrefix(strip(disemVoweling(text(c))), answer \o junk)

RightShown(c, answer) ==
    IF op(c) = "vLength"
    THEN Lo(vowelNumber(text(c))) < ByteSize \div 2 => answer = vowelNumber(text(c))
    ELSE IsPrefix(strip(disemVoweling(text(c))), answer)

TcpRight(c) ==
    /\ Waiting(c) => reply[c] = {} /\ shown[c] = {}
    /\ HeardAll(c) => /\ \A answer \in reply[c] : RightReply(c, answer)
                      /\ \A answer \in shown[c] : RightShown(c, answer)

\* The server reads from a connection once, so that what it has heard is what
\* it has answered (serverTCP.py 27-33).
TcpInv == TypesInv /\ ServedOnce /\ \A c \in TCP : TcpRight(c)

LEMMA Rigid ==
    ASSUME asked' = asked
    PROVE  \A c, a : /\ RightReply(c, a)' <=> RightReply(c, a)
                     /\ RightShown(c, a)' <=> RightShown(c, a)
                     /\ message_length(c)' = message_length(c)
BY DEF RightReply, RightShown, op, text, message_length

\* What a step leaves alone stays right.
LEMMA TcpAlone ==
    ASSUME asked' = asked, NEW d, TcpRight(d),
           reply'[d] = reply[d], shown'[d] = shown[d], heard'[d] = heard[d],
           Waiting(d)' => Waiting(d)
    PROVE  TcpRight(d)'
<1>1. HeardAll(d)' <=> HeardAll(d)
  BY Rigid DEF HeardAll
<1>2. \A a : /\ RightReply(d, a)' <=> RightReply(d, a)
             /\ RightShown(d, a)' <=> RightShown(d, a)
  BY Rigid, Zenon
<1>3. Waiting(d)' => reply'[d] = {} /\ shown'[d] = {}
  BY Zenon DEF TcpRight
<1>4. HeardAll(d)' => /\ \A a \in reply'[d] : RightReply(d, a)'
                      /\ \A a \in shown'[d] : RightShown(d, a)'
  BY <1>1, <1>2, Zenon DEF TcpRight
<1> QED
  BY <1>3, <1>4, Zenon DEF TcpRight

\* The UDP service leaves the TCP clients alone.
LEMMA UdpLeavesTcp ==
    ASSUME ClientFunctions, ServicesApart, UdpNext
    PROVE  \A d \in TCP : pc'[d] = pc[d] /\ reply'[d] = reply[d] /\ shown'[d] = shown[d]
<1>1. PICK c \in Clients :
         UdpServe(c) \/ SendDatagram(c) \/ GetResponse(c) \/ Refused(c) \/ Duplicate(c)
  BY DEF UdpNext
<1>2. \A d \in TCP : d \in Clients /\ d \notin UDP
  BY DEF TCP, UDP
<1>3. c \in UDP
  <2>1. request[c] > 0 => c \in UDP
    BY DEF ServicesApart
  <2> QED
    BY <1>1, <2>1 DEF UdpServe, SendDatagram, GetResponse, Refused, Duplicate
<1>4. /\ pc' = pc \/ \E p : pc' = [pc EXCEPT ![c] = p]
      /\ reply' = reply \/ \E r : reply' = [reply EXCEPT ![c] = r]
      /\ shown' = shown \/ \E r : shown' = [shown EXCEPT ![c] = r]
  <2>1. CASE UdpServe(c)
    BY <2>1 DEF UdpServe, Fall, CountVowels, Disemvowel, Ignore, clientVars, Reply
  <2>2. CASE SendDatagram(c) \/ Refused(c) \/ Duplicate(c)
    BY <2>2 DEF SendDatagram, Refused, Duplicate, clientVars
  <2>3. CASE GetResponse(c)
    BY <2>3 DEF GetResponse, ReadCount, ReadText, Show
  <2> QED
    BY <1>1, <2>1, <2>2, <2>3
<1>5. \A d \in Clients : d # c =>
         pc'[d] = pc[d] /\ reply'[d] = reply[d] /\ shown'[d] = shown[d]
  BY <1>4 DEF ClientFunctions
<1> QED
  BY <1>2, <1>3, <1>5

LEMMA AcceptRight ==
    ASSUME TcpInv, Accept
    PROVE  ServedOnce' /\ \A c \in TCP : TcpRight(c)'
<1>1. /\ serving = {} /\ backlog # <<>> /\ backlog \in Seq(TCP)
      /\ serving' = {Head(backlog)} /\ backlog' = Tail(backlog)
      /\ UNCHANGED <<asked, pc, reply, shown, heard>>
  BY DEF Accept, clientVars, TcpInv, TypesInv, TcpTypes
<1>2. /\ Len(backlog) \in Nat /\ Len(backlog) >= 1 /\ Len(backlog') = Len(backlog) - 1
      /\ Head(backlog) = backlog[1]
      /\ \A i \in 1..Len(backlog') : backlog'[i] = backlog[i + 1]
  BY <1>1
<1>3. \A i \in 1..Len(backlog') : i + 1 \in 1..Len(backlog) /\ i + 1 # 1
  BY <1>2
<1>4. 1 \in 1..Len(backlog)
  BY <1>2
<1>5. ServedOnce
  BY DEF TcpInv
<1>6. ServedOnce'
  <2>1. ASSUME NEW i \in 1..Len(backlog'), NEW j \in 1..Len(backlog'),
               backlog'[i] = backlog'[j]
        PROVE  i = j
    <3>1. backlog[i + 1] = backlog[j + 1]
      BY <1>2, <2>1
    <3>2. i + 1 = j + 1
      BY <1>3, <1>5, <3>1 DEF ServedOnce
    <3> QED
      BY <1>2, <3>2
  <2>2. ASSUME NEW i \in 1..Len(backlog')
        PROVE  backlog'[i] \notin serving' /\ pc'[backlog'[i]] # "start"
    <3>1. backlog'[i] = backlog[i + 1] /\ i + 1 \in 1..Len(backlog) /\ i + 1 # 1
      BY <1>2, <1>3
    <3>2. backlog[i + 1] # backlog[1] /\ pc[backlog[i + 1]] # "start"
      BY <1>4, <1>5, <3>1 DEF ServedOnce
    <3> QED
      BY <1>1, <1>2, <3>1, <3>2
  <2>3. \A c \in serving' : pc'[c] # "start"
    BY <1>1, <1>2, <1>4, <1>5 DEF ServedOnce
  <2> QED
    BY <2>1, <2>2, <2>3, Zenon DEF ServedOnce
<1>7. ASSUME NEW c \in TCP
      PROVE  TcpRight(c)'
  <2>1. Waiting(c)' => Waiting(c)
    <3>1. CASE c \in serving'
      BY <1>1, <1>2, <1>4, <3>1 DEF Waiting
    <3>2. ASSUME NEW i \in 1..Len(backlog'), backlog'[i] = c
          PROVE  Waiting(c)
      BY <1>2, <1>3, <3>2 DEF Waiting
    <3> QED
      BY <1>1, <3>1, <3>2 DEF Waiting
  <2>2. TcpRight(c)
    BY DEF TcpInv
  <2> QED
    BY <1>1, <2>1, <2>2, TcpAlone
<1> QED
  BY <1>6, <1>7

\* What is sent is right if all of the message was heard.
LEMMA TcpReplyRight ==
    ASSUME asked \in [Clients -> Questions], NEW c \in Clients, NEW n \in Nat,
           n >= 5, n >= message_length(c), NEW message \in Texts(c, n)
    PROVE  /\ op(c) = "vLength" => RightReply(c, get_vowel_count(message))
           /\ op(c) = "disemvowel" => RightReply(c, disemvowel(message))
<1>1. text(c) \in Seq(STRING)
  BY QuestionsAssumption DEF text
<1>2. Holds(message, text(c)) /\ message \in Seq(STRING)
  BY TextsHoldText
<1>3. get_vowel_count(message) = vowelNumber(text(c))
  <2> DEFINE s == text(c)
  <2>1. s \in Seq(STRING) /\ Holds(message, s)
    BY <1>1, <1>2
  <2> HIDE DEF s
  <2>2. /\ Len(message) <= Len(s)
        /\ \A k \in 1..Len(message) : message[k] = s[k]
        /\ \A k \in Len(message) + 1..Len(s) : ~isaVowel(s[k])
    BY <2>1, NoVowel, Zenon DEF Holds
  <2>3. get_vowel_count(message) = vowelNumber(s)
    BY <1>2, <2>1, <2>2, CountIsNumber
  <2> QED
    BY <2>3 DEF s
<1>4. \A junk \in Seq(STRING) :
         /\ IsPrefix(strip(disemVoweling(text(c))), disemvowel(message))
         /\ IsPrefix(strip(disemVoweling(text(c))), disemvowel(message) \o junk)
  <2> TAKE junk \in Seq(STRING)
  <2> QED
    BY <1>1, <1>2, AnswerBeginsRight
<1>5. <<>> \in Seq(STRING)
  OBVIOUS
<1>6. IsPrefix(strip(disemVoweling(text(c))), disemvowel(message))
  BY <1>4, <1>5, Zenon
<1> QED
  BY <1>3, <1>4, <1>6, Zenon DEF RightReply

LEMMA TcpServeRight ==
    ASSUME TcpInv, TcpServe
    PROVE  ServedOnce' /\ \A d \in TCP : TcpRight(d)'
<1>1. PICK c \in serving : \/ pc[c] = "recv" /\ Serve(c)
                           \/ pc[c] = "killed" /\ HangUp(c)
  BY Zenon DEF TcpServe
<1>2. /\ UNCHANGED <<asked, pc, shown, backlog>> /\ serving = {c} /\ serving' = {}
      /\ c \in TCP /\ c \in Clients /\ pc[c] # "start"
  <2>1. UNCHANGED <<asked, pc, shown, backlog>> /\ pc[c] # "start"
    BY <1>1 DEF TcpServe
  <2>2. serving = {c} /\ c \in TCP /\ c \in Clients
    BY <1>1 DEF TcpInv, TypesInv, TcpTypes, TCP
  <2>3. serving' = {}
    BY <1>1, Zenon DEF Serve, HangUp
  <2> QED
    BY <2>1, <2>2, <2>3
<1>3. /\ ServedOnce /\ ClientFunctions /\ asked \in [Clients -> Questions]
      /\ heard \in [Clients -> Nat] /\ \A d \in TCP : TcpRight(d) /\ d \in Clients
  BY DEF TcpInv, TypesInv, AnswersInv, ClientFunctions, TcpTypes, TCP
<1>4. ServedOnce'
  BY <1>2, <1>3 DEF ServedOnce
<1>5. \A d \in TCP : Waiting(d)' => Waiting(d)
  BY <1>2 DEF Waiting
<1>6. ~Waiting(c)'
  BY <1>1, <1>2, <1>3 DEF Waiting, ServedOnce
<1>7. reply[c] = {} /\ shown[c] = {}
  BY <1>2, <1>3 DEF TcpRight, Waiting
<1>8. CASE HangUp(c)
  <2>1. reply' = reply /\ heard' = heard
    BY <1>8 DEF HangUp
  <2> QED
    BY <1>2, <1>3, <1>4, <1>5, <2>1, TcpAlone
<1>9. CASE Serve(c)
  <2>1. PICK k \in {RecvMax} \cup Segments :
           LET n == Min({k, SendLength(c)})
           IN  /\ heard' = [heard EXCEPT ![c] = n]
               /\ IF n < 5 THEN UNCHANGED reply
                  ELSE \E message \in Texts(c, n) : process_data(c, message)
    BY <1>9, Zenon DEF Serve
  <2> DEFINE n == Min({k, SendLength(c)})
  <2>2. n \in Nat
    BY <1>2, <1>3, BytesRead
  <2> HIDE DEF n
  <2>3. heard' = [heard EXCEPT ![c] = n]
    BY <2>1, Zenon DEF n
  <2>4. heard'[c] = n /\ \A d \in Clients : d # c => heard'[d] = heard[d]
    BY <1>2, <1>3, <2>3
  <2>5. UNCHANGED reply \/ \E a : Reply(c, a)
    BY <2>1, Zenon DEF process_data
  <2>6. \A d \in Clients : d # c => reply'[d] = reply[d]
    BY <1>3, <2>5 DEF ClientFunctions, Reply
  <2>7. ASSUME NEW d \in TCP, d # c
        PROVE  TcpRight(d)'
    BY <1>2, <1>3, <1>5, <2>4, <2>6, <2>7, TcpAlone
  <2>8. ASSUME HeardAll(c)', NEW a \in reply'[c]
        PROVE  RightReply(c, a)
    <3>1. message_length(c)' = message_length(c)
      BY <1>2, Rigid
    <3>2. n >= message_length(c)
      BY <2>4, <2>8, <3>1 DEF HeardAll
    <3>3. message_length(c) >= 5
      <4>1. text(c) \in Seq(STRING)
        BY <1>2, <1>3, QuestionsAssumption DEF text
      <4> QED
        BY <4>1 DEF message_length
    <3>4. message_length(c) \in Nat
      <4>1. text(c) \in Seq(STRING)
        BY <1>2, <1>3, QuestionsAssumption DEF text
      <4> QED
        BY <4>1 DEF message_length
    <3>5. n >= 5 /\ ~(n < 5)
      BY <2>2, <3>2, <3>3, <3>4
    <3>6. PICK message \in Texts(c, n) : process_data(c, message)
      BY <2>1, <3>5, Zenon DEF n
    <3>7. /\ op(c) = "vLength" => RightReply(c, get_vowel_count(message))
          /\ op(c) = "disemvowel" => RightReply(c, disemvowel(message))
      BY <1>2, <1>3, <2>2, <3>2, <3>5, TcpReplyRight
    <3>8. \A x : Reply(c, x) => reply'[c] = {x}
      BY <1>2, <1>3, <1>7 DEF ClientFunctions, Reply
    <3>9. CASE op(c) = "vLength"
      <4>1. Reply(c, get_vowel_count(message))
        BY <3>6, <3>9 DEF process_data
      <4> QED
        BY <2>8, <3>7, <3>8, <3>9, <4>1
    <3>10. CASE op(c) = "disemvowel"
      <4>1. Reply(c, disemvowel(message))
        BY <3>6, <3>10 DEF process_data
      <4> QED
        BY <2>8, <3>7, <3>8, <3>10, <4>1
    <3>11. CASE op(c) # "vLength" /\ op(c) # "disemvowel"
      <4>1. reply' = reply
        BY <3>6, <3>11 DEF process_data
      <4> QED
        BY <1>7, <2>8, <4>1
    <3> QED
      BY <3>9, <3>10, <3>11
  <2>9. TcpRight(c)'
    <3>1. \A a : RightReply(c, a)' <=> RightReply(c, a)
      BY <1>2, Rigid
    <3>2. shown'[c] = {}
      BY <1>2, <1>7
    <3> QED
      BY <1>6, <2>8, <3>1, <3>2 DEF TcpRight
  <2> QED
    BY <1>4, <2>7, <2>9
<1> QED
  BY <1>1, <1>8, <1>9

LEMMA TcpClientRight ==
    ASSUME TcpInv, NEW c \in Clients, TcpClientStep(c) \/ Interrupt(c)
    PROVE  ServedOnce' /\ \A d \in TCP : TcpRight(d)'
<1>1. /\ ServedOnce /\ ClientFunctions /\ pc \in [Clients -> Places]
      /\ backlog \in Seq(TCP) /\ serving \subseteq TCP
      /\ \A d \in TCP : TcpRight(d) /\ d \in Clients
  BY DEF TcpInv, TypesInv, AnswersInv, TcpTypes, TCP
<1>2. asked' = asked /\ reply' = reply /\ heard' = heard /\ serving' = serving
  BY DEF TcpClientStep, Connect, SendMessage, ReceiveReply, ReceiveNothing,
         Interrupt, tcpVars
\* A step by which nobody comes to wait.
<1>3. ASSUME backlog' = backlog, NEW p, p # "start", pc' = [pc EXCEPT ![c] = p]
      PROVE  ServedOnce' /\ \A d \in TCP : Waiting(d)' => Waiting(d)
  <2>1. \A d \in TCP : pc'[d] = pc[d] \/ pc'[d] # "start"
    BY <1>1, <1>3
  <2>2. \A d \in TCP : Waiting(d)' => Waiting(d)
    BY <1>2, <1>3, <2>1 DEF Waiting
  <2>3. \A i \in 1..Len(backlog) : backlog[i] \in TCP
    BY <1>1
  <2>4. ServedOnce'
    BY <1>1, <1>2, <1>3, <2>1, <2>3 DEF ServedOnce
  <2> QED
    BY <2>2, <2>4
<1>4. CASE SendMessage(c) \/ ReceiveNothing(c) \/ Interrupt(c)
  <2>1. /\ backlog' = backlog /\ shown' = shown
        /\ \E p : p # "start" /\ pc' = [pc EXCEPT ![c] = p]
    BY <1>4 DEF SendMessage, ReceiveNothing, Interrupt, tcpVars
  <2> QED
    BY <1>1, <1>2, <1>3, <2>1, TcpAlone
<1>5. CASE Connect(c)
  <2>1. /\ c \in TCP /\ pc[c] = "start" /\ shown' = shown
        /\ pc' = [pc EXCEPT ![c] = "send"] /\ backlog' = Append(backlog, c)
    BY <1>5 DEF Connect
  <2>2. /\ Len(backlog) \in Nat /\ Len(backlog') = Len(backlog) + 1
        /\ \A i \in 1..Len(backlog) : backlog'[i] = backlog[i] /\ backlog[i] \in TCP
        /\ backlog'[Len(backlog) + 1] = c
    BY <1>1, <2>1
  <2>3. /\ pc'[c] = "send" /\ \A d \in TCP : d # c => pc'[d] = pc[d]
    BY <1>1, <2>1
  <2>4. c \notin serving /\ \A i \in 1..Len(backlog) : backlog[i] # c
    BY <1>1, <2>1 DEF ServedOnce
  <2>5. \A i \in 1..Len(backlog') : i \in 1..Len(backlog) \/ i = Len(backlog) + 1
    BY <2>2
  <2>6. ServedOnce'
    <3>1. \A i, j \in 1..Len(backlog') : backlog'[i] = backlog'[j] => i = j
      BY <1>1, <2>2, <2>4, <2>5 DEF ServedOnce
    <3>2. ASSUME NEW i \in 1..Len(backlog')
          PROVE  backlog'[i] \notin serving' /\ pc'[backlog'[i]] # "start"
      BY <1>1, <1>2, <2>2, <2>3, <2>4, <2>5 DEF ServedOnce
    <3>3. \A d \in serving' : pc'[d] # "start"
      BY <1>1, <1>2, <2>3 DEF ServedOnce
    <3> QED
      BY <3>1, <3>2, <3>3, Zenon DEF ServedOnce
  <2>7. ASSUME NEW d \in TCP, Waiting(d)'
        PROVE  Waiting(d)
    <3>1. CASE d = c
      BY <2>1, <3>1 DEF Waiting
    <3>2. CASE d # c
      BY <1>2, <2>2, <2>3, <2>5, <2>7, <3>2 DEF Waiting
    <3> QED
      BY <3>1, <3>2
  <2> QED
    BY <1>1, <1>2, <2>1, <2>6, <2>7, TcpAlone
<1>6. CASE ReceiveReply(c)
  <2>1. /\ c \in TCP /\ Closed(c) /\ backlog' = backlog
    BY <1>6 DEF ReceiveReply, tcpVars
  <2>2. PICK answer \in reply[c] :
           \/ op(c) = "vLength" /\ Show(c, PrintedCount(answer))
           \/ op(c) = "disemvowel" /\ \E m \in PrintedText(answer) : Show(c, m)
    BY <1>6, Zenon DEF ReceiveReply
  <2>3. PICK x : /\ Show(c, x)
                 /\ \/ op(c) = "vLength" /\ x = PrintedCount(answer)
                    \/ op(c) = "disemvowel" /\ x \in PrintedText(answer)
    BY <2>2, Zenon
  <2>4. pc' = [pc EXCEPT ![c] = "done"] /\ shown' = [shown EXCEPT ![c] = {x}]
    BY <2>3 DEF Show
  <2>5. ServedOnce' /\ \A d \in TCP : Waiting(d)' => Waiting(d)
    BY <1>3, <2>1, <2>4
  <2>6. shown'[c] = {x} /\ \A d \in TCP : d # c => shown'[d] = shown[d]
    BY <1>1, <2>4 DEF ClientFunctions
  <2>7. ~Waiting(c)
    <3>1. pc[c] = "recv" /\ c \notin serving /\ c \notin Range(backlog)
      BY <2>1 DEF Closed
    <3>2. \A i \in 1..Len(backlog) : backlog[i] # c
      BY <1>1, <3>1 DEF Range
    <3> QED
      BY <3>1, <3>2 DEF Waiting
  <2>8. ASSUME HeardAll(c)
        PROVE  RightShown(c, x)
    <3>1. RightReply(c, answer)
      BY <1>1, <2>1, <2>8 DEF TcpRight
    <3>2. IsAnswer(c, answer)
      BY DEF TcpInv, TypesInv, AnswersTyped
    <3>3. CASE op(c) = "vLength" /\ x = PrintedCount(answer)
      <4>1. answer = vowelNumber(text(c)) /\ answer \in Nat
        BY <3>1, <3>2, <3>3 DEF RightReply, IsAnswer
      <4>2. Lo(answer) < ByteSize \div 2 => x = answer
        BY <3>3, <4>1, PrintedIsAnswer
      <4> QED
        BY <3>3, <4>1, <4>2 DEF RightShown
    <3>4. CASE op(c) = "disemvowel" /\ x \in PrintedText(answer)
      <4>1. x = answer \/ \E junk \in Unset(1) : x = answer \o junk
        BY <3>4, Zenon DEF PrintedText
      <4>2. \A junk \in Unset(1) : junk \in Seq(STRING)
        BY UnsetIsText
      <4>3. op(c) # "vLength"
        BY <3>4
      <4>4. IsPrefix(strip(disemVoweling(text(c))), x)
        BY <3>1, <4>1, <4>2, <4>3, Zenon DEF RightReply
      <4> QED
        BY <4>3, <4>4 DEF RightShown
    <3> QED
      BY <2>3, <3>3, <3>4
  <2>9. TcpRight(c)'
    <3>1. ~Waiting(c)'
      BY <2>1, <2>5, <2>7
    <3>2. HeardAll(c)' <=> HeardAll(c)
      BY <1>2, Rigid DEF HeardAll
    <3>3. \A a : /\ RightReply(c, a)' <=> RightReply(c, a)
                 /\ RightShown(c, a)' <=> RightShown(c, a)
      BY <1>2, Rigid, Zenon
    <3>4. HeardAll(c) => \A a \in reply[c] : RightReply(c, a)
      BY <1>1, <2>1 DEF TcpRight
    <3> QED
      BY <1>2, <2>6, <2>8, <3>1, <3>2, <3>3, <3>4 DEF TcpRight
  <2>10. ASSUME NEW d \in TCP, d # c
         PROVE  TcpRight(d)'
    BY <1>1, <1>2, <2>5, <2>6, <2>10, TcpAlone
  <2> QED
    BY <2>5, <2>9, <2>10
<1> QED
  BY <1>4, <1>5, <1>6 DEF TcpClientStep

LEMMA TcpInit1 == Init => TcpInv
<1> SUFFICES ASSUME Init PROVE TcpInv
  OBVIOUS
<1>1. /\ backlog = <<>> /\ serving = {}
      /\ \A c \in TCP : reply[c] = {} /\ shown[c] = {}
  BY DEF Init, InitClients, TcpInit, TCP
<1>2. ServedOnce
  BY <1>1 DEF ServedOnce
<1>3. \A c \in TCP : TcpRight(c)
  BY <1>1 DEF TcpRight
<1> QED
  BY <1>2, <1>3, TypesInit DEF TcpInv

LEMMA TcpStep == TcpInv /\ [Next]_vars => TcpInv'
<1> SUFFICES ASSUME TcpInv, [Next]_vars PROVE TcpInv'
  OBVIOUS
<1>1. asked' = asked /\ TCP' = TCP
  BY AskedStays DEF TCP
<1>2. TypesInv'
  BY TypesStep DEF TcpInv
<1>3. CASE UdpNext /\ UNCHANGED tcpVars
  <2>1. \A d \in TCP : pc'[d] = pc[d] /\ reply'[d] = reply[d] /\ shown'[d] = shown[d]
    BY <1>3, UdpLeavesTcp DEF TcpInv, TypesInv, AnswersInv
  <2>2. UNCHANGED <<backlog, serving, heard>>
    BY <1>3 DEF tcpVars
  <2>3. backlog \in Seq(TCP) /\ serving \subseteq TCP
    BY DEF TcpInv, TypesInv, TcpTypes
  <2>4. \A i \in 1..Len(backlog) : backlog[i] \in TCP
    BY <2>3
  <2>5. ServedOnce'
    BY <2>1, <2>2, <2>3, <2>4 DEF TcpInv, ServedOnce
  <2>6. \A d \in TCP : Waiting(d)' => Waiting(d)
    BY <2>1, <2>2 DEF Waiting
  <2>7. \A d \in TCP : TcpRight(d)'
    BY <1>1, <2>1, <2>2, <2>6, TcpAlone DEF TcpInv
  <2> QED
    BY <1>1, <1>2, <2>5, <2>7 DEF TcpInv
<1>4. CASE TcpNext
  <2>1. ServedOnce' /\ \A d \in TCP : TcpRight(d)'
    BY <1>4, AcceptRight, TcpServeRight, TcpClientRight DEF TcpNext
  <2> QED
    BY <1>1, <1>2, <2>1 DEF TcpInv
<1>5. CASE UNCHANGED vars
  <2>1. UNCHANGED <<pc, reply, shown, backlog, serving, heard>>
    BY <1>5 DEF vars, clientVars, tcpVars
  <2>2. ServedOnce'
    BY <2>1 DEF TcpInv, ServedOnce
  <2>3. \A d \in TCP : Waiting(d)' => Waiting(d)
    BY <2>1 DEF Waiting
  <2>4. \A d \in TCP : TcpRight(d)'
    BY <1>1, <2>1, <2>3, TcpAlone DEF TcpInv
  <2> QED
    BY <1>1, <1>2, <2>2, <2>4 DEF TcpInv
<1> QED
  BY <1>3, <1>4, <1>5 DEF Next

\* Whatever the clients, their texts, the interleaving with each other and
\* with the UDP service, the places where recv() cuts a request off and the
\* bytes found in memory: if the server heard a message whole, what its user
\* is shown is the answer to that message, up to the whitespace that strip()
\* takes from its end and the negative chars of "message[1] | vowel_count".
THEOREM TcpAnswers == Spec => []TcpAnswersAreRight
<1>1. TcpInv => TcpAnswersAreRight
  BY Zenon DEF TcpInv, TcpRight, HeardAll, RightShown, TcpAnswersAreRight
<1> QED
  BY <1>1, TcpInit1, TcpStep, PTL DEF Spec
=============================================================================
