----------------------------- MODULE StringUDP -----------------------------
(***************************************************************************)
(* The string service over UDP: the server serverUDP.c and the clients     *)
(* clientUDP.py.  A lost datagram is one that is never delivered.          *)
(***************************************************************************)
EXTENDS StringClients

CONSTANTS
    BUFSIZE,        \* the size of the server's buffer, 1024
    Overrun,        \* the sizes whose block malloc() makes no byte larger
    MaxDuplicates   \* bound on the datagrams the network duplicates

VARIABLES
    up,           \* is the server running?
    heap,         \* has anything been written past a block of the heap?
    request,      \* request[c]: how many copies of c's request are on their way
    duplicates    \* the datagrams duplicated so far

udpVars == <<up, heap, request, duplicates>>

\* The size of the buffer is a positive number of two signed bytes.
ASSUME UDPAssumption ==
    /\ BUFSIZE \in Nat /\ BUFSIZE > 5
    /\ BUFSIZE < ByteSize * (ByteSize \div 2)
    /\ Overrun \subseteq Nat
    /\ MaxDuplicates \in Nat

Named(c) == asked[c].named

-----------------------------------------------------------------------------
(* The server.                                                             *)

\* The bytes of the length are signed.  The sum is kept in a short, which it
\* always fits at the lengths allowed.
packetLength(c) ==
    signed_char(Hi(message_length(c))) * ByteSize + signed_char(Lo(message_length(c)))

\* Faulty: the length of the header is not taken off.
buffer_WithHeader(c) ==
    {First(packetLength(c), text(c) \o junk) : junk \in Unset(5)}

\* What is copied to buffer[packetLength-5]: beyond the end of buf, whatever
\* follows it on the stack.
buffer(c) ==
    {First(packetLength(c) - 5, First(BUFSIZE - 5, text(c)) \o junk) :
        junk \in Unset(Len(text(c)))}

\* An array with a negative size is written until the process dies.
BadLength(c) == packetLength(c) < 5 /\ op(c) # "other"

\* No reverse lookup for the client's address: error() exits.  Once the heap
\* is damaged, any malloc() may find out, gethostbyaddr's included.
Fall(c) ==
    /\ ~Named(c) \/ BadLength(c) \/ heap = "overrun"
    /\ up' = FALSE
    /\ UNCHANGED <<clientVars, heap, duplicates>>

CountVowels(c) ==
    /\ op(c) = "vLength"
    /\ \E b \in buffer(c) : Reply(c, vowelNumber(b))
    /\ UNCHANGED <<asked, pc, shown, up, heap, duplicates>>

\* The terminating zero is one byte too many for the block.
Disemvowel(c) ==
    /\ op(c) = "disemvowel"
    /\ \E b \in buffer(c) :
          /\ Reply(c, disemVoweling(b))
          /\ heap' = IF Len(disemVoweling(b)) \in Overrun THEN "overrun" ELSE heap
    /\ UNCHANGED <<asked, pc, shown, up, duplicates>>

\* Faulty: an operation that is not known is an error().
Ignore_Fatal(c) ==
    /\ op(c) = "other"
    /\ up' = FALSE
    /\ UNCHANGED <<clientVars, heap, duplicates>>

\* Any other operation is not answered.
Ignore(c) ==
    /\ op(c) = "other"
    /\ UNCHANGED <<clientVars, up, heap, duplicates>>

UdpServe(c) ==
    /\ up
    /\ request[c] > 0
    /\ request' = [request EXCEPT ![c] = @ - 1]
    /\ \/ Fall(c)
       \/ /\ Named(c) /\ ~BadLength(c)
          /\ CountVowels(c) \/ Disemvowel(c) \/ Ignore(c)

-----------------------------------------------------------------------------
(* The clients.                                                            *)

SendDatagram(c) ==
    /\ c \in UDP /\ pc[c] = "start"
    /\ pc' = [pc EXCEPT ![c] = "recv"]
    /\ request' = [request EXCEPT ![c] = 1]
    /\ UNCHANGED <<asked, reply, shown, up, heap, duplicates>>

\* The reply as strip() leaves it: a count whose last byte happens to be
\* whitespace is too short for unpack(), which nobody catches.
ReadCount(c, count) ==
    /\ op(c) = "vLength"
    /\ IF Lo(count) \in White
       THEN pc' = [pc EXCEPT ![c] = "died"] /\ UNCHANGED shown
       ELSE Show(c, count)

ReadText(c, message) ==
    /\ op(c) = "disemvowel"
    /\ Show(c, strip(message))

GetResponse(c) ==
    /\ c \in UDP /\ pc[c] = "recv"
    /\ \E answer \in reply[c] : ReadCount(c, answer) \/ ReadText(c, answer)
    /\ UNCHANGED <<asked, reply, udpVars>>

\* Nobody listens on the port: recv() raises an error, which nobody catches.
Refused(c) ==
    /\ ~up
    /\ c \in UDP /\ pc[c] = "recv"
    /\ request[c] > 0
    /\ request' = [request EXCEPT ![c] = @ - 1]
    /\ pc' = [pc EXCEPT ![c] = "died"]
    /\ UNCHANGED <<asked, reply, shown, up, heap, duplicates>>

Duplicate(c) ==
    /\ request[c] > 0 /\ duplicates < MaxDuplicates
    /\ request' = [request EXCEPT ![c] = @ + 1]
    /\ duplicates' = duplicates + 1
    /\ UNCHANGED <<clientVars, up, heap>>

-----------------------------------------------------------------------------
UdpInit ==
    /\ up = TRUE
    /\ heap = "sound"
    /\ request = [c \in Clients |-> 0]
    /\ duplicates = 0

UdpNext ==
    \E c \in Clients :
        UdpServe(c) \/ SendDatagram(c) \/ GetResponse(c) \/ Refused(c) \/ Duplicate(c)

-----------------------------------------------------------------------------
UdpTypeOK ==
    /\ up \in BOOLEAN
    /\ heap \in {"sound", "overrun"}
    /\ request \in [Clients -> 0..MaxDuplicates + 1]
    /\ duplicates \in 0..MaxDuplicates

\* "vLength" and "String Disemvoweling" (README.md 3-4) for the user of a
\* datagram client: if the request fits the server's buffer and the low byte
\* of its length is no negative char, whatever is shown is right, but for
\* whitespace at the end of a text; and a client that dies has met a count
\* that ends in whitespace or a server that has gone.
UdpAnswersAreRight ==
    \A c \in UDP :
        message_length(c) <= BUFSIZE /\ Lo(message_length(c)) < ByteSize \div 2 =>
            /\ \A answer \in shown[c] :
                  answer = IF op(c) = "vLength" THEN vowelNumber(text(c))
                           ELSE strip(disemVoweling(text(c)))
            /\ pc[c] = "died" /\ up => Lo(vowelNumber(text(c))) \in White

\* "while (1)" (serverUDP.c 183): what can end the server is a client without
\* a name, a length whose low byte is negative, or a text it has already
\* disemvowelled and answered, one byte too long for its block.
UdpServerFallsFor ==
    up \/ (\E c \in UDP : ~Named(c) \/ BadLength(c))
       \/ (\E c \in UDP : \E answer \in reply[c] :
              op(c) = "disemvowel" /\ Len(answer) \in Overrun)
=============================================================================
