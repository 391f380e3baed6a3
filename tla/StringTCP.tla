----------------------------- MODULE StringTCP -----------------------------
(***************************************************************************)
(* The string service over TCP: the server serverTCP.py and the clients    *)
(* clientTCP.c.  The server serves one connection after the other: it      *)
(* reads once, answers, and closes.  What it sends is small enough to be   *)
(* read in one piece; what it is sent may arrive in several.               *)
(***************************************************************************)
EXTENDS StringClients

CONSTANTS
    RecvMax,      \* how much the server reads at most, 1029
    Segments,     \* where else the bytes it reads may end
    Backlog       \* the argument of listen(), 1

VARIABLES
    backlog,      \* the connections that have not been accepted, in order
    serving,      \* the client whose connection is open, if any
    heard         \* heard[c]: how many bytes of c's request were read

tcpVars == <<backlog, serving, heard>>

ASSUME TCPAssumption ==
    /\ RecvMax \in Nat
    /\ Segments \subseteq Nat \ {0}
    /\ Backlog \in Nat

-----------------------------------------------------------------------------
(* The clients.                                                            *)

\* Faulty: the kernel holds any number of connections.
Connect_NoLimit(c) ==
    /\ c \in TCP /\ pc[c] = "start"
    /\ pc' = [pc EXCEPT ![c] = "send"]
    /\ backlog' = Append(backlog, c)
    /\ UNCHANGED <<asked, reply, shown, serving, heard>>

\* The kernel holds one connection more than listen() was asked for.
Connect(c) ==
    /\ c \in TCP /\ pc[c] = "start"
    /\ Len(backlog) <= Backlog
    /\ pc' = [pc EXCEPT ![c] = "send"]
    /\ backlog' = Append(backlog, c)
    /\ UNCHANGED <<asked, reply, shown, serving, heard>>

\* The number of bytes sent is the length of the message in network order,
\* read in the order of the host: as a rule far more than the message has.
SendLength(c) == Lo(message_length(c)) * ByteSize + Hi(message_length(c))

\* The client's own buffer of 1024 bytes is left out: a longer text would
\* overrun it (clientTCP.c:116).
SendMessage(c) ==
    /\ pc[c] = "send"
    /\ pc' = [pc EXCEPT ![c] = "recv"]
    /\ UNCHANGED <<asked, reply, shown, tcpVars>>

\* The user stops the client.  (To the server it makes no difference whether
\* a client that has sent its request is still there.)
Interrupt(c) ==
    /\ pc[c] = "send"
    /\ pc' = [pc EXCEPT ![c] = "killed"]
    /\ UNCHANGED <<asked, reply, shown, tcpVars>>

-----------------------------------------------------------------------------
(* The server.                                                             *)

Accept ==
    /\ serving = {}
    /\ backlog # <<>>
    /\ serving' = {Head(backlog)}
    /\ backlog' = Tail(backlog)
    /\ UNCHANGED <<clientVars, heard>>

\* Faulty: the text is not cut off where its length says.
Texts_Uncut(c, k) ==
    {strip(First(k - 5, text(c) \o junk)) : junk \in Unset(k)}

\* The text in the first k bytes of what c sends: what lies behind the
\* message in c's memory follows it.
Texts(c, k) ==
    {First(Len(text(c)), strip(First(k - 5, text(c) \o junk))) :
        junk \in Unset(k)}

\* The reply to the text, if the operation is known.
process_data(c, message) ==
    CASE op(c) = "vLength" -> Reply(c, get_vowel_count(message))
      [] op(c) = "disemvowel" -> Reply(c, disemvowel(message))
      [] OTHER -> UNCHANGED reply

\* One recv(), its answer, and close().  A header that is not complete is
\* an error that is caught: nothing is answered.
Serve(c) ==
    \E k \in {RecvMax} \cup Segments :
        LET n == Min({k, SendLength(c)})
        IN  /\ heard' = [heard EXCEPT ![c] = n]
            /\ IF n < 5
               THEN UNCHANGED reply
               ELSE \E message \in Texts(c, n) : process_data(c, message)
            /\ serving' = {}

\* Faulty: a connection that brings nothing is kept open.
HangUp_LeftOpen(c) == UNCHANGED <<serving, reply, heard>>

\* The client has gone without a word: recv() returns nothing.
HangUp(c) ==
    /\ serving' = {}
    /\ UNCHANGED <<reply, heard>>

TcpServe ==
    /\ \E c \in serving :
          \/ pc[c] = "recv" /\ Serve(c)
          \/ pc[c] = "killed" /\ HangUp(c)
    /\ UNCHANGED <<asked, pc, shown, backlog>>

Closed(c) == pc[c] = "recv" /\ c \notin serving \cup Range(backlog)

-----------------------------------------------------------------------------
(* What the client makes of the reply.                                     *)

\* "pi->message[1] | vowel_count": a negative char has all its high bits set.
PrintedCount(count) ==
    IF signed_char(Lo(count)) < 0
    THEN ByteSize * ByteSize + signed_char(Lo(count))
    ELSE count

\* Nothing in pi ends the text, unless the memory happened to be zero.
PrintedText(message) == {message} \cup {message \o junk : junk \in Unset(1)}

ReceiveReply(c) ==
    /\ c \in TCP /\ Closed(c)
    /\ \E answer \in reply[c] :
          \/ op(c) = "vLength" /\ Show(c, PrintedCount(answer))
          \/ op(c) = "disemvowel" /\ \E m \in PrintedText(answer) : Show(c, m)
    /\ UNCHANGED <<asked, reply, tcpVars>>

\* recv() returns nothing, which is not looked at: what is printed is what
\* was in the memory of pi.
ReceiveNothing(c) ==
    /\ c \in TCP /\ Closed(c)
    /\ reply[c] = {}
    /\ pc' = [pc EXCEPT ![c] = "misled"]
    /\ UNCHANGED <<asked, reply, shown, tcpVars>>

TcpClientStep(c) ==
    Connect(c) \/ SendMessage(c) \/ ReceiveReply(c) \/ ReceiveNothing(c)

-----------------------------------------------------------------------------
TcpInit ==
    /\ backlog = <<>>
    /\ serving = {}
    /\ heard = [c \in Clients |-> 0]

TcpNext ==
    \/ Accept
    \/ TcpServe
    \/ \E c \in Clients : TcpClientStep(c) \/ Interrupt(c)

\* The server goes on while there is a connection, and so do the clients.
TcpFairness ==
    /\ WF_<<clientVars, tcpVars>>(Accept)
    /\ WF_<<clientVars, tcpVars>>(TcpServe)
    /\ \A c \in Clients : WF_<<clientVars, tcpVars>>(TcpClientStep(c))

-----------------------------------------------------------------------------
TcpTypeOK ==
    /\ backlog \in Seq(TCP) /\ Len(backlog) <= Backlog + 1
    /\ serving \subseteq TCP /\ Cardinality(serving) <= 1
    /\ heard \in [Clients -> Nat]

\* "Repeat Part A using TCP sockets" (README.md 7): if the server heard the
\* message whole, the count that is printed is right as long as its low byte
\* is no negative char; the text that is printed begins with the right one,
\* but for whitespace at its end.
TcpAnswersAreRight ==
    \A c \in TCP : heard[c] >= message_length(c) =>
        \A answer \in shown[c] :
            IF op(c) = "vLength"
            THEN Lo(vowelNumber(text(c))) < ByteSize \div 2 =>
                    answer = vowelNumber(text(c))
            ELSE IsPrefix(strip(disemVoweling(text(c))), answer)

\* Every client that has connected comes to an end: one that is interrupted,
\* or whose request is not understood, or who is not sent an answer, does not
\* keep the server from the others.
TcpClientsEnd ==
    \A c \in Clients :
        (pc[c] = "send") ~> (pc[c] \in {"done", "misled", "killed"})
=============================================================================
