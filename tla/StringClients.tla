--------------------------- MODULE StringClients ---------------------------
(***************************************************************************)
(* What the clients of the two string services have in common: a client is *)
(* started with a service, an operation and a text, sends one request,     *)
(* reads once and ends.                                                    *)
(***************************************************************************)
EXTENDS StringOps, FiniteSets

CONSTANTS
    Clients,      \* the client processes
    Questions,    \* what a client may be started with, and where: whether
                  \* there is a name for its address
    Junk          \* characters that may be found in memory nobody has set

Operations == {"vLength", "disemvowel", "other"}

ASSUME QuestionsAssumption ==
    \A q \in Questions :
        /\ DOMAIN q = {"service", "op", "text", "named"}
        /\ q.service \in {"UDP", "TCP"}
        /\ q.op \in Operations
        /\ q.named \in BOOLEAN
        /\ q.text \in Seq(STRING)
        /\ \A b \in White : Len(q.text) + 5 < ByteSize * b

ASSUME JunkAssumption == Junk \subseteq STRING

VARIABLES
    asked,      \* asked[c]: what c was started with
    pc,         \* pc[c]: where c is
    reply,      \* reply[c]: the replies that were sent to c
    shown       \* shown[c]: what c has told its user

clientVars == <<asked, pc, reply, shown>>

UDP == {c \in Clients : asked[c].service = "UDP"}
TCP == {c \in Clients : asked[c].service = "TCP"}

op(c) == asked[c].op
text(c) == asked[c].text

\* The length in the request: five bytes precede the text.
message_length(c) == 5 + Len(text(c))

\* n characters that nobody has written.
Unset(n) == {[i \in 1..n |-> ch] : ch \in Junk}

InitClients ==
    /\ asked \in [Clients -> Questions]
    /\ pc = [c \in Clients |-> "start"]
    /\ reply = [c \in Clients |-> {}]
    /\ shown = [c \in Clients |-> {}]

Reply(c, answer) == reply' = [reply EXCEPT ![c] = @ \cup {answer}]

Show(c, answer) ==
    /\ pc' = [pc EXCEPT ![c] = "done"]
    /\ shown' = [shown EXCEPT ![c] = {answer}]
=============================================================================
