--------------------------- MODULE StringService ---------------------------
(***************************************************************************)
(* Both string services of comp4320/project1 side by side: a client is     *)
(* started against one or the other.  The servers share nothing.           *)
(***************************************************************************)
EXTENDS StringUDP, StringTCP

vars == <<clientVars, udpVars, tcpVars>>

Init == InitClients /\ UdpInit /\ TcpInit

Next ==
    \/ UdpNext /\ UNCHANGED tcpVars
    \/ TcpNext /\ UNCHANGED udpVars

Spec == Init /\ [][Next]_vars /\ TcpFairness

-----------------------------------------------------------------------------
TypeOK ==
    /\ asked \in [Clients -> Questions]
    /\ pc \in [Clients -> {"start", "send", "recv", "done", "died", "killed", "misled"}]
    /\ \A c \in Clients : \A answer \in reply[c] \cup shown[c] :
          IF op(c) = "vLength" THEN answer \in Nat ELSE answer \in Seq(STRING)
    /\ UdpTypeOK
    /\ TcpTypeOK
=============================================================================
