----------------------------- MODULE MCNimLobby -----------------------------
(***************************************************************************)
(* Instances of NimLobby for TLC.  The clients are those of group 20, the  *)
(* program's GROUP_ID, whose ports are 10110 to 10114.                     *)
(***************************************************************************)
EXTENDS NimLobby, TLC

CONSTANTS
    ann, bob, cid, dan, \* clients
    red, blue           \* machines

\* ann and bob are started on one machine with the same port, as two users
\* of one desk would, cid has an address of its own, and dan asks for a port
\* of another group.
FourClients == {ann, bob, cid, dan}
FourMachines == ann :> red @@ bob :> red @@ cid :> blue @@ dan :> blue
FourPorts == ann :> 10110 @@ bob :> 10110 @@ cid :> 10111 @@ dan :> 10115

\* Three clients, one of which asks for a port of another group.
ThreeClients == {ann, bob, cid}
ThreeMachines == ann :> red @@ bob :> blue @@ cid :> blue
ThreePorts == ann :> 10110 @@ bob :> 10111 @@ cid :> 10115

\* Two clients, one of which asks for the third port of the group.
TwoClients == {ann, bob}
TwoMachines == ann :> red @@ bob :> blue
TwoPorts == ann :> 10110 @@ bob :> 10112

NoFaults == [k \in FaultKinds |-> 0]
OneFault == [k \in FaultKinds |-> 1]
=============================================================================
