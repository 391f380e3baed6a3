----------------------------- MODULE MCResolver -----------------------------
(***************************************************************************)
(* Instances of Resolver for TLC.  Names have one letter and buffers 21    *)
(* bytes; group 16 and the delimiter are the program's.                    *)
(***************************************************************************)
EXTENDS Resolver, TLC

CONSTANTS ann, bob          \* clients

x == <<120>>
y == <<121>>
Known == x :> <<10, 0, 0, 7>> @@ y :> <<10, 0, 1, 8>>

\* A request whose letter y (121) became 0 is answered with an error that
\* verifies if the ID is 98: 7 + 16 + 98 + (0 - 121) adds up to nothing.
OneClient == {ann}
OneRequestID == ann :> 98
TwoHosts == ann :> <<y, x>>

\* A name too long for the buffer, whose last three bytes add up to 255.
long == [i \in 1..15 |-> 120] \o <<85, 85, 85>>
LongClient == {bob}
LongRequestID == bob :> 3
LongHostList == bob :> <<long>>

NoFaults == [k \in FaultKinds |-> 0]
OneFault == [k \in FaultKinds |-> 1]

SomeNoise == {0, 1, 255}
=============================================================================
