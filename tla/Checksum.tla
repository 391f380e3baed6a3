------------------------------ MODULE Checksum ------------------------------
(***************************************************************************)
(* The checksum of the resolver of comp4320/project2.  UDPClient.c and     *)
(* UDPserver.py each hold two copies of the same loop over the bytes of a  *)
(* datagram: an eight bit addition whose carry is added back.  The comment *)
(* of UDPserver.py 28 says "WITHOUT CARRY"; what is modelled is the code.  *)
(***************************************************************************)
EXTENDS Integers, Sequences

Byte == 0..255

\* Faulty: the carry stays where it is.
wrap_NoFold == [sum \in Nat |-> sum]

\* sum = (sum & 0xff) + (sum >> 8); sum = sum & 0xff
wrap == [sum \in Nat |-> ((sum % 256) + (sum \div 256)) % 256]

\* sum += byte, and the carry comes back in.
plus(sum, byte) == wrap[sum + byte]

\* The loop over the bytes of a message: f[n] is the sum of the first n.
checkTheCheckSum == [message \in Seq(Byte) |->
    LET f[n \in 0..Len(message)] ==
            IF n = 0 THEN 0 ELSE plus(f[n - 1], message[n])
    IN  f[Len(message)]]

\* ~sum as an unsigned char
checkSum(message) == 255 - checkTheCheckSum[message]

\* What makes a datagram valid, for both programs.
Verifies(message) == checkTheCheckSum[message] = 255
=============================================================================
