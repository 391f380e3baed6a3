----------------------------- MODULE StackWords -----------------------------
(***************************************************************************)
(* comp4300/project1/src/util.h: words, op-codes, and what the arithmetic  *)
(* of the two simulators makes of two words.                               *)
(***************************************************************************)
EXTENDS Integers, Sequences

CONSTANT AddressSize     \* the number of addresses of an instruction, 2^24

\* An instruction has its op-code in the eight upper bits.
WordSize == 256 * AddressSize
Word == 0..(WordSize - 1)
Address == 0..(AddressSize - 1)

ADD == 170
SUB == 85
MULT == 15
DIV == 240
PUSH == 255
POP == 0
LOAD == 225
STORE == 119
END == 165
OpCodes == {ADD, SUB, MULT, DIV, PUSH, POP, LOAD, STORE, END}

Operators == {ADD, SUB, MULT, DIV}

\* What an operator leaves of val2 and, above it, val1.  Words are unsigned.
Result(op, val2, val1) ==
    CASE op = ADD  -> (val2 + val1) % WordSize
      [] op = SUB  -> (val2 - val1) % WordSize
      [] op = MULT -> (val2 * val1) % WordSize
      [] op = DIV  -> val2 \div val1
=============================================================================
