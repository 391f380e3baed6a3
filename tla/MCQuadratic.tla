---------------------------- MODULE MCQuadratic ----------------------------
(***************************************************************************)
(* An instance of Quadratic for TLC: the two files of the project with     *)
(* several numbers, among them some that wrap around; on the stack machine *)
(* every program of three instructions behind two that fill the stack; on  *)
(* the accumulator machine every program of two.  A word has 15 bits.      *)
(***************************************************************************)
EXTENDS Quadratic

Samples ==
    { <<3, 7, 5, 4>>, <<0, 1, 2, 3>>, <<32766, 7, 5, 4>>,
              <<200, 3, 32767, 1>>, <<181, 1, 0, 32767>> }

StackChoice ==
    << Instr(PUSH, X), Instr(PUSH, OpA),
       Instr(PUSH, 0), Instr(PUSH, STACK_SEG_BASE + 20),
       Instr(POP, OpB), Instr(POP, STACK_SEG_BASE),
       Instr(POP, DATA_SEG_BASE + DATA_SEG_LENGTH),
       Instr(POP, DATA_SEG_BASE + DATA_SEG_LENGTH + 1),
       Instr(POP, TEXT_SEG_BASE + 5),
       Plain(ADD), Plain(SUB), Plain(MULT), Plain(DIV), Plain(END),
       Instr(LOAD, X) >>

AccumChoice ==
    << Instr(LOAD, OpA), Instr(LOAD, 0), Instr(STORE, OpB),
       Instr(STORE, 0), Instr(STORE, TEXT_SEG_BASE + 3),
       Instr(STORE, STACK_SEG_BASE), Instr(ADD, X), Instr(MULT, OpA),
       Instr(PUSH, X), Plain(END) >>

Short(code) == Data(<<3, 0>>) \o <<Blank, Directive("text")>> \o code

Nth(choice, k) == choice[1 + (k % Len(choice))]

StackShort(k) ==
    Short(<< Instr(PUSH, X), Instr(PUSH, X),
             Nth(StackChoice, k), Nth(StackChoice, k \div Len(StackChoice)),
             Nth(StackChoice, k \div (Len(StackChoice) * Len(StackChoice))) >>)

AccumShort(k) ==
    Short(<< Instr(LOAD, X), Nth(AccumChoice, k),
             Nth(AccumChoice, k \div Len(AccumChoice)) >>)

\* One and two instructions more than the text segment holds, a line behind
\* a blank one, data in other segments, lines in the wrong block.
Long(n) == Short([k \in 1..n |-> Instr(IF k % 2 = 0 THEN POP ELSE PUSH, X)])
Odd == << Long(TEXT_SEG_LENGTH), Long(TEXT_SEG_LENGTH + 1),
          Long(TEXT_SEG_LENGTH + 2),
          Short(<<Instr(PUSH, X), Blank, Plain(END)>>),
          Short(<<Datum(X, 1), Plain(END)>>), <<Directive("data"), Plain(END)>>,
          << Directive("data"), Datum(STACK_SEG_BASE, 1), Datum(X, 2),
             Datum(TEXT_SEG_BASE, 1), Directive("text"), Plain(END) >>,
          Short(<<>>) >>

Shorts(choice, lines) == 0..((IF lines = 2 THEN 1 ELSE Len(choice))
                                * Len(choice) * Len(choice) - 1)

SomeSessions ==
    {<<Odd[k], Odd[k]>> : k \in DOMAIN Odd}
        \cup {<<StackShort(k), <<>> >> : k \in Shorts(StackChoice, 3)}
        \cup {<< <<>>, AccumShort(k)>> : k \in Shorts(AccumChoice, 2)}

SomeJunk == {0, 9}
=============================================================================
