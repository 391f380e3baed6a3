----------------------------- MODULE Quadratic -----------------------------
(***************************************************************************)
(* comp4300/project1 as a whole: a file is run on stackSim, then one on    *)
(* accumSim.  Each of them is linked with util.cpp, so there are two sets  *)
(* of its globals.  The files of the project, stackCode and accumCode,     *)
(* evaluate the same quadratic polynomial.                                 *)
(***************************************************************************)
EXTENDS StackSim

CONSTANTS
    Sessions,     \* pairs of a file for stackSim and one for accumSim
    Numbers       \* numbers X, A, B, C that the files of the project are
                  \* given, the same to both

VARIABLES a_file, a_line, a_segment, a_mem, a_PC, a_status, a_answer

accumVars ==
    <<a_file, a_line, a_segment, a_mem, a_PC, a_status, a_answer>>

A == INSTANCE AccumSim WITH
        file <- a_file, line <- a_line, segment <- a_segment,
        mem <- a_mem, PC <- a_PC, status <- a_status, answer <- a_answer

X == DATA_SEG_BASE
OpA == DATA_SEG_BASE + 1
OpB == DATA_SEG_BASE + 2
OpC == DATA_SEG_BASE + 3
TEMP == DATA_SEG_BASE + 4

Data(numbers) ==
    <<Directive("data")>> \o
        [n \in 1..Len(numbers) |-> Datum(DATA_SEG_BASE + n - 1, numbers[n])]

\* An instruction without an operand.
Plain(op) == Instr(op, 0)

stackCode(numbers) ==
    Data(numbers) \o
    << Blank, Directive("text"),
       Instr(PUSH, OpA), Instr(PUSH, X), Instr(PUSH, X), Plain(MULT),
       Plain(MULT), Instr(PUSH, OpB), Instr(PUSH, X), Plain(MULT),
       Plain(ADD), Instr(PUSH, OpC), Plain(ADD), Plain(END) >>

accumCode(numbers) ==
    Data(numbers \o <<0, 0>>) \o
    << Blank, Directive("text"),
       Instr(LOAD, X), Instr(MULT, X), Instr(MULT, OpA), Instr(STORE, TEMP),
       Instr(LOAD, OpB), Instr(MULT, X), Instr(ADD, TEMP), Instr(ADD, OpC),
       Plain(END) >>

Ended(s) == s \notin {"loading", "running"}

InitBoth ==
    /\ \/ \E s \in Sessions : file = s[1] /\ a_file = s[2]
       \/ \E n \in Numbers : file = stackCode(n) /\ a_file = accumCode(n)
    /\ Init
    /\ A!Init

StackStep == Next /\ UNCHANGED accumVars
AccumStep == Ended(status) /\ A!Next /\ UNCHANGED vars

NextBoth == StackStep \/ AccumStep

BothSpec == InitBoth /\ [][NextBoth]_<<vars, accumVars>>

\* A machine is a loop that nothing else holds up.
FairSpec == BothSpec /\ WF_<<vars, accumVars>>(NextBoth)
-----------------------------------------------------------------------------
BothTypeOK == TypeOK /\ A!TypeOK

\* A x^2 + B x + C, as one would compute it by hand.
Value(n) ==
    ((((n[2] * n[1] + n[3]) % WordSize) * n[1]) + n[4]) % WordSize

\* "Code to evaluate a quadratic" (quadratic_eval.s:2): both simulators come
\* to an end, and whatever the numbers are, either prints the value of the
\* polynomial, modulo the size of a word, though the one keeps intermediate
\* results on its stack and the other in the words next to the numbers.
QuadraticIsEvaluated ==
    <>(/\ Ended(status) /\ Ended(a_status)
       /\ \A n \in Numbers :
             /\ file = stackCode(n) =>
                   status = "answered" /\ answer = Value(n)
             /\ a_file = accumCode(n) =>
                   a_status = "answered" /\ a_answer = Value(n))
=============================================================================
