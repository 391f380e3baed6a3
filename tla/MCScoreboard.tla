---------------------------- MODULE MCScoreboard ----------------------------
(***************************************************************************)
(* An instance of Scoreboard for TLC: the three programs of the project,   *)
(* every program of three lines out of a choice, and programs that fill    *)
(* the text segment, leave one word of it, and are one word too long.      *)
(***************************************************************************)
EXTENDS Scoreboard

lab4a == <<
    Directive("text"),
    Label("main"),
    li(1, 0), li(2, 32),
    Blank,
    Label("loop"),
    subi(2, 2, 1),
    nop, nop, nop, nop, nop,
    bge(2, 1, "loop"),
    nop,
    li(2, 10),
    syscall >>

lab4b == <<
    Directive("text"),
    Label("main"),
    li(5, 7), li(F(0), 0), li(F(1), 10), li(F(3), 100), li(F(4), 1000),
    Label("loop"),
    subi(5, 5, 1),
    fadd(F(0), F(0), F(1)), fadd(F(0), F(0), F(3)), fadd(F(0), F(0), F(4)),
    bge(5, 0, "loop"),
    nop, nop,
    li(2, 10),
    syscall >>

\* The comma that the last branch lacks makes "0 loop" its label.
lab4c == <<
    Directive("data"),
    Datum("d32", 0), Datum("d34", 0), Datum("d33", 0), Datum("d35", 0),
    Datum("d36", 0), Datum("d37", 0),
    Blank,
    Directive("text"),
    Label("main"),
    ld(F(0)), ld(F(2)), ld(F(1)), ld(F(3)), ld(F(5)), ld(F(4)),
    li(1, 0), li(2, 99),
    Blank,
    Label("loop"),
    nop, nop,
    fsub(F(8), F(1), F(2)), fmul(F(6), F(0), F(8)),
    fsub(F(8), F(4), F(5)), fmul(F(7), F(3), F(8)),
    ld(F(2)), ld(F(1)), ld(F(5)), ld(F(4)),
    sd(F(6)), sd(F(7)),
    addi(1, 1, 1),
    bne(5, 5, "0 loop"),
    nop, nop, nop, nop >>

Choice == << li(3, 7), addi(3, 4, 65535), add(3, 4, 31), la(2, "d"), lb(4, 3),
             bge(4, 3, "x"), beqz(3, "x"), b("y"), fmul(5, 3, 4), ld(3), Odd >>

Nth(k) == Choice[1 + (k % Len(Choice))]
Short(k) ==
    << Directive("data"), Datum("e", 1), Datum("d", 1), Directive("text"),
       Nth(k), Label("x"), Nth(k \div Len(Choice)),
       Nth(k \div (Len(Choice) * Len(Choice))) >>

\* An instruction in the data segment, and one before any directive.
Misplaced == << li(4, 1), Directive("data"), li(3, 2), Directive("text"), li(3, 7) >>

Long(n) == <<Directive("text")>> \o [k \in 1..n |-> nop]

SomeSources ==
    { lab4a, lab4b, lab4c, Misplaced, <<Directive("text")>>, Long(TEXT_SEG_LENGTH - 1),
      Long(TEXT_SEG_LENGTH), Long(TEXT_SEG_LENGTH + 1) }
    \cup {Short(k) : k \in 1..(Len(Choice) * Len(Choice) * Len(Choice))}

\* What an earlier line may have left: LI 3 and FMUL 5, 3, 4.
SomeJunk == {Fields("li", 0, 3, 0, 7), Fields("fmul", 3, 5, 4, 0)}
=============================================================================
