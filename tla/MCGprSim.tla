------------------------------ MODULE MCGprSim ------------------------------
(***************************************************************************)
(* An instance of GprSim for TLC: palindrome.s with two sizes of its       *)
(* buffer, and all sources with two lines out of a choice, with and without*)
(* a CR at the end of each line.  Words have 16 bits, immediates 15, the   *)
(* data segment nine cells.                                                *)
(***************************************************************************)
EXTENDS GprSim, TLC

Choice == <<
    addi(1, 1, 1), addi(1, 0, 256), subi(0, 1, 2), subi(1, 0, 1), li(1, 2048),
    la(0, "d"), lb(0, 1), lb(1, 0), Label("x"), Blank,
    bge(0, 1, "x"), bne(0, 1, "x"), beqz(1, "x"), b("x"), b("y"), syscall >>

Nth(k) == Choice[1 + (k % Len(Choice))]
ShortSource(k) ==
    << Directive("data"), Datum("s", 1), Datum("d", 2), Directive("text"),
       li(1, 4097), Nth(k), Nth(k \div Len(Choice)), subi(0, 0, 1) >>

LineFeedOnly(src) == [p \in DOMAIN src |-> WithoutCR(src[p])]

SomeSources ==
    <<palindrome(1024), palindrome(2), LineFeedOnly(palindrome(2))>>
        \o [k \in 1..(Len(Choice) * Len(Choice)) |-> ShortSource(k)]

\* Up to four letters, one of which is negative as a char; seven, which just
\* fit, and eight.
a == 97
e == 233
LinesTyped ==
    UNION {[1..n -> {a, e}] : n \in 0..4}
        \cup {<<a, a, a, a, a, a, a>>, <<a, a, a, a, a, a, e, a>>}

SomeLines ==
    [f \in DOMAIN SomeSources |-> IF f <= 2 THEN LinesTyped ELSE {<<a, e>>}]

SomeJunk == {0, 7}
=============================================================================
