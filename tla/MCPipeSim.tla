----------------------------- MODULE MCPipeSim -----------------------------
(***************************************************************************)
(* An instance of PipeSimLabs for TLC: the three programs of the project   *)
(* and all sources with two lines out of a choice, in which LI comes first *)
(* so that a register holds an address.  Words have 16 bits, immediates 15,*)
(* the data segment nine cells.                                            *)
(***************************************************************************)
EXTENDS PipeSimLabs, TLC

Choice == <<
    add(1, 1, 0), add(1, 0, 0), add(0, 1, 1),
    addi(1, 1, 1), addi(1, 0, 2), subi(0, 1, 1),
    li(0, -1), la(0, "d"), lb(0, 1), lb(1, 1),
    Label("x"), Blank, nop, bne(0, 1, "x"), beqz(1, "x"), syscall >>

\* The k-th source of two of these lines between an LI and a NOP.
Nth(k) == Choice[1 + (k % Len(Choice))]
ShortSource(k) ==
    << Directive("data"), Datum("s", 1), Datum("d", 2), Directive("text"),
       li(1, 4097), Nth(k), Nth(k \div Len(Choice)), nop >>

SomeSources ==
    <<lab3a, lab3b, lab3c>>
        \o [k \in 1..(Len(Choice) * Len(Choice)) |-> ShortSource(k)]

\* Up to four letters, and six: that is more than fits.
a == 97
z == 122
SomeLines ==
    UNION {[1..n -> {a, z}] : n \in 0..4} \cup {<<a, a, a, a, a, a, a, a>>}

SomeRd == {1, 5, 10, 255}
SomeWord == {3}
=============================================================================
