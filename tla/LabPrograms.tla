---------------------------- MODULE LabPrograms ----------------------------
(***************************************************************************)
(* The three programs of comp4300/project3, line by line.                  *)
(***************************************************************************)
EXTENDS Assembler

\* 32 times around a loop with five NOPs in it.
lab3a == <<
    Directive("text"),
    Label("main"),
    li(1, 0),
    li(2, 32),
    Blank,
    Label("loop"),
    subi(2, 2, 1),
    nop, nop, nop, nop, nop,
    bge(2, 1, "loop"),
    nop,
    li(2, 10),
    syscall >>

\* Reads a line and says whether it is a palindrome.
lab3b == <<
    Directive("data"),
    Datum("is_palin_msg", 1),
    Datum("not_palin_msg", 1),
    Datum("string_space", 1024),
    Blank,
    Directive("text"),
    Label("main"),
    la(4, "string_space"), li(5, 1024), li(2, 8), syscall,
    Blank,
    la(9, "string_space"), la(10, "string_space"),
    Blank,
    Label("length_loop"),
    lb(11, 10), nop,
    beqz(11, "end_length_loop"), nop,
    Blank,
    addi(10, 10, 1),
    b("length_loop"), nop,
    Blank,
    Label("end_length_loop"),
    subi(10, 10, 2),
    Blank,
    Label("test_loop"),
    bge(9, 10, "is_palin"), nop,
    Blank,
    lb(11, 9), nop,
    lb(12, 10), nop,
    bne(11, 12, "not_palin"), nop,
    Blank,
    addi(9, 9, 1),
    subi(10, 10, 1),
    b("test_loop"), nop,
    Blank,
    Label("is_palin"),
    Blank,
    la(4, "is_palin_msg"), li(2, 4), syscall,
    b("exit"), nop,
    Blank,
    Label("not_palin"),
    la(4, "not_palin_msg"), li(2, 4), syscall,
    b("exit"), nop,
    Blank,
    Label("exit"),
    li(2, 10),
    syscall >>

\* Adds 10, 100 and 1000 eight times.
lab3c == <<
    Directive("text"),
    Blank,
    Label("main"),
    li(1, 0), li(2, 10), li(3, 100), li(4, 1000), li(5, 7),
    Blank,
    Label("loop"),
    subi(5, 5, 1),
    add(1, 1, 2), add(1, 1, 3), add(1, 1, 4),
    bge(5, 0, "loop"),
    nop,
    Blank,
    add(4, 0, 1),
    li(2, 1),
    syscall,
    Blank,
    li(2, 10),
    syscall >>
=============================================================================
