---------------------------- MODULE PipeSimLabs ----------------------------
(***************************************************************************)
(* What comp4300/project3 promises of its three programs on its simulator. *)
(* The promises hold unless an unassigned field of a latch happens to name *)
(* a register that the next instruction uses.                              *)
(***************************************************************************)
EXTENDS PipeSim, LabPrograms

\* Immediates and registers suffice for the programs, and an address, taken
\* as a number with a sign, is positive.  What is typed ends at a newline and
\* holds no zeros.
ASSUME PipeSimLabsAssumption ==
    /\ R_LENGTH > 12
    /\ ImmSize > 1024 /\ ImmSize > DataBase + 2
    /\ WordSize > 8880 /\ WordSize > 2 * (DataBase + DATA_SEG_LENGTH)
    /\ \A line \in Lines : \A n \in DOMAIN line : line[n] \notin {0, 10}

\* The lab program that runs.
source == Sources[FILENAME]

\* README.md:24-27 of the project: "Output: 8880", "Total Clock Cycles: 51",
\* "Total Instructions Executed: 50", "Number of NOPs: 1".
Lab3cTotals ==
    status # "user" /\ ~stray /\ source = lab3c =>
        /\ status = "halted"
        /\ output = << <<"int", 8880>> >>
        /\ <<cycle_count, instr_count, nop_count>> = <<51, 50, 1>>

DataAddress(name) == data_symbol_table(source, name)

\* The line that was typed, up to the newline that was stored behind it.
Typed ==
    LET first == DataAddress("string_space") - DataBase
        end == CHOOSE k \in first..(DATA_SEG_LENGTH - 1) :
                  DATA_SEG[k] = 10 /\ \A j \in first..(k - 1) : DATA_SEG[j] # 10
    IN  [n \in 1..(end - first) |-> DATA_SEG[first + n - 1]]

IsPalindrome(line) == line = Reverse(line)

\* lab3b.s prints "The string is a palindrome." for a palindrome and "The
\* string is not a palindrome." for any other line (lines 2-3), whatever
\* line is typed, the empty one included.
PalindromeVerdict ==
    status = "halted" /\ ~stray /\ source = lab3b =>
        output = << <<"string",
                      DataAddress(IF IsPalindrome(Typed) THEN "is_palin_msg"
                                  ELSE "not_palin_msg")>> >>

\* The programs that print something print what they should.
LabsPrintTheirResults == Lab3cTotals /\ PalindromeVerdict

\* Each of the three programs comes to its end: by system call 10, or, if
\* the line typed does not leave a zero behind it in the data segment, by an
\* exception of read_mem() or write_mem() (mem.cpp:553, 583).
LabsEnd ==
    source \in {lab3a, lab3b, lab3c} => <>(status # "user" \/ stray)
=============================================================================
