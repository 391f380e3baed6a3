----------------------------- MODULE Scoreboard -----------------------------
(***************************************************************************)
(* comp4300/project4/src/scoreboard/scoreboard.cpp: a scoreboard that      *)
(* issues a program, one word in a cycle.  An action is one round of the   *)
(* loop of run(), init() is done in the initial state.                     *)
(*                                                                         *)
(* The program is not complete: nothing that was issued ever completes,    *)
(* and the test for hazards, can_issue_instr(), is commented out.  It is   *)
(* modelled beside the loop, by what it would have said.                   *)
(***************************************************************************)
EXTENDS ScoreboardWords

CONSTANTS
    F_LENGTH,           \* the number of floating point registers, 32
    TEXT_SEG_LENGTH,
    Sources,            \* the assembler files
    Junk                \* the words that may be found where none was assigned

UNUSED == 99

INTEGER_FU == 0
MULT1_FU == 1
MULT2_FU == 2
ADD_FU == 3
DIVIDE_FU == 4
Units == INTEGER_FU..DIVIDE_FU

UnitFields == {"BUSY", "OP", "FI", "FJ", "FK", "QJ", "QK", "RJ", "RK"}
Registers == 0..(R_LENGTH + F_LENGTH - 1)

\* A field of five bits holds the number of any register that is not for
\* floating point, and is the number of some register; UNUSED is not.
ASSUME ScoreboardAssumption ==
    /\ R_LENGTH \in 0..32 /\ F_LENGTH \in Nat
    /\ R_LENGTH + F_LENGTH \in 32..UNUSED
    /\ TEXT_SEG_LENGTH \in Nat
    /\ Junk \subseteq Word

ASSUME SourcesAssumption ==
    \A src \in Sources : Encoded_lines(src) \in Seq(Line)

VARIABLES
    file,         \* the lines of the file that was named
    text,         \* TEXT_SEG up to TEXT_TOP
    PC,           \* the index of a word: PC - TEXT_SEG_BASE
    cycleCount,
    instr_status, \* when each word was issued, 0 if it was not; the other
                  \* columns of the board are never written
    fu_status, res_status,
    status,       \* "running", "halted", or "threw" after an exception
    checked       \* can_issue_instr() would have let all words pass

vars == <<file, text, PC, cycleCount, instr_status, fu_status, res_status,
          status, checked>>

TypeOK ==
    /\ text \in Seq(Word) /\ DOMAIN text = DOMAIN Encoded_lines(file)
    /\ PC \in 0..TEXT_SEG_LENGTH
    /\ status = "running" => PC <= Len(text)
    /\ cycleCount \in 1..(Len(text) + 2)
    /\ instr_status \in [0..(TEXT_SEG_LENGTH - 1) -> Nat]
    /\ fu_status \in [Units -> [UnitFields -> 0..31 \cup {UNUSED}]]
    /\ res_status \in [Registers -> Units \cup {UNUSED}]
    /\ status \in {"running", "halted", "threw"}
    /\ checked \in BOOLEAN

\* A file that does not fit into the text segment is not run.
Init ==
    /\ file \in Sources
    /\ text \in Texts(file, Junk)
    /\ PC = 0
    /\ cycleCount = 1
    /\ instr_status = [k \in 0..(TEXT_SEG_LENGTH - 1) |-> 0]
    /\ fu_status = [f \in Units |-> [x \in UnitFields |-> UNUSED]]
    /\ res_status = [d \in Registers |-> UNUSED]
    /\ status = IF Len(text) <= TEXT_SEG_LENGTH THEN "running" ELSE "threw"
    /\ checked = TRUE

\* The word at PC: behind the last one there is a zero.
instr == IF PC < Len(text) THEN text[PC + 1] ELSE {}

op_code == getBits(instr, 26, 31)
dest == getBits(instr, 16, 20)

Codes(ops) == {OpCode[op] : op \in ops}

\* Faulty: a unit that was never used counts as free.
get_fu_Unused ==
    CASE op_code \in Codes({"b", "beqz", "bge", "bne", "li", "ld"}) ->
            INTEGER_FU
      [] op_code = OpCode["fmul"] /\ fu_status[MULT1_FU]["BUSY"] # 1 ->
            MULT1_FU
      [] op_code = OpCode["fmul"] /\ fu_status[MULT2_FU]["BUSY"] # 1 ->
            MULT2_FU
      [] op_code \in Codes({"add", "addi", "subi", "fadd", "fsub"})
            /\ fu_status[ADD_FU]["BUSY"] # 1 -> ADD_FU
      [] OTHER -> UNUSED

\* BUSY is read as a truth value: UNUSED is true.
IsFree(f) == fu_status[f]["BUSY"] = 0

get_fu ==
    CASE op_code \in Codes({"b", "beqz", "bge", "bne", "li", "ld"}) ->
            INTEGER_FU
      [] op_code = OpCode["fmul"] /\ IsFree(MULT1_FU) -> MULT1_FU
      [] op_code = OpCode["fmul"] /\ IsFree(MULT2_FU) -> MULT2_FU
      [] op_code \in Codes({"add", "addi", "subi", "fadd", "fsub"})
            /\ IsFree(ADD_FU) -> ADD_FU
      [] OTHER -> UNUSED

(***************************************************************************)
(* The test for hazards                                                    *)
(***************************************************************************)
check_for_waw == \E f \in Units : fu_status[f]["FI"] = dest

check_for_str_haz == res_status[dest] # UNUSED

\* Faulty: a unit that is busy is not found.
can_issue_instr_Busy == ~check_for_waw /\ ~check_for_str_haz

\* Of a word that has no unit the program would look at fu_status[99], which
\* is taken for one that is not busy.
can_issue_instr ==
    /\ get_fu \in Units => fu_status[get_fu]["BUSY"] # 1
    /\ ~check_for_waw
    /\ ~check_for_str_haz

(***************************************************************************)
(* A cycle                                                                 *)
(***************************************************************************)

\* issue_instr() on the units and on the registers.
Occupied ==
    IF get_fu = UNUSED THEN fu_status
    ELSE [fu_status EXCEPT
            ![get_fu]["BUSY"] = 1,
            ![get_fu]["OP"] = op_code,
            ![get_fu]["FI"] = dest,
            ![get_fu]["FJ"] = getBits(instr, 21, 25),
            ![get_fu]["FK"] = getBits(instr, 11, 15)]

Reserved == [res_status EXCEPT ![dest] = get_fu]

\* lastComplete stays 0, so that all is complete only in an empty program.
all_complete == Len(text) = 0

\* Operands can always be had.
maintain_instr(units) ==
    IF all_complete THEN units
    ELSE [f \in Units |->
            IF units[f]["FJ"] # UNUSED /\ units[f]["FK"] # UNUSED
            THEN [units[f] EXCEPT !["RJ"] = 1, !["RK"] = 1]
            ELSE units[f]]

\* Faulty: the run ends one word early.
HaltOrGoOn_Early ==
    IF PC + 1 >= Len(text) THEN status' = "halted" /\ UNCHANGED PC
    ELSE PC' = PC + 1 /\ UNCHANGED status

\* Faulty: the run does not end.
HaltOrGoOn_Never == PC' = PC + 1 /\ UNCHANGED status

\* PC is compared with TEXT_TOP when the word at PC has been issued.
HaltOrGoOn ==
    IF PC = Len(text) THEN status' = "halted" /\ UNCHANGED PC
    ELSE PC' = PC + 1 /\ UNCHANGED status

Cycle ==
    /\ status = "running"
    /\ PC < TEXT_SEG_LENGTH
    /\ checked' = (checked /\ can_issue_instr)
    /\ instr_status' = [instr_status EXCEPT ![PC] = cycleCount]
    /\ fu_status' = maintain_instr(Occupied)
    /\ res_status' = Reserved
    /\ cycleCount' = cycleCount + 1
    /\ HaltOrGoOn
    /\ UNCHANGED <<file, text>>

\* read_mem() behind the text segment.
Throw ==
    /\ status = "running"
    /\ PC >= TEXT_SEG_LENGTH
    /\ status' = "threw"
    /\ UNCHANGED <<file, text, PC, cycleCount, instr_status, fu_status,
                   res_status, checked>>

Next == Cycle \/ Throw

\* run() is a loop that nothing else holds up.
FairSpec == Init /\ [][Next]_vars /\ WF_vars(Next)

(***************************************************************************)
(* Properties                                                              *)
(***************************************************************************)
lines == Encoded_lines(file)

\* Lines whose words are assigned and whose registers fit into a field.
PlainLine(l) ==
    ~IsUnset(l) /\ {l.rd, l.rs, l.rt} \subseteq 0..(R_LENGTH - 1)

\* What a line says about itself: whether it is for the integer unit, the
\* register that is reserved for it and, of those for the integer unit, the
\* first operand.
ForInteger(l) == l.op \in {"b", "beqz", "bge", "bne", "li"}
DestOf(l) ==
    CASE l.op \in {"addi", "subi", "li", "la", "lb", "fadd", "fsub", "fmul"} ->
            l.rd
      [] l.op \in {"add", "bge", "bne"} -> l.rt
      [] OTHER -> 0
FirstOf(l) == IF l.op \in {"beqz", "bge", "bne"} THEN l.rd ELSE 0

\* The lines issued so far, without the word behind the last one.
Issued == {n \in DOMAIN lines : n <= PC}

\* "fu_status[FU][FI] = dest" and its neighbours (scoreboard.cpp:195-202) of a
\* file without floating point registers: the integer unit has what the last
\* of its lines says, no other unit is ever used, and a register is reserved
\* if the last line with it for a destination was for the integer unit.
BoardsShowTheLines ==
    (status = "running" /\ \A n \in DOMAIN lines : PlainLine(lines[n])) =>
        LET integers == {n \in Issued : ForInteger(lines[n])}
            u == fu_status[INTEGER_FU]
            last(d) == {n \in Issued : DestOf(lines[n]) = d}
        IN  /\ \A f \in Units \ {INTEGER_FU} : fu_status[f]["OP"] = UNUSED
            /\ integers = {} => u["OP"] = UNUSED
            /\ integers # {} =>
                  LET l == lines[Max(integers)]
                  IN  <<u["OP"], u["FI"], u["FJ"]>> =
                         <<OpCode[l.op], DestOf(l), FirstOf(l)>>
            /\ \A d \in Registers :
                  res_status[d] = INTEGER_FU <=>
                     last(d) # {} /\ ForInteger(lines[Max(last(d))])

\* "has the structure for handling WAW, structural hazards" (README.md:48):
\* the test that is commented out would be enough.  Had it let every word
\* pass, then a register would be reserved for a unit just when the unit has
\* it for its destination.
TheTestSuffices ==
    checked =>
        \A f \in Units, d \in Registers :
            res_status[d] = f <=> fu_status[f]["FI"] = d

\* "it can parse the file, issue the instructions" (README.md:48): the run
\* ends, and every word has been issued, in its turn and in a cycle of its
\* own, together with the word behind the last; there is none behind a text
\* segment that is full.
EveryWordIsIssued ==
    <>[](/\ status = (IF Len(text) < TEXT_SEG_LENGTH THEN "halted" ELSE "threw")
         /\ Len(text) <= TEXT_SEG_LENGTH =>
               \A k \in DOMAIN instr_status :
                  instr_status[k] = IF k <= Len(text) THEN k + 1 ELSE 0)
=============================================================================
