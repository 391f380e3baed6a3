----------------------------- MODULE Calculator -----------------------------
(***************************************************************************)
(* What the stack machine of comp4300/project1 is for: a calculator with   *)
(* named numbers and a stack.  A program and the numbers are keyed in; then*)
(* the program is carried out, each instruction on the stack and nothing   *)
(* but the stack.  There are no segments, no addresses below or behind     *)
(* anything, no encoded instructions.                                      *)
(***************************************************************************)
EXTENDS StackWords

CONSTANTS
    Name,         \* the addresses of the numbers
    Onto,         \* the addresses that stand for the top of the stack
    Capacity      \* of the stack

VARIABLES program, store, stack, pc, status, answer

vars == <<program, store, stack, pc, status, answer>>

Item == [op : OpCodes, address : Address]

Init ==
    /\ program = <<>>
    /\ store = [d \in Name |-> 0]
    /\ stack = <<>>
    /\ pc = 1
    /\ status = "loading"
    /\ answer = 0

Enter ==
    /\ status = "loading"
    /\ program' # <<>>
    /\ LET item == program'[Len(program')]
       IN  item \in Item /\ program' = Append(program, item)
    /\ UNCHANGED <<store, stack, pc, status, answer>>

Record ==
    /\ status = "loading"
    /\ \E d \in Name : /\ store'[d] \in Word
                       /\ store' = [store EXCEPT ![d] = store'[d]]
    /\ UNCHANGED <<program, stack, pc, status, answer>>

Reached(p) == IF p <= Len(program) THEN "running" ELSE "complete"

Start ==
    /\ status = "loading"
    /\ status' = Reached(pc)
    /\ UNCHANGED <<program, store, stack, pc, answer>>

i == program[pc]
Top == stack[Len(stack)]
Second == stack[Len(stack) - 1]
Without(n) == SubSeq(stack, 1, Len(stack) - n)

\* The next instruction leaves stack s and numbers n.
Then(s, n) ==
    /\ stack' = s
    /\ store' = n
    /\ pc' = pc + 1
    /\ status' = Reached(pc + 1)
    /\ UNCHANGED <<program, answer>>

Push ==
    /\ i.op = PUSH /\ i.address \in Name
    /\ Len(stack) < Capacity
    /\ Then(Append(stack, store[i.address]), store)

Pop ==
    /\ i.op = POP /\ i.address \in Name
    /\ stack # <<>>
    /\ Then(Without(1), [store EXCEPT ![i.address] = Top])

\* What is taken from the top and put onto it stays where it was.
PopOnto ==
    /\ i.op = POP /\ i.address \in Onto
    /\ stack # <<>>
    /\ Then(stack, store)

Operate ==
    /\ i.op \in Operators
    /\ Len(stack) >= 2
    /\ i.op = DIV => Top # 0
    /\ Then(Append(Without(2), Result(i.op, Second, Top)), store)

\* The answer is the top of the stack; an empty stack has none to give.
End ==
    /\ i.op = END
    /\ stack # <<>> => answer' = Top
    /\ answer' \in Word
    /\ stack' = Without(1)
    /\ status' = "answered"
    /\ UNCHANGED <<program, store, pc>>

\* An instruction that cannot be carried out stops the calculator.
Impossible ==
    \/ i.op = PUSH /\ Len(stack) = Capacity
    \/ i.op \in {POP, END} /\ stack = <<>>
    \/ i.op \in Operators /\ Len(stack) < 2
    \/ i.op = DIV /\ Len(stack) >= 2 /\ Top = 0
    \/ i.op \notin {PUSH, POP, END} \cup Operators

Stop ==
    /\ Impossible
    /\ status' \in {"threw", "crashed"}
    /\ UNCHANGED <<program, store, stack, pc, answer>>

Next ==
    \/ Enter \/ Record \/ Start
    \/ /\ status = "running"
       /\ Push \/ Pop \/ PopOnto \/ Operate \/ End \/ Stop

Spec == Init /\ [][Next]_vars
=============================================================================
