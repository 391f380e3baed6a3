----------------------------- MODULE StringOps -----------------------------
(***************************************************************************)
(* What the string servers of comp4320/project1 compute, and how numbers   *)
(* of two bytes look to them.  A text is a sequence of characters; a byte  *)
(* has ByteSize values, so that texts longer than half a byte can tell, or *)
(* a byte, or two, stay short.                                             *)
(***************************************************************************)
EXTENDS Integers, Sequences, SequencesExt, FiniteSetsExt

CONSTANTS
    ByteSize,     \* how many values a byte has, 256
    White         \* the byte values that Python's strip() removes

ASSUME ByteAssumption ==
    /\ ByteSize \in Nat \ {0} /\ ByteSize % 2 = 0
    /\ White \subseteq 0..ByteSize - 1

Hi(n) == n \div ByteSize
Lo(n) == n % ByteSize

\* A char is signed.
signed_char(b) == IF b >= ByteSize \div 2 THEN b - ByteSize ELSE b

First(n, s) == SubSeq(s, 1, Min({n, Len(s)}))

-----------------------------------------------------------------------------
vowels == <<"a", "e", "i", "o", "u", "A", "E", "I", "O", "U">>

isaVowel(ch) == ch \in Range(vowels)

vowelNumber(s) == Cardinality({i \in DOMAIN s : isaVowel(s[i])})

\* s without the characters that are in chars, read from left to right.
Without(s, chars) ==
    LET rest[k \in 0..Len(s)] ==
            IF k = 0 THEN <<>>
            ELSE IF s[k] \in chars THEN rest[k - 1] ELSE Append(rest[k - 1], s[k])
    IN  rest[Len(s)]

disemVoweling(s) == Without(s, Range(vowels))

get_vowel_count(s) ==
    LET count[k \in 0..Len(s)] ==
            IF k = 0 THEN 0
            ELSE IF isaVowel(s[k]) THEN count[k - 1] + 1 ELSE count[k - 1]
    IN  count[Len(s)]

\* One replace() for each vowel.
disemvowel(s) ==
    LET message[k \in 0..Len(vowels)] ==
            IF k = 0 THEN s ELSE Without(message[k - 1], {vowels[k]})
    IN  message[Len(vowels)]

\* strip() of a message: it begins with a byte of its length, which is no
\* whitespace, so that only the end of its text is cut off.
strip(s) == SubSeq(s, 1, Max({0} \cup {i \in DOMAIN s : s[i] # " "}))
=============================================================================
