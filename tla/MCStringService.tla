-------------------------- MODULE MCStringService --------------------------
(***************************************************************************)
(* An instance of StringService for TLC.  A byte has 16 values, so that    *)
(* texts of up to 28 characters have every kind of length there is: below  *)
(* and above half a byte, a byte, the server's buffer, and lengths of      *)
(* which too little is sent.                                               *)
(***************************************************************************)
EXTENDS StringService

Times(n, ch) == [i \in 1..n |-> ch]

Texts16 == {
    <<"b", "b">>, <<"A", " ">>,                          \* short
    Times(3, "a"),                                       \* 8: no such length
    Times(10, "e") \o <<"b">>,                           \* 16: a byte is sent
    Times(2, "b") \o Times(10, "a"),                     \* 17: all is sent
    Times(8, "a") \o <<"b", " ", " ", "O", " ">>,        \* 18: 33 are sent
    Times(9, "b") \o Times(7, "u"),                      \* 21: exceeds BUFSIZE
    Times(2, "a") \o Times(9, "b") \o Times(8, "i"),     \* 24: looks like 8
    Times(14, "a") \o Times(14, "b") }                   \* 33: 18 are sent

SomeQuestions ==
    [service : {"UDP", "TCP"}, op : {"vLength", "disemvowel"}, text : Texts16,
     named : {TRUE}]
    \cup [service : {"UDP", "TCP"}, op : {"other"}, text : {<<"b", "b">>}, named : {TRUE}]
    \cup [service : {"UDP"}, op : {"vLength"}, text : {<<"b", "b">>}, named : {FALSE}]
=============================================================================
