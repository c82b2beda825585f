----------------------------- MODULE MCParse -----------------------------
(* The text functions of Parse, over all short texts of small alphabets. *)
EXTENDS Parse

(* Three names of _CMD_TABLE, one with the first letter of another, and a fourth
   that begins with a whole name, as "CLKDIV" would if there were a "CLK". *)
SmallTable == <<<<"A">>, <<"C", "S">>, <<"T", "L", "S">>, <<"C", "S", "X">>>>

(* Letters in both cases, one of no command, and what may follow a command;
   a sign, digits and what is none; bytes, commas and spaces.              *)
TaskAlphabet ==
    [find |-> {"A", "c", "C", "S", "x", "1", "="},
     number |-> {"-", "0", "1", "6", "x"},
     auto |-> {"0", "1", "A", " ", ","}]

TaskLen == [find |-> 4, number |-> 5, auto |-> 8]
==========================================================================
