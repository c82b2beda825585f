------------------------------ MODULE Parse ------------------------------
(***************************************************************************)
(* The text functions under the commands, each against what it is for:     *)
(* finding a command in the table, reading a decimal number, and reading   *)
(* the parameters of AUTO.                                                 *)
(*                                                                         *)
(* A behaviour takes one text and runs one function over it, a turn of its *)
(* loop or a parameter per step.  Texts are sequences of characters; the   *)
(* terminating NUL is the position after the last one.                     *)
(***************************************************************************)
EXTENDS Integers, Sequences, FiniteSetsExt, SequencesExt

CONSTANTS
    Alphabet,   \* for each function, the characters its text may hold
    MaxLen,     \* bound: for each function, the characters in its text
    Table,      \* the names of _CMD_TABLE, in order
    Half,       \* half of the values of an s32: 2^31
    Divisors    \* divisors spi1_set_prescaler takes

Task == {"find", "number", "auto"}

Digits  == <<"0", "1", "2", "3", "4", "5", "6", "7", "8", "9">>
Letters == <<"A", "B", "C", "D", "E", "F", "G", "H", "I", "J", "K", "L", "M",
             "N", "O", "P", "Q", "R", "S", "T", "U", "V", "W", "X", "Y", "Z">>
Smalls  == <<"a", "b", "c", "d", "e", "f", "g", "h", "i", "j", "k", "l", "m",
             "n", "o", "p", "q", "r", "s", "t", "u", "v", "w", "x", "y", "z">>

(* The characters of a word: is_char. *)
Chars == Range(Digits) \cup Range(Letters) \cup Range(Smalls) \cup {"*", "#"}

ASSUME ParseAssumption ==
    /\ DOMAIN Alphabet = Task
    /\ MaxLen \in [Task -> Nat]
    /\ Table \in Seq(Seq(Chars))
    /\ Half \in Nat \ {0}
    /\ Divisors \subseteq Nat

VARIABLES
    task,    \* the function
    text,    \* its text
    pos,       \* *pptext: the next character's position
    stage,   \* where the function is
    entry,   \* _find_cmd: the table entry compared next
    tmp,     \* parse_number: the number so far
    params,  \* _cmd_auto_set: its three local variables
    result   \* what the function has returned

textVars == <<task, text, pos, stage, entry, tmp, params, result>>

-----------------------------------------------------------------------------
IndexIn(s, c) == CHOOSE i \in DOMAIN s : s[i] = c

(* _isdigit, is_char, the case folding of strnicmp *)
IsDigit(c) == c \in Range(Digits)
IsChar(c)  == c \in Chars
Fold(c)    == IF c \in Range(Smalls) THEN Letters[IndexIn(Smalls, c)] ELSE c

(* is_hex: the digits _hex_to_bin knows *)
HexDigits == Range(Digits) \cup {Letters[i] : i \in 1 .. 6}
IsHex(c)  == Fold(c) \in HexDigits

(* What stands between the parameters, and before a negative number. *)
Space == " "
Comma == ","
Minus == "-"

At(i) == IF i <= Len(text) THEN text[i] ELSE "NUL"

(* The first position from i on that holds no space: _skip_spaces. *)
SkipSpaces(i) == Min({j \in i .. Len(text) + 1 : At(j) # Space})

NoParams == [state |-> "0", get |-> <<"A", "A">>, no |-> <<"F", "F">>]
NoResult == [is |-> "none"]

TextInit ==
    /\ task \in Task
    /\ text \in SeqOf(Alphabet[task], MaxLen[task])
    /\ pos = 1
    /\ stage = "start"
    /\ entry = 1
    /\ tmp = 0
    /\ params = NoParams
    /\ result = NoResult

Return(r) ==
    /\ result' = r
    /\ stage' = "done"

-----------------------------------------------------------------------------
\* mutant: the character behind the name is not looked at
MatchesPrefix(name) ==
    \A i \in DOMAIN name : Fold(At(i)) = Fold(name[i])

(* _find_cmd: strnicmp over the length of the name, and no character of a word
   behind it                                                               *)
Matches(name) ==
    /\ \A i \in DOMAIN name : Fold(At(i)) = Fold(name[i])
    /\ ~IsChar(At(Len(name) + 1))

Find ==
    /\ task = "find" /\ stage = "start"
    /\ entry <= Len(Table)
    /\ IF Matches(Table[entry])
       THEN /\ Return([is |-> "found", at |-> entry])
            /\ pos' = Len(Table[entry]) + 1
            /\ UNCHANGED entry
       ELSE /\ entry' = entry + 1
            /\ UNCHANGED <<pos, stage, result>>
    /\ UNCHANGED <<task, text, tmp, params>>

FindEnds ==
    /\ task = "find" /\ stage = "start"
    /\ entry > Len(Table)
    /\ Return([is |-> "unknown"])
    /\ UNCHANGED <<task, text, pos, entry, tmp, params>>

-----------------------------------------------------------------------------
DigitOf(c) == IndexIn(Digits, c) - 1

Range32 == 2 * Half

(* An s32 in two's complement.  Signed overflow is undefined in C; the Cortex-M
   multiply and add that the compiler emits wrap.                          *)
Wrap(n) ==
    LET m == n % Range32 IN IF m >= Half THEN m - Range32 ELSE m

Sign ==
    /\ task = "number" /\ stage = "start"
    /\ LET q == IF At(1) = Minus THEN 2 ELSE 1
       IN  IF IsDigit(At(q))
           THEN pos' = q /\ stage' = "digits" /\ UNCHANGED result
           ELSE Return([is |-> "NULL"]) /\ UNCHANGED pos
    /\ UNCHANGED <<task, text, entry, tmp, params>>

\* mutant: the character is taken for its place among the digits
DigitPlace ==
    /\ task = "number" /\ stage = "digits"
    /\ IsDigit(At(pos))
    /\ tmp' = Wrap(Wrap(tmp * 10) + IndexIn(Digits, At(pos)))
    /\ pos' = pos + 1
    /\ UNCHANGED <<task, text, stage, entry, params, result>>

Digit ==
    /\ task = "number" /\ stage = "digits"
    /\ IsDigit(At(pos))
    /\ tmp' = Wrap(Wrap(tmp * 10) + DigitOf(At(pos)))
    /\ pos' = pos + 1
    /\ UNCHANGED <<task, text, stage, entry, params, result>>

DigitsEnd ==
    /\ task = "number" /\ stage = "digits"
    /\ ~IsDigit(At(pos))
    /\ Return([is |-> "number",
               value |-> IF At(1) = Minus THEN Wrap(0 - tmp) ELSE tmp])
    /\ UNCHANGED <<task, text, pos, entry, tmp, params>>

-----------------------------------------------------------------------------
\* mutant: the second digit is taken for one
HexAtFirst(i) == IsHex(At(i))

(* _cmd_fetch_hex at position i *)
HexAt(i) == IsHex(At(i)) /\ IsHex(At(i + 1))

Hex(i) == <<At(i), At(i + 1)>>

(* _cmd_fetch_bool; _process_cmd has skipped the spaces before it *)
FetchState ==
    /\ task = "auto" /\ stage = "start"
    /\ IF At(pos) \in {"0", "1"}
       THEN /\ params' = [params EXCEPT !.state = At(pos)]
            /\ pos' = pos + 1
            /\ stage' = "get"
            /\ UNCHANGED result
       ELSE Return([is |-> "invalid"]) /\ UNCHANGED <<pos, params>>
    /\ UNCHANGED <<task, text, entry, tmp>>

(* _cmd_fetch_next, and a byte if there is a comma *)
FetchByte(place, field, next) ==
    LET i == SkipSpaces(pos)
    IN  /\ task = "auto" /\ stage = place
        /\ IF At(i) # Comma
           THEN pos' = i /\ stage' = next /\ UNCHANGED <<params, result>>
           ELSE IF HexAt(i + 1)
                THEN /\ params' = [params EXCEPT ![field] = Hex(i + 1)]
                     /\ pos' = i + 3
                     /\ stage' = next
                     /\ UNCHANGED result
                ELSE /\ Return([is |-> "invalid"])
                     /\ pos' = i + 1
                     /\ UNCHANGED params
        /\ UNCHANGED <<task, text, entry, tmp>>

FetchGet == FetchByte("get", "get", "no")

\* mutant: the second byte goes to the first parameter
FetchNoTwice == FetchByte("no", "get", "assign")

FetchNo == FetchByte("no", "no", "assign")

(* main_spi_auto, main_spi_get_resp and main_spi_no_resp, together *)
Assign ==
    /\ task = "auto" /\ stage = "assign"
    /\ Return([is |-> "set", value |-> params])
    /\ UNCHANGED <<task, text, pos, entry, tmp, params>>

TextNext ==
    \/ Find \/ FindEnds
    \/ Sign \/ Digit \/ DigitsEnd
    \/ FetchState \/ FetchGet \/ FetchNo \/ Assign

TextSpec == TextInit /\ [][TextNext]_textVars

-----------------------------------------------------------------------------
(* No function looks behind the terminating NUL. *)
InsideText == pos \in 1 .. Len(text) + 1

TextTypeOK ==
    /\ stage \in {"start", "digits", "get", "no", "assign", "done"}
    /\ InsideText
    /\ tmp \in 0 - Half .. Half - 1

(* The word a text begins with. *)
Word == SubSeq(text, 1, Min({j \in 1 .. Len(text) + 1 : ~IsChar(At(j))}) - 1)

SameWord(a, b) ==
    Len(a) = Len(b) /\ \A i \in DOMAIN a : Fold(a[i]) = Fold(b[i])

(* A command is found exactly when the whole word at the beginning of the line is
   its name in any case: no name hides one that it is the beginning of.    *)
FoundIsWord ==
    (task = "find" /\ stage = "done") =>
        /\ result.is = "found" => SameWord(Word, Table[result.at]) /\ pos = Len(Word) + 1
        /\ result.is = "unknown" => \A e \in DOMAIN Table : ~SameWord(Word, Table[e])

(* The digits of a number, after its sign. *)
From == IF At(1) = Minus THEN 2 ELSE 1

Written ==
    SubSeq(text, From, Min({j \in From .. Len(text) + 1 : ~IsDigit(At(j))}) - 1)

(* The value of the first n digits, for each n; and that of all of them. *)
Values(digits) ==
    LET value[n \in 0 .. Len(digits)] ==
            IF n = 0 THEN 0 ELSE 10 * value[n - 1] + DigitOf(digits[n])
    IN  value

ValueOf(digits) == Values(digits)[Len(digits)]

(* parse_number returns the number that is written, with its sign, as far as it
   fits, and the same number modulo the width where it does not; it leaves off
   behind the last digit.                                                  *)
NumberAsWritten ==
    (task = "number" /\ stage = "done") =>
        IF Written = <<>>
        THEN result.is = "NULL"
        ELSE LET n == IF At(1) = Minus THEN 0 - ValueOf(Written) ELSE ValueOf(Written)
             IN  /\ result.value % Range32 = n % Range32
                 /\ n \in 0 - Half .. Half - 1 => result.value = n
                 /\ ~IsDigit(At(pos)) /\ (pos > 1 => At(pos - 1) \in Range(Digits))

(* The characters from i to j are spaces, a comma and the byte v. *)
Byte(i, j, v) ==
    /\ i + 2 <= j
    /\ \A k \in i .. j - 3 : At(k) = Space
    /\ At(j - 2) = Comma /\ <<At(j - 1), At(j)>> = v
    /\ IsHex(v[1]) /\ IsHex(v[2])

NoComma(i) == \A k \in i .. Len(text) : At(k) = Comma => \E l \in i .. k - 1 : At(l) # Space

(* The text says v: the mode, then up to two bytes, each behind a comma that may
   follow spaces, with the default for one that is left out.               *)
Says(v) ==
    /\ At(1) = v.state
    /\ \E j \in DOMAIN text :
          /\ \/ Byte(2, j, v.get)
             \/ j = 1 /\ NoComma(2) /\ v.get = NoParams.get
          /\ \/ \E k \in DOMAIN text : Byte(j + 1, k, v.no)
             \/ NoComma(j + 1) /\ v.no = NoParams.no

Pairs == {<<At(i), At(i + 1)>> : i \in DOMAIN text} \cup {NoParams.get, NoParams.no}

(* AUTO is set to what the text says, all three values together, or not at all:
   an error in the last byte leaves no trace of the first.                 *)
AutoAsWritten ==
    (task = "auto" /\ stage = "done") =>
        IF result.is = "set"
        THEN Says(result.value)
        ELSE ~\E v \in [state : {"0", "1"}, get : Pairs, no : Pairs] : Says(v)

(* API.md:39: CLKDIV=<n> takes "2,4,8,16,32,64,128 or 256": a text of digits that
   _cmd_clkdiv_set accepts is one of the divisors.                         *)
ClkdivOnlyDivisors ==
    (task = "number" /\ stage = "done" /\ result.is = "number"
        /\ \A i \in DOMAIN text : IsDigit(text[i]) /\ result.value \in Divisors)
      => ValueOf(Written) \in Divisors
=============================================================================
