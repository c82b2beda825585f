----------------------------- MODULE CmdProofs -----------------------------
(***************************************************************************)
(* What the command interpreter answers, for every command line, number of *)
(* lines, divisor and size of stdout's buffer, and whatever polls, errors  *)
(* and restarts come between; and, in the second part, how the command is  *)
(* found and the parameters of AUTO are read from the text of a line.      *)
(***************************************************************************)
EXTENDS Cmd, Parse, SequenceTheorems, NaturalsInduction, WellFoundedInduction, TLAPS

(* How a line can end, and the texts there are. *)
Results == {"OK", "ERROR"}

Texts == [by : {"line", "poll", "rx"}, num : Nat, says : Results \cup {"value"} \cup Bytes]

(* The lines that _find_cmd and _process_cmd tell apart. *)
Commands == [name : Readers \cup Setters \cup {"RESET", "TLS", "remark", "unknown"},
             form : {"none", "set"},
             value : {None, Bad} \cup {Triple(v) : v \in AutoSettings}
                         \cup {Number(v) : v \in Divs \cup OtherDivs}
                         \cup {Flag(v) : v \in BOOLEAN}]

(* What there is to know of the state besides its type. *)
ShapeInv ==
    /\ TypeOK
    /\ lines \in Seq(Commands)
    /\ booted \in Nat /\ polled \in Nat /\ polls \in Nat
    /\ stdout \in Seq(Texts) /\ host \in Seq(Texts) /\ printed \in Seq(Texts)

(* Every text of a line is of a line that was read; what waits in stdout is a
   poll's, or, while the watchdog runs out, the answer to RESET, which is neither
   OK nor ERROR.                                                            *)
TextsInv ==
    /\ \A i \in DOMAIN host : host[i].by = "line" => host[i].num <= Len(lines)
    /\ \A i \in DOMAIN stdout :
           \/ stdout[i].by = "poll"
           \/ /\ pc = "reset"
              /\ stdout[i].by = "line" /\ stdout[i].num = Len(lines)
              /\ stdout[i].says = "value"

(* The end of each line's answer, in the loop or out of it. *)
AnswersInv ==
    \A n \in DOMAIN lines :
        IF Ends(lines[n])
        THEN \E i \in DOMAIN host :
                /\ EndOf(n) = {i}
                /\ \A j \in i + 1 .. Len(host) : ~(host[j].by = "line" /\ host[j].num <= n)
        ELSE EndOf(n) = {}

(* What a line has printed has been received, unless it is a RESET. *)
KeptInv ==
    \A k \in DOMAIN printed :
        printed[k].by = "line" =>
            /\ printed[k].num \in DOMAIN lines
            /\ Ends(lines[printed[k].num]) => \E i \in DOMAIN host : host[i] = printed[k]

(* The last acknowledged setting is one of the acknowledged ones. *)
LatestInv ==
    \A s \in Setters : Acknowledged(s) # {} => Max(Acknowledged(s)) \in Acknowledged(s)

(* The texts of q are texts of p, and in p's order, but for the packet handler's. *)
Ordered(q, p) ==
    /\ \A i \in DOMAIN q : q[i].by # "rx" => \E k \in DOMAIN p : p[k] = q[i]
    /\ \A i, j \in DOMAIN q : i < j /\ q[i].by # "rx" /\ q[j].by # "rx" =>
           \E k, m \in DOMAIN p : k < m /\ p[k] = q[i] /\ p[m] = q[j]

OrderInv == Ordered(host \o stdout, printed)

-----------------------------------------------------------------------------
(* How many texts a full buffer writes out: a multiple of its size. *)
LEMMA Multiple ==
    ASSUME NEW a \in Nat, NEW b \in Nat \ {0}
    PROVE  /\ (a \div b) * b \in 0 .. a
           /\ a - (a \div b) * b < b
  OBVIOUS

(* A sequence cut in two. *)
LEMMA CutInTwo ==
    ASSUME NEW S, NEW q \in Seq(S), NEW n \in 0 .. Len(q)
    PROVE  /\ SubSeq(q, 1, n) \in Seq(S) /\ SubSeq(q, n + 1, Len(q)) \in Seq(S)
           /\ Len(SubSeq(q, n + 1, Len(q))) = Len(q) - n
           /\ SubSeq(q, 1, n) \o SubSeq(q, n + 1, Len(q)) = q
<1>1. /\ SubSeq(q, 1, n) \in Seq(S) /\ Len(SubSeq(q, 1, n)) = n
      /\ \A i \in 1 .. n : SubSeq(q, 1, n)[i] = q[i]
  OBVIOUS
<1>2. /\ SubSeq(q, n + 1, Len(q)) \in Seq(S)
      /\ Len(SubSeq(q, n + 1, Len(q))) = Len(q) - n
      /\ \A i \in 1 .. Len(q) - n : SubSeq(q, n + 1, Len(q))[i] = q[n + i]
  OBVIOUS
<1> DEFINE a == SubSeq(q, 1, n)
           b == SubSeq(q, n + 1, Len(q))
<1> HIDE DEF a, b
<1>3. /\ a \in Seq(S) /\ b \in Seq(S) /\ Len(a) = n /\ Len(b) = Len(q) - n
      /\ \A i \in 1 .. n : a[i] = q[i]
      /\ \A i \in 1 .. Len(q) - n : b[i] = q[n + i]
  BY <1>1, <1>2 DEF a, b
<1>4. a \o b \in Seq(S) /\ Len(a \o b) = Len(q)
  <2>1. a \o b \in Seq(S) /\ Len(a \o b) = Len(a) + Len(b)
    BY <1>3, ConcatProperties
  <2>2. n \in Nat /\ Len(q) \in Nat
    OBVIOUS
  <2>3. QED
    BY <1>3, <2>1, <2>2
<1>5. ASSUME NEW i \in 1 .. Len(q) PROVE (a \o b)[i] = q[i]
  <2>1. CASE i <= n
    BY <1>3, <2>1
  <2>2. CASE i > n
    <3>1. i - n \in 1 .. Len(b) /\ i \in Nat /\ i > Len(a) /\ i <= Len(a) + Len(b)
      BY <1>3, <2>2
    <3>2. (a \o b)[i] = b[i - Len(a)]
      BY <1>3, <3>1
    <3>3. QED
      BY <1>3, <3>1, <3>2
  <2>3. i <= n \/ i > n
    OBVIOUS
  <2>4. QED
    BY <2>1, <2>2, <2>3
<1>6. a \o b = q
  BY <1>4, <1>5, SeqEqual
<1>7. QED
  BY <1>2, <1>1, <1>6 DEF a, b

(* What is written out and what is left are what there was. *)
LEMMA SpilledIs ==
    ASSUME ShapeInv, NEW t \in Seq(Texts)
    PROVE  /\ Spilled(t).out \in Seq(Texts) /\ Spilled(t).left \in Seq(Texts)
           /\ Len(Spilled(t).left) < StdoutSize
           /\ Spilled(t).out \o Spilled(t).left = stdout \o t
<1> DEFINE all == stdout \o t
           out == IF Len(all) < StdoutSize THEN 0 ELSE (Len(all) \div StdoutSize) * StdoutSize
<1>1. all \in Seq(Texts) /\ Len(all) \in Nat /\ StdoutSize \in Nat \ {0}
  BY CmdAssumption DEF ShapeInv
<1>2. Spilled(t).out = SubSeq(all, 1, out) /\ Spilled(t).left = SubSeq(all, out + 1, Len(all))
  BY DEF Spilled
<1> HIDE DEF all
<1>3. out \in 0 .. Len(all) /\ Len(all) - out < StdoutSize
  <2>1. CASE Len(all) < StdoutSize
    BY <1>1, <2>1
  <2>2. CASE ~(Len(all) < StdoutSize)
    BY <1>1, <2>2, Multiple
  <2>3. QED
    BY <2>1, <2>2
<1> HIDE DEF out
<1>4. all = stdout \o t
  BY DEF all
<1>5. /\ SubSeq(all, 1, out) \in Seq(Texts) /\ SubSeq(all, out + 1, Len(all)) \in Seq(Texts)
      /\ Len(SubSeq(all, out + 1, Len(all))) = Len(all) - out
      /\ SubSeq(all, 1, out) \o SubSeq(all, out + 1, Len(all)) = all
  BY <1>1, <1>3, CutInTwo, Zenon
<1>6. QED
  BY ONLY <1>2, <1>3, <1>4, <1>5

-----------------------------------------------------------------------------
(* What a line says: nothing or a value, and then its end, if it has one. *)
EndText(end) == Text("line", LineNo, end)

Said(t, end) ==
    \/ end = "none" /\ t \in {<<>>, Value}
    \/ end \in Results /\ t \in {<<EndText(end)>>, Value \o <<EndText(end)>>}

(* Two texts, one behind the other. *)
LEMMA Joined ==
    ASSUME NEW S, NEW v \in S, NEW w \in S
    PROVE  <<v>> \o <<w>> = <<v, w>>
<1> DEFINE a == <<v>>
           b == <<w>>
           c == <<v, w>>
<1>1. /\ a \in Seq(S) /\ Len(a) = 1 /\ a[1] = v
      /\ b \in Seq(S) /\ Len(b) = 1 /\ b[1] = w
      /\ c \in Seq(S) /\ Len(c) = 2 /\ c[1] = v /\ c[2] = w
  OBVIOUS
<1> HIDE DEF a, b, c
<1>2. a \o b \in Seq(S) /\ Len(a \o b) = 2 /\ (a \o b)[1] = v /\ (a \o b)[2] = w
  BY <1>1, ConcatProperties
<1>3. \A i \in 1 .. 2 : (a \o b)[i] = c[i]
  <2>1. \A i \in 1 .. 2 : i = 1 \/ i = 2
    OBVIOUS
  <2>2. QED
    BY <1>1, <1>2, <2>1
<1>4. a \o b = c
  BY <1>1, <1>2, <1>3, SeqEqual
<1>5. QED
  BY <1>4 DEF a, b, c

(* They are texts of the line being read, and only the last can be its end. *)
LEMMA SaidFacts ==
    ASSUME ShapeInv, NEW t, NEW end, Said(t, end)
    PROVE  /\ LineNo = Len(lines) + 1 /\ Len(lines) \in Nat
           /\ t \in Seq(Texts)
           /\ \A k \in DOMAIN t : t[k].by = "line" /\ t[k].num = LineNo
           /\ end = "none" => \A k \in DOMAIN t : t[k].says = "value"
           /\ end \in Results =>
                 /\ Len(t) \in DOMAIN t
                 /\ t[Len(t)] = EndText(end)
                 /\ \A k \in DOMAIN t : k # Len(t) => t[k].says = "value"
<1>1. LineNo = Len(lines) + 1 /\ Len(lines) \in Nat /\ LineNo \in Nat
  BY DEF LineNo, ShapeInv
<1>2. Text("line", LineNo, "value") \in Texts
  BY <1>1 DEF Text, Texts
<1> DEFINE v == Text("line", LineNo, "value")
<1>3. v \in Texts /\ v.by = "line" /\ v.num = LineNo /\ v.says = "value" /\ Value = <<v>>
  BY <1>2 DEF Text, Value
<1> DEFINE w == EndText(end)
<1>4. end \in Results =>
          w \in Texts /\ w.by = "line" /\ w.num = LineNo
  BY <1>1 DEF Text, Texts, Results, EndText
<1> HIDE DEF v, w
<1>5. CASE t = <<>> /\ end = "none"
  BY <1>1, <1>5 DEF Results
<1>6. CASE t = <<v>> /\ end = "none"
  BY <1>1, <1>3, <1>6 DEF Results
<1>7. CASE t = <<w>> /\ end \in Results
  BY <1>1, <1>4, <1>7 DEF Results, w
<1>8. CASE t = <<v, w>> /\ end \in Results
  <2>1. t \in Seq(Texts) /\ Len(t) = 2 /\ DOMAIN t = 1 .. 2 /\ t[1] = v /\ t[2] = w
    BY <1>3, <1>4, <1>8
  <2>2. \A k \in DOMAIN t : k = 1 \/ k = 2
    BY <2>1
  <2>3. end # "none"
    BY <1>8 DEF Results
  <2>4. t[Len(t)] = EndText(end) /\ Len(t) \in DOMAIN t
    BY <2>1 DEF w
  <2>5. \A k \in DOMAIN t : k # Len(t) => t[k] = v
    BY <2>1, <2>2
  <2>6. QED
    BY <1>1, <1>3, <1>4, <1>8, <2>1, <2>2, <2>3, <2>4, <2>5
<1>9. ASSUME end \in Results PROVE <<v>> \o <<w>> = <<v, w>>
  BY <1>3, <1>4, <1>9, Joined
<1>10. QED
  BY <1>3, <1>5, <1>6, <1>7, <1>8, <1>9 DEF Said, w

(* A setting after a line: what an acknowledged line names, or what it was. *)
Names(l, end, s) == l.name = s /\ l.form = "set" /\ end = "OK"

Sets(l, end) ==
    /\ IF Names(l, end, "AUTO") THEN Triple(auto') = l.value ELSE auto' = auto
    /\ IF Names(l, end, "CLKDIV") THEN Number(div') = l.value ELSE div' = div
    /\ IF Names(l, end, "PWR") THEN Flag(pwr') = l.value ELSE pwr' = pwr
    /\ IF Names(l, end, "CS")
       THEN \E v \in BOOLEAN : l.value = Flag(v) /\ cs' = IF v THEN "host" ELSE "none"
       ELSE cs' = cs
    /\ auto' \in AutoSettings /\ div' \in Divs /\ pwr' \in BOOLEAN /\ cs' \in {"none", "host"}

(* A line that is executed and answered, RESET excepted. *)
Answers(l, t, end) ==
    /\ Execute(l)
    /\ PrintAndFlush(t)
    /\ pc' = "loop"
    /\ Said(t, end)
    /\ Ends(l) <=> end # "none"
    /\ Sets(l, end)

(* Every line but RESET is executed and answered. *)
LEMMA ParseMoves ==
    ASSUME ShapeInv, Parse
    PROVE  \/ Reset
           \/ \E l \in Commands, t \in Seq(Texts), end \in {"none", "OK", "ERROR"} :
                 Answers(l, t, end)
<1>0. TypeOK
  BY DEF ShapeInv
<1> DEFINE Goal == \E l \in Commands, t \in Seq(Texts), end \in {"none", "OK", "ERROR"} :
                       Answers(l, t, end)
<1>1. ASSUME NEW l \in Commands, NEW t, NEW end \in {"none", "OK", "ERROR"},
             Answers(l, t, end)
      PROVE  Goal
  <2>1. t \in Seq(Texts)
    BY <1>1, SaidFacts DEF Answers
  <2>2. QED
    BY <1>1, <2>1
<1> HIDE DEF Goal
<1>2. /\ Said(<<>>, "none") /\ Said(Value, "none")
      /\ Said(Error(<<>>), "ERROR") /\ Said(Ok(<<>>), "OK") /\ Said(Ok(Value), "OK")
  BY DEF Said, Results, Error, Ok, EndText
<1>3. ASSUME Remark PROVE Goal
  <2>1. Line("remark", "none", None) \in Commands /\ ~Ends(Line("remark", "none", None))
    BY DEF Line, Commands, Ends
  <2>2. Answers(Line("remark", "none", None), <<>>, "none")
    BY <1>0, <1>2, <1>3, <2>1 DEF Remark, Answers, Sets, Names, Same, settings, Execute, TypeOK
  <2>3. "none" \in {"none", "OK", "ERROR"}
    OBVIOUS
  <2>4. QED
    BY <1>1, <2>1, <2>2, <2>3, Zenon
<1>4. ASSUME NEW name \in Readers \cup {"RESET", "unknown"}, Refuse(name)
      PROVE  Goal
  <2>1. Line(name, "set", None) \in Commands /\ Ends(Line(name, "set", None))
    BY DEF Line, Commands, Ends, Readers
  <2>2. Answers(Line(name, "set", None), Error(<<>>), "ERROR")
    BY <1>0, <1>2, <1>4, <2>1 DEF Refuse, Answers, Sets, Names, Same, settings, Execute, TypeOK
  <2>3. QED
    BY <1>1, <2>1, <2>2
<1>5. ASSUME NEW name \in Readers \cup Setters, Show(name)
      PROVE  Goal
  <2>1. /\ Line(name, "none", None) \in Commands /\ Ends(Line(name, "none", None))
        /\ Line(name, "none", None).form # "set"
    BY DEF Line, Commands, Ends, Readers, Setters
  <2>2. Answers(Line(name, "none", None), Ok(Value), "OK")
    BY <1>0, <1>2, <1>5, <2>1 DEF Show, Answers, Sets, Names, Same, settings, Execute, TypeOK
  <2>3. QED
    BY <1>1, <2>1, <2>2
<1>6. ASSUME NEW name \in Setters, SetBad(name)
      PROVE  Goal
  <2>1. Line(name, "set", Bad) \in Commands /\ Ends(Line(name, "set", Bad))
    BY DEF Line, Commands, Ends, Setters
  <2>2. Answers(Line(name, "set", Bad), Error(<<>>), "ERROR")
    BY <1>0, <1>2, <1>6, <2>1 DEF SetBad, Answers, Sets, Names, Same, settings, Execute, TypeOK
  <2>3. QED
    BY <1>1, <2>1, <2>2
<1>7. ASSUME NEW v \in AutoSettings, SetAuto(v)
      PROVE  Goal
  <2> DEFINE l == Line("AUTO", "set", Triple(v))
  <2>1. l \in Commands /\ Ends(l) /\ l.name = "AUTO" /\ l.form = "set" /\ l.value = Triple(v)
    BY DEF Line, Commands, Ends, Setters
  <2> HIDE DEF l
  <2>2. Execute(l) /\ auto' = v /\ PrintAndFlush(Ok(<<>>)) /\ UNCHANGED <<div, pwr, cs, pc>>
    BY <1>7 DEF SetAuto, l
  <2>3. Sets(l, "OK")
    BY <1>0, <2>1, <2>2 DEF Sets, Names, TypeOK
  <2>4. Answers(l, Ok(<<>>), "OK")
    BY <1>2, <2>1, <2>2, <2>3 DEF Answers, Execute
  <2>5. QED
    BY <1>1, <2>1, <2>4
<1>8. ASSUME NEW v \in Divs \cup OtherDivs, SetClkdiv(v)
      PROVE  Goal
  <2> DEFINE l == Line("CLKDIV", "set", Number(v))
  <2>1. l \in Commands /\ Ends(l) /\ l.name = "CLKDIV" /\ l.form = "set" /\ l.value = Number(v)
    BY DEF Line, Commands, Ends, Setters
  <2> HIDE DEF l
  <2>2. CASE v \in Divs
    <3>1. Execute(l) /\ div' = v /\ PrintAndFlush(Ok(<<>>)) /\ UNCHANGED <<auto, pwr, cs, pc>>
      BY <1>8, <2>2 DEF SetClkdiv, l
    <3>2. Sets(l, "OK")
      BY <1>0, <2>1, <2>2, <3>1 DEF Sets, Names, TypeOK
    <3>3. Answers(l, Ok(<<>>), "OK")
      BY <1>2, <2>1, <3>1, <3>2 DEF Answers, Execute
    <3>4. QED
      BY <1>1, <2>1, <3>3
  <2>3. CASE v \notin Divs
    <3>1. Execute(l) /\ div' = div /\ PrintAndFlush(Error(<<>>)) /\ UNCHANGED <<auto, pwr, cs, pc>>
      BY <1>8, <2>3 DEF SetClkdiv, l
    <3>2. Sets(l, "ERROR")
      BY <1>0, <2>1, <3>1 DEF Sets, Names, TypeOK
    <3>3. Answers(l, Error(<<>>), "ERROR")
      BY <1>2, <2>1, <3>1, <3>2 DEF Answers, Execute
    <3>4. QED
      BY <1>1, <2>1, <3>3
  <2>4. QED
    BY <2>2, <2>3
<1>9. ASSUME NEW v \in BOOLEAN, SetCs(v)
      PROVE  Goal
  <2> DEFINE l == Line("CS", "set", Flag(v))
  <2>1. l \in Commands /\ Ends(l) /\ l.name = "CS" /\ l.form = "set" /\ l.value = Flag(v)
    BY DEF Line, Commands, Ends, Setters
  <2> HIDE DEF l
  <2>2. /\ Execute(l) /\ PrintAndFlush(Ok(<<>>)) /\ UNCHANGED <<auto, div, pwr, pc>>
        /\ cs' = IF v THEN "host" ELSE "none"
    BY <1>9 DEF SetCs, l
  <2>3. Sets(l, "OK")
    BY <1>0, <2>1, <2>2 DEF Sets, Names, TypeOK
  <2>4. Answers(l, Ok(<<>>), "OK")
    BY <1>2, <2>1, <2>2, <2>3 DEF Answers, Execute
  <2>5. QED
    BY <1>1, <2>1, <2>4
<1>10. ASSUME NEW v \in BOOLEAN, SetPwr(v)
      PROVE  Goal
  <2> DEFINE l == Line("PWR", "set", Flag(v))
  <2>1. l \in Commands /\ Ends(l) /\ l.name = "PWR" /\ l.form = "set" /\ l.value = Flag(v)
    BY DEF Line, Commands, Ends, Setters
  <2> HIDE DEF l
  <2>2. /\ Execute(l) /\ PrintAndFlush(Ok(<<>>)) /\ UNCHANGED <<auto, div, cs, pc>>
        /\ pwr' = v
    BY <1>10 DEF SetPwr, l
  <2>3. Sets(l, "OK")
    BY <1>0, <2>1, <2>2 DEF Sets, Names, TypeOK
  <2>4. Answers(l, Ok(<<>>), "OK")
    BY <1>2, <2>1, <2>2, <2>3 DEF Answers, Execute
  <2>5. QED
    BY <1>1, <2>1, <2>4
<1>11. ASSUME NEW form \in {"none", "set"}, Tls(form)
       PROVE  Goal
  <2> DEFINE t == IF form = "none" THEN <<>> ELSE Value
  <2>1. Line("TLS", form, None) \in Commands /\ ~Ends(Line("TLS", form, None))
    BY DEF Line, Commands, Ends
  <2>2. Said(t, "none")
    BY <1>2
  <2>3. Answers(Line("TLS", form, None), t, "none")
    BY <1>0, <1>11, <2>1, <2>2 DEF Tls, Answers, Sets, Names, Same, settings, Execute, TypeOK
  <2>4. QED
    BY <1>1, <2>1, <2>3
<1>12. QED
  BY <1>3, <1>4, <1>5, <1>6, <1>7, <1>8, <1>9, <1>10, <1>11 DEF Parse, Goal

-----------------------------------------------------------------------------
(* Two sequences, one behind the other. *)
LEMMA Concat ==
    ASSUME NEW S, NEW q \in Seq(S), NEW r \in Seq(S)
    PROVE  /\ q \o r \in Seq(S) /\ Len(q) \in Nat /\ Len(r) \in Nat
           /\ Len(q \o r) = Len(q) + Len(r)
           /\ DOMAIN q = 1 .. Len(q) /\ DOMAIN r = 1 .. Len(r)
           /\ DOMAIN (q \o r) = 1 .. Len(q) + Len(r)
           /\ \A i \in DOMAIN q : i \in DOMAIN (q \o r) /\ (q \o r)[i] = q[i]
           /\ \A i \in DOMAIN r :
                  Len(q) + i \in DOMAIN (q \o r) /\ (q \o r)[Len(q) + i] = r[i]
           /\ \A i \in DOMAIN (q \o r) \ DOMAIN q :
                  i > Len(q) /\ i - Len(q) \in DOMAIN r /\ (q \o r)[i] = r[i - Len(q)]
<1>1. /\ q \o r \in Seq(S) /\ Len(q) \in Nat /\ Len(r) \in Nat
      /\ Len(q \o r) = Len(q) + Len(r)
      /\ DOMAIN q = 1 .. Len(q) /\ DOMAIN r = 1 .. Len(r)
  OBVIOUS
<1>2. DOMAIN (q \o r) = 1 .. Len(q) + Len(r)
  BY <1>1
<1>3. \A i \in 1 .. Len(q) + Len(r) :
          (q \o r)[i] = IF i <= Len(q) THEN q[i] ELSE r[i - Len(q)]
  BY ConcatProperties
<1>4. \A i \in DOMAIN q : i \in DOMAIN (q \o r) /\ (q \o r)[i] = q[i]
  BY <1>1, <1>2, <1>3
<1>5. ASSUME NEW i \in DOMAIN r
      PROVE  Len(q) + i \in DOMAIN (q \o r) /\ (q \o r)[Len(q) + i] = r[i]
  <2>1. /\ Len(q) + i \in 1 .. Len(q) + Len(r) /\ ~(Len(q) + i <= Len(q))
        /\ Len(q) + i - Len(q) = i
    BY <1>1, <1>5
  <2>2. QED
    BY <1>2, <1>3, <2>1
<1>6. ASSUME NEW i \in DOMAIN (q \o r) \ DOMAIN q
      PROVE  i > Len(q) /\ i - Len(q) \in DOMAIN r /\ (q \o r)[i] = r[i - Len(q)]
  <2>1. i \in 1 .. Len(q) + Len(r) /\ ~(i <= Len(q)) /\ i - Len(q) \in 1 .. Len(r) /\ i > Len(q)
    BY <1>1, <1>2, <1>6
  <2>2. QED
    BY <1>1, <1>3, <2>1
<1>7. QED
  BY <1>1, <1>2, <1>4, <1>5, <1>6

(* What the host has received stays where it is. *)
Extends ==
    /\ Len(host') \in Nat /\ Len(host) <= Len(host')
    /\ DOMAIN host' = 1 .. Len(host')
    /\ \A i \in DOMAIN host : i \in DOMAIN host' /\ host'[i] = host[i]

(* A line is read, and what is received in this step is of polls, or of this line:
   values, and at last the end.                                             *)
Reads(l, end) ==
    /\ pc = "loop"
    /\ lines' = Append(lines, l)
    /\ UNCHANGED <<booted, polled>>
    /\ Ends(l) <=> end # "none"
    /\ Sets(l, end)
    /\ \A i \in DOMAIN host' \ DOMAIN host :
           \/ host'[i].by # "line"
           \/ /\ host'[i].num = Len(lines) + 1
              /\ host'[i].says \notin Results \/ (i = Len(host') /\ end # "none")
    /\ end # "none" =>
           /\ Len(host) < Len(host')
           /\ host'[Len(host')] = Text("line", Len(lines) + 1, end)

(* Or none is read, and nothing of a line is received: the program restarts, polls
   the chip, or leaves all settings alone.                                  *)
Restarts ==
    /\ pc = "reset"
    /\ auto' = AutoDefault /\ div' = 32 /\ pwr' = TRUE /\ cs' = "none"
    /\ booted' = Len(lines) /\ polled' = polled

Polls ==
    /\ pc = "loop"
    /\ cs' = "none" /\ polled' = Len(lines)
    /\ UNCHANGED <<auto, div, pwr, booted>>

Rests == UNCHANGED <<settings, pc, booted, polled>>

Quiet ==
    /\ lines' = lines
    /\ \A i \in DOMAIN host' \ DOMAIN host : host'[i].by # "line"
    /\ Restarts \/ Polls \/ Rests

(* Such a line is read, and its answer has all been received. *)
LEMMA AnswersMoves ==
    ASSUME ShapeInv, TextsInv, NEW l \in Commands, NEW t \in Seq(Texts),
           NEW end \in {"none", "OK", "ERROR"}, Answers(l, t, end)
    PROVE  Extends /\ Reads(l, end) /\ host' \in Seq(Texts) /\ stdout' = <<>>
<1>0. /\ pc = "loop" /\ host \in Seq(Texts) /\ stdout \in Seq(Texts)
      /\ host' = (host \o stdout) \o t /\ stdout' = <<>>
      /\ lines' = Append(lines, l) /\ UNCHANGED <<booted, polled>>
      /\ Said(t, end) /\ Sets(l, end) /\ (Ends(l) <=> end # "none")
  BY DEF Answers, Execute, PrintAndFlush, ShapeInv
<1> DEFINE q == host \o stdout
<1>1. /\ q \in Seq(Texts) /\ Len(q) \in Nat /\ Len(host) \in Nat /\ Len(host) <= Len(q)
      /\ DOMAIN host = 1 .. Len(host) /\ DOMAIN q = 1 .. Len(q)
      /\ \A i \in DOMAIN host : i \in DOMAIN q /\ q[i] = host[i]
      /\ \A i \in DOMAIN q \ DOMAIN host : q[i].by = "poll"
  <2>1. \A j \in DOMAIN stdout : stdout[j].by = "poll"
    BY <1>0 DEF TextsInv
  <2>2. QED
    BY <1>0, <2>1, Concat
<1> HIDE DEF q
<1>2. /\ host' \in Seq(Texts) /\ Len(host') = Len(q) + Len(t) /\ Len(t) \in Nat
      /\ DOMAIN host' = 1 .. Len(q) + Len(t) /\ DOMAIN t = 1 .. Len(t)
      /\ \A i \in DOMAIN q : i \in DOMAIN host' /\ host'[i] = q[i]
      /\ \A i \in DOMAIN host' \ DOMAIN q :
             i > Len(q) /\ i - Len(q) \in DOMAIN t /\ host'[i] = t[i - Len(q)]
      /\ \A i \in DOMAIN t : Len(q) + i \in DOMAIN host' /\ host'[Len(q) + i] = t[i]
  <2>1. host' = q \o t
    BY <1>0 DEF q
  <2>2. QED
    BY <1>1, <2>1, Concat
<1>3. Extends
  BY <1>1, <1>2 DEF Extends
<1>4. /\ LineNo = Len(lines) + 1
      /\ \A k \in DOMAIN t : t[k].by = "line" /\ t[k].num = LineNo
      /\ end = "none" => \A k \in DOMAIN t : t[k].says = "value"
      /\ end # "none" =>
            /\ Len(t) \in DOMAIN t
            /\ t[Len(t)] = EndText(end)
            /\ \A k \in DOMAIN t : k # Len(t) => t[k].says = "value"
  BY <1>0, SaidFacts DEF Results
<1>5. ASSUME NEW i \in DOMAIN host' \ DOMAIN host
      PROVE  \/ host'[i].by # "line"
             \/ /\ host'[i].num = Len(lines) + 1
                /\ host'[i].says \notin Results \/ (i = Len(host') /\ end # "none")
  <2>1. CASE i \in DOMAIN q
    BY <1>1, <1>2, <1>5, <2>1
  <2>2. CASE i \notin DOMAIN q
    <3>1. i > Len(q) /\ i - Len(q) \in DOMAIN t /\ host'[i] = t[i - Len(q)] /\ i \in Nat
      BY <1>2, <1>5, <2>2
    <3>2. host'[i].num = Len(lines) + 1
      BY <1>4, <3>1
    <3>3. CASE i - Len(q) = Len(t) /\ end # "none"
      BY <1>1, <1>2, <3>1, <3>2, <3>3
    <3>4. CASE ~(i - Len(q) = Len(t) /\ end # "none")
      <4>1. host'[i].says = "value"
        BY <1>4, <3>1, <3>4
      <4>2. QED
        BY <3>2, <4>1 DEF Results
    <3>5. QED
      BY <3>3, <3>4
  <2>3. QED
    BY <2>1, <2>2
<1>6. end # "none" =>
           /\ Len(host) < Len(host')
           /\ host'[Len(host')] = Text("line", Len(lines) + 1, end)
  BY <1>1, <1>2, <1>4 DEF EndText
<1>7. QED
  BY <1>0, <1>2, <1>3, <1>5, <1>6 DEF Reads

(* What is printed without a flush is received or waits, behind what waited. *)
LEMMA PrintfMoves ==
    ASSUME ShapeInv, NEW t \in Seq(Texts), Printf(t)
    PROVE  /\ Extends /\ host' \in Seq(Texts) /\ stdout' \in Seq(Texts)
           /\ Len(stdout') < StdoutSize
           /\ \A i \in DOMAIN host' \ DOMAIN host :
                  \/ \E j \in DOMAIN stdout : host'[i] = stdout[j]
                  \/ \E j \in DOMAIN t : host'[i] = t[j]
           /\ \A i \in DOMAIN stdout' :
                  \/ \E j \in DOMAIN stdout : stdout'[i] = stdout[j]
                  \/ \E j \in DOMAIN t : stdout'[i] = t[j]
           /\ host' \o stdout' = (host \o stdout) \o t
<1> DEFINE all == stdout \o t
           out == Spilled(t).out
           left == Spilled(t).left
<1>0. host \in Seq(Texts) /\ stdout \in Seq(Texts) /\ host' = host \o out /\ stdout' = left
  BY DEF Printf, ShapeInv
<1>1. out \in Seq(Texts) /\ left \in Seq(Texts) /\ Len(left) < StdoutSize /\ out \o left = all
  BY SpilledIs
<1>2. /\ all \in Seq(Texts)
      /\ \A j \in DOMAIN all :
             \/ \E k \in DOMAIN stdout : all[j] = stdout[k]
             \/ \E k \in DOMAIN t : all[j] = t[k]
  <2>1. /\ all \in Seq(Texts)
        /\ \A j \in DOMAIN stdout : all[j] = stdout[j]
        /\ \A j \in DOMAIN all \ DOMAIN stdout :
               j - Len(stdout) \in DOMAIN t /\ all[j] = t[j - Len(stdout)]
    BY <1>0, Concat
  <2>2. QED
    BY ONLY <2>1
<1> HIDE DEF all, out, left
<1>3. /\ \A j \in DOMAIN out : j \in DOMAIN all /\ all[j] = out[j]
      /\ \A j \in DOMAIN left : Len(out) + j \in DOMAIN all /\ all[Len(out) + j] = left[j]
  <2> DEFINE c == out \o left
  <2>0. out \in Seq(Texts) /\ left \in Seq(Texts)
    BY <1>1
  <2>1. /\ \A j \in DOMAIN out : j \in DOMAIN c /\ c[j] = out[j]
        /\ \A j \in DOMAIN left : Len(out) + j \in DOMAIN c /\ c[Len(out) + j] = left[j]
    BY ONLY <2>0, Concat
  <2>2. c = all
    BY <1>1
  <2>3. QED
    BY <2>1, <2>2, Zenon
<1>3a. host \in Seq(Texts) /\ out \in Seq(Texts) /\ host' = host \o out
  BY <1>0, <1>1
<1>4. Extends /\ host' \in Seq(Texts)
  BY ONLY <1>3a, Concat DEF Extends
<1>5. ASSUME NEW i \in DOMAIN host' \ DOMAIN host
      PROVE  \/ \E j \in DOMAIN stdout : host'[i] = stdout[j]
             \/ \E j \in DOMAIN t : host'[i] = t[j]
  <2>1. i - Len(host) \in DOMAIN out /\ host'[i] = out[i - Len(host)]
    BY ONLY <1>3a, <1>5, Concat
  <2>2. QED
    BY <1>2, <1>3, <2>1
<1>6. ASSUME NEW i \in DOMAIN stdout'
      PROVE  \/ \E j \in DOMAIN stdout : stdout'[i] = stdout[j]
             \/ \E j \in DOMAIN t : stdout'[i] = t[j]
  BY <1>0, <1>2, <1>3
<1>7. host' \o stdout' = (host \o stdout) \o t
  <2>0. host \in Seq(Texts) /\ out \in Seq(Texts) /\ left \in Seq(Texts)
    BY <1>0, <1>1
  <2>1. (host \o out) \o left = host \o (out \o left)
    BY ONLY <2>0, ConcatAssociative
  <2>2. (host \o stdout) \o t = host \o (stdout \o t)
    BY <1>0, ConcatAssociative
  <2>3. QED
    BY <1>0, <1>1, <2>1, <2>2, Zenon DEF all
<1>8. QED
  BY <1>0, <1>1, <1>4, <1>5, <1>6, <1>7

(* RESET is a line without an end; its text may still wait. *)
LEMMA ResetMoves ==
    ASSUME ShapeInv, TextsInv, Reset
    PROVE  /\ Line("RESET", "none", None) \in Commands
           /\ Extends /\ Reads(Line("RESET", "none", None), "none") /\ pc' = "reset"
           /\ host' \in Seq(Texts) /\ stdout' \in Seq(Texts) /\ Len(stdout') < StdoutSize
           /\ \A i \in DOMAIN stdout' :
                  \/ stdout'[i].by = "poll"
                  \/ /\ stdout'[i].by = "line" /\ stdout'[i].num = Len(lines')
                     /\ stdout'[i].says = "value"
<1> DEFINE l == Line("RESET", "none", None)
<1>0. /\ pc = "loop" /\ pc' = "reset" /\ lines' = Append(lines, l)
      /\ UNCHANGED <<booted, polled, auto, div, pwr, cs>> /\ Printf(Value)
      /\ lines \in Seq(Commands)
  BY DEF Reset, Execute, Same, settings, ShapeInv
<1>1. l \in Commands /\ ~Ends(l) /\ l.form # "set"
  BY DEF Line, Commands, Ends
<1> HIDE DEF l
<1>2. Said(Value, "none")
  BY DEF Said
<1>3. /\ Value \in Seq(Texts) /\ LineNo = Len(lines) + 1 /\ Len(lines') = Len(lines) + 1
      /\ \A k \in DOMAIN Value :
             /\ Value[k].by = "line" /\ Value[k].num = LineNo
             /\ Value[k].says = "value"
  BY <1>0, <1>1, <1>2, SaidFacts
<1>4. \A j \in DOMAIN stdout : stdout[j].by = "poll"
  BY <1>0 DEF TextsInv
<1>5. Sets(l, "none")
  BY <1>0, <1>1 DEF Sets, Names, ShapeInv, TypeOK
<1>6. \A i \in DOMAIN host' \ DOMAIN host :
          \/ host'[i].by # "line"
          \/ host'[i].num = Len(lines) + 1 /\ host'[i].says \notin Results
  <2>1. \A i \in DOMAIN host' \ DOMAIN host :
            \/ \E j \in DOMAIN stdout : host'[i] = stdout[j]
            \/ \E j \in DOMAIN Value : host'[i] = Value[j]
    BY <1>0, <1>3, PrintfMoves
  <2>2. QED
    BY <1>3, <1>4, <2>1 DEF Results
<1>7. Reads(l, "none")
  BY <1>0, <1>1, <1>5, <1>6 DEF Reads
<1>8. /\ Extends /\ host' \in Seq(Texts) /\ stdout' \in Seq(Texts)
      /\ Len(stdout') < StdoutSize
      /\ \A i \in DOMAIN stdout' :
             \/ \E j \in DOMAIN stdout : stdout'[i] = stdout[j]
             \/ \E j \in DOMAIN Value : stdout'[i] = Value[j]
  BY <1>0, <1>3, PrintfMoves
<1>9. \A i \in DOMAIN stdout' :
          \/ stdout'[i].by = "poll"
          \/ /\ stdout'[i].by = "line" /\ stdout'[i].num = Len(lines')
             /\ stdout'[i].says = "value"
  BY <1>3, <1>4, <1>8
<1>10. QED
  BY <1>0, <1>1, <1>7, <1>8, <1>9 DEF l

(* A poll reads no line, and prints texts of its own. *)
LEMMA PollMoves ==
    ASSUME ShapeInv, TextsInv, NEW h \in Headers, PollEmpty(h) \/ PollResponse(h)
    PROVE  /\ Extends /\ Quiet /\ pc' = pc
           /\ host' \in Seq(Texts) /\ stdout' \in Seq(Texts) /\ Len(stdout') < StdoutSize
           /\ \A i \in DOMAIN stdout' : stdout'[i].by = "poll"
           /\ polls' \in Nat /\ polls' <= MaxPolls
           /\ printed' \in Seq(Texts)
<1>0. /\ pc = "loop" /\ host \in Seq(Texts) /\ stdout \in Seq(Texts) /\ Len(stdout) < StdoutSize
      /\ cs' = "none" /\ polled' = Len(lines) /\ UNCHANGED <<auto, div, pwr, pc, lines, booted>>
      /\ \A i \in DOMAIN stdout : stdout[i].by = "poll"
      /\ polls \in Nat /\ polls <= MaxPolls /\ printed \in Seq(Texts)
  BY DEF PollEmpty, PollResponse, Poll, ShapeInv, TypeOK, TextsInv
<1>1. Polls
  BY <1>0 DEF Polls
<1>2. CASE PollEmpty(h)
  <2>1. UNCHANGED <<stdout, host, polls, printed>>
    BY <1>2 DEF PollEmpty
  <2>2. Extends
    BY <1>0, <2>1 DEF Extends
  <2>3. QED
    BY <1>0, <1>1, <2>1, <2>2 DEF Quiet
<1>3. CASE PollResponse(h)
  <2> DEFINE t == <<Text("poll", polls + 1, h)>>
  <2>1. h \in Bytes
    BY CmdAssumption DEF Headers
  <2>2. t \in Seq(Texts) /\ \A j \in DOMAIN t : t[j].by = "poll"
    BY <1>0, <2>1 DEF Text, Texts
  <2>3. Printf(t) /\ polls' = polls + 1 /\ polls < MaxPolls /\ printed' = printed \o t
    BY <1>3 DEF PollResponse, Printf
  <2> HIDE DEF t
  <2>4. /\ Extends /\ host' \in Seq(Texts) /\ stdout' \in Seq(Texts)
        /\ Len(stdout') < StdoutSize
        /\ \A i \in DOMAIN host' \ DOMAIN host :
               \/ \E j \in DOMAIN stdout : host'[i] = stdout[j]
               \/ \E j \in DOMAIN t : host'[i] = t[j]
        /\ \A i \in DOMAIN stdout' :
               \/ \E j \in DOMAIN stdout : stdout'[i] = stdout[j]
               \/ \E j \in DOMAIN t : stdout'[i] = t[j]
    BY ONLY ShapeInv, <2>2, <2>3, PrintfMoves
  <2>5. \A i \in DOMAIN host' \ DOMAIN host : host'[i].by = "poll"
    BY <1>0, <2>2, <2>4
  <2>6. \A i \in DOMAIN stdout' : stdout'[i].by = "poll"
    BY <1>0, <2>2, <2>4
  <2>7. Quiet
    BY <1>0, <1>1, <2>5 DEF Quiet
  <2>8. printed' \in Seq(Texts) /\ polls' \in Nat /\ polls' <= MaxPolls
    BY <1>0, <2>2, <2>3, CmdAssumption
  <2>9. QED
    BY <1>0, <2>4, <2>6, <2>7, <2>8
<1>4. QED
  BY <1>2, <1>3

(* So does the packet handler's error, which waits for nobody. *)
LEMMA OverflowMoves ==
    ASSUME ShapeInv, RxOverflow
    PROVE  /\ Extends /\ Quiet /\ host' \in Seq(Texts) /\ printed' \in Seq(Texts)
           /\ UNCHANGED <<settings, stdout, pc, lines, booted, polls, polled>>
<1> DEFINE r == Text("rx", 0, "ERROR")
<1>1. r \in Texts /\ r.by = "rx"
  BY DEF Text, Texts, Results
<1> HIDE DEF r
<1>2. /\ host \in Seq(Texts) /\ printed \in Seq(Texts)
      /\ host' = Append(host, r) /\ printed' = Append(printed, r)
      /\ UNCHANGED <<settings, stdout, pc, lines, booted, polls, polled>>
  BY DEF RxOverflow, ShapeInv, r
<1>3. /\ host' \in Seq(Texts) /\ Len(host') = Len(host) + 1 /\ Len(host) \in Nat
      /\ printed' \in Seq(Texts)
      /\ \A i \in 1 .. Len(host) : host'[i] = host[i]
      /\ host'[Len(host) + 1] = r
  BY <1>1, <1>2
<1>4. Extends
  BY <1>2, <1>3 DEF Extends
<1>5. \A i \in DOMAIN host' \ DOMAIN host : host'[i].by # "line"
  <2>1. \A i \in DOMAIN host' \ DOMAIN host : i = Len(host) + 1
    BY <1>2, <1>3
  <2>2. QED
    BY <1>1, <1>3, <2>1
<1>6. Quiet
  BY <1>2, <1>5 DEF Quiet, Rests
<1>7. QED
  BY <1>2, <1>3, <1>4, <1>6

(* The types are kept. *)
LEMMA NextShape ==
    ASSUME ShapeInv, TextsInv, [Next]_vars
    PROVE  ShapeInv'
<1>0. /\ lines \in Seq(Commands) /\ Len(lines) \in Nat /\ Len(lines) <= MaxLines
      /\ booted \in Nat /\ polled \in Nat /\ polls \in Nat
      /\ booted <= Len(lines) /\ polled <= Len(lines) /\ polls <= MaxPolls
      /\ stdout \in Seq(Texts) /\ host \in Seq(Texts) /\ printed \in Seq(Texts)
      /\ auto \in AutoSettings /\ div \in Divs /\ pwr \in BOOLEAN /\ cs \in {"none", "host"}
      /\ pc \in {"loop", "reset"} /\ Len(stdout) < StdoutSize
      /\ MaxLines \in Nat /\ StdoutSize \in Nat \ {0}
  BY CmdAssumption DEF ShapeInv, TypeOK
<1>1. ASSUME NEW l \in Commands, NEW t \in Seq(Texts), NEW end \in {"none", "OK", "ERROR"},
             Answers(l, t, end)
      PROVE  ShapeInv'
  <2>1. Extends /\ Reads(l, end) /\ host' \in Seq(Texts) /\ stdout' = <<>>
    BY <1>1, AnswersMoves
  <2>2. /\ lines' = Append(lines, l) /\ Len(lines) < MaxLines /\ UNCHANGED <<booted, polled, polls>>
        /\ printed' = printed \o t /\ pc' = "loop" /\ Sets(l, end)
    BY <1>1 DEF Answers, Execute, PrintAndFlush
  <2>3. lines' \in Seq(Commands) /\ Len(lines') = Len(lines) + 1
    BY <1>0, <2>2
  <2>4. printed' \in Seq(Texts)
    BY <1>0, <2>2
  <2>5. auto' \in AutoSettings /\ div' \in Divs /\ pwr' \in BOOLEAN /\ cs' \in {"none", "host"}
    BY <2>2 DEF Sets
  <2>6. stdout' \in Seq(Texts) /\ Len(stdout') < StdoutSize
    BY <1>0, <2>1
  <2>7. Len(lines') <= MaxLines /\ booted' <= Len(lines') /\ polled' <= Len(lines')
    BY <1>0, <2>2, <2>3
  <2>8. QED
    BY <1>0, <2>1, <2>2, <2>3, <2>4, <2>5, <2>6, <2>7 DEF ShapeInv, TypeOK
<1>2. CASE Reset
  <2>1. /\ lines' = Append(lines, Line("RESET", "none", None)) /\ Len(lines) < MaxLines
        /\ UNCHANGED <<booted, polled, polls, auto, div, pwr, cs>> /\ pc' = "reset"
        /\ printed' = printed \o Value
    BY <1>2 DEF Reset, Execute, Printf, Same, settings
  <2>2. /\ Line("RESET", "none", None) \in Commands
        /\ host' \in Seq(Texts) /\ stdout' \in Seq(Texts) /\ Len(stdout') < StdoutSize
    BY <1>2, ResetMoves
  <2>3. lines' \in Seq(Commands) /\ Len(lines') = Len(lines) + 1
    BY <1>0, <2>1, <2>2
  <2>4. printed' \in Seq(Texts)
    <3>1. Value \in Seq(Texts)
      BY SaidFacts DEF Said
    <3>2. QED
      BY <1>0, <2>1, <3>1
  <2>5. Len(lines') <= MaxLines /\ booted' <= Len(lines') /\ polled' <= Len(lines')
    BY <1>0, <2>1, <2>3
  <2>6. QED
    BY <1>0, <2>1, <2>2, <2>3, <2>4, <2>5 DEF ShapeInv, TypeOK
<1>3. CASE PollChip
  <2>1. PICK h \in Headers : PollEmpty(h) \/ PollResponse(h)
    BY <1>3 DEF PollChip
  <2>2. /\ cs' = "none" /\ polled' = Len(lines)
        /\ UNCHANGED <<auto, div, pwr, pc, lines, booted>>
    BY <2>1 DEF PollEmpty, PollResponse, Poll
  <2>3. /\ host' \in Seq(Texts) /\ stdout' \in Seq(Texts) /\ Len(stdout') < StdoutSize
        /\ polls' \in Nat /\ polls' <= MaxPolls /\ printed' \in Seq(Texts)
    BY <2>1, PollMoves
  <2>4. QED
    BY <1>0, <2>2, <2>3 DEF ShapeInv, TypeOK
<1>4. CASE RxOverflow
  BY <1>0, <1>4, OverflowMoves DEF ShapeInv, TypeOK, settings
<1>5. CASE Reboot
  <2>1. <<>> \in Seq(Texts) /\ Len(<<>>) < StdoutSize
    BY <1>0
  <2>2. AutoDefault \in AutoSettings /\ 32 \in Divs
    BY CmdAssumption DEF AutoDefault, AutoSettings
  <2>3. QED
    BY <1>0, <1>5, <2>1, <2>2 DEF Reboot, ShapeInv, TypeOK
<1>6. CASE UNCHANGED vars
  BY <1>0, <1>6 DEF vars, ShapeInv, TypeOK
<1>7. QED
  BY <1>1, <1>2, <1>3, <1>4, <1>5, <1>6, ParseMoves DEF Next

(* Every step reads a line or is quiet. *)
LEMMA StepMoves ==
    ASSUME ShapeInv, TextsInv, [Next]_vars
    PROVE  /\ Extends
           /\ Quiet \/ \E l \in Commands, end \in {"none", "OK", "ERROR"} : Reads(l, end)
<1>0. host \in Seq(Texts) /\ Len(host) \in Nat /\ DOMAIN host = 1 .. Len(host)
  BY DEF ShapeInv
<1>1. CASE Parse
  BY <1>1, ParseMoves, AnswersMoves, ResetMoves
<1>2. CASE PollChip
  BY <1>2, PollMoves DEF PollChip
<1>3. CASE RxOverflow
  BY <1>3, OverflowMoves
<1>4. CASE Reboot
  <2>1. Extends
    BY <1>0, <1>4 DEF Reboot, Extends
  <2>2. Restarts /\ lines' = lines /\ host' = host
    BY <1>4 DEF Reboot, Restarts
  <2>3. QED
    BY <2>1, <2>2 DEF Quiet
<1>5. CASE UNCHANGED vars
  <2>1. Extends
    BY <1>0, <1>5 DEF vars, Extends
  <2>2. Quiet
    BY <1>5 DEF vars, Quiet, Rests, settings
  <2>3. QED
    BY <2>1, <2>2
<1>6. QED
  BY <1>1, <1>2, <1>3, <1>4, <1>5 DEF Next

(* Texts are of lines that were read, and the buffer holds no end of a line. *)
LEMMA NextTexts ==
    ASSUME ShapeInv, TextsInv, [Next]_vars
    PROVE  TextsInv'
<1>0. /\ lines \in Seq(Commands) /\ Len(lines) \in Nat
      /\ host \in Seq(Texts) /\ host' \in Seq(Texts) /\ stdout \in Seq(Texts)
      /\ lines' \in Seq(Commands) /\ Len(lines') \in Nat
      /\ \A i \in DOMAIN host' : host'[i].num \in Nat
  <2>1. ShapeInv'
    BY NextShape
  <2>2. \A i \in DOMAIN host' : host'[i] \in Texts
    BY <2>1 DEF ShapeInv
  <2>3. QED
    BY <2>1, <2>2 DEF ShapeInv, Texts
<1>1. \A i \in DOMAIN host' : host'[i].by = "line" => host'[i].num <= Len(lines')
  <2>1. Len(lines) <= Len(lines')
    BY <1>0, StepMoves DEF Quiet, Reads
  <2>2. \A i \in DOMAIN host : host'[i].by = "line" => host'[i].num <= Len(lines)
    BY StepMoves DEF Extends, TextsInv
  <2>3. \A i \in DOMAIN host' \ DOMAIN host :
            host'[i].by = "line" => host'[i].num = Len(lines) + 1 /\ Len(lines') = Len(lines) + 1
    BY <1>0, StepMoves DEF Quiet, Reads
  <2>4. QED
    BY <1>0, <2>1, <2>2, <2>3
<1>2. \A i \in DOMAIN stdout' :
           \/ stdout'[i].by = "poll"
           \/ /\ pc' = "reset"
              /\ stdout'[i].by = "line" /\ stdout'[i].num = Len(lines')
              /\ stdout'[i].says = "value"
  <2>1. CASE Parse
    <3>1. CASE Reset
      BY <3>1, ResetMoves
    <3>2. CASE ~Reset
      <4>1. stdout' = <<>>
        BY <2>1, <3>2, ParseMoves, AnswersMoves
      <4>2. QED
        BY <4>1
    <3>3. QED
      BY <3>1, <3>2
  <2>2. CASE PollChip
    BY <2>2, PollMoves DEF PollChip
  <2>3. CASE RxOverflow
    BY <2>3 DEF RxOverflow, TextsInv
  <2>4. CASE Reboot
    <3>1. stdout' = <<>>
      BY <2>4 DEF Reboot
    <3>2. QED
      BY <3>1
  <2>5. CASE UNCHANGED vars
    BY <2>5 DEF vars, TextsInv
  <2>6. QED
    BY <2>1, <2>2, <2>3, <2>4, <2>5 DEF Next
<1>3. QED
  BY <1>1, <1>2 DEF TextsInv

-----------------------------------------------------------------------------
(* What has been received of a line that was read before this step. *)
LEMMA SameReceived ==
    ASSUME ShapeInv, TextsInv, [Next]_vars, NEW n \in 1 .. Len(lines), NEW w
    PROVE  Received(Text("line", n, w))' <=> Received(Text("line", n, w))
<1>0. Len(lines) \in Nat /\ n \in Nat /\ n # Len(lines) + 1
  BY DEF ShapeInv
<1> DEFINE t == Text("line", n, w)
<1>1. t.by = "line" /\ t.num = n
  BY DEF Text
<1> HIDE DEF t
<1>2. Received(t)' <=> \E i \in DOMAIN host' : host'[i] = t
  BY DEF Received, Range, t
<1>3. Received(t) <=> \E i \in DOMAIN host : host[i] = t
  BY DEF Received, Range
<1>4. \A i \in DOMAIN host' \ DOMAIN host : host'[i] # t
  BY <1>0, <1>1, StepMoves DEF Quiet, Reads
<1>5. QED
  BY <1>2, <1>3, <1>4, StepMoves DEF Extends, t

(* And of the line that is read: its end. *)
LEMMA EndReceived ==
    ASSUME ShapeInv, TextsInv, [Next]_vars,
           NEW l \in Commands, NEW end \in {"none", "OK", "ERROR"}, Reads(l, end),
           NEW n, n = Len(lines) + 1
    PROVE  Received(Text("line", n, "OK"))' <=> end = "OK"
<1>0. Len(lines) \in Nat
  BY DEF ShapeInv
<1> DEFINE t == Text("line", n, "OK")
<1>1. t.by = "line" /\ t.num = n /\ t.says = "OK"
  BY DEF Text
<1>2. (\E i \in DOMAIN host' : host'[i] = t) <=> end = "OK"
  <2>1. ASSUME end = "OK" PROVE Len(host') \in DOMAIN host' /\ host'[Len(host')] = t
    BY <2>1, StepMoves DEF Reads, Extends
  <2>2. ASSUME NEW i \in DOMAIN host', host'[i] = t PROVE end = "OK"
    <3>1. i \notin DOMAIN host
      BY <1>0, <1>1, <2>2, StepMoves DEF Extends, TextsInv
    <3>2. i = Len(host') /\ end # "none"
      BY <1>1, <2>2, <3>1 DEF Reads, Results
    <3>3. Text("line", n, end).says = "OK"
      BY <1>1, <2>2, <3>2 DEF Reads
    <3>4. QED
      BY <3>3 DEF Text
  <2>3. QED
    BY <2>1, <2>2
<1>3. QED
  BY <1>2 DEF Received, Range

(* The maximum, when a greater number is added. *)
LEMMA Greatest ==
    ASSUME NEW n \in Nat, NEW S, S \subseteq 1 .. n
    PROVE  Max(S \cup {n + 1}) = n + 1
<1> DEFINE T == S \cup {n + 1}
           x == CHOOSE x \in T : \A y \in T : x >= y
<1>1. n + 1 \in T /\ \A y \in T : n + 1 >= y
  OBVIOUS
<1>2. x \in T /\ \A y \in T : x >= y
  BY <1>1
<1> HIDE DEF x
<1>3. x >= n + 1 /\ (x \in 1 .. n \/ x = n + 1)
  BY <1>1, <1>2
<1>4. x = n + 1
  BY <1>3
<1>5. QED
  BY <1>4 DEF Max, x

(* The acknowledged settings grow with the lines that are read, and with nothing
   else; a restart forgets them.                                            *)
LEMMA AcknowledgedQuiet ==
    ASSUME ShapeInv, TextsInv, [Next]_vars, Quiet, booted' = booted, NEW s, NEW d
    PROVE  /\ Acknowledged(s)' = Acknowledged(s)
           /\ Believed(s, d)' = Believed(s, d)
<1>0. lines' = lines /\ Len(lines) \in Nat /\ booted \in Nat
  BY DEF Quiet, ShapeInv
<1>1. Acknowledged(s)' = {n \in booted + 1 .. Len(lines) :
          lines[n].name = s /\ lines[n].form = "set" /\ Received(Text("line", n, "OK"))'}
  BY <1>0 DEF Acknowledged
<1>2. \A n \in booted + 1 .. Len(lines) : n \in 1 .. Len(lines)
  BY <1>0
<1>3. \A n \in booted + 1 .. Len(lines) :
          Received(Text("line", n, "OK"))' <=> Received(Text("line", n, "OK"))
  BY <1>2, SameReceived
<1>4. Acknowledged(s)' = Acknowledged(s)
  BY <1>1, <1>3 DEF Acknowledged
<1>5. QED
  BY <1>0, <1>4 DEF Believed

(* A line that is acknowledged is the latest of those that set its value. *)
LEMMA AcknowledgedReads ==
    ASSUME ShapeInv, TextsInv, LatestInv, [Next]_vars,
           NEW l \in Commands, NEW end \in {"none", "OK", "ERROR"}, Reads(l, end),
           NEW s \in Setters, NEW d
    PROVE  IF Names(l, end, s)
           THEN /\ Acknowledged(s)' = Acknowledged(s) \cup {Len(lines) + 1}
                /\ Max(Acknowledged(s)') = Len(lines) + 1
                /\ Believed(s, d)' = l.value
           ELSE /\ Acknowledged(s)' = Acknowledged(s)
                /\ Believed(s, d)' = Believed(s, d)
<1> DEFINE N == Len(lines) + 1
<1>0. /\ lines \in Seq(Commands) /\ lines' = Append(lines, l) /\ booted' = booted
      /\ Len(lines) \in Nat /\ booted \in Nat /\ booted <= Len(lines)
  BY DEF Reads, ShapeInv, TypeOK
<1>1. /\ Len(lines') = N /\ lines'[N] = l
      /\ \A n \in 1 .. Len(lines) : lines'[n] = lines[n]
  BY <1>0
<1> DEFINE A(n) == lines'[n].name = s /\ lines'[n].form = "set"
                   /\ Received(Text("line", n, "OK"))'
<1>2. Acknowledged(s)' = {n \in booted + 1 .. N : A(n)}
  BY <1>0, <1>1 DEF Acknowledged
<1>3. \A n \in booted + 1 .. Len(lines) : n \in 1 .. Len(lines)
  BY <1>0
<1>4. \A n \in booted + 1 .. Len(lines) :
          Received(Text("line", n, "OK"))' <=> Received(Text("line", n, "OK"))
  BY <1>3, SameReceived
<1>5. Acknowledged(s) = {n \in booted + 1 .. Len(lines) : A(n)}
  BY <1>1, <1>3, <1>4 DEF Acknowledged
<1>6. ASSUME NEW n, n = N PROVE A(n) <=> Names(l, end, s)
  <2>1. Received(Text("line", n, "OK"))' <=> end = "OK"
    BY <1>6, EndReceived
  <2>2. QED
    BY <1>1, <1>6, <2>1 DEF Names
<1>7. booted + 1 .. N = (booted + 1 .. Len(lines)) \cup {N} /\ N \notin booted + 1 .. Len(lines)
  BY <1>0
<1> HIDE DEF A
<1>8. Acknowledged(s) \subseteq 1 .. Len(lines)
  BY <1>3, <1>5
<1>9. CASE Names(l, end, s)
  <2>1. Acknowledged(s)' = Acknowledged(s) \cup {N}
    BY <1>2, <1>5, <1>6, <1>7, <1>9
  <2>2. Max(Acknowledged(s)') = N
    BY <1>0, <1>8, <2>1, Greatest
  <2>3. Believed(s, d)' = l.value
    BY <1>1, <2>1, <2>2 DEF Believed
  <2>4. QED
    BY <1>9, <2>1, <2>2, <2>3
<1>10. CASE ~Names(l, end, s)
  <2>1. Acknowledged(s)' = Acknowledged(s)
    BY <1>2, <1>5, <1>6, <1>7, <1>10
  <2>2. Believed(s, d)' = Believed(s, d)
    <3>1. CASE Acknowledged(s) = {}
      BY <2>1, <3>1 DEF Believed
    <3>2. CASE Acknowledged(s) # {}
      <4>1. Max(Acknowledged(s)) \in 1 .. Len(lines)
        BY <1>8, <3>2 DEF LatestInv
      <4>2. QED
        BY <1>1, <2>1, <3>2, <4>1 DEF Believed
    <3>3. QED
      BY <3>1, <3>2
  <2>3. QED
    BY <1>10, <2>1, <2>2
<1>11. QED
  BY <1>9, <1>10

-----------------------------------------------------------------------------
(* The latest acknowledged setting is one of them, after every step. *)
LEMMA NextLatest ==
    ASSUME ShapeInv, TextsInv, LatestInv, [Next]_vars
    PROVE  LatestInv'
<1> SUFFICES ASSUME NEW s \in Setters, Acknowledged(s)' # {}
             PROVE  Max(Acknowledged(s)') \in Acknowledged(s)'
  BY DEF LatestInv
<1>1. ASSUME NEW l \in Commands, NEW end \in {"none", "OK", "ERROR"}, Reads(l, end)
      PROVE  Max(Acknowledged(s)') \in Acknowledged(s)'
  BY <1>1, AcknowledgedReads DEF LatestInv
<1>2. CASE Quiet /\ booted' = booted
  <2>1. Acknowledged(s)' = Acknowledged(s)
    BY <1>2, AcknowledgedQuiet
  <2>2. QED
    BY <2>1 DEF LatestInv
<1>3. CASE Quiet /\ Restarts
  <2>1. Acknowledged(s)' = {}
    BY <1>3 DEF Acknowledged, Quiet, Restarts, ShapeInv
  <2>2. QED
    BY <2>1
<1>4. QED
  BY <1>1, <1>2, <1>3, StepMoves DEF Quiet, Polls, Rests

(* On is not off. *)
LEMMA FlagsDiffer == Flag(TRUE) # Flag(FALSE)
<1>1. Flag(TRUE).flag = TRUE /\ Flag(FALSE).flag = FALSE
  BY DEF Flag
<1>2. QED
  BY <1>1

(* Out of the loop nothing is answered any more, and nothing set. *)
SettingsAnyway ==
    /\ Triple(auto) = Believed("AUTO", Triple(AutoDefault))
    /\ Number(div) = Believed("CLKDIV", Number(32))
    /\ Flag(pwr) = Believed("PWR", Flag(TRUE))

(* The settings follow the acknowledged lines. *)
LEMMA NextSettings ==
    ASSUME ShapeInv, TextsInv, LatestInv, SettingsAnyway, [Next]_vars
    PROVE  SettingsAnyway'
<1> DEFINE S1 == Believed("AUTO", Triple(AutoDefault))
           S2 == Believed("CLKDIV", Number(32))
           S3 == Believed("PWR", Flag(TRUE))
<1>0. "AUTO" \in Setters /\ "CLKDIV" \in Setters /\ "PWR" \in Setters
  BY DEF Setters
<1>1. ASSUME NEW l \in Commands, NEW end \in {"none", "OK", "ERROR"}, Reads(l, end)
      PROVE  SettingsAnyway'
  <2>1. S1' = IF Names(l, end, "AUTO") THEN l.value ELSE S1
    BY <1>0, <1>1, AcknowledgedReads
  <2>2. S2' = IF Names(l, end, "CLKDIV") THEN l.value ELSE S2
    BY <1>0, <1>1, AcknowledgedReads
  <2>3. S3' = IF Names(l, end, "PWR") THEN l.value ELSE S3
    <3>1. \A d : Believed("PWR", d)' = IF Names(l, end, "PWR") THEN l.value ELSE Believed("PWR", d)
      BY <1>0, <1>1, AcknowledgedReads
    <3>2. QED
      BY ONLY <3>1, Zenon
  <2> HIDE DEF S1, S2, S3
  <2>4. S1 = Triple(auto) /\ S2 = Number(div) /\ S3 = Flag(pwr)
    BY DEF SettingsAnyway, S1, S2, S3
  <2>5. Triple(auto') = S1'
    BY <1>1, <2>1, <2>4 DEF Reads, Sets
  <2>6. Number(div') = S2'
    BY <1>1, <2>2, <2>4 DEF Reads, Sets
  <2>7. Flag(pwr') = S3'
    BY <1>1, <2>3, <2>4, Zenon DEF Reads, Sets
  <2>8. QED
    BY <2>5, <2>6, <2>7 DEF SettingsAnyway, S1, S2, S3
<1>2. CASE Quiet /\ booted' = booted /\ UNCHANGED <<auto, div, pwr>>
  <2>1. S1' = S1 /\ S2' = S2 /\ S3' = S3
    BY <1>2, AcknowledgedQuiet
  <2>2. QED
    BY <1>2, <2>1 DEF SettingsAnyway
<1>3. CASE Quiet /\ Restarts
  <2>1. \A s : Acknowledged(s)' = {}
    BY <1>3 DEF Acknowledged, Quiet, Restarts, ShapeInv
  <2>2. \A s, d : Believed(s, d)' = d
    BY <2>1 DEF Believed
  <2>3. QED
    BY <1>3, <2>2 DEF SettingsAnyway, Restarts
<1>4. QED
  BY <1>1, <1>2, <1>3, StepMoves DEF Quiet, Polls, Rests, settings

(* The chip select, in the loop or out of it. *)
FrameAnyway ==
    cs = "host" <=> /\ Believed("CS", Flag(FALSE)) = Flag(TRUE)
                    /\ Max(Acknowledged("CS")) > polled

(* The chip select follows the acknowledged lines and the polls. *)
LEMMA NextFrame ==
    ASSUME ShapeInv, TextsInv, LatestInv, FrameAnyway, [Next]_vars
    PROVE  FrameAnyway'
<1> DEFINE b == Believed("CS", Flag(FALSE))
           m == Max(Acknowledged("CS"))
<1>0. /\ "CS" \in Setters /\ polled <= Len(lines) /\ Len(lines) \in Nat /\ polled \in Nat
      /\ lines \in Seq(Commands) /\ booted \in Nat
  BY DEF Setters, ShapeInv, TypeOK
<1>1. ASSUME NEW l \in Commands, NEW end \in {"none", "OK", "ERROR"}, Reads(l, end)
      PROVE  FrameAnyway'
  <2>1. CASE Names(l, end, "CS")
    <3>1. m' = Len(lines) + 1 /\ b' = l.value
      <4>1. \A d : /\ Max(Acknowledged("CS")') = Len(lines) + 1
                   /\ Believed("CS", d)' = l.value
        BY <1>0, <1>1, <2>1, AcknowledgedReads
      <4>2. QED
        BY ONLY <4>1, Zenon
    <3>2. PICK v \in BOOLEAN : l.value = Flag(v) /\ cs' = IF v THEN "host" ELSE "none"
      BY <1>1, <2>1 DEF Reads, Sets
    <3>3. m' > polled'
      BY <1>0, <1>1, <3>1 DEF Reads
    <3>4. cs' = "host" <=> b' = Flag(TRUE)
      <4>1. CASE v = TRUE
        BY <3>1, <3>2, <4>1
      <4>2. CASE v = FALSE
        BY <3>1, <3>2, <4>2, FlagsDiffer
      <4>3. QED
        BY <4>1, <4>2
    <3>5. QED
      BY <3>3, <3>4 DEF FrameAnyway
  <2>2. CASE ~Names(l, end, "CS")
    <3>1. Acknowledged("CS")' = Acknowledged("CS") /\ b' = b
      <4>1. \A d : /\ Acknowledged("CS")' = Acknowledged("CS")
                   /\ Believed("CS", d)' = Believed("CS", d)
        BY <1>0, <1>1, <2>2, AcknowledgedReads
      <4>2. QED
        BY ONLY <4>1, Zenon
    <3>2. cs' = cs /\ polled' = polled
      BY <1>1, <2>2 DEF Reads, Sets
    <3>3. QED
      BY <3>1, <3>2 DEF FrameAnyway
  <2>3. QED
    BY <2>1, <2>2
<1>2. CASE Quiet /\ Rests
  <2>1. Acknowledged("CS")' = Acknowledged("CS") /\ b' = b
    BY <1>2, AcknowledgedQuiet DEF Rests
  <2>2. QED
    BY <1>2, <2>1 DEF FrameAnyway, Rests, settings
<1>3. CASE Quiet /\ Polls
  <2>1. Acknowledged("CS")' = Acknowledged("CS") /\ b' = b
    BY <1>3, AcknowledgedQuiet DEF Polls
  <2>2. CASE Acknowledged("CS") = {}
    <3>1. b' = Flag(FALSE)
      BY <2>1, <2>2 DEF Believed
    <3>2. QED
      BY <1>3, <3>1, FlagsDiffer DEF FrameAnyway, Polls
  <2>3. CASE Acknowledged("CS") # {}
    <3>1. m \in Acknowledged("CS")
      BY <1>0, <2>3 DEF LatestInv
    <3>2. m \in 1 .. Len(lines)
      BY <1>0, <3>1 DEF Acknowledged
    <3>3. m' = m /\ polled' = Len(lines) /\ ~(m' > polled')
      BY <1>0, <1>3, <2>1, <3>2 DEF Polls
    <3>4. QED
      BY <1>3, <3>3 DEF FrameAnyway, Polls
  <2>4. QED
    BY <2>2, <2>3
<1>4. CASE Quiet /\ Restarts
  <2>1. Acknowledged("CS")' = {}
    BY <1>4 DEF Acknowledged, Quiet, Restarts, ShapeInv
  <2>2. b' = Flag(FALSE)
    BY <2>1 DEF Believed
  <2>3. QED
    BY <1>4, <2>2, FlagsDiffer DEF FrameAnyway, Restarts
<1>5. QED
  BY <1>1, <1>2, <1>3, <1>4, StepMoves DEF Quiet

(* The end of an answer stays the only one and the last text of its line. *)
LEMMA NextAnswers ==
    ASSUME ShapeInv, TextsInv, AnswersInv, [Next]_vars
    PROVE  AnswersInv'
<1>0. /\ lines \in Seq(Commands) /\ Len(lines) \in Nat /\ DOMAIN lines = 1 .. Len(lines)
      /\ host \in Seq(Texts) /\ Len(host) \in Nat /\ DOMAIN host = 1 .. Len(host)
      /\ lines' \in Seq(Commands) /\ Len(lines') \in Nat /\ DOMAIN lines' = 1 .. Len(lines')
  <2>1. ShapeInv'
    BY NextShape
  <2>2. QED
    BY <2>1 DEF ShapeInv
<1>1. Extends
  BY StepMoves
<1>2. \A n \in DOMAIN lines : n \in DOMAIN lines' /\ lines'[n] = lines[n]
  <2>1. lines' = lines \/ \E l \in Commands : lines' = Append(lines, l)
    BY StepMoves DEF Quiet, Reads
  <2>2. ASSUME NEW l \in Commands, lines' = Append(lines, l)
        PROVE  \A n \in DOMAIN lines : n \in DOMAIN lines' /\ lines'[n] = lines[n]
    BY <1>0, <2>2
  <2>3. QED
    BY <2>1, <2>2
<1>3. \A i \in DOMAIN host' \ DOMAIN host :
          host'[i].by = "line" => host'[i].num = Len(lines) + 1
  BY StepMoves DEF Quiet, Reads
<1> SUFFICES ASSUME NEW n \in DOMAIN lines'
             PROVE  IF Ends(lines'[n])
                    THEN \E i \in DOMAIN host' :
                            /\ EndOf(n)' = {i}
                            /\ \A j \in i + 1 .. Len(host') :
                                  ~(host'[j].by = "line" /\ host'[j].num <= n)
                    ELSE EndOf(n)' = {}
  BY DEF AnswersInv, Ends
<1>4. EndOf(n)' = {i \in DOMAIN host' : /\ host'[i].by = "line" /\ host'[i].num = n
                                        /\ host'[i].says \in {"OK", "ERROR"}}
  BY DEF EndOf
<1>5. CASE n \in DOMAIN lines
  <2>1. n \in Nat /\ n <= Len(lines) /\ n # Len(lines) + 1 /\ ~(Len(lines) + 1 <= n)
    BY <1>0, <1>5
  <2>2. EndOf(n)' = EndOf(n)
    <3>1. \A i \in EndOf(n)' : i \in DOMAIN host
      BY <1>3, <1>4, <2>1
    <3>2. QED
      BY <1>1, <1>4, <3>1 DEF EndOf, Extends
  <2>3. CASE ~Ends(lines[n])
    BY <1>2, <1>5, <2>2, <2>3 DEF AnswersInv
  <2>4. CASE Ends(lines[n])
    <3>1. PICK i \in DOMAIN host :
              /\ EndOf(n) = {i}
              /\ \A j \in i + 1 .. Len(host) : ~(host[j].by = "line" /\ host[j].num <= n)
      BY <1>5, <2>4 DEF AnswersInv
    <3>2. ASSUME NEW j \in i + 1 .. Len(host')
          PROVE  ~(host'[j].by = "line" /\ host'[j].num <= n)
      <4>1. j \in DOMAIN host'
        BY <1>0, <1>1 DEF Extends
      <4>2. CASE j \in DOMAIN host
        <5>1. j \in i + 1 .. Len(host)
          BY <1>0, <1>1, <4>2 DEF Extends
        <5>2. QED
          BY <1>1, <3>1, <4>2, <5>1 DEF Extends
      <4>3. CASE j \notin DOMAIN host
        BY <1>3, <2>1, <4>1, <4>3
      <4>4. QED
        BY <4>2, <4>3
    <3>3. i \in DOMAIN host'
      BY <1>1 DEF Extends
    <3>4. QED
      BY <1>2, <1>5, <2>2, <2>4, <3>1, <3>2, <3>3
  <2>5. QED
    BY <2>3, <2>4
<1>6. CASE n \notin DOMAIN lines
  <2>1. PICK l \in Commands, end \in {"none", "OK", "ERROR"} : Reads(l, end)
    BY <1>6, StepMoves DEF Quiet
  <2>2. n = Len(lines) + 1 /\ lines'[n] = l
    BY <1>0, <1>6, <2>1 DEF Reads
  <2>3. \A i \in EndOf(n)' : i \notin DOMAIN host
    <3>1. \A i \in DOMAIN host : host'[i].by = "line" => host'[i].num # n
      BY <1>0, <1>1, <2>2 DEF Extends, TextsInv, Texts
    <3>2. QED
      BY <1>4, <3>1
  <2>4. \A i \in EndOf(n)' : i = Len(host') /\ end # "none"
    BY <1>4, <2>1, <2>3 DEF Reads, Results
  <2>5. CASE end = "none"
    <3>1. ~Ends(l) /\ EndOf(n)' = {}
      BY <2>1, <2>4, <2>5 DEF Reads
    <3>2. QED
      BY <2>2, <3>1
  <2>6. CASE end # "none"
    <3>1. Ends(l) /\ host'[Len(host')] = Text("line", n, end) /\ Len(host') \in DOMAIN host'
      BY <1>0, <1>1, <2>1, <2>2, <2>6 DEF Reads, Extends
    <3>2. Len(host') \in EndOf(n)'
      BY <1>4, <2>6, <3>1 DEF Text
    <3>3. EndOf(n)' = {Len(host')}
      BY <2>4, <3>2
    <3>4. \A j \in Len(host') + 1 .. Len(host') : FALSE
      BY <1>1 DEF Extends
    <3>5. QED
      BY <2>2, <3>1, <3>3, <3>4
  <2>7. QED
    BY <2>5, <2>6
<1>7. QED
  BY <1>5, <1>6

(* What was printed and received stays so, and what is printed behind it is received
   in the same step, or is not of a line that ends.                         *)
LEMMA KeptBehind ==
    ASSUME ShapeInv, KeptInv, Extends, NEW t \in Seq(Texts), printed' = printed \o t,
           DOMAIN lines \subseteq DOMAIN lines',
           \A n \in DOMAIN lines : lines'[n] = lines[n],
           \A k \in DOMAIN t : t[k].by = "line" =>
               /\ t[k].num \in DOMAIN lines'
               /\ Ends(lines'[t[k].num]) => \E i \in DOMAIN host' : host'[i] = t[k]
    PROVE  KeptInv'
<1>1. printed \in Seq(Texts)
  BY DEF ShapeInv
<1>2. /\ \A k \in DOMAIN printed : printed'[k] = printed[k]
      /\ \A k \in DOMAIN printed' \ DOMAIN printed :
             k - Len(printed) \in DOMAIN t /\ printed'[k] = t[k - Len(printed)]
  BY <1>1, Concat
<1> SUFFICES ASSUME NEW k \in DOMAIN printed', printed'[k].by = "line"
             PROVE  /\ printed'[k].num \in DOMAIN lines'
                    /\ Ends(lines'[printed'[k].num]) =>
                           \E i \in DOMAIN host' : host'[i] = printed'[k]
  BY DEF KeptInv, Ends
<1>3. CASE k \in DOMAIN printed
  <2>1. /\ printed[k].num \in DOMAIN lines
        /\ Ends(lines[printed[k].num]) => \E i \in DOMAIN host : host[i] = printed[k]
    BY <1>2, <1>3 DEF KeptInv
  <2>2. QED
    BY <1>2, <1>3, <2>1 DEF Extends
<1>4. CASE k \notin DOMAIN printed
  BY <1>2, <1>4
<1>5. QED
  BY <1>3, <1>4

(* Every step keeps what lines have printed. *)
LEMMA NextKept ==
    ASSUME ShapeInv, TextsInv, KeptInv, [Next]_vars
    PROVE  KeptInv'
<1>0. /\ lines \in Seq(Commands) /\ Len(lines) \in Nat /\ DOMAIN lines = 1 .. Len(lines)
      /\ host \in Seq(Texts) /\ stdout \in Seq(Texts) /\ printed \in Seq(Texts)
  BY DEF ShapeInv
<1>1. Extends
  BY StepMoves
<1>2. ASSUME NEW l \in Commands, lines' = Append(lines, l)
      PROVE  /\ DOMAIN lines \subseteq DOMAIN lines'
             /\ \A n \in DOMAIN lines : lines'[n] = lines[n]
             /\ Len(lines) + 1 \in DOMAIN lines' /\ lines'[Len(lines) + 1] = l
  BY <1>0, <1>2
<1>3. ASSUME NEW t \in Seq(Texts), printed' = printed \o t, lines' = lines,
             \A k \in DOMAIN t : t[k].by # "line"
      PROVE  KeptInv'
  BY <1>1, <1>3, KeptBehind
<1>4. CASE Parse
  <2>1. CASE Reset
    <3> DEFINE l == Line("RESET", "none", None)
    <3>1. l \in Commands /\ ~Ends(l)
      BY DEF Line, Commands, Ends
    <3>2. /\ lines' = Append(lines, l) /\ printed' = printed \o Value
      BY <2>1 DEF Reset, Execute, Printf
    <3> HIDE DEF l
    <3>3. /\ Value \in Seq(Texts)
          /\ \A k \in DOMAIN Value : Value[k].num = Len(lines) + 1
      <4>1. Said(Value, "none")
        BY DEF Said
      <4>2. QED
        BY <4>1, SaidFacts
    <3>4. QED
      BY <1>1, <1>2, <3>1, <3>2, <3>3, KeptBehind
  <2>2. CASE ~Reset
    <3>1. PICK l \in Commands, t \in Seq(Texts), end \in {"none", "OK", "ERROR"} :
              Answers(l, t, end)
      BY <1>4, <2>2, ParseMoves
    <3>2. /\ lines' = Append(lines, l) /\ printed' = printed \o t
          /\ host' = (host \o stdout) \o t /\ Said(t, end)
      BY <3>1 DEF Answers, Execute, PrintAndFlush
    <3>3. \A k \in DOMAIN t : t[k].num = Len(lines) + 1
      BY <3>2, SaidFacts
    <3>4. \A k \in DOMAIN t : \E i \in DOMAIN host' : host'[i] = t[k]
      <4> DEFINE q == host \o stdout
      <4>1. q \in Seq(Texts) /\ t \in Seq(Texts)
        BY <1>0, <3>2, Concat, SaidFacts
      <4>2. host' = q \o t
        BY <3>2
      <4> HIDE DEF q
      <4>3. \A k \in DOMAIN t : Len(q) + k \in DOMAIN host' /\ host'[Len(q) + k] = t[k]
        BY ONLY <4>1, <4>2, Concat
      <4>4. QED
        BY <4>3
    <3>5. QED
      BY <1>1, <1>2, <3>2, <3>3, <3>4, KeptBehind
  <2>3. QED
    BY <2>1, <2>2
<1>5. ASSUME NEW h \in Headers, PollEmpty(h) PROVE KeptInv'
  <2>1. UNCHANGED <<host, printed, lines>>
    BY <1>5 DEF PollEmpty, Poll
  <2>2. QED
    BY <2>1 DEF KeptInv, Ends
<1>6. ASSUME NEW h \in Headers, PollResponse(h) PROVE KeptInv'
  <2> DEFINE t == <<Text("poll", polls + 1, h)>>
  <2>1. t \in Seq(Texts) /\ \A k \in DOMAIN t : t[k].by # "line"
    BY CmdAssumption DEF Headers, Text, Texts, ShapeInv
  <2>2. printed' = printed \o t /\ lines' = lines
    BY <1>6 DEF PollResponse, Poll, Printf
  <2> HIDE DEF t
  <2>3. QED
    BY <1>3, <2>1, <2>2
<1>7. CASE RxOverflow
  <2> DEFINE t == <<Text("rx", 0, "ERROR")>>
  <2>1. t \in Seq(Texts) /\ \A k \in DOMAIN t : t[k].by # "line"
    BY DEF Text, Texts, Results
  <2>2. printed' = printed \o t /\ lines' = lines
    BY <1>0, <1>7 DEF RxOverflow
  <2> HIDE DEF t
  <2>3. QED
    BY <1>3, <2>1, <2>2
<1>8. CASE Reboot
  <2>1. UNCHANGED <<host, printed, lines>>
    BY <1>8 DEF Reboot
  <2>2. QED
    BY <2>1 DEF KeptInv, Ends
<1>9. CASE UNCHANGED vars
  BY <1>9 DEF vars, KeptInv, Ends
<1>10. QED
  BY <1>4, <1>5, <1>6, <1>7, <1>8, <1>9 DEF Next, PollChip

-----------------------------------------------------------------------------
(* Texts behind texts keep the order, whatever p and q were. *)
LEMMA OrderedBehind ==
    ASSUME NEW q \in Seq(Texts), NEW p \in Seq(Texts), NEW t \in Seq(Texts), Ordered(q, p)
    PROVE  Ordered(q \o t, p \o t)
<1> DEFINE qt == q \o t
           pt == p \o t
<1>1. /\ Len(q) \in Nat /\ DOMAIN q = 1 .. Len(q) /\ DOMAIN t = 1 .. Len(t) /\ Len(t) \in Nat
      /\ DOMAIN qt = 1 .. Len(q) + Len(t)
      /\ \A i \in DOMAIN q : qt[i] = q[i]
      /\ \A i \in DOMAIN qt \ DOMAIN q :
             i > Len(q) /\ i - Len(q) \in DOMAIN t /\ qt[i] = t[i - Len(q)]
  BY Concat
<1>2. /\ Len(p) \in Nat /\ DOMAIN p = 1 .. Len(p)
      /\ \A k \in DOMAIN p : k \in DOMAIN pt /\ pt[k] = p[k]
      /\ \A k \in DOMAIN t : Len(p) + k \in DOMAIN pt /\ pt[Len(p) + k] = t[k]
  BY Concat
<1> HIDE DEF qt, pt
<1>3. ASSUME NEW i \in DOMAIN qt, qt[i].by # "rx"
      PROVE  \E k \in DOMAIN pt : pt[k] = qt[i]
  <2>1. CASE i \in DOMAIN q
    BY <1>1, <1>2, <1>3, <2>1 DEF Ordered
  <2>2. CASE i \notin DOMAIN q
    BY <1>1, <1>2, <1>3, <2>2
  <2>3. QED
    BY <2>1, <2>2
<1>4. ASSUME NEW i \in DOMAIN qt, NEW j \in DOMAIN qt, i < j,
             qt[i].by # "rx", qt[j].by # "rx"
      PROVE  \E k, m \in DOMAIN pt : k < m /\ pt[k] = qt[i] /\ pt[m] = qt[j]
  <2>1. CASE i \in DOMAIN q /\ j \in DOMAIN q
    <3>1. PICK k \in DOMAIN p, m \in DOMAIN p : k < m /\ p[k] = q[i] /\ p[m] = q[j]
      BY <1>1, <1>4, <2>1 DEF Ordered
    <3>2. QED
      BY <1>1, <1>2, <2>1, <3>1
  <2>2. CASE i \in DOMAIN q /\ j \notin DOMAIN q
    <3>1. PICK k \in DOMAIN p : p[k] = q[i]
      BY <1>1, <1>4, <2>2 DEF Ordered
    <3>2. j - Len(q) \in DOMAIN t /\ qt[j] = t[j - Len(q)] /\ j - Len(q) >= 1
      BY <1>1, <2>2
    <3>3. /\ k \in DOMAIN pt /\ pt[k] = qt[i]
          /\ Len(p) + (j - Len(q)) \in DOMAIN pt /\ pt[Len(p) + (j - Len(q))] = qt[j]
      BY <1>1, <1>2, <2>2, <3>1, <3>2
    <3>4. k < Len(p) + (j - Len(q))
      BY <1>1, <1>2, <3>1, <3>2
    <3>5. QED
      BY <3>3, <3>4
  <2>3. CASE i \notin DOMAIN q
    <3>1. i > Len(q) /\ i - Len(q) \in DOMAIN t /\ qt[i] = t[i - Len(q)]
      BY <1>1, <2>3
    <3>2. j \notin DOMAIN q
      BY <1>1, <1>4, <3>1
    <3>3. j - Len(q) \in DOMAIN t /\ qt[j] = t[j - Len(q)]
      BY <1>1, <3>2
    <3>4. /\ Len(p) + (i - Len(q)) \in DOMAIN pt /\ pt[Len(p) + (i - Len(q))] = qt[i]
          /\ Len(p) + (j - Len(q)) \in DOMAIN pt /\ pt[Len(p) + (j - Len(q))] = qt[j]
      BY <1>2, <3>1, <3>3
    <3>5. Len(p) + (i - Len(q)) < Len(p) + (j - Len(q))
      BY <1>1, <1>2, <1>4
    <3>6. QED
      BY <3>4, <3>5
  <2>4. QED
    BY <2>1, <2>2, <2>3
<1>5. Ordered(qt, pt)
  BY <1>3, <1>4 DEF Ordered
<1>6. QED
  BY <1>5 DEF qt, pt

(* Taking the buffer away leaves what was received in order. *)
LEMMA OrderedFront ==
    ASSUME NEW q \in Seq(Texts), NEW r \in Seq(Texts), NEW p \in Seq(Texts), Ordered(q \o r, p)
    PROVE  Ordered(q, p)
<1>1. \A i \in DOMAIN q : i \in DOMAIN (q \o r) /\ (q \o r)[i] = q[i]
  BY Concat
<1> DEFINE qr == q \o r
<1> HIDE DEF qr
<1>2. (\A i \in DOMAIN q : i \in DOMAIN qr /\ qr[i] = q[i]) /\ Ordered(qr, p)
  BY <1>1 DEF qr
<1>3. QED
  BY <1>2 DEF Ordered

(* An error that is sent past the buffer disturbs nobody else's order. *)
LEMMA OrderedPast ==
    ASSUME NEW q \in Seq(Texts), NEW r \in Seq(Texts), NEW p \in Seq(Texts),
           NEW e \in Texts, e.by = "rx", Ordered(q \o r, p)
    PROVE  Ordered(Append(q, e) \o r, Append(p, e))
<1> DEFINE qr == q \o r
           qe == Append(q, e)
           new == qe \o r
           pe == Append(p, e)
<1>1. /\ qe \in Seq(Texts) /\ Len(qe) = Len(q) + 1 /\ Len(q) \in Nat /\ qe[Len(q) + 1] = e
      /\ \A i \in 1 .. Len(q) : qe[i] = q[i]
      /\ \A k \in DOMAIN p : k \in DOMAIN pe /\ pe[k] = p[k]
  OBVIOUS
<1> HIDE DEF qe, pe
<1>2. /\ DOMAIN qr = 1 .. Len(q) + Len(r) /\ Len(r) \in Nat
      /\ DOMAIN q = 1 .. Len(q) /\ DOMAIN r = 1 .. Len(r)
      /\ \A i \in DOMAIN q : qr[i] = q[i]
      /\ \A i \in DOMAIN r : Len(q) + i \in DOMAIN qr /\ qr[Len(q) + i] = r[i]
  BY Concat
<1>3. /\ DOMAIN new = 1 .. Len(qe) + Len(r)
      /\ DOMAIN qe = 1 .. Len(qe)
      /\ \A i \in DOMAIN qe : new[i] = qe[i]
      /\ \A i \in DOMAIN new \ DOMAIN qe : i - Len(qe) \in DOMAIN r /\ new[i] = r[i - Len(qe)]
  <2>1. qe \in Seq(Texts) /\ r \in Seq(Texts)
    BY <1>1
  <2>2. QED
    BY ONLY <2>1, Concat
<1> HIDE DEF qr, new
<1> DEFINE was(i) == IF i <= Len(q) THEN i ELSE i - 1
<1>4. ASSUME NEW i \in DOMAIN new, new[i].by # "rx"
      PROVE  was(i) \in DOMAIN qr /\ qr[was(i)] = new[i] /\ i # Len(q) + 1
  <2>1. i # Len(q) + 1
    BY <1>1, <1>3, <1>4
  <2>2. CASE i <= Len(q)
    BY <1>1, <1>2, <1>3, <2>2
  <2>3. CASE i > Len(q) + 1
    <3>1. /\ i - Len(qe) \in DOMAIN r /\ new[i] = r[i - Len(qe)]
          /\ Len(q) + (i - Len(qe)) = i - 1 /\ was(i) = i - 1
      BY <1>1, <1>3, <2>3
    <3>2. QED
      BY <1>2, <2>1, <3>1
  <2>4. QED
    BY <1>1, <1>3, <2>1, <2>2, <2>3
<1>5. \A i, j \in DOMAIN new : i < j /\ i # Len(q) + 1 /\ j # Len(q) + 1 => was(i) < was(j)
  BY <1>1, <1>3
<1> HIDE DEF was
<1>6. Ordered(qr, p)
  BY DEF qr
<1>7. ASSUME NEW i \in DOMAIN new, new[i].by # "rx"
      PROVE  \E k \in DOMAIN pe : pe[k] = new[i]
  BY <1>1, <1>4, <1>6, <1>7 DEF Ordered
<1>8. ASSUME NEW i \in DOMAIN new, NEW j \in DOMAIN new, i < j,
             new[i].by # "rx", new[j].by # "rx"
      PROVE  \E k, m \in DOMAIN pe : k < m /\ pe[k] = new[i] /\ pe[m] = new[j]
  <2>1. /\ was(i) \in DOMAIN qr /\ qr[was(i)] = new[i]
        /\ was(j) \in DOMAIN qr /\ qr[was(j)] = new[j] /\ was(i) < was(j)
    BY <1>4, <1>5, <1>8
  <2>2. PICK k \in DOMAIN p, m \in DOMAIN p : k < m /\ p[k] = qr[was(i)] /\ p[m] = qr[was(j)]
    BY <1>6, <1>8, <2>1 DEF Ordered
  <2>3. QED
    BY <1>1, <2>1, <2>2
<1>9. Ordered(new, pe)
  BY <1>7, <1>8 DEF Ordered
<1>10. QED
  BY <1>9 DEF new, qe, pe

(* Every step keeps what was received, and what waits behind it, in order. *)
LEMMA NextOrder ==
    ASSUME ShapeInv, TextsInv, OrderInv, [Next]_vars
    PROVE  OrderInv'
<1>0. /\ host \in Seq(Texts) /\ stdout \in Seq(Texts) /\ printed \in Seq(Texts)
      /\ host \o stdout \in Seq(Texts)
  BY DEF ShapeInv
<1>1. host' \in Seq(Texts) /\ stdout' \in Seq(Texts) /\ printed' \in Seq(Texts)
  BY NextShape DEF ShapeInv
<1>2. ASSUME NEW t \in Seq(Texts), printed' = printed \o t,
             host' \o stdout' = (host \o stdout) \o t
      PROVE  OrderInv'
  <2>1. Ordered((host \o stdout) \o t, printed \o t)
    BY <1>0, OrderedBehind DEF OrderInv
  <2>2. Ordered(host' \o stdout', printed')
    BY <1>2, <2>1
  <2>3. QED
    BY <2>2 DEF OrderInv, Ordered
<1>3. ASSUME NEW t \in Seq(Texts), Printf(t) PROVE OrderInv'
  <2>1. host' \o stdout' = (host \o stdout) \o t
    BY <1>3, PrintfMoves
  <2>2. QED
    BY <1>2, <1>3, <2>1 DEF Printf
<1>4. ASSUME NEW t \in Seq(Texts), PrintAndFlush(t) PROVE OrderInv'
  <2>1. host' = (host \o stdout) \o t /\ stdout' = <<>> /\ printed' = printed \o t
    BY <1>4 DEF PrintAndFlush
  <2>2. host' \o <<>> = host'
    BY <1>1, ConcatEmptySeq
  <2>3. QED
    BY <1>2, <2>1, <2>2
<1>5. CASE Parse
  <2>1. CASE Reset
    <3>1. Value \in Seq(Texts)
      BY SaidFacts DEF Said
    <3>2. Printf(Value)
      BY <2>1 DEF Reset
    <3>3. QED
      BY <1>3, <3>1, <3>2
  <2>2. CASE ~Reset
    <3>1. \E t \in Seq(Texts) : PrintAndFlush(t)
      BY <1>5, <2>2, ParseMoves DEF Answers
    <3>2. QED
      BY <1>4, <3>1
  <2>3. QED
    BY <2>1, <2>2
<1>6. ASSUME NEW h \in Headers, PollEmpty(h) PROVE OrderInv'
  <2>1. UNCHANGED <<host, stdout, printed>>
    BY <1>6 DEF PollEmpty
  <2>2. QED
    BY <2>1 DEF OrderInv, Ordered
<1>7. ASSUME NEW h \in Headers, PollResponse(h) PROVE OrderInv'
  <2> DEFINE t == <<Text("poll", polls + 1, h)>>
  <2>1. t \in Seq(Texts)
    BY CmdAssumption DEF Headers, Text, Texts, ShapeInv
  <2>2. Printf(t)
    BY <1>7 DEF PollResponse
  <2>3. QED
    BY <1>3, <2>1, <2>2
<1>8. CASE RxOverflow
  <2> DEFINE e == Text("rx", 0, "ERROR")
  <2>1. e \in Texts /\ e.by = "rx"
    BY DEF Text, Texts, Results
  <2>2. host' = Append(host, e) /\ printed' = Append(printed, e) /\ stdout' = stdout
    BY <1>8 DEF RxOverflow
  <2> HIDE DEF e
  <2>3. Ordered(Append(host, e) \o stdout, Append(printed, e))
    BY <1>0, <2>1, OrderedPast DEF OrderInv
  <2>4. Ordered(host' \o stdout', printed')
    BY <2>2, <2>3
  <2>5. QED
    BY <2>4 DEF OrderInv, Ordered
<1>9. CASE Reboot
  <2>1. host' = host /\ stdout' = <<>> /\ printed' = printed
    BY <1>9 DEF Reboot
  <2>2. host \o <<>> = host
    BY <1>0, ConcatEmptySeq
  <2>3. Ordered(host, printed)
    BY <1>0, OrderedFront DEF OrderInv
  <2>4. Ordered(host' \o stdout', printed')
    BY <2>1, <2>2, <2>3
  <2>5. QED
    BY <2>4 DEF OrderInv, Ordered
<1>10. CASE UNCHANGED vars
  BY <1>10 DEF vars, OrderInv, Ordered
<1>11. QED
  BY <1>5, <1>6, <1>7, <1>8, <1>9, <1>10 DEF Next, PollChip

-----------------------------------------------------------------------------
(* The inductive invariant. *)
CmdInv ==
    /\ ShapeInv /\ TextsInv /\ LatestInv
    /\ AnswersInv /\ KeptInv /\ SettingsAnyway /\ FrameAnyway /\ OrderInv

(* The initial state satisfies it. *)
LEMMA InitCmdInv == Init => CmdInv
<1> SUFFICES ASSUME Init PROVE CmdInv
  OBVIOUS
<1>1. /\ <<>> \in Seq(Texts) /\ <<>> \in Seq(Commands) /\ Len(<<>>) = 0
      /\ AutoDefault \in AutoSettings
  BY CmdAssumption DEF AutoDefault, AutoSettings
<1>2. ShapeInv
  BY <1>1, CmdAssumption DEF Init, ShapeInv, TypeOK
<1>3. TextsInv /\ AnswersInv /\ KeptInv
  BY DEF Init, TextsInv, AnswersInv, KeptInv
<1>4. \A s : Acknowledged(s) = {}
  BY <1>1 DEF Init, Acknowledged
<1>5. \A s, d : Believed(s, d) = d
  BY <1>4 DEF Believed
<1>6. LatestInv
  BY <1>4 DEF LatestInv
<1>7. SettingsAnyway
  BY <1>5 DEF Init, SettingsAnyway
<1>8. FrameAnyway
  BY <1>5, FlagsDiffer DEF Init, FrameAnyway
<1>9. OrderInv
  <2>1. host \o stdout = <<>>
    BY <1>1, ConcatEmptySeq DEF Init
  <2>2. QED
    BY <2>1 DEF OrderInv, Ordered
<1>10. QED
  BY <1>2, <1>3, <1>6, <1>7, <1>8, <1>9 DEF CmdInv

(* It holds throughout. *)
THEOREM Invariance == Spec => []CmdInv
<1>1. CmdInv /\ [Next]_vars => CmdInv'
  BY NextShape, NextTexts, NextLatest, NextAnswers, NextKept, NextSettings, NextFrame, NextOrder
     DEF CmdInv
<1>2. QED
  BY InitCmdInv, <1>1, PTL DEF Spec

(* The variables keep their types; stdout's buffer never holds as much as it could. *)
THEOREM TypeCorrect == Spec => []TypeOK
<1>1. CmdInv => TypeOK
  BY DEF CmdInv, ShapeInv
<1>2. QED
  BY Invariance, <1>1, PTL

(* At rest the settings are what the last acknowledged commands since the start made
   them (cmd.c:175-303).                                                    *)
THEOREM Acknowledges == Spec => []SettingsAsAcknowledged
<1>1. CmdInv => SettingsAsAcknowledged
  BY DEF CmdInv, SettingsAnyway, SettingsAsAcknowledged
<1>2. QED
  BY Invariance, <1>1, PTL

(* The chip select is low exactly when the host set it so and no AUTO poll has run
   since.                                                                   *)
THEOREM Framed == Spec => []FrameAsSet
<1>1. CmdInv => FrameAsSet
  BY DEF CmdInv, FrameAnyway, FrameAsSet
<1>2. QED
  BY Invariance, <1>1, PTL

(* No command is answered twice; each but TLS and RESET is answered with one OK or
   ERROR, the last of its texts, and the host has all that it printed.      *)
THEOREM Answered == Spec => []AnsweredOnce
<1>1. ASSUME CmdInv, NEW n \in DOMAIN lines
      PROVE  /\ \A i, j \in EndOf(n) : i = j
             /\ Ends(lines[n]) => \E i \in EndOf(n) : \A j \in i + 1 .. Len(host) :
                    ~(host[j].by = "line" /\ host[j].num <= n)
  BY <1>1 DEF CmdInv, AnswersInv
<1>2. ASSUME CmdInv, NEW n \in DOMAIN lines, Ends(lines[n]), NEW t \in Range(printed),
             t.by = "line", t.num = n
      PROVE  Received(t)
  <2>1. PICK k \in DOMAIN printed : printed[k] = t
    BY DEF Range
  <2>2. PICK i \in DOMAIN host : host[i] = t
    BY <1>2, <2>1 DEF CmdInv, KeptInv
  <2>3. QED
    BY <2>2 DEF Received, Range
<1>3. CmdInv => AnsweredOnce
  BY <1>1, <1>2 DEF AnsweredOnce
<1>4. QED
  BY Invariance, <1>3, PTL

(* The host receives answers and responses in the order in which they were printed. *)
THEOREM KeepsOrder == Spec => []OnlyErrorsOvertake
<1>1. CmdInv => OnlyErrorsOvertake
  <2> SUFFICES ASSUME CmdInv, NEW i \in DOMAIN host, NEW j \in DOMAIN host,
                      i < j, host[i].by # "rx", host[j].by # "rx"
               PROVE  \E k, m \in DOMAIN printed :
                          k < m /\ printed[k] = host[i] /\ printed[m] = host[j]
    BY DEF OnlyErrorsOvertake
  <2>1. Ordered(host, printed)
    BY OrderedFront DEF CmdInv, ShapeInv, OrderInv
  <2>2. QED
    BY <2>1 DEF Ordered
<1>2. QED
  BY Invariance, <1>1, PTL

-----------------------------------------------------------------------------
(* Under the commands: the text functions of Parse, a system of their own.  Their
   loops end at the least position with some property.                     *)

(* The least element of a set of numbers. *)
Below == {ss \in Nat \X Nat : ss[1] < ss[2]}

(* A set of positions that is not empty has a least one. *)
LEMMA LeastIs ==
    ASSUME NEW S \in SUBSET Nat, S # {}
    PROVE  Min(S) \in S /\ \A x \in S : Min(S) <= x
<1>1. IsWellFoundedOn(Below, Nat)
      BY NatLessThanWellFounded, Zenon DEF OpToRel, Below
<1>2. PICK x \in S : \A y \in S : ~ (<<y, x>> \in Below)
  <2>1. \E x \in S : \A y \in S : ~ (<<y, x>> \in Below)
    BY ONLY <1>1, WFMin, S \in SUBSET Nat, S # {}
  <2>2. QED
    BY <2>1
<1>3. \A y \in S : x <= y
  <2>1. TAKE y \in S
  <2>2. ~ (y < x)
    BY <1>2 DEF Below
  <2>3. QED
    BY <2>2
<1>4. QED
  BY <1>2, <1>3 DEF Min

(* Folding the case makes no word's character of another, and no other of one. *)
LEMMA FoldStays == \A c : IsChar(Fold(c)) <=> IsChar(c)
<1>1. SUFFICES ASSUME NEW c PROVE IsChar(Fold(c)) <=> IsChar(c)
  OBVIOUS
<1>2. CASE c \in Range(Smalls)
  <2>1. \E i \in DOMAIN Smalls : Smalls[i] = c
    BY <1>2 DEF Range
  <2>2. IndexIn(Smalls, c) \in DOMAIN Smalls
    BY <2>1 DEF IndexIn
  <2>3. DOMAIN Smalls = DOMAIN Letters
    BY DEF Smalls, Letters
  <2>4. Letters[IndexIn(Smalls, c)] \in Range(Letters)
    BY <2>2, <2>3 DEF Range
  <2>5. QED
    BY <1>2, <2>4 DEF Fold, IsChar, Chars
<1>3. CASE c \notin Range(Smalls)
  BY <1>3 DEF Fold
<1>4. QED
  BY <1>2, <1>3

(* The NUL is no character of a word, and no digit of a byte. *)
LEMMA NulIsNone == ~IsChar("NUL") /\ ~IsHex("NUL")
<1>1. "NUL" \notin Range(Digits) /\ "NUL" \notin Range(Letters) /\ "NUL" \notin Range(Smalls)
  BY DEF Range, Digits, Letters, Smalls
<1>2. ~IsChar("NUL")
  BY <1>1 DEF IsChar, Chars
<1>3. Fold("NUL") = "NUL"
  BY <1>1 DEF Fold
<1>4. HexDigits \subseteq Range(Digits) \cup Range(Letters)
  <2>1. 1 .. 6 \subseteq DOMAIN Letters
    BY DEF Letters
  <2>2. QED
    BY <2>1 DEF HexDigits, Range
<1>5. QED
  BY <1>1, <1>2, <1>3, <1>4 DEF IsHex

(* A space, a comma and the NUL are three characters. *)
LEMMA Apart == Space # "NUL" /\ Comma # "NUL" /\ Space # Comma
  BY Zenon DEF Space, Comma

(* The text is a sequence, and ends before its NUL. *)
TextInv == task \in Task /\ text \in Seq(Alphabet[task])

(* Behind the text there is the NUL. *)
LEMMA AtIs ==
    ASSUME TextInv
    PROVE  /\ Len(text) \in Nat /\ DOMAIN text = 1 .. Len(text)
           /\ At(Len(text) + 1) = "NUL"
           /\ \A i \in Int : Len(text) < i => At(i) = "NUL"
  BY DEF TextInv, At

(* The first position without a space. *)
LEMMA SkipIs ==
    ASSUME TextInv, NEW i \in 1 .. Len(text) + 1
    PROVE  /\ SkipSpaces(i) \in i .. Len(text) + 1
           /\ At(SkipSpaces(i)) # Space
           /\ \A k \in i .. SkipSpaces(i) - 1 : At(k) = Space
<1> DEFINE S == {j \in i .. Len(text) + 1 : At(j) # Space}
<1>1. /\ Len(text) \in Nat /\ At(Len(text) + 1) = "NUL"
      /\ Space # "NUL" /\ Comma # "NUL" /\ Space # Comma
  BY AtIs, Apart
<1>2. S \in SUBSET Nat /\ Len(text) + 1 \in S
  <2>1. Len(text) + 1 \in i .. Len(text) + 1 /\ At(Len(text) + 1) # Space
    BY <1>1
  <2>2. QED
    BY <1>1, <2>1
<1>3. Min(S) \in S /\ \A x \in S : Min(S) <= x
  BY <1>2, LeastIs
<1>4. SkipSpaces(i) = Min(S)
  BY DEF SkipSpaces
<1> DEFINE s == Min(S)
<1>5. s \in i .. Len(text) + 1 /\ At(s) # Space
  BY <1>3
<1> HIDE DEF s
<1>6. ASSUME NEW k \in i .. s - 1 PROVE At(k) = Space
  <2>1. k \in i .. Len(text) + 1 /\ ~ (s <= k)
    BY <1>1, <1>5
  <2>2. k \notin S
    BY <2>1, <1>3 DEF s
  <2>3. QED
    BY <2>1, <2>2
<1>7. QED
  BY <1>4, <1>5, <1>6 DEF s

-----------------------------------------------------------------------------
(* The length of the word at the beginning of the text. *)
LEMMA WordIs ==
    ASSUME TextInv
    PROVE  /\ Len(Word) \in 0 .. Len(text) /\ DOMAIN Word = 1 .. Len(Word)
           /\ \A i \in 1 .. Len(Word) : Word[i] = At(i) /\ IsChar(At(i))
           /\ ~IsChar(At(Len(Word) + 1))
<1> DEFINE S == {j \in 1 .. Len(text) + 1 : ~IsChar(At(j))}
           m == Min(S)
<1>1. /\ Len(text) \in Nat /\ At(Len(text) + 1) = "NUL"
      /\ Space # "NUL" /\ Comma # "NUL" /\ Space # Comma
  BY AtIs, Apart
<1>2. S \in SUBSET Nat /\ Len(text) + 1 \in S
  BY <1>1, NulIsNone
<1>3. m \in S /\ \A x \in S : m <= x
  BY <1>2, LeastIs
<1>4. m \in 1 .. Len(text) + 1 /\ ~IsChar(At(m))
  BY <1>3
<1>5. Word = SubSeq(text, 1, m - 1)
  BY DEF Word
<1>6. ASSUME NEW k \in 1 .. m - 1 PROVE IsChar(At(k))
  <2>1. k \in 1 .. Len(text) + 1 /\ ~ (m <= k)
    BY <1>1, <1>4, <1>6
  <2>2. k \notin S
    BY <2>1, <1>3
  <2>3. QED
    BY <2>1, <2>2
<1> HIDE DEF m
<1>7. Len(Word) = m - 1 /\ DOMAIN Word = 1 .. m - 1 /\ \A k \in 1 .. m - 1 : Word[k] = text[k]
  BY <1>1, <1>4, <1>5 DEF TextInv
<1>8. \A k \in 1 .. m - 1 : Word[k] = At(k)
  BY <1>1, <1>4, <1>7 DEF At
<1>9. QED
  BY <1>1, <1>4, <1>6, <1>7, <1>8

(* strnicmp and the test of the character behind compare the whole word. *)
LEMMA MatchIsWord ==
    ASSUME TextInv, NEW name \in Seq(Chars)
    PROVE  /\ Matches(name) <=> SameWord(Word, name)
           /\ Matches(name) => Len(name) = Len(Word)
<1>1. /\ Len(Word) \in 0 .. Len(text) /\ Len(text) \in Nat
      /\ \A i \in 1 .. Len(Word) : Word[i] = At(i) /\ IsChar(At(i))
      /\ ~IsChar(At(Len(Word) + 1))
  BY WordIs, AtIs
<1>2. DOMAIN Word = 1 .. Len(Word)
  BY WordIs
<1>3. /\ Len(name) \in Nat /\ DOMAIN name = 1 .. Len(name)
      /\ \A i \in 1 .. Len(name) : IsChar(name[i])
  BY DEF IsChar
<1>4. ASSUME Matches(name)
      PROVE  SameWord(Word, name) /\ Len(name) = Len(Word)
  <2>1. /\ \A i \in 1 .. Len(name) : Fold(At(i)) = Fold(name[i])
        /\ ~IsChar(At(Len(name) + 1))
    BY <1>3, <1>4 DEF Matches
  <2>2. \A i \in 1 .. Len(name) : IsChar(At(i))
    BY <1>3, <2>1, FoldStays
  <2>3. ~ (Len(name) < Len(Word))
    <3>1. Len(name) < Len(Word) => Len(name) + 1 \in 1 .. Len(Word)
      BY <1>1, <1>3
    <3>2. QED
      BY <1>1, <2>1, <3>1
  <2>4. ~ (Len(Word) < Len(name))
    <3>1. Len(Word) < Len(name) => Len(Word) + 1 \in 1 .. Len(name)
      BY <1>1, <1>3
    <3>2. QED
      BY <1>1, <2>2, <3>1
  <2>5. Len(name) = Len(Word)
    BY <1>1, <1>3, <2>3, <2>4
  <2>6. \A i \in DOMAIN Word : Fold(Word[i]) = Fold(name[i])
    BY <1>1, <1>2, <2>1, <2>5
  <2>7. QED
    BY <2>5, <2>6 DEF SameWord
<1>5. ASSUME SameWord(Word, name) PROVE Matches(name)
  <2>1. Len(Word) = Len(name)
    BY <1>5 DEF SameWord
  <2>2. \A i \in DOMAIN name : Fold(At(i)) = Fold(name[i])
    BY <1>1, <1>2, <1>3, <1>5, <2>1 DEF SameWord
  <2>3. QED
    BY <1>1, <2>1, <2>2 DEF Matches
<1>6. QED
  BY <1>4, <1>5

-----------------------------------------------------------------------------
(* Where _skip_spaces stops is the only place that has nothing but spaces before
   it and no space on it.                                                  *)
LEMMA SkipUnique ==
    ASSUME TextInv, NEW i \in 1 .. Len(text) + 1, NEW j \in i .. Len(text) + 1,
           At(j) # Space, \A k \in i .. j - 1 : At(k) = Space
    PROVE  SkipSpaces(i) = j
<1> DEFINE s == SkipSpaces(i)
<1>1. Len(text) \in Nat /\ i \in Nat /\ j \in Nat
  BY AtIs
<1>2. s \in i .. Len(text) + 1 /\ At(s) # Space /\ \A k \in i .. s - 1 : At(k) = Space
  BY SkipIs
<1> HIDE DEF s
<1>3. ~ (s < j)
  <2>1. s < j => s \in i .. j - 1
    BY <1>1, <1>2
  <2>2. QED
    BY <1>2, <2>1
<1>4. ~ (j < s)
  <2>1. j < s => j \in i .. s - 1
    BY <1>1, <1>2
  <2>2. QED
    BY <1>2, <2>1
<1>5. s = j
  BY <1>1, <1>2, <1>3, <1>4
<1>6. QED
  BY <1>5 DEF s

(* Skipping spaces again changes nothing. *)
LEMMA SkipTwice ==
    ASSUME TextInv, NEW i \in 1 .. Len(text) + 1
    PROVE  SkipSpaces(SkipSpaces(i)) = SkipSpaces(i)
<1> DEFINE s == SkipSpaces(i)
<1>1. s \in 1 .. Len(text) + 1 /\ At(s) # Space
  BY SkipIs, AtIs
<1> HIDE DEF s
<1>2. s \in s .. Len(text) + 1 /\ \A k \in s .. s - 1 : At(k) = Space
  BY <1>1, AtIs
<1>3. SkipSpaces(s) = s
  BY <1>1, <1>2, SkipUnique
<1>4. QED
  BY <1>3 DEF s

(* No comma follows the spaces: the next parameter is left out. *)
LEMMA NoCommaIs ==
    ASSUME TextInv, NEW i \in 1 .. Len(text) + 1
    PROVE  NoComma(i) <=> At(SkipSpaces(i)) # Comma
<1> DEFINE s == SkipSpaces(i)
<1>1. Len(text) \in Nat /\ i \in Nat /\ At(Len(text) + 1) = "NUL"
      /\ Space # "NUL" /\ Comma # "NUL" /\ Space # Comma
  BY AtIs, Apart
<1>2. s \in i .. Len(text) + 1 /\ At(s) # Space /\ \A k \in i .. s - 1 : At(k) = Space
  BY SkipIs
<1> HIDE DEF s
<1>3. ASSUME NoComma(i), At(s) = Comma PROVE FALSE
  <2>1. s \in i .. Len(text)
    <3>1. s # Len(text) + 1
      BY <1>1, <1>3
    <3>2. QED
      BY <1>1, <1>2, <3>1
  <2>2. \E l \in i .. s - 1 : At(l) # Space
    BY <1>3, <2>1 DEF NoComma
  <2>3. QED
    BY <1>2, <2>2
<1>4. ASSUME At(s) # Comma PROVE NoComma(i)
  <2>1. SUFFICES ASSUME NEW k \in i .. Len(text), At(k) = Comma,
                        \A l \in i .. k - 1 : At(l) = Space
                 PROVE  FALSE
    BY DEF NoComma
  <2>2. k \in i .. Len(text) + 1 /\ At(k) # Space
    BY <1>1, <2>1
  <2>3. SkipSpaces(i) = k
    BY <2>1, <2>2, SkipUnique
  <2>4. QED
    BY <1>4, <2>1, <2>3 DEF s
<1>5. QED
  BY <1>3, <1>4 DEF s

(* Both digits of a byte are before the NUL. *)
LEMMA HexInside ==
    ASSUME TextInv, NEW i \in Nat, HexAt(i)
    PROVE  i + 1 <= Len(text)
<1>1. At(i + 1) # "NUL"
  BY NulIsNone DEF HexAt
<1>2. QED
  BY <1>1, AtIs

(* The byte behind spaces and a comma is the one that is read there. *)
LEMMA ByteIs ==
    ASSUME TextInv, NEW i \in 1 .. Len(text) + 1, NEW j \in Nat, NEW v
    PROVE  Byte(i, j, v) <=> /\ At(SkipSpaces(i)) = Comma
                             /\ j = SkipSpaces(i) + 2
                             /\ HexAt(SkipSpaces(i) + 1)
                             /\ v = Hex(SkipSpaces(i) + 1)
<1> DEFINE s == SkipSpaces(i)
<1>1. Len(text) \in Nat /\ i \in Nat
  BY AtIs
<1>2. s \in i .. Len(text) + 1 /\ At(s) # Space /\ \A k \in i .. s - 1 : At(k) = Space
  BY SkipIs
<1>3. s \in Nat /\ s + 1 + 1 = s + 2
  BY <1>1, <1>2
<1> HIDE DEF s
<1>4. ASSUME Byte(i, j, v)
      PROVE  At(s) = Comma /\ j = s + 2 /\ HexAt(s + 1) /\ v = Hex(s + 1)
  <2>1. /\ i + 2 <= j /\ At(j - 2) = Comma /\ v = <<At(j - 1), At(j)>>
        /\ \A k \in i .. j - 3 : At(k) = Space
        /\ IsHex(v[1]) /\ IsHex(v[2])
    BY <1>4 DEF Byte
  <2>2. j - 2 \in i .. Len(text) + 1
    <3>1. ~ (Len(text) < j - 2)
      BY <2>1, AtIs, Apart
    <3>2. QED
      BY <1>1, <2>1, <3>1
  <2>3. \A k \in i .. (j - 2) - 1 : At(k) = Space
    BY <1>1, <2>1
  <2>4. SkipSpaces(i) = j - 2
    BY <2>1, <2>2, <2>3, Apart, SkipUnique
  <2>5. s = j - 2 /\ j = s + 2 /\ j - 1 = s + 1 /\ At(s) = Comma
    BY <1>1, <2>1, <2>4 DEF s
  <2>6. v = Hex(s + 1)
    BY <1>3, <2>1, <2>5 DEF Hex
  <2>7. HexAt(s + 1)
    BY <1>3, <2>1, <2>5 DEF HexAt
  <2>8. QED
    BY <2>5, <2>6, <2>7
<1>5. ASSUME At(s) = Comma, j = s + 2, HexAt(s + 1), v = Hex(s + 1)
      PROVE  Byte(i, j, v)
  <2>1. j - 2 = s /\ j - 1 = s + 1 /\ j - 3 = s - 1 /\ i + 2 <= j /\ s + 1 + 1 = j
    BY <1>1, <1>2, <1>3, <1>5
  <2>2. v = <<At(j - 1), At(j)>>
    BY <1>5, <2>1 DEF Hex
  <2>3. IsHex(v[1]) /\ IsHex(v[2])
    BY <1>5, <2>1, <2>2 DEF HexAt
  <2>4. QED
    BY <1>2, <1>5, <2>1, <2>2, <2>3 DEF Byte
<1>6. QED
  BY <1>4, <1>5 DEF s

-----------------------------------------------------------------------------
(* The two places where a byte may begin, and the default or the byte there. *)
GetAt  == SkipSpaces(2)
After  == IF At(GetAt) = Comma THEN GetAt + 2 ELSE 1
NoAt   == SkipSpaces(After + 1)

Legible(i) == At(i) = Comma => HexAt(i + 1)

GetSaid == IF At(GetAt) = Comma THEN Hex(GetAt + 1) ELSE NoParams.get
NoSaid  == IF At(NoAt) = Comma THEN Hex(NoAt + 1) ELSE NoParams.no

(* The first byte, or its absence, says where the second one may be. *)
LEMMA AfterIs ==
    ASSUME TextInv, 1 \in DOMAIN text
    PROVE  /\ GetAt \in 2 .. Len(text) + 1
           /\ Legible(GetAt) => After \in DOMAIN text
           /\ Legible(GetAt) => NoAt \in After + 1 .. Len(text) + 1
<1>1. Len(text) \in Nat /\ DOMAIN text = 1 .. Len(text) /\ 2 \in 1 .. Len(text) + 1
  BY AtIs
<1>2. GetAt \in 2 .. Len(text) + 1
  BY <1>1, SkipIs DEF GetAt
<1>3. ASSUME Legible(GetAt) PROVE After \in DOMAIN text
  <2>1. CASE At(GetAt) = Comma
    <3>1. GetAt + 1 \in Nat /\ GetAt + 1 + 1 = GetAt + 2
      BY <1>1, <1>2
    <3>2. GetAt + 1 + 1 <= Len(text)
      BY <1>3, <2>1, <3>1, HexInside DEF Legible
    <3>3. QED
      BY <1>1, <1>2, <2>1, <3>1, <3>2 DEF After
  <2>2. CASE At(GetAt) # Comma
    BY <2>2 DEF After
  <2>3. QED
    BY <2>1, <2>2
<1>4. ASSUME Legible(GetAt) PROVE NoAt \in After + 1 .. Len(text) + 1
  <2>1. After + 1 \in 1 .. Len(text) + 1
    BY <1>1, <1>3, <1>4
  <2>2. QED
    BY <2>1, SkipIs DEF NoAt
<1>5. QED
  BY <1>2, <1>3, <1>4

(* What the text says is what there is to read from left to right. *)
LEMMA SaysIs ==
    ASSUME TextInv, 1 \in DOMAIN text, NEW v
    PROVE  Says(v) <=> /\ At(1) = v.state
                       /\ Legible(GetAt) /\ v.get = GetSaid
                       /\ Legible(NoAt) /\ v.no = NoSaid
<1>1. /\ Len(text) \in Nat /\ DOMAIN text = 1 .. Len(text)
      /\ 2 \in 1 .. Len(text) + 1
  BY AtIs
<1> DEFINE First(j)  == \/ Byte(2, j, v.get)
                        \/ j = 1 /\ NoComma(2) /\ v.get = NoParams.get
           Second(j) == \/ \E k \in DOMAIN text : Byte(j + 1, k, v.no)
                        \/ NoComma(j + 1) /\ v.no = NoParams.no
<1>2. ASSUME NEW j \in DOMAIN text
      PROVE  First(j) <=> j = After /\ Legible(GetAt) /\ v.get = GetSaid
  <2>1. Byte(2, j, v.get) <=> /\ At(GetAt) = Comma /\ j = GetAt + 2
                              /\ HexAt(GetAt + 1) /\ v.get = Hex(GetAt + 1)
    BY <1>1, <1>2, ByteIs DEF GetAt
  <2>2. NoComma(2) <=> At(GetAt) # Comma
    BY <1>1, NoCommaIs DEF GetAt
  <2>3. QED
    BY <2>1, <2>2 DEF After, Legible, GetSaid
<1>3. ASSUME Legible(GetAt)
      PROVE  Second(After) <=> Legible(NoAt) /\ v.no = NoSaid
  <2>1. After \in DOMAIN text /\ NoAt \in After + 1 .. Len(text) + 1
    BY <1>3, AfterIs
  <2>2. After + 1 \in 1 .. Len(text) + 1 /\ NoAt \in Nat
    BY <1>1, <2>1
  <2>3. ASSUME NEW k \in DOMAIN text
        PROVE  Byte(After + 1, k, v.no) <=>
                   /\ At(NoAt) = Comma /\ k = NoAt + 2
                   /\ HexAt(NoAt + 1) /\ v.no = Hex(NoAt + 1)
    BY <1>1, <2>2, <2>3, ByteIs DEF NoAt
  <2>4. NoComma(After + 1) <=> At(NoAt) # Comma
    BY <2>2, NoCommaIs DEF NoAt
  <2>5. HexAt(NoAt + 1) => NoAt + 2 \in DOMAIN text
    <3>1. NoAt + 1 \in Nat /\ NoAt + 1 + 1 = NoAt + 2
      BY <2>2
    <3>2. HexAt(NoAt + 1) => NoAt + 1 + 1 <= Len(text)
      BY <3>1, HexInside
    <3>3. QED
      BY <1>1, <2>2, <3>1, <3>2
  <2>6. QED
    BY <2>3, <2>4, <2>5 DEF Legible, NoSaid
<1>4. Says(v) <=> At(1) = v.state /\ \E j \in DOMAIN text : First(j) /\ Second(j)
  BY DEF Says
<1> HIDE DEF First, Second
<1>5. Legible(GetAt) => After \in DOMAIN text
  BY AfterIs
<1>6. QED
  BY <1>2, <1>3, <1>4, <1>5

-----------------------------------------------------------------------------
(* _find_cmd: no earlier entry of the table was the word. *)
FindInv ==
    task = "find" =>
        /\ stage \in {"start", "done"}
        /\ entry \in 1 .. Len(Table) + 1
        /\ stage = "start" => \A e \in 1 .. entry - 1 : ~SameWord(Word, Table[e])
        /\ FoundIsWord

(* _cmd_auto_set, where it is: what it has read is what was said so far, and the
   next byte may begin where it looks.                                     *)
Read(get, no) ==
    [state |-> At(1), get |-> get, no |-> no]

Mode == At(1) \in {"0", "1"}

AutoInv ==
    task = "auto" =>
        /\ stage \in {"start", "get", "no", "assign", "done"}
        /\ stage = "start" => pos = 1 /\ params = NoParams
        /\ stage = "get" => /\ Mode /\ pos = 2
                           /\ params = Read(NoParams.get, NoParams.no)
        /\ stage = "no" => /\ Mode /\ Legible(GetAt)
                          /\ pos \in 1 .. Len(text) + 1 /\ SkipSpaces(pos) = NoAt
                          /\ params = Read(GetSaid, NoParams.no)
        /\ stage = "assign" => /\ Mode /\ Legible(GetAt) /\ Legible(NoAt)
                              /\ params = Read(GetSaid, NoSaid)
        /\ stage = "done" =>
               IF result.is = "set"
               THEN /\ Mode /\ Legible(GetAt) /\ Legible(NoAt)
                    /\ result.value = Read(GetSaid, NoSaid)
               ELSE ~ (Mode /\ Legible(GetAt) /\ Legible(NoAt))

ParseInv == TextInv /\ InsideText /\ FindInv /\ AutoInv

(* The text, and all that is said about it alone, stays as it is. *)
LEMMA TextStays ==
    ASSUME task' = task, text' = text
    PROVE  /\ TextInv' <=> TextInv
           /\ Word' = Word
           /\ Mode' = Mode /\ GetAt' = GetAt /\ NoAt' = NoAt
           /\ GetSaid' = GetSaid /\ NoSaid' = NoSaid
           /\ Legible(GetAt)' = Legible(GetAt) /\ Legible(NoAt)' = Legible(NoAt)
           /\ At(1)' = At(1)
<1>1. At(1)' = At(1) /\ GetAt' = GetAt /\ Word' = Word /\ (TextInv' <=> TextInv)
  BY DEF At, GetAt, Word, TextInv, SkipSpaces
<1>2. After' = After
  BY <1>1 DEF After, At
<1>3. NoAt' = NoAt
  BY <1>1, <1>2 DEF NoAt, SkipSpaces, At
<1>4. GetSaid' = GetSaid /\ NoSaid' = NoSaid
  BY <1>1, <1>3 DEF GetSaid, NoSaid, At, Hex
<1>5. Legible(GetAt)' = Legible(GetAt) /\ Legible(NoAt)' = Legible(NoAt)
  BY <1>1, <1>3 DEF Legible, At, HexAt
<1>6. Mode' = Mode
  BY <1>1 DEF Mode
<1>7. QED
  BY <1>1, <1>3, <1>4, <1>5, <1>6

(* The invariant begins, and each step keeps it. *)
LEMMA InitParse == TextInit => ParseInv
<1> SUFFICES ASSUME TextInit PROVE ParseInv
  OBVIOUS
<1>1. TextInv
  <2>1. PICK m \in 0 .. MaxLen[task] : text \in [1 .. m -> Alphabet[task]]
    BY DEF TextInit, SeqOf
  <2>2. m \in Nat
    BY <2>1, ParseAssumption DEF TextInit
  <2>3. text \in Seq(Alphabet[task])
    BY <2>1, <2>2
  <2>4. QED
    BY <2>3 DEF TextInit, TextInv
<1>2. Len(Table) \in Nat
  BY ParseAssumption
<1>3. FindInv
  BY <1>2 DEF TextInit, FindInv, FoundIsWord
<1>4. AutoInv
  BY DEF TextInit, AutoInv
<1>5. InsideText
  BY <1>1, AtIs DEF TextInit, InsideText
<1>6. QED
  BY <1>1, <1>3, <1>4, <1>5 DEF ParseInv

(* _find_cmd: an entry is the word, or the next one is compared. *)
LEMMA FindStep ==
    ASSUME ParseInv, Find
    PROVE  FindInv'
<1>1. /\ task = "find" /\ task' = task /\ text' = text /\ stage = "start"
      /\ entry \in 1 .. Len(Table) /\ Table[entry] \in Seq(Chars)
      /\ Len(Table) \in Nat
      /\ \A e \in 1 .. entry - 1 : ~SameWord(Word, Table[e])
  BY ParseAssumption DEF ParseInv, FindInv, Find
<1>2. /\ Matches(Table[entry]) <=> SameWord(Word, Table[entry])
      /\ Matches(Table[entry]) => Len(Table[entry]) = Len(Word)
  BY <1>1, MatchIsWord DEF ParseInv
<1>3. Word' = Word
  BY <1>1, TextStays
<1>4. CASE Matches(Table[entry])
  <2>1. /\ result' = [is |-> "found", at |-> entry] /\ stage' = "done"
        /\ pos' = Len(Word) + 1 /\ entry' = entry
    BY <1>2, <1>4 DEF Find, Return
  <2>2. FoundIsWord'
    BY <1>2, <1>3, <1>4, <2>1 DEF FoundIsWord, SameWord
  <2>3. QED
    BY <1>1, <2>1, <2>2 DEF FindInv
<1>5. CASE ~Matches(Table[entry])
  <2>1. entry' = entry + 1 /\ stage' = "start"
    BY <1>1, <1>5 DEF Find
  <2>2. \A e \in 1 .. entry' - 1 : ~SameWord(Word, Table[e])
    <3>1. \A e \in 1 .. entry' - 1 : e \in 1 .. entry - 1 \/ e = entry
      BY <1>1, <2>1
    <3>2. QED
      BY <1>1, <1>2, <1>5, <3>1
  <2>3. \A e \in 1 .. entry' - 1 : ~SameWord(Word, Table[e])'
    BY <1>3, <2>2 DEF SameWord
  <2>4. entry' \in 1 .. Len(Table) + 1
    BY <1>1, <2>1
  <2>5. QED
    BY <2>1, <2>3, <2>4 DEF FindInv, FoundIsWord
<1>6. QED
  BY <1>4, <1>5

(* _find_cmd, behind the last entry. *)
LEMMA FindEndsStep ==
    ASSUME ParseInv, FindEnds
    PROVE  FindInv'
<1>1. /\ task = "find" /\ task' = task /\ text' = text /\ entry' = entry
      /\ entry = Len(Table) + 1 /\ Len(Table) \in Nat
      /\ DOMAIN Table = 1 .. Len(Table)
      /\ \A e \in 1 .. entry - 1 : ~SameWord(Word, Table[e])
      /\ result' = [is |-> "unknown"] /\ stage' = "done"
  BY ParseAssumption DEF ParseInv, FindInv, FindEnds, Return
<1>2. Word' = Word
  BY <1>1, TextStays
<1>3. \A e \in DOMAIN Table : ~SameWord(Word, Table[e])
  BY <1>1
<1>4. FoundIsWord'
  BY <1>1, <1>2, <1>3 DEF FoundIsWord, SameWord
<1>5. QED
  BY <1>1, <1>4 DEF FindInv

(* The mode: the first character. *)
LEMMA StateStep ==
    ASSUME ParseInv, FetchState
    PROVE  AutoInv'
<1>1. /\ task = "auto" /\ task' = task /\ text' = text /\ stage = "start"
      /\ pos = 1 /\ params = NoParams
  BY DEF ParseInv, AutoInv, FetchState
<1>2. Mode' = Mode /\ At(1)' = At(1) /\ Legible(GetAt)' = Legible(GetAt)
      /\ Legible(NoAt)' = Legible(NoAt)
  BY <1>1, TextStays
<1>3. CASE Mode
  <2>1. /\ stage' = "get" /\ pos' = 2
        /\ params' = Read(NoParams.get, NoParams.no)
    BY <1>1, <1>3 DEF FetchState, Mode, NoParams, Read
  <2>2. params' = Read(NoParams.get, NoParams.no)'
    BY <1>2, <2>1 DEF Read, NoParams
  <2>3. QED
    BY <1>2, <1>3, <2>1, <2>2 DEF AutoInv
<1>4. CASE ~Mode
  <2>1. stage' = "done" /\ result' = [is |-> "invalid"]
    BY <1>1, <1>4 DEF FetchState, Mode, Return
  <2>2. QED
    BY <1>2, <1>4, <2>1 DEF AutoInv
<1>5. QED
  BY <1>3, <1>4

(* The first byte, if there is a comma. *)
LEMMA GetStep ==
    ASSUME ParseInv, FetchGet
    PROVE  AutoInv'
<1>1. /\ task = "auto" /\ task' = task /\ text' = text /\ stage = "get"
      /\ pos = 2 /\ params = Read(NoParams.get, NoParams.no) /\ Mode
  BY DEF ParseInv, AutoInv, FetchGet, FetchByte
<1>2. /\ Mode' = Mode /\ At(1)' = At(1) /\ Legible(GetAt)' = Legible(GetAt)
      /\ Legible(NoAt)' = Legible(NoAt) /\ GetSaid' = GetSaid /\ NoAt' = NoAt
  BY <1>1, TextStays
<1>3. 1 \in DOMAIN text /\ Len(text) \in Nat /\ SkipSpaces(pos) = GetAt
  BY <1>1, AtIs DEF ParseInv, Mode, At, GetAt
<1>4. GetAt \in 2 .. Len(text) + 1
  BY <1>3, AfterIs DEF ParseInv
<1>5. CASE At(GetAt) # Comma
  <2>1. /\ stage' = "no" /\ pos' = GetAt /\ params' = Read(GetSaid, NoParams.no)
    BY <1>1, <1>3, <1>5 DEF FetchGet, FetchByte, GetSaid
  <2>2. SkipSpaces(GetAt) = NoAt
    <3>1. After + 1 = 2 /\ 2 \in 1 .. Len(text) + 1
      BY <1>3, <1>5 DEF After
    <3>2. QED
      BY <3>1, SkipTwice DEF NoAt, GetAt, ParseInv
  <2>3. SkipSpaces(pos)' = NoAt'
    BY <1>1, <1>2, <2>1, <2>2 DEF SkipSpaces, At
  <2>4. params' = Read(GetSaid, NoParams.no)'
    BY <1>2, <2>1 DEF Read, NoParams
  <2>5. Legible(GetAt) /\ pos' \in 1 .. Len(text') + 1
    BY <1>1, <1>3, <1>4, <1>5, <2>1 DEF Legible
  <2>6. QED
    BY <1>1, <1>2, <2>1, <2>3, <2>4, <2>5 DEF AutoInv
<1>6. CASE At(GetAt) = Comma /\ HexAt(GetAt + 1)
  <2>1. /\ stage' = "no" /\ pos' = GetAt + 3 /\ params' = Read(GetSaid, NoParams.no)
    BY <1>1, <1>3, <1>6 DEF FetchGet, FetchByte, GetSaid, Read
  <2>2. Legible(GetAt) /\ After = GetAt + 2
    BY <1>6 DEF Legible, After
  <2>3. After \in DOMAIN text /\ DOMAIN text = 1 .. Len(text)
    BY <1>3, <2>2, AfterIs, AtIs DEF ParseInv
  <2>4. pos' = After + 1 /\ pos' \in 1 .. Len(text') + 1
    BY <1>1, <1>3, <1>4, <2>1, <2>2, <2>3
  <2>5. SkipSpaces(pos)' = NoAt'
    BY <1>1, <1>2, <2>4 DEF SkipSpaces, At, NoAt
  <2>6. params' = Read(GetSaid, NoParams.no)'
    BY <1>2, <2>1 DEF Read, NoParams
  <2>7. QED
    BY <1>1, <1>2, <2>1, <2>2, <2>4, <2>5, <2>6 DEF AutoInv
<1>7. CASE At(GetAt) = Comma /\ ~HexAt(GetAt + 1)
  <2>1. stage' = "done" /\ result' = [is |-> "invalid"] /\ ~Legible(GetAt)
    BY <1>1, <1>3, <1>7 DEF FetchGet, FetchByte, Return, Legible
  <2>2. QED
    BY <1>2, <2>1 DEF AutoInv
<1>8. QED
  BY <1>5, <1>6, <1>7

(* The second byte, if there is a comma. *)
LEMMA NoStep ==
    ASSUME ParseInv, FetchNo
    PROVE  AutoInv'
<1>1. /\ task = "auto" /\ task' = task /\ text' = text /\ stage = "no"
      /\ SkipSpaces(pos) = NoAt /\ params = Read(GetSaid, NoParams.no)
      /\ Mode /\ Legible(GetAt)
  BY DEF ParseInv, AutoInv, FetchNo, FetchByte
<1>2. /\ Mode' = Mode /\ At(1)' = At(1) /\ Legible(GetAt)' = Legible(GetAt)
      /\ Legible(NoAt)' = Legible(NoAt) /\ GetSaid' = GetSaid /\ NoSaid' = NoSaid
  BY <1>1, TextStays
<1>3. CASE Legible(NoAt)
  <2>1. stage' = "assign" /\ params' = Read(GetSaid, NoSaid)
    BY <1>1, <1>3 DEF FetchNo, FetchByte, NoSaid, Read, Legible
  <2>2. params' = Read(GetSaid, NoSaid)'
    BY <1>2, <2>1 DEF Read
  <2>3. QED
    BY <1>1, <1>2, <1>3, <2>1, <2>2 DEF AutoInv
<1>4. CASE ~Legible(NoAt)
  <2>1. stage' = "done" /\ result' = [is |-> "invalid"]
    BY <1>1, <1>4 DEF FetchNo, FetchByte, Return, Legible
  <2>2. QED
    BY <1>2, <1>4, <2>1 DEF AutoInv
<1>5. QED
  BY <1>3, <1>4

(* All three values at once. *)
LEMMA AssignStep ==
    ASSUME ParseInv, Assign
    PROVE  AutoInv'
<1>1. /\ task' = task /\ text' = text /\ stage' = "done"
      /\ result' = [is |-> "set", value |-> Read(GetSaid, NoSaid)]
      /\ Mode /\ Legible(GetAt) /\ Legible(NoAt)
  BY DEF ParseInv, AutoInv, Assign, Return
<1>2. /\ Mode' = Mode /\ At(1)' = At(1) /\ Legible(GetAt)' = Legible(GetAt)
      /\ Legible(NoAt)' = Legible(NoAt) /\ GetSaid' = GetSaid /\ NoSaid' = NoSaid
  BY <1>1, TextStays
<1>3. result.value' = Read(GetSaid, NoSaid)'
  BY <1>1, <1>2 DEF Read
<1>4. QED
  BY <1>1, <1>2, <1>3 DEF AutoInv

(* The position moves over characters that were looked at, none of them the NUL. *)
LEMMA InsideStep ==
    ASSUME ParseInv, TextNext
    PROVE  InsideText'
<1>1. Len(text) \in Nat /\ text' = text /\ pos \in 1 .. Len(text) + 1
  BY AtIs
  DEF ParseInv, InsideText, TextNext, Find, FindEnds, Sign, Digit, DigitsEnd,
      FetchState, FetchGet, FetchNo, FetchByte, Assign
<1>2. \A i \in 1 .. Len(text) + 1 : At(i) # "NUL" => i + 1 \in 1 .. Len(text) + 1
  <2>1. At(Len(text) + 1) = "NUL"
    BY AtIs DEF ParseInv
  <2>2. QED
    BY <1>1, <2>1
<1>3. CASE pos' = pos
  BY <1>1, <1>3 DEF InsideText
<1>4. CASE Find /\ pos' # pos
  <2>1. Matches(Table[entry]) /\ pos' = Len(Table[entry]) + 1 /\ Table[entry] \in Seq(Chars)
    BY <1>4, ParseAssumption DEF Find, ParseInv, FindInv
  <2>2. Len(Table[entry]) = Len(Word) /\ Len(Word) \in 0 .. Len(text)
    BY <2>1, MatchIsWord, WordIs DEF ParseInv
  <2>3. QED
    BY <1>1, <2>1, <2>2 DEF InsideText
<1>5. CASE Sign /\ pos' # pos
  <2>1. CASE At(1) = Minus
    <3>1. pos' = 2
      BY <1>5, <2>1, Zenon DEF Sign
    <3>2. At(1) # "NUL"
      BY <2>1, Zenon DEF Minus
    <3>3. QED
      BY <1>1, <1>2, <3>1, <3>2 DEF InsideText
  <2>2. CASE At(1) # Minus
    <3>1. pos' = 1
      BY <1>5, <2>2, Zenon DEF Sign
    <3>2. QED
      BY <1>1, <3>1 DEF InsideText
  <2>3. QED
    BY <2>1, <2>2, Zenon
<1>6. CASE Digit
  <2>1. IsDigit(At(pos)) /\ pos' = pos + 1
    BY <1>6 DEF Digit
  <2>2. At(pos) # "NUL"
    BY <2>1, NulIsNone DEF IsDigit, IsChar, Chars
  <2>3. QED
    BY <1>1, <1>2, <2>1, <2>2 DEF InsideText
<1>7. CASE FetchState /\ pos' # pos
  <2>1. At(pos) \in {"0", "1"} /\ pos' = pos + 1
    BY <1>7 DEF FetchState
  <2>2. QED
    BY <1>1, <1>2, <2>1 DEF InsideText
<1>8. CASE FetchGet \/ FetchNo
  <2> DEFINE i == SkipSpaces(pos)
  <2>1. i \in 1 .. Len(text) + 1
    BY <1>1, SkipIs DEF ParseInv
  <2> HIDE DEF i
  <2>2. \/ pos' = i
        \/ pos' = i + 3 /\ HexAt(i + 1)
        \/ pos' = i + 1 /\ At(i) = Comma
    BY <1>8 DEF FetchGet, FetchNo, FetchByte, i
  <2>3. HexAt(i + 1) => i + 3 \in 1 .. Len(text) + 1
    <3>1. i + 1 \in Nat
      BY <1>1, <2>1
    <3>2. HexAt(i + 1) => i + 1 + 1 <= Len(text)
      BY <3>1, HexInside DEF ParseInv
    <3>3. QED
      BY <1>1, <2>1, <3>2
  <2>4. At(i) = Comma => i + 1 \in 1 .. Len(text) + 1
    BY <1>2, <2>1, Apart
  <2>5. QED
    BY <1>1, <2>1, <2>2, <2>3, <2>4 DEF InsideText
<1>9. QED
  BY <1>3, <1>4, <1>5, <1>6, <1>7, <1>8 DEF TextNext, FindEnds, DigitsEnd, Assign

(* Each step of a text function is of one of them, and leaves the text alone. *)
LEMMA ParseStep == ParseInv /\ [TextNext]_textVars => ParseInv'
<1> SUFFICES ASSUME ParseInv, [TextNext]_textVars PROVE ParseInv'
  OBVIOUS
<1>1. task' = task /\ text' = text
  BY DEF TextNext, textVars, Find, FindEnds, Sign, Digit, DigitsEnd, FetchState,
         FetchGet, FetchNo, FetchByte, Assign
<1>2. TextInv' /\ InsideText'
  BY <1>1, TextStays, InsideStep DEF ParseInv, InsideText, textVars
<1>3. CASE UNCHANGED textVars
  <2>1. FindInv'
    <3>1. /\ stage' = stage /\ pos' = pos /\ entry' = entry /\ result' = result
          /\ Word' = Word
      BY <1>1, <1>3, TextStays DEF textVars
    <3>2. FoundIsWord' <=> FoundIsWord
      BY <1>1, <3>1 DEF FoundIsWord, SameWord
    <3>3. QED
      BY <1>1, <3>1, <3>2 DEF ParseInv, FindInv, SameWord
  <2>2. AutoInv'
    <3>1. /\ stage' = stage /\ pos' = pos /\ params' = params /\ result' = result
      BY <1>3 DEF textVars
    <3>2. SkipSpaces(pos)' = SkipSpaces(pos) /\ NoAt' = NoAt
      BY <1>1, <3>1, TextStays DEF SkipSpaces, At
    <3>3. /\ Mode' = Mode /\ At(1)' = At(1) /\ Legible(GetAt)' = Legible(GetAt)
          /\ Legible(NoAt)' = Legible(NoAt) /\ GetSaid' = GetSaid
          /\ NoSaid' = NoSaid
      BY <1>1, TextStays
    <3>4. QED
      BY <1>1, <3>1, <3>2, <3>3 DEF ParseInv, AutoInv, Read, NoParams
  <2>3. QED
    BY <1>2, <2>1, <2>2 DEF ParseInv
<1>4. CASE task = "find" /\ (Find \/ FindEnds)
  BY <1>1, <1>2, <1>4, FindStep, FindEndsStep DEF ParseInv, AutoInv
<1>5. CASE task = "number"
  BY <1>1, <1>2, <1>5 DEF ParseInv, FindInv, AutoInv
<1>6. CASE task = "auto" /\ (FetchState \/ FetchGet \/ FetchNo \/ Assign)
  BY <1>1, <1>2, <1>6, StateStep, GetStep, NoStep, AssignStep
  DEF ParseInv, FindInv
<1>7. QED
  BY <1>3, <1>4, <1>5, <1>6
  DEF TextNext, Find, FindEnds, Sign, Digit, DigitsEnd, FetchState, FetchGet, FetchNo,
      FetchByte, Assign

(* The words before the table entry compared, and what was read of a parameter, are
   as the text has them in every state of the text functions.              *)
THEOREM ParseInvariance == TextSpec => []ParseInv
<1>1. QED
  BY InitParse, ParseStep, PTL DEF TextSpec

(* A command is found exactly when the whole word at the beginning of the line is
   its name in any case, for every text and every table of names made of a
   word's characters.                                                      *)
THEOREM FoundWord == TextSpec => []FoundIsWord
<1>1. ParseInv => FoundIsWord
  BY DEF ParseInv, FindInv, FoundIsWord
<1>2. QED
  BY <1>1, ParseInvariance, PTL

(* AUTO ends with what SaysIs reads off the text. *)
LEMMA AutoSays == ParseInv => AutoAsWritten
<1> SUFFICES ASSUME ParseInv, task = "auto", stage = "done"
             PROVE  IF result.is = "set"
                    THEN Says(result.value)
                    ELSE ~\E v \in [state : {"0", "1"}, get : Pairs, no : Pairs] : Says(v)
  BY DEF AutoAsWritten
<1>1. Mode => 1 \in DOMAIN text
  BY AtIs DEF ParseInv, Mode, At
<1>2. CASE result.is = "set"
  <2>1. /\ Mode /\ Legible(GetAt) /\ Legible(NoAt)
        /\ result.value = Read(GetSaid, NoSaid)
    BY <1>2 DEF ParseInv, AutoInv
  <2>2. Says(result.value)
    BY <1>1, <2>1, SaysIs DEF ParseInv, Read
  <2>3. QED
    BY <1>2, <2>2
<1>3. CASE result.is # "set"
  <2>1. ~ (Mode /\ Legible(GetAt) /\ Legible(NoAt))
    BY <1>3 DEF ParseInv, AutoInv
  <2>2. ASSUME NEW v \in [state : {"0", "1"}, get : Pairs, no : Pairs], Says(v)
        PROVE  FALSE
    <3>1. Mode
      BY <2>2 DEF Says, Mode
    <3>2. QED
      BY <1>1, <2>1, <2>2, <3>1, SaysIs DEF ParseInv
  <2>3. QED
    BY <1>3, <2>2
<1>4. QED
  BY <1>2, <1>3

(* AUTO is set to what the text says, all three values together, or not at all, for
   every text: an error in the last byte leaves no trace of the first.     *)
THEOREM AutoWritten == TextSpec => []AutoAsWritten
<1>1. QED
  BY AutoSays, ParseInvariance, PTL

(* No text function moves behind the terminating NUL of its text. *)
THEOREM StaysInside == TextSpec => []InsideText
<1>1. ParseInv => InsideText
  BY DEF ParseInv
<1>2. QED
  BY <1>1, ParseInvariance, PTL

-----------------------------------------------------------------------------
(* Reading a number: the value of its digits is a recursive function, and what an
   s32 holds of it is found turn by turn.                                  *)

(* v is the value of the first m digits of s, for each m up to n. *)
IsValue(v, s, n) ==
    v = [m \in 0 .. n |-> IF m = 0 THEN 0 ELSE 10 * v[m - 1] + DigitOf(s[m])]

(* The recursion has a solution for every length: there is no least one without. *)
LEMMA ValueExists ==
    ASSUME NEW s, NEW n \in Nat
    PROVE  \E v : IsValue(v, s, n)
<1> DEFINE S == {m \in Nat : ~ \E v : IsValue(v, s, m)}
<1>1. SUFFICES ASSUME S # {} PROVE FALSE
  OBVIOUS
<1> DEFINE m == Min(S)
<1>2. m \in S /\ \A k \in S : m <= k
  BY <1>1, LeastIs
<1> HIDE DEF m
<1>3. m # 0
  <2> DEFINE v == [k \in 0 .. 0 |-> 0]
  <2>1. IsValue(v, s, 0)
    BY DEF IsValue
  <2>2. QED
    BY <1>2, <2>1
<1>4. m \in Nat /\ m - 1 \in Nat /\ m - 1 \notin S
  BY <1>2, <1>3
<1>5. PICK u : IsValue(u, s, m - 1)
  BY <1>4
<1> DEFINE v == [k \in 0 .. m |-> IF k = m THEN 10 * u[m - 1] + DigitOf(s[m]) ELSE u[k]]
<1>6. \A k \in 0 .. m - 1 : u[k] = IF k = 0 THEN 0 ELSE 10 * u[k - 1] + DigitOf(s[k])
  BY <1>5 DEF IsValue
<1>7. \A k \in 0 .. m : v[k] = IF k = 0 THEN 0 ELSE 10 * v[k - 1] + DigitOf(s[k])
  <2> TAKE k \in 0 .. m
  <2>1. CASE k = m
    <3>1. m - 1 \in 0 .. m /\ m - 1 # m
      BY <1>4
    <3>2. QED
      BY <1>3, <1>4, <2>1, <3>1
  <2>2. CASE k # m
    <3>1. k \in 0 .. m - 1 /\ (k # 0 => k - 1 \in 0 .. m /\ k - 1 # m)
      BY <1>4, <2>2
    <3>2. QED
      BY <1>6, <2>2, <3>1
  <2>3. QED
    BY <2>1, <2>2
<1>8. IsValue(v, s, m)
  <2>1. v = [k \in 0 .. m |-> v[k]]
    OBVIOUS
  <2> HIDE DEF v
  <2>2. QED
    BY <1>7, <2>1 DEF IsValue
<1>9. QED
  BY <1>2, <1>8

(* The recursive function is that solution. *)
LEMMA ValueIs ==
    ASSUME NEW s, Len(s) \in Nat
    PROVE  IsValue(Values(s), s, Len(s))
<1> DEFINE v == CHOOSE u : IsValue(u, s, Len(s))
<1>1. IsValue(v, s, Len(s))
  BY ValueExists
<1>2. Values(s) = v
  BY DEF Values, IsValue
<1>3. QED
  BY <1>1, <1>2

(* A digit of the text stands for a number of one digit. *)
LEMMA DigitIs ==
    ASSUME NEW c, IsDigit(c)
    PROVE  DigitOf(c) \in 0 .. 9
<1>1. \E i \in DOMAIN Digits : Digits[i] = c
  BY DEF IsDigit, Range
<1>2. IndexIn(Digits, c) \in DOMAIN Digits
  BY <1>1 DEF IndexIn
<1>3. DOMAIN Digits = 1 .. 10
  BY DEF Digits
<1>4. QED
  BY <1>2, <1>3 DEF DigitOf

(* Two numbers, of which an s32 holds the same. *)
Congruent(a, b) == \E q \in Int : a = b + q * Range32

(* Division with a remainder. *)
LEMMA DivMod ==
    ASSUME NEW n \in Int, NEW R \in Nat \ {0}
    PROVE  /\ n % R \in 0 .. R - 1
           /\ n \div R \in Int
           /\ n = R * (n \div R) + (n % R)
OBVIOUS

(* What an s32 holds for a number. *)
LEMMA WrapIs ==
    ASSUME NEW n \in Int
    PROVE  Wrap(n) \in 0 - Half .. Half - 1 /\ Congruent(Wrap(n), n)
<1>1. Half \in Nat \ {0} /\ Range32 = 2 * Half /\ Range32 \in Nat \ {0}
  BY ParseAssumption DEF Range32
<1> DEFINE m == n % Range32
           q == n \div Range32
<1>2. m \in 0 .. Range32 - 1 /\ q \in Int /\ n = Range32 * q + m
  BY <1>1, DivMod DEF m, q
<1> HIDE DEF m, q
<1>3. Wrap(n) = IF m >= Half THEN m - Range32 ELSE m
  BY DEF Wrap, m
<1>4. Wrap(n) \in 0 - Half .. Half - 1
  BY <1>1, <1>2, <1>3
<1>5. CASE m >= Half
  <2>1. Wrap(n) = n + (0 - q - 1) * Range32 /\ 0 - q - 1 \in Int
    BY <1>1, <1>2, <1>3, <1>5
  <2>2. QED
    BY <1>4, <2>1 DEF Congruent
<1>6. CASE ~ (m >= Half)
  <2>1. Wrap(n) = n + (0 - q) * Range32 /\ 0 - q \in Int
    BY <1>1, <1>2, <1>3, <1>6
  <2>2. QED
    BY <1>4, <2>1 DEF Congruent
<1>7. QED
  BY <1>5, <1>6

(* Two s32 that are congruent are equal. *)
LEMMA CongruentIsEqual ==
    ASSUME NEW a \in 0 - Half .. Half - 1, NEW b \in 0 - Half .. Half - 1, Congruent(a, b)
    PROVE  a = b
<1>1. Half \in Nat \ {0} /\ Range32 = 2 * Half /\ Range32 \in Nat \ {0}
  BY ParseAssumption DEF Range32
<1>2. PICK q \in Int : a = b + q * Range32
  BY DEF Congruent
<1>3. a \in Int /\ b \in Int /\ a - b < Range32 /\ b - a < Range32
  BY <1>1
<1>4. ~ (q >= 1)
  <2>1. q >= 1 => q * Range32 >= Range32
    BY <1>1
  <2>2. q * Range32 \in Int
    BY <1>1
  <2>3. QED
    BY <1>1, <1>2, <1>3, <2>1, <2>2
<1>5. ~ (q <= -1)
  <2>1. q <= -1 => q * Range32 <= 0 - Range32
    BY <1>1
  <2>2. q * Range32 \in Int
    BY <1>1
  <2>3. QED
    BY <1>1, <1>2, <1>3, <2>1, <2>2
<1>6. q = 0
  BY <1>4, <1>5
<1>7. QED
  BY <1>1, <1>2, <1>3, <1>6

(* The multiplication keeps them congruent. *)
LEMMA CongruentTimes ==
    ASSUME NEW a \in Int, NEW b \in Int, Congruent(a, b)
    PROVE  Congruent(a * 10, 10 * b)
<1>1. Range32 \in Int
  BY ParseAssumption DEF Range32
<1>2. PICK q \in Int : a = b + q * Range32
  BY DEF Congruent
<1>3. a * 10 = 10 * b + (10 * q) * Range32 /\ 10 * q \in Int
  BY <1>1, <1>2
<1>4. QED
  BY <1>3 DEF Congruent

(* So does the addition of a digit, *)
LEMMA CongruentPlus ==
    ASSUME NEW a \in Int, NEW b \in Int, NEW c \in Int, Congruent(a, b)
    PROVE  Congruent(a + c, b + c)
<1>1. Range32 \in Int
  BY ParseAssumption DEF Range32
<1>2. PICK q \in Int : a = b + q * Range32
  BY DEF Congruent
<1>3. a + c = (b + c) + q * Range32
  BY <1>1, <1>2
<1>4. QED
  BY <1>2, <1>3 DEF Congruent

(* and the sign. *)
LEMMA CongruentMinus ==
    ASSUME NEW a \in Int, NEW b \in Int, Congruent(a, b)
    PROVE  Congruent(0 - a, 0 - b)
<1>1. Range32 \in Int
  BY ParseAssumption DEF Range32
<1>2. PICK q \in Int : a = b + q * Range32
  BY DEF Congruent
<1>3. 0 - a = (0 - b) + (0 - q) * Range32 /\ 0 - q \in Int
  BY <1>1, <1>2
<1>4. QED
  BY <1>3 DEF Congruent

(* Being congruent is symmetric, *)
LEMMA CongruentTurns ==
    ASSUME NEW a \in Int, NEW b \in Int, Congruent(a, b)
    PROVE  Congruent(b, a)
<1>1. Range32 \in Int
  BY ParseAssumption DEF Range32
<1>2. PICK q \in Int : a = b + q * Range32
  BY DEF Congruent
<1>3. b = a + (0 - q) * Range32 /\ 0 - q \in Int
  BY <1>1, <1>2
<1>4. QED
  BY <1>3 DEF Congruent

(* transitive, *)
LEMMA CongruentTrans ==
    ASSUME NEW a \in Int, NEW b \in Int, NEW c \in Int, Congruent(a, b), Congruent(b, c)
    PROVE  Congruent(a, c)
<1>1. Range32 \in Int
  BY ParseAssumption DEF Range32
<1>2. PICK q \in Int : a = b + q * Range32
  BY DEF Congruent
<1>3. PICK r \in Int : b = c + r * Range32
  BY DEF Congruent
<1>4. a = c + (q + r) * Range32 /\ q + r \in Int
  BY <1>1, <1>2, <1>3
<1>5. QED
  BY <1>4 DEF Congruent

(* and leaves the same remainder. *)
LEMMA CongruentMod ==
    ASSUME NEW a \in Int, NEW b \in Int, Congruent(a, b)
    PROVE  a % Range32 = b % Range32
<1>1. Range32 \in Nat \ {0}
  BY ParseAssumption DEF Range32
<1>2. PICK q \in Int : a = b + q * Range32
  BY DEF Congruent
<1> DEFINE k == b % Range32
           d == b \div Range32
<1>3. k \in 0 .. Range32 - 1 /\ d \in Int /\ b = Range32 * d + k
  BY <1>1, DivMod
<1> HIDE DEF k, d
<1>4. a = Range32 * (d + q) + k /\ d + q \in Int
  BY <1>1, <1>2, <1>3
<1>5. a % Range32 = k
  BY <1>1, <1>3, <1>4
<1>6. QED
  BY <1>5 DEF k

(* What an s32 holds instead of a number, after an s32's arithmetic. *)
LEMMA WrapTurn ==
    ASSUME NEW x \in Int, NEW d \in Int
    PROVE  /\ Wrap(Wrap(Wrap(x) * 10) + d) = Wrap(10 * x + d)
           /\ Wrap(0 - Wrap(x)) = Wrap(0 - x)
<1>1. Half \in Nat \ {0}
  BY ParseAssumption
<1> DEFINE a == Wrap(x)
           b == Wrap(a * 10)
           c == Wrap(b + d)
           e == Wrap(10 * x + d)
           f == Wrap(0 - a)
           g == Wrap(0 - x)
<1>2. a \in 0 - Half .. Half - 1 /\ Congruent(a, x)
  BY WrapIs
<1> HIDE DEF a
<1>3. a \in Int /\ a * 10 \in Int
  BY <1>1, <1>2
<1>4. b \in 0 - Half .. Half - 1 /\ Congruent(b, a * 10)
  BY <1>3, WrapIs
<1> HIDE DEF b
<1>5. b \in Int /\ b + d \in Int /\ 10 * x + d \in Int /\ 0 - a \in Int /\ 0 - x \in Int
  BY <1>1, <1>3, <1>4
<1>6. /\ c \in 0 - Half .. Half - 1 /\ Congruent(c, b + d)
      /\ e \in 0 - Half .. Half - 1 /\ Congruent(e, 10 * x + d)
      /\ f \in 0 - Half .. Half - 1 /\ Congruent(f, 0 - a)
      /\ g \in 0 - Half .. Half - 1 /\ Congruent(g, 0 - x)
  BY <1>5, WrapIs
<1> HIDE DEF c, e, f, g
<1>7. c \in Int /\ e \in Int /\ f \in Int /\ g \in Int
  BY <1>1, <1>6
<1>8. Congruent(b, 10 * x)
  <2>1. Congruent(a * 10, 10 * x) /\ 10 * x \in Int
    BY <1>2, <1>3, CongruentTimes
  <2>2. QED
    BY <1>3, <1>4, <1>5, <2>1, CongruentTrans
<1>9. Congruent(c, 10 * x + d)
  <2>1. Congruent(b + d, 10 * x + d)
    <3>1. 10 * x \in Int
      OBVIOUS
    <3>2. QED
      BY <1>5, <1>8, <3>1, CongruentPlus
  <2>2. QED
    BY <1>5, <1>6, <1>7, <2>1, CongruentTrans
<1>10. c = e
  <2>1. Congruent(10 * x + d, e)
    BY <1>5, <1>6, <1>7, CongruentTurns
  <2>2. Congruent(c, e)
    BY <1>5, <1>7, <1>9, <2>1, CongruentTrans
  <2>3. QED
    BY <1>1, <1>6, <2>2, CongruentIsEqual
<1>11. f = g
  <2>1. Congruent(0 - a, 0 - x)
    BY <1>2, <1>3, CongruentMinus
  <2>2. Congruent(f, 0 - x)
    BY <1>5, <1>6, <1>7, <2>1, CongruentTrans
  <2>3. Congruent(0 - x, g)
    BY <1>5, <1>6, <1>7, CongruentTurns
  <2>4. Congruent(f, g)
    BY <1>5, <1>7, <2>2, <2>3, CongruentTrans
  <2>5. QED
    BY <1>1, <1>6, <2>4, CongruentIsEqual
<1>12. QED
  BY <1>10, <1>11 DEF a, b, c, e, f, g

(* What an s32 holds for a number is the number as far as it fits. *)
LEMMA WrapFits ==
    ASSUME NEW n \in Int
    PROVE  /\ Wrap(n) \in 0 - Half .. Half - 1
           /\ Wrap(n) % Range32 = n % Range32
           /\ n \in 0 - Half .. Half - 1 => Wrap(n) = n
<1>1. Wrap(n) \in 0 - Half .. Half - 1 /\ Congruent(Wrap(n), n)
  BY WrapIs
<1>2. Half \in Nat \ {0} /\ Wrap(n) \in Int
  BY <1>1, ParseAssumption
<1>3. QED
  BY <1>1, <1>2, CongruentMod, CongruentIsEqual

(* A part of a sequence. *)
LEMMA PartIs ==
    ASSUME NEW A, NEW s \in Seq(A), NEW i \in 1 .. Len(s) + 1, NEW j \in i - 1 .. Len(s)
    PROVE  /\ SubSeq(s, i, j) \in Seq(A)
           /\ Len(SubSeq(s, i, j)) = j + 1 - i
           /\ \A k \in 1 .. j + 1 - i : SubSeq(s, i, j)[k] = s[i + k - 1]
OBVIOUS

(* Where the digits are. *)
LEMMA WrittenIs ==
    ASSUME TextInv
    PROVE  /\ From \in {1, 2} /\ Len(Written) \in Nat
           /\ From + Len(Written) \in From .. Len(text) + 1
           /\ \A i \in 1 .. Len(Written) : /\ Written[i] = At(From + i - 1)
                                          /\ IsDigit(At(From + i - 1))
           /\ ~IsDigit(At(From + Len(Written)))
           /\ Written = <<>> <=> Len(Written) = 0
<1> DEFINE S == {j \in From .. Len(text) + 1 : ~IsDigit(At(j))}
           m == Min(S)
<1>1. Len(text) \in Nat /\ At(Len(text) + 1) = "NUL" /\ ~IsDigit("NUL")
  BY AtIs, NulIsNone DEF IsDigit, IsChar, Chars
<1>2. From \in {1, 2} /\ From <= Len(text) + 1
  <2>1. At(1) = Minus => At(1) # "NUL"
    BY Zenon DEF Minus
  <2>2. Len(text) = 0 => At(1) = "NUL"
    BY <1>1
  <2>3. From = 1 \/ (From = 2 /\ At(1) = Minus)
    <3>1. ASSUME At(1) = Minus PROVE From = 2
      BY <3>1, Zenon DEF From
    <3>2. ASSUME At(1) # Minus PROVE From = 1
      BY <3>2 DEF From
    <3>3. QED
      BY <3>1, <3>2, Zenon
  <2>4. From = 2 => Len(text) # 0
    BY <2>1, <2>2, <2>3
  <2>5. QED
    BY <1>1, <2>3, <2>4
<1>3. S \in SUBSET Nat /\ Len(text) + 1 \in S
  BY <1>1, <1>2
<1>4. m \in S /\ \A x \in S : m <= x
  BY <1>3, LeastIs
<1>5. m \in From .. Len(text) + 1 /\ ~IsDigit(At(m))
  BY <1>4
<1>6. Written = SubSeq(text, From, m - 1)
  BY DEF Written
<1>7. ASSUME NEW k \in From .. m - 1 PROVE IsDigit(At(k))
  <2>1. k \in From .. Len(text) + 1 /\ ~ (m <= k)
    BY <1>1, <1>2, <1>5, <1>7
  <2>2. k \notin S
    BY <2>1, <1>4
  <2>3. QED
    BY <2>1, <2>2
<1> HIDE DEF m
<1>8. /\ Written \in Seq(Alphabet[task]) /\ Len(Written) = m - From
      /\ \A i \in 1 .. m - From : Written[i] = text[From + i - 1]
  <2>1. text \in Seq(Alphabet[task])
    BY DEF TextInv
  <2>2. From \in 1 .. Len(text) + 1 /\ m - 1 \in From - 1 .. Len(text)
    BY <1>1, <1>2, <1>5
  <2>3. /\ Written \in Seq(Alphabet[task])
        /\ Len(Written) = m - 1 + 1 - From
        /\ \A k \in 1 .. m - 1 + 1 - From : Written[k] = text[From + k - 1]
    BY ONLY <1>6, <2>1, <2>2, PartIs
  <2>4. m - 1 + 1 - From = m - From
    BY <1>2, <1>5
  <2>5. QED
    BY <2>3, <2>4
<1>9. From + Len(Written) = m /\ Len(Written) \in Nat
  BY <1>2, <1>5, <1>8
<1>10. ASSUME NEW i \in 1 .. Len(Written)
       PROVE  Written[i] = At(From + i - 1) /\ IsDigit(At(From + i - 1))
  <2>1. From + i - 1 \in From .. m - 1 /\ From + i - 1 <= Len(text)
    BY <1>1, <1>2, <1>5, <1>9
  <2>2. QED
    BY <1>7, <1>8, <1>9, <2>1 DEF At
<1>11. Written = <<>> <=> Len(Written) = 0
  BY <1>8
<1>12. QED
  BY <1>2, <1>5, <1>9, <1>10, <1>11

(* The value of the digits, each of them a number. *)
LEMMA WrittenValues ==
    ASSUME TextInv
    PROVE  /\ Values(Written)[0] = 0
           /\ \A m \in 0 .. Len(Written) - 1 :
                 Values(Written)[m + 1] = 10 * Values(Written)[m] + DigitOf(At(From + m))
           /\ \A m \in 0 .. Len(Written) : Values(Written)[m] \in Int
<1> DEFINE v == Values(Written)
           n == Len(Written)
<1>1. n \in Nat /\ From \in {1, 2}
  BY WrittenIs
<1>2. \A m \in 0 .. n : v[m] = IF m = 0 THEN 0 ELSE 10 * v[m - 1] + DigitOf(Written[m])
  BY <1>1, ValueIs DEF IsValue
<1> HIDE DEF v, n
<1>3. v[0] = 0
  BY <1>1, <1>2
<1>4. ASSUME NEW m \in 0 .. n - 1
      PROVE  /\ v[m + 1] = 10 * v[m] + DigitOf(At(From + m))
             /\ DigitOf(At(From + m)) \in Int
  <2>1. m + 1 \in 1 .. n /\ m + 1 - 1 = m /\ From + (m + 1) - 1 = From + m
    BY <1>1
  <2>2. Written[m + 1] = At(From + m) /\ IsDigit(At(From + m))
    BY <2>1, WrittenIs DEF n
  <2>3. v[m + 1] = 10 * v[m] + DigitOf(Written[m + 1])
    BY <1>1, <1>2, <2>1
  <2>4. QED
    BY <2>2, <2>3, DigitIs
<1> DEFINE S == {m \in 0 .. n : v[m] \notin Int}
<1>5. ASSUME S # {} PROVE FALSE
  <2>1. S \in SUBSET Nat
    BY <1>1
  <2>2. PICK m \in S : \A k \in S : m <= k
    BY <1>5, <2>1, LeastIs
  <2>3. m \in 0 .. n /\ m # 0 /\ v[m] \notin Int
    BY <1>3, <2>2
  <2>4. m - 1 \in 0 .. n - 1 /\ m - 1 \in 0 .. n /\ ~ (m <= m - 1) /\ m - 1 + 1 = m
    BY <1>1, <2>3
  <2>5. v[m - 1] \in Int
    BY <2>2, <2>4
  <2>6. /\ v[m] = 10 * v[m - 1] + DigitOf(At(From + (m - 1)))
        /\ DigitOf(At(From + (m - 1))) \in Int
    BY <1>4, <2>4
  <2>7. QED
    BY <2>3, <2>5, <2>6
<1>6. QED
  BY <1>3, <1>4, <1>5 DEF v, n

-----------------------------------------------------------------------------
(* parse_number, where it is: tmp is what an s32 holds of the value of the digits
   it has read.                                                            *)
NumberInv ==
    task = "number" =>
        /\ stage \in {"start", "digits", "done"}
        /\ stage = "start" => tmp = 0 /\ pos = 1
        /\ stage = "digits" => /\ Len(Written) > 0
                              /\ pos \in From .. From + Len(Written)
                              /\ tmp = Wrap(Values(Written)[pos - From])
        /\ NumberAsWritten

(* What is said about the digits of the text alone stays as it is. *)
LEMMA WrittenStays ==
    ASSUME task' = task, text' = text
    PROVE  /\ From' = From /\ Written' = Written /\ Values(Written)' = Values(Written)
           /\ (At(1) = Minus)' <=> (At(1) = Minus)
           /\ \A i : At(i)' = At(i)
<1>1. \A i : At(i)' = At(i)
  BY DEF At
<1>2. From' = From
  BY <1>1 DEF From
<1>3. Written' = Written
  BY <1>1, <1>2 DEF Written
<1>4. Values(Written)' = Values(Written)
  BY <1>3 DEF Values
<1>5. (At(1) = Minus)' <=> (At(1) = Minus)
  BY <1>1 DEF Minus
<1>6. QED
  BY <1>1, <1>2, <1>3, <1>4, <1>5

(* The sign, and whether there is a digit at all. *)
LEMMA SignStep ==
    ASSUME ParseInv, NumberInv, Sign
    PROVE  NumberInv'
<1>1. /\ task = "number" /\ task' = task /\ text' = text /\ stage = "start"
      /\ tmp = 0 /\ tmp' = tmp
  BY DEF Sign, NumberInv
<1>2. /\ TextInv /\ From \in {1, 2} /\ Len(Written) \in Nat
      /\ \A i \in 1 .. Len(Written) : IsDigit(At(From + i - 1))
      /\ ~IsDigit(At(From + Len(Written)))
      /\ Written = <<>> <=> Len(Written) = 0
  BY WrittenIs DEF ParseInv
<1>3. IF IsDigit(At(From))
      THEN pos' = From /\ stage' = "digits"
      ELSE result' = [is |-> "NULL"] /\ stage' = "done"
  BY Zenon DEF Sign, From, Return
<1>4. /\ From' = From /\ Written' = Written /\ Values(Written)' = Values(Written)
      /\ (At(1) = Minus)' <=> (At(1) = Minus)
  BY <1>1, WrittenStays
<1>5. CASE IsDigit(At(From))
  <2>1. Len(Written) > 0
    <3>1. Len(Written) = 0 => From + Len(Written) = From
      BY <1>2
    <3>2. QED
      BY <1>2, <1>5, <3>1
  <2>2. pos' - From = 0 /\ pos' \in From .. From + Len(Written)
    BY <1>2, <1>3, <1>5
  <2>3. Values(Written)[0] = 0
    BY <1>2, WrittenValues
  <2>4. Wrap(0) = 0
    <3>1. Half \in Nat \ {0} /\ 0 \in 0 - Half .. Half - 1
      BY ParseAssumption
    <3>2. QED
      BY <3>1, WrapFits
  <2>5. tmp' = Wrap(Values(Written)[pos' - From])
    BY <1>1, <2>2, <2>3, <2>4
  <2>6. Wrap(Values(Written)[pos - From])' = Wrap(Values(Written)[pos' - From])
    BY <1>4 DEF Wrap
  <2>7. QED
    BY <1>1, <1>3, <1>4, <1>5, <2>1, <2>2, <2>5, <2>6 DEF NumberInv, NumberAsWritten
<1>6. CASE ~IsDigit(At(From))
  <2>1. Len(Written) = 0
    <3>1. Len(Written) # 0 => 1 \in 1 .. Len(Written) /\ From + 1 - 1 = From
      BY <1>2
    <3>2. QED
      BY <1>2, <1>6, <3>1
  <2>2. Written' = <<>> /\ result'.is = "NULL" /\ stage' = "done"
    BY <1>2, <1>3, <1>4, <1>6, <2>1
  <2>3. NumberAsWritten'
    BY <2>2 DEF NumberAsWritten
  <2>4. QED
    BY <2>2, <2>3 DEF NumberInv
<1>7. QED
  BY <1>5, <1>6

(* A digit: the value grows by it, as far as the width goes. *)
LEMMA DigitStep ==
    ASSUME ParseInv, NumberInv, Digit
    PROVE  NumberInv'
<1>1. /\ task = "number" /\ task' = task /\ text' = text
      /\ stage = "digits" /\ stage' = stage /\ pos' = pos + 1 /\ IsDigit(At(pos))
      /\ tmp' = Wrap(Wrap(tmp * 10) + DigitOf(At(pos)))
  BY DEF Digit
<1>2. /\ Len(Written) > 0 /\ pos \in From .. From + Len(Written)
      /\ tmp = Wrap(Values(Written)[pos - From])
  BY <1>1 DEF NumberInv
<1>3. /\ TextInv /\ From \in {1, 2} /\ Len(Written) \in Nat
      /\ ~IsDigit(At(From + Len(Written)))
  BY WrittenIs DEF ParseInv
<1>4. /\ From' = From /\ Written' = Written /\ Values(Written)' = Values(Written)
  BY <1>1, WrittenStays
<1> DEFINE m == pos - From
           v == Values(Written)
<1>5. pos # From + Len(Written)
  BY <1>1, <1>3
<1>6. m \in 0 .. Len(Written) - 1 /\ m \in 0 .. Len(Written) /\ From + m = pos
      /\ pos' - From = m + 1 /\ pos' \in From .. From + Len(Written)
  BY <1>1, <1>2, <1>3, <1>5
<1>7. tmp = Wrap(v[m])
  BY <1>2
<1> HIDE DEF m, v
<1>8. v[m + 1] = 10 * v[m] + DigitOf(At(pos)) /\ v[m] \in Int
  BY <1>3, <1>6, WrittenValues DEF v
<1>9. DigitOf(At(pos)) \in Int
  BY <1>1, DigitIs
<1>10. tmp' = Wrap(v[m + 1])
  BY <1>1, <1>7, <1>8, <1>9, WrapTurn
<1>11. Wrap(Values(Written)[pos - From])' = Wrap(v[m + 1])
  BY <1>4, <1>6 DEF Wrap, v
<1>12. QED
  BY <1>1, <1>2, <1>4, <1>6, <1>10, <1>11 DEF NumberInv, NumberAsWritten

(* Behind the last digit: the value, and its sign. *)
LEMMA DigitsEndStep ==
    ASSUME ParseInv, NumberInv, DigitsEnd
    PROVE  NumberInv'
<1>1. /\ task = "number" /\ task' = task /\ text' = text /\ pos' = pos
      /\ stage = "digits" /\ stage' = "done" /\ ~IsDigit(At(pos))
  BY DEF DigitsEnd, Return
<1>2. result' = [is |-> "number", value |-> IF At(1) = Minus THEN Wrap(0 - tmp) ELSE tmp]
  BY Zenon DEF DigitsEnd, Return
<1>3. /\ Len(Written) > 0 /\ pos \in From .. From + Len(Written)
      /\ tmp = Wrap(Values(Written)[pos - From])
  BY <1>1 DEF NumberInv
<1>4. /\ TextInv /\ From \in {1, 2} /\ Len(Written) \in Nat
      /\ \A i \in 1 .. Len(Written) : IsDigit(At(From + i - 1))
      /\ Written = <<>> <=> Len(Written) = 0
  BY WrittenIs DEF ParseInv
<1>5. pos - From = Len(Written)
  <2>1. pos # From + Len(Written)
          => pos - From + 1 \in 1 .. Len(Written) /\ From + (pos - From + 1) - 1 = pos
    BY <1>3, <1>4
  <2>2. pos = From + Len(Written)
    BY <1>1, <1>4, <2>1
  <2>3. QED
    BY <1>4, <2>2
<1> DEFINE u == ValueOf(Written)
           n == IF At(1) = Minus THEN 0 - u ELSE u
<1>6. tmp = Wrap(u) /\ u \in Int
  BY <1>3, <1>4, <1>5, WrittenValues DEF ValueOf
<1> HIDE DEF u
<1>7. n \in Int /\ result'.value = Wrap(n)
  <2>1. CASE At(1) = Minus
    <3>1. n = 0 - u /\ result'.value = Wrap(0 - tmp)
      BY <1>2, <2>1, Zenon
    <3>2. 0 - u \in Int /\ Wrap(0 - tmp) = Wrap(0 - u)
      BY <1>6, WrapTurn
    <3>3. QED
      BY <3>1, <3>2
  <2>2. CASE At(1) # Minus
    <3>1. n = u /\ result'.value = tmp
      BY <1>2, <2>2, Zenon
    <3>2. QED
      BY <1>6, <3>1
  <2>3. QED
    BY <2>1, <2>2, Zenon
<1> HIDE DEF n
<1>8. /\ result'.value % Range32 = n % Range32
      /\ n \in 0 - Half .. Half - 1 => result'.value = n
  BY <1>7, WrapFits
<1>9. pos > 1 => At(pos - 1) \in Range(Digits)
  <2>1. Len(Written) \in 1 .. Len(Written) /\ From + Len(Written) - 1 = pos - 1
    BY <1>3, <1>4, <1>5
  <2>2. QED
    BY <1>4, <2>1 DEF IsDigit
<1>10. /\ Written' = Written /\ \A i : At(i)' = At(i)
  BY <1>1, WrittenStays
<1>11. NumberAsWritten'
  <2>1. Written' # <<>>
    BY <1>3, <1>4, <1>10
  <2>2. n' = n
    BY <1>1, <1>10, WrittenStays, Zenon DEF n, u, ValueOf
  <2>3. (~IsDigit(At(pos)))' /\ (pos > 1 => At(pos - 1) \in Range(Digits))'
    BY <1>1, <1>9, <1>10 DEF IsDigit
  <2>4. QED
    BY <1>1, <1>8, <2>1, <2>2, <2>3 DEF NumberAsWritten, n, u
<1>12. QED
  BY <1>1, <1>11 DEF NumberInv

(* The invariant of parse_number begins, and each step keeps it. *)
LEMMA InitNumber == TextInit => NumberInv
  BY DEF TextInit, NumberInv, NumberAsWritten

(* Each step is of parse_number, or leaves its text and its task alone. *)
LEMMA NumberStep == ParseInv /\ NumberInv /\ [TextNext]_textVars => NumberInv'
<1> SUFFICES ASSUME ParseInv, NumberInv, [TextNext]_textVars PROVE NumberInv'
  OBVIOUS
<1>1. task' = task /\ text' = text
  BY DEF TextNext, textVars, Find, FindEnds, Sign, Digit, DigitsEnd, FetchState,
         FetchGet, FetchNo, FetchByte, Assign
<1>2. CASE UNCHANGED textVars
  <2>1. /\ stage' = stage /\ pos' = pos /\ result' = result /\ tmp' = tmp
    BY <1>2 DEF textVars
  <2>2. /\ From' = From /\ Written' = Written /\ Values(Written)' = Values(Written)
        /\ (At(1) = Minus)' <=> (At(1) = Minus)
        /\ \A i : At(i)' = At(i)
    BY <1>1, WrittenStays
  <2>3. NumberAsWritten' <=> NumberAsWritten
    BY <1>1, <2>1, <2>2 DEF NumberAsWritten, ValueOf, IsDigit
  <2>4. Wrap(Values(Written)[pos - From])' = Wrap(Values(Written)[pos - From])
    BY <2>1, <2>2 DEF Wrap
  <2>5. QED
    BY <1>1, <2>1, <2>2, <2>3, <2>4 DEF NumberInv
<1>3. CASE task # "number"
  BY <1>1, <1>3 DEF NumberInv
<1>4. CASE task = "number" /\ TextNext
  <2>1. Sign \/ Digit \/ DigitsEnd
    BY <1>4 DEF TextNext, Find, FindEnds, FetchState, FetchGet, FetchNo, FetchByte, Assign
  <2>2. QED
    BY <2>1, SignStep, DigitStep, DigitsEndStep
<1>5. QED
  BY <1>2, <1>3, <1>4

(* parse_number returns the number that is written with its sign, as far as it
   fits an s32, and the same number modulo its width where it does not, for every
   text and every width.                                                   *)
THEOREM NumberWritten == TextSpec => []NumberAsWritten
<1>1. TextSpec => []NumberInv
  BY InitNumber, NumberStep, ParseInvariance, PTL DEF TextSpec
<1>2. NumberInv => NumberAsWritten
  BY DEF NumberInv, NumberAsWritten
<1>3. QED
  BY <1>1, <1>2, PTL

(* The functions are where they can be, inside their text, and parse_number's sum
   is an s32 after every digit.                                            *)
THEOREM TextTypes == TextSpec => []TextTypeOK
<1>1. TextInit => TextTypeOK
  <2> SUFFICES ASSUME TextInit PROVE TextTypeOK
    OBVIOUS
  <2>1. InsideText
    BY InitParse DEF ParseInv
  <2>2. 0 \in 0 - Half .. Half - 1
    BY ParseAssumption
  <2>3. QED
    BY <2>1, <2>2 DEF TextInit, TextTypeOK
<1>2. ParseInv /\ TextTypeOK /\ [TextNext]_textVars => TextTypeOK'
  <2> SUFFICES ASSUME ParseInv, TextTypeOK, [TextNext]_textVars PROVE TextTypeOK'
    OBVIOUS
  <2>1. InsideText'
    BY ParseStep DEF ParseInv
  <2>2. stage' \in {"start", "digits", "get", "no", "assign", "done"}
    BY DEF TextTypeOK, TextNext, textVars, Find, FindEnds, Sign, Digit, DigitsEnd,
           FetchState, FetchGet, FetchNo, FetchByte, Assign, Return
  <2>3. CASE tmp' = tmp
    BY <2>1, <2>2, <2>3 DEF TextTypeOK
  <2>4. CASE Digit
    <3>1. tmp \in Int /\ tmp * 10 \in Int
      BY ParseAssumption DEF TextTypeOK
    <3>2. Wrap(tmp * 10) \in Int
      BY <3>1, WrapFits, ParseAssumption
    <3>3. DigitOf(At(pos)) \in Int
      BY <2>4, DigitIs DEF Digit
    <3>4. Wrap(tmp * 10) + DigitOf(At(pos)) \in Int
      BY <3>2, <3>3
    <3>5. tmp' \in 0 - Half .. Half - 1
      BY <2>4, <3>4, WrapFits DEF Digit
    <3>6. QED
      BY <2>1, <2>2, <3>5 DEF TextTypeOK
  <2>5. QED
    BY <2>3, <2>4
    DEF TextNext, textVars, Find, FindEnds, Sign, DigitsEnd, FetchState, FetchGet,
        FetchNo, FetchByte, Assign
<1>3. QED
  BY <1>1, <1>2, ParseInvariance, PTL DEF TextSpec
=============================================================================
