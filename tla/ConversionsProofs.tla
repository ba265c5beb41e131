-------------------------- MODULE ConversionsProofs ---------------------------
(***************************************************************************)
(* For every settings file, every range of a trigger or a stick, every     *)
(* byte that the EFUSE may hold, every size of a transfer and every length *)
(* that a packet claims: what the pure functions return is what they are   *)
(* meant to, and every packet that is sent is well-formed. Inductions are  *)
(* by the least counterexample (LeastExists).                              *)
(***************************************************************************)
EXTENDS Conversions, SequenceTheorems, WellFoundedInduction, TLAPS

Inputs == Files \cup Triggers \cup Sticks \cup Trims \cup Powers \cup Receptions \cup Sendings

(* A function that has returned has returned its value for the input.      *)
Computed ==
    /\ input \in Inputs
    /\ output = <<>> \/
          CASE input.call = "load" -> output = <<Load(input.lines)>>
            [] input.call = "trigger" -> output = <<Trigger(input.value, input.deadzone)>>
            [] input.call = "stick" ->
                  output = <<Reported(input.x, input.y, input.deadzone, input.inverted)>>
            [] input.call = "crystal" -> output = <<XoCtrl5(input.efuse)>>
            [] input.call = "channel" ->
                  output = <<ChannelConfig(input.channel, input.target, input.offset)>>
            [] input.call = "receive" -> output = <<P!HandleBulkData(input)>>
            [] input.call = "send" -> output = <<P!Transfers[input.packet]>>

(* A function's input is one of its own.                                   *)
LEMMA OwnInput ==
  ASSUME input \in Inputs
  PROVE  /\ input.call = "load" => input \in Files
         /\ input.call = "trigger" => input \in Triggers
         /\ input.call = "stick" => input \in Sticks
         /\ input.call = "crystal" => input \in Trims
         /\ input.call = "channel" => input \in Powers
         /\ input.call = "receive" => input \in Receptions
         /\ input.call = "send" => input \in Sendings
<1>1. /\ input \in Files => input.call = "load"
      /\ input \in Triggers => input.call = "trigger"
      /\ input \in Sticks => input.call = "stick"
      /\ input \in Trims => input.call = "crystal"
      /\ input \in Powers => input.call = "channel"
      /\ input \in Sendings => input.call = "send"
  BY DEF Files, Triggers, Sticks, Trims, Powers, Sendings
<1>2. input \in Receptions => input.call = "receive"
  BY DEF Receptions, Received
<1> QED
  BY <1>1, <1>2 DEF Inputs

(* Every call keeps that.                                                  *)
THEOREM Invariant == Spec => []Computed
<1>1. Init => Computed
  BY DEF Init, Computed, Inputs
<1>2. Computed /\ [Next]_vars => Computed'
  <2> SUFFICES ASSUME Computed, [Next]_vars PROVE Computed'
    OBVIOUS
  <2>1. input' = input
    BY DEF Next, LoadFile, ApplyTrigger, ApplyStick, CalibrateCrystal, ConfigureChannel,
       Receive, Send, Called, vars
  <2>2. CASE UNCHANGED vars
    BY <2>1, <2>2 DEF vars, Computed
  <2>3. CASE LoadFile
    BY <2>1, <2>3 DEF LoadFile, Called, Computed
  <2>4. CASE ApplyTrigger
    BY <2>1, <2>4 DEF ApplyTrigger, Called, Computed
  <2>5. CASE ApplyStick
    BY <2>1, <2>5 DEF ApplyStick, Called, Computed
  <2>6. CASE CalibrateCrystal
    BY <2>1, <2>6 DEF CalibrateCrystal, Called, Computed
  <2>7. CASE ConfigureChannel
    BY <2>1, <2>7 DEF ConfigureChannel, Called, Computed
  <2>8. CASE Receive
    BY <2>1, <2>8 DEF Receive, Called, Computed
  <2>9. CASE Send
    BY <2>1, <2>9 DEF Send, Called, Computed
  <2> QED
    BY <2>2, <2>3, <2>4, <2>5, <2>6, <2>7, <2>8, <2>9 DEF Next
<1> QED
  BY <1>1, <1>2, PTL DEF Spec

-----------------------------------------------------------------------------
(* The order of the numbers, as the set of its pairs.                      *)
Less == {p \in Nat \X Nat : p[1] < p[2]}

(* A set of numbers that is not empty has a least one.                     *)
LEMMA LeastExists ==
  ASSUME NEW T, T \subseteq Nat, T # {}
  PROVE  \E n \in T : \A m \in T : n <= m
<1>1. Less = OpToRel(<, Nat)
  BY DEF Less, OpToRel
<1>2. IsWellFoundedOn(Less, Nat)
  BY <1>1, NatLessThanWellFounded
<1>3. PICK n \in T : \A m \in T : ~(<<m, n>> \in Less)
  BY <1>2, WFMin
<1>4. \A m \in T : m \in Nat /\ n \in Nat
  BY <1>3
<1>5. \A m \in T : ~(m < n)
  BY <1>3, <1>4 DEF Less
<1> QED
  BY <1>3, <1>4, <1>5


(* The largest of some numbers up to n.                                    *)
LEMMA LargestIs ==
  ASSUME NEW S, S \subseteq Int, NEW m \in S, \A k \in S : k <= m
  PROVE  Max(S) = m
<1>1. \E x \in S : \A y \in S : x >= y
  <2>1. \A y \in S : m >= y
    OBVIOUS
  <2> QED
    BY <2>1
<1>2. Max(S) \in S /\ \A y \in S : Max(S) >= y
  BY <1>1 DEF Max
<1>3. Max(S) \in Int /\ m \in Int /\ Max(S) >= m /\ Max(S) <= m
  BY <1>2
<1> QED
  BY <1>3

(* A bounded set of numbers that is not empty has a largest one, which is  *)
(* what the community modules' Max chooses.                                *)
LEMMA LargestExists ==
  ASSUME NEW n \in Nat, NEW S, S \subseteq 1..n, S # {}
  PROVE  Max(S) \in S /\ \A k \in S : k <= Max(S)
<1> DEFINE T == {n - k : k \in S}
<1>1. T \subseteq Nat /\ T # {}
  <2>1. \A k \in S : n - k \in Nat
    OBVIOUS
  <2>2. PICK k \in S : TRUE
    OBVIOUS
  <2>3. n - k \in T
    OBVIOUS
  <2> QED
    BY <2>1, <2>3
<1>2. PICK t \in T : \A u \in T : t <= u
  BY <1>1, LeastExists
<1>3. PICK m \in S : t = n - m
  OBVIOUS
<1>4. ASSUME NEW k \in S PROVE k <= m
  <2>1. n - m <= n - k
    BY <1>2, <1>3
  <2>2. k \in Int /\ m \in Int
    OBVIOUS
  <2> QED
    BY <2>1, <2>2
<1>5. S \subseteq Int
  OBVIOUS
<1>6. Max(S) = m
  BY <1>4, <1>5, LargestIs
<1> QED
  BY <1>4, <1>6

-----------------------------------------------------------------------------
(* load, line by line. FoldLeft is a recursive function on the sets of     *)
(* lines; there is such a function for every number of lines.              *)
Begin == [section |-> "", fresh |-> Defaults]
Folds(iter, lines, m) ==
    iter = [s \in SUBSET (1..m) |->
              IF s = {} THEN Begin ELSE ReadLine(iter[s \ {Max(s)}], lines[Max(s)])]

(* There is such a fold, for each number of lines: it is made of the one for *)
(* a line less.                                                            *)
LEMMA FoldExists ==
  ASSUME NEW lines, NEW n \in Nat
  PROVE  \E iter : Folds(iter, lines, n)
<1> DEFINE T == {m \in Nat : ~\E iter : Folds(iter, lines, m)}
<1>1. SUFFICES ASSUME T # {} PROVE FALSE
  OBVIOUS
<1>2. PICK m \in T : \A k \in T : m <= k
  BY <1>1, LeastExists
<1>3. CASE m = 0
  <2> DEFINE iter == [s \in SUBSET (1..0) |-> Begin]
  <2>1. SUBSET (1..0) = {{}}
    OBVIOUS
  <2>2. Folds(iter, lines, 0)
    BY <2>1 DEF Folds
  <2> QED
    BY <1>3, <2>2
<1>4. CASE m # 0
  <2>1. PICK k \in Nat : m = k + 1
    <3>1. m - 1 \in Nat /\ m = (m - 1) + 1
      BY <1>4
    <3> QED
      BY <3>1
  <2>2. k \notin T
    BY <1>2, <2>1
  <2>3. PICK g : Folds(g, lines, k)
    BY <2>2
  <2> DEFINE iter == [s \in SUBSET (1..m) |->
                        IF m \in s THEN ReadLine(g[s \ {m}], lines[m]) ELSE g[s]]
  <2>4. ASSUME NEW s \in SUBSET (1..m)
        PROVE  iter[s] = IF s = {} THEN Begin
                         ELSE ReadLine(iter[s \ {Max(s)}], lines[Max(s)])
    <3>1. CASE m \in s
      <4>1. Max(s) = m
        <5>1. s \subseteq Int /\ \A j \in s : j <= m
          BY <2>1
        <5> QED
          BY <3>1, <5>1, LargestIs
      <4>2. s \ {m} \in SUBSET (1..m) /\ m \notin s \ {m}
        OBVIOUS
      <4>3. iter[s \ {m}] = g[s \ {m}]
        BY <4>2
      <4> QED
        BY <3>1, <4>1, <4>3
    <3>2. CASE m \notin s
      <4>1. s \subseteq 1..k
        BY <2>1, <3>2
      <4>2. iter[s] = g[s]
        BY <3>2
      <4>3. g[s] = IF s = {} THEN Begin ELSE ReadLine(g[s \ {Max(s)}], lines[Max(s)])
        BY <2>3, <4>1 DEF Folds
      <4>4. iter[s \ {Max(s)}] = g[s \ {Max(s)}]
        BY <3>2, <4>1
      <4> QED
        BY <4>2, <4>3, <4>4
    <3> QED
      BY <3>1, <3>2
  <2>5. Folds(iter, lines, m)
    BY <2>4 DEF Folds
  <2> QED
    BY <2>5
<1> QED
  BY <1>3, <1>4

(* What load knows after each line: after the last one, what it returns.   *)
Reading(lines, n, state) ==
    /\ state[0] = Begin
    /\ \A i \in 1..n : state[i] = ReadLine(state[i - 1], lines[i])
    /\ Load(lines) = state[n].fresh

(* load reads a file of any number of lines from the first to the last.    *)
LEMMA LoadReads ==
  ASSUME NEW lines, NEW n \in Nat, DOMAIN lines = 1..n
  PROVE  \E state : Reading(lines, n, state)
<1> DEFINE iter == CHOOSE f : Folds(f, lines, n)
           state == [i \in 0..n |-> iter[1..i]]
<1>1. Folds(iter, lines, n)
  BY FoldExists
<1>2. Load(lines) = (iter[1..n]).fresh
  BY DEF Load, FoldLeft, MapThenFoldSet, Folds, Begin
<1> HIDE DEF iter
<1>3. state[0] = Begin
  <2>1. 1..0 = {} /\ {} \in SUBSET (1..n)
    OBVIOUS
  <2>2. iter[{}] = Begin
    BY <1>1, <2>1 DEF Folds
  <2> QED
    BY <2>1, <2>2
<1>4. ASSUME NEW i \in 1..n
      PROVE  state[i] = ReadLine(state[i - 1], lines[i])
  <2>1. 1..i \in SUBSET (1..n) /\ 1..i # {} /\ (1..i) \ {i} = 1..(i - 1)
    <3>1. i \in 1..i /\ \A j \in 1..i : j \in 1..n
      OBVIOUS
    <3>2. \A j : j \in (1..i) \ {i} <=> j \in 1..(i - 1)
      OBVIOUS
    <3> QED
      BY <3>1, <3>2
  <2>2. Max(1..i) = i
    <3>1. 1..i \subseteq Int /\ i \in 1..i /\ \A j \in 1..i : j <= i
      OBVIOUS
    <3> QED
      BY <3>1, LargestIs
  <2>3. iter[1..i] = ReadLine(iter[1..(i - 1)], lines[i])
    BY <1>1, <2>1, <2>2 DEF Folds
  <2>4. i \in 0..n /\ i - 1 \in 0..n
    OBVIOUS
  <2> QED
    BY <2>3, <2>4
<1>5. state[n] = iter[1..n]
  OBVIOUS
<1> QED
  BY <1>2, <1>3, <1>4, <1>5 DEF Reading

(* A line that is accepted sets something in the section that it is in.    *)
LEMMA OwnSection ==
  ASSUME NEW section, NEW line, Meaning(section, line).ok
  PROVE  Meaning(section, line).setting[1] = section
<1>1. CASE section = "buttons"
  BY <1>1 DEF Meaning, ButtonLine, Accepted, Rejected
<1>2. CASE section \in {"sticks", "triggers"}
  BY <1>2 DEF Meaning, AxisLine, Accepted, Rejected
<1>3. CASE section = "vibration"
  BY <1>3 DEF Meaning, VibrationLine, Accepted, Rejected
<1>4. CASE section \notin {"buttons", "sticks", "triggers", "vibration"}
  BY <1>4 DEF Meaning, Rejected
<1> QED
  BY <1>1, <1>2, <1>3, <1>4

(* What the lines up to i mean.                                            *)
SetUpTo(s, i) == SetBy(s) \cap 1..i
ValueAt(s, i) ==
    IF SetUpTo(s, i) = {} THEN Defaults[s]
    ELSE Meaning(s[1], input.lines[Max(SetUpTo(s, i))]).value
Known(i) == [section |-> SectionOf(i), fresh |-> [s \in Settings |-> ValueAt(s, i)]]

(* A line that does not set s leaves its value; one that does, counts.     *)
LEMMA ValueStep ==
  ASSUME NEW i \in Nat \ {0}, NEW s
  PROVE  /\ i \notin SetBy(s) => ValueAt(s, i) = ValueAt(s, i - 1)
         /\ i \in SetBy(s) => ValueAt(s, i) = Meaning(s[1], input.lines[i]).value
<1>1. 1..i = 1..(i - 1) \cup {i}
  <2>1. \A j : j \in 1..i <=> j \in 1..(i - 1) \cup {i}
    OBVIOUS
  <2> QED
    BY <2>1
<1>2. i \notin SetBy(s) => SetUpTo(s, i) = SetUpTo(s, i - 1)
  BY <1>1 DEF SetUpTo
<1>3. ASSUME i \in SetBy(s)
      PROVE  SetUpTo(s, i) # {} /\ Max(SetUpTo(s, i)) = i
  <2>1. i \in SetUpTo(s, i) /\ SetUpTo(s, i) \subseteq Int /\ \A j \in SetUpTo(s, i) : j <= i
    BY <1>3 DEF SetUpTo
  <2> QED
    BY <2>1, LargestIs
<1> QED
  BY <1>2, <1>3 DEF ValueAt

(* The section changes with a header and with nothing else.                *)
LEMMA SectionStep ==
  ASSUME NEW i \in Nat \ {0}
  PROVE  SectionOf(i) = IF input.lines[i].kind = "header" THEN input.lines[i].section
                        ELSE SectionOf(i - 1)
<1> DEFINE H(k) == {j \in 1..k : input.lines[j].kind = "header"}
<1>1. \A j : j \in 1..i <=> j \in 1..(i - 1) \cup {i}
  OBVIOUS
<1>2. \A k : SectionOf(k) = IF H(k) = {} THEN "" ELSE input.lines[Max(H(k))].section
  BY DEF SectionOf
<1>3. CASE input.lines[i].kind = "header"
  <2>1. i \in H(i) /\ H(i) \subseteq Int /\ \A j \in H(i) : j <= i
    BY <1>3
  <2>2. Max(H(i)) = i /\ H(i) # {}
    BY <2>1, LargestIs
  <2> HIDE DEF H
  <2> QED
    BY <1>2, <1>3, <2>2
<1>4. CASE input.lines[i].kind # "header"
  <2>1. H(i) = H(i - 1)
    BY <1>1, <1>4
  <2> HIDE DEF H
  <2> QED
    BY <1>2, <1>4, <2>1
<1> QED
  BY <1>3, <1>4

(* So load knows after each line what the lines so far mean.               *)
LEMMA LineByLine ==
  ASSUME NEW n \in Nat, DOMAIN input.lines = 1..n, NEW state,
         Reading(input.lines, n, state)
  PROVE  \A i \in 0..n : state[i] = Known(i)
<1> DEFINE T == {i \in 0..n : state[i] # Known(i)}
<1>1. SUFFICES ASSUME T # {} PROVE FALSE
  OBVIOUS
<1>2. PICK i \in T : \A k \in T : i <= k
  <2>1. T \subseteq Nat
    OBVIOUS
  <2> QED
    BY <1>1, <2>1, LeastExists
<1>3. CASE i = 0
  <2>1. 1..0 = {}
    OBVIOUS
  <2>2. \A s : ValueAt(s, 0) = Defaults[s]
    BY <2>1 DEF ValueAt, SetUpTo
  <2>3. SectionOf(0) = ""
    BY <2>1 DEF SectionOf
  <2>4. [s \in Settings |-> ValueAt(s, 0)] = Defaults
    BY <2>2 DEF Defaults
  <2>5. Known(0) = Begin
    BY <2>3, <2>4 DEF Known, Begin
  <2> QED
    BY <1>3, <2>5 DEF Reading
<1>4. CASE i # 0
  <2> DEFINE line == input.lines[i]
             section == SectionOf(i - 1)
             m == Meaning(section, line)
  <2>1. i \in 1..n /\ i \in Nat \ {0} /\ i - 1 \in 0..n /\ i - 1 \notin T
    BY <1>2, <1>4
  <2>2. state[i] = ReadLine(Known(i - 1), line)
    BY <2>1 DEF Reading
  <2>3. SectionOf(i) = IF line.kind = "header" THEN line.section ELSE section
    BY <2>1, SectionStep
  <2>4. \A s : i \in SetBy(s) <=> /\ line.kind = "pair" /\ SectionOf(i) = s[1]
                                  /\ Meaning(s[1], line).ok /\ Meaning(s[1], line).setting = s
    BY <2>1 DEF SetBy
  <2>5. ReadLine(Known(i - 1), line) = Known(i)
    <3>1. CASE line.kind = "header"
      <4>1. \A s : i \notin SetBy(s)
        BY <2>4, <3>1
      <4>2. \A s : ValueAt(s, i) = ValueAt(s, i - 1)
        BY <2>1, <4>1, ValueStep
      <4>3. ReadLine(Known(i - 1), line) = [section |-> line.section, fresh |-> Known(i - 1).fresh]
        BY <3>1 DEF ReadLine, ReadHeader, Known
      <4> QED
        BY <2>3, <3>1, <4>2, <4>3 DEF Known
    <3>2. CASE line.kind = "pair" /\ m.ok
      <4>1. m.setting[1] = section
        BY <3>2, OwnSection
      <4>2. \A s : i \in SetBy(s) <=> s = m.setting
        BY <2>3, <2>4, <3>2, <4>1
      <4>3. \A s : ValueAt(s, i) = IF s = m.setting THEN m.value ELSE ValueAt(s, i - 1)
        BY <2>1, <4>1, <4>2, ValueStep
      <4>4. ReadLine(Known(i - 1), line)
              = [section |-> section,
                 fresh |-> [s \in Settings |-> IF s = m.setting THEN m.value ELSE ValueAt(s, i - 1)]]
        BY <3>2 DEF ReadLine, ReadPair, Known
      <4> QED
        BY <2>3, <3>2, <4>3, <4>4 DEF Known
    <3>3. CASE line.kind = "pair" /\ ~m.ok
      <4>1. \A s : i \notin SetBy(s)
        BY <2>3, <2>4, <3>3
      <4>2. \A s : ValueAt(s, i) = ValueAt(s, i - 1)
        BY <2>1, <4>1, ValueStep
      <4>3. ReadLine(Known(i - 1), line) = Known(i - 1)
        BY <3>3 DEF ReadLine, ReadPair, Known
      <4> QED
        BY <2>3, <3>3, <4>2, <4>3 DEF Known
    <3>4. CASE line.kind \notin {"header", "pair"}
      <4>1. \A s : i \notin SetBy(s)
        BY <2>4, <3>4
      <4>2. \A s : ValueAt(s, i) = ValueAt(s, i - 1)
        BY <2>1, <4>1, ValueStep
      <4>3. ReadLine(Known(i - 1), line) = Known(i - 1)
        BY <3>4 DEF ReadLine
      <4> QED
        BY <2>3, <3>4, <4>2, <4>3 DEF Known
    <3> QED
      BY <3>1, <3>2, <3>3, <3>4
  <2> QED
    BY <2>2, <2>5
<1> QED
  BY <1>3, <1>4

(* A number that a line sets is in its range, and "nan" is no number.      *)
LEMMA NumberRange ==
  ASSUME NEW s \in Numbers, NEW line, line.value.number \in Int,
         Meaning(s[1], line).ok, Meaning(s[1], line).setting = s
  PROVE  IF line.value.word = "nan" THEN Meaning(s[1], line).value = NaN
         ELSE Meaning(s[1], line).value \in 0..(IF s[1] = "vibration" THEN 100 ELSE 95)
<1>1. CASE s = <<"vibration", "level">>
  <2>1. Meaning(s[1], line) = Accepted(s, Level(line.value))
    BY <1>1 DEF Meaning, VibrationLine, Rejected
  <2>2. IF line.value.word = "nan" THEN Level(line.value) = NaN
        ELSE Level(line.value) \in 0..100
    <3>1. Clamp(line.value.number, 0, 10000) \div 100 \in 0..100
      <4>0. PICK n \in Int : n = line.value.number
        OBVIOUS
      <4>1. PICK c \in Int : c = Clamp(line.value.number, 0, 10000) /\ 0 <= c /\ c <= 10000
        BY <4>0 DEF Clamp
      <4>2. c \div 100 \in Int /\ 0 <= c \div 100 /\ c \div 100 <= 100
        BY <4>1
      <4> QED
        BY <4>1, <4>2
    <3> QED
      BY <3>1 DEF Level
  <2> QED
    BY <1>1, <2>1, <2>2 DEF Accepted
<1>2. CASE s[1] \in {"sticks", "triggers"} /\ s[2] \in Fractions[s[1]] /\ s = <<s[1], s[2]>>
  <2>1. Meaning(s[1], line) = AxisLine(s[1], line.key, line.value)
    BY <1>2 DEF Meaning
  <2>2. /\ AxisLine(s[1], line.key, line.value).ok
        /\ AxisLine(s[1], line.key, line.value).setting = s
    BY <2>1
  <2>3. line.key = s[2]
    BY <1>2, <2>2 DEF AxisLine, Accepted, Rejected
  <2>4. AxisLine(s[1], line.key, line.value) = Accepted(<<s[1], line.key>>, Fraction(line.value))
    BY <1>2, <2>2, <2>3 DEF AxisLine, Rejected, Accepted, Flags, Fractions
  <2>5. IF line.value.word = "nan" THEN Fraction(line.value) = NaN
        ELSE Fraction(line.value) \in 0..95
    <3>1. (IF line.value.percent THEN line.value.number \div 100 ELSE line.value.number) \in Int
      OBVIOUS
    <3>2. PICK n \in Int :
             n = IF line.value.percent THEN line.value.number \div 100 ELSE line.value.number
      BY <3>1
    <3>3. Fraction(line.value) = IF line.value.word = "nan" THEN NaN ELSE Clamp(n, 0, 95)
      BY <3>2 DEF Fraction
    <3>4. Clamp(n, 0, 95) \in 0..95
      BY DEF Clamp
    <3> QED
      BY <3>3, <3>4
  <2> QED
    BY <1>2, <2>1, <2>4, <2>5 DEF Accepted
<1>3. s = <<"vibration", "level">>
      \/ (s[1] \in {"sticks", "triggers"} /\ s[2] \in Fractions[s[1]] /\ s = <<s[1], s[2]>>)
  BY DEF Numbers, Fractions
<1> QED
  BY <1>1, <1>2, <1>3

(* load: for any number of lines of any content, each setting has the      *)
(* value of the last accepted line about it in its own section, or its     *)
(* default; a number is within its limits, unless that line says "nan",    *)
(* which load accepts and which leaves no number.                          *)
THEOREM FileReads == Spec => []FileMeaning
<1>1. Computed => FileMeaning
  <2> SUFFICES ASSUME Computed, Returned("load") PROVE LastLineCounts /\ InRange
    BY DEF FileMeaning, LastLineCounts, InRange
  <2>1. input \in Files /\ Result = Load(input.lines)
    BY OwnInput DEF Computed, Returned, Result
  <2>2. PICK n \in Nat : input.lines \in [1..n -> Lines]
    BY <2>1, ConversionConstants DEF Files, BoundedSeq, SeqOf
  <2>3. DOMAIN input.lines = 1..n
    BY <2>2
  <2>4. PICK state : Reading(input.lines, n, state)
    BY <2>3, LoadReads
  <2>5. state[n] = Known(n)
    BY <2>3, <2>4, LineByLine
  <2>6. Result = [s \in Settings |-> ValueAt(s, n)]
    BY <2>1, <2>4, <2>5 DEF Reading, Known
  <2>7. \A s : SetUpTo(s, n) = SetBy(s)
    BY <2>3 DEF SetUpTo, SetBy
  <2>8. \A s \in Settings :
           Result[s] = IF SetBy(s) = {} THEN Defaults[s]
                       ELSE Meaning(s[1], input.lines[Max(SetBy(s))]).value
    BY <2>6, <2>7 DEF ValueAt
  <2>9. LastLineCounts
    BY <2>8 DEF LastLineCounts
  <2>10. ASSUME NEW s \in Numbers
         PROVE  IF SaysNaN(s) THEN Result[s] = NaN
                ELSE Result[s] \in 0..(IF s[1] = "vibration" THEN 100 ELSE 95)
    <3>1. s \in Settings
      BY DEF Numbers, Settings, Fractions, Flags
    <3>2. CASE SetBy(s) = {}
      <4>1. Result[s] = Defaults[s]
        BY <2>8, <3>1, <3>2
      <4>2. Defaults[s] = IF s[1] = "vibration" THEN 100 ELSE 0
        <5>1. Defaults[s] = CASE s[1] = "buttons" -> {s[2]}
                              [] s[1] = "vibration" -> 100
                              [] OTHER -> IF s[2] \in Fractions[s[1]] THEN 0 ELSE FALSE
          BY <3>1 DEF Defaults
        <5>2. CASE s = <<"vibration", "level">>
          BY <5>1, <5>2
        <5>3. CASE s[1] \in {"sticks", "triggers"} /\ s[2] \in Fractions[s[1]]
          BY <5>1, <5>3
        <5> QED
          BY <5>2, <5>3 DEF Numbers, Fractions
      <4>3. ~SaysNaN(s)
        BY <3>2 DEF SaysNaN
      <4> QED
        BY <4>1, <4>2, <4>3
    <3>3. CASE SetBy(s) # {}
      <4> DEFINE i == Max(SetBy(s))
      <4>1. i \in SetBy(s)
        <5>1. SetBy(s) \subseteq 1..n
          BY <2>3 DEF SetBy
        <5> QED
          BY <3>3, <5>1, LargestExists
      <4> HIDE DEF i
      <4>2. /\ i \in 1..n /\ input.lines[i].kind = "pair"
            /\ Meaning(s[1], input.lines[i]).ok /\ Meaning(s[1], input.lines[i]).setting = s
        BY <2>3, <4>1 DEF SetBy
      <4>3. input.lines[i].value.number \in Int
        <5>1. input.lines[i] \in Lines
          BY <2>2, <4>2
        <5> QED
          BY <4>2, <5>1, ConversionConstants
      <4>4. Result[s] = Meaning(s[1], input.lines[i]).value
        BY <2>8, <3>1, <3>3 DEF i
      <4>5. SaysNaN(s) <=> input.lines[i].value.word = "nan"
        BY <3>3 DEF SaysNaN, i
      <4> QED
        BY <4>2, <4>3, <4>4, <4>5, NumberRange
    <3> QED
      BY <3>2, <3>3
  <2>11. InRange
    BY <2>10 DEF InRange
  <2> QED
    BY <2>9, <2>11
<1> QED
  BY <1>1, Invariant, PTL

-----------------------------------------------------------------------------
(* Powers of two, as numbers.                                              *)
LEMMA PowersOfTwo == 2^6 = 64 /\ 2^7 = 128 /\ 2^8 = 256 /\ 2^16 = 65536
  OBVIOUS

(* calibrateCrystal: the bytes that it takes of each word.                 *)
LEMMA TrimBytes ==
  /\ EfuseRead(XtalTrim2, 4)[4] = XtalTrim2 + 1
  /\ EfuseRead(XtalTrim2, 4)[3] = XtalTrim2
  /\ EfuseRead(XtalTrim1, 4)[3] = XtalTrim1
  BY DEF EfuseRead, XtalTrim1, XtalTrim2

(* The trim that three bytes give, and what is expected of it.             *)
Trim(first, second, offset) == (TrimBase(second, first) + TrimOffset(offset)) % 65536

Chosen(first, second) == IF Blank(second) THEN first ELSE second
Expected(value, first, second, offset) ==
    /\ \/ Blank(Chosen(first, second))
       \/ offset = 255 /\ value = Chosen(first, second) % 128
       \/ offset < 128 /\ value - offset = Chosen(first, second) % 128
       \/ /\ offset \in 128..254
          /\ (value + offset - 128) % 65536 = Chosen(first, second) % 128
    /\ TrimOffset(offset) = 0 => value \in 1..127 \/ 128 \in {first, second}

(* The three bytes give what is expected of them, in 16 bits.              *)
LEMMA TrimExpected ==
  ASSUME NEW first \in 0..255, NEW second \in 0..255, NEW offset \in 0..255
  PROVE  Expected(Trim(first, second, offset), first, second, offset)
<1> DEFINE base == TrimBase(second, first)
<1>1. base \in 0..127 /\ (Blank(Chosen(first, second)) \/ base = Chosen(first, second) % 128)
  BY DEF TrimBase, Blank, Chosen
<1>2. base = 0 => 128 \in {first, second}
  BY DEF TrimBase, Blank
<1> HIDE DEF base
<1>3. TrimOffset(offset) = IF offset = 255 THEN 0
                           ELSE IF offset >= 128 THEN -(offset - 128) ELSE offset
  BY DEF TrimOffset
<1>4. \/ offset = 255 /\ (base + TrimOffset(offset)) % 65536 = base
      \/ offset < 128 /\ ((base + TrimOffset(offset)) % 65536) - offset = base
      \/ offset \in 128..254
            /\ (((base + TrimOffset(offset)) % 65536) + offset - 128) % 65536 = base
  BY <1>1, <1>3
<1>5. TrimOffset(offset) = 0 => (base + TrimOffset(offset)) % 65536 = base
  BY <1>1
<1> QED
  BY <1>1, <1>2, <1>4, <1>5 DEF base, Expected, Trim

(* calibrateCrystal: the register's value for an EFUSE.                    *)
LEMMA TrimOfBytes ==
  ASSUME NEW efuse \in [{XtalTrim1, XtalTrim2, XtalTrim2 + 1} -> 0..255]
  PROVE  XoCtrl5(efuse) \div 256
            = Trim(efuse[XtalTrim1], efuse[XtalTrim2 + 1], efuse[XtalTrim2])
<1> DEFINE sum == TrimBase(efuse[XtalTrim2 + 1], efuse[XtalTrim1]) + TrimOffset(efuse[XtalTrim2])
<1>1. TrimBase(efuse[XtalTrim2 + 1], efuse[XtalTrim1]) \in Int
  BY DEF TrimBase, Blank
<1>2. TrimOffset(efuse[XtalTrim2]) \in Int
  BY DEF TrimOffset
<1>3. XoCtrl5(efuse) = (sum % 65536) * 256
  BY TrimBytes, PowersOfTwo DEF XoCtrl5, TrimValue, UInt16
<1>4. \A n \in Int : ((n % 65536) * 256) \div 256 = n % 65536
  OBVIOUS
<1>5. sum \in Int
  BY <1>1, <1>2
<1> QED
  BY <1>3, <1>4, <1>5 DEF Trim

(* For all bytes of the EFUSE, the crystal gets the trim that they mean,   *)
(* and never none.                                                         *)
THEOREM CrystalTrim == Spec => []CrystalMeant
<1>1. Computed => CrystalMeant
  <2> SUFFICES ASSUME Computed, Returned("crystal") PROVE TrimMeant /\ CrystalTrimmed
    BY DEF CrystalMeant, TrimMeant, CrystalTrimmed
  <2>1. /\ input.efuse \in [{XtalTrim1, XtalTrim2, XtalTrim2 + 1} -> 0..255]
        /\ Result = XoCtrl5(input.efuse)
    BY OwnInput, ConversionConstants DEF Computed, Returned, Result, Trims
  <2>2. PICK first \in 0..255, second \in 0..255, offset \in 0..255 :
           /\ first = input.efuse[XtalTrim1] /\ second = input.efuse[XtalTrim2 + 1]
           /\ offset = input.efuse[XtalTrim2]
    BY <2>1
  <2>3. Result \div 256 = Trim(first, second, offset)
    BY <2>1, <2>2, TrimOfBytes
  <2>4. Expected(Result \div 256, first, second, offset)
    BY <2>3, TrimExpected
  <2>5. Chosen(first, second)
           = input.efuse[IF Blank(input.efuse[XtalTrim2 + 1]) THEN XtalTrim1 ELSE XtalTrim2 + 1]
    BY <2>2 DEF Chosen
  <2>6. TrimMeant
    BY <2>2, <2>4, <2>5, PowersOfTwo DEF TrimMeant, Expected
  <2>7. CrystalTrimmed
    BY <2>2, <2>4, PowersOfTwo DEF CrystalTrimmed, Expected
  <2> QED
    BY <2>6, <2>7
<1> QED
  BY <1>1, Invariant, PTL

-----------------------------------------------------------------------------
(* getChannelPower: the two bytes of every channel are in its own table.   *)
LEMMA BytesInTable ==
  ASSUME NEW channel \in Channels, NEW i \in DOMAIN PowerBytes(channel)
  PROVE  PowerBytes(channel)[i] - TableIndex(channel)
            \in 0..(IF Is24Ghz(channel) THEN 5 ELSE GroupSize5G - 1)
  BY DEF Channels, PowerBytes, EfuseRead, TableIndex, Is24Ghz, GroupSize5G, TargetIndex,
     Subgroup, Group, Power2G, Power5G, Japan, Unii1, Unii2, Unii2E1, Unii2E2, Unii3,
     Low, Mid, High, Outside

(* getChannelPower: eight bits suffice for a power within the limits.      *)
LEMMA PowerFits ==
  ASSUME NEW target \in MinPower..MaxPower, NEW offset \in 0..255
  PROVE  LET size == offset % 64
             moved == IF ~Bit(offset, 7) THEN target
                      ELSE IF Bit(offset, 6) THEN target + size ELSE target - size
         IN Power(target, offset) = Clamp(moved, MinPower, MaxPower)
<1>1. offset % 64 \in 0..63
  OBVIOUS
<1> QED
  BY <1>1 DEF Power, Clamp, Int8, MinPower, MaxPower

(* For all bytes of the EFUSE, a channel's power comes from its own table  *)
(* and is computed without overflow.                                       *)
THEOREM ChannelPower == Spec => []PowerMeant
<1>1. Computed => PowerMeant
  <2> SUFFICES ASSUME Computed, Returned("channel") PROVE OwnTable /\ PowerExact
    BY DEF PowerMeant, OwnTable, PowerExact
  <2>1. /\ input.channel \in Channels /\ input.target \in 0..255 /\ input.offset \in 0..255
        /\ Result = ChannelConfig(input.channel, input.target, input.offset)
    BY OwnInput, ConversionConstants DEF Computed, Returned, Result, Powers
  <2>2. /\ Result.bytes = PowerBytes(input.channel)
        /\ Result.txPower = Power(input.target, input.offset)
    BY <2>1 DEF ChannelConfig
  <2>3. OwnTable
    BY <2>1, <2>2, BytesInTable DEF OwnTable
  <2>4. PowerExact
    BY <2>1, <2>2, PowerFits DEF PowerExact
  <2> QED
    BY <2>3, <2>4
<1> QED
  BY <1>1, Invariant, PTL

-----------------------------------------------------------------------------
(* Division rounds down.                                                   *)
LEMMA Division ==
  ASSUME NEW a \in Int, NEW b \in Nat \ {0}
  PROVE  a \div b \in Int /\ b * (a \div b) <= a /\ a < b * (a \div b) + b
  OBVIOUS

(* A product with a positive factor keeps order.                           *)
LEMMA Products ==
  ASSUME NEW b \in Nat \ {0}, NEW k \in Int, NEW l \in Int
  PROVE  /\ k <= l <=> b * k <= b * l
         /\ k < l <=> b * k < b * l
  OBVIOUS

(* applyTrigger, without division: inside the dead zone the result is 0,   *)
(* past it the largest that is not more than the stretched deflection.     *)
Pulled(value) == Least(value, FullTrigger)
Scale(d) == FullTrigger * (10 - d)
Excess(value, d) == 10 * Pulled(value) - d * FullTrigger

(* What the code's divisions make of a pull, in those terms.               *)
LEMMA TriggerValue ==
  ASSUME NEW value \in Nat, NEW d \in Deadzones
  PROVE  /\ Scale(d) \in Nat \ {0} /\ Excess(value, d) \in Int /\ Trigger(value, d) \in Int
         /\ Excess(value, d) <= Scale(d)
         /\ value >= FullTrigger => Excess(value, d) = Scale(d)
         /\ value = 0 => Excess(value, d) <= 0
         /\ Excess(value, d) < 0 => Trigger(value, d) = 0
         /\ Excess(value, d) >= 0 =>
               /\ Scale(d) * Trigger(value, d) <= FullByte * Excess(value, d)
               /\ FullByte * Excess(value, d) < Scale(d) * Trigger(value, d) + Scale(d)
<1> USE FullValues DEF Deadzones
<1>1. d \in Nat /\ d <= 9 /\ 10 - d \in Nat \ {0}
  OBVIOUS
<1>2. Scale(d) \in Nat \ {0}
  BY <1>1 DEF Scale
<1>3. Pulled(value) \in Nat /\ Pulled(value) <= FullTrigger
      /\ (value >= FullTrigger => Pulled(value) = FullTrigger)
      /\ (value = 0 => Pulled(value) = 0)
  BY DEF Pulled, Least
<1>4. d * FullTrigger \in Nat /\ Scale(d) = 10 * FullTrigger - d * FullTrigger
  BY <1>1 DEF Scale
<1>5. /\ Excess(value, d) \in Int /\ Excess(value, d) <= Scale(d)
      /\ value >= FullTrigger => Excess(value, d) = Scale(d)
      /\ value = 0 => Excess(value, d) <= 0
  BY <1>3, <1>4 DEF Excess
<1>6. Trigger(value, d) = IF Excess(value, d) < 0 THEN 0
                          ELSE (Excess(value, d) * FullByte) \div Scale(d)
  BY <1>3, <1>4 DEF Trigger, Excess, Pulled, Scale
<1>7. Excess(value, d) * FullByte \in Int
      /\ Excess(value, d) * FullByte = FullByte * Excess(value, d)
  BY <1>5
<1>8. CASE Excess(value, d) < 0
  BY <1>2, <1>5, <1>6, <1>8
<1>9. CASE Excess(value, d) >= 0
  <2> DEFINE n == Excess(value, d) * FullByte
  <2>1. n \in Int /\ Trigger(value, d) = n \div Scale(d)
    BY <1>5, <1>6, <1>7, <1>9
  <2> HIDE DEF n
  <2>2. /\ Trigger(value, d) \in Int /\ Scale(d) * Trigger(value, d) <= n
        /\ n < Scale(d) * Trigger(value, d) + Scale(d)
    BY <1>2, <2>1, Division
  <2>3. n = FullByte * Excess(value, d)
    BY <1>7 DEF n
  <2> QED
    BY <1>2, <1>5, <1>9, <2>2, <2>3
<1> QED
  BY <1>5, <1>8, <1>9

(* For every size of the range and of the byte, every pull and every dead  *)
(* zone: a trigger reaches both ends, never goes back and never jumps.     *)
THEOREM TriggerForm == Spec => []TriggerShape
<1>1. ASSUME NEW value \in Nat, NEW d \in Deadzones
      PROVE  /\ Trigger(value, d) \in 0..FullByte
             /\ value >= FullTrigger => Trigger(value, d) = FullByte
             /\ value = 0 => Trigger(value, d) = 0
  <2> DEFINE s == Scale(d) e == Excess(value, d) r == Trigger(value, d)
  <2>1. /\ s \in Nat \ {0} /\ e \in Int /\ r \in Int /\ e <= s
        /\ value >= FullTrigger => e = s
        /\ value = 0 => e <= 0
        /\ e < 0 => r = 0
        /\ e >= 0 => s * r <= FullByte * e /\ FullByte * e < s * r + s
    BY TriggerValue
  <2> HIDE DEF s, e, r
  <2>2. FullByte \in Nat \ {0} /\ FullByte * s \in Int /\ s * FullByte = FullByte * s
    BY <2>1, FullValues
  <2>3. ASSUME e >= 0 PROVE r >= 0 /\ r <= FullByte
    <3>1. FullByte * e >= 0 /\ FullByte * e <= s * FullByte
      BY <2>1, <2>2, <2>3, Products
    <3>2. s * (r + 1) = s * r + s /\ s * 0 = 0
      BY <2>1
    <3>3. s * 0 < s * (r + 1) /\ s * r <= s * FullByte
      BY <2>1, <2>2, <2>3, <3>1, <3>2
    <3>4. 0 < r + 1 /\ r <= FullByte
      BY <2>1, <2>2, <3>3, Products
    <3> QED
      BY <2>1, <3>4
  <2>4. ASSUME e = s PROVE r = FullByte
    <3>1. s * FullByte < s * (r + 1)
      BY <2>1, <2>2, <2>4
    <3>2. FullByte < r + 1
      BY <2>1, <2>2, <3>1, Products
    <3> QED
      BY <2>1, <2>2, <2>3, <2>4, <3>2
  <2>5. ASSUME e = 0 PROVE r = 0
    <3>1. s * r <= s * 0
      BY <2>1, <2>2, <2>5
    <3> QED
      BY <2>1, <2>3, <2>5, <3>1, Products
  <2> QED
    BY <2>1, <2>2, <2>3, <2>4, <2>5 DEF r
<1>2. ASSUME NEW value \in Nat, NEW d \in Deadzones
      PROVE  /\ Trigger(value, d) <= Trigger(value + 1, d)
             /\ (Trigger(value + 1, d) - Trigger(value, d) - 1) * FullTrigger * (10 - d)
                   <= 10 * FullByte
  <2> DEFINE s == Scale(d)
             e == Excess(value, d)  r == Trigger(value, d)
             f == Excess(value + 1, d)  t == Trigger(value + 1, d)
  <2>1. /\ s \in Nat \ {0} /\ e \in Int /\ r \in Int
        /\ e < 0 => r = 0
        /\ e >= 0 => s * r <= FullByte * e /\ FullByte * e < s * r + s
    BY TriggerValue
  <2>2. /\ f \in Int /\ t \in Int
        /\ f < 0 => t = 0
        /\ f >= 0 => s * t <= FullByte * f /\ FullByte * f < s * t + s
    BY TriggerValue
  <2>3. r >= 0 /\ t >= 0
    BY <1>1, FullValues
  <2>4. e <= f /\ f <= e + 10
    <3>1. /\ Pulled(value) \in Int /\ Pulled(value + 1) \in Int
          /\ Pulled(value) <= Pulled(value + 1) /\ Pulled(value + 1) <= Pulled(value) + 1
      BY FullValues DEF Pulled, Least
    <3>2. d * FullTrigger \in Int
      BY FullValues DEF Deadzones
    <3> QED
      BY <3>1, <3>2 DEF Excess
  <2>5. \A n \in Int : n * FullTrigger * (10 - d) = s * n
    BY FullValues DEF Scale, Deadzones
  <2> HIDE DEF s, e, r, f, t
  <2>6. FullByte \in Nat \ {0} /\ FullByte * e \in Int /\ FullByte * f \in Int
        /\ FullByte * e <= FullByte * f /\ FullByte * f <= FullByte * e + 10 * FullByte
    <3>1. FullByte * (e + 10) = FullByte * e + 10 * FullByte
      BY <2>1, FullValues
    <3> QED
      BY <2>1, <2>2, <2>4, <3>1, FullValues, Products
  <2>7. /\ s * r \in Int /\ s * t \in Int
        /\ s * (t + 1) = s * t + s /\ s * (t - r - 1) = s * t - s * r - s
    BY <2>1, <2>2
  <2>8. r <= t
    <3>1. CASE e < 0
      BY <2>1, <2>3, <3>1
    <3>2. CASE e >= 0
      <4>1. s * r < s * (t + 1)
        BY <2>1, <2>2, <2>4, <2>6, <2>7, <3>2
      <4> QED
        BY <2>1, <2>2, <4>1, Products
    <3> QED
      BY <2>1, <3>1, <3>2
  <2>9. s * (t - r - 1) <= 10 * FullByte
    <3>1. CASE f < 0
      <4>1. r = 0 /\ t = 0 /\ s * r = 0 /\ s * t = 0
        BY <2>1, <2>2, <2>4, <3>1
      <4> QED
        BY <2>1, <2>6, <2>7, <4>1
    <3>2. CASE f >= 0 /\ e < 0
      <4>1. r = 0 /\ s * r = 0
        BY <2>1, <3>2
      <4>2. FullByte * f <= FullByte * 10
        <5>1. f <= 10
          BY <2>1, <2>2, <2>4, <3>2
        <5>2. 10 * FullByte = FullByte * 10
          BY FullValues
        <5> QED
          BY <2>2, <5>1, <5>2, FullValues, Products
      <4> QED
        BY <2>1, <2>2, <2>6, <2>7, <3>2, <4>1, <4>2
    <3>3. CASE f >= 0 /\ e >= 0
      BY <2>1, <2>2, <2>6, <2>7, <3>3
    <3> QED
      BY <2>1, <2>2, <3>1, <3>2, <3>3
  <2>10. (t - r - 1) * FullTrigger * (10 - d) <= 10 * FullByte
    <3>1. t - r - 1 \in Int
      BY <2>1, <2>2
    <3> QED
      BY <2>5, <2>9, <3>1
  <2> QED
    BY <2>8, <2>10 DEF r, t
<1>3. Computed => TriggerShape
  <2> SUFFICES ASSUME Computed, Returned("trigger") PROVE TriggerRange /\ TriggerSmooth
    BY DEF TriggerShape, TriggerRange, TriggerSmooth
  <2>1. /\ input.value \in Nat /\ input.deadzone \in Deadzones
        /\ Result = Trigger(input.value, input.deadzone)
    BY OwnInput, FullValues DEF Computed, Returned, Result, Triggers
  <2>2. TriggerRange
    BY <2>1, <1>1, <1>2 DEF TriggerRange
  <2>3. TriggerSmooth
    BY <2>1, <1>2 DEF TriggerSmooth
  <2> QED
    BY <2>2, <2>3
<1> QED
  BY <1>3, Invariant, PTL

-----------------------------------------------------------------------------
(* Squares keep the order of natural numbers.                              *)
LEMMA Squares ==
  ASSUME NEW k \in Nat, NEW l \in Nat
  PROVE  /\ Square(k) \in Nat
         /\ k <= l <=> Square(k) <= Square(l)
         /\ k < l <=> Square(k) < Square(l)
<1>1. k * k \in Nat /\ l * l \in Nat /\ k * l \in Nat
  OBVIOUS
<1>2. k < l => k * k < l * l
  OBVIOUS
<1>3. l < k => l * l < k * k
  OBVIOUS
<1>4. k = l => k * k = l * l
  OBVIOUS
<1> QED
  BY <1>1, <1>2, <1>3, <1>4 DEF Square

(* Two ratios, one at most and one at least another, of which one differs. *)
AtMost(p, a, e, m) == Square(p) * m <= Square(a * e)
AtLeast(p, a, e, m) == Square(a * e) <= Square(p) * m

(* If p is at most a * e / Sqrt(m) and q at least b * e / Sqrt(m), one of them *)
(* strictly, then p is a smaller share of a than q is of b.                *)
LEMMA Ratios ==
  ASSUME NEW a \in Nat \ {0}, NEW b \in Nat \ {0}, NEW m \in Nat \ {0}, NEW e \in Nat,
         NEW p \in Nat, NEW q \in Nat,
         AtMost(p, a, e, m), AtLeast(q, b, e, m), ~AtLeast(p, a, e, m) \/ ~AtMost(q, b, e, m)
  PROVE  p * b < q * a
<1> DEFINE A == a * a  B == b * b  E == e * e  U == p * p * m  V == q * q * m
<1>1. A \in Nat \ {0} /\ B \in Nat \ {0} /\ E \in Nat /\ U \in Nat /\ V \in Nat
  OBVIOUS
<1>2. U <= A * E /\ B * E <= V /\ (U < A * E \/ B * E < V)
  <2>1. Square(a * e) = A * E /\ Square(b * e) = B * E
    BY DEF Square
  <2>2. Square(p) * m = U /\ Square(q) * m = V
    BY DEF Square
  <2>3. A * E \in Int /\ B * E \in Int /\ U \in Int /\ V \in Int
    BY <1>1
  <2> HIDE DEF A, B, E, U, V
  <2> QED
    BY <2>1, <2>2, <2>3 DEF AtMost, AtLeast
<1>3. B * U = m * Square(p * b) /\ A * V = m * Square(q * a)
  BY DEF Square
<1>4. Square(p * b) \in Int /\ Square(q * a) \in Int /\ p * b \in Nat /\ q * a \in Nat
  BY DEF Square
<1> HIDE DEF A, B, E, U, V
<1>5. A * E \in Int /\ B * E \in Int /\ B * (A * E) = A * (B * E)
  BY <1>1
<1>6. B * U < A * V
  <2>1. B * U <= B * (A * E) /\ A * (B * E) <= A * V
    BY <1>1, <1>2, <1>5, Products
  <2>2. B * U < B * (A * E) \/ A * (B * E) < A * V
    BY <1>1, <1>2, <1>5, Products
  <2>3. B * U \in Int /\ A * V \in Int /\ B * (A * E) \in Int
    BY <1>1, <1>5
  <2> QED
    BY <1>5, <2>1, <2>2, <2>3
<1>7. Square(p * b) < Square(q * a)
  BY <1>3, <1>4, <1>6, Products
<1> QED
  BY <1>4, <1>7, Squares

(* Within, in terms of natural numbers.                                    *)
LEMMA WithinLess ==
  ASSUME NEW a \in Nat \ {0}, NEW b \in Nat \ {0}, NEW m2 \in Nat \ {0}, NEW d \in 0..9,
         NEW k \in Nat, NEW l \in Nat, Within(k, a, m2, d), ~Within(l, b, m2, d)
  PROVE  k * b < l * a
<1>1. CASE m2 > Square(FullStick)
  <2>1. Square(k) * m2 <= Square(a * FullStick) /\ ~(Square(l) * m2 <= Square(b * FullStick))
    BY <1>1 DEF Within
  <2>2. Square(l) * m2 \in Int /\ Square(b * FullStick) \in Int
    BY FullValues DEF Square
  <2>3. Square(b * FullStick) < Square(l) * m2
    BY <2>1, <2>2
  <2>4. AtMost(k, a, FullStick, m2) /\ AtLeast(l, b, FullStick, m2) /\ ~AtMost(l, b, FullStick, m2)
    BY <2>1, <2>2, <2>3 DEF AtMost, AtLeast
  <2>5. FullStick \in Nat
    BY FullValues
  <2> QED
    BY <2>4, <2>5, Ratios
<1>2. CASE ~(m2 > Square(FullStick))
  <2> DEFINE c == 10 - d  p == 10 * a - k * c  q == 10 * b - l * c
  <2>1. c \in Nat \ {0} /\ k * c \in Nat /\ l * c \in Nat /\ p \in Int /\ q \in Int
    OBVIOUS
  <2>2. p >= 0 /\ Square(a * d * FullStick) <= m2 * Square(p)
    BY <1>2, <2>1 DEF Within
  <2>3. q >= 0 => ~(Square(b * d * FullStick) <= m2 * Square(q))
    BY <1>2, <2>1 DEF Within
  <2>4. k * c * b = c * (k * b) /\ l * c * a = c * (l * a) /\ k * b \in Int /\ l * a \in Int
    BY <2>1
  <2>5. p * b = 10 * a * b - k * c * b /\ q * a = 10 * a * b - l * c * a
    BY <2>1
  <2> HIDE DEF c, p, q
  <2>6. q * a < p * b
    <3>1. CASE q < 0
      <4>1. q * a < 0 /\ p * b >= 0
        BY <2>1, <2>2, <3>1
      <4> QED
        BY <2>1, <4>1
    <3>2. CASE q >= 0
      <4> DEFINE e == d * FullStick
      <4>1. e \in Nat /\ a * d * FullStick = a * e /\ b * d * FullStick = b * e
        BY FullValues
      <4> HIDE DEF e
      <4>2. Square(a * e) <= Square(p) * m2
        BY <2>1, <2>2, <4>1 DEF Square
      <4>3. Square(q) * m2 < Square(b * e)
        BY <2>1, <2>3, <3>2, <4>1 DEF Square
      <4>4. p \in Nat /\ q \in Nat
        BY <2>1, <2>2, <3>2
      <4>5. AtLeast(p, a, e, m2) /\ AtMost(q, b, e, m2) /\ ~AtLeast(q, b, e, m2)
        <5>1. Square(q) * m2 \in Int /\ Square(b * e) \in Int
          BY <4>1, <4>4 DEF Square
        <5> QED
          BY <4>2, <4>3, <5>1 DEF AtLeast, AtMost
      <4> QED
        BY <4>1, <4>4, <4>5, Ratios
    <3> QED
      BY <2>1, <3>1, <3>2
  <2>7. c * (k * b) < c * (l * a)
    <3>1. k * c * b \in Int /\ l * c * a \in Int /\ 10 * a * b \in Int
      BY <2>1
    <3> QED
      BY <2>4, <2>5, <2>6, <3>1
  <2> QED
    BY <2>1, <2>4, <2>7, Products
<1> QED
  BY <1>1, <1>2

(* Deflected the dead zone no deflection is within the result for 0 and      *)
(* every one is within the result for itself, which are the ends between   *)
(* which Rescaled finds its value.                                         *)
Deflected(m2, d) == m2 \in Nat \ {0} /\ Square(d * FullStick) <= 100 * m2

(* Zero is among the values, and the deflection itself is never exceeded.  *)
LEMMA RescaledEnds ==
  ASSUME NEW a \in Nat, NEW m2, NEW d \in 1..9, Deflected(m2, d)
  PROVE  Within(0, a, m2, d) /\ ~Within(a + 1, a, m2, d)
<1> DEFINE F == FullStick
<1>1. F \in Nat \ {0} /\ m2 \in Nat \ {0}
  BY FullValues DEF Deflected
<1>2. Within(0, a, m2, d)
  <2>1. CASE m2 > Square(F)
    <3>1. Square(0) * m2 <= Square(a * F)
      BY <1>1 DEF Square
    <3> QED
      BY <2>1, <3>1 DEF Within
  <2>2. CASE ~(m2 > Square(F))
    <3>1. Square(a * d * F) <= m2 * Square(10 * a - 0 * (10 - d))
      <4> DEFINE A == a * a  D == Square(d * F)
      <4>1. A \in Nat /\ D \in Nat /\ 100 * m2 \in Int /\ D <= 100 * m2
        BY <1>1 DEF Square, Deflected
      <4>2. Square(a * d * F) = A * D /\ m2 * Square(10 * a - 0 * (10 - d)) = A * (100 * m2)
        BY <1>1 DEF Square
      <4> HIDE DEF A, D
      <4>3. A * D <= A * (100 * m2)
        BY <4>1, Products
      <4> QED
        BY <4>2, <4>3
    <3>2. 0 * (10 - d) <= 10 * a
      OBVIOUS
    <3> QED
      BY <2>2, <3>1, <3>2 DEF Within
  <2> QED
    BY <2>1, <2>2
<1>3. ~Within(a + 1, a, m2, d)
  <2>1. CASE m2 > Square(F)
    <3> DEFINE A == a * a  S == (a + 1) * (a + 1)
    <3>1. A \in Nat /\ S \in Nat \ {0} /\ A < S /\ Square(F) \in Nat /\ Square(F) < m2
      BY <1>1, <2>1 DEF Square
    <3>2. Square(a * F) = A * Square(F) /\ Square(a + 1) * m2 = S * m2
      BY <1>1 DEF Square
    <3> HIDE DEF A, S
    <3>3. A * Square(F) <= S * Square(F) /\ S * Square(F) < S * m2
      <4>1. Square(F) = 0 \/ Square(F) \in Nat \ {0}
        BY <3>1
      <4>2. Square(F) * A <= Square(F) * S
        BY <3>1, <4>1, Products
      <4>3. S * Square(F) < S * m2
        BY <1>1, <3>1, Products
      <4> QED
        BY <3>1, <4>2, <4>3
    <3>4. A * Square(F) \in Int /\ S * Square(F) \in Int /\ S * m2 \in Int
      BY <1>1, <3>1
    <3> QED
      BY <2>1, <3>2, <3>3, <3>4 DEF Within
  <2>2. CASE ~(m2 > Square(F))
    <3> DEFINE c == 10 - d  p == 10 * a - (a + 1) * c
    <3>1. p = a * d - c /\ p \in Int /\ c \in Nat \ {0} /\ a * d \in Nat
      OBVIOUS
    <3>2. SUFFICES ASSUME p >= 0 PROVE ~(Square(a * d * F) <= m2 * Square(p))
      BY <2>2, <3>1 DEF Within
    <3> HIDE DEF c, p
    <3>3. p \in Nat /\ p < a * d
      BY <3>1, <3>2
    <3>4. /\ Square(p) \in Nat /\ Square(a * d) \in Nat /\ Square(p) < Square(a * d)
      BY <3>1, <3>3, Squares
    <3>5. Square(F) \in Nat \ {0} /\ m2 <= Square(F)
      BY <1>1, <2>2 DEF Square
    <3>6. m2 * Square(p) <= Square(F) * Square(p)
      <4>1. Square(p) = 0 \/ Square(p) \in Nat \ {0}
        BY <3>4
      <4>2. Square(p) * m2 <= Square(p) * Square(F)
        BY <1>1, <3>5, <4>1, Products
      <4> QED
        BY <1>1, <3>4, <3>5, <4>2
    <3>7. Square(F) * Square(p) < Square(F) * Square(a * d)
      BY <3>4, <3>5, Products
    <3>8. Square(a * d * F) = Square(F) * Square(a * d)
      BY <1>1 DEF Square
    <3>9. m2 * Square(p) \in Int /\ Square(F) * Square(p) \in Int /\ Square(F) * Square(a * d) \in Int
      BY <1>1, <3>4, <3>5
    <3> QED
      BY <3>6, <3>7, <3>8, <3>9
  <2> QED
    BY <2>1, <2>2
<1> QED
  BY <1>2, <1>3

(* Between the two there is the value that Rescaled stands for.            *)
LEMMA RescaledValue ==
  ASSUME NEW a \in Nat, NEW m2, NEW d \in 1..9, Deflected(m2, d)
  PROVE  /\ Rescaled(a, m2, d) \in 0..a
         /\ Within(Rescaled(a, m2, d), a, m2, d)
         /\ ~Within(Rescaled(a, m2, d) + 1, a, m2, d)
<1> DEFINE T == {k \in Nat : ~Within(k, a, m2, d)}
<1>1. a + 1 \in T /\ 0 \notin T
  BY RescaledEnds
<1>2. PICK n \in T : \A k \in T : n <= k
  BY <1>1, LeastExists
<1>3. n \in Nat /\ n # 0 /\ n <= a + 1
  BY <1>1, <1>2
<1>4. n - 1 \in 0..a /\ (n - 1) + 1 = n /\ n - 1 \notin T
  BY <1>2, <1>3
<1>5. \E k \in 0..a : Within(k, a, m2, d) /\ ~Within(k + 1, a, m2, d)
  BY <1>2, <1>4
<1> QED
  BY <1>5 DEF Rescaled

(* What is reported of an axis.                                            *)
LEMMA StickValue ==
  ASSUME NEW a \in Int, NEW b \in Int, NEW d \in Deadzones
  PROVE  LET m2 == Square(a) + Square(b)
             r == Rescaled(Abs(a), m2, d)
         IN /\ d = 0 => Stick(a, b, d) = a
            /\ d # 0 /\ ~Deflected(m2, d) => Stick(a, b, d) = 0
            /\ d # 0 /\ Deflected(m2, d) =>
                  /\ Stick(a, b, d) = IF a < 0 THEN -r ELSE r
                  /\ r \in 0..Abs(a)
                  /\ Within(r, Abs(a), m2, d) /\ ~Within(r + 1, Abs(a), m2, d)
<1> DEFINE m2 == Square(a) + Square(b)
           r == Rescaled(Abs(a), m2, d)
<1>1. m2 \in Nat /\ 100 * m2 \in Int /\ Square(d * FullStick) \in Nat /\ d \in 0..9
  BY FullValues DEF Square, Deadzones
<1>2. Stick(a, b, d) = IF d = 0 THEN a
                       ELSE IF 100 * m2 < Square(d * FullStick) THEN 0
                       ELSE IF a < 0 THEN -Rescaled(-a, m2, d) ELSE Rescaled(a, m2, d)
  BY DEF Stick
<1>3. d # 0 => Square(d * FullStick) \in Nat \ {0}
  <2>1. d # 0 => d * FullStick \in Nat \ {0}
    BY <1>1, FullValues
  <2> QED
    BY <2>1 DEF Square
<1>4. Abs(a) = IF a < 0 THEN -a ELSE a
  BY DEF Abs
<1> HIDE DEF m2
<1>5. d # 0 => (Deflected(m2, d) <=> ~(100 * m2 < Square(d * FullStick)))
  BY <1>1, <1>3 DEF Deflected
<1>6. d # 0 /\ Deflected(m2, d) => /\ r \in 0..Abs(a)
                                 /\ Within(r, Abs(a), m2, d) /\ ~Within(r + 1, Abs(a), m2, d)
  BY <1>1, <1>4, RescaledValue
<1> QED
  BY <1>2, <1>4, <1>5, <1>6 DEF m2

(* Both axes are shortened by the same factor, up to the unit cut off.     *)
LEMMA SameFactor ==
  ASSUME NEW a \in Nat, NEW b \in Nat, NEW m2 \in Nat \ {0}, NEW d \in 0..9,
         NEW k \in 0..a, NEW l \in 0..b,
         Within(k, a, m2, d), ~Within(k + 1, a, m2, d),
         Within(l, b, m2, d), ~Within(l + 1, b, m2, d)
  PROVE  k * b - l * a <= a + b /\ l * a - k * b <= a + b
<1>1. CASE a = 0 \/ b = 0
  <2>1. k * b = 0 /\ l * a = 0
    BY <1>1
  <2> QED
    BY <2>1
<1>2. CASE a # 0 /\ b # 0
  <2>1. a \in Nat \ {0} /\ b \in Nat \ {0} /\ k \in Nat /\ l \in Nat /\ k + 1 \in Nat /\ l + 1 \in Nat
    BY <1>2
  <2>2. k * b < (l + 1) * a /\ l * a < (k + 1) * b
    BY <2>1, WithinLess
  <2>3. (l + 1) * a = l * a + a /\ (k + 1) * b = k * b + b /\ k * b \in Nat /\ l * a \in Nat
    BY <2>1
  <2> QED
    BY <2>1, <2>2, <2>3
<1> QED
  BY <1>1, <1>2

(* The stick's position keeps its direction and gets no farther out.       *)
LEMMA Directions ==
  ASSUME NEW x \in Int, NEW y \in Int, NEW d \in Deadzones
  PROVE  LET u == Stick(x, y, d)
             v == Stick(y, x, d)
         IN /\ u \in Int /\ v \in Int
            /\ u * x >= 0 /\ v * y >= 0
            /\ Abs(u) <= Abs(x) /\ Abs(v) <= Abs(y)
            /\ Abs(u * y - v * x) <= Abs(x) + Abs(y)
<1> DEFINE u == Stick(x, y, d)
           v == Stick(y, x, d)
           m2 == Square(x) + Square(y)
           k == Rescaled(Abs(x), m2, d)
           l == Rescaled(Abs(y), m2, d)
           a == Abs(x)
           b == Abs(y)
<1>1. m2 = Square(y) + Square(x) /\ d \in 0..9
  BY DEF Square, Deadzones
<1>2. /\ a \in Nat /\ b \in Nat /\ (x = a \/ x = -a) /\ (y = b \/ y = -b)
      /\ (x < 0 => x = -a) /\ (x >= 0 => x = a)
      /\ (y < 0 => y = -b) /\ (y >= 0 => y = b)
  BY DEF Abs
<1>3. CASE d = 0
  <2>1. u = x /\ v = y
    BY <1>3, StickValue
  <2>2. u * y - v * x = 0 /\ u * x >= 0 /\ v * y >= 0
    BY <2>1
  <2> QED
    BY <1>2, <2>1, <2>2 DEF Abs
<1>4. CASE d # 0 /\ ~Deflected(m2, d)
  <2>1. u = 0 /\ v = 0
    BY <1>1, <1>4, StickValue
  <2>2. u * y - v * x = 0 /\ u * x >= 0 /\ v * y >= 0
    BY <2>1
  <2> QED
    BY <1>2, <2>1, <2>2 DEF Abs
<1>5. CASE d # 0 /\ Deflected(m2, d)
  <2>1. /\ u = IF x < 0 THEN -k ELSE k
        /\ k \in 0..a /\ Within(k, a, m2, d) /\ ~Within(k + 1, a, m2, d)
    BY <1>5, StickValue
  <2>2. /\ v = IF y < 0 THEN -l ELSE l
        /\ l \in 0..b /\ Within(l, b, m2, d) /\ ~Within(l + 1, b, m2, d)
    BY <1>1, <1>5, StickValue
  <2>3. m2 \in Nat \ {0}
    BY <1>5 DEF Deflected
  <2> HIDE DEF u, v, m2, k, l, a, b
  <2>4. k * b - l * a <= a + b /\ l * a - k * b <= a + b
    BY <1>1, <1>2, <2>1, <2>2, <2>3, SameFactor
  <2>5. k \in Nat /\ l \in Nat /\ k <= a /\ l <= b /\ k * b \in Nat /\ l * a \in Nat
        /\ k * a >= 0 /\ l * b >= 0
    BY <1>2, <2>1, <2>2
  <2>6. u * x = k * a /\ v * y = l * b
    BY <1>2, <2>1, <2>2, <2>5
  <2>7. u * y - v * x = k * b - l * a \/ u * y - v * x = l * a - k * b
    <3>1. CASE x < 0
      BY <1>2, <2>1, <2>2, <2>5, <3>1
    <3>2. CASE x >= 0
      BY <1>2, <2>1, <2>2, <2>5, <3>2
    <3> QED
      BY <3>1, <3>2
  <2>8. Abs(u * y - v * x) <= a + b
    <3>1. k * b - l * a \in Int /\ l * a - k * b \in Int /\ a + b \in Int
          /\ l * a - k * b = -(k * b - l * a)
      BY <1>2, <2>5
    <3>2. PICK w \in Int : w = u * y - v * x
      BY <2>7, <3>1
    <3>3. w <= a + b /\ -w <= a + b
      BY <2>4, <2>7, <3>1, <3>2
    <3>4. Abs(w) <= a + b
      BY <3>3 DEF Abs
    <3> QED
      BY <3>2, <3>4
  <2>9. Abs(u) <= a /\ Abs(v) <= b /\ u \in Int /\ v \in Int
    BY <1>2, <2>1, <2>2, <2>5 DEF Abs
  <2> QED
    BY <2>5, <2>6, <2>8, <2>9 DEF u, v, a, b
<1> QED
  BY <1>3, <1>4, <1>5

(* The ends of an axis, the negative one being a unit beyond the rim.      *)
LEMMA FullEnds ==
  ASSUME NEW d \in Deadzones
  PROVE  /\ Stick(FullStick, 0, d) = FullStick
         /\ d # 0 => Stick(-FullStick - 1, 0, d) = -FullStick
<1> DEFINE F == FullStick
<1>1. F \in Nat \ {0} /\ Square(F) \in Nat \ {0} /\ Square(0) = 0
      /\ Square(-F - 1) = Square(F + 1) /\ Square(F + 1) \in Nat \ {0} /\ Square(F) < Square(F + 1)
  BY FullValues DEF Square
<1>2. CASE d = 0
  <2>1. Stick(F, 0, d) = F
    BY <1>1, <1>2 DEF Stick
  <2> QED
    BY <1>2, <2>1
<1>3. CASE d # 0
  <2>0. d \in 1..9
    BY <1>3 DEF Deadzones
  <2>1. Square(F) + Square(0) = Square(F) /\ Square(-F - 1) + Square(0) = Square(F + 1)
    BY <1>1
  <2>2. Abs(F) = F /\ Abs(-F - 1) = F + 1 /\ -F - 1 < 0 /\ ~(F < 0) /\ F + 1 \in Nat \ {0}
    BY <1>1 DEF Abs
  <2>3. Square(d * F) <= 100 * Square(F) /\ Square(d * F) <= 100 * Square(F + 1)
    <3>1. Square(d * F) = d * d * Square(F) /\ d * d <= 100 /\ d * d \in Nat
      BY <1>1, <2>0 DEF Square
    <3>2. Square(F) * (d * d) <= Square(F) * 100
      BY <1>1, <3>1, Products
    <3> QED
      BY <1>1, <3>1, <3>2
  <2>4. Deflected(Square(F), d) /\ Deflected(Square(F + 1), d)
    BY <1>1, <2>3 DEF Deflected
  <2>5. Rescaled(F, Square(F), d) = F
    <3> DEFINE r == Rescaled(F, Square(F), d)
    <3>1. r \in 0..F /\ ~Within(r + 1, F, Square(F), d)
      BY <1>1, <2>0, <2>4, RescaledValue
    <3>2. Within(F, F, Square(F), d)
      <4>1. 10 * F - F * (10 - d) = d * F /\ F * (10 - d) <= 10 * F
        BY <1>1, <2>0
      <4>2. Square(F * d * F) = Square(F) * Square(d * F)
        BY <1>1, <2>0 DEF Square
      <4>3. Square(F) * Square(d * F) \in Int
        BY <1>1, <2>0 DEF Square
      <4> QED
        BY <1>1, <4>1, <4>2, <4>3 DEF Within
    <3> HIDE DEF r
    <3>3. F * F < (r + 1) * F
      <4>1. r + 1 \in Nat /\ d \in 0..9
        BY <1>1, <2>0, <3>1
      <4> QED
        BY <1>1, <3>1, <3>2, <4>1, WithinLess
    <3>4. F < r + 1
      BY <1>1, <3>1, <3>3, Products
    <3> QED
      BY <1>1, <3>1, <3>4 DEF r
  <2>6. Rescaled(F + 1, Square(F + 1), d) = F
    <3> DEFINE r == Rescaled(F + 1, Square(F + 1), d)
               m2 == Square(F + 1)
    <3>1. r \in 0..(F + 1) /\ Within(r, F + 1, m2, d) /\ ~Within(r + 1, F + 1, m2, d)
      BY <1>1, <2>0, <2>2, <2>4, RescaledValue
    <3>2. Square((F + 1) * F) = Square(F) * m2 /\ Square(F) * m2 \in Int
      BY <1>1 DEF Square
    <3>3. m2 * Square(F) < m2 * m2
      BY <1>1, Products
    <3> HIDE DEF r, m2
    <3>4. Within(F, F + 1, m2, d) /\ ~Within(F + 1, F + 1, m2, d)
      <4>1. m2 * m2 \in Int /\ m2 * Square(F) = Square(F) * m2 /\ m2 > Square(F) /\ Square(F + 1) = m2
        BY <1>1 DEF m2
      <4> QED
        BY <1>1, <3>2, <3>3, <4>1 DEF Within
    <3>5. F * (F + 1) < (r + 1) * (F + 1) /\ r * (F + 1) < (F + 1) * (F + 1)
      <4>1. r \in Nat /\ r + 1 \in Nat /\ F \in Nat /\ d \in 0..9 /\ m2 \in Nat \ {0}
        BY <1>1, <2>0, <3>1 DEF m2
      <4> QED
        BY <2>2, <3>1, <3>4, <4>1, WithinLess
    <3>6. F < r + 1 /\ r < F + 1
      BY <1>1, <2>2, <3>1, <3>5, Products
    <3> QED
      BY <1>1, <3>1, <3>6 DEF r, m2
  <2> QED
    BY <1>1, <1>3, <2>1, <2>2, <2>4, <2>5, <2>6, StickValue
<1> QED
  BY <1>2, <1>3

(* What is no farther out than a position of an axis, on its side, is one. *)
LEMMA Within16 ==
  ASSUME NEW x \in Axis, NEW u \in Int, u * x >= 0, Abs(u) <= Abs(x)
  PROVE  u \in Axis
<1>1. FullStick \in Nat /\ x \in Int /\ x >= -FullStick - 1 /\ x <= FullStick
  BY FullValues DEF Axis
<1>2. CASE x >= 0
  BY <1>1, <1>2 DEF Axis, Abs
<1>3. CASE x < 0
  <2>1. u <= 0
    BY <1>1, <1>3
  <2> QED
    BY <1>1, <1>3, <2>1 DEF Axis, Abs
<1> QED
  BY <1>1, <1>2, <1>3

(* applyStickDeadzone, applyInput: for every range of a stick, position,   *)
(* dead zone and inversion, a stick keeps its direction, is not moved      *)
(* outwards, stays in the range of an axis and reaches its ends.           *)
THEOREM StickDirection == Spec => [](KeepsDirection /\ FullDeflection)
<1>1. Computed => KeepsDirection /\ FullDeflection
  <2> SUFFICES ASSUME Computed, Returned("stick") PROVE KeepsDirection /\ FullDeflection
    BY DEF KeepsDirection, FullDeflection
  <2>1. /\ input \in Sticks
        /\ Result = Reported(input.x, input.y, input.deadzone, input.inverted)
    BY OwnInput DEF Computed, Returned, Result
  <2>2. PICK x \in Axis, y \in Axis, d \in Deadzones, inverted \in BOOLEAN :
           x = input.x /\ y = input.y /\ d = input.deadzone /\ inverted = input.inverted
    BY <2>1 DEF Sticks
  <2>3. x \in Int /\ y \in Int /\ Abs(x) \in Int /\ Abs(y) \in Int /\ FullStick \in Nat \ {0}
    BY FullValues DEF Axis, Abs
  <2> DEFINE u == Stick(x, y, d)
             v == Stick(y, x, d)
  <2>4. Result.x = u /\ Result.y = IF input.inverted THEN Inverted(v) ELSE v
    BY <2>1, <2>2 DEF Reported
  <2>5. /\ u \in Int /\ v \in Int /\ u * x >= 0 /\ v * y >= 0
        /\ Abs(u) <= Abs(x) /\ Abs(v) <= Abs(y)
        /\ Abs(u * y - v * x) <= Abs(x) + Abs(y)
    BY <2>3, Directions
  <2>6. KeepsDirection
    BY <2>2, <2>4, <2>5 DEF KeepsDirection
  <2>7. u \in Axis /\ v \in Axis
    BY <2>3, <2>5, Within16
  <2> HIDE DEF u, v
  <2>8. Result.x \in Axis /\ Result.y \in Axis
    BY <2>3, <2>4, <2>7 DEF Axis, Inverted
  <2>9. input.x = FullStick /\ input.y = 0 => Result.x = FullStick
    BY <2>2, <2>4, FullEnds DEF u
  <2>10. input.y = -FullStick - 1 /\ input.x = 0 /\ input.inverted => Result.y = FullStick
    <3> SUFFICES ASSUME y = -FullStick - 1, x = 0, input.inverted PROVE Inverted(v) = FullStick
      BY <2>2, <2>4
    <3>1. CASE d = 0
      <4>1. v = -FullStick - 1
        BY <2>3, <3>1, StickValue DEF v
      <4> QED
        BY <4>1 DEF Inverted
    <3>2. CASE d # 0
      <4>1. v = -FullStick
        BY <3>2, FullEnds DEF v
      <4> QED
        BY <2>3, <4>1 DEF Inverted
    <3> QED
      BY <3>1, <3>2
  <2> QED
    BY <2>6, <2>8, <2>9, <2>10 DEF FullDeflection
<1> QED
  BY <1>1, Invariant, PTL

-----------------------------------------------------------------------------
(* Ratios as above add up.                                                 *)
LEMMA RatiosAdd ==
  ASSUME NEW p \in Nat, NEW q \in Nat, NEW a \in Nat, NEW b \in Nat, NEW e \in Nat, NEW m \in Nat
  PROVE  /\ AtLeast(p, a, e, m) /\ AtLeast(q, b, e, m) => AtLeast(p + q, a + b, e, m)
         /\ ~AtMost(p, a, e, m) /\ ~AtMost(q, b, e, m) => ~AtMost(p + q, a + b, e, m)
<1> DEFINE u == a * e  v == b * e  U == Square(p) * m  V == Square(q) * m  w == p * q * m
<1>1. /\ u \in Nat /\ v \in Nat /\ u * v \in Nat /\ w \in Nat
      /\ Square(u) \in Nat /\ Square(v) \in Nat /\ U \in Nat /\ V \in Nat
  BY DEF Square
<1>2. (a + b) * e = u + v /\ Square(u + v) = Square(u) + Square(v) + 2 * (u * v)
  BY DEF Square
<1>3. Square(p + q) * m = U + V + 2 * w
  BY DEF Square
<1>4. Square(u * v) = Square(u) * Square(v) /\ Square(w) = U * V
  BY DEF Square
<1> HIDE DEF u, v, U, V, w
<1>5. Square(u) <= U /\ Square(v) <= V => u * v <= w
  <2> SUFFICES ASSUME Square(u) <= U, Square(v) <= V PROVE u * v <= w
    OBVIOUS
  <2>1. Square(u) * Square(v) <= U * V
    <3>1. Square(u) * Square(v) <= Square(u) * V
      BY <1>1, Products
    <3>2. V * Square(u) <= V * U
      BY <1>1, Products
    <3> QED
      BY <1>1, <3>1, <3>2
  <2> QED
    BY <1>1, <1>4, <2>1, Squares
<1>6. /\ AtLeast(p, a, e, m) <=> Square(u) <= U
      /\ AtLeast(q, b, e, m) <=> Square(v) <= V
      /\ AtMost(p, a, e, m) <=> U <= Square(u)
      /\ AtMost(q, b, e, m) <=> V <= Square(v)
  BY DEF AtLeast, AtMost, u, v, U, V
<1>7. /\ AtLeast(p + q, a + b, e, m) <=> Square(u) + Square(v) + 2 * (u * v) <= U + V + 2 * w
      /\ AtMost(p + q, a + b, e, m) <=> U + V + 2 * w <= Square(u) + Square(v) + 2 * (u * v)
  BY <1>2, <1>3 DEF AtLeast, AtMost
<1> QED
  BY <1>1, <1>5, <1>6, <1>7

(* If p is at most a * e / Sqrt(m) and q at least b * e / Sqrt(n), one of them *)
(* strictly, and n is to m at most as the square of b to that of a, then   *)
(* p is below q.                                                           *)
LEMMA Stretched ==
  ASSUME NEW a \in Nat \ {0}, NEW b \in Nat \ {0}, NEW m \in Nat \ {0}, NEW n \in Nat \ {0},
         NEW e \in Nat, NEW p \in Nat, NEW q \in Nat,
         Square(a) * n <= Square(b) * m,
         AtMost(p, a, e, m), AtLeast(q, b, e, n), ~AtLeast(p, a, e, m) \/ ~AtMost(q, b, e, n)
  PROVE  p < q
<1> DEFINE A == Square(a)  B == Square(b)  E == Square(e)  X == Square(p)  Y == Square(q)
<1>1. A \in Nat \ {0} /\ B \in Nat \ {0} /\ E \in Nat /\ X \in Nat /\ Y \in Nat
  BY DEF Square
<1>2. Square(a * e) = A * E /\ Square(b * e) = B * E
  BY DEF Square
<1> HIDE DEF A, B, E, X, Y
<1>3. /\ A * E \in Nat /\ B * E \in Nat /\ X * m \in Nat /\ Y * n \in Nat
      /\ A * n \in Nat \ {0} /\ B * m \in Nat \ {0}
  BY <1>1
<1>4. X * m <= A * E /\ B * E <= Y * n /\ (X * m < A * E \/ B * E < Y * n)
  BY <1>2, <1>3 DEF AtMost, AtLeast, X, Y
<1>5. /\ B * (X * m) <= B * (A * E) /\ (X * m < A * E => B * (X * m) < B * (A * E))
      /\ A * (B * E) <= A * (Y * n) /\ (B * E < Y * n => A * (B * E) < A * (Y * n))
  BY <1>1, <1>3, <1>4, Products
<1>6. B * (A * E) = A * (B * E) /\ B * (X * m) = X * (B * m) /\ A * (Y * n) = (A * n) * Y
      /\ X * (A * n) = (A * n) * X
  BY <1>1
<1>7. /\ B * (X * m) \in Int /\ B * (A * E) \in Int /\ A * (B * E) \in Int /\ A * (Y * n) \in Int
      /\ X * (A * n) \in Int /\ X * (B * m) \in Int
  BY <1>1, <1>3
<1>8. X * (B * m) < (A * n) * Y
  BY <1>4, <1>5, <1>6, <1>7
<1>9. X * (A * n) <= X * (B * m)
  <2>1. A * n <= B * m
    BY DEF A, B
  <2>2. CASE X = 0
    BY <1>3, <2>2
  <2>3. CASE X # 0
    BY <1>1, <1>3, <2>1, <2>3, Products
  <2> QED
    BY <2>2, <2>3
<1>10. (A * n) * X < (A * n) * Y
  BY <1>1, <1>3, <1>6, <1>7, <1>8, <1>9
<1>11. X < Y
  BY <1>1, <1>3, <1>10, Products
<1> QED
  BY <1>11, Squares DEF X, Y

(* A unit of movement along the axis stretches the distance no more than   *)
(* the deflection, one across it no more than that shortened by a unit.    *)
LEMMA Distances ==
  ASSUME NEW a \in Nat, NEW b \in Nat
  PROVE  LET m == Square(a) + Square(b)
         IN /\ Square(a) * (Square(a + 1) + Square(b)) <= Square(a + 1) * m
            /\ a # 0 => Square(a - 1) * (Square(a) + Square(b + 1)) <= Square(a) * m
<1> DEFINE A == Square(a)  B == Square(b)  S == Square(a + 1)  T == Square(b + 1)
<1>1. A \in Nat /\ B \in Nat /\ S \in Nat /\ T \in Nat /\ A <= S
  BY DEF Square
<1>2. A * (S + B) <= S * (A + B)
  <2> HIDE DEF A, B, S
  <2>1. A * (S + B) = A * S + A * B /\ S * (A + B) = A * S + S * B /\ A * S \in Int
        /\ A * B \in Int /\ S * B \in Int
    BY <1>1
  <2>2. A * B <= S * B
    <3>1. CASE B = 0
      BY <1>1, <3>1
    <3>2. CASE B # 0
      <4>1. B * A <= B * S
        BY <1>1, <3>2, Products
      <4> QED
        BY <1>1, <4>1
    <3> QED
      BY <3>1, <3>2
  <2> QED
    BY <2>1, <2>2
<1>3. ASSUME a # 0 PROVE Square(a - 1) * (A + T) <= A * (A + B)
  <2> DEFINE t == a - 1 - b  c == a * b
  <2>1. c \in Nat /\ t \in Int
    OBVIOUS
  <2>2. (a - 1) * (b + 1) = c + t
    OBVIOUS
  <2>3. Square(a - 1) * T = Square(c + t)
    <3>1. Square(a - 1) * T = Square((a - 1) * (b + 1))
      BY DEF Square
    <3> QED
      BY <2>2, <3>1
  <2>4. A * B = Square(c)
    BY DEF Square
  <2>5. A * A - Square(a - 1) * A = A * (2 * a - 1)
    BY DEF Square
  <2>6. Square(c + t) - Square(c) <= A * (2 * a - 1)
    <3>0. Square(c + t) - Square(c) = t * (2 * c + t) /\ A * (2 * a - 1) \in Nat
          /\ c \in Nat /\ c + t >= 0 /\ Square(c) \in Nat /\ Square(c + t) \in Nat
      <4>1. (a - 1) * (b + 1) \in Nat /\ 2 * a - 1 \in Nat
        BY <1>3
      <4> HIDE DEF c, t
      <4>2. c + t \in Nat
        BY <2>2, <4>1
      <4>3. Square(c + t) \in Nat /\ Square(c) \in Nat
        BY <2>1, <4>2 DEF Square
      <4>4. Square(c + t) - Square(c) = t * (2 * c + t)
        BY <2>1 DEF Square
      <4>5. A * (2 * a - 1) \in Nat
        BY <1>1, <4>1
      <4> QED
        BY <2>1, <4>2, <4>3, <4>4, <4>5
    <3>1. CASE t < 0
      <4> HIDE DEF c, t, A
      <4>1. Square(c + t) <= Square(c)
        BY <2>1, <3>0, <3>1, Squares
      <4> QED
        BY <3>0, <4>1
    <3>2. CASE t >= 0
      <4> DEFINE s == a - 1
      <4>1. s \in Nat /\ t \in Nat /\ b + t = s /\ a = s + 1
        BY <1>3, <3>2
      <4>2. t * (2 * c + t) <= a * (s * s)
        <5>1. t * (2 * c + t) = a * (2 * (b * t)) + t * t
          OBVIOUS
        <5>2. s * s = b * b + 2 * (b * t) + t * t
          BY <4>1
        <5>3. b * b \in Nat /\ t * t \in Nat /\ b * t \in Nat
          BY <4>1
        <5>4. a * (2 * (b * t)) + t * t <= a * (2 * (b * t) + t * t)
          <6> DEFINE x == t * t  y == 2 * (b * t)
          <6>1. x \in Nat /\ y \in Nat /\ a * y \in Nat /\ a * x \in Nat /\ a * (y + x) = a * y + a * x
            BY <5>3
          <6>2. x <= a * x
            <7>1. a * x = s * x + x /\ s * x \in Nat
              BY <4>1, <6>1
            <7> QED
              BY <6>1, <7>1
          <6> HIDE DEF x, y
          <6>3. a * y + x <= a * (y + x)
            BY <6>1, <6>2
          <6> QED
            BY <6>3 DEF x, y
        <5>5. a * (2 * (b * t) + t * t) <= a * (s * s)
          BY <1>3, <5>2, <5>3, Products
        <5>6. a * (2 * (b * t)) \in Int /\ a * (2 * (b * t) + t * t) \in Int /\ a * (s * s) \in Int
          BY <4>1, <5>3
        <5> QED
          BY <5>1, <5>3, <5>4, <5>5, <5>6
      <4>3. a * (s * s) <= A * (2 * a - 1)
        <5>1. s * s <= a * (2 * a - 1)
          <6>1. a * (2 * a - 1) = 2 * (s * s) + 3 * s + 1 /\ s * s \in Nat
            BY <4>1
          <6> QED
            BY <4>1, <6>1
        <5>2. a * (s * s) <= a * (a * (2 * a - 1))
          BY <1>3, <4>1, <5>1, Products
        <5>3. a * (a * (2 * a - 1)) = A * (2 * a - 1)
          BY DEF Square
        <5> QED
          BY <5>2, <5>3
      <4>4. t * (2 * c + t) \in Int /\ a * (s * s) \in Int
        BY <2>1, <4>1
      <4> QED
        BY <3>0, <4>2, <4>3, <4>4
    <3> QED
      BY <2>1, <3>1, <3>2
  <2> DEFINE D == Square(a - 1)
  <2>7. D \in Nat /\ Square(c + t) \in Int /\ Square(c) \in Int /\ A * (2 * a - 1) \in Int
    BY <1>3, <2>1 DEF Square
  <2> HIDE DEF c, t, D, A, T, B
  <2>8. D * (A + T) = D * A + D * T /\ A * (A + B) = A * A + A * B
        /\ D * A \in Int /\ D * T \in Int /\ A * A \in Int /\ A * B \in Int
    BY <1>1, <2>7
  <2>9. D * T = Square(c + t) /\ A * A - D * A = A * (2 * a - 1)
    BY <2>3, <2>5 DEF D
  <2>10. D * (A + T) <= A * (A + B)
    BY <2>4, <2>6, <2>7, <2>8, <2>9
  <2> QED
    BY <2>10 DEF D
<1> QED
  BY <1>2, <1>3

(* Inside the rim: the ratio of what the dead zone takes to the distance.  *)
Inner(k, a, m2, d) ==
    k * (10 - d) <= 10 * a /\ AtLeast(10 * a - k * (10 - d), a, d * FullStick, m2)

(* Which of the two ratios a value is within is a matter of the distance.  *)
LEMMA WithinCases ==
  ASSUME NEW a \in Nat, NEW k \in Nat, NEW m2 \in Nat \ {0}, NEW d \in 1..9
  PROVE  /\ m2 > Square(FullStick) => (Within(k, a, m2, d) <=> AtMost(k, a, FullStick, m2))
         /\ ~(m2 > Square(FullStick)) => (Within(k, a, m2, d) <=> Inner(k, a, m2, d))
<1> DEFINE X == 10 * a - k * (10 - d)
<1>1. a * d * FullStick = a * (d * FullStick)
  BY FullValues
<1>2. m2 * Square(X) = Square(X) * m2
  BY DEF Square
<1> HIDE DEF X
<1>3. Square(a * d * FullStick) <= m2 * Square(X) <=> AtLeast(X, a, d * FullStick, m2)
  BY <1>1, <1>2 DEF AtLeast
<1> QED
  BY <1>3 DEF Within, Inner, AtMost, X

(* But a value that is within one of them is within the other.             *)
LEMMA WithinBoth ==
  ASSUME NEW a \in Nat, NEW k \in Nat, NEW m2 \in Nat \ {0}, NEW d \in 1..9,
         Within(k, a, m2, d)
  PROVE  Inner(k, a, m2, d) /\ AtMost(k, a, FullStick, m2) /\ k <= a
<1> DEFINE F == FullStick  e == 10 - d  X == 10 * a - k * e  S == Square(F)
<1>1. F \in Nat \ {0} /\ S \in Nat \ {0} /\ e \in 1..9 /\ X \in Int /\ a * d \in Nat
      /\ k * e \in Nat /\ a * e \in Nat /\ k * a \in Nat
  BY FullValues DEF Square
<1>2. CASE m2 > S
  <2>1. AtMost(k, a, F, m2)
    BY <1>2, WithinCases
  <2>2. k <= a
    <3> SUFFICES ASSUME a < k PROVE FALSE
      BY <1>1
    <3>1. Square(k * F) <= Square(k) * m2
      <4>1. Square(k * F) = Square(k) * S /\ Square(k) \in Nat \ {0}
        BY <1>1 DEF Square
      <4>2. Square(k) * S <= Square(k) * m2
        BY <1>1, <1>2, <4>1, Products
      <4> QED
        BY <4>1, <4>2
    <3>2. a * F < k * F
      <4>1. F * a < F * k
        BY <1>1, Products
      <4> QED
        BY <1>1, <4>1
    <3>3. Square(a * F) < Square(k * F)
      <4>1. a * F \in Nat /\ k * F \in Nat
        BY <1>1
      <4> HIDE DEF F
      <4> QED
        BY <3>2, <4>1, Squares
    <3>4. Square(k) * m2 \in Int /\ Square(a * F) \in Int /\ Square(k * F) \in Int
      BY <1>1 DEF Square
    <3> QED
      BY <2>1, <3>1, <3>3, <3>4 DEF AtMost
  <2>3. a * d <= X
    <3>1. e * k <= e * a
      BY <1>1, <2>2, Products
    <3>2. X = 10 * a - e * k /\ a * d = 10 * a - e * a
      BY <1>1
    <3> QED
      BY <1>1, <3>1, <3>2
  <2>4. AtLeast(X, a, d * F, m2)
    <3> DEFINE c == a * d
    <3>1. Square(a * (d * F)) = Square(c) * S
      BY <1>1 DEF Square
    <3>2. c \in Nat /\ X \in Nat /\ c <= X
      BY <1>1, <2>3
    <3> HIDE DEF c, X, S
    <3>3. Square(c) <= Square(X) /\ Square(c) \in Nat /\ Square(X) \in Nat
      BY <3>2, Squares
    <3>4. Square(c) * S <= Square(X) * m2
      <4>1. S * Square(c) <= S * Square(X)
        BY <1>1, <3>3, Products
      <4>2. CASE Square(X) = 0
        <5>1. Square(c) = 0
          BY <3>3, <4>2
        <5> QED
          BY <1>1, <4>2, <5>1
      <4>3. CASE Square(X) # 0
        <5>1. Square(X) * S <= Square(X) * m2
          BY <1>1, <1>2, <3>3, <4>3, Products
        <5>2. Square(X) * S \in Int /\ Square(X) * m2 \in Int /\ Square(c) * S \in Int
          BY <1>1, <3>3
        <5> QED
          BY <1>1, <3>3, <4>1, <5>1, <5>2
      <4> QED
        BY <4>2, <4>3
    <3> QED
      BY <3>1, <3>4 DEF AtLeast
  <2>5. k * e <= 10 * a
    BY <1>1, <2>3
  <2> QED
    BY <2>1, <2>2, <2>4, <2>5 DEF Inner
<1>3. CASE ~(m2 > S)
  <2>1. Inner(k, a, m2, d)
    BY <1>3, WithinCases
  <2>2. X >= 0 /\ AtLeast(X, a, d * F, m2)
    BY <1>1, <2>1 DEF Inner
  <2>3. k <= a
    <3> DEFINE c == a * d
    <3>1. Square(a * (d * F)) = S * Square(c) /\ Square(X) * m2 = m2 * Square(X)
      BY <1>1 DEF Square
    <3>2. c \in Nat /\ X \in Nat
      BY <1>1, <2>2
    <3>3. X = a * d + (a * e - k * e)
      BY <1>1
    <3> HIDE DEF c, X, S
    <3>4. Square(c) \in Nat /\ Square(X) \in Nat
      BY <3>2, Squares
    <3>5. S * Square(c) <= S * Square(X)
      <4>1. m2 * Square(X) <= S * Square(X)
        <5>1. CASE Square(X) = 0
          BY <5>1, <1>1
        <5>2. CASE Square(X) # 0
          <6>1. Square(X) * m2 <= Square(X) * S
            BY <1>1, <1>3, <3>4, <5>2, Products
          <6> QED
            BY <1>1, <3>4, <6>1
        <5> QED
          BY <5>1, <5>2
      <4>2. S * Square(c) <= m2 * Square(X)
        BY <2>2, <3>1 DEF AtLeast
      <4>3. S * Square(c) \in Int /\ m2 * Square(X) \in Int /\ S * Square(X) \in Int
        BY <1>1, <3>4
      <4> QED
        BY <4>1, <4>2, <4>3
    <3>6. Square(c) <= Square(X)
      BY <1>1, <3>4, <3>5, Products
    <3>7. c <= X
      BY <3>2, <3>6, Squares
    <3>8. e * k <= e * a
      <4>1. k * e <= a * e
        BY <1>1, <3>2, <3>3, <3>7 DEF c
      <4>2. k * e = e * k /\ a * e = e * a
        BY <1>1
      <4> QED
        BY <4>1, <4>2
    <3> QED
      BY <1>1, <3>8, Products
  <2>4. AtMost(k, a, F, m2)
    <3>1. Square(k) <= Square(a) /\ Square(k) \in Nat /\ Square(a) \in Nat
      BY <2>3, Squares
    <3>2. Square(a * F) = Square(a) * S
      BY <1>1 DEF Square
    <3> HIDE DEF S
    <3>3. Square(k) * m2 <= Square(a) * S
      <4>1. S * Square(k) <= S * Square(a)
        BY <1>1, <3>1, Products
      <4>2. Square(k) * m2 <= Square(k) * S
        <5>1. CASE Square(k) = 0
          BY <1>1, <5>1
        <5>2. CASE Square(k) # 0
          BY <1>1, <1>3, <3>1, <5>2, Products
        <5> QED
          BY <5>1, <5>2
      <4>3. Square(k) * S \in Int /\ Square(k) * m2 \in Int /\ Square(a) * S \in Int
        BY <1>1, <3>1
      <4> QED
        BY <1>1, <3>1, <4>1, <4>2, <4>3
    <3> QED
      BY <3>2, <3>3 DEF AtMost
  <2> QED
    BY <2>1, <2>3, <2>4
<1> QED
  BY <1>2, <1>3

(* A ratio is at most another or at least that.                            *)
LEMMA Comparable ==
  ASSUME NEW p \in Nat, NEW a \in Nat, NEW e \in Nat, NEW m \in Nat
  PROVE  /\ AtMost(p, a, e, m) \/ AtLeast(p, a, e, m)
         /\ a = 0 => AtLeast(p, a, e, m)
<1>1. Square(p) * m \in Nat /\ Square(a * e) \in Nat /\ (a = 0 => Square(a * e) = 0)
  BY DEF Square
<1> QED
  BY <1>1 DEF AtMost, AtLeast

(* Being past the dead zone or the rim, in these terms.                    *)
LEMMA Unit ==
  ASSUME NEW m2 \in Nat \ {0}, NEW d \in 1..9
  PROVE  /\ Deflected(m2, d) <=> AtLeast(10, 1, d * FullStick, m2)
         /\ m2 > Square(FullStick) <=> ~AtMost(1, 1, FullStick, m2)
<1>1. Square(10) = 100 /\ Square(1) = 1 /\ 1 * FullStick = FullStick
      /\ 1 * (d * FullStick) = d * FullStick /\ Square(FullStick) \in Nat /\ 1 * m2 = m2
  BY FullValues DEF Square
<1> QED
  BY <1>1 DEF Deflected, AtMost, AtLeast

(* A unit of movement outwards, along the axis of the deflection a or      *)
(* across it, with two values k and l and the distances before and after.  *)
Farther(a, b, c, k, l, d, m, n) ==
    /\ a \in Nat /\ b \in Nat /\ c \in Nat /\ k \in Nat /\ l \in Nat /\ d \in 1..9
    /\ m = Square(a) + Square(b) /\ m # 0
    /\ n = IF c = a THEN Square(a) + Square(b + 1) ELSE Square(a + 1) + Square(b)

(* What such a movement does to the distance m, which becomes n.           *)
LEMMA FartherOut ==
  ASSUME NEW a, NEW b, NEW c, NEW k, NEW l, NEW d, NEW m, NEW n,
         Farther(a, b, c, k, l, d, m, n)
  PROVE  /\ a \in Nat /\ k \in Nat /\ l \in Nat /\ d \in 1..9
         /\ m \in Nat \ {0} /\ n \in Nat \ {0} /\ m < n
         /\ c = a + 1 => Square(a) * n <= Square(a + 1) * m
         /\ c = a /\ a # 0 => Square(a - 1) * n <= Square(a) * m
         /\ \A i \in Nat : Square(i) * m <= Square(i) * n
<1>0. a \in Nat /\ b \in Nat /\ k \in Nat /\ l \in Nat /\ d \in 1..9 /\ m = Square(a) + Square(b) /\ m # 0
      /\ n = IF c = a THEN Square(a) + Square(b + 1) ELSE Square(a + 1) + Square(b)
  BY DEF Farther
<1>1. /\ Square(a) \in Nat /\ Square(b) \in Nat
      /\ Square(a + 1) \in Nat /\ Square(b + 1) \in Nat
      /\ Square(a) < Square(a + 1) /\ Square(b) < Square(b + 1)
  BY <1>0 DEF Square
<1>2. m \in Nat \ {0} /\ n \in Nat \ {0} /\ m < n
  BY <1>0, <1>1
<1>3. /\ Square(a) * (Square(a + 1) + Square(b)) <= Square(a + 1) * m
      /\ a # 0 => Square(a - 1) * (Square(a) + Square(b + 1)) <= Square(a) * m
  BY <1>0, Distances
<1>4. ASSUME NEW i \in Nat PROVE Square(i) * m <= Square(i) * n
  <2>1. Square(i) \in Nat
    BY DEF Square
  <2>2. CASE Square(i) = 0
    BY <1>2, <2>2
  <2>3. CASE Square(i) # 0
    BY <1>2, <2>1, <2>3, Products
  <2> QED
    BY <2>2, <2>3
<1>5. c = a + 1 => c # a
  BY <1>0
<1> QED
  BY <1>0, <1>2, <1>3, <1>4, <1>5

(* Outwards along its own axis, a value grows by no more than the stretch. *)
LEMMA AlongUp ==
  ASSUME NEW a, NEW b, NEW k, NEW l, NEW d, NEW m, NEW n,
         Farther(a, b, a + 1, k, l, d, m, n), ~Within(k, a, m, d), Within(l, a + 1, n, d)
  PROVE  (l - k) * (10 - d) <= 10
<1> DEFINE F == FullStick  G == d * F  e == 10 - d  X == 10 * a - k * e  Y == 10 * (a + 1) - l * e
<1>1. /\ a \in Nat /\ k \in Nat /\ l \in Nat /\ d \in 1..9 /\ m \in Nat \ {0} /\ n \in Nat \ {0}
      /\ Square(a) * n <= Square(a + 1) * m
      /\ Square(a + 1) * m <= Square(a + 1) * n
  <2>1. a \in Nat /\ a + 1 \in Nat
    BY DEF Farther
  <2> QED
    BY <2>1, FartherOut
<1>2. F \in Nat \ {0} /\ G \in Nat \ {0} /\ e \in 1..9 /\ X \in Int /\ Y \in Int /\ a + 1 \in Nat \ {0}
  BY <1>1, FullValues
<1>3. Inner(l, a + 1, n, d) /\ AtMost(l, a + 1, F, n)
  BY <1>1, <1>2, WithinBoth
<1>4. (l - k) * e = l * e - k * e /\ l * e \in Int /\ k * e \in Int
  BY <1>1, <1>2
<1>5. CASE m > Square(F)
  <2>1. ~AtMost(k, a, F, m) /\ ~AtMost(1, 1, F, m)
    BY <1>1, <1>5, WithinCases, Unit
  <2>2. ~AtMost(k + 1, a + 1, F, m)
    BY <1>1, <1>2, <2>1, RatiosAdd
  <2>3. AtLeast(k + 1, a + 1, F, m)
    BY <1>1, <1>2, <2>2, Comparable
  <2>4. l < k + 1
    <3>1. k + 1 \in Nat /\ F \in Nat
      BY <1>1, <1>2
    <3> HIDE DEF F
    <3> QED
      BY <1>1, <1>2, <1>3, <2>2, <2>3, <3>1, Stretched
  <2>5. (l - k) * e <= 0
    BY <1>1, <1>2, <2>4
  <2> QED
    BY <1>4, <2>5
<1>6. CASE ~(m > Square(F))
  <2>1. ~Inner(k, a, m, d)
    BY <1>1, <1>6, WithinCases
  <2>2. Y >= 0 /\ AtLeast(Y, a + 1, G, n)
    BY <1>1, <1>2, <1>3, <1>4 DEF Inner
  <2>3. X < Y
    <3>1. CASE X < 0
      BY <1>2, <2>2, <3>1
    <3>2. CASE X >= 0
      <4>1. X \in Nat /\ Y \in Nat /\ G \in Nat
        BY <1>2, <2>2, <3>2
      <4>2. ~AtLeast(X, a, G, m)
        BY <1>1, <1>2, <2>1, <3>2 DEF Inner
      <4>3. a # 0 /\ AtMost(X, a, G, m)
        BY <1>1, <4>1, <4>2, Comparable
      <4> HIDE DEF X, Y, G
      <4> QED
        BY <1>1, <1>2, <2>2, <4>1, <4>2, <4>3, Stretched
    <3> QED
      BY <1>2, <3>1, <3>2
  <2> QED
    BY <1>1, <1>4, <2>3
<1> QED
  BY <1>5, <1>6

(* Nor does it shrink by more than that.                                   *)
LEMMA AlongDown ==
  ASSUME NEW a, NEW b, NEW k, NEW l, NEW d, NEW m, NEW n,
         Farther(a, b, a + 1, k, l, d, m, n), Deflected(m, d),
         Within(k, a, m, d), ~Within(l, a + 1, n, d)
  PROVE  (k - l) * (10 - d) <= 10
<1> DEFINE F == FullStick  G == d * F  e == 10 - d  X == 10 * a - k * e  Y == 10 * (a + 1) - l * e
<1>1. /\ a \in Nat /\ k \in Nat /\ l \in Nat /\ d \in 1..9 /\ m \in Nat \ {0} /\ n \in Nat \ {0}
      /\ Square(a) * n <= Square(a + 1) * m
      /\ Square(a + 1) * m <= Square(a + 1) * n
  <2>1. a \in Nat /\ a + 1 \in Nat
    BY DEF Farther
  <2> QED
    BY <2>1, FartherOut
<1>2. F \in Nat \ {0} /\ G \in Nat \ {0} /\ e \in 1..9 /\ X \in Int /\ Y \in Int /\ a + 1 \in Nat \ {0}
  BY <1>1, FullValues
<1>3. Inner(k, a, m, d) /\ AtMost(k, a, F, m) /\ k <= a
  BY <1>1, <1>2, WithinBoth
<1>4. (k - l) * e = k * e - l * e /\ l * e \in Int /\ k * e \in Int
  BY <1>1, <1>2
<1>5. CASE n > Square(F)
  <2>1. ~AtMost(l, a + 1, F, n)
    BY <1>1, <1>2, <1>5, WithinCases
  <2>2. AtLeast(l, a + 1, F, n)
    BY <1>1, <1>2, <2>1, Comparable
  <2>3. k <= l
    <3>1. F \in Nat
      BY <1>2
    <3> HIDE DEF F
    <3>2. a # 0 => k < l
      BY <1>1, <1>2, <1>3, <2>1, <2>2, <3>1, Stretched
    <3> QED
      BY <1>1, <1>3, <3>2
  <2>4. (k - l) * e <= 0
    BY <1>1, <1>2, <2>3
  <2> QED
    BY <1>4, <2>4
<1>6. CASE ~(n > Square(F))
  <2>1. ~Inner(l, a + 1, n, d)
    BY <1>1, <1>2, <1>6, WithinCases
  <2>2. X >= 0 /\ AtLeast(X, a, G, m)
    BY <1>1, <1>2, <1>3, <1>4 DEF Inner
  <2>3. Y < X + 10
    <3>1. CASE Y < 0
      BY <1>2, <2>2, <3>1
    <3>2. CASE Y >= 0
      <4>1. X \in Nat /\ Y \in Nat /\ G \in Nat /\ X + 10 \in Nat
        BY <1>2, <2>2, <3>2
      <4>2. ~AtLeast(Y, a + 1, G, n)
        BY <1>1, <1>2, <2>1, <3>2 DEF Inner
      <4>3. AtLeast(10, 1, G, m)
        BY <1>1, Unit
      <4> HIDE DEF X, Y, G
      <4>4. AtMost(Y, a + 1, G, n)
        BY <1>1, <1>2, <4>1, <4>2, Comparable
      <4>5. AtLeast(X + 10, a + 1, G, m)
        BY <1>1, <2>2, <4>1, <4>3, RatiosAdd
      <4> QED
        BY <1>1, <1>2, <4>1, <4>2, <4>4, <4>5, Stretched
    <3> QED
      BY <1>2, <3>1, <3>2
  <2> QED
    BY <1>1, <1>4, <2>3
<1> QED
  BY <1>5, <1>6

(* Outwards across its own axis, a value grows by no more than the stretch. *)
LEMMA AcrossUp ==
  ASSUME NEW a, NEW b, NEW k, NEW l, NEW d, NEW m, NEW n,
         Farther(a, b, a, k, l, d, m, n), Deflected(m, d),
         ~Within(k, a, m, d), Within(l, a, n, d)
  PROVE  (l - k) * (10 - d) <= 10
<1> DEFINE F == FullStick  G == d * F  e == 10 - d  X == 10 * a - k * e  Y == 10 * a - l * e
<1>1. /\ a \in Nat /\ k \in Nat /\ l \in Nat /\ d \in 1..9 /\ m \in Nat \ {0} /\ n \in Nat \ {0}
      /\ a # 0 => Square(a - 1) * n <= Square(a) * m
      /\ Square(a) * m <= Square(a) * n
  BY FartherOut
<1>2. F \in Nat \ {0} /\ G \in Nat \ {0} /\ e \in 1..9 /\ X \in Int /\ Y \in Int
  BY <1>1, FullValues
<1>3. Inner(l, a, n, d) /\ AtMost(l, a, F, n) /\ l <= a
  BY <1>1, <1>2, WithinBoth
<1>4. (l - k) * e = l * e - k * e /\ l * e \in Int /\ k * e \in Int
  BY <1>1, <1>2
<1>5. CASE m > Square(F)
  <2>1. ~AtMost(k, a, F, m)
    BY <1>1, <1>2, <1>5, WithinCases
  <2>2. AtLeast(k, a, F, m)
    BY <1>1, <1>2, <2>1, Comparable
  <2>3. l <= k
    <3>1. F \in Nat
      BY <1>2
    <3> HIDE DEF F
    <3>2. a # 0 => l < k
      BY <1>1, <1>2, <1>3, <2>1, <2>2, <3>1, Stretched
    <3> QED
      BY <1>1, <1>3, <3>2
  <2>4. (l - k) * e <= 0
    BY <1>1, <1>2, <2>3
  <2> QED
    BY <1>4, <2>4
<1>6. CASE ~(m > Square(F))
  <2>1. ~Inner(k, a, m, d)
    BY <1>1, <1>2, <1>6, WithinCases
  <2>2. Y >= 0 /\ AtLeast(Y, a, G, n)
    BY <1>1, <1>2, <1>3, <1>4 DEF Inner
  <2>3. X <= Y + 10
    <3>1. CASE X < 10
      BY <1>2, <2>2, <3>1
    <3>2. CASE X >= 10
      <4> DEFINE R == X - 10
      <4>1. X \in Nat /\ Y \in Nat /\ G \in Nat /\ R \in Nat /\ X = R + 10
        BY <1>2, <2>2, <3>2
      <4>2. ~AtLeast(X, a, G, m)
        BY <1>1, <1>2, <2>1, <3>2 DEF Inner
      <4>3. AtLeast(10, 1, G, m)
        BY <1>1, Unit
      <4> HIDE DEF X, Y, G, R
      <4>4. a # 0 /\ a - 1 \in Nat /\ (a - 1) + 1 = a
        BY <1>1, <4>1, <4>2, Comparable
      <4>5. ~AtLeast(R, a - 1, G, m)
        <5> SUFFICES ASSUME AtLeast(R, a - 1, G, m) PROVE FALSE
          OBVIOUS
        <5>1. AtLeast(R + 10, (a - 1) + 1, G, m)
          BY <1>1, <4>1, <4>3, <4>4, RatiosAdd
        <5> QED
          BY <4>1, <4>2, <4>4, <5>1
      <4>6. a - 1 # 0 /\ AtMost(R, a - 1, G, m)
        BY <1>1, <4>1, <4>4, <4>5, Comparable
      <4>7. R < Y
        BY <1>1, <2>2, <4>1, <4>4, <4>5, <4>6, Stretched
      <4> QED
        BY <4>1, <4>7
    <3> QED
      BY <1>2, <3>1, <3>2
  <2> QED
    BY <1>1, <1>4, <2>3
<1> QED
  BY <1>5, <1>6

(* Nor does it shrink by more than that.                                   *)
LEMMA AcrossDown ==
  ASSUME NEW a, NEW b, NEW k, NEW l, NEW d, NEW m, NEW n,
         Farther(a, b, a, k, l, d, m, n),
         Within(k, a, m, d), ~Within(l, a, n, d)
  PROVE  (k - l) * (10 - d) <= 10
<1> DEFINE F == FullStick  G == d * F  e == 10 - d  X == 10 * a - k * e  Y == 10 * a - l * e
<1>1. /\ a \in Nat /\ k \in Nat /\ l \in Nat /\ d \in 1..9 /\ m \in Nat \ {0} /\ n \in Nat \ {0}
      /\ a # 0 => Square(a - 1) * n <= Square(a) * m
      /\ Square(a) * m <= Square(a) * n
  BY FartherOut
<1>2. F \in Nat \ {0} /\ G \in Nat \ {0} /\ e \in 1..9 /\ X \in Int /\ Y \in Int
  BY <1>1, FullValues
<1>3. Inner(k, a, m, d) /\ AtMost(k, a, F, m) /\ k <= a
  BY <1>1, <1>2, WithinBoth
<1>4. (k - l) * e = k * e - l * e /\ l * e \in Int /\ k * e \in Int
  BY <1>1, <1>2
<1>5. CASE n > Square(F)
  <2>1. ~AtMost(l, a, F, n)
    BY <1>1, <1>2, <1>5, WithinCases
  <2>2. AtLeast(l, a, F, n)
    BY <1>1, <1>2, <2>1, Comparable
  <2>3. k - l <= 1
    <3>1. CASE k <= 1
      BY <1>1, <3>1
    <3>2. CASE k > 1
      <4>1. k - 1 \in Nat /\ a - 1 \in Nat \ {0} /\ a \in Nat \ {0} /\ F \in Nat
            /\ (k - 1) + 1 = k /\ (a - 1) + 1 = a /\ k - 1 <= a - 1
        BY <1>1, <1>2, <1>3, <3>2
      <4>2. AtMost(k - 1, a - 1, F, m)
        <5>1. CASE AtMost(1, 1, F, m)
          <6>1. m <= Square(F) /\ Square(F) \in Nat
            BY <1>1, <1>2, <5>1, Unit DEF Square
          <6>2. Square(k - 1) <= Square(a - 1) /\ Square(k - 1) \in Nat /\ Square(a - 1) \in Nat
            BY <4>1, Squares
          <6>3. Square((a - 1) * F) = Square(a - 1) * Square(F)
            BY <1>1, <1>2 DEF Square
          <6> DEFINE s == Square(k - 1)  t == Square(a - 1)  S == Square(F)
          <6>4. s \in Nat \ {0}
            BY <3>2, <1>1 DEF Square
          <6> HIDE DEF s, t, S
          <6>5. s * m <= s * S /\ S * s <= S * t
            <7>1. s <= t /\ t \in Nat /\ m <= S /\ S \in Nat
              BY <6>1, <6>2 DEF s, t, S
            <7>2. S = 0 => S * s <= S * t
              BY <6>4, <7>1
            <7> QED
              BY <1>1, <6>4, <7>1, <7>2, Products
          <6>6. s * m <= t * S
            <7>1. s * m \in Int /\ s * S \in Int /\ S * t \in Int /\ S * s = s * S /\ S * t = t * S
              BY <1>1, <6>1, <6>2, <6>4 DEF s, t, S
            <7> QED
              BY <6>5, <7>1
          <6> QED
            BY <6>3, <6>6 DEF AtMost, s, t, S
        <5>2. CASE ~AtMost(1, 1, F, m)
          <6> SUFFICES ASSUME ~AtMost(k - 1, a - 1, F, m) PROVE FALSE
            OBVIOUS
          <6>1. ~AtMost((k - 1) + 1, (a - 1) + 1, F, m)
            BY <1>1, <4>1, <5>2, RatiosAdd
          <6> QED
            BY <1>3, <4>1, <6>1
        <5> QED
          BY <5>1, <5>2
      <4> HIDE DEF F
      <4>3. k - 1 < l
        BY <1>1, <2>1, <2>2, <4>1, <4>2, Stretched
      <4> QED
        BY <1>1, <4>3
    <3> QED
      BY <1>1, <3>1, <3>2
  <2>4. (k - l) * e <= 9
    <3> DEFINE j == k - l
    <3>1. j \in Int /\ j <= 1
      BY <1>1, <2>3
    <3>2. j * e <= 9
      <4>1. e * j <= e * 1
        BY <1>2, <3>1, Products
      <4> QED
        BY <1>2, <3>1, <4>1
    <3> QED
      BY <3>2
  <2> QED
    BY <1>4, <2>4
<1>6. CASE ~(n > Square(F))
  <2>1. ~Inner(l, a, n, d)
    BY <1>1, <1>2, <1>6, WithinCases
  <2>2. X >= 0 /\ AtLeast(X, a, G, m)
    BY <1>1, <1>2, <1>3, <1>4 DEF Inner
  <2>3. Y <= X
    <3>1. CASE Y < 0
      BY <1>2, <2>2, <3>1
    <3>2. CASE Y >= 0
      <4>1. X \in Nat /\ Y \in Nat /\ G \in Nat
        BY <1>2, <2>2, <3>2
      <4>2. ~AtLeast(Y, a, G, n)
        BY <1>1, <1>2, <2>1, <3>2 DEF Inner
      <4> HIDE DEF X, Y, G
      <4>3. a # 0 /\ AtMost(Y, a, G, n)
        BY <1>1, <4>1, <4>2, Comparable
      <4>4. Y < X
        BY <1>1, <2>2, <4>1, <4>2, <4>3, Stretched
      <4> QED
        BY <4>1, <4>4
    <3> QED
      BY <1>2, <3>1, <3>2
  <2> QED
    BY <1>1, <1>4, <2>3
<1> QED
  BY <1>5, <1>6

(* What the dead zone's edge lets through at once, along the axis ...      *)
LEMMA AlongEdge ==
  ASSUME NEW a, NEW b, NEW l, NEW d, NEW m, NEW n,
         Farther(a, b, a + 1, 0, l, d, m, n), ~Deflected(m, d), Within(l, a + 1, n, d)
  PROVE  l * (10 - d) <= 10
<1> DEFINE F == FullStick  G == d * F  e == 10 - d  X == 10 * a  Y == 10 * (a + 1) - l * e
<1>1. /\ a \in Nat /\ l \in Nat /\ d \in 1..9 /\ m \in Nat \ {0} /\ n \in Nat \ {0}
      /\ Square(a) * n <= Square(a + 1) * m
  <2>1. a \in Nat
    BY DEF Farther
  <2> QED
    BY <2>1, FartherOut
<1>2. F \in Nat \ {0} /\ G \in Nat \ {0} /\ e \in 1..9 /\ X \in Nat /\ Y \in Int /\ a + 1 \in Nat \ {0}
      /\ l * e \in Int
  BY <1>1, FullValues
<1>3. Y >= 0 /\ AtLeast(Y, a + 1, G, n)
  <2>1. Inner(l, a + 1, n, d)
    BY <1>1, <1>2, WithinBoth
  <2> QED
    BY <1>1, <1>2, <2>1 DEF Inner
<1>4. X <= Y
  <2>1. CASE a = 0
    BY <1>2, <1>3, <2>1
  <2>2. CASE a # 0
    <3>1. ~AtLeast(10, 1, G, m)
      BY <1>1, Unit
    <3>2. ~AtLeast(X, a, G, m)
      <4>1. Square(X) * m = Square(a) * (Square(10) * m) /\ Square(a * G) = Square(a) * Square(1 * G)
        BY <1>1, <1>2 DEF Square
      <4>2. Square(a) \in Nat \ {0} /\ Square(10) * m \in Int /\ Square(1 * G) \in Int
        BY <1>1, <1>2, <2>2 DEF Square
      <4> HIDE DEF X, G
      <4>3. ~(Square(1 * G) <= Square(10) * m)
        BY <3>1 DEF AtLeast
      <4>4. ~(Square(a) * Square(1 * G) <= Square(a) * (Square(10) * m))
        BY <4>2, <4>3, Products
      <4> QED
        BY <4>1, <4>4 DEF AtLeast
    <3>3. G \in Nat /\ Y \in Nat
      BY <1>2, <1>3
    <3> HIDE DEF X, Y, G
    <3>4. AtMost(X, a, G, m)
      BY <1>1, <1>2, <3>2, <3>3, Comparable
    <3>5. X < Y
      BY <1>1, <1>2, <1>3, <2>2, <3>2, <3>3, <3>4, Stretched
    <3> QED
      BY <1>2, <3>3, <3>5
  <2> QED
    BY <2>1, <2>2
<1> QED
  BY <1>1, <1>2, <1>4

(* ... and across it.                                                      *)
LEMMA AcrossEdge ==
  ASSUME NEW a, NEW b, NEW l, NEW d, NEW m, NEW n,
         Farther(a, b, a, 0, l, d, m, n), ~Deflected(m, d), Within(l, a, n, d)
  PROVE  l * (10 - d) <= 10
<1> DEFINE F == FullStick  G == d * F  e == 10 - d  Y == 10 * a - l * e
<1>1. /\ a \in Nat /\ l \in Nat /\ d \in 1..9 /\ m \in Nat \ {0} /\ n \in Nat \ {0}
      /\ a # 0 => Square(a - 1) * n <= Square(a) * m
  BY FartherOut
<1>2. F \in Nat \ {0} /\ G \in Nat \ {0} /\ e \in 1..9 /\ Y \in Int /\ l * e \in Int
  BY <1>1, FullValues
<1>3. Y >= 0 /\ AtLeast(Y, a, G, n)
  <2>1. Inner(l, a, n, d)
    BY <1>1, <1>2, WithinBoth
  <2> QED
    BY <1>1, <1>2, <2>1 DEF Inner
<1>4. CASE a <= 1
  BY <1>1, <1>2, <1>3, <1>4
<1>5. CASE a > 1
  <2> DEFINE c == a - 1  X == 10 * c
  <2>1. c \in Nat \ {0} /\ a \in Nat \ {0} /\ X \in Nat /\ Square(c) * n <= Square(a) * m
    BY <1>1, <1>5
  <2>2. ~AtLeast(10, 1, G, m)
    BY <1>1, Unit
  <2>3. ~AtLeast(X, c, G, m)
    <3> HIDE DEF c
    <3>1. Square(X) * m = Square(c) * (Square(10) * m) /\ Square(c * G) = Square(c) * Square(1 * G)
      BY <1>1, <1>2, <2>1 DEF Square
    <3>2. Square(c) \in Nat \ {0} /\ Square(10) * m \in Int /\ Square(1 * G) \in Int
      BY <1>1, <1>2, <2>1 DEF Square
    <3> HIDE DEF X, G
    <3>3. ~(Square(1 * G) <= Square(10) * m)
      BY <2>2 DEF AtLeast
    <3>4. ~(Square(c) * Square(1 * G) <= Square(c) * (Square(10) * m))
      BY <3>2, <3>3, Products
    <3> QED
      BY <3>1, <3>4 DEF AtLeast
  <2>4. G \in Nat /\ Y \in Nat
    BY <1>2, <1>3
  <2> HIDE DEF X, Y, G, c
  <2>5. AtMost(X, c, G, m)
    BY <1>1, <2>1, <2>3, <2>4, Comparable
  <2>6. X < Y
    BY <1>1, <1>3, <2>1, <2>3, <2>4, <2>5, Stretched
  <2> QED
    BY <1>1, <1>2, <2>6 DEF X, Y, c
<1> QED
  BY <1>1, <1>4, <1>5

(* Two values that are no farther apart than a unit of movement explains.  *)
Close(k, l, d) == (Abs(l - k) - 1) * (10 - d) <= 10

(* That is so if neither is much below the other, and stays so if both     *)
(* change their sign, also as int16 does it.                               *)
LEMMA Closeness ==
  ASSUME NEW k \in Int, NEW l \in Int, NEW d \in Deadzones
  PROVE  /\ (l - (k + 1)) * (10 - d) <= 10 /\ (k - (l + 1)) * (10 - d) <= 10 => Close(k, l, d)
         /\ Close(k, l, d) => Close(l, k, d) /\ Close(-k, -l, d)
         /\ k \in Axis /\ l \in Axis /\ Close(k, l, d) => Close(Inverted(k), Inverted(l), d)
<1> DEFINE e == 10 - d
<1>1. e \in 1..10
  BY DEF Deadzones
<1>2. /\ Abs(l - k) = IF k <= l THEN l - k ELSE k - l
      /\ Abs(k - l) = Abs(l - k) /\ Abs((-l) - (-k)) = Abs(l - k) /\ Abs(l - k) \in Nat
  BY DEF Abs
<1>3. (l - (k + 1)) * e <= 10 /\ (k - (l + 1)) * e <= 10 => Close(k, l, d)
  <2>1. CASE k <= l
    <3>1. Abs(l - k) - 1 = l - (k + 1)
      BY <1>2, <2>1
    <3> QED
      BY <3>1 DEF Close
  <2>2. CASE ~(k <= l)
    <3>1. Abs(l - k) - 1 = k - (l + 1)
      BY <1>2, <2>2
    <3> QED
      BY <3>1 DEF Close
  <2> QED
    BY <2>1, <2>2
<1>4. Close(k, l, d) => Close(l, k, d) /\ Close(-k, -l, d)
  BY <1>2 DEF Close
<1>5. ASSUME k \in Axis, l \in Axis, Close(k, l, d)
      PROVE  Close(Inverted(k), Inverted(l), d)
  <2> DEFINE i == Abs(l - k)  j == Abs(Inverted(l) - Inverted(k))
  <2>1. j \in Nat /\ j <= i
    <3>1. FullStick \in Nat /\ k >= -FullStick - 1 /\ l >= -FullStick - 1
      BY <1>5, FullValues DEF Axis
    <3>2. Inverted(k) \in Int /\ Inverted(l) \in Int
      BY <3>1 DEF Inverted
    <3>3. CASE k = -FullStick - 1
      BY <3>1, <3>3 DEF Inverted, Abs
    <3>4. CASE k # -FullStick - 1
      BY <3>1, <3>4 DEF Inverted, Abs
    <3> QED
      BY <3>3, <3>4
  <2>2. (i - 1) * e <= 10
    BY <1>5 DEF Close
  <2>3. (j - 1) * e <= 10
    <3>1. i \in Nat
      BY <1>2
    <3> HIDE DEF i, j, e
    <3>2. e * (j - 1) <= e * (i - 1)
      BY <1>1, <2>1, <3>1, Products
    <3> QED
      BY <1>1, <2>1, <2>2, <3>1, <3>2
  <2> QED
    BY <2>3 DEF Close
<1> QED
  BY <1>3, <1>4, <1>5

(* A unit of movement outwards, in the quarter of the positive axes.       *)
LEMMA Movement ==
  ASSUME NEW a \in Nat, NEW b \in Nat, NEW d \in Deadzones
  PROVE  /\ Close(Stick(a, b, d), Stick(a + 1, b, d), d)
         /\ Close(Stick(a, b, d), Stick(a, b + 1, d), d)
<1>1. d \in 0..9 /\ Abs(a) = a /\ Abs(a + 1) = a + 1 /\ a \in Int /\ b \in Int
      /\ a + 1 \in Int /\ b + 1 \in Int /\ ~(a < 0) /\ ~(a + 1 < 0)
  BY DEF Deadzones, Abs
<1>2. CASE d = 0
  <2>1. Stick(a, b, d) = a /\ Stick(a + 1, b, d) = a + 1 /\ Stick(a, b + 1, d) = a
    BY <1>1, <1>2, StickValue
  <2>2. Abs((a + 1) - a) = 1 /\ Abs(a - a) = 0
    BY DEF Abs
  <2> QED
    BY <1>2, <2>1, <2>2 DEF Close
<1>3. CASE d # 0
  <2> DEFINE Value(k, c, m) == k \in 0..c /\ Within(k, c, m, d) /\ ~Within(k + 1, c, m, d)
             m == Square(a) + Square(b)
             k == Stick(a, b, d)
  <2>1. /\ ~Deflected(m, d) => k = 0
        /\ Deflected(m, d) => Value(k, a, m)
        /\ m \in Nat /\ (m = 0 => a = 0 /\ b = 0) /\ d \in 1..9
    <3>1. Square(a) \in Nat /\ Square(b) \in Nat /\ (Square(a) = 0 => a = 0) /\ (Square(b) = 0 => b = 0)
      BY DEF Square
    <3>2. /\ ~Deflected(m, d) => k = 0
          /\ Deflected(m, d) => Value(k, a, m)
      BY <1>1, <1>3, StickValue
    <3> QED
      BY <1>1, <1>3, <3>1, <3>2
  <2>2. ASSUME NEW c \in {a, a + 1}, NEW n \in Nat, NEW l,
               n = IF c = a THEN Square(a) + Square(b + 1) ELSE Square(a + 1) + Square(b),
               ~Deflected(n, d) => l = 0, Deflected(n, d) => Value(l, c, n)
        PROVE  Close(k, l, d)
    <3> HIDE DEF m, k
    <3>1. k \in Nat /\ l \in Nat /\ c \in Nat
      BY <2>1, <2>2
    <3>2. ASSUME m # 0, NEW i \in Nat, NEW j \in Nat
          PROVE  Farther(a, b, c, i, j, d, m, n)
      BY <2>1, <2>2, <3>1, <3>2 DEF Farther, m
    <3>3. CASE ~Deflected(n, d)
      <4>1. ~Deflected(m, d)
        <5> SUFFICES ASSUME Deflected(m, d) PROVE FALSE
          OBVIOUS
        <5>1. m # 0 /\ Square(d * FullStick) <= 100 * m
          BY DEF Deflected
        <5>2. m < n /\ n # 0
          BY <3>2, <5>1, FartherOut
        <5>3. Square(d * FullStick) \in Int
          BY <2>1, FullValues DEF Square
        <5> QED
          BY <2>1, <2>2, <3>3, <5>1, <5>2, <5>3 DEF Deflected
      <4>2. k = 0 /\ l = 0
        BY <2>1, <2>2, <3>3, <4>1
      <4>3. Abs(0 - 0) = 0
        BY DEF Abs
      <4> QED
        BY <2>1, <4>2, <4>3 DEF Close
    <3>4. CASE Deflected(n, d) /\ ~Deflected(m, d)
      <4>1. k = 0 /\ Value(l, c, n)
        BY <2>1, <2>2, <3>4
      <4>2. l * (10 - d) <= 10
        <5>1. CASE m = 0
          <6>1. l \in {0, 1}
            BY <2>1, <2>2, <4>1, <5>1
          <6> QED
            BY <2>1, <6>1
        <5>2. CASE m # 0
          <6>1. Farther(a, b, c, 0, l, d, m, n) /\ Within(l, c, n, d)
            BY <3>1, <3>2, <4>1, <5>2
          <6>2. CASE c = a
            BY <3>4, <6>1, <6>2, AcrossEdge
          <6>3. CASE c = a + 1
            BY <3>4, <6>1, <6>3, AlongEdge
          <6> QED
            BY <6>2, <6>3
        <5> QED
          BY <5>1, <5>2
      <4>3. Abs(l - 0) = l /\ (l - 1) * (10 - d) = l * (10 - d) - (10 - d) /\ l * (10 - d) \in Int
        BY <2>1, <3>1 DEF Abs
      <4> QED
        BY <2>1, <4>1, <4>2, <4>3 DEF Close
    <3>5. CASE Deflected(n, d) /\ Deflected(m, d)
      <4>1. /\ Within(k, a, m, d) /\ ~Within(k + 1, a, m, d)
            /\ Within(l, c, n, d) /\ ~Within(l + 1, c, n, d)
        BY <2>1, <2>2, <3>5
      <4>2. m # 0 /\ k + 1 \in Nat /\ l + 1 \in Nat
        BY <3>1, <3>5 DEF Deflected
      <4>3. Farther(a, b, c, k + 1, l, d, m, n) /\ Farther(a, b, c, k, l + 1, d, m, n)
        BY <3>1, <3>2, <4>2
      <4>4. (l - (k + 1)) * (10 - d) <= 10
        <5>1. CASE c = a
          BY <3>5, <4>1, <4>3, <5>1, AcrossUp
        <5>2. CASE c = a + 1
          BY <4>1, <4>3, <5>2, AlongUp
        <5> QED
          BY <5>1, <5>2
      <4>5. (k - (l + 1)) * (10 - d) <= 10
        <5>1. CASE c = a
          BY <4>1, <4>3, <5>1, AcrossDown
        <5>2. CASE c = a + 1
          BY <3>5, <4>1, <4>3, <5>2, AlongDown
        <5> QED
          BY <5>1, <5>2
      <4> QED
        BY <3>1, <4>4, <4>5, Closeness
    <3> QED
      BY <3>3, <3>4, <3>5
  <2>3. Close(k, Stick(a + 1, b, d), d)
    <3> DEFINE n == Square(a + 1) + Square(b)  l == Stick(a + 1, b, d)
    <3>1. n \in Nat
      BY DEF Square
    <3>2. (~Deflected(n, d) => l = 0) /\ (Deflected(n, d) => Value(l, a + 1, n))
      BY <1>1, <1>3, StickValue
    <3>3. /\ a + 1 \in {a, a + 1}
          /\ n = IF a + 1 = a THEN Square(a) + Square(b + 1) ELSE Square(a + 1) + Square(b)
      OBVIOUS
    <3> HIDE DEF l, k, m, n, Value
    <3>4. Close(k, l, d)
      BY <2>2, <3>1, <3>2, <3>3
    <3> QED
      BY <3>4 DEF l
  <2>4. Close(k, Stick(a, b + 1, d), d)
    <3> DEFINE n == Square(a) + Square(b + 1)  l == Stick(a, b + 1, d)
    <3>1. n \in Nat
      BY DEF Square
    <3>2. (~Deflected(n, d) => l = 0) /\ (Deflected(n, d) => Value(l, a, n))
      BY <1>1, <1>3, StickValue
    <3>3. /\ a \in {a, a + 1}
          /\ n = IF a = a THEN Square(a) + Square(b + 1) ELSE Square(a + 1) + Square(b)
      OBVIOUS
    <3> HIDE DEF l, k, m, n, Value
    <3>4. Close(k, l, d)
      BY <2>2, <3>1, <3>2, <3>3
    <3> QED
      BY <3>4 DEF l
  <2> QED
    BY <2>3, <2>4
<1> QED
  BY <1>2, <1>3

(* What is reported of a position is that of the quarter, with its sign.   *)
LEMMA Mirrored ==
  ASSUME NEW x \in Int, NEW y \in Int, NEW d \in Deadzones
  PROVE  LET r == Stick(Abs(x), Abs(y), d)
         IN /\ r \in Int /\ (x = 0 => r = 0)
            /\ Stick(x, y, d) = IF x < 0 THEN -r ELSE r
<1> DEFINE r == Stick(Abs(x), Abs(y), d)
<1>1. Abs(x) \in Int /\ Abs(y) \in Int /\ Abs(Abs(x)) = Abs(x) /\ ~(Abs(x) < 0)
      /\ Abs(x) = IF x < 0 THEN -x ELSE x
  BY DEF Abs
<1>2. Square(Abs(x)) = Square(x) /\ Square(Abs(y)) = Square(y)
  BY DEF Abs, Square
<1>3. r \in Int /\ Abs(r) <= Abs(Abs(x))
  BY <1>1, Directions
<1>4. x = 0 => r = 0
  BY <1>1, <1>3 DEF Abs
<1> DEFINE m2 == Square(x) + Square(y)  s == Rescaled(Abs(x), m2, d)
<1>5. /\ d = 0 => Stick(x, y, d) = x
      /\ d # 0 /\ ~Deflected(m2, d) => Stick(x, y, d) = 0
      /\ d # 0 /\ Deflected(m2, d) => Stick(x, y, d) = IF x < 0 THEN -s ELSE s
  BY StickValue
<1>6. /\ d = 0 => r = Abs(x)
      /\ d # 0 /\ ~Deflected(m2, d) => r = 0
      /\ d # 0 /\ Deflected(m2, d) => r = s
  BY <1>1, <1>2, StickValue
<1> HIDE DEF r, m2, s
<1>7. Stick(x, y, d) = IF x < 0 THEN -r ELSE r
  BY <1>1, <1>5, <1>6
<1> QED
  BY <1>3, <1>4, <1>7 DEF r

(* A unit of movement anywhere.                                            *)
LEMMA Moved ==
  ASSUME NEW x \in Int, NEW y \in Int, NEW d \in Deadzones
  PROVE  /\ Close(Stick(x, y, d), Stick(x + 1, y, d), d)
         /\ Close(Stick(x, y, d), Stick(x, y + 1, d), d)
<1> DEFINE Y(i, j) == Stick(Abs(i), Abs(j), d)
<1>1. /\ Abs(x) \in Nat /\ Abs(y) \in Nat /\ Abs(x + 1) \in Nat /\ Abs(y + 1) \in Nat
      /\ x >= 0 => Abs(x + 1) = Abs(x) + 1
      /\ x < 0 => Abs(x) = Abs(x + 1) + 1
      /\ y >= 0 => Abs(y + 1) = Abs(y) + 1
      /\ y < 0 => Abs(y) = Abs(y + 1) + 1
  BY DEF Abs
<1>2. /\ Y(x, y) \in Int /\ Y(x + 1, y) \in Int /\ Y(x, y + 1) \in Int
      /\ Stick(x, y, d) = IF x < 0 THEN -Y(x, y) ELSE Y(x, y)
      /\ Stick(x, y + 1, d) = IF x < 0 THEN -Y(x, y + 1) ELSE Y(x, y + 1)
      /\ Stick(x + 1, y, d) = IF x + 1 < 0 THEN -Y(x + 1, y) ELSE Y(x + 1, y)
      /\ x + 1 = 0 => Y(x + 1, y) = 0
  <2>1. x + 1 \in Int /\ y + 1 \in Int
    OBVIOUS
  <2> QED
    BY <2>1, Mirrored
<1>3. Close(Y(x, y), Y(x + 1, y), d)
  <2>1. CASE x >= 0
    BY <1>1, <2>1, Movement
  <2>2. CASE x < 0
    <3>1. Close(Y(x + 1, y), Y(x, y), d)
      BY <1>1, <2>2, Movement
    <3> HIDE DEF Y
    <3> QED
      BY <1>2, <3>1, Closeness
  <2> QED
    BY <2>1, <2>2
<1>4. Close(Y(x, y), Y(x, y + 1), d)
  <2>1. CASE y >= 0
    BY <1>1, <2>1, Movement
  <2>2. CASE y < 0
    <3>1. Close(Y(x, y + 1), Y(x, y), d)
      BY <1>1, <2>2, Movement
    <3> HIDE DEF Y
    <3> QED
      BY <1>2, <3>1, Closeness
  <2> QED
    BY <2>1, <2>2
<1> HIDE DEF Y
<1>5. CASE x >= 0
  BY <1>2, <1>3, <1>4, <1>5
<1>6. CASE x < 0
  <2>1. Stick(x + 1, y, d) = -Y(x + 1, y) /\ Stick(x, y, d) = -Y(x, y)
        /\ Stick(x, y + 1, d) = -Y(x, y + 1)
    BY <1>2, <1>6
  <2>2. Close(-Y(x, y), -Y(x + 1, y), d) /\ Close(-Y(x, y), -Y(x, y + 1), d)
    BY <1>2, <1>3, <1>4, Closeness
  <2> QED
    BY <2>1, <2>2
<1> QED
  BY <1>5, <1>6

(* What is reported of two positions is as close as their axes are.        *)
LEMMA ReportedClose ==
  ASSUME NEW x \in Axis, NEW y \in Axis, NEW i \in Axis, NEW j \in Axis,
         NEW d \in Deadzones, NEW inverted \in BOOLEAN,
         Close(Stick(x, y, d), Stick(i, j, d), d), Close(Stick(y, x, d), Stick(j, i, d), d)
  PROVE  LET p == Reported(x, y, d, inverted)
             q == Reported(i, j, d, inverted)
         IN Close(p.x, q.x, d) /\ Close(p.y, q.y, d)
<1> DEFINE u == Stick(x, y, d)  v == Stick(y, x, d)
           s == Stick(i, j, d)  t == Stick(j, i, d)
           p == Reported(x, y, d, inverted)  q == Reported(i, j, d, inverted)
<1>1. x \in Int /\ y \in Int /\ i \in Int /\ j \in Int
  BY FullValues DEF Axis
<1>2. v \in Axis /\ t \in Axis
  <2>1. v \in Int /\ v * y >= 0 /\ Abs(v) <= Abs(y)
    BY <1>1, Directions
  <2>2. t \in Int /\ t * j >= 0 /\ Abs(t) <= Abs(j)
    BY <1>1, Directions
  <2> HIDE DEF v, t
  <2> QED
    BY <2>1, <2>2, Within16
<1>3. v \in Int /\ t \in Int
  BY <1>1, Directions
<1>4. p.x = u /\ q.x = s /\ p.y = (IF inverted THEN Inverted(v) ELSE v)
      /\ q.y = (IF inverted THEN Inverted(t) ELSE t)
  BY DEF Reported
<1> HIDE DEF u, v, s, t, p, q
<1>5. Close(Inverted(v), Inverted(t), d)
  BY <1>2, <1>3, Closeness DEF v, t
<1>6. Close(p.x, q.x, d)
  BY <1>4 DEF u, s
<1>7. Close(p.y, q.y, d)
  BY <1>4, <1>5 DEF v, t
<1> QED
  BY <1>6, <1>7 DEF p, q

(* applyStickDeadzone, applyInput: for every range of a stick, position,   *)
(* dead zone and inversion, the stick keeps its direction and its ends and *)
(* follows every unit of movement without a jump: at the dead zone's edge, *)
(* at the rim, where an axis changes its sign and where Y is inverted.     *)
THEOREM StickForm == Spec => []StickShape
<1>1. Computed => StickSmooth
  <2> SUFFICES ASSUME Computed, Returned("stick") PROVE StickSmooth
    BY DEF StickSmooth
  <2>1. /\ input \in Sticks
        /\ Result = Reported(input.x, input.y, input.deadzone, input.inverted)
    BY OwnInput DEF Computed, Returned, Result
  <2>2. PICK x \in Axis, y \in Axis, d \in Deadzones, inverted \in BOOLEAN :
           x = input.x /\ y = input.y /\ d = input.deadzone /\ inverted = input.inverted
    BY <2>1 DEF Sticks
  <2>3. x \in Int /\ y \in Int
    BY FullValues DEF Axis
  <2> DEFINE p == Reported(x, y, d, inverted)
             right == Reported(x + 1, y, d, inverted)
             up == Reported(x, y + 1, d, inverted)
  <2>4. x < FullStick => Close(p.x, right.x, d) /\ Close(p.y, right.y, d)
    <3> SUFFICES ASSUME x < FullStick PROVE Close(p.x, right.x, d) /\ Close(p.y, right.y, d)
      OBVIOUS
    <3>1. x + 1 \in Axis
      BY FullValues DEF Axis
    <3>2. Close(Stick(x, y, d), Stick(x + 1, y, d), d) /\ Close(Stick(y, x, d), Stick(y, x + 1, d), d)
      BY <2>3, Moved
    <3> QED
      BY <3>1, <3>2, ReportedClose
  <2>5. y < FullStick => Close(p.x, up.x, d) /\ Close(p.y, up.y, d)
    <3> SUFFICES ASSUME y < FullStick PROVE Close(p.x, up.x, d) /\ Close(p.y, up.y, d)
      OBVIOUS
    <3>1. y + 1 \in Axis
      BY FullValues DEF Axis
    <3>2. Close(Stick(x, y, d), Stick(x, y + 1, d), d) /\ Close(Stick(y, x, d), Stick(y + 1, x, d), d)
      BY <2>3, Moved
    <3> QED
      BY <3>1, <3>2, ReportedClose
  <2>6. Result = p
    BY <2>1, <2>2
  <2> HIDE DEF p
  <2> QED
    BY <2>2, <2>4, <2>5, <2>6 DEF StickSmooth, Close
<1> QED
  BY <1>1, Invariant, StickDirection, PTL DEF StickShape

-----------------------------------------------------------------------------
(* Sizes of the payloads.                                                  *)
LEMMA PayloadSizes ==
  /\ DOMAIN P!Payload = {"announce", "status", "guide", "serial", "input"}
  /\ \A c \in DOMAIN P!Payload : P!Payload[c] \in Nat
  /\ P!Payload.input = 14
  BY DEF P!Payload

(* A stretch of the transfer that lies in another.                         *)
Inside(b, from, upto) ==
    /\ b.from \in Int /\ b.upto \in Int
    /\ from <= b.from /\ b.from <= b.upto /\ b.upto <= upto
AllInside(result, from, upto) == \A b \in result.reads : Inside(b, from, upto)

IsResult(r) == r = [handler |-> r.handler, reads |-> r.reads]

Gips == [command: DOMAIN P!Payload \cup {"other"}, length: Nat, accessory: BOOLEAN]
Fits(gip) ==
    /\ ~gip.accessory /\ gip.command # "other"
    /\ gip.length = P!Payload[gip.command] \/ (gip.command = "input" /\ gip.length >= 14)

(* GipDevice::handlePacket: it reads what it was given, and hands over the *)
(* packets that are announced and have arrived with their full size.       *)
LEMMA GipReads ==
  ASSUME NEW x \in Int, NEW y \in Int, x <= y, NEW gip \in Gips
  PROVE  /\ IsResult(P!HandlePacket(P!Stretch(x, y), gip))
         /\ AllInside(P!HandlePacket(P!Stretch(x, y), gip), x, y)
         /\ P!HandlePacket(P!Stretch(x, y), gip).handler =
               IF Fits(gip) /\ y - x >= 4 + P!Payload[gip.command] THEN gip.command ELSE "none"
<1> DEFINE b == P!Stretch(x, y)
           frame == P!Struct(b, 0, P!GipFrame)
           data == P!Skip(b, P!GipFrame, 0)
           body == P!Struct(data, 0, P!Payload[gip.command])
           r == P!HandlePacket(b, gip)
<1>1. /\ frame = [from |-> x, upto |-> x + 4] /\ data = [from |-> x + 4, upto |-> y]
      /\ P!Size(b) = y - x /\ P!Size(data) = y - x - 4 /\ P!GipFrame = 4
  BY DEF P!Stretch, P!Struct, P!Skip, P!Size, P!GipFrame
<1>2. gip.command \in DOMAIN P!Payload =>
         /\ P!Payload[gip.command] \in Nat
         /\ body = [from |-> x + 4, upto |-> x + 4 + P!Payload[gip.command]]
  BY <1>1, PayloadSizes DEF P!Stretch, P!Struct
<1>3. gip.command \in DOMAIN P!Payload <=> gip.command # "other"
  BY PayloadSizes DEF Gips
<1>4. r = IF y - x < 4 THEN P!Ignored({})
          ELSE IF gip.accessory THEN P!Ignored({frame})
          ELSE IF gip.command \in DOMAIN P!Payload /\ P!LengthFits(gip, data)
          THEN P!Handled(gip.command, {frame, data, body})
          ELSE P!Ignored({frame, data})
  BY <1>1 DEF P!HandlePacket
<1>5. gip.command # "other" =>
         (P!LengthFits(gip, data) <=>
             /\ gip.length = P!Payload[gip.command] \/ (gip.command = "input" /\ gip.length >= 14)
             /\ y - x - 4 >= P!Payload[gip.command])
  BY <1>1, PayloadSizes DEF P!LengthFits
<1> HIDE DEF b, frame, data, body, r
<1>6. CASE y - x < 4
  <2>1. r = [handler |-> "none", reads |-> {}]
    BY <1>4, <1>6 DEF P!Ignored
  <2>2. ~(Fits(gip) /\ y - x >= 4 + P!Payload[gip.command])
    BY <1>2, <1>3, <1>6 DEF Fits
  <2> QED
    BY <2>1, <2>2 DEF AllInside, IsResult, r, b
<1>7. CASE y - x >= 4 /\ gip.accessory
  <2>1. r = [handler |-> "none", reads |-> {frame}]
    BY <1>4, <1>7 DEF P!Ignored
  <2>2. Inside(frame, x, y)
    BY <1>1, <1>7 DEF Inside
  <2> QED
    BY <1>7, <2>1, <2>2 DEF AllInside, Fits, IsResult, r, b
<1>8. CASE y - x >= 4 /\ ~gip.accessory /\ gip.command # "other" /\ P!LengthFits(gip, data)
  <2>1. r = [handler |-> gip.command, reads |-> {frame, data, body}]
    BY <1>3, <1>4, <1>8 DEF P!Handled
  <2>2. Fits(gip) /\ y - x >= 4 + P!Payload[gip.command]
    BY <1>2, <1>3, <1>5, <1>8 DEF Fits
  <2>3. Inside(frame, x, y) /\ Inside(data, x, y) /\ Inside(body, x, y)
    BY <1>1, <1>2, <1>3, <1>8, <2>2 DEF Inside
  <2> QED
    BY <2>1, <2>2, <2>3 DEF AllInside, IsResult, r, b
<1>9. CASE y - x >= 4 /\ ~gip.accessory /\ ~(gip.command # "other" /\ P!LengthFits(gip, data))
  <2>1. r = [handler |-> "none", reads |-> {frame, data}]
    BY <1>3, <1>4, <1>9 DEF P!Ignored
  <2>2. ~(Fits(gip) /\ y - x >= 4 + P!Payload[gip.command])
    BY <1>2, <1>3, <1>5, <1>9 DEF Fits
  <2>3. Inside(frame, x, y) /\ Inside(data, x, y)
    BY <1>1, <1>9 DEF Inside
  <2> QED
    BY <2>1, <2>2, <2>3 DEF AllInside, IsResult, r, b
<1> QED
  BY <1>6, <1>7, <1>8, <1>9 DEF Gips

(* What reading some more does to a result.                                *)
LEMMA AfterReads ==
  ASSUME NEW reads, NEW rest, IsResult(rest)
  PROVE  P!After(reads, rest) = [handler |-> rest.handler, reads |-> rest.reads \cup reads]
  BY DEF IsResult, P!After

(* handleControllerPacket: two bytes of padding follow the QosFrame.       *)
LEMMA ControllerReads ==
  ASSUME NEW x \in Int, NEW y \in Int, x <= y, NEW gip \in Gips, NEW wcid \in Nat,
         NEW count \in Nat
  PROVE  LET r == P!HandleControllerPacket(P!Stretch(x, y), wcid, count, gip)
         IN /\ IsResult(r) /\ AllInside(r, x, y)
            /\ r.handler = IF wcid \in 1..count /\ Fits(gip)
                                 /\ y - x >= 8 + P!Payload[gip.command]
                           THEN gip.command ELSE "none"
<1> DEFINE b == P!Stretch(x, y)
           data == P!Skip(b, P!QosFrame + 2, 0)
           rest == P!HandlePacket(data, gip)
           r == P!HandleControllerPacket(b, wcid, count, gip)
<1>1. data = P!Stretch(x + 4, y) /\ P!Size(b) = y - x /\ P!QosFrame + 2 = 4
  BY DEF P!Stretch, P!Skip, P!Size, P!QosFrame
<1>2. data = [from |-> x + 4, upto |-> y]
  BY <1>1 DEF P!Stretch
<1>3. r = IF wcid = 0 \/ wcid > count \/ y - x <= 4 THEN P!Ignored({})
          ELSE P!After({data}, rest)
  BY <1>1 DEF P!HandleControllerPacket
<1>4. gip.command # "other" => P!Payload[gip.command] \in Nat
  BY PayloadSizes DEF Gips
<1>5. x + 4 \in Int /\ (y - x > 4 => x + 4 <= y)
  OBVIOUS
<1>6. y - x > 4 =>
         /\ IsResult(rest) /\ AllInside(rest, x + 4, y)
         /\ rest.handler = IF Fits(gip) /\ y - (x + 4) >= 4 + P!Payload[gip.command]
                           THEN gip.command ELSE "none"
  BY <1>1, <1>5, GipReads
<1> HIDE DEF b, data, rest, r
<1>7. CASE wcid = 0 \/ wcid > count \/ y - x <= 4
  <2>1. r = [handler |-> "none", reads |-> {}]
    BY <1>3, <1>7 DEF P!Ignored
  <2>2. ~(wcid \in 1..count /\ Fits(gip) /\ y - x >= 8 + P!Payload[gip.command])
    BY <1>4, <1>7 DEF Fits
  <2> QED
    BY <2>1, <2>2 DEF IsResult, AllInside, r, b
<1>8. CASE ~(wcid = 0 \/ wcid > count \/ y - x <= 4)
  <2>1. r = [handler |-> rest.handler, reads |-> rest.reads \cup {data}]
    <3>1. IsResult(rest) /\ r = P!After({data}, rest)
      BY <1>3, <1>6, <1>8
    <3> QED
      BY <3>1, AfterReads
  <2>2. AllInside(r, x, y)
    <3>1. \A c \in rest.reads : Inside(c, x, y)
      BY <1>6, <1>8 DEF AllInside, Inside
    <3>2. Inside(data, x, y)
      BY <1>2, <1>8 DEF Inside
    <3> QED
      BY <2>1, <3>1, <3>2 DEF AllInside
  <2>3. rest.handler = IF wcid \in 1..count /\ Fits(gip)
                             /\ y - x >= 8 + P!Payload[gip.command]
                       THEN gip.command ELSE "none"
    BY <1>4, <1>6, <1>8 DEF Fits
  <2> QED
    BY <2>1, <2>2, <2>3 DEF IsResult, r, b
<1> QED
  BY <1>7, <1>8

(* handleControllerPair                                                    *)
LEMMA PairReads ==
  ASSUME NEW x \in Int, NEW y \in Int, x <= y, NEW request \in BOOLEAN
  PROVE  LET r == P!HandleControllerPair(P!Stretch(x, y), request)
         IN /\ IsResult(r) /\ AllInside(r, x, y)
            /\ r.handler = IF y - x >= 2 /\ request THEN "pair" ELSE "none"
<1> DEFINE r == P!HandleControllerPair(P!Stretch(x, y), request)
           frame == [from |-> x, upto |-> x + 2]
<1>0. /\ P!Struct(P!Stretch(x, y), 0, P!ReservedFrame) = frame
      /\ P!Size(P!Stretch(x, y)) = y - x /\ P!ReservedFrame = 2
  BY DEF P!Stretch, P!Struct, P!Size, P!ReservedFrame
<1>1. r = IF y - x < 2 THEN P!Ignored({})
          ELSE IF request THEN P!Handled("pair", {frame}) ELSE P!Ignored({frame})
  BY <1>0 DEF P!HandleControllerPair
<1>2. y - x >= 2 => Inside(frame, x, y)
  BY DEF Inside
<1> HIDE DEF r, frame
<1>3. CASE y - x < 2
  <2>1. r = [handler |-> "none", reads |-> {}]
    BY <1>1, <1>3 DEF P!Ignored
  <2> QED
    BY <1>3, <2>1 DEF IsResult, AllInside, r
<1>4. CASE y - x >= 2 /\ request
  <2>1. r = [handler |-> "pair", reads |-> {frame}]
    BY <1>1, <1>4 DEF P!Handled
  <2>2. IsResult(r) /\ AllInside(r, x, y) /\ r.handler = "pair"
    BY <1>2, <1>4, <2>1 DEF IsResult, AllInside
  <2> QED
    BY <1>4, <2>2 DEF r
<1>5. CASE y - x >= 2 /\ ~request
  <2>1. r = [handler |-> "none", reads |-> {frame}]
    BY <1>1, <1>5 DEF P!Ignored
  <2> QED
    BY <1>2, <1>5, <2>1 DEF IsResult, AllInside, r
<1> QED
  BY <1>3, <1>4, <1>5

(* What a whole transfer of a wlan packet has in it, its RxWi and frame    *)
(* header included: its handler, and its size.                             *)
Content(t) ==
    CASE ~t.toUs -> <<"none", 0>>
      [] t.toUs /\ t.frame = "association" -> <<"connect", 57>>
      [] t.toUs /\ t.frame = "disassociation" -> <<"disconnect", 57>>
      [] t.toUs /\ t.frame = "reserved" /\ t.request -> <<"pair", 58>>
      [] t.toUs /\ t.frame = "data" /\ t.wcid \in 1..t.count /\ Fits(t.gip) ->
            <<t.gip.command, 64 + P!Payload[t.gip.command]>>
      [] OTHER -> <<"none", 0>>

Transfer(t) ==
    /\ t.size \in Nat /\ t.toUs \in BOOLEAN /\ t.request \in BOOLEAN
    /\ t.wcid \in Nat /\ t.count \in Nat /\ t.gip \in Gips

(* Sizes of what is in a wlan packet.                                      *)
LEMMA ContentSizes ==
  ASSUME NEW t, Transfer(t)
  PROVE  /\ Content(t)[2] \in Nat
         /\ (Content(t)[2] = 0 /\ Content(t)[1] = "none") \/ Content(t)[2] > 56
<1>1. Fits(t.gip) => P!Payload[t.gip.command] \in Nat
  BY PayloadSizes DEF Fits, Transfer, Gips
<1> DEFINE data == t.toUs /\ t.frame = "data" /\ t.wcid \in 1..t.count /\ Fits(t.gip)
           p == P!Payload[t.gip.command]
<1>2. data => Content(t) = <<t.gip.command, 64 + p>>
  BY DEF Content
<1>3. ~data => Content(t) \in {<<"none", 0>>, <<"connect", 57>>, <<"disconnect", 57>>, <<"pair", 58>>}
  BY DEF Content
<1>4. data => 64 + p \in Nat /\ 64 + p > 56
  BY <1>1
<1> HIDE DEF data, p
<1> QED
  BY <1>2, <1>3, <1>4

(* handleWlanPacket                                                        *)
LEMMA WlanReads ==
  ASSUME NEW t, Transfer(t), NEW x \in Int, NEW y \in Int, x <= y
  PROVE  LET r == P!HandleWlanPacket(P!Stretch(x, y), t)
         IN /\ IsResult(r) /\ AllInside(r, x, y)
            /\ r.handler = IF y - x >= Content(t)[2] THEN Content(t)[1] ELSE "none"
<1> DEFINE b == P!Stretch(x, y)
           inner == P!Skip(b, P!RxWi + P!WlanFrame, 0)
           wi == P!Struct(b, 0, P!RxWi)
           wlan == P!Struct(b, P!RxWi, P!WlanFrame)
           pair == P!HandleControllerPair(inner, t.request)
           packet == P!HandleControllerPacket(inner, t.wcid, t.count, t.gip)
           none == [handler |-> "none", reads |-> {}]
           Rest ==
               CASE t.frame = "association" -> P!Handled("connect", {})
                 [] t.frame = "disassociation" -> P!Handled("disconnect", {})
                 [] t.frame = "reserved" -> P!After({inner}, pair)
                 [] t.frame = "data" -> P!After({inner}, packet)
                 [] OTHER -> P!Ignored({})
           r == P!HandleWlanPacket(b, t)
<1>1. /\ inner = P!Stretch(x + 56, y) /\ P!Size(b) = y - x /\ P!RxWi + P!WlanFrame = 56
      /\ wi = [from |-> x, upto |-> x + 32] /\ wlan = [from |-> x + 32, upto |-> x + 56]
  BY DEF P!Stretch, P!Skip, P!Struct, P!Size, P!RxWi, P!WlanFrame
<1>2. inner = [from |-> x + 56, upto |-> y]
  BY <1>1 DEF P!Stretch
<1>3. r = IF y - x <= 56 THEN P!Ignored({})
          ELSE P!After({wi, wlan}, IF t.toUs THEN Rest ELSE P!Ignored({}))
  BY <1>1 DEF P!HandleWlanPacket
<1>4. P!Ignored({}) = none /\ \A h : P!Handled(h, {}) = [handler |-> h, reads |-> {}]
  BY DEF P!Ignored, P!Handled
<1>5. PICK z \in Int : z = x + 56
  OBVIOUS
<1>6. ASSUME y - x > 56
      PROVE  /\ IsResult(packet) /\ AllInside(packet, z, y)
             /\ packet.handler = IF t.wcid \in 1..t.count /\ Fits(t.gip)
                                       /\ y - z >= 8 + P!Payload[t.gip.command]
                                 THEN t.gip.command ELSE "none"
  <2>1. PICK wcid \in Nat, count \in Nat, gip \in Gips :
           wcid = t.wcid /\ count = t.count /\ gip = t.gip
    BY DEF Transfer
  <2>2. packet = P!HandleControllerPacket(P!Stretch(z, y), wcid, count, gip) /\ z <= y
    BY <1>1, <1>5, <1>6, <2>1
  <2>3. LET r0 == P!HandleControllerPacket(P!Stretch(z, y), wcid, count, gip)
        IN /\ IsResult(r0) /\ AllInside(r0, z, y)
           /\ r0.handler = IF wcid \in 1..count /\ Fits(gip)
                                 /\ y - z >= 8 + P!Payload[gip.command]
                           THEN gip.command ELSE "none"
    BY <2>2, ControllerReads
  <2> HIDE DEF packet
  <2> QED
    BY <2>1, <2>2, <2>3
<1>7. ASSUME y - x > 56
      PROVE  /\ IsResult(pair) /\ AllInside(pair, z, y)
             /\ pair.handler = IF y - z >= 2 /\ t.request THEN "pair" ELSE "none"
  <2>1. PICK request \in BOOLEAN : request = t.request
    BY DEF Transfer
  <2>2. pair = P!HandleControllerPair(P!Stretch(z, y), request) /\ z <= y
    BY <1>1, <1>5, <1>7, <2>1
  <2> QED
    BY <2>1, <2>2, PairReads
<1> DEFINE outer == {wi, wlan}
           Found(h, n) == /\ IsResult(r) /\ AllInside(r, x, y)
                          /\ r.handler = IF y - x >= n THEN h ELSE "none"
<1>8. y - x > 56 => Inside(wi, x, y) /\ Inside(wlan, x, y) /\ Inside(inner, x, y)
  BY <1>1, <1>2 DEF Inside
<1>9. \A b1 : Inside(b1, z, y) => Inside(b1, x, y)
  BY <1>5 DEF Inside
<1>10. /\ Content(t)[2] \in Nat
       /\ (Content(t)[2] = 0 /\ Content(t)[1] = "none") \/ Content(t)[2] > 56
  BY ContentSizes
<1> HIDE DEF b, inner, wi, wlan, pair, packet, r
<1>11. ASSUME y - x > 56, NEW rest, IsResult(rest), r = P!After(outer, rest),
              \A b1 \in rest.reads : Inside(b1, x, y)
       PROVE  IsResult(r) /\ AllInside(r, x, y) /\ r.handler = rest.handler
  <2>1. r = [handler |-> rest.handler, reads |-> rest.reads \cup outer]
    BY <1>11, AfterReads
  <2>2. \A b1 \in r.reads : Inside(b1, x, y)
    <3>1. \A b1 \in rest.reads \cup {wi, wlan} : Inside(b1, x, y)
      BY <1>8, <1>11
    <3> QED
      BY <2>1, <3>1
  <2>3. IsResult(r) /\ r.handler = rest.handler
    BY <2>1 DEF IsResult
  <2> QED
    BY <2>2, <2>3 DEF AllInside
<1>12. ASSUME y - x > 56, NEW h, r = P!After(outer, [handler |-> h, reads |-> {}])
       PROVE  IsResult(r) /\ AllInside(r, x, y) /\ r.handler = h
  <2> DEFINE rest == [handler |-> h, reads |-> {}]
  <2>1. /\ IsResult(rest) /\ rest.handler = h /\ r = P!After(outer, rest)
        /\ \A b1 \in rest.reads : Inside(b1, x, y)
    BY <1>12 DEF IsResult
  <2> HIDE DEF rest
  <2> QED
    BY <1>11, <1>12, <2>1
<1>13. ASSUME y - x > 56, NEW rest, IsResult(rest), AllInside(rest, z, y),
              r = P!After(outer, P!After({inner}, rest))
       PROVE  IsResult(r) /\ AllInside(r, x, y) /\ r.handler = rest.handler
  <2> DEFINE more == P!After({inner}, rest)
  <2>1. more = [handler |-> rest.handler, reads |-> rest.reads \cup {inner}]
    BY <1>13, AfterReads
  <2>2. IsResult(more) /\ more.handler = rest.handler
    BY <2>1 DEF IsResult
  <2>3. \A b1 \in more.reads : Inside(b1, x, y)
    BY <1>8, <1>9, <1>13, <2>1 DEF AllInside
  <2> HIDE DEF more
  <2>4. r = P!After(outer, more)
    BY <1>13 DEF more
  <2> QED
    BY <1>11, <1>13, <2>2, <2>3, <2>4
<1>14. CASE y - x <= 56
  <2>1. r = none
    BY <1>3, <1>4, <1>14
  <2>2. IsResult(r) /\ AllInside(r, x, y) /\ r.handler = "none"
    BY <2>1 DEF IsResult, AllInside
  <2>3. (IF y - x >= Content(t)[2] THEN Content(t)[1] ELSE "none") = "none"
    BY <1>10, <1>14
  <2> QED
    BY <2>2, <2>3 DEF r, b
<1>15. CASE y - x > 56 /\ ~t.toUs
  <2>1. r = P!After(outer, none)
    BY <1>3, <1>4, <1>15
  <2>2. Content(t) = <<"none", 0>>
    BY <1>15 DEF Content
  <2> QED
    BY <1>12, <1>15, <2>1, <2>2 DEF r, b
<1>16. CASE y - x > 56 /\ t.toUs /\ t.frame = "association"
  <2>1. r = P!After(outer, [handler |-> "connect", reads |-> {}])
    BY <1>3, <1>4, <1>16
  <2>2. Content(t) = <<"connect", 57>>
    BY <1>16 DEF Content
  <2> QED
    BY <1>12, <1>16, <2>1, <2>2 DEF r, b
<1>17. CASE y - x > 56 /\ t.toUs /\ t.frame = "disassociation"
  <2>1. r = P!After(outer, [handler |-> "disconnect", reads |-> {}])
    BY <1>3, <1>4, <1>17
  <2>2. Content(t) = <<"disconnect", 57>>
    BY <1>17 DEF Content
  <2> QED
    BY <1>12, <1>17, <2>1, <2>2 DEF r, b
<1>18. CASE y - x > 56 /\ t.toUs /\ t.frame = "reserved"
  <2>1. r = P!After(outer, P!After({inner}, pair))
    BY <1>3, <1>18
  <2>2. Content(t) = IF t.request THEN <<"pair", 58>> ELSE <<"none", 0>>
    BY <1>18 DEF Content
  <2>3. IsResult(r) /\ AllInside(r, x, y) /\ r.handler = pair.handler
    BY <1>7, <1>13, <1>18, <2>1
  <2> QED
    BY <1>5, <1>7, <1>18, <2>2, <2>3 DEF r, b
<1>19. CASE y - x > 56 /\ t.toUs /\ t.frame = "data"
  <2>1. r = P!After(outer, P!After({inner}, packet))
    BY <1>3, <1>19
  <2>2. Content(t) = IF t.wcid \in 1..t.count /\ Fits(t.gip)
                     THEN <<t.gip.command, 64 + P!Payload[t.gip.command]>>
                     ELSE <<"none", 0>>
    BY <1>19 DEF Content
  <2>3. IsResult(r) /\ AllInside(r, x, y) /\ r.handler = packet.handler
    BY <1>6, <1>13, <1>19, <2>1
  <2>4. Fits(t.gip) => P!Payload[t.gip.command] \in Nat
    BY PayloadSizes DEF Fits, Transfer, Gips
  <2>5. packet.handler = IF y - x >= Content(t)[2] THEN Content(t)[1] ELSE "none"
    <3>1. CASE t.wcid \in 1..t.count /\ Fits(t.gip)
      <4>1. y - z >= 8 + P!Payload[t.gip.command] <=> y - x >= 64 + P!Payload[t.gip.command]
        BY <1>5, <2>4, <3>1
      <4> QED
        BY <1>6, <1>19, <2>2, <3>1, <4>1
    <3>2. CASE ~(t.wcid \in 1..t.count /\ Fits(t.gip))
      BY <1>6, <1>19, <2>2, <3>2
    <3> QED
      BY <3>1, <3>2
  <2> QED
    BY <2>3, <2>5 DEF r, b
<1>20. CASE /\ y - x > 56 /\ t.toUs
            /\ t.frame \notin {"association", "disassociation", "reserved", "data"}
  <2>1. r = P!After(outer, none)
    BY <1>3, <1>4, <1>20
  <2>2. Content(t) = <<"none", 0>>
    BY <1>20 DEF Content
  <2> QED
    BY <1>12, <1>20, <2>1, <2>2 DEF r, b
<1> QED
  BY <1>14, <1>15, <1>16, <1>17, <1>18, <1>19, <1>20

(* What a whole transfer has in it, information and end marker included.   *)
Wanted(t) ==
    CASE t.info = "button" -> <<"pairing", 9>>
      [] t.info = "lost" -> <<"disconnect", 9>>
      [] t.info \in {"packet", "wlan"} ->
            <<Content(t)[1], IF Content(t)[2] = 0 THEN 0 ELSE Content(t)[2] + 8>>
      [] OTHER -> <<"none", 0>>

(* handleBulkData                                                          *)
LEMMA BulkReads ==
  ASSUME NEW t, Transfer(t), t.size \in Nat
  PROVE  LET r == P!HandleBulkData(t)
         IN /\ AllInside(r, 0, t.size - 4)
            /\ r.handler = IF t.size >= Wanted(t)[2] THEN Wanted(t)[1] ELSE "none"
<1> DEFINE size == t.size
           head == [from |-> 0, upto |-> 4]
           packet == P!Stretch(4, size - 4)
           button == [from |-> 4, upto |-> 5]
           wlan == P!HandleWlanPacket(packet, t)
           Rest ==
               CASE t.info = "button" -> P!Handled("pairing", {})
                 [] t.info = "lost" -> P!Handled("disconnect", {button})
                 [] t.info \in {"packet", "wlan"} -> wlan
                 [] OTHER -> P!Ignored({})
           outer == {head, packet}
           r == P!HandleBulkData(t)
<1>1. /\ P!Skip(P!Stretch(0, size), P!Word, P!Word) = packet
      /\ P!Size(P!Stretch(0, size)) = size /\ P!Word = 4
      /\ P!Struct(P!Stretch(0, size), 0, P!Word) = head
      /\ P!Struct(packet, 0, 1) = button
  BY DEF P!Stretch, P!Skip, P!Struct, P!Size, P!Word
<1>2. r = IF size <= 8 THEN P!Ignored({}) ELSE P!After(outer, Rest)
  <2> DEFINE all == P!Stretch(0, size)
             bytes == P!Skip(all, P!Word, P!Word)
             rest == CASE t.info = "button" -> P!Handled("pairing", {})
                       [] t.info = "lost" -> P!Handled("disconnect", {P!Struct(bytes, 0, 1)})
                       [] t.info \in {"packet", "wlan"} -> P!HandleWlanPacket(bytes, t)
                       [] OTHER -> P!Ignored({})
  <2>1. r = IF P!Size(all) <= P!Word + P!Word THEN P!Ignored({})
            ELSE P!After({P!Struct(all, 0, P!Word), bytes}, rest)
    BY DEF P!HandleBulkData
  <2>2. rest = Rest
    BY <1>1
  <2>3. /\ P!Size(all) = size /\ P!Word + P!Word = 8
        /\ {P!Struct(all, 0, P!Word), bytes} = outer
    BY <1>1
  <2> HIDE DEF all, bytes, rest, outer, Rest
  <2> QED
    BY <2>1, <2>2, <2>3
<1>3. size > 8 => /\ Inside(head, 0, size - 4) /\ Inside(packet, 0, size - 4)
                  /\ Inside(button, 0, size - 4)
  BY DEF Inside, P!Stretch
<1>4. size > 8 => /\ IsResult(wlan) /\ AllInside(wlan, 4, size - 4)
                  /\ wlan.handler = IF size - 4 - 4 >= Content(t)[2]
                                    THEN Content(t)[1] ELSE "none"
  <2>1. PICK u \in Int : u = size - 4
    OBVIOUS
  <2>2. size > 8 => LET r0 == P!HandleWlanPacket(P!Stretch(4, u), t)
                    IN /\ IsResult(r0) /\ AllInside(r0, 4, u)
                       /\ r0.handler = IF u - 4 >= Content(t)[2] THEN Content(t)[1] ELSE "none"
    <3>1. size > 8 => 4 <= u
      BY <2>1
    <3> QED
      BY <3>1, WlanReads
  <2> QED
    BY <2>1, <2>2
<1> HIDE DEF head, packet, button, wlan, r
<1>5. ASSUME size > 8, NEW rest, IsResult(rest), r = P!After(outer, rest),
             \A b \in rest.reads : Inside(b, 0, size - 4)
      PROVE  AllInside(r, 0, size - 4) /\ r.handler = rest.handler
  <2>1. r = [handler |-> rest.handler, reads |-> rest.reads \cup outer]
    BY <1>5, AfterReads
  <2>2. \A b \in rest.reads \cup {head, packet} : Inside(b, 0, size - 4)
    BY <1>3, <1>5
  <2>3. \A b \in r.reads : Inside(b, 0, size - 4)
    BY <2>1, <2>2
  <2> QED
    BY <2>1, <2>3 DEF AllInside
<1>6. CASE size <= 8
  <2>1. r = [handler |-> "none", reads |-> {}]
    BY <1>2, <1>6 DEF P!Ignored
  <2>2. AllInside(r, 0, size - 4) /\ r.handler = "none"
    BY <2>1 DEF AllInside
  <2>3. Wanted(t)[2] \in Nat /\ (Wanted(t)[2] > 8 \/ Wanted(t)[1] = "none")
    BY ContentSizes DEF Wanted
  <2> QED
    BY <1>6, <2>2, <2>3 DEF r
<1>7. CASE size > 8 /\ t.info = "button"
  <2> DEFINE rest == [handler |-> "pairing", reads |-> {}]
  <2>1. r = P!After(outer, rest)
    BY <1>2, <1>7 DEF P!Handled
  <2>2. IsResult(rest) /\ rest.handler = "pairing" /\ \A b \in rest.reads : Inside(b, 0, size - 4)
    BY DEF IsResult
  <2> HIDE DEF rest
  <2>3. AllInside(r, 0, size - 4) /\ r.handler = "pairing"
    BY <1>5, <1>7, <2>1, <2>2
  <2>4. Wanted(t) = <<"pairing", 9>>
    BY <1>7 DEF Wanted
  <2> QED
    BY <1>7, <2>3, <2>4 DEF r
<1>8. CASE size > 8 /\ t.info = "lost"
  <2> DEFINE rest == [handler |-> "disconnect", reads |-> {button}]
  <2>1. r = P!After(outer, rest)
    BY <1>2, <1>8 DEF P!Handled
  <2>2. /\ IsResult(rest) /\ rest.handler = "disconnect"
        /\ \A b \in rest.reads : Inside(b, 0, size - 4)
    BY <1>3, <1>8 DEF IsResult
  <2> HIDE DEF rest
  <2>3. AllInside(r, 0, size - 4) /\ r.handler = "disconnect"
    BY <1>5, <1>8, <2>1, <2>2
  <2>4. Wanted(t) = <<"disconnect", 9>>
    BY <1>8 DEF Wanted
  <2> QED
    BY <1>8, <2>3, <2>4 DEF r
<1>9. CASE size > 8 /\ t.info \in {"packet", "wlan"}
  <2>1. r = P!After(outer, wlan)
    BY <1>2, <1>9
  <2>2. \A b \in wlan.reads : Inside(b, 0, size - 4)
    BY <1>4, <1>9 DEF AllInside, Inside
  <2>3. AllInside(r, 0, size - 4) /\ r.handler = wlan.handler
    BY <1>4, <1>5, <1>9, <2>1, <2>2
  <2>4. wlan.handler = IF size >= Wanted(t)[2] THEN Wanted(t)[1] ELSE "none"
    <3>1. Wanted(t) = <<Content(t)[1], IF Content(t)[2] = 0 THEN 0 ELSE Content(t)[2] + 8>>
      BY <1>9 DEF Wanted
    <3>2. size - 4 - 4 >= Content(t)[2] <=> size >= IF Content(t)[2] = 0 THEN 0 ELSE Content(t)[2] + 8
      BY <1>9, ContentSizes
    <3> QED
      BY <1>4, <1>9, <3>1, <3>2
  <2> QED
    BY <2>3, <2>4 DEF r
<1>10. CASE size > 8 /\ t.info \notin {"button", "lost", "packet", "wlan"}
  <2> DEFINE rest == [handler |-> "none", reads |-> {}]
  <2>1. r = P!After(outer, rest)
    BY <1>2, <1>10 DEF P!Ignored
  <2>2. IsResult(rest) /\ rest.handler = "none" /\ \A b \in rest.reads : Inside(b, 0, size - 4)
    BY DEF IsResult
  <2> HIDE DEF rest
  <2>3. AllInside(r, 0, size - 4) /\ r.handler = "none"
    BY <1>5, <1>10, <2>1, <2>2
  <2>4. Wanted(t) = <<"none", 0>>
    BY <1>10 DEF Wanted
  <2> QED
    BY <1>10, <2>3, <2>4 DEF r
<1> QED
  BY <1>6, <1>7, <1>8, <1>9, <1>10

(* handleBulkData to handlePacket: for a transfer of any size with a       *)
(* packet that claims any length, nothing outside its bytes is read, and   *)
(* the packet reaches its handler exactly if it has arrived whole.         *)
THEOREM PacketsWithinBytes == Spec => [](ReadsInside /\ WholeHandled)
<1>1. Computed => ReadsInside /\ WholeHandled
  <2> SUFFICES ASSUME Computed, Returned("receive") PROVE ReadsInside /\ WholeHandled
    BY DEF ReadsInside, WholeHandled
  <2>1. input \in Receptions /\ Result = P!HandleBulkData(input)
    BY OwnInput DEF Computed, Returned, Result
  <2>2. Transfer(input) /\ input.count = WcidCount
    <3>1. NoGip \subseteq Gips /\ GipFrames \subseteq Gips
      <4>1. [command |-> "other", length |-> 0, accessory |-> FALSE] \in Gips
        BY DEF Gips
      <4>2. ASSUME NEW g \in GipFrames PROVE g \in Gips
        <5>1. Lengths \subseteq Nat
          BY ConversionConstants
        <5> QED
          BY <5>1 DEF GipFrames, Gips
      <4> QED
        BY <4>1, <4>2 DEF NoGip
    <3> DEFINE Fields(info, frame, toUs, request, wcid, gip) ==
                   /\ input.size \in 0..MaxSize /\ input.toUs \in toUs
                   /\ input.request \in request /\ input.wcid \in wcid
                   /\ input.gip \in gip /\ input.count = WcidCount
    <3>2. \A info, frame, toUs, request, wcid, gip :
             input \in Received(info, frame, toUs, request, wcid, gip)
                => Fields(info, frame, toUs, request, wcid, gip)
      BY DEF Received
    <3>3. /\ input.size \in 0..MaxSize /\ input.count = WcidCount
          /\ input.toUs \in BOOLEAN /\ input.request \in BOOLEAN /\ input.gip \in Gips
          /\ input.wcid \in {0, 1, WcidCount, WcidCount + 1}
      <4>1. CASE input \in Received({"button", "lost", "other"}, {"none"}, {FALSE}, {FALSE}, {0}, NoGip)
        <5>1. Fields({"button", "lost", "other"}, {"none"}, {FALSE}, {FALSE}, {0}, NoGip)
          BY <3>2, <4>1
        <5> QED
          BY <3>1, <5>1
      <4>2. CASE input \in Received({"packet", "wlan"},
                                   {"association", "disassociation", "reserved", "other"},
                                   BOOLEAN, BOOLEAN, {0}, NoGip)
        BY <3>1, <3>2, <4>2
      <4>3. CASE input \in Received({"wlan"}, {"data"}, {TRUE}, {FALSE},
                                   {0, 1, WcidCount, WcidCount + 1}, GipFrames)
        <5>1. Fields({"wlan"}, {"data"}, {TRUE}, {FALSE}, {0, 1, WcidCount, WcidCount + 1}, GipFrames)
          BY <3>2, <4>3
        <5> QED
          BY <3>1, <5>1
      <4> QED
        BY <2>1, <4>1, <4>2, <4>3 DEF Receptions
    <3> QED
      BY <3>3, ConversionConstants DEF Transfer
  <2>3. ReadsInside
    BY <2>1, <2>2, BulkReads DEF ReadsInside, AllInside, Inside, Transfer
  <2>4. Whole = Wanted(input)
    BY <2>1, <2>2 DEF Whole, Wanted, Content, Fits
  <2>5. WholeHandled
    BY <2>1, <2>2, <2>4, BulkReads DEF WholeHandled, Transfer
  <2> QED
    BY <2>3, <2>5
<1> QED
  BY <1>1, Invariant, PTL

-----------------------------------------------------------------------------
(* The packets that are sent. Length and Counted are folds as well, of the *)
(* sizes of the parts; from what they are for two packets one after the    *)
(* other follows how packets may be put together.                          *)
Sums(iter, w, n) ==
    iter = [s \in SUBSET (1..n) |-> IF s = {} THEN 0 ELSE iter[s \ {Max(s)}] + w[Max(s)]]
Adds(sum, w, n) ==
    sum[0] = 0 /\ \A i \in 1..n : sum[i] = sum[i - 1] + w[i]

(* There is such a fold, for each number of them.                          *)
LEMMA SumExists ==
  ASSUME NEW w, NEW n \in Nat
  PROVE  \E iter : Sums(iter, w, n)
<1> DEFINE T == {m \in Nat : ~\E iter : Sums(iter, w, m)}
<1>1. SUFFICES ASSUME T # {} PROVE FALSE
  OBVIOUS
<1>2. PICK m \in T : \A k \in T : m <= k
  BY <1>1, LeastExists
<1>3. CASE m = 0
  <2> DEFINE iter == [s \in SUBSET (1..0) |-> 0]
  <2>1. SUBSET (1..0) = {{}}
    OBVIOUS
  <2>2. Sums(iter, w, 0)
    BY <2>1 DEF Sums
  <2> QED
    BY <1>3, <2>2
<1>4. CASE m # 0
  <2>1. PICK k \in Nat : m = k + 1
    <3>1. m - 1 \in Nat /\ m = (m - 1) + 1
      BY <1>4
    <3> QED
      BY <3>1
  <2>2. k \notin T
    BY <1>2, <2>1
  <2>3. PICK g : Sums(g, w, k)
    BY <2>2
  <2> DEFINE iter == [s \in SUBSET (1..m) |-> IF m \in s THEN g[s \ {m}] + w[m] ELSE g[s]]
  <2>4. ASSUME NEW s \in SUBSET (1..m)
        PROVE  iter[s] = IF s = {} THEN 0 ELSE iter[s \ {Max(s)}] + w[Max(s)]
    <3>1. CASE m \in s
      <4>1. Max(s) = m
        <5>1. s \subseteq Int /\ \A j \in s : j <= m
          BY <2>1
        <5> QED
          BY <3>1, <5>1, LargestIs
      <4>2. s \ {m} \in SUBSET (1..m) /\ m \notin s \ {m}
        OBVIOUS
      <4>3. iter[s \ {m}] = g[s \ {m}]
        BY <4>2
      <4> QED
        BY <3>1, <4>1, <4>3
    <3>2. CASE m \notin s
      <4>1. s \subseteq 1..k
        BY <2>1, <3>2
      <4>2. iter[s] = g[s]
        BY <3>2
      <4>3. g[s] = IF s = {} THEN 0 ELSE g[s \ {Max(s)}] + w[Max(s)]
        BY <2>3, <4>1 DEF Sums
      <4>4. iter[s \ {Max(s)}] = g[s \ {Max(s)}]
        BY <3>2, <4>1
      <4> QED
        BY <4>2, <4>3, <4>4
    <3> QED
      BY <3>1, <3>2
  <2>5. Sums(iter, w, m)
    BY <2>4 DEF Sums
  <2> QED
    BY <2>5
<1> QED
  BY <1>3, <1>4

(* It adds up the numbers from the first to the last.                      *)
LEMMA SumAdds ==
  ASSUME NEW w, NEW n \in Nat, NEW iter, Sums(iter, w, n)
  PROVE  \E sum : Adds(sum, w, n) /\ sum[n] = iter[1..n]
<1> DEFINE sum == [i \in 0..n |-> iter[1..i]]
<1>1. sum[0] = 0
  <2>1. 1..0 = {} /\ {} \in SUBSET (1..n)
    OBVIOUS
  <2>2. iter[{}] = 0
    BY <2>1 DEF Sums
  <2> QED
    BY <2>1, <2>2
<1>2. ASSUME NEW i \in 1..n
      PROVE  sum[i] = sum[i - 1] + w[i]
  <2>1. 1..i \in SUBSET (1..n) /\ 1..i # {} /\ (1..i) \ {i} = 1..(i - 1)
    <3>1. i \in 1..i /\ \A j \in 1..i : j \in 1..n
      OBVIOUS
    <3>2. \A j : j \in (1..i) \ {i} <=> j \in 1..(i - 1)
      OBVIOUS
    <3> QED
      BY <3>1, <3>2
  <2>2. Max(1..i) = i
    <3>1. 1..i \subseteq Int /\ i \in 1..i /\ \A j \in 1..i : j <= i
      OBVIOUS
    <3> QED
      BY <3>1, LargestIs
  <2>3. iter[1..i] = iter[1..(i - 1)] + w[i]
    BY <2>1, <2>2 DEF Sums
  <2>4. i \in 0..n /\ i - 1 \in 0..n
    OBVIOUS
  <2> QED
    BY <2>3, <2>4
<1>3. sum[n] = iter[1..n]
  OBVIOUS
<1>4. Adds(sum, w, n)
  BY <1>1, <1>2 DEF Adds
<1> QED
  BY <1>3, <1>4

(* Two ways to add up the same numbers have the same result.               *)
LEMMA SumUnique ==
  ASSUME NEW n \in Nat, NEW w, \A i \in 1..n : w[i] \in Nat,
         NEW f, NEW g, Adds(f, w, n), Adds(g, w, n), NEW i \in 0..n
  PROVE  f[i] \in Nat /\ f[i] = g[i]
<1> DEFINE T == {k \in 0..n : ~(f[k] \in Nat /\ f[k] = g[k])}
<1>1. SUFFICES ASSUME T # {} PROVE FALSE
  OBVIOUS
<1>2. PICK m \in T : \A k \in T : m <= k
  <2>1. T \subseteq Nat
    OBVIOUS
  <2> QED
    BY <1>1, <2>1, LeastExists
<1>3. m # 0
  BY DEF Adds
<1>4. m - 1 \in 0..n /\ m - 1 \notin T /\ m \in 1..n
  BY <1>2, <1>3
<1>5. f[m] = f[m - 1] + w[m] /\ g[m] = g[m - 1] + w[m]
  BY <1>4 DEF Adds
<1> QED
  BY <1>4, <1>5

(* Parts, and what they add to Length and Counted.                         *)
Names ==
    {"info", "txWi", "wlan", "qos", "gip", "command", "index", "address", "client", "wcid",
     "data", "padding", "end"}
Pieces == [part : Names, size : Nat, says : Nat]
Uncounted == {"padding", "end"}
Sizes(s) == [i \in 1..Len(s) |-> s[i].size]
Counts(s) == [i \in 1..Len(s) |-> IF s[i].part \in Uncounted THEN 0 ELSE s[i].size]

(* Length adds up the sizes of the parts.                                  *)
LEMMA LengthAdds ==
  ASSUME NEW s \in Seq(Pieces)
  PROVE  \E sum : Adds(sum, Sizes(s), Len(s)) /\ P!Length(s) = sum[Len(s)]
<1> DEFINE n == Len(s)
           Fold(f) == f = [t \in SUBSET (1..n) |->
                             IF t = {} THEN 0 ELSE f[t \ {Max(t)}] + s[Max(t)].size]
           iter == CHOOSE f : Fold(f)
<1>1. n \in Nat /\ DOMAIN s = 1..n
  OBVIOUS
<1>2. ASSUME NEW f PROVE Fold(f) <=> Sums(f, Sizes(s), n)
  <2>1. ASSUME NEW t \in SUBSET (1..n), t # {} PROVE Sizes(s)[Max(t)] = s[Max(t)].size
    BY <1>1, <2>1, LargestExists DEF Sizes
  <2> QED
    BY <2>1 DEF Sums
<1>3. Fold(iter)
  BY <1>1, <1>2, SumExists
<1>4. P!Length(s) = iter[1..n]
  BY <1>1 DEF P!Length, P!FoldLeft, P!MapThenFoldSet, FoldLeft, MapThenFoldSet, Max, P!Max
<1> HIDE DEF iter
<1>5. Sums(iter, Sizes(s), n)
  BY <1>2, <1>3
<1> QED
  BY <1>1, <1>4, <1>5, SumAdds

(* Counted adds up the sizes of those that a header counts.                *)
LEMMA CountAdds ==
  ASSUME NEW s \in Seq(Pieces)
  PROVE  \E sum : Adds(sum, Counts(s), Len(s)) /\ Counted(s) = sum[Len(s)]
<1> DEFINE n == Len(s)
           Fold(f) == f = [t \in SUBSET (1..n) |->
                             IF t = {} THEN 0
                             ELSE f[t \ {Max(t)}] + (IF s[Max(t)].part \in {"padding", "end"}
                                                     THEN 0 ELSE s[Max(t)].size)]
           iter == CHOOSE f : Fold(f)
<1>1. n \in Nat /\ DOMAIN s = 1..n
  OBVIOUS
<1>2. ASSUME NEW f PROVE Fold(f) <=> Sums(f, Counts(s), n)
  <2>1. ASSUME NEW t \in SUBSET (1..n), t # {}
        PROVE  Counts(s)[Max(t)] = IF s[Max(t)].part \in {"padding", "end"}
                                   THEN 0 ELSE s[Max(t)].size
    BY <1>1, <2>1, LargestExists DEF Counts, Uncounted
  <2> QED
    BY <2>1 DEF Sums
<1>3. Fold(iter)
  BY <1>1, <1>2, SumExists
<1>4. Counted(s) = iter[1..n]
  BY <1>1 DEF Counted, P!FoldLeft, P!MapThenFoldSet, FoldLeft, MapThenFoldSet, Max, P!Max
<1> HIDE DEF iter
<1>5. Sums(iter, Counts(s), n)
  BY <1>2, <1>3
<1> QED
  BY <1>1, <1>4, <1>5, SumAdds

(* The n numbers of w are those of u that begin behind the first d.        *)
Numbered(w, n, u, d) == \A i \in 1..n : w[i] \in Nat /\ u[d + i] = w[i]

(* The sum of one sequence after another is that of both.                  *)
LEMMA SumConcat ==
  ASSUME NEW m \in Nat, NEW n \in Nat, NEW k, k = m + n,
         NEW u, NEW v, NEW w, Numbered(v, m, u, 0), Numbered(w, n, u, m),
         NEW f, NEW g, NEW h, Adds(f, v, m), Adds(g, w, n), Adds(h, u, k)
  PROVE  h[k] = f[m] + g[n] /\ f[m] \in Nat /\ g[n] \in Nat
<1>1. ASSUME NEW i \in 1..(m + n) PROVE u[i] \in Nat
  <2>1. CASE i <= m
    <3>1. i \in 1..m /\ 0 + i = i
      BY <2>1
    <3> QED
      BY <3>1 DEF Numbered
  <2>2. CASE i > m
    <3>1. i - m \in 1..n /\ i = m + (i - m)
      BY <2>2
    <3> QED
      BY <3>1 DEF Numbered
  <2> QED
    BY <2>1, <2>2
<1>2. Adds(h, v, m)
  <2>1. ASSUME NEW i \in 1..m PROVE u[i] = v[i] /\ i \in 1..k
    <3>1. 0 + i = i
      OBVIOUS
    <3> QED
      BY <3>1 DEF Numbered
  <2> QED
    BY <2>1 DEF Adds
<1>3. f[m] \in Nat /\ f[m] = h[m]
  BY <1>2, SumUnique DEF Numbered
<1>4. ASSUME NEW i \in 0..(m + n) PROVE h[i] \in Nat
  <2>1. m + n \in Nat /\ Adds(h, u, m + n)
    OBVIOUS
  <2> QED
    BY <1>1, <2>1, SumUnique
<1> DEFINE e == [i \in 0..n |-> h[m + i] - h[m]]
<1>5. Adds(e, w, n)
  <2>1. e[0] = 0
    <3>1. 0 \in 0..n /\ m + 0 = m
      OBVIOUS
    <3> QED
      BY <1>3, <3>1
  <2>2. ASSUME NEW i \in 1..n PROVE e[i] = e[i - 1] + w[i]
    <3>1. i \in 0..n /\ i - 1 \in 0..n /\ m + i \in 1..(m + n) /\ (m + i) - 1 = m + (i - 1)
      OBVIOUS
    <3>2. h[m + i] = h[m + (i - 1)] + w[i]
      BY <3>1 DEF Adds, Numbered
    <3>3. h[m + (i - 1)] \in Nat
      BY <1>4
    <3>4. e[i] = h[m + i] - h[m] /\ e[i - 1] = h[m + (i - 1)] - h[m]
      BY <3>1
    <3>5. w[i] \in Nat
      BY DEF Numbered
    <3> QED
      BY <1>3, <3>2, <3>3, <3>4, <3>5
  <2> QED
    BY <2>1, <2>2 DEF Adds
<1>6. e[n] = h[m + n] - h[m]
  OBVIOUS
<1> HIDE DEF e
<1>7. g[n] \in Nat /\ g[n] = e[n]
  BY <1>5, SumUnique DEF Numbered
<1>8. h[m + n] \in Nat
  BY <1>4
<1> QED
  BY <1>3, <1>6, <1>7, <1>8

(* The parts of s, then those of t.                                        *)
LEMMA Joined ==
  ASSUME NEW s \in Seq(Pieces), NEW t \in Seq(Pieces)
  PROVE  /\ s \o t \in Seq(Pieces) /\ Len(s \o t) = Len(s) + Len(t)
         /\ \A i \in 1..Len(s) : (s \o t)[i] = s[i] /\ s[i] \in Pieces
         /\ \A i \in 1..Len(t) : (s \o t)[Len(s) + i] = t[i] /\ t[i] \in Pieces
         /\ Len(s) \in Nat /\ Len(t) \in Nat
<1>1. /\ Len(s) \in Nat /\ Len(t) \in Nat
      /\ s \o t \in Seq(Pieces) /\ Len(s \o t) = Len(s) + Len(t)
      /\ \A i \in 1..(Len(s) + Len(t)) : (s \o t)[i] = IF i <= Len(s) THEN s[i] ELSE t[i - Len(s)]
  BY ConcatProperties, LenProperties
<1>2. ASSUME NEW i \in 1..Len(s) PROVE (s \o t)[i] = s[i] /\ s[i] \in Pieces
  BY <1>1, ElementOfSeq
<1>3. ASSUME NEW i \in 1..Len(t) PROVE (s \o t)[Len(s) + i] = t[i] /\ t[i] \in Pieces
  <2>1. Len(s) + i \in 1..(Len(s) + Len(t)) /\ ~(Len(s) + i <= Len(s)) /\ Len(s) + i - Len(s) = i
    BY <1>1
  <2> QED
    BY <1>1, <2>1, ElementOfSeq
<1> QED
  BY <1>1, <1>2, <1>3

(* The length of two packets one after the other is that of both.          *)
LEMMA Concatenated ==
  ASSUME NEW s \in Seq(Pieces), NEW t \in Seq(Pieces)
  PROVE  /\ P!Length(s \o t) = P!Length(s) + P!Length(t)
         /\ Counted(s \o t) = Counted(s) + Counted(t)
         /\ P!Length(s) \in Nat /\ Counted(s) \in Nat
<1> DEFINE m == Len(s)  n == Len(t)  k == Len(s \o t)
<1>1. /\ m \in Nat /\ n \in Nat /\ k = m + n /\ s \o t \in Seq(Pieces)
      /\ \A i \in 1..m : i \in 1..k /\ m + i \in 1..(m + m)
      /\ \A i \in 1..n : m + i \in 1..k
  BY Joined
<1>2. \A p \in Pieces : p.size \in Nat
  BY DEF Pieces
<1>3. /\ Numbered(Sizes(s), m, Sizes(s \o t), 0) /\ Numbered(Sizes(t), n, Sizes(s \o t), m)
      /\ Numbered(Counts(s), m, Counts(s \o t), 0) /\ Numbered(Counts(t), n, Counts(s \o t), m)
  <2>1. ASSUME NEW i \in 1..m
        PROVE  /\ Sizes(s)[i] \in Nat /\ Sizes(s \o t)[0 + i] = Sizes(s)[i]
               /\ Counts(s)[i] \in Nat /\ Counts(s \o t)[0 + i] = Counts(s)[i]
    <3>1. 0 + i = i /\ i \in 1..k /\ (s \o t)[i] = s[i] /\ s[i].size \in Nat
      BY <1>1, <1>2, Joined
    <3> QED
      BY <3>1 DEF Sizes, Counts
  <2>2. ASSUME NEW i \in 1..n
        PROVE  /\ Sizes(t)[i] \in Nat /\ Sizes(s \o t)[m + i] = Sizes(t)[i]
               /\ Counts(t)[i] \in Nat /\ Counts(s \o t)[m + i] = Counts(t)[i]
    <3>1. m + i \in 1..k /\ (s \o t)[m + i] = t[i] /\ t[i].size \in Nat
      BY <1>1, <1>2, Joined
    <3> QED
      BY <3>1 DEF Sizes, Counts
  <2> QED
    BY <2>1, <2>2 DEF Numbered
<1>4. P!Length(s \o t) = P!Length(s) + P!Length(t) /\ P!Length(s) \in Nat
  <2>1. PICK f : Adds(f, Sizes(s), m) /\ P!Length(s) = f[m]
    BY LengthAdds
  <2>2. PICK g : Adds(g, Sizes(t), n) /\ P!Length(t) = g[n]
    BY LengthAdds
  <2>3. PICK h : Adds(h, Sizes(s \o t), k) /\ P!Length(s \o t) = h[k]
    BY <1>1, LengthAdds
  <2> HIDE DEF m, n, k
  <2> QED
    BY <1>1, <1>3, <2>1, <2>2, <2>3, SumConcat
<1>5. Counted(s \o t) = Counted(s) + Counted(t) /\ Counted(s) \in Nat
  <2>1. PICK f : Adds(f, Counts(s), m) /\ Counted(s) = f[m]
    BY CountAdds
  <2>2. PICK g : Adds(g, Counts(t), n) /\ Counted(t) = g[n]
    BY CountAdds
  <2>3. PICK h : Adds(h, Counts(s \o t), k) /\ Counted(s \o t) = h[k]
    BY <1>1, CountAdds
  <2> HIDE DEF m, n, k
  <2> QED
    BY <1>1, <1>3, <2>1, <2>2, <2>3, SumConcat
<1> QED
  BY <1>4, <1>5

(* One part has its own size.                                              *)
LEMMA OnePiece ==
  ASSUME NEW p \in Pieces
  PROVE  /\ <<p>> \in Seq(Pieces)
         /\ P!Length(<<p>>) = p.size
         /\ Counted(<<p>>) = IF p.part \in Uncounted THEN 0 ELSE p.size
<1>1. <<p>> \in Seq(Pieces) /\ Len(<<p>>) = 1 /\ <<p>>[1] = p
  OBVIOUS
<1>2. PICK f : Adds(f, Sizes(<<p>>), 1) /\ P!Length(<<p>>) = f[1]
  BY <1>1, LengthAdds
<1>3. PICK g : Adds(g, Counts(<<p>>), 1) /\ Counted(<<p>>) = g[1]
  BY <1>1, CountAdds
<1>4. f[1] = 0 + p.size
  BY <1>1, <1>2 DEF Adds, Sizes
<1>5. g[1] = 0 + (IF p.part \in Uncounted THEN 0 ELSE p.size)
  BY <1>1, <1>3 DEF Adds, Counts
<1> QED
  BY <1>1, <1>2, <1>3, <1>4, <1>5 DEF Pieces

(* A packet of no parts has no length.                                     *)
LEMMA NoPiece == P!Length(<<>>) = 0 /\ Counted(<<>>) = 0
<1>1. <<>> \in Seq(Pieces) /\ Len(<<>>) = 0
  OBVIOUS
<1> QED
  BY <1>1, LengthAdds, CountAdds DEF Adds

(* Headers are at the beginning of a word and say what follows them, for   *)
(* parts that "before" bytes precede and "behind" counted bytes follow.    *)
Headers == {"txWi", "gip"}
Placed(s, before, behind) ==
    \A i \in 1..Len(s) :
        /\ s[i].part # "info"
        /\ s[i].part \in Headers \cup {"wlan"} => (before + P!Length(SubSeq(s, 1, i - 1))) % 4 = 0
        /\ s[i].part \in Headers => s[i].says = Counted(SubSeq(s, i + 1, Len(s))) + behind

(* One part, at the beginning of a word if it has to be.                   *)
LEMMA PlacedOne ==
  ASSUME NEW p \in Pieces, NEW before \in Nat, NEW behind \in Nat, p.part # "info",
         p.part \in Headers \cup {"wlan"} => before % 4 = 0,
         p.part \in Headers => p.says = behind
  PROVE  Placed(<<p>>, before, behind)
<1>1. Len(<<p>>) = 1 /\ <<p>>[1] = p /\ SubSeq(<<p>>, 1, 0) = <<>> /\ SubSeq(<<p>>, 2, 1) = <<>>
  BY SubSeqEmpty
<1>2. ASSUME NEW i \in 1..1
      PROVE  i = 1 /\ i - 1 = 0 /\ i + 1 = 2
  OBVIOUS
<1>3. before + 0 = before /\ 0 + behind = behind
  OBVIOUS
<1> QED
  BY <1>1, <1>2, <1>3, NoPiece DEF Placed

(* What precedes and follows a part of s \o t.                             *)
LEMMA Cuts ==
  ASSUME NEW s \in Seq(Pieces), NEW t \in Seq(Pieces)
  PROVE  /\ \A i \in 1..Len(s) :
               /\ SubSeq(s \o t, 1, i - 1) = SubSeq(s, 1, i - 1)
               /\ SubSeq(s \o t, i + 1, Len(s) + Len(t)) = SubSeq(s, i + 1, Len(s)) \o t
               /\ SubSeq(s, i + 1, Len(s)) \in Seq(Pieces)
         /\ \A i \in 1..Len(t) :
               /\ SubSeq(s \o t, 1, (Len(s) + i) - 1) = s \o SubSeq(t, 1, i - 1)
               /\ SubSeq(s \o t, (Len(s) + i) + 1, Len(s) + Len(t)) = SubSeq(t, i + 1, Len(t))
               /\ SubSeq(t, 1, i - 1) \in Seq(Pieces)
<1> DEFINE m == Len(s)  n == Len(t)  u == s \o t
<1>1. /\ m \in Nat /\ n \in Nat /\ u \in Seq(Pieces) /\ Len(u) = m + n
      /\ \A i \in 1..(m + n) : u[i] = (IF i <= m THEN s[i] ELSE t[i - m]) /\ u[i] \in Pieces
      /\ \A i \in 1..m : s[i] \in Pieces
      /\ \A i \in 1..n : t[i] \in Pieces
  BY ConcatProperties, ElementOfSeq, LenProperties
<1> HIDE DEF m, n, u
<1>2. ASSUME NEW i \in 1..m
      PROVE  /\ SubSeq(u, 1, i - 1) = SubSeq(s, 1, i - 1)
             /\ SubSeq(u, i + 1, m + n) = SubSeq(s, i + 1, m) \o t
             /\ SubSeq(s, i + 1, m) \in Seq(Pieces)
  <2> DEFINE a == SubSeq(u, 1, i - 1)  b == SubSeq(s, 1, i - 1)
             c == SubSeq(u, i + 1, m + n)  d == SubSeq(s, i + 1, m)
  <2>1. a \in Seq(Pieces) /\ Len(a) = i - 1 /\ \A j \in 1..(i - 1) : a[j] = u[j]
    BY <1>1, SubSeqProperties
  <2>2. b \in Seq(Pieces) /\ Len(b) = i - 1 /\ \A j \in 1..(i - 1) : b[j] = s[j]
    BY <1>1, SubSeqProperties
  <2>3. c \in Seq(Pieces) /\ Len(c) = m + n - i /\ \A j \in 1..(m + n - i) : c[j] = u[i + j]
    BY <1>1, SubSeqProperties
  <2>4. d \in Seq(Pieces) /\ Len(d) = m - i /\ \A j \in 1..(m - i) : d[j] = s[i + j]
    BY <1>1, SubSeqProperties
  <2>5. /\ d \o t \in Seq(Pieces) /\ Len(d \o t) = (m - i) + n
        /\ \A j \in 1..((m - i) + n) : (d \o t)[j] = IF j <= m - i THEN d[j] ELSE t[j - (m - i)]
    BY <2>4, ConcatProperties DEF n
  <2> HIDE DEF a, b, c, d
  <2>6. a = b
    <3>1. \A j \in 1..(i - 1) : a[j] = b[j]
      BY <1>1, <2>1, <2>2
    <3> QED
      BY <2>1, <2>2, <3>1, SeqEqual
  <2>7. c = d \o t
    <3>1. \A j \in 1..(m + n - i) : c[j] = (d \o t)[j]
      <4> TAKE j \in 1..(m + n - i)
      <4>1. CASE j <= m - i
        <5>1. /\ i + j \in 1..(m + n) /\ i + j <= m /\ j \in 1..(m - i)
              /\ j \in 1..((m - i) + n) /\ j \in 1..(m + n - i)
          BY <1>1, <4>1
        <5>2. c[j] = u[i + j] /\ u[i + j] = s[i + j]
          BY <1>1, <2>3, <5>1
        <5>3. (d \o t)[j] = d[j] /\ d[j] = s[i + j]
          BY <2>4, <2>5, <4>1, <5>1
        <5> QED
          BY <5>2, <5>3
      <4>2. CASE j > m - i
        <5>1. /\ i + j \in 1..(m + n) /\ ~(i + j <= m) /\ (i + j) - m = j - (m - i)
              /\ j \in 1..((m - i) + n) /\ ~(j <= m - i)
          BY <1>1, <4>2
        <5>2. c[j] = u[i + j] /\ u[i + j] = t[(i + j) - m]
          BY <1>1, <2>3, <5>1
        <5>3. (d \o t)[j] = t[j - (m - i)]
          BY <2>5, <5>1
        <5> QED
          BY <5>1, <5>2, <5>3
      <4>3. j <= m - i \/ j > m - i
        BY <1>1
      <4> QED
        BY <4>1, <4>2, <4>3
    <3>2. Len(c) = Len(d \o t) /\ Len(c) = m + n - i
      BY <1>1, <2>3, <2>5
    <3> QED
      BY <2>3, <2>5, <3>1, <3>2, SeqEqual
  <2> QED
    BY <2>4, <2>6, <2>7 DEF a, b, c, d
<1>3. ASSUME NEW i \in 1..n
      PROVE  /\ SubSeq(u, 1, (m + i) - 1) = s \o SubSeq(t, 1, i - 1)
             /\ SubSeq(u, (m + i) + 1, m + n) = SubSeq(t, i + 1, n)
             /\ SubSeq(t, 1, i - 1) \in Seq(Pieces)
  <2> DEFINE a == SubSeq(u, 1, (m + i) - 1)  b == SubSeq(t, 1, i - 1)
             c == SubSeq(u, (m + i) + 1, m + n)  d == SubSeq(t, i + 1, n)
  <2>1. a \in Seq(Pieces) /\ Len(a) = m + i - 1 /\ \A j \in 1..(m + i - 1) : a[j] = u[j]
    BY <1>1, SubSeqProperties
  <2>2. b \in Seq(Pieces) /\ Len(b) = i - 1 /\ \A j \in 1..(i - 1) : b[j] = t[j]
    BY <1>1, SubSeqProperties
  <2>3. c \in Seq(Pieces) /\ Len(c) = n - i /\ \A j \in 1..(n - i) : c[j] = u[m + i + j]
    BY <1>1, SubSeqProperties
  <2>4. d \in Seq(Pieces) /\ Len(d) = n - i /\ \A j \in 1..(n - i) : d[j] = t[i + j]
    BY <1>1, SubSeqProperties
  <2>5. /\ s \o b \in Seq(Pieces) /\ Len(s \o b) = m + (i - 1)
        /\ \A j \in 1..(m + (i - 1)) : (s \o b)[j] = IF j <= m THEN s[j] ELSE b[j - m]
    BY <2>2, ConcatProperties DEF m
  <2> HIDE DEF a, b, c, d
  <2>6. a = s \o b
    <3>1. \A j \in 1..(m + i - 1) : a[j] = (s \o b)[j]
      <4> TAKE j \in 1..(m + i - 1)
      <4>1. j \in 1..(m + n) /\ j \in 1..(m + (i - 1)) /\ (~(j <= m) => j - m \in 1..(i - 1))
        BY <1>1
      <4>2. a[j] = IF j <= m THEN s[j] ELSE t[j - m]
        BY <1>1, <2>1, <4>1
      <4>3. (s \o b)[j] = IF j <= m THEN s[j] ELSE b[j - m]
        BY <2>5, <4>1
      <4> QED
        BY <2>2, <4>1, <4>2, <4>3
    <3> QED
      BY <1>1, <2>1, <2>5, <3>1, SeqEqual
  <2>7. c = d
    <3>1. \A j \in 1..(n - i) : c[j] = d[j]
      <4> TAKE j \in 1..(n - i)
      <4>1. m + i + j \in 1..(m + n) /\ ~(m + i + j <= m) /\ m + i + j - m = i + j
        BY <1>1
      <4>2. c[j] = u[m + i + j] /\ d[j] = t[i + j]
        BY <2>3, <2>4
      <4>3. u[m + i + j] = t[m + i + j - m]
        BY <1>1, <4>1
      <4> QED
        BY <4>1, <4>2, <4>3
    <3> QED
      BY <1>1, <2>3, <2>4, <3>1, SeqEqual
  <2> QED
    BY <2>2, <2>6, <2>7 DEF a, b, c, d
<1> QED
  BY <1>2, <1>3 DEF m, n, u

(* Two packets one after the other, if the headers of the first count the  *)
(* second.                                                                 *)
LEMMA PlacedConcat ==
  ASSUME NEW s \in Seq(Pieces), NEW t \in Seq(Pieces), NEW before \in Nat, NEW behind \in Nat,
         Placed(s, before, Counted(t) + behind), Placed(t, before + P!Length(s), behind)
  PROVE  Placed(s \o t, before, behind)
<1> DEFINE m == Len(s)  n == Len(t)  u == s \o t
<1>1. /\ m \in Nat /\ n \in Nat /\ Len(u) = m + n
      /\ \A i \in 1..(m + n) : u[i] = IF i <= m THEN s[i] ELSE t[i - m]
  BY ConcatProperties, LenProperties
<1>2. ASSUME NEW i \in 1..m
      PROVE  /\ SubSeq(u, 1, i - 1) = SubSeq(s, 1, i - 1)
             /\ SubSeq(u, i + 1, m + n) = SubSeq(s, i + 1, m) \o t
             /\ SubSeq(s, i + 1, m) \in Seq(Pieces)
  BY Cuts
<1>3. ASSUME NEW i \in 1..n
      PROVE  /\ SubSeq(u, 1, (m + i) - 1) = s \o SubSeq(t, 1, i - 1)
             /\ SubSeq(u, (m + i) + 1, m + n) = SubSeq(t, i + 1, n)
             /\ SubSeq(t, 1, i - 1) \in Seq(Pieces)
  BY Cuts
<1> HIDE DEF m, n, u
<1>4. ASSUME NEW i \in 1..(m + n)
      PROVE  /\ u[i].part # "info"
             /\ u[i].part \in Headers \cup {"wlan"} => (before + P!Length(SubSeq(u, 1, i - 1))) % 4 = 0
             /\ u[i].part \in Headers => u[i].says = Counted(SubSeq(u, i + 1, m + n)) + behind
  <2>1. CASE i <= m
    <3>1. i \in 1..m /\ u[i] = s[i]
      BY <1>1, <2>1
    <3>2. /\ s[i].part # "info"
          /\ s[i].part \in Headers \cup {"wlan"} => (before + P!Length(SubSeq(s, 1, i - 1))) % 4 = 0
          /\ s[i].part \in Headers =>
                s[i].says = Counted(SubSeq(s, i + 1, m)) + (Counted(t) + behind)
      BY <3>1 DEF Placed, m
    <3>3. /\ Counted(SubSeq(u, i + 1, m + n)) = Counted(SubSeq(s, i + 1, m)) + Counted(t)
          /\ Counted(SubSeq(s, i + 1, m)) \in Nat
      BY <1>2, <3>1, Concatenated
    <3>4. Counted(t) \in Nat
      BY Concatenated
    <3>5. /\ u[i].part # "info"
          /\ u[i].part \in Headers \cup {"wlan"} => (before + P!Length(SubSeq(u, 1, i - 1))) % 4 = 0
      BY <1>2, <3>1, <3>2
    <3>6. u[i].part \in Headers => u[i].says = Counted(SubSeq(u, i + 1, m + n)) + behind
      BY <3>1, <3>2, <3>3, <3>4
    <3> QED
      BY <3>5, <3>6
  <2>2. CASE i > m
    <3> DEFINE j == i - m
    <3>1. j \in 1..n /\ i = m + j /\ u[i] = t[j]
      BY <1>1, <2>2
    <3> HIDE DEF j
    <3>2. /\ t[j].part # "info"
          /\ t[j].part \in Headers \cup {"wlan"} =>
                ((before + P!Length(s)) + P!Length(SubSeq(t, 1, j - 1))) % 4 = 0
          /\ t[j].part \in Headers => t[j].says = Counted(SubSeq(t, j + 1, n)) + behind
      BY <3>1 DEF Placed, n
    <3>3. /\ P!Length(SubSeq(u, 1, i - 1)) = P!Length(s) + P!Length(SubSeq(t, 1, j - 1))
          /\ P!Length(SubSeq(t, 1, j - 1)) \in Nat /\ P!Length(s) \in Nat
      BY <1>3, <3>1, Concatenated
    <3>4. SubSeq(u, i + 1, m + n) = SubSeq(t, j + 1, n)
      BY <1>3, <3>1
    <3>5. (before + P!Length(s)) + P!Length(SubSeq(t, 1, j - 1)) = before + P!Length(SubSeq(u, 1, i - 1))
      BY <3>3
    <3>6. /\ u[i].part # "info"
          /\ u[i].part \in Headers \cup {"wlan"} => (before + P!Length(SubSeq(u, 1, i - 1))) % 4 = 0
      BY <3>1, <3>2, <3>5
    <3>7. u[i].part \in Headers => u[i].says = Counted(SubSeq(u, i + 1, m + n)) + behind
      BY <3>1, <3>2, <3>4
    <3> QED
      BY <3>6, <3>7
  <2> QED
    BY <1>1, <2>1, <2>2
<1>5. \A i \in 1..Len(u) :
        /\ u[i].part # "info"
        /\ u[i].part \in Headers \cup {"wlan"} => (before + P!Length(SubSeq(u, 1, i - 1))) % 4 = 0
        /\ u[i].part \in Headers => u[i].says = Counted(SubSeq(u, i + 1, Len(u))) + behind
  BY <1>1, <1>4
<1> QED
  BY <1>5 DEF Placed, u

(* A packet, or a part of one: what "Placed" says, and its sizes.          *)
Fitting(s, before, behind, length, counted) ==
    /\ s \in Seq(Pieces) /\ before \in Nat /\ behind \in Nat /\ Placed(s, before, behind)
    /\ P!Length(s) = length /\ Counted(s) = counted

(* Two of them one after the other.                                        *)
LEMMA FittingConcat ==
  ASSUME NEW before, NEW behind, NEW between, NEW after, NEW length, NEW counted,
         NEW s, NEW ls, NEW cs, Fitting(s, before, between, ls, cs),
         NEW t, NEW lt, NEW ct, Fitting(t, after, behind, lt, ct),
         between = ct + behind, after = before + ls, length = ls + lt, counted = cs + ct
  PROVE  Fitting(s \o t, before, behind, length, counted)
<1>1. s \in Seq(Pieces) /\ t \in Seq(Pieces) /\ before \in Nat /\ behind \in Nat
  BY DEF Fitting
<1>2. Placed(s \o t, before, behind)
  BY <1>1, PlacedConcat DEF Fitting
<1>3. s \o t \in Seq(Pieces)
  BY <1>1, Joined
<1> QED
  BY <1>1, <1>2, <1>3, Concatenated DEF Fitting

(* Parts that may be anywhere and count.                                   *)
LEMMA FittingPart ==
  ASSUME NEW name \in {"data", "qos", "command", "index", "address", "client", "wcid"}, NEW size \in Nat,
         NEW before \in Nat, NEW behind \in Nat
  PROVE  Fitting(P!Part(name, size), before, behind, size, size)
<1> DEFINE p == [part |-> name, size |-> size, says |-> 0]
<1>1. p \in Pieces /\ p.part = name /\ p.size = size
  BY DEF Pieces, Names
<1>2. p.part \notin {"info", "wlan"} \cup Headers \cup Uncounted
  BY <1>1 DEF Headers, Uncounted
<1> HIDE DEF p
<1>3. Placed(<<p>>, before, behind)
  BY <1>1, <1>2, PlacedOne
<1>4. P!Part(name, size) = <<p>>
  BY DEF P!Part, p
<1> QED
  BY <1>1, <1>2, <1>3, <1>4, OnePiece DEF Fitting

(* The wlan frame, at the beginning of a word.                             *)
LEMMA FittingWlan ==
  ASSUME NEW before \in Nat, NEW behind \in Nat, before % 4 = 0
  PROVE  Fitting(P!Part("wlan", P!WlanFrame), before, behind, 24, 24)
<1> DEFINE p == [part |-> "wlan", size |-> 24, says |-> 0]
<1>1. p \in Pieces /\ p.part = "wlan" /\ p.size = 24
  BY DEF Pieces, Names
<1>2. p.part \notin {"info"} \cup Headers \cup Uncounted
  BY <1>1 DEF Headers, Uncounted
<1> HIDE DEF p
<1>3. Placed(<<p>>, before, behind)
  BY <1>1, <1>2, PlacedOne
<1>4. P!Part("wlan", P!WlanFrame) = <<p>>
  BY DEF P!Part, P!WlanFrame, p
<1> QED
  BY <1>1, <1>2, <1>3, <1>4, OnePiece DEF Fitting

(* Padding, which does not count.                                          *)
LEMMA FittingPad ==
  ASSUME NEW size \in Nat, NEW before \in Nat, NEW behind \in Nat
  PROVE  Fitting(P!Pad(size), before, behind, size, 0)
<1> DEFINE p == [part |-> "padding", size |-> size, says |-> 0]
<1>1. p \in Pieces /\ p.part = "padding" /\ p.size = size
  BY DEF Pieces, Names
<1>2. p.part \notin {"info", "wlan"} \cup Headers /\ p.part \in Uncounted
  BY <1>1 DEF Headers, Uncounted
<1> HIDE DEF p
<1>3. Placed(<<p>>, before, behind)
  BY <1>1, <1>2, PlacedOne
<1>4. P!Pad(size) = <<p>>
  BY DEF P!Pad, P!Part, p
<1> QED
  BY <1>1, <1>2, <1>3, <1>4, OnePiece DEF Fitting

(* The end marker, which does not count either.                            *)
LEMMA FittingEnd ==
  ASSUME NEW before \in Nat, NEW behind \in Nat
  PROVE  Fitting(P!Part("end", P!Word), before, behind, 4, 0)
<1> DEFINE p == [part |-> "end", size |-> 4, says |-> 0]
<1>1. p \in Pieces /\ p.part = "end" /\ p.size = 4
  BY DEF Pieces, Names
<1>2. p.part \notin {"info", "wlan"} \cup Headers /\ p.part \in Uncounted
  BY <1>1 DEF Headers, Uncounted
<1> HIDE DEF p
<1>3. Placed(<<p>>, before, behind)
  BY <1>1, <1>2, PlacedOne
<1>4. P!Part("end", P!Word) = <<p>>
  BY DEF P!Part, P!Word, p
<1> QED
  BY <1>1, <1>2, <1>3, <1>4, OnePiece DEF Fitting

(* A header at the beginning of a word, which says what is behind it.      *)
LEMMA FittingHeader ==
  ASSUME NEW name \in Headers, NEW size \in Nat, NEW before \in Nat, NEW behind \in Nat,
         before % 4 = 0
  PROVE  Fitting(P!Header(name, size, behind), before, behind, size, size)
<1> DEFINE p == [part |-> name, size |-> size, says |-> behind]
<1>1. p \in Pieces /\ p.part = name /\ p.size = size /\ p.says = behind
  BY DEF Pieces, Names, Headers
<1>2. p.part \notin {"info"} \cup Uncounted
  BY <1>1 DEF Headers, Uncounted
<1> HIDE DEF p
<1>3. Placed(<<p>>, before, behind)
  BY <1>1, <1>2, PlacedOne
<1>4. P!Header(name, size, behind) = <<p>>
  BY DEF P!Header, p
<1> QED
  BY <1>1, <1>2, <1>3, <1>4, OnePiece DEF Fitting

(* What SentInWords says of a packet.                                      *)
InWords(r) ==
    /\ P!Length(r) % 4 = 0
    /\ \A i \in DOMAIN r :
          /\ r[i].part \in {"info", "txWi", "wlan", "gip"} => P!Length(SubSeq(r, 1, i - 1)) % 4 = 0
          /\ r[i].part = "info" => r[i].says = P!Length(SubSeq(r, i + 1, Len(r) - 1))
          /\ r[i].part \in {"txWi", "gip"} => r[i].says = Counted(SubSeq(r, i + 1, Len(r)))

(* Padding fills up the last word.                                         *)
LEMMA PaddingFills ==
  ASSUME NEW n \in Nat
  PROVE  P!Padding(n) \in Nat /\ (n + P!Padding(n)) % 4 = 0
BY DEF P!Padding, P!Word

(* sendCommand, sendWlanPacket: what is put between the information and    *)
(* the end marker is in words if it is behind the first.                   *)
LEMMA FramedInWords ==
  ASSUME NEW data, NEW length \in Nat, NEW counted, Fitting(data, 4, 0, length, counted)
  PROVE  InWords(P!Framed(data))
<1> DEFINE fill == P!Padding(length)
           h == [part |-> "info", size |-> 4, says |-> length + fill]
           body == data \o P!Pad(fill)
           t == body \o P!Part("end", P!Word)
           r == <<h>> \o t
<1>1. fill \in Nat /\ (length + fill) % 4 = 0
  BY PaddingFills
<1>2. Fitting(P!Pad(fill), 4 + length, 0, fill, 0)
  BY <1>1, FittingPad
<1>3. Fitting(body, 4, 0, length + fill, counted)
  <2>1. counted = counted + 0
    BY Concatenated DEF Fitting
  <2> HIDE DEF fill
  <2> QED
    BY <1>1, <1>2, <2>1, FittingConcat
<1>4. Fitting(P!Part("end", P!Word), 4 + (length + fill), 0, 4, 0)
  BY <1>1, FittingEnd
<1>5. Fitting(t, 4, 0, length + fill + 4, counted)
  <2>1. counted = counted + 0
    BY Concatenated DEF Fitting
  <2> HIDE DEF fill, body
  <2> QED
    BY <1>1, <1>3, <1>4, <2>1, FittingConcat
<1>6. h \in Pieces /\ h.part = "info" /\ h.size = 4 /\ h.says = length + fill
  BY <1>1 DEF Pieces, Names
<1>7. P!Framed(data) = r
  <2>1. P!Framed(data) = ((<<h>> \o data) \o P!Pad(fill)) \o P!Part("end", P!Word)
    BY DEF P!Framed, P!Header, P!Word, Fitting
  <2>2. /\ <<h>> \in Seq(Pieces) /\ data \in Seq(Pieces) /\ P!Pad(fill) \in Seq(Pieces)
        /\ P!Part("end", P!Word) \in Seq(Pieces)
    BY <1>2, <1>4, <1>6, OnePiece DEF Fitting
  <2> HIDE DEF h, fill
  <2>3. (<<h>> \o data) \o P!Pad(fill) = <<h>> \o body
    BY <2>2, ConcatAssociative
  <2>4. body \in Seq(Pieces)
    BY <1>3 DEF Fitting
  <2> HIDE DEF body
  <2>5. (<<h>> \o body) \o P!Part("end", P!Word) = <<h>> \o t
    BY <2>2, <2>4, ConcatAssociative
  <2> QED
    BY <2>1, <2>3, <2>5
<1> HIDE DEF h, fill, r
<1>8. /\ <<h>> \in Seq(Pieces) /\ Len(<<h>>) = 1 /\ P!Length(<<h>>) = 4
      /\ t \in Seq(Pieces) /\ P!Length(t) = length + fill + 4 /\ Placed(t, 4, 0)
      /\ body \in Seq(Pieces) /\ P!Length(body) = length + fill
  BY <1>3, <1>5, <1>6, OnePiece DEF Fitting
<1>9. /\ Len(t) \in Nat /\ Len(r) = 1 + Len(t) /\ DOMAIN r = 1..(1 + Len(t)) /\ r[1] = h
      /\ \A i \in 1..Len(t) : r[1 + i] = t[i]
  <2>1. 1 \in 1..1 /\ <<h>>[1] = h
    OBVIOUS
  <2> HIDE DEF t
  <2>2. r \in Seq(Pieces) /\ Len(r) = 1 + Len(t)
    BY <1>8, Joined DEF r
  <2> QED
    BY <1>8, <2>1, <2>2, Joined, LenProperties DEF r
<1>10. P!Length(r) % 4 = 0
  <2>1. P!Length(r) = 4 + (length + fill + 4)
    BY <1>8, Concatenated DEF r
  <2>2. length + fill \in Nat /\ 4 + (length + fill + 4) = (length + fill) + 8
    BY <1>1
  <2>3. ASSUME NEW n \in Nat, n % 4 = 0 PROVE (n + 8) % 4 = 0
    BY <2>3
  <2> QED
    BY <1>1, <2>1, <2>2, <2>3
<1>11. SubSeq(r, 2, Len(r) - 1) = body
  <2>1. /\ Len(body) \in Nat /\ Len(t) = Len(body) + 1
        /\ \A i \in 1..Len(body) : t[i] = body[i] /\ body[i] \in Pieces
    <3> DEFINE e == [part |-> "end", size |-> 4, says |-> 0]
    <3>1. P!Part("end", P!Word) = <<e>> /\ Len(<<e>>) = 1
      BY DEF P!Part, P!Word
    <3>2. P!Part("end", P!Word) \in Seq(Pieces)
      BY <1>4 DEF Fitting
    <3> HIDE DEF body, e
    <3> QED
      BY <1>8, <3>1, <3>2, Joined
  <2> HIDE DEF body, t
  <2> DEFINE c == SubSeq(r, 2, Len(r) - 1)
  <2>2. ASSUME NEW i \in 1..Len(body)
        PROVE  r[1 + i] = body[i] /\ body[i] \in Pieces /\ i \in 1..Len(t)
    BY <1>9, <2>1
  <2>3. ASSUME NEW i \in 2..(Len(r) - 1) PROVE r[i] \in Pieces
    <3>1. i - 1 \in 1..Len(body) /\ i = 1 + (i - 1)
      BY <1>9, <2>1
    <3> QED
      BY <2>2, <3>1
  <2>4. /\ c \in Seq(Pieces) /\ Len(c) = Len(body)
        /\ \A i \in 1..Len(body) : c[i] = r[1 + i]
    <3>1. Len(r) - 1 = Len(body) + 1 /\ Len(r) - 1 \in Int
      BY <1>9, <2>1
    <3>2. \A i \in 2..(Len(body) + 1) : r[i] \in Pieces
      BY <2>3, <3>1
    <3>3. /\ c \in Seq(Pieces)
          /\ Len(c) = IF 2 <= Len(body) + 1 THEN (Len(body) + 1) - 2 + 1 ELSE 0
          /\ \A i \in 1..((Len(body) + 1) - 2 + 1) : c[i] = r[2 + i - 1]
      BY <2>1, <3>1, <3>2, SubSeqProperties
    <3>4. ASSUME NEW i \in 1..Len(body) PROVE i \in 1..((Len(body) + 1) - 2 + 1) /\ 2 + i - 1 = 1 + i
      BY <2>1
    <3>5. Len(c) = Len(body)
      BY <2>1, <3>3
    <3> QED
      BY <3>3, <3>4, <3>5
  <2> HIDE DEF c
  <2>5. \A i \in 1..Len(c) : c[i] = body[i]
    BY <2>2, <2>4
  <2> QED
    BY <1>8, <2>4, <2>5, SeqEqual DEF c
<1> HIDE DEF t
<1>12. /\ SubSeq(r, 1, 0) = <<>>
       /\ \A i \in 1..Len(t) :
             /\ SubSeq(r, 1, (1 + i) - 1) = <<h>> \o SubSeq(t, 1, i - 1)
             /\ SubSeq(r, (1 + i) + 1, 1 + Len(t)) = SubSeq(t, i + 1, Len(t))
             /\ SubSeq(t, 1, i - 1) \in Seq(Pieces)
  BY <1>8, Cuts, SubSeqEmpty DEF r
<1>13. ASSUME NEW i \in 1..(1 + Len(t))
       PROVE  /\ r[i].part \in {"info", "txWi", "wlan", "gip"} =>
                    P!Length(SubSeq(r, 1, i - 1)) % 4 = 0
              /\ r[i].part = "info" => r[i].says = P!Length(SubSeq(r, i + 1, Len(r) - 1))
              /\ r[i].part \in {"txWi", "gip"} => r[i].says = Counted(SubSeq(r, i + 1, Len(r)))
  <2>1. CASE i = 1
    <3>1. P!Length(SubSeq(r, 1, i - 1)) % 4 = 0
      <4>1. i - 1 = 0 /\ 0 % 4 = 0
        BY <2>1
      <4> QED
        BY <1>12, <4>1, NoPiece
    <3>2. r[i].says = P!Length(SubSeq(r, i + 1, Len(r) - 1))
      <4>1. i + 1 = 2 /\ r[i] = h
        BY <1>9, <2>1
      <4> QED
        BY <1>6, <1>8, <1>11, <4>1
    <3>3. r[i].part \notin {"txWi", "gip"}
      BY <1>6, <1>9, <2>1
    <3> QED
      BY <3>1, <3>2, <3>3
  <2>2. CASE i # 1
    <3> DEFINE j == i - 1
    <3>1. j \in 1..Len(t) /\ i = 1 + j /\ r[i] = t[j]
      BY <1>9, <2>2
    <3> HIDE DEF j
    <3>2. /\ t[j].part # "info"
          /\ t[j].part \in Headers \cup {"wlan"} => (4 + P!Length(SubSeq(t, 1, j - 1))) % 4 = 0
          /\ t[j].part \in Headers => t[j].says = Counted(SubSeq(t, j + 1, Len(t))) + 0
      BY <1>8, <3>1 DEF Placed
    <3>3. P!Length(SubSeq(r, 1, i - 1)) = 4 + P!Length(SubSeq(t, 1, j - 1))
      BY <1>8, <1>12, <3>1, Concatenated
    <3>4. SubSeq(r, i + 1, Len(r)) = SubSeq(t, j + 1, Len(t))
      BY <1>9, <1>12, <3>1
    <3>5. Counted(SubSeq(t, j + 1, Len(t))) \in Nat
      <4>1. SubSeq(t, j + 1, Len(t)) \in Seq(Pieces)
        BY <1>8, <1>9, <3>1, SubSeqProperties, ElementOfSeq
      <4> QED
        BY <4>1, Concatenated
    <3>6. r[i].part \in {"info", "txWi", "wlan", "gip"} => P!Length(SubSeq(r, 1, i - 1)) % 4 = 0
      BY <3>1, <3>2, <3>3 DEF Headers
    <3>7. r[i].part \in {"txWi", "gip"} => r[i].says = Counted(SubSeq(r, i + 1, Len(r)))
      <4>1. Counted(SubSeq(t, j + 1, Len(t))) + 0 = Counted(SubSeq(t, j + 1, Len(t)))
        BY <3>5
      <4> QED
        BY <3>1, <3>2, <3>4, <4>1 DEF Headers
    <3> QED
      BY <3>1, <3>2, <3>6, <3>7
  <2> QED
    BY <2>1, <2>2
<1> QED
  BY <1>7, <1>9, <1>10, <1>13 DEF InWords

(* sendClientPacket: a packet for a client in words stays so in front of   *)
(* its headers, which count all of it.                                     *)
LEMMA ClientInWords ==
  ASSUME NEW packet, NEW length \in Nat, Fitting(packet, 60, 0, length, length)
  PROVE  InWords(P!SendClientPacket(packet))
<1> DEFINE fill == P!Padding(length)
           a == P!Part("wcid", 4)
           b == a \o P!Pad(4)
           c == b \o P!Header("txWi", 20, 26 + length)
           d == c \o P!Part("wlan", P!WlanFrame)
           e == d \o P!Part("qos", 2)
           f == e \o P!Pad(2)
           g == f \o packet
           data == g \o P!Pad(fill)
<1>1. fill \in Nat
  BY PaddingFills
<1>2. Fitting(a, 4, 46 + length, 4, 4)
  BY FittingPart
<1>3. Fitting(P!Pad(4), 8, 46 + length, 4, 0)
  BY FittingPad
<1>4. Fitting(P!Header("txWi", 20, 26 + length), 12, 26 + length, 20, 20)
  BY FittingHeader DEF Headers
<1>5. Fitting(P!Part("wlan", P!WlanFrame), 32, 2 + length, 24, 24)
  BY FittingWlan
<1>6. Fitting(P!Part("qos", 2), 56, length, 2, 2)
  BY FittingPart
<1>7. Fitting(P!Pad(2), 58, length, 2, 0)
  BY FittingPad
<1>8. Fitting(P!Pad(fill), 60 + length, 0, fill, 0)
  BY <1>1, FittingPad
<1>9. P!SendClientPacket(packet) = P!Framed(data)
  <2>1. P!Length(packet) = length
    BY DEF Fitting
  <2>2. P!TxWi = 20 /\ P!WlanFrame = 24 /\ P!QosFrame = 2
    BY DEF P!TxWi, P!WlanFrame, P!QosFrame
  <2>3. P!Padding(20 + 24 + 2) = 2 /\ 24 + 2 + length = 26 + length
    BY DEF P!Padding, P!Word
  <2> QED
    BY <2>1, <2>2, <2>3 DEF P!SendClientPacket, P!SendCommand
<1> HIDE DEF a
<1>10. Fitting(b, 4, 46 + length, 8, 4)
  BY <1>2, <1>3, FittingConcat
<1> HIDE DEF b
<1>11. Fitting(c, 4, 26 + length, 28, 24)
  BY <1>4, <1>10, FittingConcat
<1> HIDE DEF c
<1>12. Fitting(d, 4, 2 + length, 52, 48)
  BY <1>5, <1>11, FittingConcat
<1> HIDE DEF d
<1>13. Fitting(e, 4, length, 54, 50)
  BY <1>6, <1>12, FittingConcat
<1> HIDE DEF e
<1>14. Fitting(f, 4, length, 56, 50)
  BY <1>7, <1>13, FittingConcat
<1> HIDE DEF f
<1>15. Fitting(g, 4, 0, 56 + length, 50 + length)
  BY <1>14, FittingConcat
<1> HIDE DEF g, fill
<1>16. Fitting(data, 4, 0, 56 + length + fill, 50 + length)
  BY <1>1, <1>8, <1>15, FittingConcat
<1> HIDE DEF data
<1> QED
  BY <1>1, <1>9, <1>16, FramedInWords

(* GipDevice's packets.                                                    *)
LEMMA GipInWords ==
  ASSUME NEW p \in DOMAIN P!GipPackets
  PROVE  InWords(P!SendClientPacket(P!GipPackets[p]))
<1>1. P!GipFrame = 4 /\ 60 % 4 = 0 /\ "gip" \in Headers
  BY DEF P!GipFrame, Headers
<1>2. ASSUME NEW n \in Nat
      PROVE  InWords(P!SendClientPacket(P!Header("gip", 4, n) \o P!Part("data", n)))
  <2>1. Fitting(P!Part("data", n), 64, 0, n, n)
    BY FittingPart
  <2>2. Fitting(P!Header("gip", 4, n), 60, n, 4, 4)
    BY <1>1, FittingHeader
  <2>3. Fitting(P!Header("gip", 4, n) \o P!Part("data", n), 60, 0, 4 + n, 4 + n)
    BY <2>1, <2>2, FittingConcat
  <2> QED
    BY <2>3, ClientInWords
<1>3. CASE p # "acknowledge"
  <2>1. CASE p \in {"power", "serial"}
    <3>1. P!GipPackets[p] = P!Header("gip", 4, 1) \o P!Part("data", 1)
      BY <1>1, <2>1 DEF P!GipPackets
    <3> QED
      BY <1>2, <3>1
  <2>2. CASE p = "rumble"
    <3>1. P!GipPackets[p] = P!Header("gip", 4, 9) \o P!Part("data", 9)
      BY <1>1, <2>2 DEF P!GipPackets
    <3> QED
      BY <1>2, <3>1
  <2>3. CASE p = "led"
    <3>1. P!GipPackets[p] = P!Header("gip", 4, 3) \o P!Part("data", 3)
      BY <1>1, <2>3 DEF P!GipPackets
    <3> QED
      BY <1>2, <3>1
  <2> QED
    BY <1>3, <2>1, <2>2, <2>3 DEF P!GipPackets
<1>4. CASE p = "acknowledge"
  <2> DEFINE a == P!Header("gip", 4, 9)
             b == a \o P!Part("data", 1)
             c == b \o P!Part("data", 4)
             d == c \o P!Part("data", 4)
  <2>1. P!GipPackets[p] = d
    <3>1. P!GipFrame + 5 = 9
      BY <1>1
    <3> QED
      BY <1>1, <1>4, <3>1 DEF P!GipPackets
  <2>2. Fitting(a, 60, 9, 4, 4)
    BY <1>1, FittingHeader
  <2>3. Fitting(P!Part("data", 1), 64, 8, 1, 1)
    BY FittingPart
  <2>4. Fitting(P!Part("data", 4), 65, 4, 4, 4) /\ Fitting(P!Part("data", 4), 69, 0, 4, 4)
    BY FittingPart
  <2> HIDE DEF a
  <2>5. Fitting(b, 60, 8, 5, 5)
    BY <2>2, <2>3, FittingConcat
  <2> HIDE DEF b
  <2>6. Fitting(c, 60, 4, 9, 9)
    BY <2>4, <2>5, FittingConcat
  <2> HIDE DEF c
  <2>7. Fitting(d, 60, 0, 13, 13)
    BY <2>4, <2>6, FittingConcat
  <2> HIDE DEF d
  <2> QED
    BY <2>1, <2>7, ClientInWords
<1> QED
  BY <1>3, <1>4

(* The frames that Mt76 sends, behind their TxWi.                          *)
LEMMA FrameFits ==
  ASSUME NEW n \in Nat, NEW before \in Nat, before % 4 = 0
  PROVE  Fitting(P!Header("txWi", P!TxWi, P!WlanFrame + n) \o P!Part("wlan", P!WlanFrame)
                    \o P!Part("data", n), before, 0, 44 + n, 44 + n)
<1> DEFINE a == P!Header("txWi", 20, 24 + n)
           b == a \o P!Part("wlan", P!WlanFrame)
           c == b \o P!Part("data", n)
<1>1. P!TxWi = 20 /\ P!WlanFrame = 24 /\ "txWi" \in Headers
  BY DEF P!TxWi, P!WlanFrame, Headers
<1>2. Fitting(a, before, 24 + n, 20, 20)
  BY <1>1, FittingHeader
<1>3. (before + 20) % 4 = 0 /\ before + 20 \in Nat
  OBVIOUS
<1>4. Fitting(P!Part("wlan", P!WlanFrame), before + 20, n, 24, 24)
  BY <1>3, FittingWlan
<1>5. Fitting(P!Part("data", n), before + 44, 0, n, n)
  BY FittingPart
<1>6. c = P!Header("txWi", P!TxWi, P!WlanFrame + n) \o P!Part("wlan", P!WlanFrame) \o P!Part("data", n)
  BY <1>1
<1> HIDE DEF a
<1>7. Fitting(b, before, n, 44, 44)
  BY <1>2, <1>4, FittingConcat
<1> HIDE DEF b
<1>8. Fitting(c, before, 0, 44 + n, 44 + n)
  BY <1>5, <1>7, FittingConcat
<1> QED
  BY <1>6, <1>8

(* All transfers that serving controllers takes.                           *)
LEMMA TransferInWords ==
  ASSUME NEW p \in DOMAIN P!Transfers
  PROVE  InWords(P!Transfers[p])
<1>1. ASSUME NEW name \in {"data", "qos", "command", "index", "address", "client", "wcid"}, NEW n \in Nat
      PROVE  InWords(P!Framed(P!Part(name, n)))
  BY FittingPart, FramedInWords
<1>2. ASSUME NEW first \in {"command", "index"}, NEW s, NEW n \in Nat, Fitting(s, 8, 0, n, n)
      PROVE  InWords(P!Framed(P!Part(first, 4) \o s))
  <2>1. Fitting(P!Part(first, 4), 4, n, 4, 4)
    BY FittingPart
  <2>2. Fitting(P!Part(first, 4) \o s, 4, 0, 4 + n, 4 + n)
    BY <1>2, <2>1, FittingConcat
  <2> QED
    BY <2>2, FramedInWords
<1>3. ASSUME NEW first \in {"command", "index"}, NEW n \in Nat, NEW name \in {"address", "client"}
      PROVE  InWords(P!Framed(P!Part(first, 4) \o P!Part(name, n)))
  BY <1>2, FittingPart
<1>4. InWords(P!SetLedMode)
  BY <1>1 DEF P!SetLedMode, P!SendCommand
<1>5. InWords(P!BurstWrite(P!Part("address", 6)))
  BY <1>3 DEF P!BurstWrite, P!SendCommand
<1>6. /\ InWords(P!SendFirmwareCommand(P!Part("client", 8)))
      /\ InWords(P!SendFirmwareCommand(P!Part("client", 4)))
  BY <1>3 DEF P!SendFirmwareCommand, P!SendCommand
<1>7. InWords(P!Association)
  <2>1. P!AssociationResponseFrame \in Nat
    BY DEF P!AssociationResponseFrame
  <2>2. 4 % 4 = 0 /\ 44 + P!AssociationResponseFrame \in Nat
    BY <2>1
  <2> QED
    BY <2>1, <2>2, FrameFits, FramedInWords DEF P!Association, P!SendWlanPacket
<1>8. InWords(P!PairClient)
  BY FrameFits, FramedInWords DEF P!PairClient, P!SendWlanPacket
<1>9. InWords(P!Beacon)
  <2> DEFINE a == P!Header("txWi", 20, 56)
             b == a \o P!Part("wlan", P!WlanFrame)
             c == b \o P!Part("data", 14)
             d == c \o P!Part("data", 18)
  <2>1. P!TxWi = 20 /\ P!WlanFrame = 24 /\ P!BeaconFrame = 14 /\ 24 + 14 + 18 = 56 /\ "txWi" \in Headers
    BY DEF P!TxWi, P!WlanFrame, P!BeaconFrame, Headers
  <2>2. P!Beacon = P!Framed(P!Part("index", 4) \o d)
    BY <2>1 DEF P!Beacon, P!BurstWrite, P!SendCommand
  <2>3. Fitting(a, 8, 56, 20, 20)
    BY <2>1, FittingHeader
  <2>4. Fitting(P!Part("wlan", P!WlanFrame), 28, 32, 24, 24)
    BY FittingWlan
  <2>5. Fitting(P!Part("data", 14), 52, 18, 14, 14) /\ Fitting(P!Part("data", 18), 66, 0, 18, 18)
    BY FittingPart
  <2> HIDE DEF a
  <2>6. Fitting(b, 8, 32, 44, 44)
    BY <2>3, <2>4, FittingConcat
  <2> HIDE DEF b
  <2>7. Fitting(c, 8, 18, 58, 58)
    BY <2>5, <2>6, FittingConcat
  <2> HIDE DEF c
  <2>8. Fitting(d, 8, 0, 76, 76)
    BY <2>5, <2>7, FittingConcat
  <2> HIDE DEF d
  <2> QED
    BY <1>2, <2>2, <2>8
<1>10. CASE p \in DOMAIN P!GipPackets
  BY <1>10, GipInWords DEF P!Transfers
<1>11. CASE p \notin DOMAIN P!GipPackets
  <2>1. p \in DOMAIN P!OtherTransfers /\ P!Transfers[p] = P!OtherTransfers[p]
    BY <1>11 DEF P!Transfers
  <2>2. p \in {"association", "pair", "beacon", "light", "address", "add", "remove"}
    BY <2>1 DEF P!OtherTransfers
  <2>3. p = "association" => InWords(P!OtherTransfers[p])
    BY <1>7 DEF P!OtherTransfers
  <2>4. p \in {"pair", "beacon", "light"} => InWords(P!OtherTransfers[p])
    BY <1>4, <1>8, <1>9 DEF P!OtherTransfers
  <2>5. p \in {"address", "add", "remove"} => InWords(P!OtherTransfers[p])
    BY <1>5, <1>6 DEF P!OtherTransfers
  <2> QED
    BY <2>1, <2>2, <2>3, <2>4, <2>5
<1> QED
  BY <1>10, <1>11

(* sendCommand, sendWlanPacket and their callers: every packet that is     *)
(* sent while controllers are served is made of words, with the headers at *)
(* the beginning of one, and each header says the bytes that belong to it. *)
THEOREM PacketsInWords == Spec => []SentInWords
<1>1. Computed => SentInWords
  <2> SUFFICES ASSUME Computed, Returned("send") PROVE SentInWords
    BY DEF SentInWords
  <2>1. input \in Sendings /\ Result = P!Transfers[input.packet]
    BY OwnInput DEF Computed, Returned, Result
  <2>2. input.packet \in DOMAIN P!Transfers
    BY <2>1 DEF Sendings
  <2>3. InWords(Result)
    BY <2>1, <2>2, TransferInWords
  <2> HIDE DEF Result
  <2> QED
    BY <2>3 DEF InWords, SentInWords
<1> QED
  BY <1>1, Invariant, PTL

(* Packets are taken apart within their bytes and put together as their    *)
(* headers say, for transfers of any size and packets of any length.       *)
THEOREM PacketsFitting == Spec => []PacketsFit
BY PacketsWithinBytes, PacketsInWords, PTL DEF PacketsFit
=============================================================================
