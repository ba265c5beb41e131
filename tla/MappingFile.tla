---------------------------- MODULE MappingFile -----------------------------
(***************************************************************************)
(* mapping.cpp's Mapping::load: the settings that the lines of xow-win.ini *)
(* give, read one by one into a fresh Mapping.                             *)
(*                                                                         *)
(* A line is what trimming, lower-casing and cutting off comments leave.   *)
(* A number is kept in hundredths of what is written. std::stof also takes *)
(* the word "nan", and std::clamp lets it through.                         *)
(***************************************************************************)
EXTENDS Integers, SequencesExt

-----------------------------------------------------------------------------
(* Lines *)

Word(w) == [word |-> w, number |-> 0, percent |-> FALSE]
Number(n) == [word |-> "", number |-> n, percent |-> FALSE]
Percent(n) == [word |-> "", number |-> n, percent |-> TRUE]

Text == [kind |-> "text"]                  \* no '='
Header(s) == [kind |-> "header", section |-> s]
Pair(k, v) == [kind |-> "pair", key |-> k, value |-> v]

(* Names *)

PhysicalNames ==
    [a |-> "A", b |-> "B", x |-> "X", y |-> "Y", lb |-> "LB", rb |-> "RB",
     ls |-> "LS", rs |-> "RS", start |-> "Start", menu |-> "Start",
     back |-> "Back", view |-> "Back", select |-> "Back", up |-> "Up", down |-> "Down",
     left |-> "Left", right |-> "Right", guide |-> "Guide", xbox |-> "Guide"]

(* A virtual button has the name of the physical one it belongs to.        *)
VirtualNames ==
    [n \in DOMAIN PhysicalNames \cup {"none", "off", "disabled"} |->
        IF n \in DOMAIN PhysicalNames THEN {PhysicalNames[n]} ELSE {}]

Buttons == Range(PhysicalNames)
Booleans == [n \in {"1", "true", "yes", "on", "0", "false", "no", "off"} |->
                n \in {"1", "true", "yes", "on"}]

Clamp(n, low, high) == IF n < low THEN low ELSE IF n > high THEN high ELSE n

(* What "nan" leaves in a setting. A dead zone is then no number; the cast *)
(* of the vibration, and later that of a stick's position, is undefined.   *)
NaN == -1
IsNumber(v) == v.word \in {"", "nan"}

\* Mutant of Fraction: the value is not clamped
FractionAsWritten(v) == IF v.percent THEN v.number \div 100 ELSE v.number

(* parsePercentOrFraction, in hundredths *)
Fraction(v) ==
    IF v.word = "nan" THEN NaN
    ELSE Clamp(IF v.percent THEN v.number \div 100 ELSE v.number, 0, 95)

Level(v) == IF v.word = "nan" THEN NaN ELSE Clamp(v.number, 0, 10000) \div 100

Fractions == [sticks |-> {"left_deadzone", "right_deadzone"}, triggers |-> {"deadzone"}]
Flags == [sticks |-> {"invert_left_y", "invert_right_y", "swap_sticks"},
          triggers |-> {"swap_triggers"}]
Settings == {<<"sticks", k>> : k \in Fractions.sticks \cup Flags.sticks}
    \cup {<<"triggers", k>> : k \in Fractions.triggers \cup Flags.triggers}
    \cup {<<"vibration", "level">>} \cup {<<"buttons", b>> : b \in Buttons}

(* Mapping() and the initialisers of its members *)
Defaults == [s \in Settings |->
    CASE s[1] = "buttons" -> {s[2]}
      [] s[1] = "vibration" -> 100
      [] OTHER -> IF s[2] \in Fractions[s[1]] THEN 0 ELSE FALSE]

-----------------------------------------------------------------------------
(* What a pair sets: the setting, whether the line is accepted, the value. *)

Rejected == [ok |-> FALSE]
Accepted(s, v) == [ok |-> TRUE, setting |-> s, value |-> v]

ButtonLine(key, v) ==
    IF key \in DOMAIN PhysicalNames /\ v.word \in DOMAIN VirtualNames
    THEN Accepted(<<"buttons", PhysicalNames[key]>>, VirtualNames[v.word])
    ELSE Rejected

AxisLine(s, key, v) ==
    IF key \in Fractions[s] /\ IsNumber(v) THEN Accepted(<<s, key>>, Fraction(v))
    ELSE IF key \in Flags[s] /\ v.word \in DOMAIN Booleans
    THEN Accepted(<<s, key>>, Booleans[v.word])
    ELSE Rejected

VibrationLine(key, v) ==
    IF key = "level" /\ IsNumber(v) THEN Accepted(<<"vibration", "level">>, Level(v))
    ELSE Rejected

Meaning(s, line) ==
    CASE s = "buttons" -> ButtonLine(line.key, line.value)
      [] s \in {"sticks", "triggers"} -> AxisLine(s, line.key, line.value)
      [] s = "vibration" -> VibrationLine(line.key, line.value)
      [] OTHER -> Rejected

-----------------------------------------------------------------------------
(* load: the section the lines are in, and the mapping so far              *)

\* Mutant of ReadHeader: an unknown section does not end the one before it
ReadKnownHeader(state, line) ==
    IF line.section \in {"buttons", "sticks", "triggers", "vibration"}
    THEN [state EXCEPT !.section = line.section] ELSE state

ReadHeader(state, line) == [state EXCEPT !.section = line.section]

ReadPair(state, line) ==
    LET m == Meaning(state.section, line)
    IN IF m.ok THEN [state EXCEPT !.fresh[m.setting] = m.value] ELSE state

ReadLine(state, line) ==
    CASE line.kind = "header" -> ReadHeader(state, line)
      [] line.kind = "pair" -> ReadPair(state, line)
      [] OTHER -> state               \* reported and skipped

Load(lines) == FoldLeft(ReadLine, [section |-> "", fresh |-> Defaults], lines).fresh
=============================================================================
