--------------------------- MODULE SettingsProofs ---------------------------
(***************************************************************************)
(* Safety of Settings for every set of texts and write times.              *)
(***************************************************************************)
EXTENDS Settings, TLAPS

(* Write times are never the one that stands for none; the properties are  *)
(* inductive together with that and the types: a time that a file is saved *)
(* with is new, and so not the one that the mapping carries.               *)
IInv == TypeOK /\ NoTime \notin used /\ StampMeansLoaded /\ GuideReleased

-----------------------------------------------------------------------------
(* Mapping(): the identity is a mapping.                                   *)
LEMMA DefaultIsMapping == Default \in Mappings
  BY DEF Default, Mappings, Physical

(* applyInput, update: what any mapping makes of any buttons are virtual   *)
(* buttons, and the guide button is among them if and only if it is the    *)
(* one that setGuide has set.                                              *)
LEMMA Reports ==
  ASSUME NEW m \in Mappings, NEW input \in SUBSET {"A"},
         NEW held \in BOOLEAN, NEW pressed \in BOOLEAN
  PROVE  /\ Pressed(m, input, held) \subseteq {"a", "guide"}
         /\ WithGuide(Pressed(m, input, held), pressed) \subseteq {"a", "guide"}
         /\ ~pressed => "guide" \notin WithGuide(Pressed(m, input, held), pressed)
  <1>1. Held(input, held) \subseteq Physical
    BY DEF Held, Physical
  <1>2. \A p \in Physical : m[p] \subseteq {"a", "guide"}
    BY DEF Mappings
  <1>3. Pressed(m, input, held) \subseteq {"a", "guide"}
    BY <1>1, <1>2 DEF Pressed
  <1> QED
    BY <1>3 DEF WithGuide

(* The inductive invariant holds of a controller that was just plugged in. *)
LEMMA Initial == Init => IInv
  <1> SUFFICES ASSUME Init PROVE IInv
    OBVIOUS
  <1>1. NoTime \notin used /\ used \subseteq Nat /\ text \in Mappings
    BY SettingsConstants, DefaultIsMapping DEF Init, NoTime
  <1>2. TypeOK
    BY <1>1, SettingsConstants, DefaultIsMapping DEF Init, TypeOK, NoTime
  <1>3. StampMeansLoaded /\ GuideReleased
    BY DEF Init, StampMeansLoaded, GuideReleased
  <1> QED
    BY <1>1, <1>2, <1>3 DEF IInv

(* The file's and the handler's steps keep it.                             *)
LEMMA Inductive == IInv /\ [Next]_vars => IInv'
  <1> SUFFICES ASSUME IInv, [Next]_vars PROVE IInv'
    OBVIOUS
  <1> USE DEF IInv, TypeOK, StampMeansLoaded, GuideReleased, InFile, file, report, NoTime
  <1>1. ASSUME NEW t \in Texts, Save(t) PROVE IInv'
    BY <1>1, SettingsConstants DEF Save
  <1>2. CASE Delete
    BY <1>2 DEF Delete
  <1>3. CASE Hold
    BY <1>3 DEF Hold
  <1>4. CASE CheckTemplate
    BY <1>4 DEF CheckTemplate
  <1>5. CASE CreateTemplate
    BY <1>5, SettingsConstants, DefaultIsMapping DEF CreateTemplate
  <1>6. CASE ForceRefresh
    BY <1>6 DEF ForceRefresh, Stamp
  <1>7. CASE RumbleCheck
    BY <1>7 DEF RumbleCheck, Stamp
  <1>8. ASSUME NEW input \in SUBSET {"A"}, InputChecked(input) PROVE IInv'
    BY <1>8 DEF InputChecked, Stamp
  <1>9. CASE LoadIdle
    BY <1>9 DEF LoadIdle, Load, Loaded, Readable
  <1>10. CASE LoadInput
    <2>1. mapping' \in Mappings
      BY <1>10 DEF LoadInput, Load, Loaded, Readable
    <2>2. /\ WithGuide(Pressed(mapping', arrived, guideHeld), guidePressed) \subseteq {"a", "guide"}
          /\ ~guidePressed => "guide" \notin
                WithGuide(Pressed(mapping', arrived, guideHeld), guidePressed)
      BY <2>1, Reports
    <2> QED
      BY <1>10, <2>1, <2>2 DEF LoadInput, Load, Loaded, Readable, ApplyInput
  <1>11. ASSUME NEW input \in SUBSET {"A"}, InputUnchecked(input) PROVE IInv'
    <2>1. /\ WithGuide(Pressed(mapping, input, guideHeld), guidePressed) \subseteq {"a", "guide"}
          /\ ~guidePressed => "guide" \notin
                WithGuide(Pressed(mapping, input, guideHeld), guidePressed)
      BY Reports
    <2> QED
      BY <1>11, <2>1 DEF InputUnchecked, ApplyInput
  <1>12. ASSUME NEW pressed \in BOOLEAN, GuideButton(pressed) PROVE IInv'
    <2>1. guidePressed' \in BOOLEAN /\ guideHeld' = pressed /\ (~pressed => ~guidePressed')
      BY <1>12 DEF GuideButton, GuideBit
    <2>2. /\ WithGuide(Pressed(mapping, lastInput, pressed), guidePressed') \subseteq {"a", "guide"}
          /\ ~guidePressed' => "guide" \notin
                WithGuide(Pressed(mapping, lastInput, pressed), guidePressed')
      BY <2>1, Reports
    <2>3. /\ WithGuide(lastReport, guidePressed') \subseteq {"a", "guide"}
          /\ ~guidePressed' => "guide" \notin WithGuide(lastReport, guidePressed')
      BY DEF WithGuide
    <2>4. lastReport' \subseteq {"a", "guide"} /\ (~guidePressed' => "guide" \notin lastReport')
      BY <1>12, <2>2, <2>3 DEF GuideButton
    <2> QED
      BY <1>12, <2>1, <2>4 DEF GuideButton
  <1>13. CASE UNCHANGED vars
    BY <1>13 DEF vars
  <1> QED
    BY <1>1, <1>2, <1>3, <1>4, <1>5, <1>6, <1>7, <1>8, <1>9, <1>10, <1>11, <1>12, <1>13
    DEF Next, InitSettings, Check, Environment

-----------------------------------------------------------------------------
(* Type correctness, for all texts and write times.                        *)
THEOREM TypeCorrect == Spec => []TypeOK
  <1>1. IInv => TypeOK
    BY DEF IInv
  <1> QED
    BY Initial, Inductive, <1>1, PTL DEF Spec

(* refreshMapping: a mapping that carries the time of the present file is  *)
(* what the file holds, unless its load failed: no change is stamped as    *)
(* seen without having been loaded.                                        *)
THEOREM StampLoaded == Spec => []StampMeansLoaded
  <1>1. IInv => StampMeansLoaded
    BY DEF IInv
  <1> QED
    BY Initial, Inductive, <1>1, PTL DEF Spec

(* guideButtonPressed, setGuide: whatever happens to the mapping, a guide  *)
(* button that is not held is not pressed for the game.                    *)
THEOREM GuideIsReleased == Spec => []GuideReleased
  <1>1. IInv => GuideReleased
    BY DEF IInv
  <1> QED
    BY Initial, Inductive, <1>1, PTL DEF Spec
=============================================================================
