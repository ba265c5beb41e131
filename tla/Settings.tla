------------------------------ MODULE Settings ------------------------------
(***************************************************************************)
(* A controller's settings and the reports made with them: controller.cpp  *)
(* refreshMapping, inputReceived, guideButtonPressed and applyInput, and   *)
(* input.cpp update and setGuide, while other programs create, edit, hold  *)
(* open, restore and delete xow-win.ini.                                   *)
(*                                                                         *)
(* mappingMutex is held from the beginning of an operation to its end, so  *)
(* that only the file changes between a look at its time and its load.     *)
(* The text of a file is the mapping that load makes of it (MappingFile).  *)
(* One ordinary button, A, and Guide stand for the fifteen; the virtual    *)
(* buttons are "a" and "guide".                                            *)
(***************************************************************************)
EXTENDS Naturals

CONSTANTS
    Texts,            \* mappings that a file may contain
    Times             \* write times, a bound on the versions ever saved

Physical == {"A", "Guide"}
Default == [p \in Physical |-> IF p = "A" THEN {"a"} ELSE {"guide"}]
Mappings == [Physical -> {{}, {"a"}, {"guide"}}]
NoTime == 0

ASSUME SettingsConstants ==
    Texts \subseteq Mappings /\ Times \subseteq Nat \ {NoTime}

VARIABLES
    exists, text,     \* the file: the mapping in it
    time, used,       \* its last_write_time, and every one it ever had
    locked,           \* another program has it open and shares nothing
    step,             \* of the operation that holds mappingMutex, or idle
    arrived,          \* the input packet being handled while the file is loaded
    mapping, mappingTime,
    lastInput,        \* the buttons of the last packet that are pressed
    guideHeld, guidePressed,
    lastReport,       \* the virtual buttons the game sees pressed
    failed            \* history: the version stamped last could not be read

file == <<exists, text, time, used, locked>>
report == <<lastInput, guideHeld, guidePressed, lastReport>>
vars == <<file, step, arrived, mapping, mappingTime, report, failed>>

TypeOK ==
    /\ exists \in BOOLEAN /\ text \in Mappings
    /\ used \subseteq Nat
    /\ time \in used \cup {NoTime} /\ (exists => time # NoTime)
    /\ locked \in BOOLEAN
    /\ step \in {"check", "create", "force", "loadIdle", "loadInput", "idle"}
    /\ arrived \subseteq {"A"} /\ lastInput \subseteq {"A"}
    /\ mapping \in Mappings /\ mappingTime \in used \cup {NoTime}
    /\ guideHeld \in BOOLEAN /\ guidePressed \in BOOLEAN /\ failed \in BOOLEAN
    /\ lastReport \subseteq {"a", "guide"}

Init ==
    /\ \/ exists = FALSE /\ text = Default /\ time = NoTime /\ used = {}
       \/ exists = TRUE /\ text \in Texts /\ time \in Times /\ used = {time}
    /\ locked = FALSE
    /\ step = "check" /\ arrived = {}
    /\ mapping = Default /\ mappingTime = NoTime
    /\ lastInput = {} /\ guideHeld = FALSE /\ guidePressed = FALSE
    /\ lastReport = {} /\ failed = FALSE

-----------------------------------------------------------------------------
(* The file as other programs treat it. A file that is copied over another *)
(* keeps its write time, so that the new time may be an earlier one; it is *)
(* assumed not to be one that the file had before.                         *)

Save(t) ==
    \E new, spare \in Times \ used :          \* one is left for the template
        /\ new # spare
        /\ exists' = TRUE /\ text' = t /\ time' = new /\ used' = used \cup {new}
        /\ UNCHANGED <<locked, step, arrived, mapping, mappingTime, report, failed>>

Delete ==
    /\ exists /\ ~locked
    /\ exists' = FALSE
    /\ UNCHANGED <<text, time, used, locked, step, arrived, mapping, mappingTime, report, failed>>

Hold ==
    /\ exists
    /\ locked' = ~locked
    /\ UNCHANGED <<exists, text, time, used, step, arrived, mapping, mappingTime, report, failed>>

Environment ==
    (\E t \in Texts : Save(t)) \/ Delete \/ Hold

-----------------------------------------------------------------------------
(* initInput: Mapping::writeTemplate, then refreshMapping(true)            *)

Readable == exists /\ ~locked

CheckTemplate ==                 \* std::ifstream exists(path)
    /\ step = "check"
    /\ step' = IF Readable THEN "force" ELSE "create"
    /\ UNCHANGED <<file, arrived, mapping, mappingTime, report, failed>>

CreateTemplate ==                \* std::ofstream file(path), which truncates
    /\ step = "create"
    /\ step' = "force"
    /\ IF locked THEN UNCHANGED <<exists, text, time, used>>
       ELSE \E new \in Times \ used :
               /\ exists' = TRUE /\ text' = Default
               /\ time' = new /\ used' = used \cup {new}
    /\ UNCHANGED <<locked, arrived, mapping, mappingTime, report, failed>>

(* refreshMapping stamps the mapping with the file's time, then loads.     *)
Stamp(then) ==
    /\ step' = then
    /\ mappingTime' = time /\ failed' = FALSE
    /\ UNCHANGED <<file, mapping, report>>

ForceRefresh ==
    /\ step = "force"
    /\ IF exists THEN Stamp("loadIdle")
       ELSE step' = "idle" /\ UNCHANGED <<file, mapping, mappingTime, report, failed>>
    /\ UNCHANGED arrived

-----------------------------------------------------------------------------
\* Mutant of Changed: only a later time counts
ChangedLater == exists /\ time > mappingTime

Changed == exists /\ time # mappingTime

(* Mapping::load, which leaves the mapping alone if it cannot open it      *)
Loaded == IF Readable THEN text ELSE mapping

Load(from) ==
    /\ step = from
    /\ step' = "idle"
    /\ mapping' = Loaded /\ failed' = ~Readable
    /\ UNCHANGED <<file, mappingTime, arrived>>

RumbleCheck ==                   \* processRumble, once a second
    /\ step = "idle" /\ Changed
    /\ Stamp("loadIdle")
    /\ UNCHANGED arrived

LoadIdle == Load("loadIdle") /\ UNCHANGED report

-----------------------------------------------------------------------------
(* Reports *)

WithGuide(buttons, pressed) == (buttons \ {"guide"}) \cup (IF pressed THEN {"guide"} ELSE {})

Held(input, held) == input \cup (IF held THEN {"Guide"} ELSE {})

Pressed(m, input, held) == UNION {m[p] : p \in Held(input, held)}

(* applyInput and InputDevice::update                                      *)
ApplyInput(m, input) ==
    /\ lastInput' = input
    /\ lastReport' = WithGuide(Pressed(m, input, guideHeld), guidePressed)
    /\ UNCHANGED <<guideHeld, guidePressed>>

\* Mutant of InputUnchecked: the time stamp is renewed although nothing is loaded
InputStamped(input) ==
    /\ step = "idle"
    /\ ApplyInput(mapping, input)
    /\ mappingTime' = IF exists THEN time ELSE mappingTime
    /\ UNCHANGED <<file, step, arrived, mapping, failed>>

(* inputReceived; the file was looked at less than a second ago, or is the *)
(* same, or missing                                                        *)
InputUnchecked(input) ==
    /\ step = "idle"
    /\ ApplyInput(mapping, input)
    /\ UNCHANGED <<file, step, arrived, mapping, mappingTime, failed>>

InputChecked(input) ==
    /\ step = "idle" /\ Changed
    /\ Stamp("loadInput")
    /\ arrived' = input

LoadInput == Load("loadInput") /\ ApplyInput(mapping', arrived)

\* Mutant of GuideBit: setGuide is only called for a guide button that is mapped to guide
GuideBitIfMapped(pressed) ==
    IF "guide" \in mapping["Guide"] THEN pressed ELSE guidePressed

GuideBit(pressed) == pressed /\ "guide" \in mapping["Guide"]

(* guideButtonPressed: setGuide sends the last report again; a guide       *)
(* button mapped to something else is applied like the others              *)
GuideButton(pressed) ==
    /\ step = "idle"
    /\ guideHeld' = pressed
    /\ guidePressed' = GuideBit(pressed)
    /\ lastReport' = WithGuide(IF mapping["Guide"] \ {"guide"} # {}
                               THEN Pressed(mapping, lastInput, pressed)
                               ELSE lastReport, guidePressed')
    /\ UNCHANGED <<file, step, arrived, mapping, mappingTime, lastInput, failed>>

-----------------------------------------------------------------------------
InitSettings == CheckTemplate \/ CreateTemplate \/ ForceRefresh
Check == RumbleCheck \/ \E input \in SUBSET {"A"} : InputChecked(input)

Next ==
    \/ InitSettings \/ Check \/ LoadIdle \/ LoadInput
    \/ \E input \in SUBSET {"A"} : InputUnchecked(input)
    \/ \E pressed \in BOOLEAN : GuideButton(pressed)
    \/ Environment

(* An operation that has begun ends. The file is looked at again and       *)
(* again: the rumble thread tries every second, and is refused only if a   *)
(* packet made the handler look less than a second ago.                    *)
Spec == Init /\ [][Next]_vars /\ WF_vars(InitSettings \/ LoadIdle \/ LoadInput) /\ WF_vars(Check)

-----------------------------------------------------------------------------
InFile == mapping = text

(* refreshMapping: while no operation is under way and the last load did   *)
(* not fail, a mapping that carries the time of the present file is the    *)
(* one in the file, whatever was saved between the look and the load; a    *)
(* change is never lost by being stamped as seen.                          *)
StampMeansLoaded ==
    step = "idle" /\ exists /\ mappingTime = time /\ ~failed => InFile

(* refreshMapping: a change of the file gets into the mapping, also when   *)
(* an older file is put back, as long as loading it does not fail.         *)
FollowsFile == <>[]exists => []<>(InFile \/ failed)

(* guideButtonPressed, setGuide: a guide button that is not held is not    *)
(* pressed for the game, however the mapping changed while it was held.    *)
GuideReleased == ~guideHeld => ~guidePressed /\ "guide" \notin lastReport

(* README.md:53, "Saved changes apply within a second": a file that stays  *)
(* and can be read is applied.                                             *)
SavedApply == <>[]Readable => <>(step = "idle" /\ InFile)

(* mapping.h:66, "Writes the documented default file if it does not exist  *)
(* yet": creating the template never touches a file that exists.           *)
TemplateIsNew == [][step = "create" /\ step' = "force" /\ exists => time' = time]_vars

(* README.md:55, "physical = virtual", and :56, "names: a b ... guide": a  *)
(* pressed button that is mapped to guide presses guide.                   *)
GuideAsTarget ==
    [][\A input \in SUBSET {"A"} :
        InputUnchecked(input) /\ "A" \in input /\ "guide" \in mapping["A"]
            => "guide" \in lastReport']_vars

(* controller.cpp:124, "Guide remapped to a regular button: re-emit the    *)
(* last report with it": with nothing held, no virtual button is down.     *)
NothingHeldNothingDown == ~guideHeld /\ lastInput = {} => lastReport = {}
=============================================================================
