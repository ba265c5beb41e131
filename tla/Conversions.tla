----------------------------- MODULE Conversions ------------------------------
(***************************************************************************)
(* The pure algorithms of the driver, each called once with any input: the *)
(* settings file, triggers and sticks, the crystal, the channels, and the  *)
(* packets of both directions.                                             *)
(***************************************************************************)
EXTENDS MappingFile, Axes, Calibration

P == INSTANCE Packets

CONSTANTS
    Lines,            \* lines that a settings file may contain
    MaxLines,         \* bound on their number
    Contents,         \* bytes that the EFUSE may contain
    MaxSize,          \* bound on the size of a transfer
    Lengths,          \* that a controller's packet may announce
    WcidCount         \* 16 in the code

ASSUME ConversionConstants ==
    /\ MaxLines \in Nat /\ MaxSize \in Nat /\ WcidCount \in Nat \ {0}
    /\ Contents \subseteq 0..255 /\ Lengths \subseteq 0..255
    /\ \A line \in Lines : line.kind = "pair" => line.value.number \in Int

VARIABLES
    input,            \* the function called, with its arguments
    output            \* what it returned or wrote, in a sequence: none before it has

vars == <<input, output>>

Files == [call: {"load"}, lines: BoundedSeq(Lines, MaxLines)]
Triggers == [call: {"trigger"}, value: 0..(2 * FullTrigger), deadzone: Deadzones]
Sticks == [call: {"stick"}, x: Axis, y: Axis, deadzone: Deadzones, inverted: BOOLEAN]
Trims == [call: {"crystal"}, efuse: [{XtalTrim1, XtalTrim2, XtalTrim2 + 1} -> Contents]]
Powers == [call: {"channel"}, channel: Channels, target: Contents, offset: Contents]

(* a controller's packet, and the fields of a transfer that it is not in   *)
GipFrames == [command: DOMAIN P!Payload \cup {"other"}, length: Lengths, accessory: BOOLEAN]
Received(info, frame, toUs, request, wcid, gip) ==
    [call: {"receive"}, size: 0..MaxSize, info: info, frame: frame, toUs: toUs,
     request: request, wcid: wcid, count: {WcidCount}, gip: gip]
NoGip == {[command |-> "other", length |-> 0, accessory |-> FALSE]}

Receptions ==
    Received({"button", "lost", "other"}, {"none"}, {FALSE}, {FALSE}, {0}, NoGip)
        \cup Received({"packet", "wlan"}, {"association", "disassociation", "reserved", "other"},
                      BOOLEAN, BOOLEAN, {0}, NoGip)
        \cup Received({"wlan"}, {"data"}, {TRUE}, {FALSE}, {0, 1, WcidCount, WcidCount + 1}, GipFrames)
Sendings == [call: {"send"}, packet: DOMAIN P!Transfers]

Init ==
    /\ input \in Files \cup Triggers \cup Sticks \cup Trims \cup Powers \cup Receptions \cup Sendings
    /\ output = <<>>

Called(call) == input.call = call /\ output = <<>> /\ UNCHANGED input

LoadFile == Called("load") /\ output' = <<Load(input.lines)>>
ApplyTrigger == Called("trigger") /\ output' = <<Trigger(input.value, input.deadzone)>>
ApplyStick ==
    Called("stick") /\ output' = <<Reported(input.x, input.y, input.deadzone, input.inverted)>>
CalibrateCrystal == Called("crystal") /\ output' = <<XoCtrl5(input.efuse)>>
ConfigureChannel ==
    Called("channel") /\ output' = <<ChannelConfig(input.channel, input.target, input.offset)>>

Receive == Called("receive") /\ output' = <<P!HandleBulkData(input)>>
Send == Called("send") /\ output' = <<P!Transfers[input.packet]>>

Next ==
    \/ LoadFile \/ ApplyTrigger \/ ApplyStick \/ CalibrateCrystal \/ ConfigureChannel
    \/ Receive \/ Send
Spec == Init /\ [][Next]_vars

Returned(call) == input.call = call /\ output # <<>>
Result == output[1]

-----------------------------------------------------------------------------
(* The meaning of a file, without reading it in order.                     *)

SectionOf(i) ==
    LET headers == {j \in 1..i : input.lines[j].kind = "header"}
    IN IF headers = {} THEN "" ELSE input.lines[Max(headers)].section

SetBy(s) ==
    {i \in DOMAIN input.lines : input.lines[i].kind = "pair" /\ SectionOf(i) = s[1]
        /\ LET m == Meaning(s[1], input.lines[i]) IN m.ok /\ m.setting = s}

(* load: each setting has the value of the last line of its own section    *)
(* that load accepts for it, whichever of its names the line uses, and its *)
(* default if there is none; every other line changes nothing.             *)
LastLineCounts ==
    Returned("load") =>
        \A s \in Settings :
            Result[s] = IF SetBy(s) = {} THEN Defaults[s]
                        ELSE Meaning(s[1], input.lines[Max(SetBy(s))]).value

Numbers ==
    {<<"triggers", "deadzone">>, <<"vibration", "level">>}
        \cup {<<"sticks", k>> : k \in Fractions.sticks}

\* the line that counts for s gives "nan" for a number
SaysNaN(s) == SetBy(s) # {} /\ input.lines[Max(SetBy(s))].value.word = "nan"

(* load: a dead zone is at most 0.95 (applyTrigger, applyStickDeadzone     *)
(* divide by 1 - deadzone) and the vibration a percentage, whatever number *)
(* is written. A line that says "nan" is the exception: load accepts it,   *)
(* and the setting is no number (refuted below: MalformedSkipped).         *)
InRange ==
    Returned("load") =>
        \A s \in Numbers :
            IF SaysNaN(s) THEN Result[s] = NaN
            ELSE Result[s] \in 0..(IF s[1] = "vibration" THEN 100 ELSE 95)

-----------------------------------------------------------------------------
(* applyTrigger: the full pull and all beyond it are the full byte, a      *)
(* trigger at rest is 0, and pulling farther never makes the value go back. *)
TriggerRange ==
    Returned("trigger") =>
        /\ Result \in 0..FullByte
        /\ input.value >= FullTrigger => Result = FullByte
        /\ input.value = 0 => Result = 0
        /\ Result <= Trigger(input.value + 1, input.deadzone)

(* applyTrigger: nor does the value jump by more than the stretching and   *)
(* the cut-off explain, in particular not at the dead zone's edge.         *)
TriggerSmooth ==
    Returned("trigger") =>
        (Trigger(input.value + 1, input.deadzone) - Result - 1) * FullTrigger * (10 - input.deadzone)
            <= 10 * FullByte

(* applyStickDeadzone: the corrected position has the direction of the     *)
(* real one (within the unit that is cut off) and is no farther out.       *)
KeepsDirection ==
    Returned("stick") =>
        LET x == input.x  y == input.y
            u == Result.x  v == Stick(y, x, input.deadzone)
        IN /\ u * x >= 0 /\ v * y >= 0
           /\ Abs(u) <= Abs(x) /\ Abs(v) <= Abs(y)
           /\ Abs(u * y - v * x) <= Abs(x) + Abs(y)

(* applyStickDeadzone, applyInput: a unit of movement of the stick, in any *)
(* direction, moves the result by no more than the stretching and the      *)
(* cut-off explain: there is no jump at the edge of the dead zone, at the  *)
(* rim, or where Y is inverted.                                            *)
StickSmooth ==
    LET Near(before, after) == (Abs(after - before) - 1) * (10 - input.deadzone) <= 10
        At(x, y) == Reported(x, y, input.deadzone, input.inverted)
    IN Returned("stick") =>
        /\ input.x < FullStick => LET p == At(input.x + 1, input.y)
                                  IN Near(Result.x, p.x) /\ Near(Result.y, p.y)
        /\ input.y < FullStick => LET p == At(input.x, input.y + 1)
                                  IN Near(Result.x, p.x) /\ Near(Result.y, p.y)

(* applyStickDeadzone, applyInput: the ends of an axis are still reached,  *)
(* also inverted, and nothing leaves the range of an int16.                *)
FullDeflection ==
    Returned("stick") =>
        /\ Result.x \in Axis /\ Result.y \in Axis
        /\ input.x = FullStick /\ input.y = 0 => Result.x = FullStick
        /\ input.y = -FullStick - 1 /\ input.x = 0 /\ input.inverted => Result.y = FullStick

-----------------------------------------------------------------------------
(* efuseRead, calibrateCrystal: although efuseRead drops the low bits of   *)
(* an address, the bytes taken are the two at MT_EE_XTAL_TRIM_2 and the    *)
(* one at MT_EE_XTAL_TRIM_1: a trim in the former counts whatever is in    *)
(* the latter, which counts otherwise, and the offset's top bit lowers it. *)
TrimMeant ==
    Returned("crystal") =>
        LET offset == input.efuse[XtalTrim2]
            chosen == input.efuse[IF Blank(input.efuse[XtalTrim2 + 1]) THEN XtalTrim1 ELSE XtalTrim2 + 1]
            value == Result \div 2^8
        IN \/ Blank(chosen)
           \/ offset = 255 /\ value = chosen % 128
           \/ offset < 128 /\ value - offset = chosen % 128
           \/ offset \in 128..254 /\ (value + offset - 128) % 2^16 = chosen % 128

(* calibrateCrystal: a crystal is never left without a trim: if there is   *)
(* no offset, the field gets a value that is neither of the blank ones,    *)
(* unless the EFUSE asks for it by the byte 0x80.                          *)
CrystalTrimmed ==
    Returned("crystal") /\ TrimOffset(input.efuse[XtalTrim2]) = 0
        => \/ Result \div 2^8 \in 1..127
           \/ 128 \in {input.efuse[XtalTrim1], input.efuse[XtalTrim2 + 1]}

(* efuseRead, getChannelPower: although efuseRead drops the low bits of an *)
(* address and does not go on in the next block, the bytes taken for every *)
(* channel in use are inside the block and inside the power table of that  *)
(* channel's own group.                                                    *)
OwnTable ==
    Returned("channel") =>
        \A i \in DOMAIN Result.bytes :
            Result.bytes[i] - TableIndex(input.channel)
                \in 0..(IF Is24Ghz(input.channel) THEN 5 ELSE GroupSize5G - 1)

(* getChannelPower: where the table holds powers within the limits, eight  *)
(* bits are enough for the arithmetic: the power sent is the target moved  *)
(* by the offset and cut off at the limits.                                *)
PowerExact ==
    LET size == input.offset % 64
        moved == IF ~Bit(input.offset, 7) THEN input.target
                 ELSE IF Bit(input.offset, 6) THEN input.target + size ELSE input.target - size
    IN Returned("channel") /\ input.target \in MinPower..MaxPower
        => Result.txPower = Clamp(moved, MinPower, MaxPower)

-----------------------------------------------------------------------------
(* handleBulkData to handlePacket: whatever the size of a transfer, and    *)
(* whatever its packet says of its own length, nothing is read or copied   *)
(* from outside the bytes between its header and its end marker.           *)
ReadsInside ==
    Returned("receive") =>
        \A b \in Result.reads : 0 <= b.from /\ b.from <= b.upto /\ b.upto <= input.size - 4

(* Where things are in a transfer that is whole: the packet's handler, and *)
(* the bytes it takes, its information and end marker included.            *)
Whole ==
    LET wlan == input.info \in {"packet", "wlan"} /\ input.toUs
        gip == input.gip
        larger == gip.command = "input" /\ gip.length >= 14
    IN CASE input.info = "button" -> <<"pairing", 9>>
         [] input.info = "lost" -> <<"disconnect", 9>>
         [] wlan /\ input.frame = "association" -> <<"connect", 65>>
         [] wlan /\ input.frame = "disassociation" -> <<"disconnect", 65>>
         [] wlan /\ input.frame = "reserved" /\ input.request -> <<"pair", 66>>
         [] wlan /\ input.frame = "data" /\ input.wcid \in 1..WcidCount /\ ~gip.accessory
                /\ gip.command # "other" /\ (gip.length = P!Payload[gip.command] \/ larger)
                -> <<gip.command, 72 + P!Payload[gip.command]>>
         [] OTHER -> <<"none", 0>>

(* handleBulkData to handlePacket: a packet reaches the handler it is for  *)
(* exactly if it has arrived whole: none is dropped for being as short as  *)
(* its kind allows, and none is handled in part.                           *)
WholeHandled ==
    Returned("receive") =>
        Result.handler = IF input.size >= Whole[2] THEN Whole[1] ELSE "none"

(* What a header counts of the parts behind it.                            *)
Counted(parts) ==
    FoldLeft(LAMBDA n, p : n + (IF p.part \in {"padding", "end"} THEN 0 ELSE p.size), 0, parts)

(* sendCommand, sendWlanPacket and their callers: what is sent is made of  *)
(* words, the headers are at the beginning of one, and each header says    *)
(* the number of bytes that belong to it: the information all but itself   *)
(* and the end marker, TxWi the frame without its padding, the GIP frame   *)
(* its data.                                                               *)
SentInWords ==
    LET Before(i) == P!Length(SubSeq(Result, 1, i - 1))
        Behind(i) == Counted(SubSeq(Result, i + 1, Len(Result)))
        Enclosed(i) == P!Length(SubSeq(Result, i + 1, Len(Result) - 1))
    IN Returned("send") =>
        /\ P!Length(Result) % 4 = 0
        /\ \A i \in DOMAIN Result :
              /\ Result[i].part \in {"info", "txWi", "wlan", "gip"} => Before(i) % 4 = 0
              /\ Result[i].part = "info" => Result[i].says = Enclosed(i)
              /\ Result[i].part \in {"txWi", "gip"} => Result[i].says = Behind(i)

-----------------------------------------------------------------------------
(* load: a file means what its lines say, each setting the last accepted   *)
(* one about it, and the numbers are within their limits, except where     *)
(* that line says "nan".                                                   *)
FileMeaning == LastLineCounts /\ InRange

(* applyTrigger: a trigger reaches both ends, never goes back and never    *)
(* jumps, whatever the dead zone.                                          *)
TriggerShape == TriggerRange /\ TriggerSmooth

(* applyStickDeadzone, applyInput: a stick keeps its direction, moves      *)
(* without jumps and reaches the ends of its axes, also an inverted one.   *)
StickShape == KeepsDirection /\ StickSmooth /\ FullDeflection

(* calibrateCrystal: the crystal gets the trim that the EFUSE means, and   *)
(* never none.                                                             *)
CrystalMeant == TrimMeant /\ CrystalTrimmed

(* getChannelPower: a channel's power is taken from its own group's table  *)
(* and is computed without overflow.                                       *)
PowerMeant == OwnTable /\ PowerExact

(* handleBulkData to handlePacket, sendCommand and the senders: packets    *)
(* are taken apart within their bytes and are put together as their        *)
(* headers say.                                                            *)
PacketsFit == ReadsInside /\ WholeHandled /\ SentInWords

-----------------------------------------------------------------------------
(* What documents and comments say and the code does not do: these do not  *)
(* hold.                                                                   *)

(* mapping.h:59, "unknown or malformed lines are logged and skipped", and  *)
(* mapping.h:54, "0-100": a word that is no number does not get into a     *)
(* setting that is one.                                                    *)
MalformedSkipped == Returned("load") => \A s \in Numbers : Result[s] # NaN

(* mt76.cpp:103, MT_XO_CTRL5_C2_VAL is GENMASK(14, 8): the trim changes no *)
(* other bit of the register.                                              *)
OnlyTrimField == Returned("crystal") => Result \in {n * 2^8 : n \in 0..127}

(* mt76.cpp:811, "Channel power limits (0 dB to 23.5 dB)": no channel is   *)
(* given more or less.                                                     *)
PowerWithinLimits == Returned("channel") => Result.txPower \in MinPower..MaxPower
=============================================================================
