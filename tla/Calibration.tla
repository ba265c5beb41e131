----------------------------- MODULE Calibration -----------------------------
(***************************************************************************)
(* mt76.cpp's efuseRead, calibrateCrystal and getChannelPower: from the    *)
(* bytes of the EFUSE to the trim of the crystal and the power of each     *)
(* channel. Integers have their widths.                                    *)
(***************************************************************************)
EXTENDS Integers

(* efuseRead: words from the one that holds the address on, out of a block *)
(* of four; Outside is the register after the block.                       *)

Outside == -1

\* Mutant of EfuseRead: it starts with the word after the one that holds the address
EfuseReadNextWord(address, length) ==
    LET block == address - (address % 16)
        first == ((address % 16) \div 4) * 4 + 4
    IN [i \in 1..length |-> IF first + i <= 16 THEN block + first + i - 1 ELSE Outside]

EfuseRead(address, length) ==
    LET block == address - (address % 16)
        first == ((address % 16) \div 4) * 4
    IN [i \in 1..length |-> IF first + i <= 16 THEN block + first + i - 1 ELSE Outside]

XtalTrim1 == 58
XtalTrim2 == 158
Power2G == 86
Power5G == 98
GroupSize5G == 5

Int8(n) == ((n + 128) % 256) - 128
UInt16(n) == n % 65536

(* calibrateCrystal                                                        *)

TrimOffset(byte) ==
    IF byte = 255 THEN 0 ELSE IF byte >= 128 THEN -(byte % 128) ELSE byte

Blank(byte) == byte \in {0, 255}

\* Mutant of TrimBase: an EFUSE without either trim is not given the default
TrimBaseNoDefault(byte2, byte1) == (IF Blank(byte2) THEN byte1 ELSE byte2) % 128

TrimBase(byte2, byte1) ==
    (IF ~Blank(byte2) THEN byte2 ELSE IF ~Blank(byte1) THEN byte1 ELSE 20) % 128

(* efuse gives the bytes that matter by their addresses                    *)
TrimValue(efuse) ==
    LET Byte(address) == IF address \in DOMAIN efuse THEN efuse[address] ELSE 0
        second == EfuseRead(XtalTrim2, 4)
        first == EfuseRead(XtalTrim1, 4)
    IN UInt16(TrimBase(Byte(second[4]), Byte(first[3])) + TrimOffset(Byte(second[3])))

(* the other bits of the register are 0                                    *)
XoCtrl5(efuse) == TrimValue(efuse) * 2^8

Bit(byte, n) == (byte \div 2^n) % 2 = 1

-----------------------------------------------------------------------------
(* getChannelPower                                                         *)

Is24Ghz(channel) == channel <= 14

Japan == 0
Unii1 == 1
Unii2 == 2
Unii2E1 == 3
Unii2E2 == 4
Unii3 == 5

Group(channel) ==
    CASE channel \in 184..196 -> Japan
      [] channel <= 48 -> Unii1
      [] channel \in 49..64 -> Unii2
      [] channel \in 65..114 -> Unii2E1
      [] channel \in 115..144 -> Unii2E2
      [] OTHER -> Unii3

Low == 1         \* subgroups; the high end of 5 GHz has the number of Mid
Mid == 2
High == 3

Subgroup(channel) ==
    IF Is24Ghz(channel)
    THEN IF channel < 6 THEN Low ELSE IF channel < 11 THEN Mid ELSE High
    ELSE IF channel \in (44..51) \cup (58..97) \cup (106..115) \cup (130..148)
                            \cup (157..183) \cup (192..255)
         THEN Mid ELSE Low

TableIndex(channel) ==
    IF Is24Ghz(channel) THEN Power2G ELSE Power5G + Group(channel) * GroupSize5G

\* Mutant of TargetIndex: the same in both tables
TargetIndexSame(channel) == 5

TargetIndex(channel) == IF Is24Ghz(channel) THEN 4 ELSE 5

(* the addresses of the target and of the offset                           *)
PowerBytes(channel) ==
    LET e == EfuseRead(TableIndex(channel), 8) i == TargetIndex(channel)
    IN IF i + Subgroup(channel) < 8
       THEN <<e[i + 1], e[i + Subgroup(channel) + 1]>>
       ELSE <<e[i + 1], Outside>>

MinPower == 0
MaxPower == 47

\* Mutant of Power: the sign bit has the opposite meaning
PowerSignSwapped(target, offset) ==
    LET size == offset % 64
        power == Int8(IF Bit(offset, 6) THEN target - size ELSE target + size)
    IN IF ~Bit(offset, 7) THEN target
       ELSE IF power < MinPower THEN MinPower
       ELSE IF power > MaxPower THEN MaxPower ELSE power

Power(target, offset) ==
    LET size == offset % 64
        power == Int8(IF Bit(offset, 6) THEN target + size ELSE target - size)
    IN IF ~Bit(offset, 7) THEN target
       ELSE IF power < MinPower THEN MinPower
       ELSE IF power > MaxPower THEN MaxPower ELSE power

(* initChannels                                                            *)
Channels == {1, 6, 11, 36, 40, 44, 48, 149, 153, 157, 161, 165}

(* configureChannel                                                        *)
ChannelConfig(channel, target, offset) ==
    [channel |-> channel, txPower |-> Power(target, offset), bytes |-> PowerBytes(channel)]
=============================================================================
