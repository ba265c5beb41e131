------------------------------- MODULE Packets -------------------------------
(***************************************************************************)
(* What the driver makes of the bytes of a bulk transfer, and which bytes  *)
(* it sends: the sizes and places of headers, padding and payload. What    *)
(* the bytes say is reduced to what the code branches on. Who is connected *)
(* is not looked at: Dongle and Controller have the handlers' effects.     *)
(***************************************************************************)
EXTENDS Integers, SequencesExt

(* sizes of the structures, without the alignment of MS bit-fields         *)

Word == 4                            \* RxInfo..., TxInfo..., end marker
RxWi == 4 + 4 + 4 + 4 + 16
TxWi == 4 + 4 + 4 + 4 + 4
WlanFrame == 2 + 2 + 6 + 6 + 6 + 2
QosFrame == 2
ReservedFrame == 1 + 1
AssociationResponseFrame == 2 + 2 + 2 + 8
BeaconFrame == 8 + 2 + 2 + 2
GipFrame == 4

(* the structures that handlePacket hands to its handlers                  *)
Payload == [
    announce |-> 6 + 2 + 2 + 2 + 8 + 8,
    status |-> 1 + 1 + 2,
    guide |-> 1 + 1,
    serial |-> 2 + 14,
    input |-> 2 + 2 + 2 + 8]

Padding(n) == (Word - (n % Word)) % Word

-----------------------------------------------------------------------------
(* Received: a Bytes is a stretch of the transfer, toStruct is another.    *)

Stretch(from, upto) == [from |-> from, upto |-> upto]
Size(b) == b.upto - b.from
Skip(b, first, last) == Stretch(b.from + first, b.upto - last)
Struct(b, offset, size) == Stretch(b.from + offset, b.from + offset + size)

Ignored(reads) == [handler |-> "none", reads |-> reads]
Handled(handler, reads) == [handler |-> handler, reads |-> reads]
After(reads, rest) == [rest EXCEPT !.reads = @ \cup reads]

\* Mutant of LengthFits: the size of what has arrived is not looked at
LengthClaimed(gip, data) ==
    IF gip.command = "input" THEN gip.length >= Payload.input ELSE gip.length = Payload[gip.command]

(* gip.length is what the packet says of itself                            *)
LengthFits(gip, data) ==
    /\ IF gip.command = "input" THEN gip.length >= Payload.input
       ELSE gip.length = Payload[gip.command]
    /\ Size(data) >= Payload[gip.command]

HandlePacket(b, gip) ==
    LET frame == Struct(b, 0, GipFrame)
        data == Skip(b, GipFrame, 0)
    IN IF Size(b) < GipFrame THEN Ignored({})
       ELSE IF gip.accessory THEN Ignored({frame})
       ELSE IF gip.command \in DOMAIN Payload /\ LengthFits(gip, data)
       THEN Handled(gip.command, {frame, data, Struct(data, 0, Payload[gip.command])})
       ELSE Ignored({frame, data})

\* Mutant of HandleControllerPacket: the two bytes of padding are not counted
HandleControllerPacketNoPad(b, wcid, count, gip) ==
    LET data == Skip(b, QosFrame + 2, 0)
    IN IF wcid = 0 \/ wcid > count \/ Size(b) <= QosFrame THEN Ignored({})
       ELSE After({data}, HandlePacket(data, gip))

(* count is MT_WCID_COUNT                                                  *)
HandleControllerPacket(b, wcid, count, gip) ==
    LET data == Skip(b, QosFrame + 2, 0)
    IN IF wcid = 0 \/ wcid > count \/ Size(b) <= QosFrame + 2 THEN Ignored({})
       ELSE After({data}, HandlePacket(data, gip))

HandleControllerPair(b, request) ==
    LET frame == Struct(b, 0, ReservedFrame)
    IN IF Size(b) < ReservedFrame THEN Ignored({})
       ELSE IF request THEN Handled("pair", {frame}) ELSE Ignored({frame})

HandleWlanPacket(b, t) ==
    LET inner == Skip(b, RxWi + WlanFrame, 0)
        headers == {Struct(b, 0, RxWi), Struct(b, RxWi, WlanFrame)}
        Rest ==
            CASE t.frame = "association" -> Handled("connect", {})
              [] t.frame = "disassociation" -> Handled("disconnect", {})
              [] t.frame = "reserved" -> After({inner}, HandleControllerPair(inner, t.request))
              [] t.frame = "data" ->
                     After({inner}, HandleControllerPacket(inner, t.wcid, t.count, t.gip))
              [] OTHER -> Ignored({})
    IN IF Size(b) <= RxWi + WlanFrame THEN Ignored({})
       ELSE After(headers, IF t.toUs THEN Rest ELSE Ignored({}))

HandleBulkData(t) ==
    LET all == Stretch(0, t.size)
        packet == Skip(all, Word, Word)
        Rest ==
            CASE t.info = "button" -> Handled("pairing", {})
              [] t.info = "lost" -> Handled("disconnect", {Struct(packet, 0, 1)})
              [] t.info \in {"packet", "wlan"} -> HandleWlanPacket(packet, t)
              [] OTHER -> Ignored({})
    IN IF Size(all) <= Word + Word THEN Ignored({})
       ELSE After({Struct(all, 0, Word), packet}, Rest)

-----------------------------------------------------------------------------
(* Sent: the parts of a packet in their order. A header "says" how many    *)
(* bytes belong to it.                                                     *)

Part(name, size) == <<[part |-> name, size |-> size, says |-> 0]>>
Header(name, size, says) == <<[part |-> name, size |-> size, says |-> says]>>
Pad(size) == Part("padding", size)
Length(parts) == FoldLeft(LAMBDA n, p : n + p.size, 0, parts)

(* GipDevice's senders; acknowledgePacket's frame repeats the one received *)
GipPackets == [
    power |-> Header("gip", GipFrame, 1) \o Part("data", 1),
    rumble |-> Header("gip", GipFrame, 9) \o Part("data", 9),
    led |-> Header("gip", GipFrame, 3) \o Part("data", 3),
    serial |-> Header("gip", GipFrame, 1) \o Part("data", 1),
    acknowledge |-> Header("gip", GipFrame, GipFrame + 5)
        \o Part("data", 1) \o Part("data", GipFrame) \o Part("data", 4)]

Framed(data) ==
    LET padding == Padding(Length(data))
    IN Header("info", Word, Length(data) + padding) \o data \o Pad(padding) \o Part("end", Word)

SendCommand(data) == Framed(data)
SendWlanPacket(data) == Framed(data)

SendFirmwareCommand(data) == SendCommand(Part("command", 4) \o data)
SetLedMode == SendCommand(Part("index", 4))
BurstWrite(values) == SendCommand(Part("index", 4) \o values)

Association ==
    SendWlanPacket(Header("txWi", TxWi, WlanFrame + AssociationResponseFrame)
        \o Part("wlan", WlanFrame) \o Part("data", AssociationResponseFrame))

PairClient ==
    SendWlanPacket(Header("txWi", TxWi, WlanFrame + 11)
        \o Part("wlan", WlanFrame) \o Part("data", 11))

Beacon ==
    BurstWrite(Header("txWi", TxWi, WlanFrame + BeaconFrame + 18)
        \o Part("wlan", WlanFrame) \o Part("data", BeaconFrame) \o Part("data", 18))

SendClientPacket(packet) ==
    SendCommand(Part("wcid", 4) \o Pad(4)
        \o Header("txWi", TxWi, WlanFrame + QosFrame + Length(packet))
        \o Part("wlan", WlanFrame) \o Part("qos", QosFrame)
        \o Pad(Padding(TxWi + WlanFrame + QosFrame))
        \o packet \o Pad(Padding(Length(packet))))

(* the transfers that serving controllers takes, by their names            *)
OtherTransfers ==
    [association |-> Association, pair |-> PairClient, beacon |-> Beacon, light |-> SetLedMode,
     address |-> BurstWrite(Part("address", 6)),
     add |-> SendFirmwareCommand(Part("client", 8)),
     remove |-> SendFirmwareCommand(Part("client", 4))]
Transfers ==
    [p \in DOMAIN OtherTransfers \cup DOMAIN GipPackets |->
        IF p \in DOMAIN GipPackets THEN SendClientPacket(GipPackets[p]) ELSE OtherTransfers[p]]
=============================================================================
