----------------------------- MODULE MidiMessage -----------------------------
(***************************************************************************)
(* MidiMessage (src/src/events/MidiMessage.cpp): at most three bytes,      *)
(* built by the factories, classified and read back by the accessors.      *)
(* Names of notes, note frequencies and texts are left out.                *)
(***************************************************************************)
EXTENDS Integers, Sequences

CONSTANTS
  Channels,   (* arguments of the factories, legal ones and those that a     *)
  Sevens,     (* mask cuts: bytes, unsigned 14-bit numbers and signed bends  *)
  Fourteens,
  Bends

VARIABLES
  message,    (* data_, its first size_ bytes                                *)
  built       (* history: the factory and its arguments, masked              *)

midiMessageVars == <<message, built>>

NoArguments == [by |-> "nobody", channel |-> 0, args |-> <<>>]

-----------------------------------------------------------------------------
(* Faulty variants of definitions below, used by no action.                   *)
UnshiftedBend(v) == v % 16384

Low7(n) == n % 128
High7(n) == (n \div 128) % 128
Wrap14(n) == n % 16384

(* pitchBend(): -8192..8191 to 0..16383.                                      *)
BendNumber(v) == Wrap14(v + 8192)

Truncated(bytes) == SubSeq(bytes, 1, IF Len(bytes) > 3 THEN 3 ELSE Len(bytes))

(* A factory's message and what it was asked for.                             *)
Make(name, status, ch, bytes, args) ==
  /\ message' = Truncated(<<status + ch>> \o bytes)
  /\ built' = [by |-> name, channel |-> ch, args |-> args]

TwoData == [NoteOff |-> 128, NoteOn |-> 144, PolyPressure |-> 160, ControlChange |-> 176]
OneData == [ProgramChange |-> 192, ChannelPressure |-> 208]
NoData == [TuneRequest |-> 246, TimingClock |-> 248, Start |-> 250, Continue |-> 251, Stop |-> 252,
           ActiveSensing |-> 254, SystemReset |-> 255]

ChannelMessage ==
  \E c \in Channels, x \in Sevens :
    \/ \E k \in DOMAIN TwoData, y \in Sevens :
         Make(k, TwoData[k], c % 16, <<Low7(x), Low7(y)>>, <<Low7(x), Low7(y)>>)
    \/ \E k \in DOMAIN OneData :
         Make(k, OneData[k], c % 16, <<Low7(x)>>, <<Low7(x)>>)

PitchBend ==
  \E c \in Channels, v \in Bends :
    Make("PitchBend", 224, c % 16, <<Low7(BendNumber(v)), High7(BendNumber(v))>>, <<v>>)

SystemMessage ==
  \/ \E k \in DOMAIN NoData : Make(k, NoData[k], 0, <<>>, <<>>)
  \/ \E b \in Fourteens : Make("SongPosition", 242, 0, <<Low7(b), High7(b)>>, <<Wrap14(b)>>)
  \/ \E x \in Sevens : Make("SongSelect", 243, 0, <<Low7(x)>>, <<Low7(x)>>)
                       \/ Make("TimeCode", 241, 0, <<Low7(x)>>, <<Low7(x)>>)

MidiMessageInit == message = <<>> /\ built = NoArguments

MidiMessageNext ==
  \/ built = NoArguments /\ (ChannelMessage \/ PitchBend \/ SystemMessage)
  \/ built # NoArguments /\ message' = <<>> /\ built' = NoArguments

-----------------------------------------------------------------------------
(* The accessors.  data_ has three bytes, 0 where the message has none.       *)
Data(i) == IF i <= Len(message) THEN message[i] ELSE 0
Upper == Data(1) - (Data(1) % 16)

IsValid == Len(message) > 0 /\ Data(1) >= 128
IsChannelMessage == IsValid /\ Upper < 240
IsSystemMessage == IsValid /\ Upper = 240
IsSystemCommon == IsSystemMessage /\ Data(1) < 248
IsSystemRealTime == IsSystemMessage /\ Data(1) >= 248

IsNoteOn == Upper = 144 /\ Data(3) > 0
IsNoteOff == Upper = 128 \/ (Upper = 144 /\ Data(3) = 0)
IsPolyPressure == Upper = 160
IsControlChange == Upper = 176
IsProgramChange == Upper = 192
IsChannelPressure == Upper = 208
IsPitchBend == Upper = 224

GetChannel == IF IsChannelMessage THEN Data(1) % 16 ELSE 0
GetPressure == IF IsChannelPressure THEN Low7(Data(2)) ELSE Low7(Data(3))
GetPitchBendValue == Low7(Data(3)) * 128 + Low7(Data(2)) - 8192

(* getExpectedLength().                                                       *)
ExpectedLength(status) ==
  IF status < 128 THEN 0
  ELSE IF status < 240 THEN IF status - (status % 16) \in {192, 208} THEN 2 ELSE 3
  ELSE IF status = 242 THEN 3
  ELSE IF status \in {241, 243} THEN 2
  ELSE IF status \in {246, 247, 248, 250, 251, 252, 254, 255} THEN 1
  ELSE 0

(* The four control changes of rpn(), and of nrpn() with 99 and 98.           *)
Rpn(msb, lsb, parameter, value) ==
  << <<msb, High7(parameter)>>, <<lsb, Low7(parameter)>>, <<6, High7(value)>>, <<38, Low7(value)>> >>

-----------------------------------------------------------------------------
(* What a receiver keeps of a run of control changes.                         *)
Received(ccs, c) == LET i == CHOOSE i \in DOMAIN ccs : ccs[i][1] = c IN ccs[i][2]

(* Every message reads back as what it was built from: its channel, its data  *)
(* and, for a bend in range, the signed value; a note-on of velocity 0 reads  *)
(* as a note-off.                                                             *)
ReadsBack ==
  built # NoArguments =>
    /\ GetChannel = built.channel
    /\ CASE built.by = "PitchBend" ->
              /\ IsPitchBend
              /\ built.args[1] \in -8192..8191 => GetPitchBendValue = built.args[1]
         [] built.by = "SongPosition" -> Data(3) * 128 + Data(2) = built.args[1]
         [] built.by \in {"PolyPressure", "ChannelPressure"} -> GetPressure = built.args[Len(built.args)]
         [] built.by = "NoteOn" -> IF built.args[2] = 0 THEN IsNoteOff ELSE IsNoteOn /\ Data(3) = built.args[2]
         [] OTHER -> \A i \in DOMAIN built.args : Low7(Data(i + 1)) = built.args[i]

(* Three tables agree: a built message has the length that a parser expects   *)
(* from its status byte, and it is of exactly one kind.                       *)
Kinds == <<IsNoteOn, IsNoteOff, IsPolyPressure, IsControlChange, IsProgramChange,
           IsChannelPressure, IsPitchBend, IsSystemCommon, IsSystemRealTime>>
TablesAgree ==
  built # NoArguments =>
    /\ Len(message) = ExpectedLength(message[1])
    /\ \E i \in DOMAIN Kinds : Kinds[i] /\ \A j \in DOMAIN Kinds \ {i} : ~Kinds[j]

(* A receiver of the four control changes of rpn() or nrpn() has the whole    *)
(* parameter number and the whole value.                                      *)
ParametersReadBack ==
  \A p \in Fourteens, v \in Fourteens :
    LET r == Rpn(101, 100, p, v)  n == Rpn(99, 98, p, v)
    IN /\ Received(r, 101) * 128 + Received(r, 100) = Wrap14(p)
       /\ Received(n, 99) * 128 + Received(n, 98) = Wrap14(p)
       /\ Received(r, 6) * 128 + Received(r, 38) = Wrap14(v)
=============================================================================
