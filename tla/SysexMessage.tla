----------------------------- MODULE SysexMessage -----------------------------
(***************************************************************************)
(* SysexMessage (src/src/events/SysexMessage.cpp): a framed sequence of    *)
(* bytes that grows as they arrive, the factories of universal and         *)
(* manufacturer messages, and what the parsers read back.  Names and texts *)
(* are left out.                                                           *)
(***************************************************************************)
EXTENDS Naturals, Sequences, SequencesExt

CONSTANTS
  DataBytes,        (* seven-bit data, device ids included                   *)
  ManufacturerIds,  (* 32-bit arguments of createManufacturerMessage()       *)
  MaxContent        (* bound on the bytes appended to one message            *)

VARIABLES
  data,       (* data_                                                       *)
  purpose,    (* history: what the message was built as                      *)
  content     (* history: the bytes given to it, without the framing         *)

sysexVars == <<data, purpose, content>>

SOX == 240
EOX == 247

Stream == [by |-> "stream"]

-----------------------------------------------------------------------------
(* Faulty variants of definitions below, used by no action.                   *)
TerminatorKept(bytes) == bytes
MostFirst(given) ==
  LET f == given.family  m == given.model  v == given.version
  IN <<f[1], f[2], m[1], m[2], v[1], v[2], v[3], v[4]>>

EnsureFraming(bytes) == IF bytes = <<>> \/ Head(bytes) # SOX THEN <<SOX>> \o bytes ELSE bytes

(* append() drops a trailing F7, also when it then appends nothing.           *)
WithoutTerminator(bytes) ==
  IF bytes # <<>> /\ Last(bytes) = EOX THEN Front(bytes) ELSE bytes

(* Bytes arrive one by one or in an array; data says which of them are data.  *)
Arrivals ==
  {[bytes |-> <<>>, data |-> <<>>], [bytes |-> <<EOX>>, data |-> <<>>]} \union
  UNION {{[bytes |-> <<x>>, data |-> <<x>>], [bytes |-> <<x, x>>, data |-> <<x, x>>],
          [bytes |-> <<x, EOX>>, data |-> <<x>>]} : x \in DataBytes}

(* An array may bring its F0 with it.                                         *)
Construct(arrival) ==
  /\ \/ data' = EnsureFraming(arrival.bytes)
     \/ data' = EnsureFraming(<<SOX>> \o arrival.bytes)
  /\ purpose' = Stream /\ content' = arrival.data

AppendBytes(arrival) ==
  /\ purpose = Stream /\ Len(content) + Len(arrival.bytes) <= MaxContent
  /\ data' = WithoutTerminator(data) \o arrival.bytes
  /\ content' = content \o arrival.data
  /\ UNCHANGED purpose

Clear == data' = <<SOX>> /\ purpose' = Stream /\ content' = <<>>

Build(bytes, p, c) ==
  data' = EnsureFraming(bytes) /\ purpose' = p /\ content' = c

(* identityRequest(), the GM switches, the master controls and the global      *)
(* parameter control: real time or not, two sub ids, and a value in two bytes  *)
(* or, for the last, six.                                                      *)
Switches == {<<6, 1>>, <<9, 1>>, <<9, 2>>, <<9, 3>>}
Controls == {<<4, 1>>, <<4, 2>>, <<4, 3>>, <<4, 4>>}

Universal ==
  \E dev \in DataBytes, x, y \in DataBytes :
    \/ \E sub \in Switches :
         Build(<<SOX, 126, dev, sub[1], sub[2], EOX>>, [by |-> "universal", sub |-> sub], <<dev>>)
    \/ \E sub \in Controls :
         Build(<<SOX, 127, dev, sub[1], sub[2], x, y, EOX>>, [by |-> "universal", sub |-> sub], <<dev>>)
    \/ Build(<<SOX, 127, dev, 4, 5, x, y, y, x, x, y, EOX>>,
             [by |-> "universal", sub |-> <<4, 5>>], <<dev>>)

(* createManufacturerMessage(): one byte up to 7F, else three of which each   *)
(* keeps seven bits.                                                          *)
ManufacturerMessage(id) ==
  Build(IF id <= 127 THEN <<SOX, id, 1, EOX>> ELSE <<SOX, 0, (id \div 256) % 128, id % 128, 1, EOX>>,
        [by |-> "manufacturer", id |-> id], <<>>)

(* identityReply() is given family and model as Msb and Lsb, the version as    *)
(* Msb, Lsb and two bytes more; each Lsb goes first.                          *)
ReplyBytes(given) ==
  LET f == given.family  m == given.model  v == given.version
  IN <<f[2], f[1], m[2], m[1], v[2], v[1], v[3], v[4]>>

Identity ==
  \E x, y, z \in DataBytes :
    LET given == [family |-> <<y, x>>, model |-> <<z, y>>, version |-> <<x, z, y, z>>]
        w == ReplyBytes(given)
    IN \/ Build(<<SOX, 126, z, 6, 2, 65, w[1], w[2], w[3], w[4], w[5], w[6], w[7], w[8], EOX>>,
                [by |-> "identity", id |-> <<65>>, given |-> given], <<z>>)
       \/ \E a, b \in DataBytes :
            Build(<<SOX, 126, z, 6, 2, 0, a, b,
                    w[1], w[2], w[3], w[4], w[5], w[6], w[7], w[8], EOX>>,
                  [by |-> "identity", id |-> <<0, a, b>>, given |-> given], <<z>>)

(* The sum of the bytes from the sixth to the third from the end.             *)
Checksum(bytes) ==
  LET sum[i \in 5..(Len(bytes) - 2)] == IF i = 5 THEN 0 ELSE sum[i - 1] + bytes[i]
  IN IF Len(bytes) < 8 THEN 0 ELSE (128 - (sum[Len(bytes) - 2] % 128)) % 128

(* A message with the checksum put in the place that is checked.              *)
Roland ==
  \E x, y, z \in DataBytes :
    LET bytes == <<SOX, 65, 16, 66, 18, x, y, z, 0, EOX>>
    IN Build([bytes EXCEPT ![9] = Checksum(bytes)], [by |-> "roland"], <<x, y, z>>)

SysexInit == data = <<SOX>> /\ purpose = Stream /\ content = <<>>

SysexNext ==
  \/ \E arrival \in Arrivals : Construct(arrival) \/ AppendBytes(arrival)
  \/ Clear
  \/ /\ data = <<SOX>>
     /\ \/ Universal \/ Identity \/ Roland
        \/ \E id \in ManufacturerIds : ManufacturerMessage(id)

-----------------------------------------------------------------------------
Byte(i) == data[i + 1]

(* Two numbers of which the first is shifted up by eight bits, and four.      *)
Pair(high, low) == high * 256 + low
Quad(b3, b2, b1, b0) == Pair(Pair(Pair(b3, b2), b1), b0)

IsValid == data # <<>> /\ Head(data) = SOX
IsComplete == IsValid /\ Last(data) = EOX
IsUniversal == IsValid /\ Len(data) > 1 /\ Byte(1) \in {126, 127}
IsNonRealTime == IsUniversal /\ Byte(1) = 126

GetPayload == IF Len(data) < 2 THEN <<>> ELSE WithoutTerminator(Tail(data))

GetManufacturerId ==
  IF ~IsValid \/ Len(data) < 2 THEN 0
  ELSE IF ~IsUniversal /\ Byte(1) = 0 /\ Len(data) >= 4 THEN Pair(Byte(2), Byte(3))
  ELSE Byte(1)

GetSubIds == IF ~IsUniversal \/ Len(data) < 5 THEN <<>> ELSE <<Byte(3), Byte(4)>>
GetDeviceId == IF ~IsUniversal \/ Len(data) < 3 THEN <<>> ELSE <<Byte(2)>>

NotAReply == [accepted |-> FALSE]

(* parseIdentityReply() of a message that holds these bytes.                  *)
ParseIdentityReply(bytes) ==
  LET offset == IF bytes[6] = 0 THEN 8 ELSE 6
      at(i) == bytes[offset + i + 1]
  IN IF Len(bytes) < 15 \/ bytes[2] # 126 \/ SubSeq(bytes, 4, 5) # <<6, 2>> \/ offset + 8 > Len(bytes)
     THEN NotAReply
     ELSE [accepted |-> TRUE,
           deviceId |-> bytes[3],
           manufacturerId |-> IF bytes[6] = 0 THEN Pair(bytes[7], bytes[8]) ELSE bytes[6],
           familyCode |-> Pair(at(1), at(0)),
           modelNumber |-> Pair(at(3), at(2)),
           softwareRevision |-> Quad(at(7), at(6), at(5), at(4))]

VerifyRoland(bytes) ==
  Len(bytes) >= 8 /\ Checksum(bytes) = bytes[Len(bytes) - 1]

-----------------------------------------------------------------------------
(* However the bytes arrive, one by one, in arrays or all at once, with       *)
(* terminators between them, the message is framed, its payload is exactly    *)
(* the bytes in their order, and no terminator is left inside.                *)
PayloadKept ==
  purpose = Stream =>
    /\ IsValid /\ GetPayload = content
    /\ ~Contains(Front(data), EOX)

(* Device and sub ids of a universal message, and a manufacturer's id whose   *)
(* bytes have seven bits, read back; id 0 is the one short id that does not,  *)
(* because a zero announces a long one.                                       *)
LegalId(id) == id \in 1..127 \/ (id > 127 /\ id % 256 < 128 /\ id \div 256 < 128)
IdsReadBack ==
  /\ purpose.by = "universal" => IsComplete /\ GetDeviceId = content /\ GetSubIds = purpose.sub
  /\ purpose.by = "manufacturer" /\ LegalId(purpose.id) => GetManufacturerId = purpose.id

(* An identity reply parses to the numbers it was built from, a Msb above its *)
(* Lsb and version3 on top of the revision; cut short anywhere it is refused  *)
(* or gives the same numbers, and is never read past its end.                 *)
Told(given, id, device) ==
  LET f == given.family  m == given.model  v == given.version
  IN [accepted |-> TRUE,
      deviceId |-> device,
      manufacturerId |-> IF Len(id) = 1 THEN id[1] ELSE Pair(id[2], id[3]),
      familyCode |-> Pair(f[1], f[2]),
      modelNumber |-> Pair(m[1], m[2]),
      softwareRevision |-> Quad(v[4], v[3], v[1], v[2])]

ReplyReadsBack ==
  purpose.by = "identity" =>
    /\ IsNonRealTime /\ ParseIdentityReply(data).accepted
    /\ \A n \in 6..Len(data) :
         LET reply == ParseIdentityReply(SubSeq(data, 1, n))
         IN reply.accepted => reply = Told(purpose.given, purpose.id, content[1])

(* A message verifies with the checksum that was calculated for it, and not   *)
(* with any one byte of its address or data changed.                          *)
ChecksumDetects ==
  purpose.by = "roland" =>
    /\ VerifyRoland(data)
    /\ \A i \in 6..8, x \in DataBytes : x # data[i] => ~VerifyRoland([data EXCEPT ![i] = x])
=============================================================================
