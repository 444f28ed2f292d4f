------------------------------- MODULE Frames -------------------------------
(***************************************************************************)
(* One value on its way from a device to a reading: the reply frames of    *)
(* core/protocols/modbus_rtu.py, modbus_tcp.py and custom_protocol.py, and *)
(* the checksums and number formats of utils/helpers.py.                   *)
(*                                                                         *)
(* A device answers with the value it means, in the data type and byte     *)
(* order the point is configured with; on a serial line noise may turn one *)
(* bit over; the gateway parses what arrived.  Numbers are the sequences   *)
(* of their bytes, most significant first, with the sign they are read     *)
(* with, so that no width is too large for TLC.  What a byte order means   *)
(* is convert_endian (helpers.py:83).                                      *)
(***************************************************************************)
EXTENDS Integers, Sequences, SequencesExt

CONSTANTS
  Bytes,   \* the bytes values are made of
  Slave,   \* the slave id of the device and of the point
  Links    \* the configurations tried: [proto, start, end, method, type, order]

Types == {"uint8", "int16", "uint16", "int16_ab", "H", "uint32", "L", "float32", "float32_abcd", "float32_cdab"}
Orders == {"big_endian", "little_endian", "big_endian_swap"}
Protocols == {"modbus_rtu", "modbus_tcp", "custom"}
Methods == {"none", "crc16", "crc16_ccitt", "crc32", "xor", "sum"}
Delimiters == {<<>>} \cup {<<b>> : b \in 0 .. 255}   \* a byte at most

ASSUME FramesAssumption ==
  /\ Bytes \subseteq 0 .. 255 /\ Slave \in 1 .. 247
  /\ Links \subseteq [proto : Protocols, start : Delimiters, end : Delimiters, method : Methods,
                     type : Types, order : Orders]

VARIABLES
  link,     \* the configuration: protocol, framing, data type and byte order
  stage,    \* "idle", "asked", "answered" or "parsed"
  meant,    \* the bytes of the value the device has
  wire,     \* the command, then the reply, as it is on the line
  noisy,    \* one bit of the reply has been turned over
  reading   \* the outcome of parse_response

framesVars == <<link, stage, meant, wire, noisy, reading>>

-----------------------------------------------------------------------------
\* What comes of taking `start` through a step for every item.
Through(Step(_, _), start, items) ==
  LET after[n \in 0 .. Len(items)] == IF n = 0 THEN start ELSE Step(after[n - 1], items[n])
  IN after[Len(items)]

\* The bits of a byte, low bit first; the exclusive or of two sequences of bits.
Weight == <<1, 2, 4, 8, 16, 32, 64, 128>>
Bits(b) == [k \in 1 .. 8 |-> (b \div Weight[k]) % 2]
Number(bits) ==
  bits[1] + 2 * bits[2] + 4 * bits[3] + 8 * bits[4]
    + 16 * bits[5] + 32 * bits[6] + 64 * bits[7] + 128 * bits[8]
Plus(x, y) == [k \in DOMAIN x |-> IF x[k] = y[k] THEN 0 ELSE 1]
Zeros(n) == [k \in 1 .. n |-> 0]

\* A register of 16 bits that is shifted: the bit that leaves stands first, the one that
\* comes in last, and the polynomial is added if a one leaves.
Shifted(reg, bit, poly) ==
  LET next == Append(Tail(reg), bit) IN IF reg[1] = 1 THEN Plus(next, poly) ELSE next
Shifts(reg, bits, poly) == Through(LAMBDA r, bit : Shifted(r, bit, poly), reg, bits)

\* utils/helpers.py: the checksums.  crc16_modbus shifts to the right, so that its low bit
\* stands first, as does crc32, of which a frame carries the low half; crc16_ccitt to the left,
\* with its high bit first.  40961, 4129, 0xEDB88320 and 65535:
Poly16 == <<1, 0, 0, 0, 0, 0, 0, 0, 0, 0, 0, 0, 0, 1, 0, 1>>
PolyCcitt == <<0, 0, 0, 1, 0, 0, 0, 0, 0, 0, 1, 0, 0, 0, 0, 1>>
Poly32 ==
  <<0, 0, 0, 0, 0, 1, 0, 0, 1, 1, 0, 0, 0, 0, 0, 1, 0, 0, 0, 1, 1, 1, 0, 1, 1, 0, 1, 1, 0, 1, 1, 1>>
Ones == [k \in 1 .. 16 |-> 1]
Crc16Modbus(bytes) ==
  Through(LAMBDA crc, b : Shifts(Plus(crc, Bits(b) \o Zeros(8)), Zeros(8), Poly16), Ones, bytes)
Crc16Ccitt(bytes) ==
  Through(LAMBDA crc, b : Shifts(Plus(crc, Reverse(Bits(b)) \o Zeros(8)), Zeros(8), PolyCcitt), Zeros(16), bytes)
LowCrc32(bytes) ==
  LET crc == Through(LAMBDA c, b : Shifts(Plus(c, Bits(b) \o Zeros(24)), Zeros(8), Poly32), Ones \o Ones, bytes)
  IN [k \in 1 .. 16 |-> IF crc[k] = 1 THEN 0 ELSE 1]
ChecksumXor(bytes) == Through(LAMBDA acc, b : Plus(acc, Bits(b)), Zeros(8), bytes)
ChecksumSum(bytes) == Through(LAMBDA acc, b : acc + b, 0, bytes) % 256

\* The number in a register with its low bit first, as its high and its low byte.
TwoBytes(reg) == <<Number(SubSeq(reg, 9, 16)), Number(SubSeq(reg, 1, 8))>>
ComputeChecksum(bytes, method) ==
  CASE method = "crc16" -> TwoBytes(Crc16Modbus(bytes))
    [] method = "crc16_ccitt" -> TwoBytes(Reverse(Crc16Ccitt(bytes)))
    [] method = "crc32" -> TwoBytes(LowCrc32(bytes))
    [] method = "xor" -> <<0, Number(ChecksumXor(bytes))>>
    [] method = "sum" -> <<0, ChecksumSum(bytes)>>

-----------------------------------------------------------------------------
\* Data types: their size, and whether the value is meant with a sign.
Size(type) ==
  CASE type = "uint8" -> 1
    [] type \in {"int16", "uint16", "int16_ab", "H"} -> 2
    [] type \in {"uint32", "L", "float32", "float32_abcd", "float32_cdab"} -> 4
Signed(type) == type \in {"int16", "int16_ab"}

\* convert_endian: the bytes of a value in a byte order.
PairsSwapped(b) == [i \in DOMAIN b |-> IF i % 2 = 0 THEN b[i - 1] ELSE IF i < Len(b) THEN b[i + 1] ELSE b[i]]
ConvertEndian(b, order) ==
  CASE order = "big_endian" -> b
    [] order = "little_endian" -> Reverse(b)
    [] order = "big_endian_swap" -> PairsSwapped(b)

\* The types with an order of their own go by it: AB, ABCD, CDAB.
Encoded(b, type, order) ==
  CASE type \in {"int16_ab", "float32_abcd"} -> b
    [] type = "float32_cdab" -> <<b[3], b[4], b[1], b[2]>>
    [] OTHER -> ConvertEndian(b, order)

\* bytes_to_value: the type is lower-cased first, which turns H into h and L into l; every
\* order but big_endian is read as little endian; the types with an order of their own are
\* read in the order of the machine, which is little endian.  Short data is padded.
LowerSigned(type) == Signed(type) \/ type \in {"H", "L"}
Padded(data, n) == SubSeq(data \o [i \in 1 .. n |-> 0], 1, n)
\* Mutant: the prefix for the byte order is left out of the format.
BytesToValueNative(data, type, order) ==
  [sign |-> LowerSigned(type), bytes |-> Reverse(Padded(data, Size(type)))]
BytesToValue(data, type, order) ==
  LET d == Padded(data, Size(type))
  IN [sign |-> LowerSigned(type),
      bytes |-> CASE type = "int16_ab" -> Reverse(<<d[2], d[1]>>)
                  [] type = "float32_abcd" -> Reverse(d)
                  [] type = "float32_cdab" -> Reverse(<<d[3], d[4], d[1], d[2]>>)
                  [] OTHER -> IF order = "big_endian" THEN d ELSE Reverse(d)]

-----------------------------------------------------------------------------
\* Python slices stop at the end of what there is.
Slice(s, from, to) == SubSeq(s, from, IF to < Len(s) THEN to ELSE Len(s))

Failed == [ok |-> FALSE, sign |-> FALSE, bytes |-> <<>>]
Read(v) == [ok |-> TRUE, sign |-> v.sign, bytes |-> v.bytes]

\* ModbusRTUProtocol.parse_response.
\* Mutant: the CRC is not compared.
ParsesRtuUnchecked(raw) ==
  IF Len(raw) < 5 \/ raw[1] # Slave \/ raw[2] >= 128 THEN Failed
  ELSE Read(BytesToValue(Slice(raw, 4, 3 + raw[3]), link.type, link.order))
ParsesRtu(raw) ==
  LET body == SubSeq(raw, 1, Len(raw) - 2)
      crc == <<raw[Len(raw)], raw[Len(raw) - 1]>>
  IN IF Len(raw) < 5 \/ TwoBytes(Crc16Modbus(body)) # crc \/ raw[1] # Slave \/ raw[2] >= 128 THEN Failed
     ELSE Read(BytesToValue(Slice(raw, 4, 3 + raw[3]), link.type, link.order))

\* ModbusTCPProtocol.parse_response: neither the transaction nor the unit is compared.
ParsesTcp(raw) ==
  IF Len(raw) < 9 \/ <<raw[3], raw[4]>> # <<0, 0>> \/ raw[8] >= 128 THEN Failed
  ELSE Read(BytesToValue(Slice(raw, 10, 9 + raw[9]), link.type, link.order))

\* CustomProtocol.validate_frame: the check is taken from the last two bytes of the frame.
Validates(raw) ==
  link.method = "none" \/
    /\ Len(raw) >= 3
    /\ ComputeChecksum(SubSeq(raw, 1, Len(raw) - 2), link.method) = <<raw[Len(raw) - 1], raw[Len(raw)]>>

\* _extract_frame_data: what is after the first start and before the last end, without the
\* check, at most 16 bytes.
Occurs(raw, b) == {i \in DOMAIN raw : <<raw[i]>> = b}
AfterStart(raw) ==
  IF link.start = <<>> \/ Occurs(raw, link.start) = {} THEN raw
  ELSE SubSeq(raw, 1 + CHOOSE i \in Occurs(raw, link.start) :
                          \A j \in Occurs(raw, link.start) : i <= j, Len(raw))
BeforeEnd(raw) ==
  IF link.end = <<>> \/ Occurs(raw, link.end) = {} THEN raw
  ELSE SubSeq(raw, 1, (CHOOSE i \in Occurs(raw, link.end) :
                          \A j \in Occurs(raw, link.end) : j <= i) - 1)
Unchecked(data) ==
  IF link.method # "none" /\ Len(data) > 2 THEN SubSeq(data, 1, Len(data) - 2) ELSE data
Extracted(raw) == Slice(Unchecked(BeforeEnd(AfterStart(raw))), 1, 16)

ParsesCustom(raw) ==
  IF ~Validates(raw) THEN Failed ELSE Read(BytesToValue(Extracted(raw), link.type, link.order))

Parses(raw) ==
  CASE link.proto = "modbus_rtu" -> ParsesRtu(raw)
    [] link.proto = "modbus_tcp" -> ParsesTcp(raw)
    [] link.proto = "custom" -> ParsesCustom(raw)

-----------------------------------------------------------------------------
\* Modbus as it is specified: the CRC is the remainder of the message, its first two bytes
\* inverted and each byte low bit first, by x^16 + x^15 + x^2 + 1, once the message is
\* followed by 16 zeros.
Divisor == <<1, 0, 0, 0, 0, 0, 0, 0, 0, 0, 0, 0, 0, 1, 0, 1>>
Remainder(bytes) == Through(LAMBDA rest, b : Shifts(rest, Bits(b), Divisor), Zeros(16), bytes)
StandardCrc(bytes) ==
  LET inverted == [i \in DOMAIN bytes |-> IF i <= 2 THEN 255 - bytes[i] ELSE bytes[i]]
      crc == TwoBytes(Remainder(inverted \o <<0, 0>>))
  IN <<crc[2], crc[1]>>

-----------------------------------------------------------------------------
\* build_read_command of the three protocols, for the registers of one value.
Registers == (Size(link.type) + 1) \div 2
Check(bytes) ==
  IF link.method = "none" THEN <<>> ELSE ComputeChecksum(bytes, link.method)
RtuCommand ==
  LET pdu == <<Slave, 3, 0, 1, 0, Registers>>
      crc == TwoBytes(Crc16Modbus(pdu))
  IN pdu \o <<crc[2], crc[1]>>
TcpCommand == <<0, 1, 0, 0, 0, 6, Slave, 3, 0, 1, 0, Registers>>
CustomCommand ==
  LET body == link.start \o <<Slave, 3, 0, 1, 0, 1>>
  IN body \o Check(body) \o link.end
Command ==
  CASE link.proto = "modbus_rtu" -> RtuCommand
    [] link.proto = "modbus_tcp" -> TcpCommand
    [] link.proto = "custom" -> CustomCommand

\* The device: it answers a command that is addressed to it and asks for the whole value.  A
\* Modbus register is two bytes, a small value its low one; a custom frame is built as the
\* gateway builds its own, with the value where the gateway looks for it.
Understood ==
  LET pdu == <<Slave, 3, 0, 1, 0, Registers>>
  IN CASE link.proto = "modbus_rtu" -> wire = pdu \o StandardCrc(pdu)
       [] link.proto = "modbus_tcp" -> SubSeq(wire, 3, 12) = <<0, 0, 0, 6>> \o pdu
       [] link.proto = "custom" -> TRUE
Reply(data) ==
  LET held == IF Len(data) = 1 THEN <<0>> \o data ELSE data
      pdu == <<Slave, 3, Len(held)>> \o held
      body == link.start \o data
  IN CASE link.proto = "modbus_rtu" -> pdu \o StandardCrc(pdu)
       [] link.proto = "modbus_tcp" -> <<0, 1, 0, 0, 0, 3 + Len(held)>> \o pdu
       [] link.proto = "custom" -> body \o Check(body) \o link.end

-----------------------------------------------------------------------------
FramesInit ==
  /\ link \in Links
  /\ stage = "idle" /\ meant = <<>> /\ wire = <<>> /\ noisy = FALSE /\ reading = Failed

Ask ==
  /\ stage = "idle"
  /\ wire' = Command /\ stage' = "asked"
  /\ UNCHANGED <<link, meant, noisy, reading>>

Answer ==
  /\ stage = "asked" /\ Understood
  /\ \E value \in [1 .. Size(link.type) -> Bytes] :
       /\ meant' = value
       /\ wire' = Reply(Encoded(value, link.type, link.order))
  /\ stage' = "answered"
  /\ UNCHANGED <<link, noisy, reading>>

\* A bit turned over on the way: TCP would not deliver such a segment.
Noise ==
  /\ stage = "answered" /\ ~noisy /\ link.proto # "modbus_tcp"
  /\ \E i \in DOMAIN wire, k \in 1 .. 8 :
       wire' = [wire EXCEPT ![i] = IF Bits(@)[k] = 1 THEN @ - Weight[k] ELSE @ + Weight[k]]
  /\ noisy' = TRUE
  /\ UNCHANGED <<link, stage, meant, reading>>

Parse ==
  /\ stage = "answered"
  /\ reading' = Parses(wire) /\ stage' = "parsed"
  /\ UNCHANGED <<link, meant, wire, noisy>>

Used ==
  /\ stage = "parsed"
  /\ stage' = "idle" /\ meant' = <<>> /\ wire' = <<>> /\ noisy' = FALSE /\ reading' = Failed
  /\ UNCHANGED link

FramesNext == Ask \/ Answer \/ Noise \/ Parse \/ Used
FramesSpec == FramesInit /\ [][FramesNext]_framesVars

-----------------------------------------------------------------------------
\* What the code reads as something else than it was sent: a small value in a register (the
\* high byte is taken), two registers with their bytes swapped (read as little endian), a
\* float with an order of its own (read in the order of the machine), and H and L, whose sign
\* the lower case loses.
Misread ==
  \/ link.type = "uint8" /\ link.proto # "custom"
  \/ link.order = "big_endian_swap" /\ link.type \in {"uint32", "float32"}
  \/ link.type \in {"float32_abcd", "float32_cdab", "H", "L"}

\* The check of a custom frame with an end delimiter is not where it is looked for: the frame
\* is refused, or let through if its last two bytes happen to be the check of the others.
CheckMisplaced == link.proto = "custom" /\ link.method # "none" /\ link.end # <<>>

\* The device understands every command, and every other reading is the value it meant, sign
\* and bytes, over every protocol, for every check method and byte order: command, checksum,
\* delimiters and number format of the two ends agree (modbus_rtu.py:32, :65, modbus_tcp.py:65,
\* custom_protocol.py:62, helpers.py:7, :100).
ReadsTrue ==
  /\ stage = "asked" => Understood
  /\ stage = "parsed" /\ ~noisy /\ ~Misread /\ ~CheckMisplaced =>
       reading = Read([sign |-> Signed(link.type), bytes |-> meant])

\* A reply that lost a bit to noise is refused, wherever the bit was, in a frame that carries
\* a check: what the check is for (modbus_rtu.py:69, custom_protocol.py:81).
NoiseIsNeverRead ==
  stage = "parsed" /\ noisy /\ (link.proto = "modbus_rtu" \/ link.method # "none") /\ ~CheckMisplaced =>
    reading = Failed

=============================================================================
