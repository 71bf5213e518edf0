------------------------------ MODULE MspProofs ------------------------------
(***************************************************************************)
(* Proofs about the MSP parser for any limit of the payload, any frames,   *)
(* any noise and any number of disturbances.                               *)
(***************************************************************************)
EXTENDS Msp, RingProofs

(* The inductive invariant. *)

\* The first byte of a command or a length is stored before the second is added.
HalfRead ==
  /\ state = "COMMAND_HI" => command \in Byte
  /\ state = "LENGTH_HI" => payload_length \in Byte

\* The parser has heard n bytes of what may be a frame, and summed those that count.
Begun(n) ==
  /\ Len(heard) = n /\ ~accepted
  /\ heard[1] = DOLLAR
  /\ n > 1 => heard[2] = LETTER_X
  /\ n > 2 => heard[3] = LESS
  /\ n > 3 => crc = CheckSum(SubSeq(heard, 4, n))

CommandHeard == command = heard[5] + 256 * heard[6]

\* The bytes heard say where in the frame the parser is and what it has read.
HeardInv ==
  /\ state = "IDLE" => (accepted <=> IsFrame(heard))
  /\ state = "X" => Begun(1)
  /\ state = "DIRECTION" => Begun(2)
  /\ state = "FLAGS" => Begun(3)
  /\ state = "COMMAND_LO" => Begun(4)
  /\ state = "COMMAND_HI" => Begun(5) /\ command = heard[5]
  /\ state = "LENGTH_LO" => Begun(6) /\ CommandHeard
  /\ state = "LENGTH_HI" => Begun(7) /\ CommandHeard /\ payload_length = heard[7]
  /\ state \in {"PAYLOAD", "CRC"} =>
       /\ Begun(8 + offset) /\ CommandHeard
       /\ payload_length = heard[7] + 256 * heard[8] /\ payload_length <= MSP_MAX_PAYLOAD
       /\ \A i \in 0 .. offset - 1 : payload[i] = heard[9 + i]
  /\ state = "CRC" => offset = payload_length
  /\ accepted => Received = [command |-> heard[5] + 256 * heard[6],
                             payload |-> SubSeq(heard, 9, Len(heard) - 1)]

\* k bytes of the frame have been heard, the rest is on the line, and the parser is
\* within the frame unless it has heard none or all of it.
Heard(frame, k) ==
  /\ line = SubSeq(frame, k + 1, Len(frame))
  /\ k = 0 => state = "IDLE"
  /\ k > 0 => heard = SubSeq(frame, 1, k)
  /\ k \in 1 .. Len(frame) - 1 => state # "IDLE"

CleanInv ==
  clean => \E k \in 0 .. Len(msp_encode_v2(sent.command, sent.payload)) :
             Heard(msp_encode_v2(sent.command, sent.payload), k)

TypeInv == TypeOK /\ PayloadFits /\ HalfRead

IInv == TypeInv /\ HeardInv /\ CleanInv

-----------------------------------------------------------------------------
(* Bytes. *)

\* An exclusive or is a byte, as is a byte shifted.
LEMMA XorIsByte == \A a, b : Xor(a, b) \in Byte
<1> SUFFICES ASSUME NEW a, NEW b PROVE Xor(a, b) \in Byte
  OBVIOUS
<1>1. /\ Differ(a, b, 1) \in {0, 1} /\ Differ(a, b, 2) \in {0, 2}
      /\ Differ(a, b, 4) \in {0, 4} /\ Differ(a, b, 8) \in {0, 8}
      /\ Differ(a, b, 16) \in {0, 16} /\ Differ(a, b, 32) \in {0, 32}
      /\ Differ(a, b, 64) \in {0, 64} /\ Differ(a, b, 128) \in {0, 128}
  BY Zenon DEF Differ
<1> QED
  BY <1>1 DEF Xor, Byte

LEMMA ShiftIsByte == \A c \in Byte : ShiftOnce(c) \in Byte
BY XorIsByte DEF ShiftOnce, Byte

\* The check sum after any byte is a byte.
LEMMA CrcIsByte == \A c, value : msp_crc8_dvb_s2(c, value) \in Byte
<1> SUFFICES ASSUME NEW c, NEW value PROVE msp_crc8_dvb_s2(c, value) \in Byte
  OBVIOUS
<1>1. \A d \in Byte : Crc8Table[d] \in Byte
  BY ShiftIsByte, Zenon DEF Crc8Table
<1> QED
  BY <1>1, XorIsByte, Zenon DEF msp_crc8_dvb_s2

-----------------------------------------------------------------------------
(* The check sum. *)

\* f holds the sums of the first bytes, one after the other.
Sums(f, bytes, m) ==
  f = [n \in 0 .. m |-> IF n = 0 THEN 0 ELSE msp_crc8_dvb_s2(f[n - 1], bytes[n])]

\* Every sequence has its sums, as far as one counts.
LEMMA SumsExist ==
  ASSUME NEW bytes, NEW m \in Nat
  PROVE  \E f : Sums(f, bytes, m)
<1> DEFINE T == {n \in Nat : \E f : Sums(f, bytes, n)}
<1>1. 0 \in T
  <2> DEFINE f == [n \in 0 .. 0 |-> 0]
  <2>1. \A n \in 0 .. 0 : n = 0
    OBVIOUS
  <2>2. Sums(f, bytes, 0)
    BY <2>1 DEF Sums
  <2> QED
    BY <2>2
<1>2. ASSUME NEW n \in T PROVE n + 1 \in T
  <2>1. n \in Nat /\ n + 1 \in Nat
    OBVIOUS
  <2>2. PICK g : Sums(g, bytes, n)
    OBVIOUS
  <2> DEFINE f == [i \in 0 .. n + 1 |-> IF i = n + 1 THEN msp_crc8_dvb_s2(g[n], bytes[n + 1]) ELSE g[i]]
             h == [i \in 0 .. n + 1 |-> IF i = 0 THEN 0 ELSE msp_crc8_dvb_s2(f[i - 1], bytes[i])]
  <2>3. ASSUME NEW i \in 0 .. n + 1 PROVE f[i] = h[i]
    <3>1. CASE i = n + 1
      <4>1. i # 0 /\ i - 1 = n /\ n \in 0 .. n + 1 /\ n # n + 1
        BY <2>1, <3>1
      <4>2. f[n] = g[n]
        BY <4>1
      <4>3. h[i] = msp_crc8_dvb_s2(g[n], bytes[n + 1])
        BY <3>1, <4>1, <4>2
      <4> QED
        BY <3>1, <4>3
    <3>2. CASE i # n + 1 /\ i # 0
      <4>1. i \in 0 .. n /\ i - 1 \in 0 .. n + 1 /\ i - 1 # n + 1
        BY <2>1, <3>2
      <4>2. f[i] = g[i] /\ f[i - 1] = g[i - 1]
        BY <3>2, <4>1
      <4>3. g[i] = msp_crc8_dvb_s2(g[i - 1], bytes[i])
        BY <2>2, <3>2, <4>1, Zenon DEF Sums
      <4>4. h[i] = msp_crc8_dvb_s2(f[i - 1], bytes[i])
        BY <3>2
      <4> QED
        BY <4>2, <4>3, <4>4
    <3>3. CASE i = 0
      <4>1. i \in 0 .. n /\ i # n + 1
        BY <2>1, <3>3
      <4>2. f[i] = g[i]
        BY <4>1
      <4>3. g[i] = 0
        BY <2>2, <3>3, <4>1, Zenon DEF Sums
      <4> QED
        BY <3>3, <4>2, <4>3
    <3> QED
      BY <3>1, <3>2, <3>3
  <2>4. f = h
    BY <2>3, Zenon
  <2>5. Sums(f, bytes, n + 1)
    BY <2>4, Zenon DEF Sums
  <2> HIDE DEF f
  <2> QED
    BY <2>1, <2>5
<1> HIDE DEF T
<1>3. T = Nat
  BY <1>1, <1>2, Induction, T \subseteq Nat DEF T
<1> QED
  BY <1>3 DEF T

\* They are the same for every sequence with the same bytes.
LEMMA SumsAgree ==
  ASSUME NEW a, NEW b, NEW m \in Nat, NEW k \in Nat, m <= k, NEW f, NEW g,
         Sums(f, a, m), Sums(g, b, k), \A n \in 1 .. m : a[n] = b[n]
  PROVE  f[m] = g[m]
<1> DEFINE T == {n \in Nat : n <= m => f[n] = g[n]}
<1>0. /\ \A n \in 0 .. m : f[n] = IF n = 0 THEN 0 ELSE msp_crc8_dvb_s2(f[n - 1], a[n])
      /\ \A n \in 0 .. k : g[n] = IF n = 0 THEN 0 ELSE msp_crc8_dvb_s2(g[n - 1], b[n])
  BY Zenon DEF Sums
<1>1. 0 \in T
  <2>1. 0 \in 0 .. m /\ 0 \in 0 .. k
    OBVIOUS
  <2> QED
    BY <1>0, <2>1
<1>2. ASSUME NEW n \in T PROVE n + 1 \in T
  <2>1. n \in Nat /\ n + 1 \in Nat
    OBVIOUS
  <2>2. ASSUME n + 1 <= m PROVE f[n + 1] = g[n + 1]
    <3>1. /\ n + 1 \in 0 .. m /\ n + 1 \in 0 .. k /\ n + 1 \in 1 .. m
          /\ n + 1 # 0 /\ n + 1 - 1 = n /\ n <= m
      BY <2>1, <2>2
    <3>2. f[n] = g[n]
      BY <3>1
    <3>3. /\ f[n + 1] = msp_crc8_dvb_s2(f[n], a[n + 1])
          /\ g[n + 1] = msp_crc8_dvb_s2(g[n], b[n + 1])
      BY <1>0, <3>1
    <3> QED
      BY <3>1, <3>2, <3>3
  <2> QED
    BY <2>1, <2>2
<1> HIDE DEF T
<1>3. T = Nat
  BY <1>1, <1>2, Induction, T \subseteq Nat DEF T
<1> QED
  BY <1>3 DEF T

\* The check sum is the last of the sums.
LEMMA CheckSumIsLast ==
  ASSUME NEW bytes \in Seq(Byte)
  PROVE  \E f : Sums(f, bytes, Len(bytes)) /\ CheckSum(bytes) = f[Len(bytes)]
<1> DEFINE after == CHOOSE f : Sums(f, bytes, Len(bytes))
<1>1. Len(bytes) \in Nat
  OBVIOUS
<1>2. \E f : Sums(f, bytes, Len(bytes))
  BY <1>1, SumsExist
<1>3. Sums(after, bytes, Len(bytes))
  BY <1>2, Zenon
<1>4. CheckSum(bytes) = after[Len(bytes)]
  BY Zenon DEF CheckSum, Sums
<1> QED
  BY <1>3, <1>4, Zenon

\* msp.c:8-11: nothing sums up to 0, and a byte more is summed to what was there.
LEMMA CheckSumGrows ==
  /\ CheckSum(<<>>) = 0
  /\ \A bytes \in Seq(Byte), b \in Byte :
       CheckSum(Append(bytes, b)) = msp_crc8_dvb_s2(CheckSum(bytes), b)
<1>1. CheckSum(<<>>) = 0
  <2>1. <<>> \in Seq(Byte) /\ Len(<<>>) = 0 /\ 0 \in 0 .. 0
    OBVIOUS
  <2>2. PICK f : Sums(f, <<>>, Len(<<>>)) /\ CheckSum(<<>>) = f[Len(<<>>)]
    BY <2>1, CheckSumIsLast
  <2>3. Sums(f, <<>>, 0) /\ CheckSum(<<>>) = f[0]
    BY <2>1, <2>2
  <2>4. f[0] = 0
    BY <2>1, <2>3, Zenon DEF Sums
  <2> QED
    BY <2>3, <2>4
<1>2. ASSUME NEW bytes \in Seq(Byte), NEW b \in Byte
      PROVE  CheckSum(Append(bytes, b)) = msp_crc8_dvb_s2(CheckSum(bytes), b)
  <2> DEFINE more == Append(bytes, b)
             m == Len(bytes)
  <2>1. /\ m \in Nat /\ more \in Seq(Byte) /\ Len(more) = m + 1 /\ more[m + 1] = b
        /\ \A n \in 1 .. m : bytes[n] = more[n]
    OBVIOUS
  <2>2. PICK f : Sums(f, bytes, m) /\ CheckSum(bytes) = f[m]
    BY CheckSumIsLast
  <2> HIDE DEF more, m
  <2>3. PICK g : Sums(g, more, Len(more)) /\ CheckSum(more) = g[Len(more)]
    BY <2>1, CheckSumIsLast
  <2>4. Sums(g, more, m + 1) /\ CheckSum(more) = g[m + 1]
    BY <2>1, <2>3
  <2>5. m + 1 \in Nat /\ m <= m + 1 /\ m + 1 \in 0 .. m + 1 /\ m + 1 # 0 /\ m + 1 - 1 = m
    BY <2>1
  <2>6. f[m] = g[m]
    BY <2>1, <2>2, <2>4, <2>5, SumsAgree
  <2>7. g[m + 1] = msp_crc8_dvb_s2(g[m + 1 - 1], more[m + 1])
    <3>1. \A n \in 0 .. m + 1 : g[n] = IF n = 0 THEN 0 ELSE msp_crc8_dvb_s2(g[n - 1], more[n])
      BY <2>4, Zenon DEF Sums
    <3> QED
      BY <2>1, <2>5, <3>1
  <2> QED
    BY <2>1, <2>2, <2>4, <2>5, <2>6, <2>7 DEF more
<1> QED
  BY <1>1, <1>2

LEMMA CheckSumIsByte == \A bytes \in Seq(Byte) : CheckSum(bytes) \in Byte
<1> TAKE bytes \in Seq(Byte)
<1> DEFINE m == Len(bytes)
<1>1. PICK f : Sums(f, bytes, m) /\ CheckSum(bytes) = f[m]
  BY CheckSumIsLast
<1>2. m \in Nat /\ m \in 0 .. m
  OBVIOUS
<1> HIDE DEF m
<1>3. f[m] = IF m = 0 THEN 0 ELSE msp_crc8_dvb_s2(f[m - 1], bytes[m])
  BY <1>1, <1>2, Zenon DEF Sums
<1>4. 0 \in Byte
  BY DEF Byte
<1> QED
  BY <1>1, <1>3, <1>4, CrcIsByte

-----------------------------------------------------------------------------
(* Types. *)
\* A word has two bytes, and two bytes make a word.
LEMMA Widths ==
  /\ \A n \in Word : Low(n) \in Byte /\ High(n) \in Byte
  /\ \A low \in Byte, high \in Byte : low + 256 * high \in Word
  /\ \A n \in Byte : n \in Word /\ n \in Nat
  /\ Word \subseteq Nat /\ 0 \in Byte
<1>1. \A n \in Word : Low(n) \in Byte
  BY DEF Low, Byte, Word
<1>2. \A n \in Word : High(n) \in Byte
  BY DEF High, Byte, Word
<1>3. \A low \in Byte, high \in Byte : low + 256 * high \in Word
  BY DEF Byte, Word
<1>4. \A n \in Byte : n \in Word /\ n \in Nat
  BY DEF Byte, Word
<1>5. Word \subseteq Nat /\ 0 \in Byte
  BY DEF Byte, Word
<1> QED
  BY <1>1, <1>2, <1>3, <1>4, <1>5

\* The limit of a payload is positive.
LEMMA Limits ==
  /\ MSP_MAX_PAYLOAD \in Nat \ {0} /\ MSP_MAX_PAYLOAD \in Word
  /\ NOISE_MAX \in Nat /\ Noise \subseteq Byte
BY MspAssumption, Widths

\* The length of a frame's payload has 16 bits.
LEMMA FramesFit ==
  ASSUME NEW frame \in Frames
  PROVE  /\ frame.command \in Word /\ frame.payload \in Seq(Byte)
         /\ Len(frame.payload) \in Word
<1>1. /\ frame \in [command : Word, payload : Seq(Byte)]
      /\ Len(frame.payload) <= MSP_MAX_PAYLOAD
  BY MspAssumption
<1>2. Len(frame.payload) \in Nat
  BY <1>1
<1>3. \A n \in Nat : n <= MSP_MAX_PAYLOAD => n \in Word
  BY Limits DEF Word
<1> QED
  BY <1>1, <1>2, <1>3, Zenon

\* What the encoder writes are bytes.
LEMMA EncodedIsBytes ==
  ASSUME NEW frame \in Frames
  PROVE  msp_encode_v2(frame.command, frame.payload) \in Seq(Byte)
<1> DEFINE length == Len(frame.payload)
           body == <<0, Low(frame.command), High(frame.command), Low(length), High(length)>>
                     \o frame.payload
<1>1. /\ frame.command \in Word /\ frame.payload \in Seq(Byte)
      /\ length \in Word
  BY FramesFit
<1>2. /\ Low(frame.command) \in Byte /\ High(frame.command) \in Byte
      /\ Low(length) \in Byte /\ High(length) \in Byte
  BY <1>1, Widths
<1>3. 0 \in Byte /\ DOLLAR \in Byte /\ LETTER_X \in Byte /\ LESS \in Byte
  BY DEF Byte, DOLLAR, LETTER_X, LESS
<1> HIDE DEF length
<1>4. body \in Seq(Byte)
  BY <1>1, <1>2, <1>3
<1>5. <<CheckSum(body)>> \in Seq(Byte) /\ <<DOLLAR, LETTER_X, LESS>> \in Seq(Byte)
  <2> HIDE DEF body
  <2>1. CheckSum(body) \in Byte
    BY <1>4, CheckSumIsByte
  <2> QED
    BY <1>3, <2>1
<1>6. \/ msp_encode_v2(frame.command, frame.payload) = <<>>
      \/ msp_encode_v2(frame.command, frame.payload)
           = <<DOLLAR, LETTER_X, LESS>> \o body \o <<CheckSum(body)>>
  BY DEF msp_encode_v2, length
<1>7. <<>> \in Seq(Byte)
  OBVIOUS
<1> HIDE DEF body
<1>8. <<DOLLAR, LETTER_X, LESS>> \o body \o <<CheckSum(body)>> \in Seq(Byte)
  BY <1>4, <1>5
<1> QED
  BY <1>6, <1>7, <1>8, Zenon

\* The parser starts idle and empty.
LEMMA TypesAtStart == Init => TypeInv
<1> SUFFICES ASSUME Init PROVE TypeInv
  OBVIOUS
<1>1. 0 \in Byte /\ 0 \in Word /\ 0 \in 0 .. MSP_MAX_PAYLOAD /\ 0 \in 0 .. NOISE_MAX
  BY Limits, Widths
<1>2. payload \in [0 .. MSP_MAX_PAYLOAD - 1 -> Byte]
  BY <1>1 DEF Init
<1>3. heard \in Seq(Byte) /\ line \in Seq(Byte)
  BY DEF Init
<1>4. TypeOK
  BY <1>1, <1>2, <1>3 DEF Init, TypeOK, States
<1> QED
  BY <1>4 DEF Init, TypeInv, PayloadFits, HalfRead

\* What the parser keeps, without its history.
ParserInv ==
  /\ state \in States
  /\ command \in Word /\ payload_length \in Word
  /\ payload \in [0 .. MSP_MAX_PAYLOAD - 1 -> Byte]
  /\ offset \in 0 .. MSP_MAX_PAYLOAD /\ crc \in Byte /\ accepted \in BOOLEAN
  /\ PayloadFits /\ HalfRead

\* Any byte leaves the parser's fields in their types, with room for what it
\* still waits for.
LEMMA TypesOfConsume ==
  ASSUME ParserInv, heard \in Seq(Byte), NEW b \in Byte, msp_parser_consume(b)
  PROVE  ParserInv' /\ heard' \in Seq(Byte)
<1>1. heard' \in Seq(Byte)
  <2>1. <<b>> \in Seq(Byte) /\ Append(heard, b) \in Seq(Byte)
    OBVIOUS
  <2> QED
    BY <2>1, Zenon DEF msp_parser_consume
<1>2. \A c, v : msp_crc8_dvb_s2(c, v) \in Byte
  BY CrcIsByte
<1>12. accepted' \in BOOLEAN
  BY Zenon DEF msp_parser_consume
<1> SUFFICES ParserInv'
  BY <1>1
<1>3. 0 \in Byte /\ 0 \in 0 .. MSP_MAX_PAYLOAD /\ b \in Word
  BY Limits, Widths
<1>4. CASE ParseMark(b)
  <2>1. state' \in {"IDLE", "X", "DIRECTION", "FLAGS"} /\ state \in {"IDLE", "X", "DIRECTION"}
    BY <1>4 DEF ParseMark, Mark, Follow
  <2> QED
    BY <1>4, <1>12, <2>1 DEF ParseMark, ParserInv, PayloadFits, HalfRead, States
<1>5. CASE ParseFlags(b)
  BY <1>2, <1>5, <1>12 DEF ParseFlags, ParserInv, PayloadFits, HalfRead, States
<1>6. CASE ParseCommand(b)
  <2>1. CASE state = "COMMAND_LO" /\ state' = "COMMAND_HI" /\ command' = b
    BY <1>2, <1>3, <1>6, <1>12, <2>1 DEF ParseCommand, ParserInv, PayloadFits, HalfRead, States
  <2>2. CASE state = "COMMAND_HI" /\ state' = "LENGTH_LO" /\ command' = command + 256 * b
    <3>1. command' \in Word
      BY <2>2, Widths DEF ParserInv, HalfRead
    <3> QED
      BY <1>2, <1>6, <1>12, <2>2, <3>1 DEF ParseCommand, ParserInv, PayloadFits, HalfRead, States
  <2> QED
    BY <1>6, <2>1, <2>2 DEF ParseCommand
<1>7. CASE ParseLengthLo(b)
  BY <1>2, <1>3, <1>7, <1>12 DEF ParseLengthLo, ParserInv, PayloadFits, HalfRead, States
<1>8. CASE ParseLengthHi(b)
  <2>1. payload_length' \in Word
    BY <1>8, Widths DEF ParseLengthHi, ParserInv, HalfRead
  <2>2. CASE parser_reset
    BY <1>3, <1>8, <1>12, <2>1, <2>2
    DEF ParseLengthHi, parser_reset, ParserInv, PayloadFits, HalfRead, States
  <2>3. CASE /\ ~(payload_length' > MSP_MAX_PAYLOAD)
             /\ state' = IF payload_length' = 0 THEN "CRC" ELSE "PAYLOAD"
             /\ crc' = msp_crc8_dvb_s2(crc, b) /\ UNCHANGED offset
    <3>1. offset' = 0
      BY <1>8, <2>3 DEF ParseLengthHi, ParserInv, PayloadFits
    <3>2. PayloadFits'
      BY <2>1, <2>3, <3>1, Widths, Limits DEF PayloadFits
    <3>3. state' \in {"CRC", "PAYLOAD"}
      BY <2>3
    <3> QED
      BY <1>2, <1>3, <1>8, <1>12, <2>1, <2>3, <3>1, <3>2, <3>3
      DEF ParseLengthHi, ParserInv, HalfRead, States
  <2> QED
    BY <1>8, <2>2, <2>3 DEF ParseLengthHi
<1>9. CASE ParsePayload(b)
  <2>1. offset < payload_length /\ payload_length <= MSP_MAX_PAYLOAD /\ offset \in Nat
    BY <1>9 DEF ParsePayload, ParserInv, PayloadFits
  <2>2. offset' = offset + 1 /\ offset' \in 0 .. MSP_MAX_PAYLOAD
    BY <1>9, <2>1, Limits, Widths DEF ParsePayload, ParserInv
  <2>3. payload' \in [0 .. MSP_MAX_PAYLOAD - 1 -> Byte]
    BY <1>9 DEF ParsePayload, ParserInv
  <2>4. /\ state' \in {"CRC", "PAYLOAD"}
        /\ state' = "PAYLOAD" => offset' # payload_length
    BY <1>9 DEF ParsePayload
  <2>5. PayloadFits'
    <3>1. payload_length \in Nat /\ UNCHANGED payload_length
      BY <1>9, Widths DEF ParsePayload, ParserInv
    <3> QED
      BY <2>1, <2>2, <2>4, <3>1, Limits DEF PayloadFits
  <2> QED
    BY <1>2, <1>9, <1>12, <2>2, <2>3, <2>4, <2>5 DEF ParsePayload, ParserInv, HalfRead, States
<1>10. CASE ParseCrc(b)
  BY <1>3, <1>10, <1>12 DEF ParseCrc, parser_reset, ParserInv, PayloadFits, HalfRead, States
<1>11. \/ ParseMark(b) \/ ParseFlags(b) \/ ParseCommand(b) \/ ParseLengthLo(b)
       \/ ParseLengthHi(b) \/ ParsePayload(b) \/ ParseCrc(b)
  BY DEF msp_parser_consume
<1> QED
  BY <1>1, <1>4, <1>5, <1>6, <1>7, <1>8, <1>9, <1>10, <1>11

\* The parser's part of the invariant and the line's.
LEMMA Parts ==
  TypeInv <=> /\ ParserInv /\ heard \in Seq(Byte)
           /\ line \in Seq(Byte) /\ sent \in Frames /\ clean \in BOOLEAN
           /\ noise \in 0 .. NOISE_MAX
BY DEF TypeInv, ParserInv, TypeOK

\* A disturbance is counted.
LEMMA DisturbedTypes ==
  ASSUME Disturbed, noise \in 0 .. NOISE_MAX
  PROVE  noise' \in 0 .. NOISE_MAX /\ clean' \in BOOLEAN
<1>1. noise' \in 0 .. NOISE_MAX
  BY Limits DEF Disturbed
<1>2. clean' \in BOOLEAN
  BY DEF Disturbed
<1> QED
  BY <1>1, <1>2

\* Every step preserves the types.
LEMMA TypesKept == TypeInv /\ [Next]_vars => TypeInv'
<1> SUFFICES ASSUME TypeInv, [Next]_vars PROVE TypeInv'
  OBVIOUS
<1>0. line # <<>> => Head(line) \in Byte /\ Tail(line) \in Seq(Byte)
  BY Parts
<1>1. CASE SendFrame
  <2>1. line' \in Seq(Byte) /\ sent' \in Frames
    BY <1>1, EncodedIsBytes DEF SendFrame
  <2>2. clean' \in BOOLEAN
    BY <1>1, Zenon DEF SendFrame
  <2> QED
    BY <1>1, <2>1, <2>2 DEF SendFrame, parser, TypeInv, TypeOK, PayloadFits, HalfRead
<1>2. CASE Deliver
  <2>1. ParserInv' /\ heard' \in Seq(Byte)
    BY <1>0, <1>2, Parts, TypesOfConsume DEF Deliver
  <2>2. line' \in Seq(Byte) /\ UNCHANGED <<sent, clean, noise>>
    BY <1>0, <1>2 DEF Deliver
  <2> QED
    BY <2>1, <2>2 DEF TypeInv, ParserInv, TypeOK
<1>3. CASE Interfere
  <2>1. ParserInv' /\ heard' \in Seq(Byte)
    BY <1>3, Parts, TypesOfConsume, Limits DEF Interfere
  <2>2. line' \in Seq(Byte) /\ sent' \in Frames
    BY <1>0, <1>3, Parts DEF Interfere
  <2>3. noise' \in 0 .. NOISE_MAX /\ clean' \in BOOLEAN
    BY <1>3, Parts, DisturbedTypes DEF Interfere
  <2> QED
    BY <2>1, <2>2, <2>3 DEF TypeInv, ParserInv, TypeOK
<1>4. CASE Lose
  <2>1. line' \in Seq(Byte)
    BY <1>0, <1>4 DEF Lose
  <2>2. noise' \in 0 .. NOISE_MAX /\ clean' \in BOOLEAN
    BY <1>4, Parts, DisturbedTypes DEF Lose
  <2> QED
    BY <1>4, <2>1, <2>2 DEF Lose, parser, TypeInv, TypeOK, PayloadFits, HalfRead
<1>5. CASE UNCHANGED vars
  BY <1>5 DEF vars, parser, TypeInv, TypeOK, PayloadFits, HalfRead
<1> QED
  BY <1>1, <1>2, <1>3, <1>4, <1>5 DEF Next

-----------------------------------------------------------------------------
(* What the parser has heard. *)

\* Fewer than nine bytes are no frame.
LEMMA ShortIsNoFrame ==
  ASSUME NEW bytes \in Seq(Byte), Len(bytes) < 9
  PROVE  ~IsFrame(bytes)
BY DEF IsFrame

\* A byte more: what was heard before stays in its place, and so does what it sums to.
LEMMA HearingOn ==
  ASSUME NEW bytes \in Seq(Byte), NEW b \in Byte, NEW n \in Nat, Len(bytes) = n
  PROVE  /\ Append(bytes, b) \in Seq(Byte) /\ Len(Append(bytes, b)) = n + 1
         /\ \A i \in 1 .. n : Append(bytes, b)[i] = bytes[i]
         /\ Append(bytes, b)[n + 1] = b
         /\ n >= 3 => /\ SubSeq(Append(bytes, b), 4, n) = SubSeq(bytes, 4, n)
                      /\ SubSeq(bytes, 4, n) \in Seq(Byte)
                      /\ SubSeq(Append(bytes, b), 4, n + 1) = Append(SubSeq(bytes, 4, n), b)
<1> DEFINE more == Append(bytes, b)
<1>1. /\ more \in Seq(Byte) /\ Len(more) = n + 1
      /\ \A i \in 1 .. n : more[i] = bytes[i]
      /\ more[n + 1] = b
  OBVIOUS
<1>2. ASSUME n >= 3
      PROVE  /\ SubSeq(more, 4, n) = SubSeq(bytes, 4, n)
             /\ SubSeq(bytes, 4, n) \in Seq(Byte)
             /\ SubSeq(more, 4, n + 1) = Append(SubSeq(bytes, 4, n), b)
  <2> DEFINE s == SubSeq(bytes, 4, n)
             t == SubSeq(more, 4, n)
             u == SubSeq(more, 4, n + 1)
  <2> HIDE DEF more
  <2>1. /\ s \in Seq(Byte) /\ Len(s) = n - 3 /\ \A i \in 1 .. n - 3 : s[i] = bytes[i + 3]
    BY <1>2
  <2>2. /\ t \in Seq(Byte) /\ Len(t) = n - 3 /\ \A i \in 1 .. n - 3 : t[i] = more[i + 3]
    BY <1>1, <1>2
  <2>3. /\ u \in Seq(Byte) /\ Len(u) = n - 2 /\ \A i \in 1 .. n - 2 : u[i] = more[i + 3]
    BY <1>1, <1>2
  <2> HIDE DEF s, t, u
  <2>4. t = s
    <3>1. \A i \in 1 .. n - 3 : i + 3 \in 1 .. n
      OBVIOUS
    <3>2. \A i \in 1 .. Len(t) : t[i] = s[i]
      BY <1>1, <2>1, <2>2, <3>1
    <3> QED
      BY <2>1, <2>2, <3>2, SeqEqual
  <2>5. u = Append(s, b)
    <3> DEFINE v == Append(s, b)
    <3>1. /\ v \in Seq(Byte) /\ Len(v) = n - 2
          /\ \A i \in 1 .. n - 3 : v[i] = s[i]
          /\ v[n - 2] = b
      BY <1>2, <2>1
    <3> HIDE DEF v
    <3>2. ASSUME NEW i \in 1 .. n - 2 PROVE u[i] = v[i]
      <4>1. CASE i = n - 2
        BY <1>1, <2>3, <3>1, <4>1
      <4>2. CASE i # n - 2
        <5>1. i \in 1 .. n - 3 /\ i + 3 \in 1 .. n
          BY <4>2
        <5> QED
          BY <1>1, <2>1, <2>3, <3>1, <5>1
      <4> QED
        BY <4>1, <4>2
    <3>3. u = v
      BY <2>3, <3>1, <3>2, SeqEqual
    <3> QED
      BY <3>3 DEF v
  <2> QED
    BY <2>1, <2>4, <2>5 DEF s, t, u
<1> QED
  BY <1>1, <1>2

\* A byte that belongs where the parser is brings it one byte on.
LEMMA OneMore ==
  ASSUME TypeInv, NEW n \in Nat, n > 0, n < HEARD_MAX, Begun(n), state # "IDLE", state # "CRC",
         NEW b \in Byte, msp_parser_consume(b), NEW m \in Nat, m = n + 1,
         n = 1 => b = LETTER_X, n = 2 => b = LESS,
         n = 3 => crc' = msp_crc8_dvb_s2(0, b),
         n > 3 => crc' = msp_crc8_dvb_s2(crc, b)
  PROVE  /\ Begun(m)' /\ heard' \in Seq(Byte) /\ heard' = Append(heard, b)
         /\ \A i \in 1 .. n : heard'[i] = heard[i]
         /\ heard'[m] = b
<1>1. heard \in Seq(Byte) /\ Len(heard) = n
  BY DEF TypeInv, TypeOK, Begun
<1>2. heard' = Append(heard, b) /\ accepted' = FALSE
  BY <1>1 DEF msp_parser_consume
<1>3. /\ heard' \in Seq(Byte) /\ Len(heard') = n + 1
      /\ \A i \in 1 .. n : heard'[i] = heard[i]
      /\ heard'[n + 1] = b
      /\ n >= 3 => /\ SubSeq(heard, 4, n) \in Seq(Byte)
                   /\ SubSeq(heard', 4, n + 1) = Append(SubSeq(heard, 4, n), b)
  BY <1>1, <1>2, HearingOn
<1>4. /\ heard'[1] = DOLLAR
      /\ m > 1 => heard'[2] = LETTER_X
      /\ m > 2 => heard'[3] = LESS
  <2>1. heard'[1] = DOLLAR
    <3>1. 1 \in 1 .. n
      OBVIOUS
    <3> QED
      BY <1>3, <3>1 DEF Begun
  <2>2. m > 1 => heard'[2] = LETTER_X
    <3>1. CASE n = 1
      BY <1>3, <3>1
    <3>2. CASE n > 1
      <4>1. 2 \in 1 .. n
        BY <3>2
      <4> QED
        BY <1>3, <3>2, <4>1 DEF Begun
    <3> QED
      BY <3>1, <3>2
  <2>3. m > 2 => heard'[3] = LESS
    <3>1. CASE n = 2
      BY <1>3, <3>1
    <3>2. CASE n > 2
      <4>1. 3 \in 1 .. n
        BY <3>2
      <4> QED
        BY <1>3, <3>2, <4>1 DEF Begun
    <3> QED
      BY <3>1, <3>2
  <2> QED
    BY <2>1, <2>2, <2>3
<1>5. m > 3 => crc' = CheckSum(SubSeq(heard', 4, m))
  <2> SUFFICES ASSUME m > 3 PROVE crc' = CheckSum(SubSeq(heard', 4, m))
    OBVIOUS
  <2> DEFINE s == SubSeq(heard, 4, n)
  <2>1. s \in Seq(Byte) /\ SubSeq(heard', 4, m) = Append(s, b)
    BY <1>3
  <2>2. n > 3 => crc = CheckSum(s)
    BY DEF Begun
  <2>3. n = 3 => s = <<>>
    <3>1. ASSUME n = 3 PROVE Len(s) = 0
      BY <1>1, <3>1
    <3> HIDE DEF s
    <3> QED
      BY <2>1, <3>1
  <2> HIDE DEF s
  <2>4. CheckSum(Append(s, b)) = msp_crc8_dvb_s2(CheckSum(s), b)
    BY <2>1, CheckSumGrows
  <2>5. n = 3 \/ n > 3
    OBVIOUS
  <2>6. CASE n = 3
    BY <2>1, <2>3, <2>4, <2>6, CheckSumGrows
  <2>7. CASE n > 3
    BY <2>1, <2>2, <2>4, <2>7
  <2> QED
    BY <2>5, <2>6, <2>7
<1>6. Begun(m)'
  BY <1>2, <1>3, <1>4, <1>5 DEF Begun
<1> QED
  BY <1>2, <1>3, <1>6

\* The byte after the payload makes a frame of the bytes exactly if it is their sum.
LEMMA FrameEnds ==
  ASSUME TypeInv, HeardInv, state = "CRC", NEW b \in Byte, heard' = Append(heard, b)
  PROVE  /\ IsFrame(heard') <=> b = crc
         /\ Received = [command |-> heard'[5] + 256 * heard'[6],
                        payload |-> SubSeq(heard', 9, Len(heard') - 1)]
<1> DEFINE n == 8 + payload_length
<1>1. /\ Begun(n) /\ CommandHeard /\ payload_length = heard[7] + 256 * heard[8]
      /\ payload_length <= MSP_MAX_PAYLOAD
      /\ \A i \in 0 .. payload_length - 1 : payload[i] = heard[9 + i]
  BY DEF HeardInv
<1>2. payload_length \in Nat /\ n \in Nat /\ n >= 8 /\ heard \in Seq(Byte)
  BY Widths DEF TypeInv, TypeOK
<1>3. /\ Len(heard) = n /\ heard[1] = DOLLAR
      /\ n > 1 => heard[2] = LETTER_X
      /\ n > 2 => heard[3] = LESS
      /\ n > 3 => crc = CheckSum(SubSeq(heard, 4, n))
  BY <1>1 DEF Begun
<1> HIDE DEF n
<1>4. heard[2] = LETTER_X /\ heard[3] = LESS /\ crc = CheckSum(SubSeq(heard, 4, n))
  BY <1>2, <1>3
<1>5. /\ heard' \in Seq(Byte) /\ Len(heard') = n + 1
      /\ \A i \in 1 .. n : heard'[i] = heard[i]
      /\ heard'[n + 1] = b
      /\ SubSeq(heard', 4, n) = SubSeq(heard, 4, n)
  BY <1>2, <1>3, HearingOn
<1>6. /\ heard'[1] = heard[1] /\ heard'[2] = heard[2] /\ heard'[3] = heard[3]
      /\ heard'[5] = heard[5] /\ heard'[6] = heard[6]
      /\ heard'[7] = heard[7] /\ heard'[8] = heard[8]
  <2>1. /\ 1 \in 1 .. n /\ 2 \in 1 .. n /\ 3 \in 1 .. n
        /\ 5 \in 1 .. n /\ 6 \in 1 .. n /\ 7 \in 1 .. n /\ 8 \in 1 .. n
    BY <1>2
  <2> QED
    BY <1>5, <2>1
<1>7. SubSeq(heard', 1, 3) = <<DOLLAR, LETTER_X, LESS>>
  <2> DEFINE s == SubSeq(heard', 1, 3)
             mark == <<DOLLAR, LETTER_X, LESS>>
  <2>1. s \in Seq(Byte) /\ Len(s) = 3 /\ s[1] = heard'[1] /\ s[2] = heard'[2] /\ s[3] = heard'[3]
    BY <1>2, <1>5
  <2>2. s[1] = DOLLAR /\ s[2] = LETTER_X /\ s[3] = LESS
    BY <1>3, <1>4, <1>6, <2>1
  <2>3. mark \in Seq(Byte) /\ Len(mark) = 3 /\ mark[1] = DOLLAR /\ mark[2] = LETTER_X /\ mark[3] = LESS
    BY DEF Byte, DOLLAR, LETTER_X, LESS
  <2> HIDE DEF s, mark
  <2>4. \A i \in 1 .. Len(s) : s[i] = mark[i]
    <3> SUFFICES ASSUME NEW i \in 1 .. 3 PROVE s[i] = mark[i]
      BY <2>1
    <3>1. i = 1 \/ i = 2 \/ i = 3
      OBVIOUS
    <3> QED
      BY <2>2, <2>3, <3>1
  <2>5. s = mark
    BY <2>1, <2>3, <2>4, SeqEqual
  <2> QED
    BY <2>5 DEF s, mark
<1>8. IsFrame(heard') <=> b = crc
  <2>1. /\ Len(heard') >= 9 /\ Len(heard') - 9 = payload_length /\ Len(heard') - 1 = n
    BY <1>2, <1>5 DEF n
  <2>2. Len(heard') - 9 = heard'[7] + 256 * heard'[8]
    BY <1>1, <1>6, <2>1
  <2>3. heard'[Len(heard')] = b /\ SubSeq(heard', 4, Len(heard') - 1) = SubSeq(heard, 4, n)
    BY <1>5, <2>1
  <2> QED
    BY <1>1, <1>4, <1>7, <2>1, <2>2, <2>3 DEF IsFrame
<1>9. Received.payload = SubSeq(heard', 9, Len(heard') - 1)
  <2> DEFINE p == [i \in 1 .. payload_length |-> payload[i - 1]]
             s == SubSeq(heard', 9, n)
  <2>1. payload \in [0 .. MSP_MAX_PAYLOAD - 1 -> Byte]
    BY DEF TypeInv, TypeOK
  <2>2. \A i \in 1 .. payload_length : payload[i - 1] \in Byte
    BY <1>1, <1>2, <2>1, Limits
  <2>3. p \in Seq(Byte) /\ Len(p) = payload_length /\ \A i \in 1 .. payload_length : p[i] = payload[i - 1]
    BY <1>2, <2>2
  <2>4. /\ s \in Seq(Byte) /\ Len(s) = payload_length
        /\ \A i \in 1 .. payload_length : s[i] = heard'[i + 8]
    BY <1>2, <1>5 DEF n
  <2>5. ASSUME NEW i \in 1 .. payload_length PROVE p[i] = s[i]
    <3>1. i - 1 \in 0 .. payload_length - 1 /\ 9 + (i - 1) = i + 8 /\ i + 8 \in 1 .. n
      BY <1>2 DEF n
    <3>2. payload[i - 1] = heard[9 + (i - 1)]
      BY <1>1, <3>1
    <3>3. heard'[i + 8] = heard[i + 8]
      BY <1>5, <3>1
    <3> QED
      BY <2>3, <2>4, <3>1, <3>2, <3>3
  <2> HIDE DEF p, s
  <2>6. p = s
    BY <1>2, <2>3, <2>4, <2>5, SeqEqual
  <2>7. Received.payload = p
    BY DEF Received, p
  <2>8. Len(heard') - 1 = n
    BY <1>2, <1>5
  <2> QED
    BY <2>6, <2>7, <2>8 DEF s
<1>10. command = heard'[5] + 256 * heard'[6]
  BY <1>1, <1>6 DEF CommandHeard
<1> QED
  BY <1>8, <1>9, <1>10 DEF Received

\* The parser gives up before a frame could end.
LEMMA GivenUp ==
  ASSUME TypeInv, NEW n \in Nat, n < 8, Len(heard) = n, state # "IDLE", state # "CRC",
         NEW b \in Byte, msp_parser_consume(b), state' = "IDLE"
  PROVE  HeardInv'
<1>1. heard \in Seq(Byte) /\ n < HEARD_MAX
  BY Limits DEF TypeInv, TypeOK, HEARD_MAX
<1>2. heard' = Append(heard, b) /\ accepted' = FALSE
  BY <1>1 DEF msp_parser_consume
<1>3. heard' \in Seq(Byte) /\ Len(heard') = n + 1
  BY <1>1, <1>2, HearingOn
<1>4. ~IsFrame(heard')
  BY <1>3, ShortIsNoFrame
<1> QED
  BY <1>2, <1>4 DEF HeardInv

\* In each state one handler of the byte applies.
LEMMA OneHandler ==
  ASSUME NEW b, msp_parser_consume(b)
  PROVE  /\ state \in {"IDLE", "X", "DIRECTION"} => ParseMark(b)
         /\ state = "FLAGS" => ParseFlags(b)
         /\ state \in {"COMMAND_LO", "COMMAND_HI"} => ParseCommand(b)
         /\ state = "LENGTH_LO" => ParseLengthLo(b)
         /\ state = "LENGTH_HI" => ParseLengthHi(b)
         /\ state = "PAYLOAD" => ParsePayload(b)
         /\ state = "CRC" => ParseCrc(b)
<1>1. \/ ParseMark(b) \/ ParseFlags(b) \/ ParseCommand(b) \/ ParseLengthLo(b)
      \/ ParseLengthHi(b) \/ ParsePayload(b) \/ ParseCrc(b)
  BY DEF msp_parser_consume
<1>2. /\ ParseMark(b) => state \in {"IDLE", "X", "DIRECTION"}
      /\ ParseFlags(b) => state = "FLAGS"
      /\ ParseCommand(b) => state \in {"COMMAND_LO", "COMMAND_HI"}
      /\ ParseLengthLo(b) => state = "LENGTH_LO"
      /\ ParseLengthHi(b) => state = "LENGTH_HI"
      /\ ParsePayload(b) => state = "PAYLOAD"
      /\ ParseCrc(b) => state = "CRC"
  BY DEF ParseMark, ParseFlags, ParseCommand, ParseLengthLo, ParseLengthHi, ParsePayload, ParseCrc,
         Mark
<1> QED
  BY <1>1, <1>2

\* The byte the parser waits for in its first three states.
LEMMA MarkOf ==
  ASSUME NEW b, ParseMark(b)
  PROVE  /\ state = "IDLE" => state' = IF b = DOLLAR THEN "X" ELSE "IDLE"
         /\ state = "X" => state' = IF b = LETTER_X THEN "DIRECTION" ELSE "IDLE"
         /\ state = "DIRECTION" => state' = IF b = LESS THEN "FLAGS" ELSE "IDLE"
BY DEF ParseMark, Mark, Follow

\* msp.c:61-86: every byte leaves the parser where the bytes heard say it is.
LEMMA HeardOfConsume ==
  ASSUME TypeInv, HeardInv, NEW b \in Byte, msp_parser_consume(b)
  PROVE  HeardInv'
<1>1. heard \in Seq(Byte) /\ state \in States /\ 1 < HEARD_MAX
  BY Limits DEF TypeInv, TypeOK, HEARD_MAX
<1>2. \A n \in 1 .. 7 : n \in Nat /\ n > 0 /\ n < HEARD_MAX
  BY Limits DEF HEARD_MAX
<1>3. CASE state = "IDLE"
  <2>1. heard' = <<b>> /\ accepted' = FALSE /\ state' = IF b = DOLLAR THEN "X" ELSE "IDLE"
    <3>1. ParseMark(b)
      BY <1>3, OneHandler
    <3>2. state' = IF b = DOLLAR THEN "X" ELSE "IDLE"
      BY <1>3, <3>1, MarkOf
    <3>3. heard' = <<b>> /\ accepted' = FALSE
      BY <1>3 DEF msp_parser_consume
    <3> QED
      BY <3>2, <3>3
  <2>2. <<b>> \in Seq(Byte) /\ Len(<<b>>) = 1 /\ <<b>>[1] = b
    OBVIOUS
  <2>3. ~IsFrame(heard')
    <3>1. heard' \in Seq(Byte) /\ Len(heard') < 9
      BY <2>1, <2>2
    <3> QED
      BY <3>1, ShortIsNoFrame
  <2>4. state' = "X" => Begun(1)'
    BY <2>1, <2>2 DEF Begun
  <2> QED
    BY <2>1, <2>3, <2>4 DEF HeardInv
<1>4. CASE state = "X"
  <2>1. Begun(1) /\ state' = IF b = LETTER_X THEN "DIRECTION" ELSE "IDLE"
    BY <1>4, OneHandler, MarkOf DEF HeardInv
  <2>2. CASE b = LETTER_X
    <3>1. Begun(2)'
      BY <1>2, <1>4, <2>1, <2>2, OneMore, 1 \in 1 .. 7, 2 = 1 + 1
    <3>2. accepted' = FALSE
      BY <1>4 DEF msp_parser_consume
    <3> QED
      BY <2>1, <2>2, <3>1, <3>2 DEF HeardInv
  <2>3. CASE b # LETTER_X
    BY <1>4, <2>1, <2>3, GivenUp DEF Begun
  <2> QED
    BY <2>2, <2>3
<1>5. CASE state = "DIRECTION"
  <2>1. Begun(2) /\ state' = IF b = LESS THEN "FLAGS" ELSE "IDLE"
    BY <1>5, OneHandler, MarkOf DEF HeardInv
  <2>2. CASE b = LESS
    <3>1. Begun(3)'
      BY <1>2, <1>5, <2>1, <2>2, OneMore, 2 \in 1 .. 7, 3 = 2 + 1
    <3>2. accepted' = FALSE
      BY <1>5 DEF msp_parser_consume
    <3> QED
      BY <2>1, <2>2, <3>1, <3>2 DEF HeardInv
  <2>3. CASE b # LESS
    BY <1>5, <2>1, <2>3, GivenUp DEF Begun
  <2> QED
    BY <2>2, <2>3
<1>6. CASE state = "FLAGS"
  <2>1. Begun(3) /\ state' = "COMMAND_LO" /\ crc' = msp_crc8_dvb_s2(0, b)
    BY <1>6, OneHandler DEF HeardInv, ParseFlags
  <2>2. Begun(4)'
    BY <1>2, <1>6, <2>1, OneMore, 3 \in 1 .. 7, 4 = 3 + 1
  <2>3. accepted' = FALSE
    BY <1>6 DEF msp_parser_consume
  <2> QED
    BY <2>1, <2>2, <2>3 DEF HeardInv
<1>7. CASE state = "COMMAND_LO"
  <2>1. /\ Begun(4) /\ state' = "COMMAND_HI" /\ crc' = msp_crc8_dvb_s2(crc, b)
        /\ command' = b
    BY <1>7, OneHandler DEF HeardInv, ParseCommand
  <2>2. Begun(5)' /\ heard'[5] = b
    BY <1>2, <1>7, <2>1, OneMore, 4 \in 1 .. 7, 5 = 4 + 1
  <2>3. accepted' = FALSE
    BY <1>7 DEF msp_parser_consume
  <2> QED
    BY <2>1, <2>2, <2>3 DEF HeardInv
<1>8. CASE state = "COMMAND_HI"
  <2>1. /\ Begun(5) /\ state' = "LENGTH_LO" /\ crc' = msp_crc8_dvb_s2(crc, b)
        /\ command' = command + 256 * b /\ command = heard[5]
    BY <1>8, OneHandler DEF HeardInv, ParseCommand
  <2>2. /\ Begun(6)' /\ heard'[6] = b
        /\ \A i \in 1 .. 5 : heard'[i] = heard[i]
    BY <1>2, <1>8, <2>1, OneMore, 5 \in 1 .. 7, 6 = 5 + 1
  <2>3. accepted' = FALSE
    BY <1>8 DEF msp_parser_consume
  <2>4. heard'[5] = heard[5]
    BY <2>2, 5 \in 1 .. 5
  <2> QED
    BY <2>1, <2>2, <2>3, <2>4 DEF HeardInv, CommandHeard
<1>9. CASE state = "LENGTH_LO"
  <2>1. /\ Begun(6) /\ state' = "LENGTH_HI" /\ crc' = msp_crc8_dvb_s2(crc, b)
        /\ payload_length' = b /\ command' = command /\ CommandHeard
    BY <1>9, OneHandler DEF HeardInv, ParseLengthLo
  <2>2. /\ Begun(7)' /\ heard'[7] = b
        /\ \A i \in 1 .. 6 : heard'[i] = heard[i]
    <3>1. Begun(6) /\ 6 < HEARD_MAX /\ state # "IDLE" /\ state # "CRC" /\ 7 = 6 + 1
      BY <1>2, <1>9, <2>1
    <3> QED
      BY <2>1, <3>1, OneMore, SMTT(20)
  <2>3. accepted' = FALSE
    BY <1>9 DEF msp_parser_consume
  <2>4. heard'[5] = heard[5] /\ heard'[6] = heard[6]
    BY <2>2, 5 \in 1 .. 6, 6 \in 1 .. 6
  <2> QED
    BY <2>1, <2>2, <2>3, <2>4 DEF HeardInv, CommandHeard
<1>10. CASE state = "LENGTH_HI"
  <2>1. /\ Begun(7) /\ CommandHeard /\ payload_length = heard[7] /\ ParseLengthHi(b)
    BY <1>10, OneHandler DEF HeardInv
  <2>2. CASE payload_length' > MSP_MAX_PAYLOAD
    <3>1. state' = "IDLE"
      BY <2>1, <2>2 DEF ParseLengthHi, parser_reset
    <3> QED
      BY <1>10, <2>1, <3>1, GivenUp DEF Begun
  <2>3. CASE ~(payload_length' > MSP_MAX_PAYLOAD)
    <3>1. /\ state' \in {"PAYLOAD", "CRC"} /\ (state' = "CRC" => payload_length' = 0)
          /\ crc' = msp_crc8_dvb_s2(crc, b) /\ offset' = 0
          /\ payload_length' = payload_length + 256 * b /\ command' = command
      <4>1. offset = 0
        BY <1>10 DEF TypeInv, PayloadFits
      <4> QED
        BY <2>1, <2>3, <4>1 DEF ParseLengthHi
    <3>2. /\ Begun(8)' /\ heard'[8] = b
          /\ \A i \in 1 .. 7 : heard'[i] = heard[i]
      BY <1>2, <1>10, <2>1, <3>1, OneMore, 7 \in 1 .. 7, 8 = 7 + 1
    <3>3. accepted' = FALSE
      BY <1>10 DEF msp_parser_consume
    <3>4. heard'[5] = heard[5] /\ heard'[6] = heard[6] /\ heard'[7] = heard[7]
      BY <3>2, 5 \in 1 .. 7, 6 \in 1 .. 7, 7 \in 1 .. 7
    <3>5. payload_length' \in Nat
      <4>1. payload_length \in Nat /\ b \in Nat
        BY Widths DEF TypeInv, TypeOK
      <4> QED
        BY <3>1, <4>1
    <3>6. payload_length' <= MSP_MAX_PAYLOAD
      BY <2>3, <3>5, Limits
    <3>7. Begun(8 + offset)'
      BY <3>1, <3>2 DEF Begun
    <3>8. payload_length' = heard'[7] + 256 * heard'[8]
      BY <2>1, <3>1, <3>2, <3>4
    <3>9. CommandHeard'
      BY <2>1, <3>1, <3>4 DEF CommandHeard
    <3>10. \A i \in 0 .. offset' - 1 : payload'[i] = heard'[9 + i]
      <4>1. 0 .. offset' - 1 = {}
        BY <3>1
      <4> QED
        BY <4>1
    <3> QED
      BY <3>1, <3>3, <3>6, <3>7, <3>8, <3>9, <3>10 DEF HeardInv
  <2> QED
    BY <2>2, <2>3
<1>11. CASE state = "PAYLOAD"
  <2> DEFINE n == 8 + offset
  <2>1. /\ Begun(n) /\ CommandHeard
        /\ payload_length = heard[7] + 256 * heard[8] /\ payload_length <= MSP_MAX_PAYLOAD
        /\ \A i \in 0 .. offset - 1 : payload[i] = heard[9 + i]
        /\ ParsePayload(b)
    BY <1>11, OneHandler DEF HeardInv
  <2>2. offset \in Nat /\ offset < payload_length /\ payload_length \in Nat
    BY <1>11, Widths DEF TypeInv, TypeOK, PayloadFits
  <2>3. n \in Nat /\ n >= 8 /\ n < HEARD_MAX
    BY <2>1, <2>2, Limits DEF HEARD_MAX
  <2>4. PICK m \in Nat : m = n + 1
    BY <2>3
  <2>5. /\ offset' = offset + 1 /\ crc' = msp_crc8_dvb_s2(crc, b)
        /\ payload' = [payload EXCEPT ![offset] = b]
        /\ state' = IF offset' = payload_length THEN "CRC" ELSE "PAYLOAD"
        /\ command' = command /\ payload_length' = payload_length
    BY <2>1 DEF ParsePayload
  <2>6. /\ Begun(m)' /\ heard'[m] = b
        /\ \A i \in 1 .. n : heard'[i] = heard[i]
    <3>1. n > 0 /\ n # 1 /\ n # 2 /\ n # 3
      BY <2>3
    <3> HIDE DEF n
    <3> QED
      BY <1>11, <2>1, <2>3, <2>4, <2>5, <3>1, OneMore
  <2>7. m = 8 + offset'
    BY <2>2, <2>4, <2>5
  <2>8. accepted' = FALSE
    BY <1>11 DEF msp_parser_consume
  <2>9. heard'[5] = heard[5] /\ heard'[6] = heard[6] /\ heard'[7] = heard[7] /\ heard'[8] = heard[8]
    <3>1. 5 \in 1 .. n /\ 6 \in 1 .. n /\ 7 \in 1 .. n /\ 8 \in 1 .. n
      BY <2>3
    <3> HIDE DEF n
    <3> QED
      BY <2>6, <3>1
  <2>10. Begun(8 + offset)'
    BY <2>6, <2>7 DEF Begun
  <2>11. CommandHeard'
    BY <2>1, <2>5, <2>9 DEF CommandHeard
  <2>12. ASSUME NEW i \in 0 .. offset' - 1 PROVE payload'[i] = heard'[9 + i]
    <3>1. payload \in [0 .. MSP_MAX_PAYLOAD - 1 -> Byte] /\ i \in 0 .. MSP_MAX_PAYLOAD - 1
      BY <2>1, <2>2, <2>5, Limits DEF TypeInv, TypeOK
    <3>2. CASE i = offset
      <4>1. 9 + i = m
        BY <2>2, <2>4, <3>2
      <4>2. payload'[i] = b
        BY <2>5, <3>1, <3>2
      <4> QED
        BY <2>6, <4>1, <4>2
    <3>3. CASE i # offset
      <4>1. i \in 0 .. offset - 1 /\ 9 + i \in 1 .. n
        BY <2>2, <2>5, <3>3
      <4>2. payload'[i] = payload[i]
        BY <2>5, <3>1, <3>3
      <4>3. payload[i] = heard[9 + i]
        BY <2>1, <4>1
      <4>4. heard'[9 + i] = heard[9 + i]
        BY <2>6, <4>1
      <4> QED
        BY <4>2, <4>3, <4>4
    <3> QED
      BY <3>2, <3>3
  <2>13. payload_length' = heard'[7] + 256 * heard'[8] /\ payload_length' <= MSP_MAX_PAYLOAD
    BY <2>1, <2>5, <2>9
  <2>14. state' \in {"PAYLOAD", "CRC"} /\ (state' = "CRC" => offset' = payload_length')
    BY <2>5
  <2> QED
    BY <2>8, <2>10, <2>11, <2>12, <2>13, <2>14 DEF HeardInv
<1>12. CASE state = "CRC"
  <2>1. /\ state' = "IDLE" /\ accepted' = (b = crc)
        /\ command' = command /\ payload' = payload /\ payload_length' = payload_length
    BY <1>12, OneHandler DEF msp_parser_consume, ParseCrc, parser_reset
  <2>2. heard' = Append(heard, b)
    <3>1. /\ Len(heard) = 8 + offset /\ offset = payload_length /\ payload_length <= MSP_MAX_PAYLOAD
      BY <1>12 DEF HeardInv, Begun
    <3>2. Len(heard) < HEARD_MAX
      BY <3>1, Limits, Widths DEF HEARD_MAX, TypeInv, TypeOK
    <3> QED
      BY <1>12, <3>2 DEF msp_parser_consume
  <2>3. /\ IsFrame(heard') <=> b = crc
        /\ Received = [command |-> heard'[5] + 256 * heard'[6],
                       payload |-> SubSeq(heard', 9, Len(heard') - 1)]
    BY <1>12, <2>2, FrameEnds
  <2>4. Received' = Received
    BY <2>1 DEF Received
  <2> QED
    BY <2>1, <2>3, <2>4 DEF HeardInv
<1> QED
  BY <1>1, <1>3, <1>4, <1>5, <1>6, <1>7, <1>8, <1>9, <1>10, <1>11, <1>12 DEF States

\* What the bytes heard say is what the parser accepts.
LEMMA HeardShows ==
  ASSUME TypeInv, HeardInv
  PROVE  AcceptsExactlyFrames
<1>1. state \in States
  BY DEF TypeInv, TypeOK
<1>2. state # "IDLE" => ~accepted
  BY <1>1 DEF States, HeardInv, Begun
<1> QED
  BY <1>2 DEF HeardInv, AcceptsExactlyFrames

-----------------------------------------------------------------------------
(* The frames of the peer. *)

\* A word is its low byte and 256 times its high one.
LEMMA LowAndHigh == \A n \in Word : Low(n) + 256 * High(n) = n
BY DEF Low, High, Word

\* The m elements of a, then the n elements of b.
Joins(c, a, m, b, n) ==
  /\ c \in Seq(Byte) /\ Len(c) = m + n
  /\ \A i \in 1 .. m : c[i] = a[i]
  /\ \A i \in 1 .. n : c[i + m] = b[i]

\* Two sequences, one after the other.
LEMMA Joined == \A a, b \in Seq(Byte) : Joins(a \o b, a, Len(a), b, Len(b))
<1> SUFFICES ASSUME NEW a \in Seq(Byte), NEW b \in Seq(Byte)
             PROVE  Joins(a \o b, a, Len(a), b, Len(b))
  OBVIOUS
<1>1. /\ a \o b \in Seq(Byte) /\ Len(a \o b) = Len(a) + Len(b)
      /\ \A i \in 1 .. Len(a) : (a \o b)[i] = a[i]
      /\ \A i \in 1 .. Len(b) : (a \o b)[i + Len(a)] = b[i]
  OBVIOUS
<1> QED
  BY <1>1, Zenon DEF Joins

\* The bytes are those of the frame, whose payload has n bytes.
Encodes(bytes, frame, n) ==
  /\ bytes \in Seq(Byte) /\ Len(bytes) = n + 9 /\ n <= MSP_MAX_PAYLOAD
  /\ bytes[1] = DOLLAR /\ bytes[2] = LETTER_X /\ bytes[3] = LESS
  /\ bytes[5] + 256 * bytes[6] = frame.command
  /\ bytes[7] + 256 * bytes[8] = n
  /\ \A i \in 1 .. n : bytes[i + 8] = frame.payload[i]
  /\ bytes[n + 9] = CheckSum(SubSeq(bytes, 4, n + 8))

\* msp.c:22-34: what the encoder writes, byte by byte.
LEMMA FrameBytes ==
  \A frame \in Frames :
    /\ Encodes(msp_encode_v2(frame.command, frame.payload), frame, Len(frame.payload))
    /\ Len(frame.payload) \in Nat
<1> SUFFICES ASSUME NEW frame \in Frames, NEW bytes,
                    bytes = msp_encode_v2(frame.command, frame.payload),
                    NEW n \in Nat, n = Len(frame.payload)
             PROVE  Encodes(bytes, frame, n)
  BY FramesFit, Widths
<1> DEFINE head == <<0, Low(frame.command), High(frame.command), Low(n), High(n)>>
           payl == frame.payload
           body == head \o payl
           mark == <<DOLLAR, LETTER_X, LESS>>
           both == mark \o body
           sum == <<CheckSum(body)>>
<1>1. /\ frame.command \in Word /\ payl \in Seq(Byte) /\ n \in Word
      /\ n <= MSP_MAX_PAYLOAD /\ Len(payl) = n
  BY FramesFit, MspAssumption
<1>2. /\ Low(frame.command) \in Byte /\ High(frame.command) \in Byte
      /\ Low(n) \in Byte /\ High(n) \in Byte /\ 0 \in Byte
      /\ DOLLAR \in Byte /\ LETTER_X \in Byte /\ LESS \in Byte
  <2>1. DOLLAR \in Byte /\ LETTER_X \in Byte /\ LESS \in Byte
    BY DEF Byte, DOLLAR, LETTER_X, LESS
  <2> QED
    BY <1>1, <2>1, Widths
<1>3. /\ head \in Seq(Byte) /\ Len(head) = 5
      /\ head[2] = Low(frame.command) /\ head[3] = High(frame.command)
      /\ head[4] = Low(n) /\ head[5] = High(n)
  BY <1>2
<1>4. /\ mark \in Seq(Byte) /\ Len(mark) = 3
      /\ mark[1] = DOLLAR /\ mark[2] = LETTER_X /\ mark[3] = LESS
  BY <1>2
<1>5. bytes = both \o sum
  <2>1. ~(n > MSP_MAX_PAYLOAD)
    BY <1>1, Limits
  <2> QED
    BY <2>1, Zenon DEF msp_encode_v2
<1> HIDE DEF head, mark, payl
<1>6. /\ body \in Seq(Byte) /\ Len(body) = n + 5
      /\ \A i \in 1 .. 5 : body[i] = head[i]
      /\ \A i \in 1 .. n : body[i + 5] = payl[i]
  <2>1. Joins(body, head, 5, payl, n)
    BY <1>1, <1>3, Joined, Zenon
  <2> HIDE DEF body
  <2> QED
    BY <2>1 DEF Joins
<1>7. /\ both \in Seq(Byte) /\ Len(both) = n + 8
      /\ \A i \in 1 .. 3 : both[i] = mark[i]
      /\ \A i \in 1 .. n + 5 : both[i + 3] = body[i]
  <2> HIDE DEF body
  <2>1. Joins(both, mark, 3, body, n + 5)
    BY <1>4, <1>6, Joined, Zenon
  <2> HIDE DEF both
  <2> QED
    BY <2>1 DEF Joins
<1> HIDE DEF body
<1>8. sum \in Seq(Byte) /\ Len(sum) = 1 /\ sum[1] = CheckSum(body)
  <2>1. CheckSum(body) \in Byte
    BY <1>6, CheckSumIsByte
  <2> QED
    BY <2>1
<1> HIDE DEF both, sum
<1>9. /\ bytes \in Seq(Byte) /\ Len(bytes) = n + 9
      /\ \A i \in 1 .. n + 8 : bytes[i] = both[i]
      /\ bytes[n + 9] = CheckSum(body)
  <2>1. Joins(bytes, both, n + 8, sum, 1)
    BY <1>5, <1>7, <1>8, Joined, Zenon
  <2>2. 1 + (n + 8) = n + 9 /\ 1 \in 1 .. 1
    OBVIOUS
  <2>3. /\ bytes \in Seq(Byte) /\ Len(bytes) = n + 9
        /\ \A i \in 1 .. n + 8 : bytes[i] = both[i]
        /\ \A i \in 1 .. 1 : bytes[i + (n + 8)] = sum[i]
    BY <2>1, <2>2 DEF Joins
  <2> QED
    BY <1>8, <2>2, <2>3
<1>10. /\ bytes[1] = both[1] /\ bytes[2] = both[2] /\ bytes[3] = both[3]
       /\ bytes[5] = both[5] /\ bytes[6] = both[6] /\ bytes[7] = both[7] /\ bytes[8] = both[8]
  <2>1. /\ 1 \in 1 .. n + 8 /\ 2 \in 1 .. n + 8 /\ 3 \in 1 .. n + 8
        /\ 5 \in 1 .. n + 8 /\ 6 \in 1 .. n + 8 /\ 7 \in 1 .. n + 8 /\ 8 \in 1 .. n + 8
    OBVIOUS
  <2> QED
    BY <1>9, <2>1
<1>11. both[1] = DOLLAR /\ both[2] = LETTER_X /\ both[3] = LESS
  <2>1. 1 \in 1 .. 3 /\ 2 \in 1 .. 3 /\ 3 \in 1 .. 3
    OBVIOUS
  <2> QED
    BY <1>4, <1>7, <2>1
<1>12. both[5] = body[2] /\ both[6] = body[3] /\ both[7] = body[4] /\ both[8] = body[5]
  <2>1. /\ 2 \in 1 .. n + 5 /\ 3 \in 1 .. n + 5 /\ 4 \in 1 .. n + 5 /\ 5 \in 1 .. n + 5
        /\ 2 + 3 = 5 /\ 3 + 3 = 6 /\ 4 + 3 = 7 /\ 5 + 3 = 8
    OBVIOUS
  <2> QED
    BY <1>7, <2>1
<1>13. /\ body[2] = Low(frame.command) /\ body[3] = High(frame.command)
       /\ body[4] = Low(n) /\ body[5] = High(n)
  <2>1. 2 \in 1 .. 5 /\ 3 \in 1 .. 5 /\ 4 \in 1 .. 5 /\ 5 \in 1 .. 5
    OBVIOUS
  <2> QED
    BY <1>3, <1>6, <2>1
<1>14. bytes[5] + 256 * bytes[6] = frame.command /\ bytes[7] + 256 * bytes[8] = n
  <2>1. /\ Low(frame.command) + 256 * High(frame.command) = frame.command
        /\ Low(n) + 256 * High(n) = n
    BY <1>1, LowAndHigh
  <2>2. /\ bytes[5] = Low(frame.command) /\ bytes[6] = High(frame.command)
        /\ bytes[7] = Low(n) /\ bytes[8] = High(n)
    BY <1>10, <1>12, <1>13
  <2> QED
    BY <2>1, <2>2
<1>15. ASSUME NEW i \in 1 .. n PROVE bytes[i + 8] = payl[i]
  <2>1. i + 8 \in 1 .. n + 8 /\ i + 5 \in 1 .. n + 5 /\ i + 5 + 3 = i + 8
    OBVIOUS
  <2>2. bytes[i + 8] = both[i + 8] /\ both[i + 8] = body[i + 5] /\ body[i + 5] = payl[i]
    BY <1>6, <1>7, <1>9, <2>1
  <2> QED
    BY <2>2
<1>16. SubSeq(bytes, 4, n + 8) = body
  <2> DEFINE s == SubSeq(bytes, 4, n + 8)
  <2>1. s \in Seq(Byte) /\ Len(s) = n + 5 /\ \A i \in 1 .. n + 5 : s[i] = bytes[i + 3]
    BY <1>9
  <2> HIDE DEF s
  <2>2. ASSUME NEW i \in 1 .. n + 5 PROVE s[i] = body[i]
    <3>1. i + 3 \in 1 .. n + 8
      OBVIOUS
    <3>2. bytes[i + 3] = both[i + 3] /\ both[i + 3] = body[i]
      BY <1>7, <1>9, <3>1
    <3> QED
      BY <2>1, <3>2
  <2>3. s = body
    BY <1>6, <2>1, <2>2, SeqEqual
  <2> QED
    BY <2>3 DEF s
<1> QED
  BY <1>1, <1>9, <1>10, <1>11, <1>14, <1>15, <1>16 DEF payl, Encodes

\* It is a frame, and the reader finds in it what was to be sent.
LEMMA EncodedIsFrame ==
  ASSUME NEW frame \in Frames, NEW bytes,
         bytes = msp_encode_v2(frame.command, frame.payload)
  PROVE  /\ IsFrame(bytes)
         /\ frame = [command |-> bytes[5] + 256 * bytes[6],
                     payload |-> SubSeq(bytes, 9, Len(bytes) - 1)]
<1> DEFINE n == Len(frame.payload)
<1>1. frame \in [command : Word, payload : Seq(Byte)]
  BY MspAssumption
<1>2. n \in Nat /\ frame.payload \in Seq(Byte)
  BY <1>1
<1> HIDE DEF n
<1>3. /\ bytes \in Seq(Byte) /\ Len(bytes) = n + 9 /\ n <= MSP_MAX_PAYLOAD
      /\ bytes[1] = DOLLAR /\ bytes[2] = LETTER_X /\ bytes[3] = LESS
      /\ bytes[5] + 256 * bytes[6] = frame.command
      /\ bytes[7] + 256 * bytes[8] = n
      /\ \A i \in 1 .. n : bytes[i + 8] = frame.payload[i]
      /\ bytes[n + 9] = CheckSum(SubSeq(bytes, 4, n + 8))
  <2>1. Encodes(bytes, frame, n)
    BY FrameBytes DEF n
  <2> QED
    BY <2>1 DEF Encodes
<1>4. SubSeq(bytes, 1, 3) = <<DOLLAR, LETTER_X, LESS>>
  <2> DEFINE s == SubSeq(bytes, 1, 3)
             mark == <<DOLLAR, LETTER_X, LESS>>
  <2>1. s \in Seq(Byte) /\ Len(s) = 3 /\ s[1] = bytes[1] /\ s[2] = bytes[2] /\ s[3] = bytes[3]
    BY <1>2, <1>3
  <2>2. mark \in Seq(Byte) /\ Len(mark) = 3 /\ mark[1] = DOLLAR /\ mark[2] = LETTER_X /\ mark[3] = LESS
    BY DEF Byte, DOLLAR, LETTER_X, LESS
  <2> HIDE DEF s, mark
  <2>3. \A i \in 1 .. Len(s) : s[i] = mark[i]
    <3> SUFFICES ASSUME NEW i \in 1 .. 3 PROVE s[i] = mark[i]
      BY <2>1
    <3>1. i = 1 \/ i = 2 \/ i = 3
      OBVIOUS
    <3> QED
      BY <1>3, <2>1, <2>2, <3>1
  <2>4. s = mark
    BY <2>1, <2>2, <2>3, SeqEqual
  <2> QED
    BY <2>4 DEF s, mark
<1>5. Len(bytes) - 1 = n + 8 /\ Len(bytes) - 9 = n /\ Len(bytes) >= 9
  <2>1. Len(bytes) = n + 9
    BY <1>3
  <2> QED
    BY <1>2, <2>1
<1>6. IsFrame(bytes)
  <2>1. bytes[7] + 256 * bytes[8] = n
    BY <1>3
  <2>2. n <= MSP_MAX_PAYLOAD /\ bytes[n + 9] = CheckSum(SubSeq(bytes, 4, n + 8))
    BY <1>3
  <2>3. bytes[Len(bytes)] = CheckSum(SubSeq(bytes, 4, Len(bytes) - 1))
    BY <1>3, <1>5, <2>2
  <2> QED
    BY <1>4, <1>5, <2>1, <2>2, <2>3 DEF IsFrame
<1>7. SubSeq(bytes, 9, n + 8) = frame.payload
  <2> DEFINE s == SubSeq(bytes, 9, n + 8)
  <2>1. s \in Seq(Byte) /\ Len(s) = n /\ \A i \in 1 .. n : s[i] = bytes[i + 8]
    BY <1>2, <1>3
  <2> HIDE DEF s
  <2>2. \A i \in 1 .. n : s[i] = frame.payload[i]
    BY <1>3, <2>1
  <2>3. Len(frame.payload) = n
    BY DEF n
  <2>4. s = frame.payload
    BY <1>2, <2>1, <2>2, <2>3, SeqEqual
  <2> QED
    BY <2>4 DEF s
<1>8. frame = [command |-> frame.command, payload |-> frame.payload]
  BY <1>1
<1>9. frame = [command |-> bytes[5] + 256 * bytes[6], payload |-> SubSeq(bytes, 9, n + 8)]
  BY <1>3, <1>7, <1>8
<1> QED
  <2>1. SubSeq(bytes, 9, n + 8) = SubSeq(bytes, 9, Len(bytes) - 1)
    BY <1>5
  <2> QED
    BY <1>6, <1>9, <2>1

\* A clean frame begins with all of it on the line.
LEMMA CleanOfSend ==
  ASSUME TypeInv, SendFrame
  PROVE  CleanInv'
<1> SUFFICES ASSUME clean' PROVE CleanInv'
  BY DEF CleanInv
<1>1. /\ sent' \in Frames /\ state' = "IDLE"
      /\ line' = msp_encode_v2(sent'.command, sent'.payload)
  BY DEF SendFrame, parser
<1> PICK bytes : bytes = msp_encode_v2(sent'.command, sent'.payload)
  OBVIOUS
<1>2. bytes \in Seq(Byte)
  BY <1>1, EncodedIsBytes
<1>3. line' = bytes
  BY <1>1
<1>4. bytes = SubSeq(bytes, 0 + 1, Len(bytes)) /\ 0 \in 0 .. Len(bytes) /\ 0 \notin 1 .. Len(bytes) - 1
  <2> DEFINE s == SubSeq(bytes, 1, Len(bytes))
             m == Len(bytes)
  <2>1. m \in Nat
    BY <1>2
  <2>2. s \in Seq(Byte) /\ Len(s) = Len(bytes) /\ \A i \in 1 .. Len(bytes) : s[i] = bytes[i]
    BY <1>2
  <2> HIDE DEF s
  <2>3. s = bytes
    BY <1>2, <2>2, SeqEqual
  <2>4. 0 + 1 = 1 /\ 0 \in 0 .. m /\ 0 \notin 1 .. m - 1
    BY <2>1
  <2> QED
    BY <2>3, <2>4 DEF s
<1>5. \E k \in 0 .. Len(bytes) :
        /\ line' = SubSeq(bytes, k + 1, Len(bytes))
        /\ k = 0 => state' = "IDLE"
        /\ k > 0 => heard' = SubSeq(bytes, 1, k)
        /\ k \in 1 .. Len(bytes) - 1 => state' # "IDLE"
  BY <1>1, <1>3, <1>4
<1> QED
  BY <1>5 DEF CleanInv, Heard

\* A sequence with one more of its elements, and what then remains of it.
LEMMA PrefixGrows ==
  ASSUME NEW bytes \in Seq(Byte), NEW k \in Nat, NEW m \in Nat, m = Len(bytes), k < m
  PROVE  /\ bytes[k + 1] \in Byte
         /\ SubSeq(bytes, 1, k) \in Seq(Byte) /\ Len(SubSeq(bytes, 1, k)) = k
         /\ \A i \in 1 .. k : SubSeq(bytes, 1, k)[i] = bytes[i]
         /\ SubSeq(bytes, 1, k + 1) = Append(SubSeq(bytes, 1, k), bytes[k + 1])
<1> DEFINE s == SubSeq(bytes, 1, k)
           t == SubSeq(bytes, 1, k + 1)
<1>1. bytes[k + 1] \in Byte
  OBVIOUS
<1>2. s \in Seq(Byte) /\ Len(s) = k /\ \A i \in 1 .. k : s[i] = bytes[i]
  OBVIOUS
<1>3. t \in Seq(Byte) /\ Len(t) = k + 1 /\ \A i \in 1 .. k + 1 : t[i] = bytes[i]
  OBVIOUS
<1> HIDE DEF s, t
<1>4. t = Append(s, bytes[k + 1])
  <2> DEFINE u == Append(s, bytes[k + 1])
  <2>1. u \in Seq(Byte) /\ Len(u) = k + 1 /\ u[k + 1] = bytes[k + 1] /\ \A i \in 1 .. k : u[i] = s[i]
    BY <1>1, <1>2
  <2> HIDE DEF u
  <2>2. ASSUME NEW i \in 1 .. k + 1 PROVE t[i] = u[i]
    <3>1. i = k + 1 \/ i \in 1 .. k
      OBVIOUS
    <3> QED
      BY <1>2, <1>3, <2>1, <3>1
  <2>3. t = u
    BY <1>3, <2>1, <2>2, SeqEqual
  <2> QED
    BY <2>3 DEF u
<1> QED
  BY <1>1, <1>2, <1>4 DEF s, t

LEMMA SuffixShrinks ==
  ASSUME NEW bytes \in Seq(Byte), NEW k \in Nat, NEW m \in Nat, m = Len(bytes), k <= m
  PROVE  /\ k = m <=> SubSeq(bytes, k + 1, m) = <<>>
         /\ k < m => /\ Head(SubSeq(bytes, k + 1, m)) = bytes[k + 1]
                     /\ Tail(SubSeq(bytes, k + 1, m)) = SubSeq(bytes, k + 2, m)
<1> DEFINE s == SubSeq(bytes, k + 1, m)
           t == SubSeq(bytes, k + 2, m)
<1>1. s \in Seq(Byte) /\ Len(s) = m - k /\ \A i \in 1 .. m - k : s[i] = bytes[i + k]
  <2>1. s \in Seq(Byte)
    OBVIOUS
  <2>2. Len(s) = m - k
    OBVIOUS
  <2> QED
    BY <2>1, <2>2
<1> HIDE DEF s
<1>2. k = m <=> s = <<>>
  <2>1. k = m <=> Len(s) = 0
    BY <1>1
  <2>2. Len(s) = 0 <=> s = <<>>
    BY <1>1
  <2> QED
    BY <2>1, <2>2
<1>3. ASSUME k < m PROVE Head(s) = bytes[k + 1] /\ Tail(s) = t
  <2>1. t \in Seq(Byte) /\ Len(t) = m - k - 1 /\ \A i \in 1 .. m - k - 1 : t[i] = bytes[i + (k + 1)]
    BY <1>3
  <2>2. s # <<>> /\ 1 \in 1 .. m - k /\ 1 + k = k + 1
    BY <1>2, <1>3
  <2>3. Head(s) = bytes[k + 1]
    BY <1>1, <2>2
  <2> DEFINE u == Tail(s)
  <2>4. u \in Seq(Byte) /\ Len(u) = m - k - 1 /\ \A i \in 1 .. m - k - 1 : u[i] = s[i + 1]
    BY <1>1, <1>3, <2>2
  <2> HIDE DEF t, u
  <2>5. ASSUME NEW i \in 1 .. m - k - 1 PROVE u[i] = t[i]
    <3>1. i + 1 \in 1 .. m - k /\ (i + 1) + k = i + (k + 1)
      BY <1>3
    <3> QED
      BY <1>1, <2>1, <2>4, <3>1
  <2>6. u = t
    BY <2>1, <2>4, <2>5, SeqEqual
  <2> QED
    BY <2>3, <2>6 DEF u
<1> QED
  BY <1>2, <1>3 DEF s

\* A byte of the frame that is not its last keeps the parser within the frame.
LEMMA WithinFrame ==
  ASSUME TypeInv, HeardInv, NEW frame \in Frames, NEW bytes,
         bytes = msp_encode_v2(frame.command, frame.payload),
         NEW n \in Nat, n = Len(frame.payload),
         NEW k \in Nat, k < n + 8, k = 0 => state = "IDLE",
         k > 0 => heard = SubSeq(bytes, 1, k) /\ state # "IDLE",
         NEW b \in Byte, b = bytes[k + 1], msp_parser_consume(b)
  PROVE  state' # "IDLE"
<1>0. /\ bytes \in Seq(Byte) /\ Len(bytes) = n + 9 /\ n <= MSP_MAX_PAYLOAD
      /\ bytes[1] = DOLLAR /\ bytes[2] = LETTER_X /\ bytes[3] = LESS
      /\ bytes[5] + 256 * bytes[6] = frame.command
      /\ bytes[7] + 256 * bytes[8] = n
      /\ \A i \in 1 .. n : bytes[i + 8] = frame.payload[i]
      /\ bytes[n + 9] = CheckSum(SubSeq(bytes, 4, n + 8))
  <2>1. Encodes(bytes, frame, n)
    BY FrameBytes
  <2> QED
    BY <2>1 DEF Encodes
<1>1. /\ bytes \in Seq(Byte) /\ Len(bytes) = n + 9 /\ n <= MSP_MAX_PAYLOAD
      /\ bytes[1] = DOLLAR /\ bytes[2] = LETTER_X /\ bytes[3] = LESS
      /\ bytes[7] + 256 * bytes[8] = n
  BY <1>0
<1>2. state \in States
  BY DEF TypeInv, TypeOK
<1>3. ASSUME k > 0
      PROVE  Len(heard) = k /\ \A i \in 1 .. k : heard[i] = bytes[i]
  <2> QED
    BY <1>1, <1>3, PrefixGrows, n + 9 \in Nat, k < n + 9
<1>4. state # "IDLE" => k > 0 /\ Len(heard) = k
  BY <1>3
<1>5. CASE state = "IDLE"
  <2>1. k = 0 /\ b = DOLLAR
    BY <1>1, <1>5
  <2> QED
    BY <1>5, <2>1, OneHandler, MarkOf
<1>6. CASE state = "X"
  <2>1. k = 1
    BY <1>4, <1>6 DEF HeardInv, Begun
  <2>2. b = LETTER_X
    BY <1>1, <2>1
  <2> QED
    BY <1>6, <2>2, OneHandler, MarkOf
<1>7. CASE state = "DIRECTION"
  <2>1. k = 2
    BY <1>4, <1>7 DEF HeardInv, Begun
  <2>2. b = LESS
    BY <1>1, <2>1
  <2> QED
    BY <1>7, <2>2, OneHandler, MarkOf
<1>8. CASE state \in {"FLAGS", "COMMAND_LO", "COMMAND_HI", "LENGTH_LO"}
  BY <1>8, OneHandler DEF ParseFlags, ParseCommand, ParseLengthLo
<1>9. CASE state = "LENGTH_HI"
  <2>1. Len(heard) = 7 /\ payload_length = heard[7]
    BY <1>9 DEF HeardInv, Begun
  <2>2. k = 7 /\ 7 \in 1 .. 7
    BY <1>4, <1>9, <2>1
  <2>3. heard[7] = bytes[7] /\ b = bytes[8]
    BY <1>3, <2>2
  <2>4. ParseLengthHi(b)
    BY <1>9, OneHandler
  <2>5. payload_length' = n
    BY <1>1, <2>1, <2>3, <2>4 DEF ParseLengthHi
  <2>6. ~(payload_length' > MSP_MAX_PAYLOAD)
    BY <1>1, <2>5, Limits
  <2> QED
    BY <2>4, <2>6 DEF ParseLengthHi
<1>10. CASE state = "PAYLOAD"
  BY <1>10, OneHandler DEF ParsePayload
<1>11. CASE state = "CRC"
  <2>1. /\ Len(heard) = 8 + offset /\ offset = payload_length
        /\ payload_length = heard[7] + 256 * heard[8]
    BY <1>11 DEF HeardInv, Begun
  <2>2. offset \in Nat
    BY DEF TypeInv, TypeOK
  <2>3. k = 8 + offset /\ k > 0
    BY <1>4, <1>11, <2>1
  <2>4. 7 \in 1 .. k /\ 8 \in 1 .. k
    BY <2>2, <2>3
  <2>5. heard[7] = bytes[7] /\ heard[8] = bytes[8]
    BY <1>3, <2>3, <2>4
  <2>6. offset = n
    BY <1>1, <2>1, <2>5
  <2> QED
    BY <2>3, <2>6
<1> QED
  BY <1>2, <1>5, <1>6, <1>7, <1>8, <1>9, <1>10, <1>11 DEF States

\* A byte of the frame brings the parser one byte on in it.
LEMMA OneFrameByte ==
  ASSUME TypeInv, HeardInv, NEW frame \in Frames, NEW bytes,
         bytes = msp_encode_v2(frame.command, frame.payload),
         NEW n \in Nat, n = Len(frame.payload),
         NEW k \in Nat, k < n + 9, k = 0 => state = "IDLE",
         k > 0 => heard = SubSeq(bytes, 1, k) /\ state # "IDLE",
         NEW b \in Byte, b = bytes[k + 1], msp_parser_consume(b)
  PROVE  heard' = SubSeq(bytes, 1, k + 1)
<1>0. /\ bytes \in Seq(Byte) /\ Len(bytes) = n + 9 /\ n <= MSP_MAX_PAYLOAD
      /\ bytes[1] = DOLLAR /\ bytes[2] = LETTER_X /\ bytes[3] = LESS
      /\ bytes[5] + 256 * bytes[6] = frame.command
      /\ bytes[7] + 256 * bytes[8] = n
      /\ \A i \in 1 .. n : bytes[i + 8] = frame.payload[i]
      /\ bytes[n + 9] = CheckSum(SubSeq(bytes, 4, n + 8))
  <2>1. Encodes(bytes, frame, n)
    BY FrameBytes
  <2> QED
    BY <2>1 DEF Encodes
<1>1. bytes \in Seq(Byte) /\ Len(bytes) = n + 9 /\ n <= MSP_MAX_PAYLOAD
  BY <1>0
<1>2. /\ SubSeq(bytes, 1, k) \in Seq(Byte) /\ Len(SubSeq(bytes, 1, k)) = k
      /\ SubSeq(bytes, 1, k + 1) = Append(SubSeq(bytes, 1, k), b)
  BY <1>1, PrefixGrows, n + 9 \in Nat
<1>3. CASE k = 0
  <2>1. heard' = <<b>>
    BY <1>3 DEF msp_parser_consume
  <2> DEFINE s == SubSeq(bytes, 1, k)
  <2>2. s = <<>>
    <3> HIDE DEF s
    <3>1. s \in Seq(Byte) /\ Len(s) = 0
      BY <1>2, <1>3 DEF s
    <3> QED
      BY <3>1
  <2> HIDE DEF s
  <2>3. Append(s, b) = <<b>>
    BY <2>2
  <2> QED
    BY <1>2, <2>1, <2>3 DEF s
<1>4. CASE k > 0
  <2>1. k < HEARD_MAX
    BY <1>1, Limits DEF HEARD_MAX
  <2>2. Len(heard) < HEARD_MAX
    BY <1>2, <1>4, <2>1
  <2> QED
    BY <1>2, <1>4, <2>2 DEF msp_parser_consume
<1> QED
  BY <1>3, <1>4

\* A byte of a clean frame leaves the frame clean.
LEMMA CleanOfDeliver ==
  ASSUME TypeInv, HeardInv, CleanInv, Deliver
  PROVE  CleanInv'
<1> SUFFICES ASSUME clean PROVE CleanInv'
  BY DEF CleanInv, Deliver
<1>1. sent \in Frames /\ sent' = sent /\ clean' = clean
  BY DEF TypeInv, TypeOK, Deliver
<1>2. PICK frame \in Frames : frame = sent
  BY <1>1
<1>3. PICK bytes : bytes = msp_encode_v2(frame.command, frame.payload)
  OBVIOUS
<1>4. PICK n \in Nat : n = Len(frame.payload)
  BY FrameBytes
<1>5. bytes \in Seq(Byte) /\ Len(bytes) = n + 9
  <2>1. Encodes(bytes, frame, n)
    BY <1>3, <1>4, FrameBytes
  <2> QED
    BY <2>1 DEF Encodes
<1>6. PICK k \in 0 .. n + 9 :
        /\ line = SubSeq(bytes, k + 1, n + 9)
        /\ k = 0 => state = "IDLE"
        /\ k > 0 => heard = SubSeq(bytes, 1, k)
        /\ k \in 1 .. n + 8 => state # "IDLE"
  <2>1. \E k \in 0 .. Len(bytes) : Heard(bytes, k)
    BY <1>2, <1>3 DEF CleanInv
  <2>2. (n + 9) - 1 = n + 8
    OBVIOUS
  <2> QED
    BY <1>5, <2>1, <2>2 DEF Heard
<1>7. PICK b : b = Head(line)
  OBVIOUS
<1>8. k \in Nat /\ k + 1 \in Nat /\ k <= n + 9 /\ n + 9 \in Nat
  OBVIOUS
<1>9. k < n + 9 /\ b = bytes[k + 1] /\ line' = SubSeq(bytes, k + 2, n + 9)
  <2>1. line # <<>> /\ line' = Tail(line)
    BY DEF Deliver
  <2> QED
    BY <1>5, <1>6, <1>7, <1>8, <2>1, SuffixShrinks
<1>10. b \in Byte /\ msp_parser_consume(b)
  <2>1. msp_parser_consume(b)
    BY <1>7 DEF Deliver
  <2> QED
    BY <1>5, <1>8, <1>9, <2>1
<1>11. k = 0 => state = "IDLE"
  BY <1>6
<1>12. k > 0 => heard = SubSeq(bytes, 1, k) /\ state # "IDLE"
  BY <1>6, <1>9
<1>13. heard' = SubSeq(bytes, 1, k + 1)
  BY <1>3, <1>4, <1>8, <1>9, <1>10, <1>11, <1>12, OneFrameByte
<1>14. k < n + 8 => state' # "IDLE"
  BY <1>3, <1>4, <1>8, <1>9, <1>10, <1>11, <1>12, WithinFrame
<1>15. \E m \in 0 .. Len(bytes) :
         /\ line' = SubSeq(bytes, m + 1, Len(bytes))
         /\ m = 0 => state' = "IDLE"
         /\ m > 0 => heard' = SubSeq(bytes, 1, m)
         /\ m \in 1 .. Len(bytes) - 1 => state' # "IDLE"
  <2> DEFINE m == k + 1
  <2>1. m \in 0 .. n + 9 /\ m + 1 = k + 2 /\ m # 0 /\ (m \in 1 .. (n + 9) - 1 => k < n + 8)
    BY <1>8, <1>9
  <2>2. heard' = SubSeq(bytes, 1, m)
    BY <1>13
  <2> HIDE DEF m
  <2>3. line' = SubSeq(bytes, m + 1, n + 9)
    BY <1>9, <2>1
  <2> QED
    BY <1>5, <1>14, <2>1, <2>2, <2>3
<1> QED
  BY <1>1, <1>2, <1>3, <1>15 DEF CleanInv, Heard

\* What a clean frame leaves behind is the frame, accepted.
LEMMA CleanShows ==
  ASSUME TypeInv, HeardInv, CleanInv
  PROVE  CleanFrameIsAccepted
<1> SUFFICES ASSUME clean, line = <<>> PROVE accepted /\ Received = sent
  BY DEF CleanFrameIsAccepted
<1>2. PICK frame \in Frames : frame = sent
  BY DEF TypeInv, TypeOK
<1>3. PICK bytes : bytes = msp_encode_v2(frame.command, frame.payload)
  OBVIOUS
<1>4. PICK n \in Nat : n = Len(frame.payload)
  BY FrameBytes
<1>5. /\ bytes \in Seq(Byte) /\ Len(bytes) = n + 9 /\ n <= MSP_MAX_PAYLOAD
      /\ bytes[7] + 256 * bytes[8] = n
  <2>1. Encodes(bytes, frame, n)
    BY <1>3, <1>4, FrameBytes
  <2> QED
    BY <2>1 DEF Encodes
<1>6. PICK k \in 0 .. n + 9 :
        /\ line = SubSeq(bytes, k + 1, n + 9)
        /\ k > 0 => heard = SubSeq(bytes, 1, k)
  <2>1. \E k \in 0 .. Len(bytes) : Heard(bytes, k)
    BY <1>2, <1>3 DEF CleanInv
  <2> QED
    BY <1>5, <2>1 DEF Heard
<1>7. k = n + 9
  <2>1. k \in Nat /\ k <= n + 9 /\ n + 9 \in Nat
    OBVIOUS
  <2> QED
    BY <1>5, <1>6, <2>1, SuffixShrinks
<1>8. heard = bytes
  <2> DEFINE s == SubSeq(bytes, 1, n + 9)
  <2>1. s \in Seq(Byte) /\ Len(s) = n + 9 /\ \A i \in 1 .. n + 9 : s[i] = bytes[i]
    BY <1>5
  <2>2. heard = s
    BY <1>6, <1>7
  <2> HIDE DEF s
  <2>3. s = bytes
    BY <1>5, <2>1, SeqEqual
  <2> QED
    BY <2>2, <2>3
<1>9. state = "IDLE"
  <2>1. state \in States /\ offset \in Nat /\ payload_length \in Nat
    BY Widths DEF TypeInv, TypeOK
  <2>2. Len(heard) = n + 9 /\ heard[7] + 256 * heard[8] = n
    BY <1>5, <1>8
  <2>3. state \notin {"X", "DIRECTION", "FLAGS", "COMMAND_LO", "COMMAND_HI", "LENGTH_LO", "LENGTH_HI"}
    BY <2>2 DEF HeardInv, Begun
  <2>4. ASSUME state \in {"PAYLOAD", "CRC"} PROVE FALSE
    <3>1. Len(heard) = 8 + offset /\ payload_length = n
      BY <2>2, <2>4 DEF HeardInv, Begun
    <3>2. offset <= payload_length
      BY <2>1, <2>4 DEF HeardInv, TypeInv, PayloadFits
    <3> QED
      BY <2>1, <2>2, <3>1, <3>2
  <2> QED
    BY <2>1, <2>3, <2>4 DEF States
<1>10. /\ IsFrame(bytes)
       /\ frame = [command |-> bytes[5] + 256 * bytes[6],
                   payload |-> SubSeq(bytes, 9, Len(bytes) - 1)]
  BY <1>3, EncodedIsFrame
<1>11. accepted
  BY <1>8, <1>9, <1>10 DEF HeardInv
<1>12. Received = [command |-> heard[5] + 256 * heard[6],
                   payload |-> SubSeq(heard, 9, Len(heard) - 1)]
  BY <1>11 DEF HeardInv
<1> QED
  BY <1>2, <1>8, <1>10, <1>11, <1>12

-----------------------------------------------------------------------------
(* The steps. *)

\* The parser starts having heard nothing, with no frame on the line.
LEMMA InvariantAtStart == Init => IInv
<1> SUFFICES ASSUME Init PROVE IInv
  OBVIOUS
<1>1. TypeInv
  BY TypesAtStart
<1>2. state = "IDLE" /\ ~accepted /\ heard = <<>> /\ ~clean
  BY DEF Init
<1>3. ~IsFrame(heard)
  <2>1. heard \in Seq(Byte) /\ Len(heard) = 0
    BY <1>2
  <2>2. Len(heard) < 9
    BY <2>1
  <2> QED
    BY <2>1, <2>2, ShortIsNoFrame
<1> QED
  BY <1>1, <1>2, <1>3 DEF IInv, HeardInv, CleanInv

\* Every step preserves the invariant.
LEMMA Inductive == IInv /\ [Next]_vars => IInv'
<1> SUFFICES ASSUME IInv, [Next]_vars PROVE IInv'
  OBVIOUS
<1>1. TypeInv /\ HeardInv /\ CleanInv
  BY DEF IInv
<1>2. TypeInv'
  BY <1>1, TypesKept
<1>3. UNCHANGED <<parser, accepted, heard>> => HeardInv'
  BY <1>1 DEF HeardInv, Begun, CommandHeard, Received, parser
<1>4. ~clean' => CleanInv'
  BY DEF CleanInv
<1>5. CASE SendFrame
  <2>1. HeardInv'
    BY <1>3, <1>5 DEF SendFrame
  <2>2. CleanInv'
    BY <1>1, <1>5, CleanOfSend
  <2> QED
    BY <1>2, <2>1, <2>2 DEF IInv
<1>6. CASE Deliver
  <2>1. Head(line) \in Byte /\ msp_parser_consume(Head(line))
    <3>1. line \in Seq(Byte) /\ line # <<>>
      BY <1>1, <1>6 DEF TypeInv, TypeOK, Deliver
    <3> QED
      BY <1>6, <3>1 DEF Deliver
  <2>2. HeardInv'
    BY <1>1, <2>1, HeardOfConsume
  <2>3. CleanInv'
    BY <1>1, <1>6, CleanOfDeliver
  <2> QED
    BY <1>2, <2>2, <2>3 DEF IInv
<1>7. CASE Interfere
  <2>1. PICK b \in Byte : msp_parser_consume(b)
    BY <1>7, Limits DEF Interfere
  <2>2. HeardInv'
    BY <1>1, <2>1, HeardOfConsume
  <2>3. CleanInv'
    BY <1>4, <1>7 DEF Interfere, Disturbed
  <2> QED
    BY <1>2, <2>2, <2>3 DEF IInv
<1>8. CASE Lose
  <2>1. HeardInv'
    BY <1>3, <1>8 DEF Lose
  <2>2. CleanInv'
    BY <1>4, <1>8 DEF Lose, Disturbed
  <2> QED
    BY <1>2, <2>1, <2>2 DEF IInv
<1>9. CASE UNCHANGED vars
  <2>1. HeardInv'
    BY <1>3, <1>9 DEF vars
  <2>2. CleanInv'
    BY <1>1, <1>9 DEF vars, parser, CleanInv, Heard
  <2> QED
    BY <1>2, <2>1, <2>2 DEF IInv
<1> QED
  BY <1>5, <1>6, <1>7, <1>8, <1>9 DEF Next

-----------------------------------------------------------------------------
(* What the check sum is worth. *)

\* A byte is the sum of its bits.
LEMMA ByteOfBits ==
  \A a \in Byte :
    /\ \A w \in {1, 2, 4, 8, 16, 32, 64, 128} : Bit(a, w) \in {0, 1}
    /\ a = Bit(a, 1) + 2 * Bit(a, 2) + 4 * Bit(a, 4) + 8 * Bit(a, 8)
           + 16 * Bit(a, 16) + 32 * Bit(a, 32) + 64 * Bit(a, 64) + 128 * Bit(a, 128)
<1> TAKE a \in Byte
<1>1. \A n \in Nat : n % 2 \in {0, 1} /\ n \div 2 \in Nat /\ n = 2 * (n \div 2) + (n % 2)
  OBVIOUS
<1>2. /\ a \div 1 = a /\ a \div 4 = (a \div 2) \div 2 /\ a \div 8 = (a \div 4) \div 2
      /\ a \div 16 = (a \div 8) \div 2 /\ a \div 32 = (a \div 16) \div 2
      /\ a \div 64 = (a \div 32) \div 2 /\ a \div 128 = (a \div 64) \div 2
      /\ (a \div 128) \div 2 = 0
  BY DEF Byte
<1>3. /\ a \in Nat /\ a \div 2 \in Nat /\ a \div 4 \in Nat /\ a \div 8 \in Nat /\ a \div 16 \in Nat
      /\ a \div 32 \in Nat /\ a \div 64 \in Nat /\ a \div 128 \in Nat
  BY DEF Byte
<1>4. /\ Bit(a, 1) = a % 2 /\ Bit(a, 2) = (a \div 2) % 2 /\ Bit(a, 4) = (a \div 4) % 2
      /\ Bit(a, 8) = (a \div 8) % 2 /\ Bit(a, 16) = (a \div 16) % 2
      /\ Bit(a, 32) = (a \div 32) % 2 /\ Bit(a, 64) = (a \div 64) % 2
      /\ Bit(a, 128) = (a \div 128) % 2
  BY <1>2 DEF Bit
<1>5. /\ Bit(a, 1) \in {0, 1} /\ Bit(a, 2) \in {0, 1} /\ Bit(a, 4) \in {0, 1}
      /\ Bit(a, 8) \in {0, 1} /\ Bit(a, 16) \in {0, 1} /\ Bit(a, 32) \in {0, 1}
      /\ Bit(a, 64) \in {0, 1} /\ Bit(a, 128) \in {0, 1}
  BY <1>1, <1>3, <1>4
<1>6. /\ a = 2 * (a \div 2) + Bit(a, 1) /\ a \div 2 = 2 * (a \div 4) + Bit(a, 2)
      /\ a \div 4 = 2 * (a \div 8) + Bit(a, 4) /\ a \div 8 = 2 * (a \div 16) + Bit(a, 8)
      /\ a \div 16 = 2 * (a \div 32) + Bit(a, 16) /\ a \div 32 = 2 * (a \div 64) + Bit(a, 32)
      /\ a \div 64 = 2 * (a \div 128) + Bit(a, 64) /\ a \div 128 = 0 + Bit(a, 128)
  <2>1. \A n \in Nat : n = 2 * (n \div 2) + (n % 2)
    BY <1>1
  <2> QED
    BY <1>2, <1>3, <1>4, <2>1
<1>7. a = Bit(a, 1) + 2 * Bit(a, 2) + 4 * Bit(a, 4) + 8 * Bit(a, 8)
          + 16 * Bit(a, 16) + 32 * Bit(a, 32) + 64 * Bit(a, 64) + 128 * Bit(a, 128)
  <2>1. a \div 32 = Bit(a, 32) + 2 * Bit(a, 64) + 4 * Bit(a, 128)
    BY <1>5, <1>6
  <2>2. a \div 8 = Bit(a, 8) + 2 * Bit(a, 16) + 4 * Bit(a, 32) + 8 * Bit(a, 64) + 16 * Bit(a, 128)
    BY <1>5, <1>6, <2>1
  <2>3. a = Bit(a, 1) + 2 * Bit(a, 2) + 4 * Bit(a, 4) + 8 * (a \div 8)
    <3> DEFINE half == a \div 2
               quarter == a \div 4
               eighth == a \div 8
    <3>1. /\ half \in Nat /\ quarter \in Nat /\ eighth \in Nat /\ a = 2 * half + Bit(a, 1)
          /\ half = 2 * quarter + Bit(a, 2) /\ quarter = 2 * eighth + Bit(a, 4)
      BY <1>3, <1>6
    <3> HIDE DEF half, quarter, eighth
    <3>2. a = Bit(a, 1) + 2 * Bit(a, 2) + 4 * Bit(a, 4) + 8 * eighth
      BY <1>5, <3>1
    <3> QED
      BY <3>2 DEF eighth
  <2> QED
    BY <1>5, <2>2, <2>3
<1> QED
  BY <1>5, <1>7

\* An exclusive or with one byte loses nothing of the other.
LEMMA XorLosesNothing ==
  ASSUME NEW a \in Byte, NEW b \in Byte, NEW c \in Byte
  PROVE  /\ Xor(a, c) = Xor(b, c) => a = b
         /\ Xor(c, a) = Xor(c, b) => a = b
<1>1. Xor(c, a) = Xor(a, c) /\ Xor(c, b) = Xor(b, c)
  <2>1. \A x, y, w : Differ(x, y, w) = Differ(y, x, w)
    BY DEF Differ
  <2>2. /\ \A w : Differ(c, a, w) = Differ(a, c, w)
        /\ \A w : Differ(c, b, w) = Differ(b, c, w)
    BY <2>1
  <2> QED
    BY <2>2 DEF Xor
<1>2. ASSUME Xor(a, c) = Xor(b, c) PROVE a = b
  <2> DEFINE s1(x) == Differ(x, c, 1)
             s2(x) == s1(x) + Differ(x, c, 2)
             s3(x) == s2(x) + Differ(x, c, 4)
             s4(x) == s3(x) + Differ(x, c, 8)
             s5(x) == s4(x) + Differ(x, c, 16)
             s6(x) == s5(x) + Differ(x, c, 32)
             s7(x) == s6(x) + Differ(x, c, 64)
             s8(x) == s7(x) + Differ(x, c, 128)
  <2>0. \A w : Differ(a, c, w) \in {0, w} /\ Differ(b, c, w) \in {0, w}
    BY Zenon DEF Differ
  <2>1. s1(a) \in 0 .. 1 /\ s1(b) \in 0 .. 1
    BY <2>0
  <2>2. s8(a) = s8(b)
    BY <1>2, Zenon DEF Xor
  <2> HIDE DEF s1
  <2>3. /\ s2(a) \in 0 .. 3 /\ s2(b) \in 0 .. 3
        /\ s2(a) = s2(b) => s1(a) = s1(b) /\ Differ(a, c, 2) = Differ(b, c, 2)
    BY <2>0, <2>1
  <2> HIDE DEF s2
  <2>4. /\ s3(a) \in 0 .. 7 /\ s3(b) \in 0 .. 7
        /\ s3(a) = s3(b) => s2(a) = s2(b) /\ Differ(a, c, 4) = Differ(b, c, 4)
    BY <2>0, <2>3
  <2> HIDE DEF s3
  <2>5. /\ s4(a) \in 0 .. 15 /\ s4(b) \in 0 .. 15
        /\ s4(a) = s4(b) => s3(a) = s3(b) /\ Differ(a, c, 8) = Differ(b, c, 8)
    BY <2>0, <2>4
  <2> HIDE DEF s4
  <2>6. /\ s5(a) \in 0 .. 31 /\ s5(b) \in 0 .. 31
        /\ s5(a) = s5(b) => s4(a) = s4(b) /\ Differ(a, c, 16) = Differ(b, c, 16)
    BY <2>0, <2>5
  <2> HIDE DEF s5
  <2>7. /\ s6(a) \in 0 .. 63 /\ s6(b) \in 0 .. 63
        /\ s6(a) = s6(b) => s5(a) = s5(b) /\ Differ(a, c, 32) = Differ(b, c, 32)
    BY <2>0, <2>6
  <2> HIDE DEF s6
  <2>8. /\ s7(a) \in 0 .. 127 /\ s7(b) \in 0 .. 127
        /\ s7(a) = s7(b) => s6(a) = s6(b) /\ Differ(a, c, 64) = Differ(b, c, 64)
    BY <2>0, <2>7
  <2> HIDE DEF s7
  <2>9. /\ s8(a) \in 0 .. 255 /\ s8(b) \in 0 .. 255
        /\ s8(a) = s8(b) => s7(a) = s7(b) /\ Differ(a, c, 128) = Differ(b, c, 128)
    <3>1. PICK x \in 0 .. 127, y \in 0 .. 127 : x = s7(a) /\ y = s7(b)
      BY <2>8
    <3>2. PICK u \in {0, 128}, v \in {0, 128} : u = Differ(a, c, 128) /\ v = Differ(b, c, 128)
      BY <2>0
    <3>3. /\ x + u \in 0 .. 255 /\ y + v \in 0 .. 255
          /\ x + u = y + v => x = y /\ u = v
      OBVIOUS
    <3> QED
      BY <3>1, <3>2, <3>3
  <2> HIDE DEF s8
  <2>10. s1(a) = s1(b) => Differ(a, c, 1) = Differ(b, c, 1)
    BY DEF s1
  <2>11. ASSUME NEW w \in {1, 2, 4, 8, 16, 32, 64, 128}
         PROVE  Differ(a, c, w) = Differ(b, c, w)
    BY <2>2, <2>3, <2>4, <2>5, <2>6, <2>7, <2>8, <2>9, <2>10
  <2>12. ASSUME NEW w \in {1, 2, 4, 8, 16, 32, 64, 128}
         PROVE  Bit(a, w) = Bit(b, w)
    <3>1. w # 0
      OBVIOUS
    <3>2. Bit(a, w) = Bit(c, w) <=> Bit(b, w) = Bit(c, w)
      <4>1. Differ(a, c, w) = Differ(b, c, w)
        BY <2>11
      <4>2. Differ(a, c, w) = (IF Bit(a, w) = Bit(c, w) THEN 0 ELSE w)
        BY Zenon DEF Differ
      <4>3. Differ(b, c, w) = (IF Bit(b, w) = Bit(c, w) THEN 0 ELSE w)
        BY Zenon DEF Differ
      <4> QED
        BY <3>1, <4>1, <4>2, <4>3
    <3>3. Bit(a, w) \in {0, 1} /\ Bit(b, w) \in {0, 1} /\ Bit(c, w) \in {0, 1}
      BY ByteOfBits
    <3> QED
      BY <3>2, <3>3
  <2>13. /\ Bit(a, 1) = Bit(b, 1) /\ Bit(a, 2) = Bit(b, 2) /\ Bit(a, 4) = Bit(b, 4)
         /\ Bit(a, 8) = Bit(b, 8) /\ Bit(a, 16) = Bit(b, 16) /\ Bit(a, 32) = Bit(b, 32)
         /\ Bit(a, 64) = Bit(b, 64) /\ Bit(a, 128) = Bit(b, 128)
    BY <2>12
  <2>14. /\ a = Bit(a, 1) + 2 * Bit(a, 2) + 4 * Bit(a, 4) + 8 * Bit(a, 8)
               + 16 * Bit(a, 16) + 32 * Bit(a, 32) + 64 * Bit(a, 64) + 128 * Bit(a, 128)
        /\ b = Bit(b, 1) + 2 * Bit(b, 2) + 4 * Bit(b, 4) + 8 * Bit(b, 8)
               + 16 * Bit(b, 16) + 32 * Bit(b, 32) + 64 * Bit(b, 64) + 128 * Bit(b, 128)
    BY ByteOfBits
  <2> QED
    BY <2>13, <2>14
<1> QED
  BY <1>1, <1>2

\* A shift loses nothing either: what came from a byte of 128 or more is odd.
LEMMA ShiftLosesNothing ==
  ASSUME NEW a \in Byte, NEW b \in Byte, ShiftOnce(a) = ShiftOnce(b)
  PROVE  a = b
<1>1. ASSUME NEW c \in Byte, c >= 128
      PROVE  ShiftOnce(c) = Xor(2 * c - 256, 213) /\ 2 * c - 256 \in Byte
  BY <1>1 DEF ShiftOnce, Byte
<1>2. ASSUME NEW c \in Byte, c < 128
      PROVE  ShiftOnce(c) = 2 * c /\ ShiftOnce(c) % 2 = 0
  BY <1>2 DEF ShiftOnce, Byte
<1>3. ASSUME NEW c \in Byte, c >= 128
      PROVE  ShiftOnce(c) % 2 = 1
  <2> DEFINE d == 2 * c - 256
  <2>1. ShiftOnce(c) = Xor(d, 213) /\ d \in Byte /\ d % 2 = 0
    BY <1>1, <1>3 DEF Byte
  <2> HIDE DEF d
  <2>2. /\ Differ(d, 213, 2) \in {0, 2}
        /\ Differ(d, 213, 4) \in {0, 4} /\ Differ(d, 213, 8) \in {0, 8}
        /\ Differ(d, 213, 16) \in {0, 16} /\ Differ(d, 213, 32) \in {0, 32}
        /\ Differ(d, 213, 64) \in {0, 64} /\ Differ(d, 213, 128) \in {0, 128}
    <3>1. \A w : Differ(d, 213, w) \in {0, w}
      BY Zenon DEF Differ
    <3> QED
      BY <3>1
  <2>3. Differ(d, 213, 1) = 1
    <3>1. Bit(d, 1) = 0
      <4>1. d \in Nat /\ d \div 1 = d
        BY <2>1 DEF Byte
      <4> QED
        BY <2>1, <4>1 DEF Bit
    <3>2. Bit(213, 1) = 1
      BY DEF Bit
    <3>3. 0 # 1
      OBVIOUS
    <3> QED
      BY <3>1, <3>2, <3>3, Zenon DEF Differ
  <2> QED
    BY <2>1, <2>2, <2>3 DEF Xor
<1>4. a >= 128 <=> b >= 128
  <2>1. /\ a >= 128 \/ a < 128
        /\ b >= 128 \/ b < 128
    BY DEF Byte
  <2>2. /\ a >= 128 => ShiftOnce(a) % 2 = 1
        /\ b >= 128 => ShiftOnce(b) % 2 = 1
    BY <1>3
  <2>3. /\ a < 128 => ShiftOnce(a) % 2 = 0
        /\ b < 128 => ShiftOnce(b) % 2 = 0
    BY <1>2
  <2> QED
    BY <2>1, <2>2, <2>3
<1>5. CASE a >= 128
  <2> DEFINE x == 2 * a - 256
             y == 2 * b - 256
  <2>1. ShiftOnce(a) = Xor(x, 213) /\ x \in Byte
    BY <1>1, <1>5
  <2>2. ShiftOnce(b) = Xor(y, 213) /\ y \in Byte
    BY <1>1, <1>4, <1>5
  <2>3. 213 \in Byte
    BY DEF Byte
  <2> HIDE DEF x, y
  <2>4. x = y
    <3>1. Xor(x, 213) = Xor(y, 213)
      BY <2>1, <2>2
    <3>2. \A u, v \in Byte : Xor(u, 213) = Xor(v, 213) => u = v
      BY <2>3, XorLosesNothing
    <3> QED
      BY <2>1, <2>2, <3>1, <3>2
  <2>5. 2 * a - 256 = 2 * b - 256
    BY <2>4 DEF x, y
  <2>6. a \in Nat /\ b \in Nat
    BY DEF Byte
  <2> QED
    BY <2>5, <2>6
<1>6. CASE a < 128
  <2>1. b < 128
    BY <1>4, <1>6 DEF Byte
  <2>2. ShiftOnce(a) = 2 * a /\ ShiftOnce(b) = 2 * b
    BY <1>2, <1>6, <2>1
  <2>3. 2 * a = 2 * b
    BY <2>2
  <2> QED
    BY <2>3 DEF Byte
<1> QED
  BY <1>5, <1>6 DEF Byte

\* msp.c:8-11: a turn of the check sum loses nothing of the sum or of the byte.
LEMMA CrcLosesNothing ==
  ASSUME NEW a \in Byte, NEW b \in Byte, NEW c \in Byte
  PROVE  /\ msp_crc8_dvb_s2(a, c) = msp_crc8_dvb_s2(b, c) => a = b
         /\ msp_crc8_dvb_s2(c, a) = msp_crc8_dvb_s2(c, b) => a = b
<1> DEFINE Twice(x) == ShiftOnce(ShiftOnce(x))
           Often(x) == Twice(Twice(x))
<1>1. \A x \in Byte : Twice(x) \in Byte
  BY ShiftIsByte
<1>2. \A x, y \in Byte : Twice(x) = Twice(y) => x = y
  BY ShiftIsByte, ShiftLosesNothing
<1>3. \A x \in Byte : Crc8Table[x] = Often(Often(x))
  BY Zenon DEF Crc8Table
<1> HIDE DEF Twice
<1>4. \A x, y \in Byte : Often(x) \in Byte /\ (Often(x) = Often(y) => x = y)
  BY <1>1, <1>2
<1> HIDE DEF Often
<1>5. \A x, y \in Byte : Crc8Table[x] = Crc8Table[y] => x = y
  BY <1>3, <1>4
<1> QED
  BY <1>5, XorIsByte, XorLosesNothing DEF msp_crc8_dvb_s2

\* Two sequences of bytes that differ in one place.
OneByteApart(a, b) ==
  /\ Len(a) = Len(b)
  /\ \E i \in 1 .. Len(a) : a[i] # b[i] /\ \A j \in 1 .. Len(a) : j # i => a[j] = b[j]

\* They have different sums from there on.
LEMMA CheckSumTells ==
  ASSUME NEW a \in Seq(Byte), NEW b \in Seq(Byte), OneByteApart(a, b)
  PROVE  CheckSum(a) # CheckSum(b)
<1> DEFINE m == Len(a)
<1>1. m \in Nat /\ \A n \in 1 .. m : a[n] \in Byte /\ b[n] \in Byte
  BY DEF OneByteApart
<1>2. PICK i \in 1 .. m : a[i] # b[i] /\ \A j \in 1 .. m : j # i => a[j] = b[j]
  BY DEF OneByteApart
<1>3. PICK f : Sums(f, a, m) /\ CheckSum(a) = f[m]
  BY CheckSumIsLast
<1>4. PICK g : Sums(g, b, m) /\ CheckSum(b) = g[m]
  <2>1. Len(b) = m
    BY DEF OneByteApart
  <2> QED
    BY <2>1, CheckSumIsLast
<1> HIDE DEF m
<1>5. /\ \A n \in 0 .. m : f[n] = IF n = 0 THEN 0 ELSE msp_crc8_dvb_s2(f[n - 1], a[n])
      /\ \A n \in 0 .. m : g[n] = IF n = 0 THEN 0 ELSE msp_crc8_dvb_s2(g[n - 1], b[n])
  BY <1>3, <1>4, Zenon DEF Sums
<1>6. \A n \in 0 .. m : f[n] \in Byte /\ g[n] \in Byte
  <2>1. 0 \in Byte
    BY DEF Byte
  <2> QED
    BY <1>5, <2>1, CrcIsByte
<1> DEFINE T == {n \in Nat : n <= m => (f[n] = g[n] <=> n < i)}
<1>7. 0 \in T
  BY <1>1, <1>2, <1>5
<1>8. ASSUME NEW n \in T PROVE n + 1 \in T
  <2>1. n \in Nat /\ n + 1 \in Nat
    OBVIOUS
  <2>2. ASSUME n + 1 <= m PROVE f[n + 1] = g[n + 1] <=> n + 1 < i
    <3>1. /\ n \in 0 .. m /\ n + 1 \in 0 .. m /\ n + 1 \in 1 .. m /\ n + 1 # 0 /\ n + 1 - 1 = n
          /\ f[n] = g[n] <=> n < i
      BY <1>1, <2>1, <2>2
    <3>2. /\ f[n + 1] = msp_crc8_dvb_s2(f[n], a[n + 1])
          /\ g[n + 1] = msp_crc8_dvb_s2(g[n], b[n + 1])
      BY <1>5, <3>1
    <3>3. f[n] \in Byte /\ g[n] \in Byte /\ a[n + 1] \in Byte /\ b[n + 1] \in Byte
      BY <1>1, <1>6, <3>1
    <3>4. CASE n + 1 = i
      <4>1. f[n] = g[n] /\ a[n + 1] # b[n + 1]
        BY <1>2, <3>1, <3>4
      <4> QED
        BY <3>2, <3>3, <3>4, <4>1, CrcLosesNothing
    <3>5. CASE n + 1 # i
      <4>1. a[n + 1] = b[n + 1] /\ (n < i <=> n + 1 < i)
        BY <1>2, <3>1, <3>5
      <4> QED
        BY <3>1, <3>2, <3>3, <4>1, CrcLosesNothing
    <3> QED
      BY <3>4, <3>5
  <2> QED
    BY <2>1, <2>2
<1> HIDE DEF T
<1>9. T = Nat
  BY <1>7, <1>8, Induction, T \subseteq Nat DEF T
<1>10. f[m] # g[m]
  BY <1>1, <1>2, <1>9 DEF T
<1> QED
  BY <1>3, <1>4, <1>10

\* A frame with one byte changed is no frame.
LEMMA OneByteSpoils ==
  ASSUME NEW a \in Seq(Byte), NEW b \in Seq(Byte), IsFrame(a), OneByteApart(a, b)
  PROVE  ~IsFrame(b)
<1> SUFFICES ASSUME IsFrame(b) PROVE FALSE
  OBVIOUS
<1> DEFINE m == Len(a)
           s == SubSeq(a, 4, m - 1)
           t == SubSeq(b, 4, m - 1)
<1>1. /\ m \in Nat /\ m >= 9 /\ Len(b) = m
      /\ SubSeq(a, 1, 3) = SubSeq(b, 1, 3) /\ a[m] = CheckSum(s) /\ b[m] = CheckSum(t)
  <2>1. m \in Nat /\ m >= 9 /\ Len(b) = m
    BY DEF IsFrame, OneByteApart
  <2>2. SubSeq(a, 1, 3) = SubSeq(b, 1, 3)
    BY Zenon DEF IsFrame
  <2>3. a[m] = CheckSum(s)
    BY Zenon DEF IsFrame
  <2>4. b[m] = CheckSum(t)
    <3>1. b[Len(b)] = CheckSum(SubSeq(b, 4, Len(b) - 1))
      BY Zenon DEF IsFrame
    <3> QED
      BY <2>1, <3>1
  <2> QED
    BY <2>1, <2>2, <2>3, <2>4
<1>2. PICK i \in 1 .. m : a[i] # b[i] /\ \A j \in 1 .. m : j # i => a[j] = b[j]
  BY DEF OneByteApart
<1>3. \A j \in 1 .. 3 : SubSeq(a, 1, 3)[j] = a[j] /\ SubSeq(b, 1, 3)[j] = b[j]
  BY <1>1
<1>4. /\ s \in Seq(Byte) /\ Len(s) = m - 4 /\ \A j \in 1 .. m - 4 : s[j] = a[j + 3]
      /\ t \in Seq(Byte) /\ Len(t) = m - 4 /\ \A j \in 1 .. m - 4 : t[j] = b[j + 3]
  BY <1>1
<1> HIDE DEF m, s, t
<1>5. i > 3
  BY <1>1, <1>2, <1>3
<1>6. i # m
  <2> SUFFICES ASSUME i = m PROVE FALSE
    OBVIOUS
  <2>1. ASSUME NEW j \in 1 .. m - 4 PROVE s[j] = t[j]
    <3>1. j + 3 \in 1 .. m /\ j + 3 # m
      BY <1>1
    <3> QED
      BY <1>2, <1>4, <3>1
  <2>2. s = t
    BY <1>4, <2>1, SeqEqual
  <2> QED
    BY <1>1, <1>2, <2>2
<1>7. OneByteApart(s, t)
  <2>1. i - 3 \in 1 .. m - 4 /\ i - 3 + 3 = i
    BY <1>1, <1>5, <1>6
  <2>2. s[i - 3] # t[i - 3]
    BY <1>2, <1>4, <2>1
  <2>3. ASSUME NEW j \in 1 .. m - 4, j # i - 3 PROVE s[j] = t[j]
    <3>1. j + 3 \in 1 .. m /\ j + 3 # i
      BY <1>1, <2>1, <2>3
    <3> QED
      BY <1>2, <1>4, <3>1
  <2> QED
    BY <1>4, <2>1, <2>2, <2>3 DEF OneByteApart
<1>8. CheckSum(s) # CheckSum(t)
  BY <1>4, <1>7, CheckSumTells
<1>9. a[m] = b[m]
  BY <1>1, <1>2, <1>6
<1> QED
  BY <1>1, <1>8, <1>9

-----------------------------------------------------------------------------
(* The theorems. *)

\* The inductive invariant holds of every behaviour of the parser and its line.
THEOREM Invariant == Spec => []IInv
<1>1. Init => IInv
  BY InvariantAtStart
<1>2. IInv /\ [Next]_vars => IInv'
  BY Inductive
<1> QED
  BY <1>1, <1>2, PTL DEF Spec

\* The parser's fields keep their widths: a command and a length their 16 bits,
\* an offset the array, a check sum its byte (msp.h:11-27).
THEOREM TypeCorrect == Spec => []TypeOK
<1>1. IInv => TypeOK
  BY DEF IInv, TypeInv
<1> QED
  BY <1>1, Invariant, PTL

\* No byte is stored outside the payload, and a payload that has begun ends
\* (msp.c:73-78).
THEOREM PayloadIsSafe == Spec => []PayloadFits
<1>1. IInv => PayloadFits
  BY DEF IInv, TypeInv
<1> QED
  BY <1>1, Invariant, PTL

\* Whatever bytes came before, in whatever order and with whatever noise among
\* them, the parser accepts at a byte exactly if the bytes since it was last idle
\* are a frame, and then hands out the command and the payload they carry
\* (msp.c:61-86).
THEOREM ExactlyFrames == Spec => []AcceptsExactlyFrames
<1>1. IInv => AcceptsExactlyFrames
  BY HeardShows DEF IInv
<1> QED
  BY <1>1, Invariant, PTL

\* What the encoder wrote and an idle parser heard whole is accepted at its last
\* byte, with the command and the payload that were sent (msp.c:22-34,61-86).
THEOREM CleanIsAccepted == Spec => []CleanFrameIsAccepted
<1>1. IInv => CleanFrameIsAccepted
  BY CleanShows DEF IInv
<1> QED
  BY <1>1, Invariant, PTL

\* A frame that is sent, with one byte changed on its way, is not what was accepted:
\* the check sum or the layout tells (msp.c:8-11,63-84).
CorruptionIsSeen ==
  accepted => \A frame \in Frames :
                ~OneByteApart(msp_encode_v2(frame.command, frame.payload), heard)

\* What the parser accepts is never a frame of the peer with one byte changed, be it
\* of the mark, of the header, of the payload or the check sum (msp.c:8-11,63-84).
THEOREM OneByteIsSeen == Spec => []CorruptionIsSeen
<1>1. IInv => CorruptionIsSeen
  <2> SUFFICES ASSUME IInv, accepted, NEW frame \in Frames, NEW bytes,
                      bytes = msp_encode_v2(frame.command, frame.payload)
               PROVE  ~OneByteApart(bytes, heard)
    BY Zenon DEF CorruptionIsSeen
  <2>1. IsFrame(heard) /\ heard \in Seq(Byte)
    <3>1. AcceptsExactlyFrames
      BY HeardShows DEF IInv
    <3>2. IsFrame(heard)
      BY <3>1 DEF AcceptsExactlyFrames
    <3>3. heard \in Seq(Byte)
      BY DEF IInv, TypeInv, TypeOK
    <3> QED
      BY <3>2, <3>3
  <2>2. bytes \in Seq(Byte)
    <3>1. Encodes(bytes, frame, Len(frame.payload))
      BY FrameBytes
    <3> QED
      BY <3>1 DEF Encodes
  <2>3. IsFrame(bytes)
    BY EncodedIsFrame
  <2> QED
    BY <2>1, <2>2, <2>3, OneByteSpoils
<1> QED
  BY <1>1, Invariant, PTL
=============================================================================
