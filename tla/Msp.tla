--------------------------------- MODULE Msp ---------------------------------
(***************************************************************************)
(* The MSP V2 codec (protocol/msp.c): the encoder of a frame and the       *)
(* parser that the main loop feeds one received byte at a time             *)
(* (main.c:60), against a line that carries frames and noise, and on which *)
(* bytes are corrupted, inserted and lost (platform.c:175 drops a byte     *)
(* that finds the ring full).                                              *)
(***************************************************************************)
EXTENDS Integers, Sequences

CONSTANTS
  MSP_MAX_PAYLOAD,   \* msp.h:9
  Frames,            \* the frames the peer sends: command and payload
  Noise,             \* the bytes noise is made of
  NOISE_MAX          \* bound: events of noise and loss

Byte == 0 .. 255
Word == {n \in Nat : n < 65536}
DOLLAR == 36   LETTER_X == 88   LESS == 60   \* '$', 'X' and '<'

ASSUME MspAssumption ==
  /\ MSP_MAX_PAYLOAD \in Word \ {0}
  /\ Noise \subseteq Byte /\ NOISE_MAX \in Nat
  /\ Frames \subseteq [command : Word, payload : Seq(Byte)]
  /\ \A frame \in Frames : Len(frame.payload) <= MSP_MAX_PAYLOAD

VARIABLES
  state, command, payload_length, payload, offset, crc,   \* msp_parser_t
  accepted,          \* what msp_parser_consume returned for the last byte
  heard,             \* history: the bytes since the parser was last idle
  line,              \* peer: the bytes of its frame still to come
  sent,              \* peer: the frame it sends, or sent last
  clean,             \* history: that frame met an idle parser and no noise
  noise              \* the events of noise so far

parser == <<state, command, payload_length, payload, offset, crc>>
vars == <<parser, accepted, heard, line, sent, clean, noise>>

HEARD_MAX == MSP_MAX_PAYLOAD + 10   \* bound: one byte more than a frame has

-----------------------------------------------------------------------------
(* The check sum. *)

Bit(n, weight) == (n \div weight) % 2
Differ(a, b, weight) == IF Bit(a, weight) = Bit(b, weight) THEN 0 ELSE weight

\* Exclusive or of two bytes.
Xor(a, b) ==
  Differ(a, b, 1) + Differ(a, b, 2) + Differ(a, b, 4) + Differ(a, b, 8)
  + Differ(a, b, 16) + Differ(a, b, 32) + Differ(a, b, 64) + Differ(a, b, 128)

ShiftOnce(c) == IF c >= 128 THEN Xor((2 * c) % 256, 213) ELSE 2 * c

\* The eight shifts of the loop at msp.c:8-11, for every byte.
Crc8Table == [c \in Byte |->
  ShiftOnce(ShiftOnce(ShiftOnce(ShiftOnce(ShiftOnce(ShiftOnce(ShiftOnce(ShiftOnce(c))))))))]

msp_crc8_dvb_s2(c, value) == Crc8Table[Xor(c, value)]

\* The check sum of a sequence of bytes.
CheckSum(bytes) ==
  LET after[n \in 0 .. Len(bytes)] ==
        IF n = 0 THEN 0 ELSE msp_crc8_dvb_s2(after[n - 1], bytes[n])
  IN  after[Len(bytes)]

-----------------------------------------------------------------------------
(* The encoder. *)

Low(n) == n % 256
High(n) == n \div 256

\* Flags, command, length and payload are summed; nothing is written for a
\* payload that is too long.  The tests of msp.c:26 for missing buffers and for room
\* in the output are left out: the callers' 32 bytes (main.c:31) hold every frame.
msp_encode_v2(cmd, bytes) ==
  LET body == <<0, Low(cmd), High(cmd), Low(Len(bytes)), High(Len(bytes))>> \o bytes
  IN  IF Len(bytes) > MSP_MAX_PAYLOAD THEN <<>>
      ELSE <<DOLLAR, LETTER_X, LESS>> \o body \o <<CheckSum(body)>>

-----------------------------------------------------------------------------
(* The parser: what msp_parser_consume does with byte b, by state. *)

\* Mutant: the offset is left where the last payload ended.
parser_reset_KeepsOffset == state' = "IDLE" /\ crc' = 0 /\ UNCHANGED offset

parser_reset == state' = "IDLE" /\ offset' = 0 /\ crc' = 0

Mark == [IDLE |-> DOLLAR, X |-> LETTER_X, DIRECTION |-> LESS]
Follow == [IDLE |-> "X", X |-> "DIRECTION", DIRECTION |-> "FLAGS"]

\* A byte that does not match is dropped, even when it could start a frame.
ParseMark(b) ==
  /\ state \in DOMAIN Mark
  /\ state' = IF b = Mark[state] THEN Follow[state] ELSE "IDLE"
  /\ UNCHANGED <<command, payload_length, payload, offset, crc>>

\* Mutant: the flags are left out of the check sum.
ParseFlags_NotSummed(b) ==
  /\ state = "FLAGS" /\ state' = "COMMAND_LO"
  /\ crc' = 0
  /\ UNCHANGED <<command, payload_length, payload, offset>>

ParseFlags(b) ==
  /\ state = "FLAGS" /\ state' = "COMMAND_LO"
  /\ crc' = msp_crc8_dvb_s2(0, b)
  /\ UNCHANGED <<command, payload_length, payload, offset>>

ParseCommand(b) ==
  /\ \/ state = "COMMAND_LO" /\ state' = "COMMAND_HI" /\ command' = b
     \/ state = "COMMAND_HI" /\ state' = "LENGTH_LO" /\ command' = command + 256 * b
  /\ crc' = msp_crc8_dvb_s2(crc, b)
  /\ UNCHANGED <<payload_length, payload, offset>>

ParseLengthLo(b) ==
  /\ state = "LENGTH_LO" /\ state' = "LENGTH_HI" /\ payload_length' = b
  /\ crc' = msp_crc8_dvb_s2(crc, b)
  /\ UNCHANGED <<command, payload, offset>>

\* Mutant: one byte more than the payload holds is let through.
ParseLengthHi_OffByOne(b) ==
  /\ state = "LENGTH_HI" /\ payload_length' = payload_length + 256 * b
  /\ IF payload_length' > MSP_MAX_PAYLOAD + 1
       THEN parser_reset
       ELSE /\ state' = IF payload_length' = 0 THEN "CRC" ELSE "PAYLOAD"
            /\ crc' = msp_crc8_dvb_s2(crc, b)
            /\ UNCHANGED offset
  /\ UNCHANGED <<command, payload>>

\* A frame that is too long is given up, its payload scanned for the next one.
ParseLengthHi(b) ==
  /\ state = "LENGTH_HI" /\ payload_length' = payload_length + 256 * b
  /\ IF payload_length' > MSP_MAX_PAYLOAD
       THEN parser_reset
       ELSE /\ state' = IF payload_length' = 0 THEN "CRC" ELSE "PAYLOAD"
            /\ crc' = msp_crc8_dvb_s2(crc, b)
            /\ UNCHANGED offset
  /\ UNCHANGED <<command, payload>>

ParsePayload(b) ==
  /\ state = "PAYLOAD"
  /\ payload' = [payload EXCEPT ![offset] = b] /\ offset' = offset + 1
  /\ state' = IF offset' = payload_length THEN "CRC" ELSE "PAYLOAD"
  /\ crc' = msp_crc8_dvb_s2(crc, b)
  /\ UNCHANGED <<command, payload_length>>

\* Mutant: a wrong check sum leaves the parser waiting for the right one.
ParseCrc_Waits(b) ==
  /\ state = "CRC"
  /\ IF b = crc THEN parser_reset ELSE UNCHANGED <<state, offset, crc>>
  /\ UNCHANGED <<command, payload_length, payload>>

\* The frame's fields outlive the reset: what is copied out is what they hold.
ParseCrc(b) ==
  /\ state = "CRC"
  /\ parser_reset
  /\ UNCHANGED <<command, payload_length, payload>>

msp_parser_consume(b) ==
  /\ \/ ParseMark(b) \/ ParseFlags(b) \/ ParseCommand(b) \/ ParseLengthLo(b)
     \/ ParseLengthHi(b) \/ ParsePayload(b) \/ ParseCrc(b)
  /\ accepted' = (state = "CRC" /\ b = crc)
  /\ heard' = IF state = "IDLE" THEN <<b>>
              ELSE IF Len(heard) < HEARD_MAX THEN Append(heard, b) ELSE heard

\* The frame copied out at "*out=p->frame".
Received ==
  [command |-> command, payload |-> [i \in 1 .. payload_length |-> payload[i - 1]]]

-----------------------------------------------------------------------------
(* The line. *)

Init ==
  /\ state = "IDLE" /\ command = 0 /\ payload_length = 0
  /\ payload = [i \in 0 .. MSP_MAX_PAYLOAD - 1 |-> 0] /\ offset = 0 /\ crc = 0
  /\ accepted = FALSE /\ heard = <<>>
  /\ line = <<>> /\ sent \in Frames /\ clean = FALSE /\ noise = 0

SendFrame ==
  /\ line = <<>>
  /\ \E frame \in Frames :
       sent' = frame /\ line' = msp_encode_v2(frame.command, frame.payload)
  /\ clean' = (state = "IDLE")
  /\ UNCHANGED <<parser, accepted, heard, noise>>

\* main.c:60: a byte is popped and parsed.
Deliver ==
  /\ line # <<>>
  /\ msp_parser_consume(Head(line)) /\ line' = Tail(line)
  /\ UNCHANGED <<sent, clean, noise>>

Disturbed == noise < NOISE_MAX /\ noise' = noise + 1 /\ clean' = FALSE

\* A byte of noise comes in, between two bytes or in the place of one.
Interfere ==
  /\ Disturbed
  /\ \E b \in Noise : msp_parser_consume(b)
  /\ \/ UNCHANGED line
     \/ line # <<>> /\ line' = Tail(line)
  /\ UNCHANGED sent

\* The receive ring is full, or the line was.
Lose ==
  /\ Disturbed
  /\ line # <<>> /\ line' = Tail(line)
  /\ UNCHANGED <<parser, accepted, heard, sent>>

Next == SendFrame \/ Deliver \/ Interfere \/ Lose

\* The loop comes round to every byte; whether the peer sends is left to it.
Spec == Init /\ [][Next]_vars /\ WF_vars(Deliver)

-----------------------------------------------------------------------------
States == {"IDLE", "X", "DIRECTION", "FLAGS", "COMMAND_LO", "COMMAND_HI",
           "LENGTH_LO", "LENGTH_HI", "PAYLOAD", "CRC"}

TypeOK ==
  /\ state \in States
  /\ command \in Word /\ payload_length \in Word
  /\ payload \in [0 .. MSP_MAX_PAYLOAD - 1 -> Byte]
  /\ offset \in 0 .. MSP_MAX_PAYLOAD /\ crc \in Byte
  /\ accepted \in BOOLEAN
  /\ heard \in Seq(Byte) /\ line \in Seq(Byte)
  /\ sent \in Frames /\ clean \in BOOLEAN /\ noise \in 0 .. NOISE_MAX

\* msp.c:73,77: whatever bytes came before, a payload byte has a place in the
\* frame, and the count that ends the payload is still ahead.
PayloadFits ==
  /\ state = "PAYLOAD" => offset < payload_length /\ payload_length <= MSP_MAX_PAYLOAD
  /\ state \notin {"PAYLOAD", "CRC"} => offset = 0

\* README.md:71, the frame as a reader of the bytes sees it: the mark, any flags,
\* a length within the limit, and the sum over all that follows the mark.
IsFrame(bytes) ==
  /\ Len(bytes) >= 9
  /\ SubSeq(bytes, 1, 3) = <<DOLLAR, LETTER_X, LESS>>
  /\ Len(bytes) - 9 = bytes[7] + 256 * bytes[8]
  /\ Len(bytes) - 9 <= MSP_MAX_PAYLOAD
  /\ bytes[Len(bytes)] = CheckSum(SubSeq(bytes, 4, Len(bytes) - 1))

\* msp.c:61-86: the parser accepts exactly the frames, with the command and the
\* payload that their bytes carry, whatever it parsed or gave up before.
AcceptsExactlyFrames ==
  /\ accepted <=> IsFrame(heard) /\ state = "IDLE"
  /\ accepted => Received = [command |-> heard[5] + 256 * heard[6],
                             payload |-> SubSeq(heard, 9, Len(heard) - 1)]

\* msp.c:22-34,61-86: what the encoder wrote and an idle parser heard whole is
\* accepted at its last byte, as it was sent.
CleanFrameIsAccepted == clean /\ line = <<>> => accepted /\ Received = sent

\* msp.c:59,73,82: once the noise is over and while the peer keeps sending, the
\* parser finds its place among the frames again, however it lost it, if no byte
\* of a frame but the first looks like the first.
PlaceIsFound ==
  []<>(line # <<>>) /\ []<>(line = <<>>) => []<>(accepted /\ Received = sent)
=============================================================================
