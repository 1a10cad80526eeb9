------------------------------ MODULE DhtFrame ------------------------------
(***************************************************************************)
(* What the firmware makes of one DHT22 frame: the pulse widths that       *)
(* dhtGpioCbk stores, the bytes and the parity that dhtProcess gets from   *)
(* them, and the decimal text mainTask prints (user/dht.c, user_main.c).   *)
(* Dht abstracts all of this to "good" or "bad".                           *)
(*                                                                         *)
(* The sensor answers with two edges and 40 bits, most significant first:  *)
(* two bytes of humidity and two of temperature, in tenths, the latter as  *)
(* sign and magnitude, and their sum modulo 256.  A bit takes T0 or T1     *)
(* microseconds from falling edge to falling edge.  The interrupt of one   *)
(* edge may be served LATE microseconds late, and one bit of the frame may *)
(* be wrong.                                                               *)
(***************************************************************************)
EXTENDS Integers, Sequences

CONSTANTS
  HUMS, TEMPS,  \* the 16-bit words the sensor may send
  T0, T1,       \* duration of a bit (DHT22: 78 and 120)
  LATE,         \* delay of the late interrupt
  GAP           \* time from dhtGpioCbkSetup to the sensor's first edge

Byte == 0..255
Word == 0..256 * 256 - 1    \* uint16_t
SIGN == 128 * 256           \* 0x8000

ASSUME FrameAssumption ==
  /\ HUMS \subseteq Word /\ TEMPS \subseteq Word
  /\ T0 \in Nat /\ T1 \in Nat /\ LATE \in Nat /\ GAP \in Nat
  /\ LATE < T0 /\ T0 + LATE <= 100 /\ 100 < T1 - LATE /\ T1 + LATE < 256

VARIABLES
  hum, temp,   \* the words the sensor measured
  flip,        \* the bit of the frame that is wrong (0..39, 40: none)
  late,        \* the edge that is served late (0..41, 42: none)
  DhtResult,   \* pulse widths stored so far (uint8_t)
  parity,      \* "none" before dhtProcess, then "ok" or "nok"
  DhtHum, DhtTemp  \* DhtHandle, as <<sign, tenths>>; see Float

frameVars == <<hum, temp, flip, late, DhtResult, parity, DhtHum, DhtTemp>>

(* The ranges the C types allow.                                           *)
FrameTypeOK ==
  /\ hum \in HUMS /\ temp \in TEMPS /\ flip \in 0..40 /\ late \in 0..42
  /\ Len(DhtResult) <= 42
  /\ \A i \in 1..Len(DhtResult) : DhtResult[i] \in Byte
  /\ parity \in {"none", "ok", "nok"}
  /\ DhtHum \in {1, -1} \X Word /\ DhtTemp \in {1, -1} \X Word

-----------------------------------------------------------------------------
(* The sensor.                                                             *)
Bit(n, k) == (n \div 2^k) % 2

Sum(b) == b[1] + b[2] + b[3] + b[4]

(* The bytes it means to send.                                             *)
Sent == LET b == <<hum \div 256, hum % 256, temp \div 256, temp % 256>>
        IN  Append(b, Sum(b) % 256)

(* The bytes on the line.                                                  *)
Line == [i \in 1..5 |->
           IF flip \div 8 # i - 1 THEN Sent[i]
           ELSE LET p == 2^(7 - (flip % 8))
                IN  IF Bit(Sent[i], 7 - (flip % 8)) = 1 THEN Sent[i] - p
                                                      ELSE Sent[i] + p]

(* Time from edge i - 1 (0: dhtGpioCbkSetup) to edge i, 0 <= i <= 41.      *)
Pulse(i) ==
  IF i = 0 THEN GAP ELSE IF i = 1 THEN 160
  ELSE IF Bit(Line[((i - 2) \div 8) + 1], 7 - ((i - 2) % 8)) = 1 THEN T1 ELSE T0

-----------------------------------------------------------------------------
(* The firmware.                                                           *)

(* WDEW_NOW() - DhtTimeOffset, both read inside the interrupt, stored in a *)
(* uint8_t; the mutant does not truncate.                                  *)
Stored_wide(i) == Pulse(i) + (IF late = i THEN LATE ELSE 0)
                           - (IF late = i - 1 THEN LATE ELSE 0)
Stored(i) == (Pulse(i) + (IF late = i THEN LATE ELSE 0)
                       - (IF late = i - 1 THEN LATE ELSE 0)) % 256

dhtGpioCbkStore ==
  /\ Len(DhtResult) < 42
  /\ DhtResult' = Append(DhtResult, Stored(Len(DhtResult)))
  /\ UNCHANGED <<hum, temp, flip, late, parity, DhtHum, DhtTemp>>

(* bits = 2: the first two widths are not data.  The mutant starts at the  *)
(* response pulse.                                                         *)
FirstBit_early == 1
FirstBit == 2

(* result[b], 0 <= b <= 4: width > 100 is a one, the first one read the   *)
(* most significant.                                                       *)
Result(b) ==
  LET bit(t) == IF DhtResult[FirstBit + 8 * b + (7 - t) + 1] > 100 THEN 2^t ELSE 0
  IN  bit(7) + bit(6) + bit(5) + bit(4) + bit(3) + bit(2) + bit(1) + bit(0)

(* The sum is an int: it is not reduced modulo 256 before it is compared.  *)
(* The mutant leaves the low byte of the humidity out.                     *)
ParityOk_short == Result(0) + Result(2) + Result(3) = Result(4)
ParityOk == Result(0) + Result(1) + Result(2) + Result(3) = Result(4)

(* rawtemp & 0x8000 and & 0x7fff; the mutant keeps the sign bit.           *)
Signed_unmasked(raw) == IF raw >= SIGN THEN <<-1, raw>> ELSE <<1, raw>>
Signed(raw) == IF raw >= SIGN THEN <<-1, raw - SIGN>> ELSE <<1, raw>>

(* dhtProcess goes on to decode a frame whose parity is wrong.             *)
dhtProcessFrame ==
  /\ Len(DhtResult) = 42 /\ parity = "none"
  /\ parity' = IF ParityOk THEN "ok" ELSE "nok"
  /\ DhtHum' = <<1, 256 * Result(0) + Result(1)>>
  /\ DhtTemp' = Signed(256 * Result(2) + Result(3))
  /\ UNCHANGED <<hum, temp, flip, late, DhtResult>>

FrameInit ==
  /\ hum \in HUMS /\ temp \in TEMPS /\ flip \in 0..40 /\ late \in 0..42
  /\ flip = 40 \/ late = 42
  /\ DhtResult = <<>> /\ parity = "none"
  /\ DhtHum = <<1, 0>> /\ DhtTemp = <<1, 0>>

FrameNext == dhtGpioCbkStore \/ dhtProcessFrame

FrameSpec == FrameInit /\ [][FrameNext]_frameVars

-----------------------------------------------------------------------------
(***************************************************************************)
(* mainTask's "%d,%d" of (int)x and (int)((x - (int)x) * 100), for the     *)
(* float x nearest to n/10.  A float is a mantissa of 24 bits over a power *)
(* of two; 2^k with 2^23 <= n/d * 2^k < 2^24 normalises n/d.               *)
(***************************************************************************)
Round(n, d) ==     \* n/d to the nearest integer, ties to even
  LET q == n \div d  r == n % d
  IN  IF 2 * r > d \/ (2 * r = d /\ q % 2 = 1) THEN q + 1 ELSE q

Scale(n, d) == CHOOSE k \in 0..30 : 2^23 * d <= n * 2^k /\ n * 2^k < 2^24 * d

(* The product as a float, in units of 2^-k: rounded only if it has more   *)
(* than 24 bits.                                                           *)
Product(f) == LET p == f * 100
                  s == IF p < 2^24 THEN 1
                       ELSE 2^(CHOOSE j \in 1..7 : p \div 2^j \in 2^23..2^24-1)
              IN  Round(p, s) * s

Printed(n) ==   \* <<whole part, "hundredths">> of n tenths
  IF n = 0 THEN <<0, 0>>
  ELSE LET k == Scale(n, 10)
           m == Round(n * 2^k, 10)
       IN  <<m \div 2^k, Product(m % 2^k) \div 2^k>>

-----------------------------------------------------------------------------
(* Each byte comes out as the sensor put it on the line: the offset of two *)
(* edges, the bit order, the threshold, the uint8_t widths and a late      *)
(* interrupt, which lengthens one width and shortens the next, together    *)
(* lose nothing.                                                           *)
DecodeExact == Len(DhtResult) = 42 => \A b \in 0..4 : Result(b) = Line[b + 1]

(* The parity check lets no frame with one wrong bit through, wherever the *)
(* bit is, and of the right ones it turns down exactly those whose sum     *)
(* needs more than a byte.                                                 *)
ParityExact ==
  parity # "none" =>
    (parity = "ok" <=> /\ flip = 40
                       /\ Sum(Sent) < 256)

(* dhtProcess reads every frame as it was on the line, accepts none with a *)
(* wrong bit and turns down exactly the right ones whose sum needs more    *)
(* than a byte.                                                            *)
FrameExact == FrameTypeOK /\ DecodeExact /\ ParityExact

(* What mainTask prints is the measured value: right sign, and at most one *)
(* hundredth too small (floats of tenths are rounded, and the conversions  *)
(* to int truncate).                                                       *)
PrintedClose ==
  parity # "none" /\ flip = 40 =>
    LET p == Printed(DhtTemp[2])
        t == IF temp >= SIGN THEN temp - SIGN ELSE temp
    IN  /\ DhtTemp[1] = -1 <=> temp >= SIGN
        /\ 10 * t - (100 * p[1] + p[2]) \in {0, 1}
=============================================================================
