----------------------- MODULE SeatalkDatagramProofs -----------------------
(***************************************************************************)
(* What holds of the datagrams for all readings that fit their fields.     *)
(***************************************************************************)
EXTENDS SeatalkDatagram, FiniteSetTheorems, TLAPS

-----------------------------------------------------------------------------
(* Bytes                                                                   *)

\* What it is to be in one of the longer ranges
LEMMA Ranges ==
  /\ \A v : v \in Word <=> v \in Int /\ 0 <= v /\ v <= 65535
  /\ \A v : v \in SignedWord <=> v \in Int /\ -32768 <= v /\ v <= 32767
  /\ \A v : v \in Rpm <=> v \in Int /\ -32768 <= v /\ v <= 65535
  /\ \A v : v \in Celsius <=> v \in Int /\ -100 <= v /\ v <= 65435
  /\ \A v : v \in FiveNibbles <=> v \in Int /\ 0 <= v /\ v <= 1048575
  /\ \A v : v \in FifteenBits <=> v \in Int /\ 0 <= v /\ v <= 32767
  /\ \A v : v \in Degrees <=> v \in Int /\ 0 <= v /\ v <= 359
  /\ \A v : v \in Knots <=> v \in Int /\ 0 <= v /\ v <= 1279
BY DEF Between, Word, SignedWord, Rpm, Celsius,
       FiveNibbles, FifteenBits, Degrees, Knots

\* Any integer cut to eight bits is a byte.
LEMMA CutToByte ==
  ASSUME NEW n \in Int
  PROVE  n % 256 \in Char
BY DEF Char

\* What is in the two bytes of a word
LEMMA TwoBytesOfWord ==
  ASSUME NEW v \in Word
  PROVE  /\ high_byte(v) \in Char /\ low_byte(v) \in Char
         /\ 256 * (high_byte(v) % 256) + (low_byte(v) % 256) = v
<1>0. v \in Int /\ 0 <= v /\ v <= 65535
  BY Ranges
<1>1. high_byte(v) \in 0..255 /\ low_byte(v) \in 0..255
        /\ v = 256 * high_byte(v) + low_byte(v)
  BY <1>0 DEF high_byte, low_byte
<1>2. \A n \in 0..255 : n % 256 = n
  OBVIOUS
<1> QED
  BY <1>1, <1>2 DEF Char

\* Negative numbers travel as their twos' complements.
LEMMA SignedCharBack ==
  ASSUME NEW v \in SignedChar
  PROVE  v \in Int /\ fix_twos_complement_char(v % 256) = v
BY DEF SignedChar, fix_twos_complement_char

LEMMA SignedWordBack ==
  ASSUME NEW v \in SignedWord
  PROVE  /\ high_byte(v) \in Int /\ low_byte(v) \in Int
         /\ fix_twos_complement_word(
              256 * (high_byte(v) % 256) + (low_byte(v) % 256)) = v
<1>0. v \in Int /\ -32768 <= v /\ v <= 32767
  BY Ranges
<1>1. /\ v \div 256 \in Int /\ -128 <= v \div 256 /\ v \div 256 <= 127
      /\ v % 256 \in Int /\ 0 <= v % 256 /\ v % 256 <= 255
      /\ v = 256 * (v \div 256) + (v % 256)
  BY <1>0
<1> DEFINE high == v \div 256
           low == v % 256
<1> HIDE DEF high, low
<1>2. /\ low % 256 = low
      /\ high < 0 => high % 256 = high + 256
      /\ high >= 0 => high % 256 = high
  BY <1>1 DEF high, low
<1>3. v = 256 * high + low /\ high \in Int /\ low \in 0..255 /\ -128 <= high
  BY <1>1 DEF high, low
<1>4. fix_twos_complement_word(256 * (high % 256) + (low % 256)) = v
  <2>1. CASE high < 0
    BY <1>0, <1>1, <1>2, <1>3, <2>1 DEF fix_twos_complement_word, high
  <2>2. CASE high >= 0
    BY <1>0, <1>1, <1>2, <1>3, <2>2 DEF fix_twos_complement_word, high
  <2> QED
    BY <1>3, <2>1, <2>2
<1> QED
  BY <1>1, <1>4 DEF high, low, high_byte, low_byte

\* The second byte of a datagram holds its length and a nibble of data.
LEMMA SecondByte ==
  ASSUME NEW length \in 3..18, NEW high \in Nibble
  PROVE  LET b == (length - 3 + 16 * high) % 256 IN
           /\ b \in Char
           /\ get_datagram_length(b) = length - 3
           /\ first_nibble(b) = high
BY DEF Nibble, Char, get_datagram_length, last_nibble, first_nibble

\* A datagram as the transport layer takes it: bytes, and as many as the second
\* of them announces
IsDatagram(d) ==
  \E length \in 3..18 :
    /\ d \in [0..length - 1 -> Char]
    /\ get_datagram_length(d[1]) = length - 3

\* One that carries a nibble beside its length and bytes after it
Carries(d, high, bytes) ==
  /\ IsDatagram(d)
  /\ first_nibble(d[1]) = high
  /\ \A i \in 2..Len(bytes) + 1 : d[i] = bytes[i - 1] % 256

\* The build functions make such datagrams.
LEMMA DatagramCarries ==
  ASSUME NEW number \in Char, NEW length \in 3..18, NEW high \in Nibble,
         NEW bytes \in Seq(Int), Len(bytes) <= length - 2
  PROVE  Carries(Datagram(number, length, high, bytes), high, bytes)
<1> DEFINE d == Datagram(number, length, high, bytes)
           second == (length - 3 + 16 * high) % 256
<1>1. DOMAIN bytes = 1..Len(bytes) /\ \A i \in 1..Len(bytes) : bytes[i] \in Int
  OBVIOUS
<1>2. d = [i \in 0..length - 1 |->
             IF i - 1 \in 1..Len(bytes) THEN bytes[i - 1] % 256
             ELSE IF i = 0 THEN number ELSE IF i = 1 THEN second ELSE 0]
  BY <1>1 DEF Datagram, Assigned, initialize_datagram
<1>3. second \in Char /\ get_datagram_length(second) = length - 3
        /\ first_nibble(second) = high
  BY SecondByte
<1> HIDE DEF d, second
<1>4. 0 \in Char
  BY DEF Char
<1>5. ASSUME NEW i \in 0..length - 1 PROVE d[i] \in Char
  <2>1. CASE i - 1 \in 1..Len(bytes)
    <3>1. d[i] = bytes[i - 1] % 256
      BY <1>2, <2>1
    <3>2. bytes[i - 1] \in Int
      BY <1>1, <2>1
    <3> QED
      BY <3>1, <3>2, CutToByte
  <2>2. CASE i - 1 \notin 1..Len(bytes)
    BY <1>2, <1>3, <1>4, <2>2
  <2> QED
    BY <2>1, <2>2
<1>6. d \in [0..length - 1 -> Char]
  BY <1>2, <1>5
<1>7. d[1] = second
  BY <1>2
<1>8. \A i \in 2..Len(bytes) + 1 : d[i] = bytes[i - 1] % 256
  BY <1>2
<1>9. IsDatagram(d)
  BY <1>3, <1>6, <1>7 DEF IsDatagram
<1>10. Carries(d, high, bytes)
  BY <1>3, <1>7, <1>8, <1>9 DEF Carries
<1> QED
  BY <1>10 DEF d

\* The same for each number of bytes that a build function assigns
LEMMA Carries1 ==
  ASSUME NEW number \in Char, NEW length \in 3..18, NEW high \in Nibble,
         NEW b1 \in Int
  PROVE  Carries(Datagram(number, length, high, <<b1>>), high, <<b1>>)
<1> DEFINE bytes == <<b1>>
<1>1. bytes \in Seq(Int)
  OBVIOUS
<1>2. Len(bytes) = 1
  OBVIOUS
<1> HIDE DEF bytes
<1>3. length \in 3..18 /\ Len(bytes) <= length - 2
  BY <1>2
<1>4. Carries(Datagram(number, length, high, bytes), high, bytes)
  BY <1>1, <1>3, DatagramCarries
<1> QED
  BY <1>4 DEF bytes

LEMMA Carries2 ==
  ASSUME NEW number \in Char, NEW length \in 4..18, NEW high \in Nibble,
         NEW b1 \in Int, NEW b2 \in Int
  PROVE  Carries(Datagram(number, length, high, <<b1, b2>>), high, <<b1, b2>>)
<1> DEFINE bytes == <<b1, b2>>
<1>1. bytes \in Seq(Int)
  OBVIOUS
<1>2. Len(bytes) = 2
  OBVIOUS
<1> HIDE DEF bytes
<1>3. length \in 3..18 /\ Len(bytes) <= length - 2
  BY <1>2
<1>4. Carries(Datagram(number, length, high, bytes), high, bytes)
  BY <1>1, <1>3, DatagramCarries
<1> QED
  BY <1>4 DEF bytes

LEMMA Carries3 ==
  ASSUME NEW number \in Char, NEW length \in 5..18, NEW high \in Nibble,
         NEW b1 \in Int, NEW b2 \in Int, NEW b3 \in Int
  PROVE  Carries(Datagram(number, length, high, <<b1, b2, b3>>),
                 high, <<b1, b2, b3>>)
<1> DEFINE bytes == <<b1, b2, b3>>
<1>1. bytes \in Seq(Int)
  OBVIOUS
<1>2. Len(bytes) = 3
  OBVIOUS
<1> HIDE DEF bytes
<1>3. length \in 3..18 /\ Len(bytes) <= length - 2
  BY <1>2
<1>4. Carries(Datagram(number, length, high, bytes), high, bytes)
  BY <1>1, <1>3, DatagramCarries
<1> QED
  BY <1>4 DEF bytes

LEMMA Carries4 ==
  ASSUME NEW number \in Char, NEW length \in 6..18, NEW high \in Nibble,
         NEW b1 \in Int, NEW b2 \in Int, NEW b3 \in Int, NEW b4 \in Int
  PROVE  Carries(Datagram(number, length, high, <<b1, b2, b3, b4>>),
                 high, <<b1, b2, b3, b4>>)
<1> DEFINE bytes == <<b1, b2, b3, b4>>
<1>1. bytes \in Seq(Int)
  OBVIOUS
<1>2. Len(bytes) = 4
  OBVIOUS
<1> HIDE DEF bytes
<1>3. length \in 3..18 /\ Len(bytes) <= length - 2
  BY <1>2
<1>4. Carries(Datagram(number, length, high, bytes), high, bytes)
  BY <1>1, <1>3, DatagramCarries
<1> QED
  BY <1>4 DEF bytes

LEMMA Carries5 ==
  ASSUME NEW number \in Char, NEW length \in 7..18, NEW high \in Nibble,
         NEW b1 \in Int, NEW b2 \in Int, NEW b3 \in Int, NEW b4 \in Int,
         NEW b5 \in Int
  PROVE  Carries(Datagram(number, length, high, <<b1, b2, b3, b4, b5>>),
                 high, <<b1, b2, b3, b4, b5>>)
<1> DEFINE bytes == <<b1, b2, b3, b4, b5>>
<1>1. bytes \in Seq(Int)
  OBVIOUS
<1>2. Len(bytes) = 5
  OBVIOUS
<1> HIDE DEF bytes
<1>3. length \in 3..18 /\ Len(bytes) <= length - 2
  BY <1>2
<1>4. Carries(Datagram(number, length, high, bytes), high, bytes)
  BY <1>1, <1>3, DatagramCarries
<1> QED
  BY <1>4 DEF bytes

LEMMA Carries6 ==
  ASSUME NEW number \in Char, NEW length \in 8..18, NEW high \in Nibble,
         NEW b1 \in Int, NEW b2 \in Int, NEW b3 \in Int, NEW b4 \in Int,
         NEW b5 \in Int, NEW b6 \in Int
  PROVE  Carries(Datagram(number, length, high, <<b1, b2, b3, b4, b5, b6>>),
                 high, <<b1, b2, b3, b4, b5, b6>>)
<1> DEFINE bytes == <<b1, b2, b3, b4, b5, b6>>
<1>1. bytes \in Seq(Int)
  OBVIOUS
<1>2. Len(bytes) = 6
  OBVIOUS
<1> HIDE DEF bytes
<1>3. length \in 3..18 /\ Len(bytes) <= length - 2
  BY <1>2
<1>4. Carries(Datagram(number, length, high, bytes), high, bytes)
  BY <1>1, <1>3, DatagramCarries
<1> QED
  BY <1>4 DEF bytes

LEMMA Carries7 ==
  ASSUME NEW number \in Char, NEW length \in 9..18, NEW high \in Nibble,
         NEW b1 \in Int, NEW b2 \in Int, NEW b3 \in Int, NEW b4 \in Int,
         NEW b5 \in Int, NEW b6 \in Int, NEW b7 \in Int
  PROVE  Carries(Datagram(number, length, high, <<b1, b2, b3, b4, b5, b6, b7>>),
                 high, <<b1, b2, b3, b4, b5, b6, b7>>)
<1> DEFINE bytes == <<b1, b2, b3, b4, b5, b6, b7>>
<1>1. bytes \in Seq(Int)
  OBVIOUS
<1>2. Len(bytes) = 7
  OBVIOUS
<1> HIDE DEF bytes
<1>3. length \in 3..18 /\ Len(bytes) <= length - 2
  BY <1>2
<1>4. Carries(Datagram(number, length, high, bytes), high, bytes)
  BY <1>1, <1>3, DatagramCarries
<1> QED
  BY <1>4 DEF bytes

-----------------------------------------------------------------------------
(* Instruments                                                             *)

\* Speed through the water
LEMMA WaterSpeed ==
  ASSUME NEW r \in Readings("20")
  PROVE  /\ IsDatagram(Build("20", r))
         /\ Parse("20", Build("20", r)) = {r}
<1> DEFINE d == Build("20", r)
           b1 == high_byte(r.knots_times_10)
           b2 == low_byte(r.knots_times_10)
<1>1. r \in [knots_times_10 : Word]
  BY DEF Readings
<1>2. /\ r.knots_times_10 \in Word
      /\ r = [knots_times_10 |-> r.knots_times_10]
  BY <1>1
<1>3. d = Datagram(32, 4, 0, <<b1, b2>>)
  BY DEF Build, build_water_speed
<1>4. /\ b1 \in Char /\ b2 \in Char
      /\ 256 * (b1 % 256) + (b2 % 256) = r.knots_times_10
  BY <1>2, TwoBytesOfWord
<1> HIDE DEF d, b1, b2
<1>5. 32 \in Char /\ 4 \in 4..18 /\ 0 \in Nibble /\ b1 \in Int /\ b2 \in Int
  BY <1>4 DEF Char, Nibble
<1>6. Carries(d, 0, <<b1, b2>>)
  BY <1>3, <1>5, Carries2
<1>7. IsDatagram(d) /\ first_nibble(d[1]) = 0 /\ d[2] = b1 % 256
        /\ d[3] = b2 % 256
  BY <1>6 DEF Carries
<1>8. Parse("20", d)
        = {[knots_times_10 |-> two_bytes(d, 2)]}
  BY DEF Parse, parse_water_speed
<1>9. two_bytes(d, 2) = r.knots_times_10
  BY <1>4, <1>7 DEF two_bytes
<1> QED
  BY <1>2, <1>7, <1>8, <1>9 DEF d

\* Total mileage
LEMMA TotalMileage ==
  ASSUME NEW r \in Readings("22")
  PROVE  /\ IsDatagram(Build("22", r))
         /\ Parse("22", Build("22", r)) = {r}
<1> DEFINE d == Build("22", r)
           b1 == high_byte(r.miles_times_10)
           b2 == low_byte(r.miles_times_10)
<1>1. r \in [miles_times_10 : Word]
  BY DEF Readings
<1>2. /\ r.miles_times_10 \in Word
      /\ r = [miles_times_10 |-> r.miles_times_10]
  BY <1>1
<1>3. d = Datagram(34, 5, 0, <<b1, b2>>)
  BY DEF Build, build_total_mileage
<1>4. /\ b1 \in Char /\ b2 \in Char
      /\ 256 * (b1 % 256) + (b2 % 256) = r.miles_times_10
  BY <1>2, TwoBytesOfWord
<1> HIDE DEF d, b1, b2
<1>5. 34 \in Char /\ 5 \in 4..18 /\ 0 \in Nibble /\ b1 \in Int /\ b2 \in Int
  BY <1>4 DEF Char, Nibble
<1>6. Carries(d, 0, <<b1, b2>>)
  BY <1>3, <1>5, Carries2
<1>7. IsDatagram(d) /\ first_nibble(d[1]) = 0 /\ d[2] = b1 % 256
        /\ d[3] = b2 % 256
  BY <1>6 DEF Carries
<1>8. Parse("22", d)
        = {[miles_times_10 |-> two_bytes(d, 2)]}
  BY DEF Parse, parse_total_mileage
<1>9. two_bytes(d, 2) = r.miles_times_10
  BY <1>4, <1>7 DEF two_bytes
<1> QED
  BY <1>2, <1>7, <1>8, <1>9 DEF d

\* Speed over ground
LEMMA SpeedOverGround ==
  ASSUME NEW r \in Readings("52")
  PROVE  /\ IsDatagram(Build("52", r))
         /\ Parse("52", Build("52", r)) = {r}
<1> DEFINE d == Build("52", r)
           b1 == high_byte(r.knots_times_10)
           b2 == low_byte(r.knots_times_10)
<1>1. r \in [knots_times_10 : Word]
  BY DEF Readings
<1>2. /\ r.knots_times_10 \in Word
      /\ r = [knots_times_10 |-> r.knots_times_10]
  BY <1>1
<1>3. d = Datagram(82, 4, 0, <<b1, b2>>)
  BY DEF Build, build_speed_over_ground
<1>4. /\ b1 \in Char /\ b2 \in Char
      /\ 256 * (b1 % 256) + (b2 % 256) = r.knots_times_10
  BY <1>2, TwoBytesOfWord
<1> HIDE DEF d, b1, b2
<1>5. 82 \in Char /\ 4 \in 4..18 /\ 0 \in Nibble /\ b1 \in Int /\ b2 \in Int
  BY <1>4 DEF Char, Nibble
<1>6. Carries(d, 0, <<b1, b2>>)
  BY <1>3, <1>5, Carries2
<1>7. IsDatagram(d) /\ first_nibble(d[1]) = 0 /\ d[2] = b1 % 256
        /\ d[3] = b2 % 256
  BY <1>6 DEF Carries
<1>8. Parse("52", d)
        = {[knots_times_10 |-> two_bytes(d, 2)]}
  BY DEF Parse, parse_speed_over_ground
<1>9. two_bytes(d, 2) = r.knots_times_10
  BY <1>4, <1>7 DEF two_bytes
<1> QED
  BY <1>2, <1>7, <1>8, <1>9 DEF d

\* Depth, with its alarms
LEMMA Depth ==
  ASSUME NEW r \in Readings("00")
  PROVE  /\ IsDatagram(Build("00", r))
         /\ Parse("00", Build("00", r)) = {r}
<1> DEFINE d == Build("00", r)
           b1 == Bit("shallow_water" \in r.alarms, 1)
                   + Bit("deep_water" \in r.alarms, 2)
                   + Bit(r.defective, 4) + Bit(r.metres, 64)
                   + Bit("anchor" \in r.alarms, 128)
           b2 == high_byte(r.depth)
           b3 == low_byte(r.depth)
<1>1. r \in [depth : Word, metres : BOOLEAN, alarms : SUBSET DOMAIN DepthAlarm,
             defective : BOOLEAN]
  BY DEF Readings
<1>2. /\ r.depth \in Word /\ r.metres \in BOOLEAN /\
         r.alarms \in SUBSET DOMAIN DepthAlarm /\ r.defective \in BOOLEAN
      /\ r = [depth |-> r.depth, metres |-> r.metres, alarms |-> r.alarms,
              defective |-> r.defective]
  BY <1>1
<1>3. d = Datagram(0, 5, 0, <<b1, b2, b3>>)
  BY DEF Build, build_depth_below_transducer
<1>4. b1 \in Char /\ b2 \in Char /\ b3 \in Char
  BY <1>2, TwoBytesOfWord DEF Bit, Char
<1>5. 256 * (b2 % 256) + (b3 % 256) = r.depth
  BY <1>2, TwoBytesOfWord
<1>6. /\ flag(b1, 4) = r.defective /\ flag(b1, 64) = r.metres
  BY <1>2 DEF Bit, flag
<1>7. /\ flag(b1, 1) <=> "shallow_water" \in r.alarms
      /\ flag(b1, 2) <=> "deep_water" \in r.alarms
      /\ flag(b1, 128) <=> "anchor" \in r.alarms
  BY <1>2 DEF Bit, flag
<1> HIDE DEF d, b1, b2, b3
<1>8. 0 \in Char /\ 5 \in 5..18 /\ 0 \in Nibble /\ b1 \in Int /\ b2 \in Int /\
        b3 \in Int
  BY <1>4 DEF Char, Nibble
<1>9. Carries(d, 0, <<b1, b2, b3>>)
  BY <1>3, <1>8, Carries3
<1>10. IsDatagram(d) /\ first_nibble(d[1]) = 0 /\ d[2] = b1 % 256 /\
        d[3] = b2 % 256 /\ d[4] = b3 % 256
  BY <1>9 DEF Carries
<1>11. Parse("00", d)
        = {[depth |-> two_bytes(d, 3), metres |-> flag(d[2], 64),
            alarms |-> Marked(d[2], DepthAlarm), defective |-> flag(d[2], 4)]}
  BY DEF Parse, parse_depth_below_transducer
<1>12. d[2] = b1
  BY <1>4, <1>10 DEF Char
<1>13. two_bytes(d, 3) = r.depth
  BY <1>5, <1>10 DEF two_bytes
<1>14. Marked(b1, DepthAlarm) = r.alarms
  <2>1. r.alarms \subseteq {"shallow_water", "deep_water", "anchor"}
    BY <1>2 DEF DepthAlarm
  <2>2. \A a \in {"shallow_water", "deep_water", "anchor"} :
          flag(b1, DepthAlarm[a]) <=> a \in r.alarms
    BY <1>7 DEF DepthAlarm
  <2> QED
    BY <2>1, <2>2 DEF Marked, DepthAlarm
<1> QED
  BY <1>2, <1>10, <1>11, <1>12, <1>13, <1>14, <1>6 DEF d

\* Engine speed and pitch
LEMMA Engine ==
  ASSUME NEW r \in Readings("05")
  PROVE  /\ IsDatagram(Build("05", r))
         /\ r.rpm >= 0 => Parse("05", Build("05", r)) = {r}
<1> DEFINE d == Build("05", r)
           b1 == EngineCode[r.engine]
           b2 == high_byte(r.rpm)
           b3 == low_byte(r.rpm)
           b4 == r.pitch
<1>1. r \in [engine : DOMAIN EngineCode, rpm : Rpm, pitch : SignedChar]
  BY DEF Readings
<1>2. /\ r.engine \in DOMAIN EngineCode /\ r.rpm \in Rpm /\ r.pitch \in SignedChar
      /\ r = [engine |-> r.engine, rpm |-> r.rpm, pitch |-> r.pitch]
  BY <1>1
<1>3. d = Datagram(5, 6, 0, <<b1, b2, b3, b4>>)
  BY DEF Build, build_engine_rpm_and_pitch
<1>4. b1 \in 0..2 /\ b2 \in Int /\ b3 \in Int /\ b4 \in SignedChar
  <2>1. b1 \in 0..2
    BY <1>2 DEF EngineCode
  <2>2. b2 \in Int /\ b3 \in Int
    BY <1>2, Ranges DEF high_byte, low_byte
  <2> QED
    BY <1>2, <2>1, <2>2
<1>5. r.rpm >= 0 => 256 * (b2 % 256) + (b3 % 256) = r.rpm
  <2>1. r.rpm >= 0 => r.rpm \in Word
    BY <1>2, Ranges
  <2> QED
    BY <2>1, TwoBytesOfWord
<1>6. fix_twos_complement_char(b4 % 256) = r.pitch
  BY <1>2, SignedCharBack
<1> HIDE DEF d, b1, b2, b3, b4
<1>7. 5 \in Char /\ 6 \in 6..18 /\ 0 \in Nibble /\ b1 \in Int /\ b2 \in Int /\
        b3 \in Int /\ b4 \in Int
  BY <1>4 DEF Char, Nibble, SignedChar
<1>8. Carries(d, 0, <<b1, b2, b3, b4>>)
  BY <1>3, <1>7, Carries4
<1>9. IsDatagram(d) /\ first_nibble(d[1]) = 0 /\ d[2] = b1 % 256 /\
        d[3] = b2 % 256 /\ d[4] = b3 % 256 /\ d[5] = b4 % 256
  BY <1>8 DEF Carries
<1>10. Parse("05", d)
        = {[engine |-> CASE d[2] = 1 -> "starboard"
                        [] d[2] = 2 -> "port"
                        [] OTHER    -> "single",
            rpm |-> two_bytes(d, 3), pitch |-> fix_twos_complement_char(d[5])]}
  BY DEF Parse, parse_engine_rpm_and_pitch
<1>11. d[2] = b1
  BY <1>4, <1>9
<1>12. r.engine = CASE d[2] = 1 -> "starboard" [] d[2] = 2 -> "port"
                  [] OTHER -> "single"
  <2>1. r.engine \in {"single", "starboard", "port"}
    BY <1>2 DEF EngineCode
  <2>2. \/ b1 = 0 /\ r.engine = "single"
        \/ b1 = 1 /\ r.engine = "starboard"
        \/ b1 = 2 /\ r.engine = "port"
    BY <2>1 DEF b1, EngineCode
  <2> QED
    BY <1>11, <2>2
<1>13. r.rpm >= 0 => two_bytes(d, 3) = r.rpm
  BY <1>5, <1>9 DEF two_bytes
<1> QED
  BY <1>2, <1>9, <1>10, <1>11, <1>12, <1>13, <1>6 DEF d

\* Wind angle, negative to the left
LEMMA WindAngle ==
  ASSUME NEW r \in Readings("10")
  PROVE  /\ IsDatagram(Build("10", r))
         /\ Parse("10", Build("10", r)) = {r}
<1> DEFINE d == Build("10", r)
           b1 == high_byte(r.half_degrees)
           b2 == low_byte(r.half_degrees)
<1>1. r \in [half_degrees : SignedWord]
  BY DEF Readings
<1>2. /\ r.half_degrees \in SignedWord
      /\ r = [half_degrees |-> r.half_degrees]
  BY <1>1
<1>3. d = Datagram(16, 4, 0, <<b1, b2>>)
  BY DEF Build, build_apparent_wind_angle
<1>4. /\ b1 \in Int /\ b2 \in Int
      /\ fix_twos_complement_word(256 * (b1 % 256) + (b2 % 256))
           = r.half_degrees
  BY <1>2, SignedWordBack
<1> HIDE DEF d, b1, b2
<1>5. 16 \in Char /\ 4 \in 4..18 /\ 0 \in Nibble /\ b1 \in Int /\ b2 \in Int
  BY <1>4 DEF Char, Nibble
<1>6. Carries(d, 0, <<b1, b2>>)
  BY <1>3, <1>5, Carries2
<1>7. IsDatagram(d) /\ first_nibble(d[1]) = 0 /\ d[2] = b1 % 256
        /\ d[3] = b2 % 256
  BY <1>6 DEF Carries
<1>8. Parse("10", d)
        = {[half_degrees |->
              fix_twos_complement_word(two_bytes(d, 2))]}
  BY DEF Parse, parse_apparent_wind_angle
<1>9. fix_twos_complement_word(two_bytes(d, 2)) = r.half_degrees
  BY <1>4, <1>7 DEF two_bytes
<1> QED
  BY <1>2, <1>7, <1>8, <1>9 DEF d

\* Wind speed: knots and tenths
LEMMA WindSpeed ==
  ASSUME NEW r \in Readings("11")
  PROVE  /\ IsDatagram(Build("11", r))
         /\ Parse("11", Build("11", r)) = {r}
<1> DEFINE d == Build("11", r)
           b1 == (IF r.knots_times_10 \div 10 > 127 THEN 127
                  ELSE r.knots_times_10 \div 10) + Bit(r.metric, 128)
           b2 == r.knots_times_10 % 10
<1>1. r \in [knots_times_10 : Knots, metric : BOOLEAN]
  BY DEF Readings
<1>2. /\ r.knots_times_10 \in Knots /\ r.metric \in BOOLEAN
      /\ r = [knots_times_10 |-> r.knots_times_10, metric |-> r.metric]
  BY <1>1
<1>3. d = Datagram(17, 4, 0, <<b1, b2>>)
  BY DEF Build, build_apparent_wind_speed
<1>4. b1 \in Char /\ b2 \in Char
  BY <1>2, Ranges DEF Bit, Char
<1>5. 10 * (b1 % 128) + last_nibble(b2) = r.knots_times_10
  BY <1>2, Ranges DEF Bit, last_nibble
<1>6. flag(b1, 128) = r.metric
  BY <1>2, Ranges DEF Bit, flag
<1> HIDE DEF d, b1, b2
<1>7. 17 \in Char /\ 4 \in 4..18 /\ 0 \in Nibble /\ b1 \in Int /\ b2 \in Int
  BY <1>4 DEF Char, Nibble
<1>8. Carries(d, 0, <<b1, b2>>)
  BY <1>3, <1>7, Carries2
<1>9. IsDatagram(d) /\ first_nibble(d[1]) = 0 /\ d[2] = b1 % 256
        /\ d[3] = b2 % 256
  BY <1>8 DEF Carries
<1>10. Parse("11", d)
        = {[knots_times_10 |-> 10 * (d[2] % 128) + last_nibble(d[3]),
            metric |-> flag(d[2], 128)]}
  BY DEF Parse, parse_apparent_wind_speed
<1>11. d[2] = b1 /\ d[3] = b2
  BY <1>4, <1>9 DEF Char
<1> QED
  BY <1>2, <1>9, <1>10, <1>11, <1>5, <1>6 DEF d

\* The fifth nibble of a mileage goes apart from its two bytes.
LEMMA FifthNibble ==
  ASSUME NEW v \in FiveNibbles
  PROVE  /\ Fifth(v) \in 0..15 /\ low_byte(v) \in 0..255 /\ high_byte(v) \in Int
         /\ 65536 * Fifth(v) + 256 * (high_byte(v) % 256) + low_byte(v) = v
<1>1. v \in Int /\ 0 <= v /\ v <= 1048575
  BY Ranges
<1>2. v = 256 * (v \div 256) + (v % 256) /\ v \div 256 \in Nat
        /\ v % 256 \in 0..255 /\ v \div 256 <= 4095
  BY <1>1
<1>3. v \div 65536 = (v \div 256) \div 256 /\ v \div 65536 \in 0..15
  BY <1>1
<1>4. v \div 256 = 256 * ((v \div 256) \div 256) + ((v \div 256) % 256)
  BY <1>2
<1> QED
  BY <1>1, <1>2, <1>3, <1>4 DEF Fifth, low_byte, high_byte

\* Trip mileage: five nibbles
LEMMA TripMileage ==
  ASSUME NEW r \in Readings("21")
  PROVE  /\ IsDatagram(Build("21", r))
         /\ Parse("21", Build("21", r)) = {r}
<1> DEFINE d == Build("21", r)
           b1 == high_byte(r.miles_times_100 \div 16)
           b2 == low_byte(r.miles_times_100 \div 16)
           b3 == r.miles_times_100 % 16
<1>1. r \in [miles_times_100 : FiveNibbles]
  BY DEF Readings
<1>2. /\ r.miles_times_100 \in FiveNibbles
      /\ r = [miles_times_100 |-> r.miles_times_100]
  BY <1>1
<1>3. d = Datagram(33, 5, 0, <<b1, b2, b3>>)
  BY DEF Build, build_trip_mileage
<1>4. b1 \in Char /\ b2 \in Char /\ b3 \in Nibble
  <2>1. r.miles_times_100 \div 16 \in Word
    BY <1>2, Ranges
  <2>2. b3 \in Nibble
    BY <1>2, Ranges DEF Nibble
  <2> QED
    BY <2>1, <2>2, TwoBytesOfWord
<1>5. 16 * (256 * (b1 % 256) + (b2 % 256)) + b3 = r.miles_times_100
  <2>1. r.miles_times_100 \div 16 \in Word
    BY <1>2, Ranges
  <2>2. 256 * (b1 % 256) + (b2 % 256) = r.miles_times_100 \div 16
    BY <2>1, TwoBytesOfWord
  <2>3. 16 * (r.miles_times_100 \div 16) + b3 = r.miles_times_100
    BY <1>2, Ranges
  <2> QED
    BY <2>2, <2>3
<1> HIDE DEF d, b1, b2, b3
<1>6. 33 \in Char /\ 5 \in 5..18 /\ 0 \in Nibble /\ b1 \in Int /\ b2 \in Int /\
        b3 \in Int
  BY <1>4 DEF Char, Nibble
<1>7. Carries(d, 0, <<b1, b2, b3>>)
  BY <1>3, <1>6, Carries3
<1>8. IsDatagram(d) /\ first_nibble(d[1]) = 0 /\ d[2] = b1 % 256 /\
        d[3] = b2 % 256 /\ d[4] = b3 % 256
  BY <1>7 DEF Carries
<1>9. Parse("21", d)
        = {[miles_times_100 |->
              16 * two_bytes(d, 2) + last_nibble(d[4])]}
  BY DEF Parse, parse_trip_mileage
<1>10. last_nibble(d[4]) = b3
  BY <1>4, <1>8 DEF Nibble, last_nibble
<1>11. two_bytes(d, 2) = 256 * (b1 % 256) + (b2 % 256)
  BY <1>8 DEF two_bytes
<1> QED
  BY <1>2, <1>8, <1>9, <1>10, <1>11, <1>5 DEF d

\* Water temperature
LEMMA WaterTemperature ==
  ASSUME NEW r \in Readings("23")
  PROVE  /\ IsDatagram(Build("23", r))
         /\ Parse("23", Build("23", r)) = {r}
<1> DEFINE d == Build("23", r)
           high == Bit(r.defective, 4)
           b1 == Quotient(5 * (r.fahrenheit - 32), 9)
           b2 == r.fahrenheit
<1>1. r \in [fahrenheit : Char, defective : BOOLEAN]
  BY DEF Readings
<1>2. /\ r.fahrenheit \in Char /\ r.defective \in BOOLEAN
      /\ r = [fahrenheit |-> r.fahrenheit, defective |-> r.defective]
  BY <1>1
<1>3. d = Datagram(35, 4, high, <<b1, b2>>)
  BY DEF Build, build_water_temperature
<1>4. high \in Nibble /\ b1 \in Int /\ b2 \in Char
  BY <1>2 DEF Bit, Nibble, Char, Quotient
<1>5. flag(high, 4) = r.defective
  BY <1>2 DEF Bit, flag
<1>6. b2 = r.fahrenheit
  OBVIOUS
<1> HIDE DEF d, high, b1, b2
<1>7. 35 \in Char /\ 4 \in 4..18 /\ high \in Nibble /\ b1 \in Int /\ b2 \in Int
  BY <1>4 DEF Char, Nibble
<1>8. Carries(d, high, <<b1, b2>>)
  BY <1>3, <1>7, Carries2
<1>9. IsDatagram(d) /\ first_nibble(d[1]) = high /\ d[2] = b1 % 256 /\
        d[3] = b2 % 256
  BY <1>8 DEF Carries
<1>10. Parse("23", d)
        = {[fahrenheit |-> d[3], defective |-> flag(first_nibble(d[1]), 4)]}
  BY DEF Parse, parse_water_temperature
<1>11. d[3] = b2
  BY <1>4, <1>9 DEF Char
<1> QED
  BY <1>2, <1>9, <1>10, <1>11, <1>5, <1>6 DEF d

\* Units of speed and distance
LEMMA Units ==
  ASSUME NEW r \in Readings("24")
  PROVE  /\ IsDatagram(Build("24", r))
         /\ Parse("24", Build("24", r)) = {r}
<1> DEFINE d == Build("24", r)
           b1 == 0
           b2 == 0
           b3 == UnitsCode[r.units]
<1>1. r \in [units : DOMAIN UnitsCode]
  BY DEF Readings
<1>2. /\ r.units \in DOMAIN UnitsCode
      /\ r = [units |-> r.units]
  BY <1>1
<1>3. d = Datagram(36, 5, 0, <<b1, b2, b3>>)
  BY DEF Build, build_speed_distance_units
<1>4. b1 \in Char /\ b2 \in Char /\ b3 \in Char
  BY <1>2 DEF UnitsCode, Char
<1>5. \/ r.units = "nautical" /\ b3 = 0
      \/ r.units = "statute" /\ b3 = 6
      \/ r.units = "metric" /\ b3 = 134
  BY <1>2 DEF UnitsCode
<1> HIDE DEF d, b1, b2, b3
<1>6. 36 \in Char /\ 5 \in 5..18 /\ 0 \in Nibble /\ b1 \in Int /\ b2 \in Int /\
        b3 \in Int
  BY <1>4 DEF Char, Nibble
<1>7. Carries(d, 0, <<b1, b2, b3>>)
  BY <1>3, <1>6, Carries3
<1>8. IsDatagram(d) /\ first_nibble(d[1]) = 0 /\ d[2] = b1 % 256 /\
        d[3] = b2 % 256 /\ d[4] = b3 % 256
  BY <1>7 DEF Carries
<1>9. Parse("24", d)
        = {[units |-> IF d[4] \in {0, 6} THEN Coded(UnitsCode, d[4])
                      ELSE "metric"]}
  BY DEF Parse, parse_speed_distance_units
<1>10. d[4] = b3
  BY <1>4, <1>8 DEF Char
<1>11. /\ Coded(UnitsCode, 0) = "nautical"
      /\ Coded(UnitsCode, 6) = "statute"
  BY DEF Coded, UnitsCode
<1> QED
  BY <1>2, <1>8, <1>9, <1>10, <1>11, <1>5 DEF d

\* Both mileages: the fifth nibbles beside the length and after the bytes
LEMMA Mileages ==
  ASSUME NEW r \in Readings("25")
  PROVE  /\ IsDatagram(Build("25", r))
         /\ Parse("25", Build("25", r)) = {r}
<1> DEFINE d == Build("25", r)
           high == Fifth(r.total)
           b1 == low_byte(r.total)
           b2 == high_byte(r.total)
           b3 == low_byte(r.trip)
           b4 == high_byte(r.trip)
           b5 == 160 + Fifth(r.trip)
<1>1. r \in [total : FiveNibbles, trip : FiveNibbles]
  BY DEF Readings
<1>2. /\ r.total \in FiveNibbles /\ r.trip \in FiveNibbles
      /\ r = [total |-> r.total, trip |-> r.trip]
  BY <1>1
<1>3. d = Datagram(37, 7, high, <<b1, b2, b3, b4, b5>>)
  BY DEF Build, build_total_and_trip_mileage
<1>4. /\ high \in Nibble /\ b1 \in Char /\ b2 \in Int /\ b3 \in Char
      /\ b4 \in Int /\ b5 \in Char
  BY <1>2, FifthNibble DEF Nibble, Char
<1>5. 65536 * high + 256 * (b2 % 256) + b1 = r.total
  BY <1>2, FifthNibble
<1>6. 65536 * last_nibble(b5) + 256 * (b4 % 256) + b3 = r.trip
  BY <1>2, FifthNibble DEF last_nibble, Nibble
<1> HIDE DEF d, high, b1, b2, b3, b4, b5
<1>7. 37 \in Char /\ 7 \in 7..18 /\ high \in Nibble /\ b1 \in Int /\
        b2 \in Int /\
        b3 \in Int /\ b4 \in Int /\ b5 \in Int
  BY <1>4 DEF Char, Nibble
<1>8. Carries(d, high, <<b1, b2, b3, b4, b5>>)
  BY <1>3, <1>7, Carries5
<1>9. IsDatagram(d) /\ first_nibble(d[1]) = high /\ d[2] = b1 % 256 /\
        d[3] = b2 % 256 /\ d[4] = b3 % 256 /\ d[5] = b4 % 256 /\
        d[6] = b5 % 256
  BY <1>8 DEF Carries
<1>10. Parse("25", d)
        = {[total |-> 65536 * first_nibble(d[1]) + 256 * d[3] + d[2],
            trip  |-> 65536 * last_nibble(d[6]) + 256 * d[5] + d[4]]}
  BY DEF Parse, parse_total_and_trip_mileage
<1>11. d[2] = b1 /\ d[4] = b3 /\ d[6] = b5
  BY <1>4, <1>9 DEF Char
<1> QED
  BY <1>2, <1>9, <1>10, <1>11, <1>5, <1>6 DEF d

\* Average speed: two speeds and their flags
LEMMA AverageSpeed ==
  ASSUME NEW r \in Readings("26")
  PROVE  /\ IsDatagram(Build("26", r))
         /\ Parse("26", Build("26", r)) = {r}
<1> DEFINE d == Build("26", r)
           b1 == high_byte(r.knots_1)
           b2 == low_byte(r.knots_1)
           b3 == high_byte(r.knots_2)
           b4 == low_byte(r.knots_2)
           b5 == Bit(r.stopped, 1) + Bit(r.statute, 2)
                   + Bit(r.speed_1_from_sensor, 64)
                   + Bit(r.speed_2_is_average, 128)
<1>1. r \in [knots_1 : Word, knots_2 : Word, speed_1_from_sensor : BOOLEAN,
             speed_2_is_average : BOOLEAN, stopped : BOOLEAN, statute : BOOLEAN]
  BY DEF Readings
<1>2. /\ r.knots_1 \in Word /\ r.knots_2 \in Word /\
         r.speed_1_from_sensor \in BOOLEAN /\
         r.speed_2_is_average \in BOOLEAN /\ r.stopped \in BOOLEAN /\
         r.statute \in BOOLEAN
      /\ r = [knots_1 |-> r.knots_1, knots_2 |-> r.knots_2,
              speed_1_from_sensor |-> r.speed_1_from_sensor,
              speed_2_is_average |-> r.speed_2_is_average,
              stopped |-> r.stopped, statute |-> r.statute]
  BY <1>1
<1>3. d = Datagram(38, 7, 0, <<b1, b2, b3, b4, b5>>)
  BY DEF Build, build_average_water_speed
<1>4. /\ b1 \in Char /\ b2 \in Char /\ b3 \in Char /\ b4 \in Char
      /\ b5 \in Char
  <2>1. b5 \in Char
    BY DEF Bit, Char
  <2> QED
    BY <1>2, <2>1, TwoBytesOfWord
<1>5. /\ 256 * (b1 % 256) + (b2 % 256) = r.knots_1
      /\ 256 * (b3 % 256) + (b4 % 256) = r.knots_2
  BY <1>2, TwoBytesOfWord
<1>6. /\ flag(b5, 64) = r.speed_1_from_sensor
      /\ flag(b5, 128) = r.speed_2_is_average
  BY <1>2 DEF Bit, flag
<1>7. flag(b5, 1) = r.stopped /\ flag(b5, 2) = r.statute
  BY <1>2 DEF Bit, flag
<1> HIDE DEF d, b1, b2, b3, b4, b5
<1>8. 38 \in Char /\ 7 \in 7..18 /\ 0 \in Nibble /\ b1 \in Int /\ b2 \in Int /\
        b3 \in Int /\ b4 \in Int /\ b5 \in Int
  BY <1>4 DEF Char, Nibble
<1>9. Carries(d, 0, <<b1, b2, b3, b4, b5>>)
  BY <1>3, <1>8, Carries5
<1>10. IsDatagram(d) /\ first_nibble(d[1]) = 0 /\ d[2] = b1 % 256 /\
        d[3] = b2 % 256 /\ d[4] = b3 % 256 /\ d[5] = b4 % 256 /\
        d[6] = b5 % 256
  BY <1>9 DEF Carries
<1>11. Parse("26", d)
        = {[knots_1 |-> two_bytes(d, 2), knots_2 |-> two_bytes(d, 4),
            speed_1_from_sensor |-> flag(d[6], 64),
            speed_2_is_average |-> flag(d[6], 128),
            stopped |-> flag(d[6], 1), statute |-> flag(d[6], 2)]}
  BY DEF Parse, parse_average_water_speed
<1>12. d[6] = b5
  BY <1>4, <1>10 DEF Char
<1>13. two_bytes(d, 2) = r.knots_1 /\ two_bytes(d, 4) = r.knots_2
  BY <1>5, <1>10 DEF two_bytes
<1> QED
  BY <1>2, <1>10, <1>11, <1>12, <1>13, <1>6, <1>7 DEF d

\* Water temperature in tenths of a degree
LEMMA PreciseTemperature ==
  ASSUME NEW r \in Readings("27")
  PROVE  /\ IsDatagram(Build("27", r))
         /\ Parse("27", Build("27", r)) = {r}
<1> DEFINE d == Build("27", r)
           b1 == high_byte(r.celsius_times_10 + 100)
           b2 == low_byte(r.celsius_times_10 + 100)
<1>1. r \in [celsius_times_10 : Celsius]
  BY DEF Readings
<1>2. /\ r.celsius_times_10 \in Celsius
      /\ r = [celsius_times_10 |-> r.celsius_times_10]
  BY <1>1
<1>3. d = Datagram(39, 4, 0, <<b1, b2>>)
  BY DEF Build, build_precise_water_temperature
<1>4. /\ b1 \in Char /\ b2 \in Char
      /\ 256 * (b1 % 256) + (b2 % 256) = r.celsius_times_10 + 100
  <2>1. r.celsius_times_10 + 100 \in Word
    BY <1>2, Ranges
  <2> QED
    BY <2>1, TwoBytesOfWord
<1> HIDE DEF d, b1, b2
<1>5. 39 \in Char /\ 4 \in 4..18 /\ 0 \in Nibble /\ b1 \in Int /\ b2 \in Int
  BY <1>4 DEF Char, Nibble
<1>6. Carries(d, 0, <<b1, b2>>)
  BY <1>3, <1>5, Carries2
<1>7. IsDatagram(d) /\ first_nibble(d[1]) = 0 /\ d[2] = b1 % 256
        /\ d[3] = b2 % 256
  BY <1>6 DEF Carries
<1>8. Parse("27", d)
        = {[celsius_times_10 |-> two_bytes(d, 2) - 100]}
  BY DEF Parse, parse_precise_water_temperature
<1>9. two_bytes(d, 2) - 100 = r.celsius_times_10
  BY <1>2, <1>4, <1>7, Ranges DEF two_bytes
<1> QED
  BY <1>2, <1>7, <1>8, <1>9 DEF d

\* Wind alarms: a bit for each
LEMMA WindAlarms ==
  ASSUME NEW r \in Readings("66")
  PROVE  /\ IsDatagram(Build("66", r))
         /\ Parse("66", Build("66", r)) = {r}
<1> DEFINE d == Build("66", r)
           on(alarm) == alarm \in r.alarms
           b1 == Bit(on("apparent_wind_angle_low"), 128)
                   + Bit(on("apparent_wind_angle_high"), 64)
                   + Bit(on("apparent_wind_speed_low"), 32)
                   + Bit(on("apparent_wind_speed_high"), 16)
                   + Bit(on("true_wind_angle_low"), 8)
                   + Bit(on("true_wind_angle_high"), 4)
                   + Bit(on("true_wind_speed_low"), 2)
                   + Bit(on("true_wind_speed_high"), 1)
<1>1. r \in [alarms : SUBSET DOMAIN WindAlarm]
  BY DEF Readings
<1>2. /\ r.alarms \in SUBSET DOMAIN WindAlarm
      /\ r = [alarms |-> r.alarms]
  BY <1>1
<1>3. d = Datagram(102, 3, 0, <<b1>>)
  BY DEF Build, build_wind_alarm, WindAlarm
<1>4. b1 \in Char
  BY DEF Bit, Char
<1>5. /\ flag(b1, 128) <=> on("apparent_wind_angle_low")
      /\ flag(b1, 64) <=> on("apparent_wind_angle_high")
      /\ flag(b1, 32) <=> on("apparent_wind_speed_low")
      /\ flag(b1, 16) <=> on("apparent_wind_speed_high")
      /\ flag(b1, 8) <=> on("true_wind_angle_low")
      /\ flag(b1, 4) <=> on("true_wind_angle_high")
      /\ flag(b1, 2) <=> on("true_wind_speed_low")
      /\ flag(b1, 1) <=> on("true_wind_speed_high")
  <2>1. flag(b1, 128) <=> on("apparent_wind_angle_low")
    BY DEF Bit, flag
  <2>2. flag(b1, 64) <=> on("apparent_wind_angle_high")
    BY DEF Bit, flag
  <2>3. flag(b1, 32) <=> on("apparent_wind_speed_low")
    BY DEF Bit, flag
  <2>4. flag(b1, 16) <=> on("apparent_wind_speed_high")
    BY DEF Bit, flag
  <2>5. flag(b1, 8) <=> on("true_wind_angle_low")
    BY DEF Bit, flag
  <2>6. flag(b1, 4) <=> on("true_wind_angle_high")
    BY DEF Bit, flag
  <2>7. flag(b1, 2) <=> on("true_wind_speed_low")
    BY DEF Bit, flag
  <2>8. flag(b1, 1) <=> on("true_wind_speed_high")
    BY DEF Bit, flag
  <2> QED
    BY <2>1, <2>2, <2>3, <2>4, <2>5, <2>6, <2>7, <2>8
<1> HIDE DEF d, b1
<1>6. 102 \in Char /\ 3 \in 3..18 /\ 0 \in Nibble /\ b1 \in Int
  BY <1>4 DEF Char, Nibble
<1>7. Carries(d, 0, <<b1>>)
  BY <1>3, <1>6, Carries1
<1>8. IsDatagram(d) /\ first_nibble(d[1]) = 0 /\ d[2] = b1 % 256
  BY <1>7 DEF Carries
<1>9. Parse("66", d)
        = {[alarms |-> Marked(d[2], WindAlarm)]}
  BY DEF Parse, parse_wind_alarm
<1>10. d[2] = b1
  BY <1>4, <1>8 DEF Char
<1>11. Marked(b1, WindAlarm) = r.alarms
  <2>1. r.alarms \subseteq DOMAIN WindAlarm
    BY <1>2
  <2>2. \A a \in DOMAIN WindAlarm : flag(b1, WindAlarm[a]) <=> a \in r.alarms
    BY <1>5 DEF WindAlarm
  <2> QED
    BY <2>1, <2>2 DEF Marked
<1> QED
  BY <1>2, <1>8, <1>9, <1>10, <1>11 DEF d

\* The quarter turn and the pairs of degrees of a compass course, and the odd
\* degree in the high bit
LEMMA Compass ==
  ASSUME NEW c \in Degrees
  PROVE  LET u  == c \div 90 + 8 * ((c % 90) % 2)
             vw == (c % 90) \div 2
         IN  /\ u \in Nibble /\ vw \in 0..44
             /\ QuarterTurns(u, vw) + u \div 8 = c
             /\ \A t \in 0..3 : QuarterTurns(u, vw + 64 * t) = QuarterTurns(u, vw)
<1> DEFINE q == c \div 90
           rest == c % 90
           odd == rest % 2
           vw == rest \div 2
           u == q + 8 * odd
<1>1. c \in Int /\ 0 <= c /\ c <= 359
  BY Ranges
<1>2. q \in 0..3 /\ rest \in 0..89 /\ c = 90 * q + rest
  BY <1>1
<1> HIDE DEF q, rest
<1>3. odd \in 0..1 /\ vw \in 0..44 /\ rest = 2 * vw + odd
  BY <1>2
<1> HIDE DEF odd, vw
<1>4. u \in Nibble /\ u % 4 = q /\ u \div 8 = odd
  BY <1>2, <1>3 DEF Nibble
<1>5. \A t \in 0..3 : (vw + 64 * t) % 64 = vw
  BY <1>3
<1>6. vw % 64 = vw
  BY <1>3
<1> HIDE DEF u
<1>7. /\ u \in Nibble /\ vw \in 0..44
      /\ QuarterTurns(u, vw) + u \div 8 = c
      /\ \A t \in 0..3 : QuarterTurns(u, vw + 64 * t) = QuarterTurns(u, vw)
  BY <1>2, <1>3, <1>4, <1>5, <1>6 DEF QuarterTurns
<1> QED
  BY <1>7 DEF u, vw, odd, rest, q

\* Lamp intensity
LEMMA Lamp ==
  ASSUME NEW r \in Readings("30")
  PROVE  /\ IsDatagram(Build("30", r))
         /\ Parse("30", Build("30", r)) = {r}
<1> DEFINE d == Build("30", r)
           b1 == 4 * r.level
<1>1. r \in [level : 0..3]
  BY DEF Readings
<1>2. /\ r.level \in 0..3
      /\ r = [level |-> r.level]
  BY <1>1
<1>3. d = Datagram(48, 3, 0, <<b1>>)
  BY DEF Build, build_lamp_intensity
<1>4. b1 \in 0..12 /\ last_nibble(b1) \div 4 = r.level
  BY <1>2 DEF last_nibble
<1> HIDE DEF d, b1
<1>5. 48 \in Char /\ 3 \in 3..18 /\ 0 \in Nibble /\ b1 \in Int
  BY <1>4 DEF Char, Nibble
<1>6. Carries(d, 0, <<b1>>)
  BY <1>3, <1>5, Carries1
<1>7. IsDatagram(d) /\ first_nibble(d[1]) = 0 /\ d[2] = b1 % 256
  BY <1>6 DEF Carries
<1>8. Parse("30", d)
        = {[level |-> last_nibble(d[2]) \div 4]}
  BY DEF Parse, parse_lamp_intensity
<1>9. d[2] = b1
  BY <1>4, <1>7
<1> QED
  BY <1>2, <1>7, <1>8, <1>9, <1>4 DEF d

\* Latitude: south is the high bit of the minutes
LEMMA Latitude ==
  ASSUME NEW r \in Readings("50")
  PROVE  /\ IsDatagram(Build("50", r))
         /\ Parse("50", Build("50", r)) = {r}
<1> DEFINE d == Build("50", r)
           minutes == r.minutes_times_100 + Bit(r.hemisphere = "S", 32768)
           b1 == r.degrees
           b2 == high_byte(minutes)
           b3 == low_byte(minutes)
<1>1. r \in [hemisphere : {"N", "S"}, degrees : Char,
             minutes_times_100 : FifteenBits]
  BY DEF Readings
<1>2. /\ r.hemisphere \in {"N", "S"} /\ r.degrees \in Char /\
         r.minutes_times_100 \in FifteenBits
      /\ r = [hemisphere |-> r.hemisphere, degrees |-> r.degrees,
              minutes_times_100 |-> r.minutes_times_100]
  BY <1>1
<1>3. d = Datagram(80, 5, 0, <<b1, b2, b3>>)
  BY DEF Build, build_lat_position
<1>4. /\ b1 \in Char /\ b2 \in Char /\ b3 \in Char
      /\ 256 * (b2 % 256) + (b3 % 256) = minutes
  <2>1. minutes \in Word
    BY <1>2, Ranges DEF Bit
  <2> QED
    BY <1>2, <2>1, TwoBytesOfWord
<1>5. /\ flag(minutes, 32768) <=> r.hemisphere = "S"
      /\ minutes % 32768 = r.minutes_times_100
  BY <1>2, Ranges DEF Bit, flag
<1>6. b1 = r.degrees
  OBVIOUS
<1> HIDE DEF d, b1, b2, b3
<1>7. 80 \in Char /\ 5 \in 5..18 /\ 0 \in Nibble /\ b1 \in Int /\ b2 \in Int /\
        b3 \in Int
  BY <1>4 DEF Char, Nibble
<1>8. Carries(d, 0, <<b1, b2, b3>>)
  BY <1>3, <1>7, Carries3
<1>9. IsDatagram(d) /\ first_nibble(d[1]) = 0 /\ d[2] = b1 % 256 /\
        d[3] = b2 % 256 /\ d[4] = b3 % 256
  BY <1>8 DEF Carries
<1>10. Parse("50", d)
        = {[hemisphere |-> IF flag(two_bytes(d, 3), 32768) THEN "S"
                           ELSE "N",
            degrees |-> d[2],
            minutes_times_100 |-> two_bytes(d, 3) % 32768]}
  BY DEF Parse, parse_lat_position
<1>11. d[2] = b1
  BY <1>4, <1>9 DEF Char
<1>12. two_bytes(d, 3) = minutes
  BY <1>4, <1>9 DEF two_bytes
<1> QED
  BY <1>2, <1>9, <1>10, <1>11, <1>12, <1>5, <1>6 DEF d

\* Longitude: east is the high bit of the minutes
LEMMA Longitude ==
  ASSUME NEW r \in Readings("51")
  PROVE  /\ IsDatagram(Build("51", r))
         /\ Parse("51", Build("51", r)) = {r}
<1> DEFINE d == Build("51", r)
           minutes == r.minutes_times_100 + Bit(r.hemisphere # "W", 32768)
           b1 == r.degrees
           b2 == high_byte(minutes)
           b3 == low_byte(minutes)
<1>1. r \in [hemisphere : {"E", "W"}, degrees : Char,
             minutes_times_100 : FifteenBits]
  BY DEF Readings
<1>2. /\ r.hemisphere \in {"E", "W"} /\ r.degrees \in Char /\
         r.minutes_times_100 \in FifteenBits
      /\ r = [hemisphere |-> r.hemisphere, degrees |-> r.degrees,
              minutes_times_100 |-> r.minutes_times_100]
  BY <1>1
<1>3. d = Datagram(81, 5, 0, <<b1, b2, b3>>)
  BY DEF Build, build_lon_position
<1>4. /\ b1 \in Char /\ b2 \in Char /\ b3 \in Char
      /\ 256 * (b2 % 256) + (b3 % 256) = minutes
  <2>1. minutes \in Word
    BY <1>2, Ranges DEF Bit
  <2> QED
    BY <1>2, <2>1, TwoBytesOfWord
<1>5. /\ flag(minutes, 32768) <=> r.hemisphere = "E"
      /\ minutes % 32768 = r.minutes_times_100
  BY <1>2, Ranges DEF Bit, flag
<1>6. b1 = r.degrees
  OBVIOUS
<1> HIDE DEF d, b1, b2, b3
<1>7. 81 \in Char /\ 5 \in 5..18 /\ 0 \in Nibble /\ b1 \in Int /\ b2 \in Int /\
        b3 \in Int
  BY <1>4 DEF Char, Nibble
<1>8. Carries(d, 0, <<b1, b2, b3>>)
  BY <1>3, <1>7, Carries3
<1>9. IsDatagram(d) /\ first_nibble(d[1]) = 0 /\ d[2] = b1 % 256 /\
        d[3] = b2 % 256 /\ d[4] = b3 % 256
  BY <1>8 DEF Carries
<1>10. Parse("51", d)
        = {[hemisphere |-> IF flag(two_bytes(d, 3), 32768) THEN "E"
                           ELSE "W",
            degrees |-> d[2],
            minutes_times_100 |-> two_bytes(d, 3) % 32768]}
  BY DEF Parse, parse_lon_position
<1>11. d[2] = b1
  BY <1>4, <1>9 DEF Char
<1>12. two_bytes(d, 3) = minutes
  BY <1>4, <1>9 DEF two_bytes
<1> QED
  BY <1>2, <1>9, <1>10, <1>11, <1>12, <1>5, <1>6 DEF d

\* Course over ground
LEMMA Course ==
  ASSUME NEW r \in Readings("53")
  PROVE  /\ IsDatagram(Build("53", r))
         /\ Parse("53", Build("53", r)) = {r}
<1> DEFINE d == Build("53", r)
           high == r.degrees \div 90 + 8 * ((r.degrees % 90) % 2)
           b1 == (r.degrees % 90) \div 2
<1>1. r \in [degrees : Degrees]
  BY DEF Readings
<1>2. /\ r.degrees \in Degrees
      /\ r = [degrees |-> r.degrees]
  BY <1>1
<1>3. d = Datagram(83, 3, high, <<b1>>)
  BY DEF Build, build_course_over_ground, uvw_compass
<1>4. high \in Nibble /\ b1 \in Char /\ b1 < 64
  BY <1>2, Compass DEF Char
<1>5. QuarterTurns(high, b1) + high \div 8 = r.degrees
  BY <1>2, Compass
<1> HIDE DEF d, high, b1
<1>6. 83 \in Char /\ 3 \in 3..18 /\ high \in Nibble /\ b1 \in Int
  BY <1>4 DEF Char, Nibble
<1>7. Carries(d, high, <<b1>>)
  BY <1>3, <1>6, Carries1
<1>8. IsDatagram(d) /\ first_nibble(d[1]) = high /\ d[2] = b1 % 256
  BY <1>7 DEF Carries
<1>9. Parse("53", d)
        = {[degrees |-> QuarterTurns(first_nibble(d[1]), d[2])
                          + first_nibble(d[1]) \div 8]}
  BY DEF Parse, parse_course_over_ground
<1>10. d[2] = b1
  BY <1>4, <1>8 DEF Char
<1> QED
  BY <1>2, <1>8, <1>9, <1>10, <1>5 DEF d

\* Time: the low bits of the second beside the length
LEMMA Time ==
  ASSUME NEW r \in Readings("54")
  PROVE  /\ IsDatagram(Build("54", r))
         /\ Parse("54", Build("54", r)) = {r}
<1> DEFINE d == Build("54", r)
           high == r.second % 16
           b1 == 4 * r.minute + r.second \div 16
           b2 == r.hour
<1>1. r \in [hour : Char, minute : 0..63, second : 0..63]
  BY DEF Readings
<1>2. /\ r.hour \in Char /\ r.minute \in 0..63 /\ r.second \in 0..63
      /\ r = [hour |-> r.hour, minute |-> r.minute, second |-> r.second]
  BY <1>1
<1>3. d = Datagram(84, 4, high, <<b1, b2>>)
  BY DEF Build, build_gmt_time
<1>4. high \in Nibble /\ b1 \in Char /\ b2 \in Char
  BY <1>2 DEF Nibble, Char
<1>5. /\ b1 \div 4 = r.minute
      /\ 16 * (b1 % 4) + high = r.second
  BY <1>2
<1>6. b2 = r.hour
  OBVIOUS
<1> HIDE DEF d, high, b1, b2
<1>7. 84 \in Char /\ 4 \in 4..18 /\ high \in Nibble /\ b1 \in Int /\ b2 \in Int
  BY <1>4 DEF Char, Nibble
<1>8. Carries(d, high, <<b1, b2>>)
  BY <1>3, <1>7, Carries2
<1>9. IsDatagram(d) /\ first_nibble(d[1]) = high /\ d[2] = b1 % 256 /\
        d[3] = b2 % 256
  BY <1>8 DEF Carries
<1>10. Parse("54", d)
        = {[hour |-> d[3], minute |-> d[2] \div 4,
            second |-> 16 * (d[2] % 4) + first_nibble(d[1])]}
  BY DEF Parse, parse_gmt_time
<1>11. d[2] = b1 /\ d[3] = b2
  BY <1>4, <1>9 DEF Char
<1> QED
  BY <1>2, <1>9, <1>10, <1>11, <1>5, <1>6 DEF d

\* Date
LEMMA Date ==
  ASSUME NEW r \in Readings("56")
  PROVE  /\ IsDatagram(Build("56", r))
         /\ Parse("56", Build("56", r)) = {r}
<1> DEFINE d == Build("56", r)
           high == r.month
           b1 == r.day
           b2 == r.year - 1970
<1>1. r \in [year : Between(1970, 2225), month : Nibble, day : Char]
  BY DEF Readings
<1>2. /\ r.year \in Between(1970, 2225) /\ r.month \in Nibble /\ r.day \in Char
      /\ r = [year |-> r.year, month |-> r.month, day |-> r.day]
  BY <1>1
<1>3. d = Datagram(86, 4, high, <<b1, b2>>)
  BY DEF Build, build_date
<1>4. high \in Nibble /\ b1 \in Char /\ b2 \in Char
  BY <1>2 DEF Between, Char
<1>5. high = r.month /\ b1 = r.day
  OBVIOUS
<1>6. b2 + 1970 = r.year
  BY <1>2 DEF Between
<1> HIDE DEF d, high, b1, b2
<1>7. 86 \in Char /\ 4 \in 4..18 /\ high \in Nibble /\ b1 \in Int /\ b2 \in Int
  BY <1>4 DEF Char, Nibble
<1>8. Carries(d, high, <<b1, b2>>)
  BY <1>3, <1>7, Carries2
<1>9. IsDatagram(d) /\ first_nibble(d[1]) = high /\ d[2] = b1 % 256 /\
        d[3] = b2 % 256
  BY <1>8 DEF Carries
<1>10. Parse("56", d)
        = {[year |-> d[3] + 1970, month |-> first_nibble(d[1]), day |-> d[2]]}
  BY DEF Parse, parse_date
<1>11. d[2] = b1 /\ d[3] = b2
  BY <1>4, <1>9 DEF Char
<1> QED
  BY <1>2, <1>9, <1>10, <1>11, <1>5, <1>6 DEF d

\* Satellites
LEMMA Satellites ==
  ASSUME NEW r \in Readings("57")
  PROVE  /\ IsDatagram(Build("57", r))
         /\ Parse("57", Build("57", r)) = {r}
<1> DEFINE d == Build("57", r)
           high == r.satellites
           b1 == r.dilution
<1>1. r \in [satellites : Nibble, dilution : Char]
  BY DEF Readings
<1>2. /\ r.satellites \in Nibble /\ r.dilution \in Char
      /\ r = [satellites |-> r.satellites, dilution |-> r.dilution]
  BY <1>1
<1>3. d = Datagram(87, 3, high, <<b1>>)
  BY DEF Build, build_satellite_info
<1>4. high \in Nibble /\ b1 \in Char
  BY <1>2
<1>5. high = r.satellites /\ b1 = r.dilution
  OBVIOUS
<1> HIDE DEF d, high, b1
<1>6. 87 \in Char /\ 3 \in 3..18 /\ high \in Nibble /\ b1 \in Int
  BY <1>4 DEF Char, Nibble
<1>7. Carries(d, high, <<b1>>)
  BY <1>3, <1>6, Carries1
<1>8. IsDatagram(d) /\ first_nibble(d[1]) = high /\ d[2] = b1 % 256
  BY <1>7 DEF Carries
<1>9. Parse("57", d)
        = {[satellites |-> first_nibble(d[1]), dilution |-> d[2]]}
  BY DEF Parse, parse_satellite_info
<1>10. d[2] = b1
  BY <1>4, <1>8 DEF Char
<1> QED
  BY <1>2, <1>8, <1>9, <1>10, <1>5 DEF d

\* Position: the hemispheres beside the length
LEMMA LatLon ==
  ASSUME NEW r \in Readings("58")
  PROVE  /\ IsDatagram(Build("58", r))
         /\ Parse("58", Build("58", r)) = {r}
<1> DEFINE d == Build("58", r)
           high == Bit(r.ns = "S", 1) + Bit(r.ew = "E", 2)
           b1 == r.lat
           b2 == high_byte(r.lat_minutes_times_1000)
           b3 == low_byte(r.lat_minutes_times_1000)
           b4 == r.lon
           b5 == high_byte(r.lon_minutes_times_1000)
           b6 == low_byte(r.lon_minutes_times_1000)
<1>1. r \in [ns : {"N", "S"}, lat : Char, lat_minutes_times_1000 : Word,
             ew : {"E", "W"}, lon : Char, lon_minutes_times_1000 : Word]
  BY DEF Readings
<1>2. /\ r.ns \in {"N", "S"} /\ r.lat \in Char /\
         r.lat_minutes_times_1000 \in Word /\
         r.ew \in {"E", "W"} /\ r.lon \in Char /\
         r.lon_minutes_times_1000 \in Word
      /\ r = [ns |-> r.ns, lat |-> r.lat,
              lat_minutes_times_1000 |-> r.lat_minutes_times_1000, ew |-> r.ew,
              lon |-> r.lon,
              lon_minutes_times_1000 |-> r.lon_minutes_times_1000]
  BY <1>1
<1>3. d = Datagram(88, 8, high, <<b1, b2, b3, b4, b5, b6>>)
  BY DEF Build, build_lat_lon_position
<1>4. /\ high \in Nibble /\ b1 \in Char /\ b2 \in Char /\ b3 \in Char
      /\ b4 \in Char /\ b5 \in Char /\ b6 \in Char
  <2>1. high \in Nibble
    BY DEF Bit, Nibble
  <2> QED
    BY <1>2, <2>1, TwoBytesOfWord
<1>5. /\ 256 * (b2 % 256) + (b3 % 256) = r.lat_minutes_times_1000
      /\ 256 * (b5 % 256) + (b6 % 256) = r.lon_minutes_times_1000
  BY <1>2, TwoBytesOfWord
<1>6. /\ flag(high, 1) <=> r.ns = "S"
      /\ flag(high, 2) <=> r.ew = "E"
  BY DEF Bit, flag
<1>7. b1 = r.lat /\ b4 = r.lon
  OBVIOUS
<1> HIDE DEF d, high, b1, b2, b3, b4, b5, b6
<1>8. 88 \in Char /\ 8 \in 8..18 /\ high \in Nibble /\ b1 \in Int /\
        b2 \in Int /\
        b3 \in Int /\ b4 \in Int /\ b5 \in Int /\ b6 \in Int
  BY <1>4 DEF Char, Nibble
<1>9. Carries(d, high, <<b1, b2, b3, b4, b5, b6>>)
  BY <1>3, <1>8, Carries6
<1>10. IsDatagram(d) /\ first_nibble(d[1]) = high /\ d[2] = b1 % 256 /\
        d[3] = b2 % 256 /\ d[4] = b3 % 256 /\ d[5] = b4 % 256 /\
        d[6] = b5 % 256 /\ d[7] = b6 % 256
  BY <1>9 DEF Carries
<1>11. Parse("58", d)
        = {[ns |-> IF flag(first_nibble(d[1]), 1) THEN "S" ELSE "N", lat |-> d[2],
            lat_minutes_times_1000 |-> two_bytes(d, 3),
            ew |-> IF flag(first_nibble(d[1]), 2) THEN "E" ELSE "W",
            lon |-> d[5], lon_minutes_times_1000 |-> two_bytes(d, 6)]}
  BY DEF Parse, parse_lat_lon_position
<1>12. d[2] = b1 /\ d[5] = b4
  BY <1>4, <1>10 DEF Char
<1>13. /\ two_bytes(d, 3) = r.lat_minutes_times_1000
      /\ two_bytes(d, 6) = r.lon_minutes_times_1000
  BY <1>5, <1>10 DEF two_bytes
<1> QED
  BY <1>2, <1>10, <1>11, <1>12, <1>13, <1>6, <1>7 DEF d

\* Failures of the course computer
LEMMA CourseComputer ==
  ASSUME NEW r \in Readings("83")
  PROVE  /\ IsDatagram(Build("83", r))
         /\ Parse("83", Build("83", r)) = {r}
<1> DEFINE d == Build("83", r)
           b1 == FailureCode[r.failure]
<1>1. r \in [failure : DOMAIN FailureCode]
  BY DEF Readings
<1>2. /\ r.failure \in DOMAIN FailureCode
      /\ r = [failure |-> r.failure]
  BY <1>1
<1>3. d = Datagram(131, 10, 0, <<b1>>)
  BY DEF Build, build_course_computer_failure
<1>4. b1 \in Char /\ Coded(FailureCode, b1) = r.failure
  BY <1>2 DEF FailureCode, Coded, Char
<1> HIDE DEF d, b1
<1>5. 131 \in Char /\ 10 \in 3..18 /\ 0 \in Nibble /\ b1 \in Int
  BY <1>4 DEF Char, Nibble
<1>6. Carries(d, 0, <<b1>>)
  BY <1>3, <1>5, Carries1
<1>7. IsDatagram(d) /\ first_nibble(d[1]) = 0 /\ d[2] = b1 % 256
  BY <1>6 DEF Carries
<1>8. Parse("83", d)
        = {[failure |-> Coded(FailureCode, d[2])]}
  BY DEF Parse, parse_course_computer_failure
<1>9. d[2] = b1
  BY <1>4, <1>7 DEF Char
<1> QED
  BY <1>2, <1>7, <1>8, <1>9, <1>4 DEF d

\* Response level of the autopilot
LEMMA ResponseLevel ==
  ASSUME NEW r \in Readings("87")
  PROVE  /\ IsDatagram(Build("87", r))
         /\ Parse("87", Build("87", r)) = {r}
<1> DEFINE d == Build("87", r)
           b1 == LevelCode[r.level]
<1>1. r \in [level : DOMAIN LevelCode]
  BY DEF Readings
<1>2. /\ r.level \in DOMAIN LevelCode
      /\ r = [level |-> r.level]
  BY <1>1
<1>3. d = Datagram(135, 3, 0, <<b1>>)
  BY DEF Build, build_set_autopilot_response_level
<1>4. b1 \in Char /\ Coded(LevelCode, last_nibble(b1)) = r.level
  BY <1>2 DEF LevelCode, Coded, Char, last_nibble
<1> HIDE DEF d, b1
<1>5. 135 \in Char /\ 3 \in 3..18 /\ 0 \in Nibble /\ b1 \in Int
  BY <1>4 DEF Char, Nibble
<1>6. Carries(d, 0, <<b1>>)
  BY <1>3, <1>5, Carries1
<1>7. IsDatagram(d) /\ first_nibble(d[1]) = 0 /\ d[2] = b1 % 256
  BY <1>6 DEF Carries
<1>8. Parse("87", d)
        = {[level |-> Coded(LevelCode, last_nibble(d[2]))]}
  BY DEF Parse, parse_set_autopilot_response_level
<1>9. d[2] = b1
  BY <1>4, <1>7 DEF Char
<1> QED
  BY <1>2, <1>7, <1>8, <1>9, <1>4 DEF d

\* Rudder gain
LEMMA RudderGain ==
  ASSUME NEW r \in Readings("91")
  PROVE  /\ IsDatagram(Build("91", r))
         /\ Parse("91", Build("91", r)) = {r}
<1> DEFINE d == Build("91", r)
           b1 == r.gain % 16
<1>1. r \in [gain : Nibble]
  BY DEF Readings
<1>2. /\ r.gain \in Nibble
      /\ r = [gain |-> r.gain]
  BY <1>1
<1>3. d = Datagram(145, 3, 0, <<b1>>)
  BY DEF Build, build_set_rudder_gain
<1>4. b1 \in Char /\ last_nibble(b1) = r.gain
  BY <1>2 DEF Nibble, Char, last_nibble
<1> HIDE DEF d, b1
<1>5. 145 \in Char /\ 3 \in 3..18 /\ 0 \in Nibble /\ b1 \in Int
  BY <1>4 DEF Char, Nibble
<1>6. Carries(d, 0, <<b1>>)
  BY <1>3, <1>5, Carries1
<1>7. IsDatagram(d) /\ first_nibble(d[1]) = 0 /\ d[2] = b1 % 256
  BY <1>6 DEF Carries
<1>8. Parse("91", d)
        = {[gain |-> last_nibble(d[2])]}
  BY DEF Parse, parse_set_rudder_gain
<1>9. d[2] = b1
  BY <1>4, <1>7 DEF Char
<1> QED
  BY <1>2, <1>7, <1>8, <1>9, <1>4 DEF d

\* Compass variation, negative to the east
LEMMA Variation ==
  ASSUME NEW r \in Readings("99")
  PROVE  /\ IsDatagram(Build("99", r))
         /\ Parse("99", Build("99", r)) = {r}
<1> DEFINE d == Build("99", r)
           b1 == r.degrees
<1>1. r \in [degrees : SignedChar]
  BY DEF Readings
<1>2. /\ r.degrees \in SignedChar
      /\ r = [degrees |-> r.degrees]
  BY <1>1
<1>3. d = Datagram(153, 3, 0, <<b1>>)
  BY DEF Build, build_compass_variation
<1>4. b1 \in SignedChar /\ fix_twos_complement_char(b1 % 256) = r.degrees
  BY <1>2, SignedCharBack
<1> HIDE DEF d, b1
<1>5. 153 \in Char /\ 3 \in 3..18 /\ 0 \in Nibble /\ b1 \in Int
  BY <1>4 DEF Char, Nibble, SignedChar
<1>6. Carries(d, 0, <<b1>>)
  BY <1>3, <1>5, Carries1
<1>7. IsDatagram(d) /\ first_nibble(d[1]) = 0 /\ d[2] = b1 % 256
  BY <1>6 DEF Carries
<1>8. Parse("99", d)
        = {[degrees |-> fix_twos_complement_char(d[2])]}
  BY DEF Parse, parse_compass_variation
<1> QED
  BY <1>2, <1>7, <1>8, <1>4 DEF d

-----------------------------------------------------------------------------
(* Headings                                                                *)

\* A heading cut into quarter turns and pairs of degrees
LEMMA Quarters ==
  ASSUME NEW rest \in 0..359
  PROVE  /\ rest \div 90 \in 0..3 /\ (rest % 90) \div 2 \in 0..44
         /\ 90 * (rest \div 90) + 2 * ((rest % 90) \div 2) = rest - (rest % 2)
<1> DEFINE q == rest \div 90
           p == (rest % 90) \div 2
<1>1. q \in 0..3 /\ rest % 90 \in 0..89 /\ rest = 90 * q + (rest % 90)
  OBVIOUS
<1>2. p \in 0..44 /\ rest % 90 = 2 * p + ((rest % 90) % 2)
  BY <1>1
<1>3. (rest % 90) % 2 = rest % 2
  BY <1>1
<1> QED
  BY <1>1, <1>2, <1>3

\* The bits of the nibble that a heading's quarter turns share with two others
LEMMA QuarterBits ==
  ASSUME NEW right \in BOOLEAN, NEW more \in BOOLEAN, NEW q \in 0..3
  PROVE  LET u == Bit(right, 8) + Bit(more, 4) + q IN
           /\ u \in Nibble /\ u % 4 = q
           /\ flag(u, 4) = more /\ flag(u, 8) = right
BY DEF Bit, Nibble, flag

\* A heading and a turning direction come back, but that a turn to the right at
\* 0 may come back as 360; the two bits above the pairs of degrees do not matter.
LEMMA HeadingAndTurn ==
  ASSUME NEW h \in Degrees, NEW turning
  PROVE  LET c == uvw_heading_and_turning_direction(h, turning) IN
           /\ c.u \in Nibble /\ c.vw \in 0..44
           /\ QuarterTurns(c.u, c.vw) + HighBits(c.u) \in {h, h + 360}
           /\ \A t \in 0..3 :
                QuarterTurns(c.u, c.vw + 64 * t) = QuarterTurns(c.u, c.vw)
           /\ Turning(c.u) = IF turning = "right" THEN "right" ELSE "left"
<1> DEFINE right == turning = "right"
           odd == h % 2 = 1
           more == odd # right
           rest == IF right /\ ~odd THEN (h + 359) % 360 ELSE h
           q == rest \div 90
           vw == (rest % 90) \div 2
           u == Bit(right, 8) + Bit(more, 4) + q
<1>1. h \in Int /\ 0 <= h /\ h <= 359
  BY Ranges
<1>2. rest \in 0..359
  BY <1>1
<1>3. ~right \/ odd => rest = h
  OBVIOUS
<1>4. right /\ ~odd => rest % 2 = 1 /\ rest \in {h - 1, h + 359}
  <2>1. CASE h = 0
    BY <2>1
  <2>2. CASE h > 0
    BY <1>1, <2>2
  <2> QED
    BY <1>1, <2>1, <2>2
<1>5. rest % 2 \in 0..1 /\ (h % 2 = 1 \/ h % 2 = 0)
  BY <1>1, <1>2
<1> HIDE DEF rest
<1>6. q \in 0..3 /\ vw \in 0..44 /\ 90 * q + 2 * vw = rest - (rest % 2)
  BY <1>2, Quarters
<1> HIDE DEF q, vw
<1>7. right \in BOOLEAN /\ more \in BOOLEAN
  OBVIOUS
<1>8. u \in Nibble /\ u % 4 = q /\ flag(u, 4) = more /\ flag(u, 8) = right
  BY <1>6, <1>7, QuarterBits
<1>9. uvw_heading_and_turning_direction(h, turning) = [u |-> u, vw |-> vw]
  BY DEF uvw_heading_and_turning_direction, rest, q, vw
<1> HIDE DEF u
<1>10. vw % 64 = vw /\ \A t \in 0..3 : (vw + 64 * t) % 64 = vw
  BY <1>6
<1>11. QuarterTurns(u, vw) = rest - (rest % 2)
  BY <1>6, <1>8, <1>10 DEF QuarterTurns
<1>12. \A t \in 0..3 : QuarterTurns(u, vw + 64 * t) = QuarterTurns(u, vw)
  BY <1>10 DEF QuarterTurns
<1>13. HighBits(u) = Bit(more, 1) + Bit(right, 1)
  BY <1>8 DEF HighBits
<1>14. rest - (rest % 2) + HighBits(u) \in {h, h + 360}
  <2>1. CASE right /\ ~odd
    BY <1>1, <1>4, <1>13, <2>1 DEF Bit
  <2>2. CASE right /\ odd
    BY <1>1, <1>3, <1>13, <2>2 DEF Bit
  <2>3. CASE ~right /\ odd
    BY <1>1, <1>3, <1>13, <2>3 DEF Bit
  <2>4. CASE ~right /\ ~odd
    BY <1>1, <1>3, <1>5, <1>13, <2>4 DEF Bit
  <2> QED
    BY <2>1, <2>2, <2>3, <2>4
<1>15. Turning(u) = IF right THEN "right" ELSE "left"
  BY <1>8 DEF Turning
<1> QED
  BY <1>6, <1>8, <1>9, <1>11, <1>12, <1>14, <1>15

\* Heading, with the heading an autopilot holds
LEMMA Heading ==
  ASSUME NEW r \in Readings("89")
  PROVE  /\ IsDatagram(Build("89", r))
         /\ Parse("89", Build("89", r)) = {r}
<1> DEFINE d == Build("89", r)
           high == r.heading \div 90 + 8 * ((r.heading % 90) % 2)
           b1 == (r.heading % 90) \div 2 + 64 * (r.locked \div 90)
           b2 == 2 * (r.locked % 90)
           b3 == 32 + Bit(r.locked_active, 2)
<1>1. r \in [heading : Degrees, locked_active : BOOLEAN, locked : Degrees]
  BY DEF Readings
<1>2. /\ r.heading \in Degrees /\ r.locked_active \in BOOLEAN /\ r.locked \in Degrees
      /\ r = [heading |-> r.heading, locked_active |-> r.locked_active,
              locked |-> r.locked]
  BY <1>1
<1>3. d = Datagram(137, 5, high, <<b1, b2, b3>>)
  BY DEF Build, build_heading, uvw_compass
<1>4. high \in Nibble /\ b1 \in Char /\ b2 \in Char /\ b3 \in Char
  <2>1. high \in Nibble /\ (r.heading % 90) \div 2 \in 0..44
    BY <1>2, Compass
  <2>2. r.locked \div 90 \in 0..3 /\ b2 \in 0..178
    BY <1>2, Ranges
  <2>3. b3 \in Char
    BY DEF Bit, Char
  <2> QED
    BY <2>1, <2>2, <2>3 DEF Char
<1>5. QuarterTurns(high, b1) + high \div 8 = r.heading
  <2>1. r.locked \div 90 \in 0..3
    BY <1>2, Ranges
  <2> QED
    BY <1>2, <2>1, Compass
<1>6. 90 * (b1 \div 64) + b2 \div 2 = r.locked
  <2>1. (r.heading % 90) \div 2 \in 0..44
    BY <1>2, Compass
  <2>2. r.locked \div 90 \in 0..3 /\ r.locked % 90 \in 0..89
          /\ 90 * (r.locked \div 90) + (r.locked % 90) = r.locked
    BY <1>2, Ranges
  <2>3. b1 \div 64 = r.locked \div 90 /\ b2 \div 2 = r.locked % 90
    BY <2>1, <2>2
  <2> QED
    BY <2>2, <2>3
<1>7. flag(last_nibble(b3), 2) = r.locked_active
  BY <1>2 DEF Bit, flag, last_nibble
<1> HIDE DEF d, high, b1, b2, b3
<1>8. 137 \in Char /\ 5 \in 5..18 /\ high \in Nibble /\ b1 \in Int /\
        b2 \in Int /\
        b3 \in Int
  BY <1>4 DEF Char, Nibble
<1>9. Carries(d, high, <<b1, b2, b3>>)
  BY <1>3, <1>8, Carries3
<1>10. IsDatagram(d) /\ first_nibble(d[1]) = high /\ d[2] = b1 % 256 /\
        d[3] = b2 % 256 /\ d[4] = b3 % 256
  BY <1>9 DEF Carries
<1>11. Parse("89", d)
        = {[heading |-> QuarterTurns(first_nibble(d[1]), d[2])
                          + first_nibble(d[1]) \div 8,
            locked_active |-> flag(last_nibble(d[4]), 2),
            locked |-> 90 * (d[2] \div 64) + d[3] \div 2]}
  BY DEF Parse, parse_heading
<1>12. d[2] = b1 /\ d[3] = b2 /\ d[4] = b3
  BY <1>4, <1>10 DEF Char
<1> QED
  BY <1>2, <1>10, <1>11, <1>12, <1>5, <1>6, <1>7 DEF d

\* An autopilot's status: the heading may come back as 360 for 0
LEMMA AutopilotStatus ==
  ASSUME NEW r \in Readings("84")
  PROVE  /\ IsDatagram(Build("84", r))
         /\ \E h \in {r.heading, r.heading + 360} :
              Parse("84", Build("84", r)) = {[r EXCEPT !.heading = h]}
<1> DEFINE d == Build("84", r)
           c == uvw_heading_and_turning_direction(r.heading, r.turning)
           high == c.u
           b1 == c.vw + 64 * (r.target \div 90)
           b2 == 2 * (r.target % 90)
           b3 == r.mode
           b4 == Bit("autopilot_off_course" \in r.alarms, 4)
                   + Bit("autopilot_wind_shift" \in r.alarms, 8)
           b5 == r.rudder
           b6 == r.display
           b7 == 0
<1>1. r \in [heading : Degrees, turning : Turns, target : Degrees,
             mode : Nibble,
             alarms : SUBSET DOMAIN AutopilotAlarm, rudder : SignedChar,
             display : Char]
  BY DEF Readings
<1>2. /\ r.heading \in Degrees /\ r.turning \in Turns /\ r.target \in Degrees /\
         r.mode \in Nibble /\ r.alarms \in SUBSET DOMAIN AutopilotAlarm /\
         r.rudder \in SignedChar /\ r.display \in Char
      /\ r = [heading |-> r.heading, turning |-> r.turning, target |-> r.target,
              mode |-> r.mode, alarms |-> r.alarms, rudder |-> r.rudder,
              display |-> r.display]
  BY <1>1
<1>3. d = Datagram(132, 9, high, <<b1, b2, b3, b4, b5, b6, b7>>)
  BY DEF Build, build_autopilot_status
<1>4. /\ high \in Nibble /\ b1 \in Char /\ b2 \in Char /\ b3 \in Nibble
      /\ b4 \in Nibble /\ b5 \in SignedChar /\ b6 \in Char /\ b7 = 0
  <2>1. high \in Nibble /\ c.vw \in 0..44
    BY <1>2, HeadingAndTurn
  <2>2. r.target \div 90 \in 0..3 /\ b2 \in 0..178
    BY <1>2, Ranges
  <2>3. b4 \in Nibble
    BY DEF Bit, Nibble
  <2>4. b1 \in Char
    BY <2>1, <2>2 DEF Char
  <2> QED
    BY <1>2, <2>1, <2>2, <2>3, <2>4 DEF Char
<1>5. QuarterTurns(high, b1) + HighBits(high) \in {r.heading, r.heading + 360}
  <2>1. r.target \div 90 \in 0..3
    BY <1>2, Ranges
  <2>2. QuarterTurns(high, b1) = QuarterTurns(c.u, c.vw)
    BY <1>2, <2>1, HeadingAndTurn
  <2>3. QuarterTurns(c.u, c.vw) + HighBits(c.u) \in {r.heading, r.heading + 360}
    BY <1>2, HeadingAndTurn
  <2> QED
    BY <2>2, <2>3
<1>6. Turning(high) = r.turning
  BY <1>2, HeadingAndTurn DEF Turns
<1>7. 90 * (b1 \div 64) + b2 \div 2 = r.target
  <2>1. c.vw \in 0..44
    BY <1>2, HeadingAndTurn
  <2>2. r.target \div 90 \in 0..3 /\ r.target % 90 \in 0..89
          /\ 90 * (r.target \div 90) + (r.target % 90) = r.target
    BY <1>2, Ranges
  <2>3. b1 \div 64 = r.target \div 90 /\ b2 \div 2 = r.target % 90
    BY <2>1, <2>2
  <2> QED
    BY <2>2, <2>3
<1>8. last_nibble(b3) = r.mode /\ last_nibble(b4) = b4 /\ b6 = r.display
  BY <1>2, <1>4 DEF last_nibble, Nibble
<1>9. fix_twos_complement_char(b5 % 256) = r.rudder
  BY <1>2, SignedCharBack
<1>10. /\ flag(b4, 4) <=> "autopilot_off_course" \in r.alarms
       /\ flag(b4, 8) <=> "autopilot_wind_shift" \in r.alarms
  BY DEF Bit, flag
<1> HIDE DEF d, high, b1, b2, b3, b4, b5, b6, b7
<1>11. 132 \in Char /\ 9 \in 9..18 /\ high \in Nibble /\ b1 \in Int /\
        b2 \in Int /\
        b3 \in Int /\ b4 \in Int /\ b5 \in Int /\ b6 \in Int /\ b7 \in Int
  BY <1>4 DEF Char, Nibble, SignedChar
<1>12. Carries(d, high, <<b1, b2, b3, b4, b5, b6, b7>>)
  BY <1>3, <1>11, Carries7
<1>13. IsDatagram(d) /\ first_nibble(d[1]) = high /\ d[2] = b1 % 256 /\
        d[3] = b2 % 256 /\ d[4] = b3 % 256 /\ d[5] = b4 % 256 /\
        d[6] = b5 % 256 /\ d[7] = b6 % 256 /\ d[8] = b7 % 256
  BY <1>12 DEF Carries
<1>14. Parse("84", d)
        = {[heading |-> QuarterTurns(first_nibble(d[1]), d[2])
                          + HighBits(first_nibble(d[1])),
            turning |-> Turning(first_nibble(d[1])),
            target |-> 90 * (d[2] \div 64) + d[3] \div 2,
            mode |-> last_nibble(d[4]),
            alarms |-> Marked(last_nibble(d[5]), AutopilotAlarm),
            rudder |-> fix_twos_complement_char(d[6]), display |-> d[7]]}
  BY DEF Parse, parse_autopilot_status
<1>15. d[2] = b1 /\ d[3] = b2 /\ d[4] = b3 /\ d[5] = b4 /\ d[7] = b6
  BY <1>4, <1>13 DEF Char, Nibble
<1>16. Marked(b4, AutopilotAlarm) = r.alarms
  <2>1. r.alarms \subseteq {"autopilot_off_course", "autopilot_wind_shift"}
    BY <1>2 DEF AutopilotAlarm
  <2>2. \A a \in {"autopilot_off_course", "autopilot_wind_shift"} :
          flag(b4, AutopilotAlarm[a]) <=> a \in r.alarms
    <3>1. AutopilotAlarm["autopilot_off_course"] = 4
            /\ AutopilotAlarm["autopilot_wind_shift"] = 8
      BY DEF AutopilotAlarm
    <3> QED
      BY <1>10, <3>1
  <2> QED
    BY <2>1, <2>2 DEF Marked, AutopilotAlarm
<1>17. /\ r.heading \in Int /\ 0 <= r.heading /\ r.heading <= 359
        /\ r.heading % 360 = r.heading
        /\ (r.heading + 360) % 360 = r.heading
  BY <1>2, Ranges
<1>18. \E h \in {r.heading, r.heading + 360} :
         Parse("84", d) = {[r EXCEPT !.heading = h]}
  BY <1>2, <1>5, <1>6, <1>7, <1>8, <1>9, <1>13, <1>14, <1>15, <1>16
<1> QED
  BY <1>2, <1>13, <1>14, <1>15, <1>16, <1>17, <1>18 DEF d

\* What sensors and instruments send: a direction that is not known goes out as
\* one to the left.
LEMMA HeadingAndRudder ==
  ASSUME NEW r, r \in [heading : Degrees, turning : Turns \cup {"none"},
                       rudder : SignedChar]
  PROVE  /\ IsDatagram(Build("9c", r))
         /\ Parse("9c", Build("9c", r))
              = {[r EXCEPT !.turning = IF @ = "right" THEN @ ELSE "left"]}
<1> DEFINE d == Build("9c", r)
           c == uvw_heading_and_turning_direction(r.heading, r.turning)
           high == c.u
           b1 == c.vw
           b2 == r.rudder
<1>1. /\ r.heading \in Degrees /\ r.turning \in Turns \cup {"none"}
      /\ r.rudder \in SignedChar
      /\ r = [heading |-> r.heading, turning |-> r.turning, rudder |-> r.rudder]
  OBVIOUS
<1>2. d = Datagram(156, 4, high, <<b1, b2>>)
  BY DEF Build, build_heading_and_rudder_position
<1>3. high \in Nibble /\ b1 \in Char /\ b2 \in SignedChar
  BY <1>1, HeadingAndTurn DEF Char
<1>4. (QuarterTurns(high, b1) + HighBits(high)) % 360 = r.heading
  <2>1. QuarterTurns(high, b1) + HighBits(high) \in {r.heading, r.heading + 360}
    BY <1>1, HeadingAndTurn
  <2>2. r.heading % 360 = r.heading /\ (r.heading + 360) % 360 = r.heading
    BY <1>1, Ranges
  <2> QED
    BY <2>1, <2>2
<1>5. Turning(high) = IF r.turning = "right" THEN "right" ELSE "left"
  BY <1>1, HeadingAndTurn
<1>6. fix_twos_complement_char(b2 % 256) = r.rudder
  BY <1>1, SignedCharBack
<1> HIDE DEF d, high, b1, b2
<1>7. 156 \in Char /\ 4 \in 4..18 /\ high \in Nibble /\ b1 \in Int /\ b2 \in Int
  BY <1>3 DEF Char, SignedChar, Nibble
<1>8. Carries(d, high, <<b1, b2>>)
  BY <1>2, <1>7, Carries2
<1>9. IsDatagram(d) /\ first_nibble(d[1]) = high /\ d[2] = b1 % 256
        /\ d[3] = b2 % 256
  BY <1>8 DEF Carries
<1>10. d[2] = b1
  BY <1>3, <1>9 DEF Char
<1>11. Parse("9c", d)
         = {[heading |-> (QuarterTurns(first_nibble(d[1]), d[2])
                            + HighBits(first_nibble(d[1]))) % 360,
             turning |-> Turning(first_nibble(d[1])),
             rudder |-> fix_twos_complement_char(d[3])]}
  BY DEF Parse, parse_heading_and_rudder_position
<1>12. Parse("9c", d)
         = {[heading |-> r.heading,
             turning |-> IF r.turning = "right" THEN "right" ELSE "left",
             rudder |-> r.rudder]}
  BY <1>4, <1>5, <1>6, <1>9, <1>10, <1>11
<1>13. [r EXCEPT !.turning = IF @ = "right" THEN @ ELSE "left"]
         = [heading |-> r.heading,
            turning |-> IF r.turning = "right" THEN "right" ELSE "left",
            rudder |-> r.rudder]
  BY <1>1
<1> QED
  BY <1>9, <1>12, <1>13 DEF d

-----------------------------------------------------------------------------
(* Datagrams that carry complements                                        *)

\* A byte and its complement
Complements(a, b) == a \in Char /\ b \in Char /\ a + b = 255

\* Between them they have each bit once ...
LEMMA ComplementsAreFull ==
  ASSUME NEW a, NEW b, Complements(a, b)
  PROVE  OrIsFull(a, b)
<1>1. a \in 0..255 /\ b = 255 - a
  BY DEF Complements, Char
<1>2. \A bit \in Weights :
        (a \div bit) % 2 = 1 \/ ((255 - a) \div bit) % 2 = 1
  BY <1>1 DEF Weights
<1> QED
  BY <1>1, <1>2 DEF OrIsFull, flag

\* ... and two bytes that have every bit between them add up to no less.
LEMMA FullIsLarge ==
  ASSUME NEW a \in Char, NEW b \in Char, OrIsFull(a, b)
  PROVE  a + b >= 255
BY DEF Char, OrIsFull, Weights, flag

\* What a build function makes of a byte and its complement
LEMMA ComplementBuilt ==
  ASSUME NEW v \in Char
  PROVE  /\ complement_checksum(v) \in Char
         /\ Complements(v % 256, complement_checksum(v) % 256)
BY DEF Char, Complements, complement_checksum

\* A command to the autopilot: a key and its complement
LEMMA Command ==
  ASSUME NEW r \in Readings("86")
  PROVE  LET d == Build("86", r) IN
           /\ IsDatagram(d) /\ Parse("86", d) = {r}
           /\ DOMAIN d = 0..3 /\ Complements(d[2], d[3])
<1> DEFINE d == Build("86", r)
           high == 2
           b1 == r.command
           b2 == complement_checksum(r.command)
<1>1. r \in [command : Char]
  BY DEF Readings
<1>2. /\ r.command \in Char
      /\ r = [command |-> r.command]
  BY <1>1
<1>3. d = Datagram(134, 4, high, <<b1, b2>>)
  BY DEF Build, build_autopilot_command
<1>4. b1 \in Char /\ b2 \in Char /\ Complements(b1 % 256, b2 % 256)
        /\ high \in Nibble
  BY <1>2, ComplementBuilt DEF Nibble
<1>5. b1 = r.command
  OBVIOUS
<1> HIDE DEF d, high, b1, b2
<1>6. 134 \in Char /\ 4 \in 4..18 /\ high \in Nibble /\ b1 \in Int /\ b2 \in Int
  BY <1>4 DEF Char, Nibble
<1>7. Carries(d, high, <<b1, b2>>)
  BY <1>3, <1>6, Carries2
<1>8. IsDatagram(d) /\ first_nibble(d[1]) = high /\ d[2] = b1 % 256 /\
        d[3] = b2 % 256
  BY <1>7 DEF Carries
<1>9. Complements(d[2], d[3]) /\ d[2] = r.command
  BY <1>4, <1>5, <1>8 DEF Char
<1>10. Parse("86", d) = IF ~OrIsFull(d[2], d[3]) THEN {}
                     ELSE {[command |-> d[2]]}
  BY DEF Parse, parse_autopilot_command
<1>11. OrIsFull(d[2], d[3])
  BY <1>9, ComplementsAreFull
<1>12. DOMAIN d = 0..3
  BY <1>3 DEF Datagram, Assigned, initialize_datagram
<1>13. Parse("86", d) = {r}
  BY <1>2, <1>9, <1>10, <1>11
<1> QED
  BY <1>2, <1>8, <1>9, <1>10, <1>11, <1>12, <1>13 DEF d

\* The name of a waypoint: four letters in three bytes, each with its complement
LEMMA WaypointName ==
  ASSUME NEW r \in Readings("82")
  PROVE  LET d == Build("82", r) IN
           /\ IsDatagram(d) /\ Parse("82", d) = {r} /\ DOMAIN d = 0..7
           /\ Complements(d[2], d[3]) /\ Complements(d[4], d[5])
           /\ Complements(d[6], d[7])
<1> DEFINE d == Build("82", r)
           c == [i \in 1..4 |-> r.name[i] - 48]
           b1 == (c[1] % 64) + 64 * (c[2] % 4)
           b2 == complement_checksum(b1)
           b3 == c[2] \div 4 + 16 * (c[3] % 16)
           b4 == complement_checksum(b3)
           b5 == ((c[3] \div 16) % 4) + 4 * c[4]
           b6 == complement_checksum(b5)
<1>1. r \in [name : [1..4 -> 48..111]]
  BY DEF Readings
<1>2. /\ r.name \in [1..4 -> 48..111]
      /\ r = [name |-> r.name]
  BY <1>1
<1>3. d = Datagram(130, 8, 0, <<b1, b2, b3, b4, b5, b6>>)
  BY DEF Build, build_target_waypoint_name
<1>4. /\ b1 \in Char /\ b3 \in Char /\ b5 \in Char
  <2>1. c[1] \in 0..63 /\ c[2] \in 0..63 /\ c[3] \in 0..63 /\ c[4] \in 0..63
    BY <1>2
  <2> QED
    BY <2>1 DEF Char
<1>5. /\ b2 \in Char /\ b4 \in Char /\ b6 \in Char
      /\ Complements(b1 % 256, b2 % 256)
      /\ Complements(b3 % 256, b4 % 256)
      /\ Complements(b5 % 256, b6 % 256)
  BY <1>4, ComplementBuilt
<1>6. /\ 48 + (b1 % 64) = r.name[1]
      /\ 48 + 4 * (b3 % 16) + b1 \div 64 = r.name[2]
      /\ 48 + 16 * (b5 % 4) + b3 \div 16 = r.name[3]
      /\ 48 + b5 \div 4 = r.name[4]
  <2>1. /\ r.name[1] \in 48..111 /\ r.name[2] \in 48..111
        /\ r.name[3] \in 48..111 /\ r.name[4] \in 48..111
    BY <1>2
  <2>2. /\ c[1] = r.name[1] - 48 /\ c[2] = r.name[2] - 48
        /\ c[3] = r.name[3] - 48 /\ c[4] = r.name[4] - 48
    OBVIOUS
  <2>3. c[1] \in 0..63 /\ c[2] \in 0..63 /\ c[3] \in 0..63 /\ c[4] \in 0..63
    BY <2>1, <2>2
  <2> HIDE DEF c
  <2>4. b1 % 64 = c[1] /\ b1 \div 64 = c[2] % 4
    BY <2>3
  <2>5. b3 % 16 = c[2] \div 4 /\ b3 \div 16 = c[3] % 16
    BY <2>3
  <2>6. b5 % 4 = c[3] \div 16 /\ b5 \div 4 = c[4]
    BY <2>3
  <2> QED
    BY <2>1, <2>2, <2>3, <2>4, <2>5, <2>6
<1> HIDE DEF d, b1, b2, b3, b4, b5, b6
<1>7. 130 \in Char /\ 8 \in 8..18 /\ 0 \in Nibble /\ b1 \in Int /\ b2 \in Int /\
        b3 \in Int /\ b4 \in Int /\ b5 \in Int /\ b6 \in Int
  BY <1>4, <1>5 DEF Char, Nibble
<1>8. Carries(d, 0, <<b1, b2, b3, b4, b5, b6>>)
  BY <1>3, <1>7, Carries6
<1>9. IsDatagram(d) /\ first_nibble(d[1]) = 0 /\ d[2] = b1 % 256 /\
        d[3] = b2 % 256 /\ d[4] = b3 % 256 /\ d[5] = b4 % 256 /\
        d[6] = b5 % 256 /\ d[7] = b6 % 256
  BY <1>8 DEF Carries
<1>10. d[2] = b1 /\ d[4] = b3 /\ d[6] = b5
  BY <1>4, <1>9 DEF Char
<1>11. /\ Complements(d[2], d[3]) /\ Complements(d[4], d[5])
       /\ Complements(d[6], d[7])
  BY <1>5, <1>9
<1>12. d[2] + d[3] = 255 /\ d[4] + d[5] = 255 /\ d[6] + d[7] = 255
  BY <1>11 DEF Complements
<1>13. Parse("82", d) = IF \E i \in {2, 4, 6} : d[i] + d[i + 1] # 255 THEN {}
                     ELSE {NameIn(d)}
  BY DEF Parse, parse_target_waypoint_name
<1>14. ~ \E i \in {2, 4, 6} : d[i] + d[i + 1] # 255
  BY <1>12
<1>15. NameIn(d) = [name |-> <<r.name[1], r.name[2], r.name[3], r.name[4]>>]
  BY <1>6, <1>10 DEF NameIn
<1>16. <<r.name[1], r.name[2], r.name[3], r.name[4]>> = r.name
  BY <1>2
<1>17. DOMAIN d = 0..7
  BY <1>3 DEF Datagram, Assigned, initialize_datagram
<1>18. Parse("82", d) = {r}
  BY <1>2, <1>13, <1>14, <1>15, <1>16
<1> QED
  BY <1>2, <1>9, <1>10, <1>11, <1>12, <1>13, <1>14, <1>15, <1>16, <1>17,
     <1>18 DEF d

\* The sum of six bits
SumOf(b1, b2, b4, b8, b16, b64) ==
  Bit(b16, 16) + Bit(b64, 64) + Bit(b1, 1) + Bit(b2, 2) + Bit(b4, 4)
    + Bit(b8, 8)

\* They do not touch each other.
LEMMA SixBits ==
  ASSUME NEW b1, NEW b2, NEW b4, NEW b8, NEW b16, NEW b64
  PROVE  LET v == SumOf(b1, b2, b4, b8, b16, b64) IN
           /\ v \in Char
           /\ (flag(v, 1) <=> b1) /\ (flag(v, 2) <=> b2) /\ (flag(v, 4) <=> b4)
           /\ (flag(v, 16) <=> b16) /\ (flag(v, 64) <=> b64)
<1> DEFINE v == Bit(b16, 16) + Bit(b64, 64) + Bit(b1, 1) + Bit(b2, 2)
                  + Bit(b4, 4) + Bit(b8, 8)
<1>1. /\ Bit(b1, 1) \in {0, 1} /\ Bit(b2, 2) \in {0, 2}
      /\ Bit(b4, 4) \in {0, 4} /\ Bit(b8, 8) \in {0, 8}
      /\ Bit(b16, 16) \in {0, 16} /\ Bit(b64, 64) \in {0, 64}
  BY DEF Bit
<1>2. v \in Char
  BY <1>1 DEF Char
<1>3. flag(v, 1) <=> b1
  BY <1>1 DEF Bit, flag
<1>4. flag(v, 2) <=> b2
  BY <1>1 DEF Bit, flag
<1>5. flag(v, 4) <=> b4
  BY <1>1 DEF Bit, flag
<1>6. flag(v, 16) <=> b16
  BY <1>1 DEF Bit, flag
<1>7. flag(v, 64) <=> b64
  BY <1>1 DEF Bit, flag
<1> QED
  BY <1>2, <1>3, <1>4, <1>5, <1>6, <1>7 DEF SumOf

\* A direction in quarter turns and the rest
LEMMA QuartersAndRest ==
  ASSUME NEW v \in Degrees
  PROVE  /\ v \div 90 \in 0..3 /\ v % 90 \in 0..89
         /\ 90 * (v \div 90) + (v % 90) = v
<1>1. v \in Int /\ 0 <= v /\ v <= 359
  BY Ranges
<1> QED
  BY <1>1

\* A bearing: quarter turns below the bit that says whether it is magnetic, the
\* rest in half degrees cut into two nibbles
LEMMA BearingBack ==
  ASSUME NEW q \in 0..3, NEW turn \in 0..178, NEW set \in BOOLEAN
  PROVE  LET b == 16 * (turn % 16) + q + Bit(set, 8) IN
           /\ b \in Char
           /\ b % 4 = q /\ (flag(b, 8) <=> set) /\ first_nibble(b) = turn % 16
<1> DEFINE n == turn % 16
           b == 16 * n + q + Bit(set, 8)
<1>1. n \in 0..15
  OBVIOUS
<1> HIDE DEF n
<1>2. Bit(set, 8) = IF set THEN 8 ELSE 0
  BY DEF Bit
<1>3. /\ b \in 0..255 /\ b % 4 = q /\ b \div 16 = n
      /\ b \div 8 = 2 * n + (IF set THEN 1 ELSE 0)
  BY <1>1, <1>2
<1> HIDE DEF b
<1>4. flag(b, 8) <=> set
  BY <1>1, <1>3 DEF flag
<1>5. first_nibble(b) = n
  BY <1>1, <1>3 DEF first_nibble
<1> QED
  BY <1>3, <1>4, <1>5 DEF n, b, Char

\* A range in twelve bits, in miles or hundredths, with the rest of a bearing
LEMMA RangeBack ==
  ASSUME NEW range \in Between(0, 4095), NEW turn \in 0..178
  PROVE  LET b == 16 * (range \div 256) + turn \div 16 IN
           /\ b \in Char /\ range % 256 \in Char
           /\ last_nibble(b) = turn \div 16
           /\ 256 * first_nibble(b) + (range % 256) = range
<1> DEFINE h == range \div 256
           t == turn \div 16
<1>1. range \in Int /\ 0 <= range /\ range <= 4095
  BY DEF Between
<1>2. /\ h \in 0..15 /\ range % 256 \in 0..255 /\ t \in 0..11
      /\ 256 * h + (range % 256) = range
  BY <1>1
<1> HIDE DEF h, t
<1>3. 16 * h + t \in 0..255 /\ (16 * h + t) % 16 = t
        /\ (16 * h + t) \div 16 = h /\ h % 16 = h
  BY <1>2
<1> QED
  BY <1>2, <1>3 DEF h, t, Char, last_nibble, first_nibble

\* The way to a waypoint: a range of ten miles or more loses its hundredths
LEMMA WaypointNavigation ==
  ASSUME NEW r \in Readings("85")
  PROVE  LET d == Build("85", r) IN
           /\ IsDatagram(d) /\ DOMAIN d = 0..8
           /\ Parse("85", d) = {[r EXCEPT !.range = IF @ < 1000 THEN @
                                                 ELSE 10 * (@ \div 10)]}
           /\ Complements(d[6], d[8])
<1> DEFINE d == Build("85", r)
           near == r.range < 1000
           range == IF near THEN r.range ELSE r.range \div 10
           turn == 2 * (r.bearing % 90)
           true == ~r.magnetic
           right == r.steer > 0
           far == r.error >= 30
           high == (r.error \div 256) % 16
           b1 == r.error % 256
           b2 == 16 * (turn % 16) + r.bearing \div 90 + Bit(true, 8)
           b3 == 16 * (range \div 256) + turn \div 16
           b4 == range % 256
           b5 == Bit(near, 16) + Bit(right, 64) + Bit(r.error_present, 1)
                   + Bit(r.bearing_present, 2) + Bit(r.range_present, 4)
                   + Bit(far, 8)
           b6 == 0
           b7 == complement_checksum(b5)
<1>1. r \in [error : Between(0, 4095), bearing : Degrees, magnetic : BOOLEAN,
             range : Between(0, 40959), steer : {-1, 1},
             error_present : BOOLEAN, bearing_present : BOOLEAN,
             range_present : BOOLEAN]
  BY DEF Readings
<1>2. /\ r.error \in Between(0, 4095) /\ r.bearing \in Degrees /\
         r.magnetic \in BOOLEAN /\ r.range \in Between(0, 40959) /\
         r.steer \in {-1, 1} /\ r.error_present \in BOOLEAN /\
         r.bearing_present \in BOOLEAN /\ r.range_present \in BOOLEAN
      /\ r = [error |-> r.error, bearing |-> r.bearing, magnetic |-> r.magnetic,
              range |-> r.range, steer |-> r.steer,
              error_present |-> r.error_present,
              bearing_present |-> r.bearing_present,
              range_present |-> r.range_present]
  BY <1>1
<1>3. d = Datagram(133, 9, high, <<b1, b2, b3, b4, b5, b6, b7>>)
  BY DEF Build, build_waypoint_navigation
<1>4. turn \in 0..178 /\ r.bearing \div 90 \in 0..3
        /\ 90 * (r.bearing \div 90) + turn \div 2 = r.bearing
  <2>1. r.bearing \div 90 \in 0..3 /\ r.bearing % 90 \in 0..89
          /\ 90 * (r.bearing \div 90) + (r.bearing % 90) = r.bearing
    BY <1>2, QuartersAndRest
  <2>2. turn \div 2 = r.bearing % 90
    BY <2>1
  <2> QED
    BY <2>1, <2>2
<1>5. r.error \in Int /\ 0 <= r.error /\ r.error <= 4095
        /\ r.range \in Int /\ 0 <= r.range /\ r.range <= 40959
        /\ near \in BOOLEAN /\ range \in Between(0, 4095)
  <2>1. r.error \in Int /\ 0 <= r.error /\ r.error <= 4095
          /\ r.range \in Int /\ 0 <= r.range /\ r.range <= 40959
    BY <1>2 DEF Between
  <2>2. near => range \in Int /\ 0 <= range /\ range <= 4095
    BY <2>1
  <2>3. ~near => range \in Int /\ 0 <= range /\ range <= 4095
    BY <2>1
  <2> QED
    BY <2>1, <2>2, <2>3 DEF Between
<1>6. /\ b2 \in Char /\ b2 % 4 = r.bearing \div 90
      /\ (flag(b2, 8) <=> true) /\ first_nibble(b2) = turn % 16
  <2>1. true \in BOOLEAN
    BY <1>2
  <2> HIDE DEF true
  <2> QED
    BY <1>4, <2>1, BearingBack
<1>7. /\ b3 \in Char /\ b4 \in Char /\ last_nibble(b3) = turn \div 16
      /\ 256 * first_nibble(b3) + b4 = range
  BY <1>4, <1>5, RangeBack
<1>8. /\ b5 \in Char /\ (flag(b5, 1) <=> r.error_present)
      /\ (flag(b5, 2) <=> r.bearing_present)
      /\ (flag(b5, 4) <=> r.range_present)
      /\ (flag(b5, 16) <=> near) /\ (flag(b5, 64) <=> right)
  <2>1. right \in BOOLEAN /\ far \in BOOLEAN /\ near \in BOOLEAN
          /\ r.error_present \in BOOLEAN /\ r.bearing_present \in BOOLEAN
          /\ r.range_present \in BOOLEAN
    BY <1>2
  <2> HIDE DEF right, far, near
  <2> DEFINE error == r.error_present
             bearing == r.bearing_present
             length == r.range_present
  <2>2. error \in BOOLEAN /\ bearing \in BOOLEAN /\ length \in BOOLEAN
    BY <2>1
  <2>3. b5 = SumOf(error, bearing, length, far, near, right)
    BY DEF SumOf
  <2> HIDE DEF error, bearing, length, b5
  <2>4. /\ b5 \in Char /\ (flag(b5, 1) <=> error)
        /\ (flag(b5, 2) <=> bearing) /\ (flag(b5, 4) <=> length)
        /\ (flag(b5, 16) <=> near) /\ (flag(b5, 64) <=> right)
    BY <2>1, <2>2, <2>3, SixBits
  <2> QED
    BY <2>4 DEF error, bearing, length
<1>9. b7 \in Char /\ Complements(b5 % 256, b7 % 256)
  BY <1>8, ComplementBuilt
<1>10. /\ b1 \in Char /\ high \in Nibble /\ 256 * high + b1 = r.error
       /\ b6 \in Char
  <2>1. r.error % 256 \in 0..255 /\ r.error \div 256 \in 0..15
          /\ 256 * (r.error \div 256) + (r.error % 256) = r.error
    BY <1>5
  <2>2. (r.error \div 256) % 16 = r.error \div 256
    BY <2>1
  <2> QED
    BY <2>1, <2>2 DEF Char, Nibble
<1> HIDE DEF d, high, b1, b2, b3, b4, b5, b6, b7
<1>11. 133 \in Char /\ 9 \in 9..18 /\ high \in Nibble /\ b1 \in Int /\
        b2 \in Int /\
        b3 \in Int /\ b4 \in Int /\ b5 \in Int /\ b6 \in Int /\ b7 \in Int
  BY <1>4, <1>5, <1>6, <1>7, <1>8, <1>9, <1>10 DEF Char, Nibble
<1>12. Carries(d, high, <<b1, b2, b3, b4, b5, b6, b7>>)
  BY <1>3, <1>11, Carries7
<1>13. IsDatagram(d) /\ first_nibble(d[1]) = high /\ d[2] = b1 % 256 /\
        d[3] = b2 % 256 /\ d[4] = b3 % 256 /\ d[5] = b4 % 256 /\
        d[6] = b5 % 256 /\ d[7] = b6 % 256 /\ d[8] = b7 % 256
  BY <1>12 DEF Carries
<1>14. d[2] = b1 /\ d[3] = b2 /\ d[4] = b3 /\ d[5] = b4 /\ d[6] = b5
  BY <1>6, <1>7, <1>8, <1>10, <1>13 DEF Char
<1>15. Complements(d[6], d[8])
  BY <1>9, <1>13
<1>16. OrIsFull(d[6], d[8])
  BY <1>15, ComplementsAreFull
<1>17. Parse("85", d)
         = {[error |-> 256 * first_nibble(d[1]) + d[2],
             bearing |-> 90 * (d[3] % 4)
                + (16 * last_nibble(d[4]) + first_nibble(d[3])) \div 2,
             magnetic |-> ~flag(d[3], 8),
             range |-> (256 * first_nibble(d[4]) + d[5])
                         * (IF flag(d[6], 16) THEN 1 ELSE 10),
             steer |-> IF flag(d[6], 64) THEN 1 ELSE -1,
             error_present |-> flag(d[6], 1),
             bearing_present |-> flag(d[6], 2),
             range_present |-> flag(d[6], 4)]}
  BY <1>16 DEF Parse, parse_waypoint_navigation
<1>18. (16 * last_nibble(d[4]) + first_nibble(d[3])) \div 2 = turn \div 2
  <2>1. 16 * (turn \div 16) + (turn % 16) = turn
    BY <1>4
  <2>2. 16 * last_nibble(d[4]) + first_nibble(d[3]) = turn
    BY <1>6, <1>7, <1>14, <2>1
  <2> QED
    BY <2>2
<1>19. (256 * first_nibble(d[4]) + d[5]) * (IF flag(d[6], 16) THEN 1 ELSE 10)
         = IF r.range < 1000 THEN r.range ELSE 10 * (r.range \div 10)
  <2>1. 256 * first_nibble(d[4]) + d[5] = range /\ (flag(d[6], 16) <=> near)
    BY <1>7, <1>8, <1>14
  <2>2. near => range = r.range
    OBVIOUS
  <2>3. ~near => range = r.range \div 10
    OBVIOUS
  <2> HIDE DEF range
  <2>4. CASE near
    <3>1. (256 * first_nibble(d[4]) + d[5])
            * (IF flag(d[6], 16) THEN 1 ELSE 10) = r.range * 1
      BY <2>1, <2>2, <2>4
    <3> QED
      BY <1>5, <2>4, <3>1
  <2>5. CASE ~near
    <3>1. (256 * first_nibble(d[4]) + d[5])
            * (IF flag(d[6], 16) THEN 1 ELSE 10) = (r.range \div 10) * 10
      BY <2>1, <2>3, <2>5
    <3> QED
      BY <1>5, <2>5, <3>1
  <2> QED
    BY <2>4, <2>5
<1>20. (IF flag(d[6], 64) THEN 1 ELSE -1) = r.steer
  <2>1. flag(d[6], 64) <=> r.steer > 0
    BY <1>8, <1>14
  <2>2. r.steer = 1 \/ r.steer = -1
    BY <1>2
  <2>3. CASE r.steer = 1
    BY <2>1, <2>3
  <2>4. CASE r.steer = -1
    BY <2>1, <2>4
  <2> QED
    BY <2>2, <2>3, <2>4
<1>21. DOMAIN d = 0..8
  BY <1>3 DEF Datagram, Assigned, initialize_datagram
<1>22. Parse("85", d) = {[r EXCEPT !.range = IF @ < 1000 THEN @
                                               ELSE 10 * (@ \div 10)]}
  <2>1. 256 * first_nibble(d[1]) + d[2] = r.error
    BY <1>10, <1>13, <1>14
  <2>2. 90 * (d[3] % 4)
          + (16 * last_nibble(d[4]) + first_nibble(d[3])) \div 2 = r.bearing
    BY <1>4, <1>6, <1>14, <1>18
  <2>3. (~flag(d[3], 8)) = r.magnetic
    BY <1>2, <1>6, <1>14
  <2>4. flag(d[6], 1) = r.error_present
    BY <1>2, <1>8, <1>14 DEF flag
  <2>5. flag(d[6], 2) = r.bearing_present
    BY <1>2, <1>8, <1>14 DEF flag
  <2>6. flag(d[6], 4) = r.range_present
    BY <1>2, <1>8, <1>14 DEF flag
  <2> QED
    BY <1>2, <1>17, <1>19, <1>20, <2>1, <2>2, <2>3, <2>4, <2>5, <2>6
<1> QED
  BY <1>2, <1>13, <1>14, <1>15, <1>16, <1>17, <1>18, <1>19, <1>20, <1>21,
     <1>22 DEF d

-----------------------------------------------------------------------------
(* Any report, and any values that are written to sensors                  *)

\* The bytes of a kind that are each other's complements
Pairs(kind) ==
  CASE kind = "82" -> {<<2, 3>>, <<4, 5>>, <<6, 7>>}
    [] kind = "85" -> {<<6, 8>>}
    [] kind = "86" -> {<<2, 3>>}
    [] OTHER       -> {}
Sum(d, pair) == d[pair[1]] + d[pair[2]]

\* A datagram of a kind as nobody has disturbed it
WellBuilt(kind, d) ==
  /\ IsDatagram(d)
  /\ \A pair \in Pairs(kind) :
       {pair[1], pair[2]} \subseteq DOMAIN d /\ Sum(d, pair) = 255

RoundTrip(kind, r) ==
  {Resolved(kind, p) : p \in Parse(kind, Build(kind, r))} = {Resolved(kind, r)}

LEMMA NoPairs ==
  ASSUME NEW kind, kind \notin {"82", "85", "86"}
  PROVE  Pairs(kind) = {}
BY DEF Pairs

\* A reading that comes back as it was comes back as what is resolved of it.
LEMMA Exactly ==
  ASSUME NEW kind, NEW r, kind \notin {"82", "85", "86"},
         IsDatagram(Build(kind, r)), Parse(kind, Build(kind, r)) = {r}
  PROVE  WellBuilt(kind, Build(kind, r)) /\ RoundTrip(kind, r)
<1>1. WellBuilt(kind, Build(kind, r))
  BY NoPairs DEF WellBuilt
<1>2. RoundTrip(kind, r)
  BY DEF RoundTrip
<1> QED
  BY <1>1, <1>2

\* What an instrument reports is a datagram, and what is parsed of it is what
\* was reported, whatever it reports.
LEMMA ReportBuilt ==
  ASSUME NEW kind \in Kinds, NEW r \in Readings(kind)
  PROVE  /\ WellBuilt(kind, Build(kind, r))
         /\ (kind = "05" => r.rpm >= 0) => RoundTrip(kind, r)
<1>1. CASE kind = "00"
  BY <1>1, Depth, Exactly
<1>2. CASE kind = "10"
  BY <1>2, WindAngle, Exactly
<1>3. CASE kind = "11"
  BY <1>3, WindSpeed, Exactly
<1>4. CASE kind = "20"
  BY <1>4, WaterSpeed, Exactly
<1>5. CASE kind = "21"
  BY <1>5, TripMileage, Exactly
<1>6. CASE kind = "22"
  BY <1>6, TotalMileage, Exactly
<1>7. CASE kind = "23"
  BY <1>7, WaterTemperature, Exactly
<1>8. CASE kind = "24"
  BY <1>8, Units, Exactly
<1>9. CASE kind = "25"
  BY <1>9, Mileages, Exactly
<1>10. CASE kind = "26"
  BY <1>10, AverageSpeed, Exactly
<1>11. CASE kind = "27"
  BY <1>11, PreciseTemperature, Exactly
<1>12. CASE kind = "30"
  BY <1>12, Lamp, Exactly
<1>13. CASE kind = "50"
  BY <1>13, Latitude, Exactly
<1>14. CASE kind = "51"
  BY <1>14, Longitude, Exactly
<1>15. CASE kind = "52"
  BY <1>15, SpeedOverGround, Exactly
<1>16. CASE kind = "53"
  BY <1>16, Course, Exactly
<1>17. CASE kind = "54"
  BY <1>17, Time, Exactly
<1>18. CASE kind = "56"
  BY <1>18, Date, Exactly
<1>19. CASE kind = "57"
  BY <1>19, Satellites, Exactly
<1>20. CASE kind = "58"
  BY <1>20, LatLon, Exactly
<1>21. CASE kind = "66"
  BY <1>21, WindAlarms, Exactly
<1>22. CASE kind = "83"
  BY <1>22, CourseComputer, Exactly
<1>23. CASE kind = "87"
  BY <1>23, ResponseLevel, Exactly
<1>24. CASE kind = "89"
  BY <1>24, Heading, Exactly
<1>25. CASE kind = "91"
  BY <1>25, RudderGain, Exactly
<1>26. CASE kind = "99"
  BY <1>26, Variation, Exactly
<1>27. CASE kind = "05"
  <2>1. IsDatagram(Build("05", r)) /\ (r.rpm >= 0 => Parse("05", Build("05", r)) = {r})
    BY <1>27, Engine
  <2>2. WellBuilt("05", Build("05", r))
    BY <2>1, NoPairs DEF WellBuilt
  <2>3. r.rpm >= 0 => RoundTrip("05", r)
    BY <2>1, Exactly
  <2> QED
    BY <1>27, <2>2, <2>3
<1>28. CASE kind = "82"
  <2> DEFINE d == Build("82", r)
  <2>1. IsDatagram(d) /\ Parse("82", d) = {r} /\ DOMAIN d = 0..7
          /\ Complements(d[2], d[3]) /\ Complements(d[4], d[5])
          /\ Complements(d[6], d[7])
    BY <1>28, WaypointName
  <2> HIDE DEF d
  <2>2. \A pair \in Pairs("82") :
          {pair[1], pair[2]} \subseteq DOMAIN d /\ Sum(d, pair) = 255
    BY <2>1 DEF Pairs, Sum, Complements
  <2>3. WellBuilt("82", d)
    BY <2>1, <2>2 DEF WellBuilt
  <2>4. RoundTrip("82", r)
    BY <2>1 DEF RoundTrip, d
  <2> QED
    BY <1>28, <2>3, <2>4 DEF d
<1>29. CASE kind = "86"
  <2> DEFINE d == Build("86", r)
  <2>1. IsDatagram(d) /\ Parse("86", d) = {r} /\ DOMAIN d = 0..3
          /\ Complements(d[2], d[3])
    BY <1>29, Command
  <2> HIDE DEF d
  <2>2. \A pair \in Pairs("86") :
          {pair[1], pair[2]} \subseteq DOMAIN d /\ Sum(d, pair) = 255
    BY <2>1 DEF Pairs, Sum, Complements
  <2>3. WellBuilt("86", d)
    BY <2>1, <2>2 DEF WellBuilt
  <2>4. RoundTrip("86", r)
    BY <2>1 DEF RoundTrip, d
  <2> QED
    BY <1>29, <2>3, <2>4 DEF d
<1>30. CASE kind = "84"
  <2>1. IsDatagram(Build("84", r))
    BY <1>30, AutopilotStatus
  <2>2. PICK h \in {r.heading, r.heading + 360} :
          Parse("84", Build("84", r)) = {[r EXCEPT !.heading = h]}
    BY <1>30, AutopilotStatus
  <2>3. r.heading \in Degrees
          /\ r = [heading |-> r.heading, turning |-> r.turning,
                  target |-> r.target, mode |-> r.mode, alarms |-> r.alarms,
                  rudder |-> r.rudder, display |-> r.display]
    BY <1>30 DEF Readings
  <2>4. h % 360 = r.heading % 360
    BY <2>2, <2>3, Ranges
  <2>5. Resolved("84", [r EXCEPT !.heading = h]) = Resolved("84", r)
    BY <2>3, <2>4 DEF Resolved
  <2>6. RoundTrip("84", r)
    BY <2>2, <2>5 DEF RoundTrip
  <2>7. WellBuilt("84", Build("84", r))
    BY <2>1, NoPairs DEF WellBuilt
  <2> QED
    BY <1>30, <2>6, <2>7
<1>31. CASE kind = "85"
  <2> DEFINE d == Build("85", r)
             range == IF r.range < 1000 THEN r.range ELSE 10 * (r.range \div 10)
             heard == [r EXCEPT !.range = range]
  <2>1. IsDatagram(d) /\ Parse("85", d) = {heard} /\ DOMAIN d = 0..8
          /\ Complements(d[6], d[8])
    BY <1>31, WaypointNavigation
  <2>2. r.range \in Int /\ 0 <= r.range
          /\ r = [error |-> r.error, bearing |-> r.bearing,
                  magnetic |-> r.magnetic, range |-> r.range,
                  steer |-> r.steer, error_present |-> r.error_present,
                  bearing_present |-> r.bearing_present,
                  range_present |-> r.range_present]
    BY <1>31 DEF Readings, Between
  <2> HIDE DEF d
  <2>3. (IF range < 1000 THEN range ELSE 10 * (range \div 10)) = range
    BY <2>2
  <2>4. heard.range = range /\ [heard EXCEPT !.range = range] = heard
    BY <2>2
  <2> HIDE DEF range
  <2>5. Resolved("85", r) = heard
    BY DEF Resolved, range
  <2>6. Resolved("85", heard) = heard
    BY <2>3, <2>4 DEF Resolved
  <2>7. RoundTrip("85", r)
    BY <2>1, <2>5, <2>6 DEF RoundTrip, d
  <2>8. \A pair \in Pairs("85") :
          {pair[1], pair[2]} \subseteq DOMAIN d /\ Sum(d, pair) = 255
    BY <2>1 DEF Pairs, Sum, Complements
  <2>9. WellBuilt("85", d)
    BY <2>1, <2>8 DEF WellBuilt
  <2> QED
    BY <1>31, <2>7, <2>9 DEF d
<1>32. CASE kind = "9c"
  <2>1. r \in [heading : Degrees, turning : Turns, rudder : SignedChar]
    BY <1>32 DEF Readings
  <2>2. r \in [heading : Degrees, turning : Turns \cup {"none"},
               rudder : SignedChar]
    BY <2>1
  <2>3. [r EXCEPT !.turning = IF @ = "right" THEN @ ELSE "left"] = r
    BY <2>1 DEF Turns
  <2>4. IsDatagram(Build("9c", r)) /\ Parse("9c", Build("9c", r)) = {r}
    BY <2>2, <2>3, HeadingAndRudder
  <2> QED
    BY <1>32, <2>4, Exactly
<1> QED
  BY <1>1, <1>2, <1>3, <1>4, <1>5, <1>6, <1>7, <1>8, <1>9, <1>10, <1>11,
     <1>12, <1>13, <1>14, <1>15, <1>16, <1>17, <1>18, <1>19, <1>20, <1>21,
     <1>22, <1>23, <1>24, <1>25, <1>26, <1>27, <1>28, <1>29, <1>30, <1>31,
     <1>32 DEF Kinds

\* A sensor's value is shown by a status of its name: a speed over ground in
\* tenths of a knot.
EchoShown(written, shown) ==
  LET Shown(s) == IF s = "speed_over_ground" THEN 10 * (written[s] \div 10)
                                             ELSE written[s]
  IN  /\ DOMAIN written \ {"water_speed"} \subseteq DOMAIN shown
      /\ \A s \in DOMAIN written \cap DOMAIN shown : shown[s] = Shown(s)

\* What the driver sends of its sensors is a datagram, whose echo it parses ...
EchoParsed(w, kind, r, p) ==
  /\ SensorReport(w) = [kind |-> kind, reading |-> r]
  /\ kind \in Kinds \ {"82", "85", "86"}
  /\ IsDatagram(Build(kind, r)) /\ Parse(kind, Build(kind, r)) = {p}
  /\ EchoShown(w, Statuses(kind, p))

\* ... and of which it sets statuses that show what was written.
LEMMA SensorBuilt ==
  ASSUME NEW w \in SensorValues
  PROVE  \E kind, r, p : EchoParsed(w, kind, r, p)
<1>1. CASE w \in [heading : Degrees]
  <2> DEFINE r == [heading |-> w.heading, locked_active |-> FALSE, locked |-> 0]
             p == r
  <2>1. w.heading \in Degrees
          /\ DOMAIN w = {"heading"}
    BY <1>1
  <2>2. SensorReport(w) = [kind |-> "89", reading |-> r]
    <3>1. "rudder_position" \notin DOMAIN w
      BY <2>1
    <3>2. DOMAIN w # {"heading", "rudder_position"}
      BY <3>1, <2>1
    <3>3. DOMAIN w = {"heading"}
      BY <3>1, <2>1
    <3> QED
      BY <3>2, <3>3 DEF SensorReport
  <2>3. 0 \in Degrees
    BY Ranges
  <2>4. r \in Readings("89")
    BY <2>1, <2>3 DEF Readings
  <2>5. IsDatagram(Build("89", r)) /\ Parse("89", Build("89", r)) = {p}
    BY <2>4, Heading
  <2>6. EchoShown(w, Statuses("89", p))
    BY <2>1 DEF EchoShown, Statuses
  <2> HIDE DEF r, p
  <2>7. EchoParsed(w, "89", r, p)
    BY <2>2, <2>5, <2>6 DEF EchoParsed, Kinds
  <2> QED
    BY <2>7
<1>2. CASE w \in [heading : Degrees, rudder_position : SignedChar]
  <2> DEFINE r == [heading |-> w.heading, turning |-> "none",
                  rudder |-> w.rudder_position]
             p == [r EXCEPT !.turning = IF @ = "right" THEN @ ELSE "left"]
  <2>1. w.heading \in Degrees /\ w.rudder_position \in SignedChar
          /\ DOMAIN w = {"heading", "rudder_position"}
    BY <1>2
  <2>2. SensorReport(w) = [kind |-> "9c", reading |-> r]
    <3>1. "rudder_position" \in DOMAIN w
      BY <2>1
    <3>2. DOMAIN w = {"heading", "rudder_position"}
      BY <3>1, <2>1
    <3>3. DOMAIN w # {"heading"}
      BY <3>1, <2>1
    <3> QED
      BY <3>2, <3>3 DEF SensorReport
  <2>4. r \in [heading : Degrees, turning : Turns \cup {"none"},
               rudder : SignedChar]
    BY <2>1 DEF Readings
  <2>5. IsDatagram(Build("9c", r)) /\ Parse("9c", Build("9c", r)) = {p}
    BY <2>4, HeadingAndRudder
  <2>6. EchoShown(w, Statuses("9c", p))
    BY <2>1 DEF EchoShown, Statuses
  <2> HIDE DEF r, p
  <2>7. EchoParsed(w, "9c", r, p)
    BY <2>2, <2>5, <2>6 DEF EchoParsed, Kinds
  <2> QED
    BY <2>7
<1>3. CASE w \in [water_speed : Word]
  <2> DEFINE r == [knots_1 |-> w.water_speed, knots_2 |-> 0,
                  speed_1_from_sensor |-> TRUE, speed_2_is_average |-> FALSE,
                  stopped |-> TRUE, statute |-> FALSE]
             p == r
  <2>1. w.water_speed \in Word
          /\ DOMAIN w = {"water_speed"}
    BY <1>3
  <2>2. SensorReport(w) = [kind |-> "26", reading |-> r]
    BY <2>1 DEF SensorReport
  <2>3. 0 \in Word
    BY Ranges
  <2>4. r \in Readings("26")
    BY <2>1, <2>3 DEF Readings
  <2>5. IsDatagram(Build("26", r)) /\ Parse("26", Build("26", r)) = {p}
    BY <2>4, AverageSpeed
  <2>6. EchoShown(w, Statuses("26", p))
    BY <2>1 DEF EchoShown, Statuses
  <2> HIDE DEF r, p
  <2>7. EchoParsed(w, "26", r, p)
    BY <2>2, <2>5, <2>6 DEF EchoParsed, Kinds
  <2> QED
    BY <2>7
<1>4. CASE w \in [apparent_wind_angle : Between(-16384, 16383)]
  <2> DEFINE r == [half_degrees |-> 2 * w.apparent_wind_angle]
             p == r
  <2>1. w.apparent_wind_angle \in Between(-16384, 16383)
          /\ DOMAIN w = {"apparent_wind_angle"}
    BY <1>4
  <2>2. SensorReport(w) = [kind |-> "10", reading |-> r]
    BY <2>1 DEF SensorReport
  <2>3. 2 * w.apparent_wind_angle \in SignedWord
    BY <2>1, Ranges DEF Between
  <2>4. r \in Readings("10")
    BY <2>3 DEF Readings
  <2>5. IsDatagram(Build("10", r)) /\ Parse("10", Build("10", r)) = {p}
    BY <2>4, WindAngle
  <2> DEFINE angle == w.apparent_wind_angle
  <2>8. (2 * angle) \div 2 = angle
    BY <2>1 DEF Between
  <2>6. EchoShown(w, Statuses("10", p))
    BY <2>1, <2>8 DEF EchoShown, Statuses
  <2> HIDE DEF r, p
  <2>7. EchoParsed(w, "10", r, p)
    BY <2>2, <2>5, <2>6 DEF EchoParsed, Kinds
  <2> QED
    BY <2>7
<1>5. CASE w \in [apparent_wind_speed : Knots]
  <2> DEFINE r == [knots_times_10 |-> w.apparent_wind_speed, metric |-> FALSE]
             p == r
  <2>1. w.apparent_wind_speed \in Knots
          /\ DOMAIN w = {"apparent_wind_speed"}
    BY <1>5
  <2>2. SensorReport(w) = [kind |-> "11", reading |-> r]
    BY <2>1 DEF SensorReport
  <2>4. r \in Readings("11")
    BY <2>1 DEF Readings
  <2>5. IsDatagram(Build("11", r)) /\ Parse("11", Build("11", r)) = {p}
    BY <2>4, WindSpeed
  <2>6. EchoShown(w, Statuses("11", p))
    BY <2>1 DEF EchoShown, Statuses
  <2> HIDE DEF r, p
  <2>7. EchoParsed(w, "11", r, p)
    BY <2>2, <2>5, <2>6 DEF EchoParsed, Kinds
  <2> QED
    BY <2>7
<1>6. CASE w \in [depth_below_transducer : Word]
  <2> DEFINE r == [depth |-> w.depth_below_transducer, metres |-> FALSE,
                  alarms |-> {}, defective |-> FALSE]
             p == r
  <2>1. w.depth_below_transducer \in Word
          /\ DOMAIN w = {"depth_below_transducer"}
    BY <1>6
  <2>2. SensorReport(w) = [kind |-> "00", reading |-> r]
    BY <2>1 DEF SensorReport
  <2>3. {} \in SUBSET DOMAIN DepthAlarm
    OBVIOUS
  <2>4. r \in Readings("00")
    BY <2>1, <2>3 DEF Readings
  <2>5. IsDatagram(Build("00", r)) /\ Parse("00", Build("00", r)) = {p}
    BY <2>4, Depth
  <2>6. EchoShown(w, Statuses("00", p))
    BY <2>1 DEF EchoShown, Statuses
  <2> HIDE DEF r, p
  <2>7. EchoParsed(w, "00", r, p)
    BY <2>2, <2>5, <2>6 DEF EchoParsed, Kinds
  <2> QED
    BY <2>7
<1>7. CASE w \in [course_over_ground : Degrees]
  <2> DEFINE r == [degrees |-> w.course_over_ground]
             p == r
  <2>1. w.course_over_ground \in Degrees
          /\ DOMAIN w = {"course_over_ground"}
    BY <1>7
  <2>2. SensorReport(w) = [kind |-> "53", reading |-> r]
    BY <2>1 DEF SensorReport
  <2>4. r \in Readings("53")
    BY <2>1 DEF Readings
  <2>5. IsDatagram(Build("53", r)) /\ Parse("53", Build("53", r)) = {p}
    BY <2>4, Course
  <2>6. EchoShown(w, Statuses("53", p))
    BY <2>1 DEF EchoShown, Statuses
  <2> HIDE DEF r, p
  <2>7. EchoParsed(w, "53", r, p)
    BY <2>2, <2>5, <2>6 DEF EchoParsed, Kinds
  <2> QED
    BY <2>7
<1>8. CASE w \in [speed_over_ground : Between(0, 655359)]
  <2> DEFINE r == [knots_times_10 |-> w.speed_over_ground \div 10]
             p == r
  <2>1. w.speed_over_ground \in Between(0, 655359)
          /\ DOMAIN w = {"speed_over_ground"}
    BY <1>8
  <2>2. SensorReport(w) = [kind |-> "52", reading |-> r]
    BY <2>1 DEF SensorReport
  <2>3. w.speed_over_ground \div 10 \in Word
    BY <2>1, Ranges DEF Between
  <2>4. r \in Readings("52")
    BY <2>3 DEF Readings
  <2>5. IsDatagram(Build("52", r)) /\ Parse("52", Build("52", r)) = {p}
    BY <2>4, SpeedOverGround
  <2>6. EchoShown(w, Statuses("52", p))
    BY <2>1 DEF EchoShown, Statuses
  <2> HIDE DEF r, p
  <2>7. EchoParsed(w, "52", r, p)
    BY <2>2, <2>5, <2>6 DEF EchoParsed, Kinds
  <2> QED
    BY <2>7
<1>9. CASE w \in [water_temperature : Celsius]
  <2> DEFINE r == [celsius_times_10 |-> w.water_temperature]
             p == r
  <2>1. w.water_temperature \in Celsius
          /\ DOMAIN w = {"water_temperature"}
    BY <1>9
  <2>2. SensorReport(w) = [kind |-> "27", reading |-> r]
    BY <2>1 DEF SensorReport
  <2>4. r \in Readings("27")
    BY <2>1 DEF Readings
  <2>5. IsDatagram(Build("27", r)) /\ Parse("27", Build("27", r)) = {p}
    BY <2>4, PreciseTemperature
  <2>6. EchoShown(w, Statuses("27", p))
    BY <2>1 DEF EchoShown, Statuses
  <2> HIDE DEF r, p
  <2>7. EchoParsed(w, "27", r, p)
    BY <2>2, <2>5, <2>6 DEF EchoParsed, Kinds
  <2> QED
    BY <2>7
<1> QED
  BY <1>1, <1>2, <1>3, <1>4, <1>5, <1>6, <1>7, <1>8, <1>9 DEF SensorValues

-----------------------------------------------------------------------------
(* The invariant: a datagram is of its origin's kind; undisturbed it is     *)
(* what the origin was built into, and each bit pulled low takes something  *)
(* off the sum of a byte and its complement that nothing gives back.        *)

FromInstrument ==
  \E report \in Reports :
    origin = [kind |-> report.kind, reading |-> report.reading,
              written |-> << >>]

FromSensor ==
  \E w \in Writings :
    origin = [kind |-> SensorReport(w).kind,
              reading |-> SensorReport(w).reading, written |-> w]

OfOrigin ==
  /\ FromInstrument \/ FromSensor
  /\ IsDatagram(datagram)
  /\ damage = 0 => datagram = Build(origin.kind, origin.reading)

Worn ==
  /\ \A pair \in Pairs(origin.kind) :
       {pair[1], pair[2]} \subseteq DOMAIN datagram /\ Sum(datagram, pair) <= 255
  /\ damage > 0 => \E pair \in Pairs(origin.kind) : Sum(datagram, pair) < 255

Handled ==
  /\ parsed = Parse(origin.kind, datagram)
  /\ status = IF parsed = {} THEN << >>
              ELSE Statuses(origin.kind, CHOOSE p \in parsed : TRUE)

DatagramInv ==
  /\ phase \in {"idle", "sent", "handled"}
  /\ damage \in 0..MaxDamage
  /\ phase = "idle" => datagram = << >> /\ damage = 0
  /\ phase # "idle" => OfOrigin /\ Worn
  /\ phase = "handled" => Handled

\* The checked bytes are those of the pairs.
LEMMA CheckedArePairs ==
  ASSUME NEW i \in Checked
  PROVE  \E pair \in Pairs(origin.kind) : i \in {pair[1], pair[2]}
<1>1. CASE origin.kind = "82"
  <2>1. i = 2 \/ i = 3 \/ i = 4 \/ i = 5 \/ i = 6 \/ i = 7
    BY <1>1 DEF Checked
  <2>2. /\ <<2, 3>> \in Pairs(origin.kind) /\ <<4, 5>> \in Pairs(origin.kind)
        /\ <<6, 7>> \in Pairs(origin.kind)
    BY <1>1 DEF Pairs
  <2> QED
    BY <2>1, <2>2
<1>2. CASE origin.kind = "85"
  BY <1>2 DEF Checked, Pairs
<1>3. CASE origin.kind = "86"
  BY <1>3 DEF Checked, Pairs
<1>4. CASE origin.kind \notin {"82", "85", "86"}
  BY <1>4 DEF Checked
<1> QED
  BY <1>1, <1>2, <1>3, <1>4

\* The second byte of a datagram is in no pair, and pairs are of data.
LEMMA PairsAreData ==
  ASSUME NEW kind, NEW pair \in Pairs(kind)
  PROVE  pair[1] \in 2..8 /\ pair[2] \in 2..8 /\ pair[1] # pair[2]
<1>1. CASE kind = "82"
  BY <1>1 DEF Pairs
<1>2. CASE kind = "85"
  BY <1>2 DEF Pairs
<1>3. CASE kind = "86"
  BY <1>3 DEF Pairs
<1>4. CASE kind \notin {"82", "85", "86"}
  BY <1>4, NoPairs
<1> QED
  BY <1>1, <1>2, <1>3, <1>4

\* A bit that is pulled low takes its weight off a byte.
LEMMA BitLow ==
  ASSUME NEW b \in Char, NEW bit \in Weights, flag(b, bit)
  PROVE  b - bit \in Char /\ b - bit < b
<1>1. bit \in 1..128
  BY DEF Weights
<1>2. CASE b < bit
  <2>1. b \div bit = 0
    BY <1>2 DEF Char, Weights
  <2> QED
    BY <2>1 DEF flag
<1>3. CASE b >= bit
  BY <1>1, <1>3 DEF Char
<1> QED
  BY <1>1, <1>2, <1>3 DEF Char

LEMMA DatagramInit ==
  Init => DatagramInv
BY DamageAssumption DEF Init, DatagramInv

\* What is sent is undisturbed.
LEMMA SendKeeps ==
  ASSUME DatagramInv, NEW report, NEW written, Send(report, written),
         WellBuilt(report.kind, Build(report.kind, report.reading)),
         FromInstrument' \/ FromSensor'
  PROVE  DatagramInv'
<1>1. /\ phase = "idle" /\ phase' = "sent" /\ damage = 0 /\ damage' = damage
      /\ damage \in 0..MaxDamage
      /\ origin'.kind = report.kind /\ origin'.reading = report.reading
      /\ datagram' = Build(report.kind, report.reading)
  BY DEF Send, DatagramInv
<1>2. OfOrigin'
  BY <1>1 DEF OfOrigin, WellBuilt
<1>3. Worn'
  BY <1>1 DEF Worn, WellBuilt, Sum
<1> QED
  BY <1>1, <1>2, <1>3 DEF DatagramInv

\* What is pulled low is noticed by the sums, whoever pulls.
LEMMA PullLowKeeps ==
  ASSUME DatagramInv, PullLow
  PROVE  DatagramInv'
<1>1. /\ phase = "sent" /\ phase' = phase /\ origin' = origin
      /\ damage \in 0..MaxDamage /\ damage < MaxDamage /\ damage' = damage + 1
  BY DEF PullLow, DatagramInv
<1>2. PICK i \in Checked, bit \in Weights :
        /\ flag(datagram[i], bit)
        /\ datagram' = [datagram EXCEPT ![i] = @ - bit]
  BY DEF PullLow
<1>3. PICK length \in 3..18 :
        datagram \in [0..length - 1 -> Char]
          /\ get_datagram_length(datagram[1]) = length - 3
  BY <1>1 DEF DatagramInv, OfOrigin, IsDatagram
<1>4. PICK low \in Pairs(origin.kind) : i \in {low[1], low[2]}
  BY <1>2, CheckedArePairs
<1>5. \A pair \in Pairs(origin.kind) :
        {pair[1], pair[2]} \subseteq DOMAIN datagram
          /\ Sum(datagram, pair) <= 255
  BY <1>1 DEF DatagramInv, Worn
<1>6. i \in 0..length - 1 /\ i # 1
  BY <1>3, <1>4, <1>5, PairsAreData
<1>7. datagram[i] \in Char
  BY <1>3, <1>6
<1>8. datagram[i] - bit \in Char /\ datagram[i] - bit < datagram[i]
  BY <1>2, <1>7, BitLow
<1>9. /\ DOMAIN datagram' = DOMAIN datagram
      /\ datagram' \in [0..length - 1 -> Char] /\ datagram'[1] = datagram[1]
      /\ datagram'[i] < datagram[i]
      /\ \A j \in 0..length - 1 : j # i => datagram'[j] = datagram[j]
  BY <1>2, <1>3, <1>6, <1>8
<1>10. IsDatagram(datagram')
  BY <1>3, <1>9 DEF IsDatagram
<1>11. ASSUME NEW j \in 0..length - 1
       PROVE  /\ datagram[j] \in Int /\ datagram'[j] \in Int
              /\ datagram'[j] <= datagram[j]
  <2>1. datagram[j] \in Char /\ datagram'[j] \in Char
    BY <1>3, <1>9
  <2>2. datagram[j] \in Int /\ datagram'[j] \in Int
    BY <2>1 DEF Char
  <2>3. CASE j = i
    BY <1>9, <2>2, <2>3
  <2>4. CASE j # i
    BY <1>9, <2>2, <2>4
  <2> QED
    BY <2>2, <2>3, <2>4
<1>12. ASSUME NEW pair \in Pairs(origin.kind)
       PROVE  /\ {pair[1], pair[2]} \subseteq DOMAIN datagram'
              /\ Sum(datagram', pair) <= 255
              /\ i \in {pair[1], pair[2]} => Sum(datagram', pair) < 255
  <2>1. pair[1] \in 0..length - 1 /\ pair[2] \in 0..length - 1
    BY <1>3, <1>5
  <2>2. datagram[pair[1]] + datagram[pair[2]] <= 255
    BY <1>5 DEF Sum
  <2>3. datagram'[pair[1]] + datagram'[pair[2]] <= 255
    BY <1>11, <2>1, <2>2
  <2>4. i \in {pair[1], pair[2]}
          => datagram'[pair[1]] + datagram'[pair[2]] < 255
    <3>1. CASE i = pair[1]
      BY <1>9, <1>11, <2>1, <2>2, <3>1
    <3>2. CASE i = pair[2]
      BY <1>9, <1>11, <2>1, <2>2, <3>2
    <3> QED
      BY <3>1, <3>2
  <2> QED
    BY <1>5, <1>9, <2>3, <2>4 DEF Sum
<1>13. Worn'
  BY <1>1, <1>4, <1>12 DEF Worn
<1>14. damage' # 0 /\ damage' \in 0..MaxDamage
  BY <1>1, DamageAssumption
<1>15. (FromInstrument \/ FromSensor)'
  BY <1>1 DEF DatagramInv, OfOrigin, FromInstrument, FromSensor
<1>16. OfOrigin'
  BY <1>10, <1>14, <1>15 DEF OfOrigin
<1> QED
  BY <1>1, <1>13, <1>14, <1>16 DEF DatagramInv

LEMMA DatagramStep ==
  ASSUME DatagramInv, [Next]_vars
  PROVE  DatagramInv'
<1>1. CASE Report
  <2>1. PICK report \in Reports : Send(report, << >>)
    BY <1>1 DEF Report
  <2>2. report.kind \in Kinds /\ report.reading \in Readings(report.kind)
    BY ReportsAssumption
  <2>3. WellBuilt(report.kind, Build(report.kind, report.reading))
    BY <2>2, ReportBuilt
  <2>4. FromInstrument'
    BY <2>1 DEF Send, FromInstrument
  <2> QED
    BY <2>1, <2>3, <2>4, SendKeeps
<1>2. CASE TransmitSensor
  <2>1. PICK w \in Writings : Send(SensorReport(w), w)
    BY <1>2 DEF TransmitSensor
  <2>2. PICK kind, r, p : EchoParsed(w, kind, r, p)
    BY WritingsAssumption, SensorBuilt
  <2>3. WellBuilt(SensorReport(w).kind,
                  Build(SensorReport(w).kind, SensorReport(w).reading))
    BY <2>2, NoPairs DEF EchoParsed, WellBuilt
  <2>4. FromSensor'
    BY <2>1 DEF Send, FromSensor
  <2> QED
    BY <2>1, <2>3, <2>4, SendKeeps
<1>3. CASE PullLow
  BY <1>3, PullLowKeeps
<1>4. CASE handle_seatalk_datagram
  <2>1. /\ phase = "sent" /\ phase' = "handled"
        /\ UNCHANGED <<origin, datagram, damage>>
    BY <1>4 DEF handle_seatalk_datagram
  <2>2. OfOrigin' /\ Worn'
    BY <2>1 DEF DatagramInv, OfOrigin, Worn, FromInstrument, FromSensor
  <2>3. Handled'
    BY <1>4, <2>1 DEF handle_seatalk_datagram, Handled
  <2> QED
    BY <2>1, <2>2, <2>3 DEF DatagramInv
<1>5. CASE Forget
  BY <1>5, DamageAssumption DEF Forget, DatagramInv
<1>6. CASE UNCHANGED vars
  BY <1>6 DEF vars, DatagramInv, OfOrigin, Worn, Handled, FromInstrument,
              FromSensor
<1> QED
  BY <1>1, <1>2, <1>3, <1>4, <1>5, <1>6 DEF Next

\* A datagram is of its origin's kind and, undisturbed, what its origin was
\* built into.
THEOREM DatagramInvariant == Spec => []DatagramInv
BY DatagramInit, DatagramStep, PTL DEF Spec

-----------------------------------------------------------------------------
(* Theorems                                                                *)

LEMMA CountOfBytes ==
  ASSUME NEW length \in 3..18
  PROVE  Cardinality(0..length - 1) = length
<1>1. 0 \in Int /\ length - 1 \in Int /\ ~ 0 > length - 1
        /\ (length - 1) - 0 + 1 = length
  OBVIOUS
<1> QED
  BY <1>1, FS_Interval

\* A datagram is bytes, from the command byte on.
THEOREM TypeCorrect == Spec => []TypeOK
<1>1. ASSUME DatagramInv PROVE TypeOK
  <2>1. CASE phase = "idle"
    <3>1. datagram = << >>
      BY <1>1, <2>1 DEF DatagramInv
    <3>2. \A i \in DOMAIN datagram : datagram[i] \in 0..255
      BY <3>1
    <3> QED
      BY <1>1, <2>1, <3>2 DEF DatagramInv, TypeOK
  <2>2. CASE phase # "idle"
    <3>1. PICK length \in 3..18 : datagram \in [0..length - 1 -> Char]
      BY <1>1, <2>2 DEF DatagramInv, OfOrigin, IsDatagram
    <3>2. Cardinality(DOMAIN datagram) = length
      BY <3>1, CountOfBytes
    <3>3. DOMAIN datagram = 0..Cardinality(DOMAIN datagram) - 1
      BY <3>1, <3>2
    <3>4. \A i \in DOMAIN datagram : datagram[i] \in 0..255
      BY <3>1 DEF Char
    <3> QED
      BY <1>1, <3>3, <3>4 DEF DatagramInv, TypeOK
  <2> QED
    BY <2>1, <2>2
<1> QED
  BY <1>1, DatagramInvariant, PTL

\* The length nibble of any datagram that is built says how many bytes it has,
\* beside whatever the other nibble of the second byte carries, and is never
\* pulled low in one that is handled.
THEOREM LengthAnnouncedHolds == Spec => []LengthAnnounced
<1>1. ASSUME DatagramInv PROVE LengthAnnounced
  <2>1. SUFFICES ASSUME phase = "sent"
                 PROVE  Cardinality(DOMAIN datagram)
                          = get_datagram_length(datagram[1]) + 3
    BY DEF LengthAnnounced
  <2>2. PICK length \in 3..18 :
          datagram \in [0..length - 1 -> Char]
            /\ get_datagram_length(datagram[1]) = length - 3
    BY <1>1, <2>1 DEF DatagramInv, OfOrigin, IsDatagram
  <2>3. Cardinality(DOMAIN datagram) = length
    BY <2>2, CountOfBytes
  <2> QED
    BY <2>2, <2>3
<1> QED
  BY <1>1, DatagramInvariant, PTL

\* However many bits are pulled low in bytes that come with complements, the
\* datagram is not taken for another one.
THEOREM DamageNoticedHolds == Spec => []DamageNoticed
<1>1. ASSUME DatagramInv PROVE DamageNoticed
  <2>1. SUFFICES ASSUME phase = "handled", damage > 0
                 PROVE  parsed = {} /\ status = << >>
    BY DEF DamageNoticed
  <2>2. Handled /\ Worn /\ IsDatagram(datagram)
    BY <1>1, <2>1 DEF DatagramInv, OfOrigin
  <2>3. PICK pair \in Pairs(origin.kind) : Sum(datagram, pair) < 255
    BY <2>1, <2>2 DEF Worn
  <2>4. {pair[1], pair[2]} \subseteq DOMAIN datagram
    BY <2>2 DEF Worn
  <2>5. datagram[pair[1]] \in Char /\ datagram[pair[2]] \in Char
    BY <2>2, <2>4 DEF IsDatagram
  <2>6. datagram[pair[1]] + datagram[pair[2]] # 255
          /\ ~OrIsFull(datagram[pair[1]], datagram[pair[2]])
    <3> DEFINE a == datagram[pair[1]]
               b == datagram[pair[2]]
    <3>1. a + b < 255
      BY <2>3 DEF Sum
    <3>2. a \in Char /\ b \in Char
      BY <2>5
    <3> HIDE DEF a, b
    <3>3. OrIsFull(a, b) => a + b >= 255
      BY <3>2, FullIsLarge
    <3>4. a \in Int /\ b \in Int
      BY <3>2 DEF Char
    <3>5. a + b # 255 /\ ~OrIsFull(a, b)
      BY <3>1, <3>3, <3>4
    <3> QED
      BY <3>5 DEF a, b
  <2>7. Parse(origin.kind, datagram) = {}
    <3>1. CASE origin.kind = "82"
      <4>1. pair \in {<<2, 3>>, <<4, 5>>, <<6, 7>>}
        BY <3>1 DEF Pairs
      <4>2. \E i \in {2, 4, 6} : datagram[i] + datagram[i + 1] # 255
        BY <2>6, <4>1
      <4> QED
        BY <3>1, <4>2 DEF Parse, parse_target_waypoint_name
    <3>2. CASE origin.kind = "85"
      <4>1. pair = <<6, 8>>
        BY <3>2 DEF Pairs
      <4>2. ~OrIsFull(datagram[6], datagram[8])
        BY <2>6, <4>1
      <4> QED
        BY <3>2, <4>2 DEF Parse, parse_waypoint_navigation
    <3>3. CASE origin.kind = "86"
      <4>1. pair = <<2, 3>>
        BY <3>3 DEF Pairs
      <4>2. ~OrIsFull(datagram[2], datagram[3])
        BY <2>6, <4>1
      <4> QED
        BY <3>3, <4>2 DEF Parse, parse_autopilot_command
    <3>4. origin.kind \in {"82", "85", "86"}
      BY NoPairs
    <3> QED
      BY <3>1, <3>2, <3>3, <3>4
  <2> QED
    BY <2>2, <2>7 DEF Handled
<1> QED
  BY <1>1, DatagramInvariant, PTL

\* An instrument's name for its sensor is not the empty one.
LEMMA WrittenIsNotEmpty ==
  ASSUME NEW w \in SensorValues
  PROVE  w # << >>
<1>1. DOMAIN w # {}
  BY DEF SensorValues
<1>2. DOMAIN << >> = {}
  OBVIOUS
<1> QED
  BY <1>1, <1>2

\* What an instrument reports is what parsing its datagram gives, for every
\* kind of datagram and every reading that its fields have room for, provided
\* no engine turns backwards.
THEOREM RoundTripsHold ==
  ASSUME \A report \in Reports :
           report.kind = "05" => report.reading.rpm >= 0
  PROVE  Spec => []RoundTrips
<1>1. ASSUME DatagramInv PROVE RoundTrips
  <2>1. SUFFICES ASSUME phase = "handled", origin.written = << >>, damage = 0
                 PROVE  {Resolved(origin.kind, p) : p \in parsed}
                          = {Resolved(origin.kind, origin.reading)}
    BY DEF RoundTrips
  <2>2. OfOrigin /\ Handled
    BY <1>1, <2>1 DEF DatagramInv
  <2>3. ~FromSensor
    BY <2>1, WritingsAssumption, WrittenIsNotEmpty DEF FromSensor
  <2>4. PICK report \in Reports :
          origin = [kind |-> report.kind, reading |-> report.reading,
                    written |-> << >>]
    BY <2>2, <2>3 DEF OfOrigin, FromInstrument
  <2>5. report.kind \in Kinds /\ report.reading \in Readings(report.kind)
    BY ReportsAssumption
  <2>6. RoundTrip(report.kind, report.reading)
    BY <2>5, ReportBuilt
  <2>7. origin.kind = report.kind /\ origin.reading = report.reading
    BY <2>4
  <2>8. parsed = Parse(report.kind, Build(report.kind, report.reading))
    BY <2>1, <2>2, <2>7 DEF OfOrigin, Handled
  <2> QED
    BY <2>6, <2>7, <2>8 DEF RoundTrip
<1> QED
  BY <1>1, DatagramInvariant, PTL

LEMMA OnlyOne ==
  ASSUME NEW x
  PROVE  (CHOOSE y \in {x} : TRUE) = x
OBVIOUS

\* The status that the echo of a sensor's datagram sets is the value written
\* to the sensor, for every value that its datagram has room for.
THEOREM EchoShowsReadingHolds == Spec => []EchoShowsReading
<1>1. ASSUME DatagramInv PROVE EchoShowsReading
  <2>1. SUFFICES ASSUME phase = "handled"
                 PROVE  EchoShown(origin.written, status)
    BY DEF EchoShowsReading, EchoShown
  <2>2. OfOrigin /\ Worn /\ Handled /\ damage \in 0..MaxDamage
    BY <1>1, <2>1 DEF DatagramInv
  <2>3. CASE FromInstrument
    <3>1. origin.written = << >>
      BY <2>3 DEF FromInstrument
    <3>2. DOMAIN origin.written = {}
      BY <3>1
    <3> QED
      BY <3>2 DEF EchoShown
  <2>4. CASE FromSensor
    <3>1. PICK w \in Writings :
            origin = [kind |-> SensorReport(w).kind,
                      reading |-> SensorReport(w).reading, written |-> w]
      BY <2>4 DEF FromSensor
    <3>2. PICK kind, r, p : EchoParsed(w, kind, r, p)
      BY WritingsAssumption, SensorBuilt
    <3>3. origin.kind = kind /\ origin.reading = r /\ origin.written = w
      BY <3>1, <3>2 DEF EchoParsed
    <3>4. Pairs(kind) = {}
      BY <3>2, NoPairs DEF EchoParsed
    <3>5. damage = 0
      BY <2>2, <3>3, <3>4, DamageAssumption DEF Worn
    <3>6. parsed = {p}
      BY <2>2, <3>2, <3>3, <3>5 DEF OfOrigin, Handled, EchoParsed
    <3>7. status = Statuses(kind, p)
      BY <2>2, <3>3, <3>6, OnlyOne DEF Handled
    <3> QED
      BY <3>2, <3>3, <3>7 DEF EchoParsed
  <2> QED
    BY <2>2, <2>3, <2>4 DEF OfOrigin
<1> QED
  BY <1>1, DatagramInvariant, PTL

=============================================================================
