--------------------------- MODULE Formats_proofs ----------------------------
(***************************************************************************)
(* What is proved of the protocol's formats: of the header and of frame    *)
(* counts that wrap, for bytes of any size - the 256 values of the code's  *)
(* bytes among them - and for files of any length, longer than the count   *)
(* is wide or not; and of the name in the EOF frame, for every name and    *)
(* every limit, with the grammar that reads it.                            *)
(***************************************************************************)
EXTENDS EDHeader, FileName, SequenceTheorems, FiniteSetTheorems,
        WellFoundedInduction, TLAPS

-----------------------------------------------------------------------------
(* Division with remainder: there is one.                                  *)

LEMMA MonoProduct ==
  ASSUME NEW b \in Nat, NEW x \in Int, NEW y \in Int, x <= y
  PROVE  b * x <= b * y
<1>1. PICK k \in Nat : y = x + k
  <2>1. y - x \in Nat /\ y = x + (y - x)
    OBVIOUS
  <2> QED
    BY <2>1
<1>2. b * y = b * x + b * k /\ b * k >= 0 /\ b * x \in Int /\ b * k \in Int
  BY <1>1
<1> QED
  BY <1>2

LEMMA Division ==
  ASSUME NEW n \in Nat, NEW b \in Nat, b > 0
  PROVE  /\ n \div b \in Nat /\ n % b \in Nat
         /\ n = b * (n \div b) + (n % b)
         /\ n % b < b
<1>1. n \div b \in Int /\ n % b \in 0..(b - 1)
  OBVIOUS
<1>2. n = b * (n \div b) + (n % b)
  OBVIOUS
<1>3. n \div b \in Nat
  <2> SUFFICES ASSUME n \div b <= -1
               PROVE  FALSE
    BY <1>1
  <2>1. b * (n \div b) <= b * (-1)
    BY <1>1, MonoProduct
  <2>2. b * (-1) = -b
    OBVIOUS
  <2>3. b * (n \div b) \in Int
    BY <1>1
  <2> QED
    BY <1>1, <1>2, <2>1, <2>2, <2>3
<1> QED
  BY <1>1, <1>2, <1>3

LEMMA DivisionUnique ==
  ASSUME NEW n \in Nat, NEW b \in Nat, b > 0, NEW q \in Int, NEW r \in 0..(b - 1),
         n = b * q + r
  PROVE  n \div b = q /\ n % b = r
<1> DEFINE d == n \div b
           m == n % b
<1>1. d \in Int /\ m \in 0..(b - 1) /\ n = b * d + m
  BY Division
<1> HIDE DEF d, m
<1>2. b * q \in Int /\ b * d \in Int
  BY <1>1
<1>3. ~(d >= q + 1)
  <2> SUFFICES ASSUME d >= q + 1 PROVE FALSE
    OBVIOUS
  <2>1. b * (q + 1) <= b * d
    BY <1>1, MonoProduct
  <2>2. b * (q + 1) = b * q + b
    OBVIOUS
  <2> QED
    BY <1>1, <1>2, <2>1, <2>2
<1>4. ~(q >= d + 1)
  <2> SUFFICES ASSUME q >= d + 1 PROVE FALSE
    OBVIOUS
  <2>1. b * (d + 1) <= b * q
    BY <1>1, MonoProduct
  <2>2. b * (d + 1) = b * d + b
    BY <1>1
  <2> QED
    BY <1>1, <1>2, <2>1, <2>2
<1>5. d = q
  BY <1>1, <1>3, <1>4
<1>6. m = r
  BY <1>1, <1>2, <1>5
<1> QED
  BY <1>5, <1>6 DEF d, m

(* Two digits at a time.                                                   *)
LEMMA TwoDigits ==
  ASSUME NEW n \in Nat, NEW a \in Nat, a > 0, NEW b \in Nat, b > 0
  PROVE  /\ a * b \in Nat /\ a * b > 0
         /\ n % (a * b) = (n % a) + a * ((n \div a) % b)
         /\ n \div (a * b) = (n \div a) \div b
<1>1. PICK q \in Nat, r \in Nat :
        q = n \div a /\ r = n % a /\ n = a * q + r /\ r < a
  BY Division
<1>2. PICK qq \in Nat, rr \in Nat :
        qq = q \div b /\ rr = q % b /\ q = b * qq + rr /\ rr < b
  BY Division
<1>3. a * b \in Nat /\ a * b > 0
  OBVIOUS
<1>4. a * (b * qq) = (a * b) * qq /\ a * (b * qq + rr) = a * (b * qq) + a * rr
  BY <1>2
<1>5. n = (a * b) * qq + (r + a * rr)
  <2>1. (a * b) * qq \in Int /\ a * rr \in Int
    BY <1>2
  <2> QED
    BY <1>1, <1>2, <1>4, <2>1
<1>6. r + a * rr \in 0..(a * b - 1)
  <2>1. a * (rr + 1) <= a * b
    BY <1>2, MonoProduct
  <2>2. a * (rr + 1) = a * rr + a /\ a * rr \in Nat
    BY <1>2
  <2> QED
    BY <1>1, <2>1, <2>2
<1>7. n \div (a * b) = qq /\ n % (a * b) = r + a * rr
  BY <1>2, <1>3, <1>5, <1>6, DivisionUnique
<1> QED
  BY <1>1, <1>2, <1>3, <1>7, Zenon

LEMMA SmallRemainder ==
  ASSUME NEW n \in Nat, NEW b \in Nat, n < b
  PROVE  n % b = n
<1>1. n = b * 0 + n /\ n \in 0..(b - 1) /\ b > 0
  OBVIOUS
<1> QED
  BY <1>1, DivisionUnique

LEMMA SuccRemainder ==
  ASSUME NEW n \in Nat, NEW b \in Nat, b > 0
  PROVE  ((n % b) + 1) % b = (n + 1) % b
<1>1. PICK q \in Nat, m \in Nat : m = n % b /\ n = b * q + m /\ m < b
  BY Division
<1>2. PICK N \in Nat, M \in Nat, Q \in Int : N = n + 1 /\ M = m + 1 /\ Q = q + 1
  OBVIOUS
<1>3. CASE m + 1 < b
  <2>1. N = b * q + M /\ M \in 0..(b - 1)
    <3>1. b * q \in Nat
      OBVIOUS
    <3> QED
      BY <1>1, <1>3, <1>2, <3>1
  <2>2. N % b = M
    BY <2>1, DivisionUnique
  <2>3. M % b = M
    BY <1>3, <1>2, SmallRemainder
  <2> QED
    BY <1>1, <1>2, <2>2, <2>3
<1>4. CASE m + 1 = b
  <2>1. N = b * Q + 0 /\ b = b * 1 + 0 /\ 0 \in 0..(b - 1)
    <3>1. b * q \in Nat /\ b * (q + 1) = b * q + b
      OBVIOUS
    <3> QED
      BY <1>1, <1>4, <1>2, <3>1
  <2>2. N % b = 0
    BY <2>1, DivisionUnique
  <2>3. b % b = 0
    BY <2>1, DivisionUnique
  <2> QED
    BY <1>1, <1>4, <1>2, <2>2, <2>3
<1> QED
  BY <1>1, <1>3, <1>4

(* Two numbers no further apart than w: their remainders tell them apart   *)
(* when w is less than the divisor, and the later has the smaller one only *)
(* where a multiple of it lies between.                                    *)
LEMMA CloseRemainders ==
  ASSUME NEW a \in Nat, NEW c \in Nat, NEW w \in Nat, NEW b \in Nat, b > 0,
         a < c, c <= a + w
  PROVE  /\ w < b => c % b # a % b
         /\ c % b < a % b => (a % b) + w >= b
<1>1. PICK q \in Nat, r \in Nat : r = a % b /\ a = b * q + r /\ r < b
  BY Division
<1>2. PICK k \in Nat : c = a + k /\ 1 <= k /\ k <= w
  <2>1. c - a \in Nat /\ c = a + (c - a) /\ 1 <= c - a /\ c - a <= w
    OBVIOUS
  <2> QED
    BY <2>1
<1>3. b * q \in Nat /\ b * (q + 1) = b * q + b
  OBVIOUS
<1>4. r + k < b => c % b = r + k
  <2> SUFFICES ASSUME r + k < b
               PROVE  c % b = r + k
    OBVIOUS
  <2>1. c = b * q + (r + k) /\ r + k \in 0..(b - 1)
    BY <1>1, <1>2, <1>3
  <2> QED
    BY <2>1, DivisionUnique
<1>5. w < b /\ r + k >= b => c % b = r + k - b
  <2> SUFFICES ASSUME w < b, r + k >= b
               PROVE  c % b = r + k - b
    OBVIOUS
  <2>1. PICK Q \in Int, m \in Int : Q = q + 1 /\ m = r + k - b
    OBVIOUS
  <2>2. c = b * Q + m /\ m \in 0..(b - 1)
    BY <1>1, <1>2, <1>3, <2>1
  <2>3. c % b = m
    BY <2>2, DivisionUnique
  <2> QED
    BY <2>1, <2>3
<1> QED
  BY <1>1, <1>2, <1>4, <1>5
-----------------------------------------------------------------------------
(* Four bytes hold a number modulo 2^32.                                   *)
LEMMA ModulusType ==
  /\ Base \in Nat /\ Base > 1
  /\ Modulus \in Nat /\ Modulus > 1
<1>1. Base \in Nat /\ Base > 1
  BY BaseAssumption
<1>2. Base * Base \in Nat /\ Base * Base >= Base
  <2>1. Base * 1 <= Base * Base
    BY <1>1, MonoProduct
  <2> QED
    BY <1>1, <2>1
<1>3. (Base * Base) * (Base * Base) >= Base * Base
  <2>1. (Base * Base) * 1 <= (Base * Base) * (Base * Base)
    BY <1>1, <1>2, MonoProduct
  <2> QED
    BY <1>2, <2>1
<1>4. Modulus = (Base * Base) * (Base * Base)
  BY <1>1 DEF Modulus
<1> QED
  BY <1>1, <1>2, <1>3, <1>4

LEMMA DigitType ==
  ASSUME NEW n \in Nat, NEW i \in 0..3
  PROVE  Digit(n, i) \in Nat
<1>1. Base \in Nat /\ Base > 0 /\ Base * Base \in Nat /\ Base * Base > 0
  BY ModulusType, TwoDigits
<1>2. Base * Base * Base \in Nat /\ Base * Base * Base > 0
  BY <1>1, TwoDigits
<1>3. /\ n % Base \in Nat
      /\ (n \div Base) % Base \in Nat
      /\ (n \div (Base * Base)) % Base \in Nat
      /\ (n \div (Base * Base * Base)) % Base \in Nat
  BY <1>1, <1>2, Division
<1> QED
  BY <1>3 DEF Digit

LEMMA FourDigits ==
  ASSUME NEW n \in Nat
  PROVE  Digit(n, 0) + Base * (Digit(n, 1) + Base * (Digit(n, 2) + Base * Digit(n, 3)))
           = n % Modulus
<1> DEFINE B == Base
           BB == B * B
           BBB == B * BB
<1>1. B \in Nat /\ B > 0
  BY ModulusType
<1>2. BB \in Nat /\ BB > 0
  BY <1>1, TwoDigits
<1>3. BBB \in Nat /\ BBB > 0
  BY <1>1, <1>2, TwoDigits
<1>4. Modulus = B * BBB /\ BBB = (B * B) * B
  BY <1>1 DEF Modulus
<1>5. /\ Digit(n, 0) = n % B
      /\ Digit(n, 1) = (n \div B) % B
      /\ Digit(n, 2) = (n \div BB) % B
      /\ Digit(n, 3) = (n \div BBB) % B
  BY <1>4 DEF Digit
<1> HIDE DEF B, BB, BBB
<1>6. /\ n \div B \in Nat /\ n \div BB \in Nat
  BY <1>1, <1>2, Division
<1>7. n % (B * BBB) = (n % B) + B * ((n \div B) % BBB)
  BY <1>1, <1>3, TwoDigits
<1>8. (n \div B) % BBB = ((n \div B) % B) + B * ((n \div BB) % BB)
  <2>1. (n \div B) % (B * BB) = ((n \div B) % B) + B * (((n \div B) \div B) % BB)
    BY <1>1, <1>2, <1>6, TwoDigits
  <2>2. n \div (B * B) = (n \div B) \div B
    BY <1>1, TwoDigits
  <2> QED
    BY <2>1, <2>2 DEF BBB, BB
<1>9. (n \div BB) % BB = ((n \div BB) % B) + B * ((n \div BBB) % B)
  <2>1. PICK m \in Nat : m = n \div BB
    BY <1>6
  <2>2. m % (B * B) = (m % B) + B * ((m \div B) % B)
    BY <1>1, TwoDigits
  <2>3. n \div (BB * B) = (n \div BB) \div B
    BY <1>1, <1>2, TwoDigits
  <2>4. BB * B = BBB
    BY <1>4 DEF BB
  <2> QED
    BY <2>1, <2>2, <2>3, <2>4 DEF BB
<1>10. Modulus = B * BBB /\ Base = B
  BY <1>4 DEF B
<1> QED
  BY <1>5, <1>7, <1>8, <1>9, <1>10
-----------------------------------------------------------------------------
(* Header buffers.                                                         *)
Buffer == [0..(HeaderSizeInBytes - 1) -> Nat]

LEMMA BufferPlaces ==
  /\ 0..(HeaderSizeInBytes - 1) = 0..111
  /\ HeaderSizeInBytes - cloakedDaggerSize = 64
  /\ SessionIDIndex = 0 /\ FrameCountIndex = 4 /\ EOFFlagIndex = 8
BY DEF HeaderSizeInBytes, cloakedDaggerSize, SessionIDIndex, FrameCountIndex,
       EOFFlagIndex

(* A field reads as it was stored, and nothing beside it changes.          *)
LEMMA StoredReads ==
  ASSUME NEW buffer \in Buffer, NEW pos \in {0, 4}, NEW n \in Nat
  PROVE  /\ Stored(buffer, pos, n) \in Buffer
         /\ Extract(Stored(buffer, pos, n), pos) = n % Modulus
         /\ \A i \in 0..111 : i \notin pos..(pos + 3) => Stored(buffer, pos, n)[i] = buffer[i]
<1> DEFINE S == Stored(buffer, pos, n)
<1>1. DOMAIN buffer = 0..111 /\ \A i \in 0..111 : buffer[i] \in Nat
  BY BufferPlaces DEF Buffer
<1>2. S = [i \in 0..111 |->
             IF i \in pos..(pos + 3) THEN Digit(n, i - pos) ELSE buffer[i]]
  BY <1>1 DEF Stored
<1>3. ASSUME NEW i \in 0..111
      PROVE  S[i] \in Nat
  <2>1. CASE i \in pos..(pos + 3)
    <3>1. PICK j \in 0..3 : j = i - pos
      BY <2>1
    <3> QED
      BY <1>2, <2>1, <3>1, DigitType
  <2>2. CASE i \notin pos..(pos + 3)
    BY <1>1, <1>2, <2>2
  <2> QED
    BY <2>1, <2>2
<1>4. S \in Buffer
  BY <1>2, <1>3, BufferPlaces DEF Buffer
<1>5. /\ S[pos] = Digit(n, 0) /\ S[pos + 1] = Digit(n, 1)
      /\ S[pos + 2] = Digit(n, 2) /\ S[pos + 3] = Digit(n, 3)
  BY <1>2
<1>6. Extract(S, pos) = n % Modulus
  BY <1>5, FourDigits DEF Extract
<1>7. \A i \in 0..111 : i \notin pos..(pos + 3) => S[i] = buffer[i]
  BY <1>2
<1> QED
  BY <1>4, <1>6, <1>7

(* The value of a field is that of its four bytes.                         *)
LEMMA ExtractOf ==
  ASSUME NEW b \in Buffer, NEW c \in Buffer, NEW pos \in {0, 4},
         \A i \in pos..(pos + 3) : b[i] = c[i]
  PROVE  Extract(b, pos) = Extract(c, pos)
<1>1. b[pos] = c[pos] /\ b[pos + 1] = c[pos + 1] /\ b[pos + 2] = c[pos + 2]
      /\ b[pos + 3] = c[pos + 3]
  OBVIOUS
<1> QED
  BY <1>1 DEF Extract
-----------------------------------------------------------------------------
(* What a header says: whose frame it is, which and whether the last.      *)
HeaderOf(buffer, place) ==
  /\ buffer \in Buffer
  /\ Extract(buffer, 0) = session % Modulus
  /\ Extract(buffer, 4) = place % Modulus
  /\ buffer[8] = IF place = Frames + 1 THEN 1 ELSE 0

DatagramOK(d) ==
  /\ d.place \in 1..produced
  /\ HeaderOf(d.header, d.place)
  /\ \A i \in 64..111 : d.header[i] = Base - 1

QueuedOK(d) ==
  /\ d.place \in 1..produced
  /\ d.params.frameCount = d.place % Modulus
  /\ d.params.eOFFlag <=> d.place = Frames + 1

HeadersOK ==
  /\ session \in Nat
  /\ produced \in 0..(Frames + 1)
  /\ HeaderOf(headerBuffer, produced)
  /\ \A d \in wire : DatagramOK(d)
  /\ \A d \in queue : QueuedOK(d)

(* The next frame's header.                                                *)
LEMMA NextHeader ==
  ASSUME HeadersOK, SendFrame
  PROVE  /\ produced' = produced + 1
         /\ HeaderOf(headerBuffer', produced')
<1>1. /\ produced \in Nat /\ produced <= Frames /\ produced' = produced + 1
      /\ Frames \in Nat
  BY FramesAssumption DEF HeadersOK, SendFrame
<1>2. /\ headerBuffer \in Buffer
      /\ Extract(headerBuffer, 0) = session % Modulus
      /\ Extract(headerBuffer, 4) = produced % Modulus
      /\ headerBuffer[8] = 0
  BY <1>1 DEF HeadersOK, HeaderOf
<1> DEFINE counted == IncrementFrameCount(headerBuffer)
<1>3. PICK n \in Nat : n = (produced + 1) % Modulus
  BY <1>1, ModulusType, Division
<1>4. counted = Stored(headerBuffer, 4, n)
  <2>1. ((produced % Modulus) + 1) % Modulus = n
    <3>1. produced \in Nat /\ Modulus \in Nat /\ Modulus > 0
      BY <1>1, ModulusType
    <3>2. ((produced % Modulus) + 1) % Modulus = (produced + 1) % Modulus
      BY <3>1, SuccRemainder, Zenon
    <3> QED
      BY <1>3, <3>2, Zenon
  <2>2. counted = Stored(headerBuffer, 4, (Extract(headerBuffer, 4) + 1) % Modulus)
    BY DEF IncrementFrameCount, FrameCountIndex
  <2>3. (Extract(headerBuffer, 4) + 1) % Modulus = n
    BY <1>2, <2>1
  <2> HIDE DEF counted
  <2> QED
    BY <2>2, <2>3, Zenon
<1>5. /\ counted \in Buffer
      /\ Extract(counted, 4) = n % Modulus
      /\ \A i \in 0..111 : i \notin 4..7 => counted[i] = headerBuffer[i]
  <2>1. 4 \in {0, 4} /\ 4 + 3 = 7
    OBVIOUS
  <2>2. /\ Stored(headerBuffer, 4, n) \in Buffer
        /\ Extract(Stored(headerBuffer, 4, n), 4) = n % Modulus
        /\ \A i \in 0..111 : i \notin 4..(4 + 3) =>
             Stored(headerBuffer, 4, n)[i] = headerBuffer[i]
    BY <1>2, <2>1, StoredReads, Zenon
  <2> QED
    BY <1>4, <2>1, <2>2, Zenon
<1> HIDE DEF counted
<1>6. n % Modulus = n
  <2>1. PICK m \in Nat : m = produced + 1
    BY <1>1
  <2>2. n < Modulus
    BY <1>3, <2>1, ModulusType, Division
  <2> QED
    BY <2>2, ModulusType, SmallRemainder
<1>7. Extract(counted, 0) = session % Modulus /\ counted[8] = 0
  <2>1. \A i \in 0..3 : counted[i] = headerBuffer[i]
    BY <1>5
  <2>2. Extract(counted, 0) = Extract(headerBuffer, 0)
    BY <1>2, <1>5, <2>1, ExtractOf
  <2> QED
    BY <1>2, <1>5, <2>2
<1>8. headerBuffer' = IF produced = Frames THEN SetEOF(counted) ELSE counted
  BY DEF SendFrame, counted
<1>9. CASE produced = Frames
  <2>1. headerBuffer' = [counted EXCEPT ![8] = 1]
    BY <1>8, <1>9, BufferPlaces DEF SetEOF
  <2>2. /\ headerBuffer' \in Buffer /\ headerBuffer'[8] = 1
        /\ \A i \in 0..111 : i # 8 => headerBuffer'[i] = counted[i]
    <3>1. Buffer = [0..111 -> Nat]
      BY BufferPlaces DEF Buffer
    <3>2. counted \in [0..111 -> Nat] /\ 8 \in 0..111
      BY <1>5, <3>1
    <3> QED
      BY <2>1, <3>1, <3>2
  <2>3. /\ \A i \in 0..3 : headerBuffer'[i] = counted[i]
        /\ \A i \in 4..7 : headerBuffer'[i] = counted[i]
    BY <2>2
  <2>4. /\ Extract(headerBuffer', 0) = Extract(counted, 0)
        /\ Extract(headerBuffer', 4) = Extract(counted, 4)
    <3>1. /\ 0 \in {0, 4} /\ 4 \in {0, 4}
          /\ 0 + 3 = 3 /\ 4 + 3 = 7
      OBVIOUS
    <3> QED
      BY <1>5, <2>2, <2>3, <3>1, ExtractOf, Zenon
  <2> QED
    BY <1>1, <1>3, <1>5, <1>6, <1>7, <1>9, <2>2, <2>4 DEF HeaderOf, SendFrame
<1>10. CASE produced # Frames
  <2>1. headerBuffer' = counted
    BY <1>8, <1>10
  <2> QED
    BY <1>1, <1>3, <1>5, <1>6, <1>7, <1>10, <2>1 DEF HeaderOf, SendFrame
<1> QED
  BY <1>9, <1>10

(* The diode's header leaves the client's fields as they are.              *)
LEMMA WrappedHeader ==
  ASSUME NEW buffer, NEW place, HeaderOf(buffer, place)
  PROVE  /\ HeaderOf(Wrapped(buffer, Base - 1), place)
         /\ \A i \in 64..111 : Wrapped(buffer, Base - 1)[i] = Base - 1
<1> DEFINE W == Wrapped(buffer, Base - 1)
<1>1. Buffer = [0..111 -> Nat] /\ Base - 1 \in Nat
  <2>1. Base - 1 \in Nat
    BY BaseAssumption
  <2> QED
    BY <2>1, BufferPlaces DEF Buffer
<1>2. buffer \in [0..111 -> Nat]
  BY <1>1 DEF HeaderOf
<1>3. W = [i \in 0..111 |-> IF i >= 64 THEN Base - 1 ELSE buffer[i]]
  BY <1>2, BufferPlaces DEF Wrapped
<1> HIDE DEF W
<1>4. W \in Buffer /\ \A i \in 64..111 : W[i] = Base - 1
  BY <1>1, <1>2, <1>3
<1>5. /\ \A i \in 0..3 : W[i] = buffer[i]
      /\ \A i \in 4..7 : W[i] = buffer[i]
      /\ W[8] = buffer[8]
  BY <1>2, <1>3
<1>6. Extract(W, 0) = Extract(buffer, 0) /\ Extract(W, 4) = Extract(buffer, 4)
  <2>1. /\ 0 \in {0, 4} /\ 4 \in {0, 4}
        /\ 0 + 3 = 3 /\ 4 + 3 = 7
    OBVIOUS
  <2>2. buffer \in Buffer
    BY <1>1, <1>2
  <2> QED
    BY <1>4, <1>5, <2>1, <2>2, ExtractOf, Zenon
<1>7. HeaderOf(W, place)
  BY <1>4, <1>5, <1>6 DEF HeaderOf
<1> QED
  BY <1>4, <1>7 DEF W

(* parsePacket reads what the client and the diode have stored.            *)
LEMMA ReadsHeader ==
  ASSUME NEW d, DatagramOK(d)
  PROVE  LET params == ReadHeaderParams(d.header)
         IN  /\ params.sessionId = session % Modulus
             /\ params.frameCount = d.place % Modulus
             /\ params.eOFFlag <=> d.place = Frames + 1
             /\ \A i \in DOMAIN params.cloakedDaggerHeader :
                  params.cloakedDaggerHeader[i] = Base - 1
<1> DEFINE params == ReadHeaderParams(d.header)
<1>1. /\ params.sessionId = Extract(d.header, 0)
      /\ params.frameCount = Extract(d.header, 4)
      /\ params.eOFFlag = (d.header[8] = 1)
      /\ params.cloakedDaggerHeader = [i \in 0..47 |-> d.header[64 + i]]
  BY DEF ReadHeaderParams, HeaderSizeInBytes, cloakedDaggerSize, SessionIDIndex,
         FrameCountIndex, EOFFlagIndex
<1> HIDE DEF params
<1>2. HeaderOf(d.header, d.place) /\ \A i \in 64..111 : d.header[i] = Base - 1
  BY DEF DatagramOK
<1>3. \A i \in 0..47 : d.header[64 + i] = Base - 1
  BY <1>2
<1>4. params.eOFFlag <=> d.place = Frames + 1
  <2>1. d.header[8] = 1 <=> d.place = Frames + 1
    BY <1>2 DEF HeaderOf
  <2>2. params.eOFFlag = (d.header[8] = 1)
    BY <1>1
  <2> QED
    BY <2>1, <2>2
<1> QED
  BY <1>1, <1>2, <1>3, <1>4 DEF HeaderOf, params

LEMMA InitHeaders ==
  ASSUME HeaderInit(Session)
  PROVE  HeadersOK
<1>1. /\ session \in Nat /\ produced = 0 /\ wire = {} /\ queue = {}
      /\ headerBuffer = Stored([i \in 0..111 |-> 0], 0, session)
  BY SessionAssumption, BufferPlaces DEF HeaderInit
<1> DEFINE zeros == [i \in 0..111 |-> 0]
<1>2. zeros \in Buffer /\ \A i \in 0..111 : zeros[i] = 0
  BY BufferPlaces DEF Buffer
<1> HIDE DEF zeros
<1>3. /\ headerBuffer \in Buffer
      /\ Extract(headerBuffer, 0) = session % Modulus
      /\ \A i \in 0..111 : i \notin 0..3 => headerBuffer[i] = 0
  <2>1. headerBuffer = Stored(zeros, 0, session)
    BY <1>1 DEF zeros
  <2>2. 0 \in {0, 4} /\ 0 + 3 = 3
    OBVIOUS
  <2>3. /\ Stored(zeros, 0, session) \in Buffer
        /\ Extract(Stored(zeros, 0, session), 0) = session % Modulus
        /\ \A i \in 0..111 : i \notin 0..(0 + 3) => Stored(zeros, 0, session)[i] = zeros[i]
    BY <1>1, <1>2, <2>2, StoredReads, Zenon
  <2> QED
    BY <1>2, <2>1, <2>2, <2>3, Zenon
<1>4. Extract(headerBuffer, 4) = 0 /\ headerBuffer[8] = 0
  <2>1. headerBuffer[4] = 0 /\ headerBuffer[5] = 0 /\ headerBuffer[6] = 0
        /\ headerBuffer[7] = 0 /\ headerBuffer[8] = 0
    BY <1>3
  <2> QED
    BY <2>1, ModulusType DEF Extract
<1>5. 0 % Modulus = 0
  BY ModulusType, SmallRemainder
<1>6. HeaderOf(headerBuffer, produced)
  BY <1>1, <1>3, <1>4, <1>5, FramesAssumption DEF HeaderOf
<1> QED
  BY <1>1, <1>6, FramesAssumption DEF HeadersOK

LEMMA StepHeaders ==
  ASSUME HeadersOK, [HeaderStep]_headerVars
  PROVE  HeadersOK'
<1>1. CASE SendFrame
  <2>1. /\ produced' = produced + 1 /\ HeaderOf(headerBuffer', produced')
        /\ session' = session /\ queue' = queue
        /\ produced \in 0..Frames /\ Frames \in Nat
    BY <1>1, NextHeader, FramesAssumption DEF HeadersOK, SendFrame
  <2>2. PICK new : /\ wire' = wire \cup {new}
                   /\ new.header = Wrapped(headerBuffer', Base - 1)
                   /\ new.place = produced'
    <3> DEFINE d == [header |-> Wrapped(headerBuffer', Base - 1), place |-> produced']
    <3>1. d.header = Wrapped(headerBuffer', Base - 1) /\ d.place = produced'
      OBVIOUS
    <3>2. wire' = wire \cup {d}
      BY <1>1 DEF SendFrame
    <3> QED
      BY <3>1, <3>2, Zenon
  <2>3. /\ HeaderOf(new.header, produced')
        /\ \A i \in 64..111 : new.header[i] = Base - 1
    BY <2>1, <2>2, WrappedHeader
  <2>4. produced' \in 0..(Frames + 1) /\ session' \in Nat
    BY <2>1 DEF HeadersOK
  <2>5. DatagramOK(new)'
    <3>1. new.place = produced' /\ produced' \in 1..produced'
      BY <2>1, <2>2
    <3> QED
      BY <2>1, <2>3, <3>1 DEF DatagramOK, HeaderOf
  <2>6. \A d \in wire : DatagramOK(d)'
    BY <2>1 DEF HeadersOK, DatagramOK, HeaderOf
  <2>7. \A d \in wire' : DatagramOK(d)'
    BY <2>2, <2>5, <2>6
  <2>8. \A d \in queue' : QueuedOK(d)'
    BY <2>1 DEF HeadersOK, QueuedOK
  <2>9. HeaderOf(headerBuffer, produced)'
    BY <2>1 DEF HeaderOf
  <2> QED
    BY <2>4, <2>7, <2>8, <2>9 DEF HeadersOK
<1>2. CASE ReceiveHeader
  <2>1. PICK d \in Arrivable :
          /\ wire' = wire \ {d}
          /\ queue' = Queued(d)
          /\ headerBuffer' = headerBuffer /\ produced' = produced /\ session' = session
    BY <1>2 DEF ReceiveHeader
  <2>2. DatagramOK(d)
    BY DEF Arrivable, HeadersOK
  <2> DEFINE new == [params |-> ReadHeaderParams(d.header), place |-> d.place]
  <2>3. QueuedOK(new)
    BY <2>2, ReadsHeader DEF QueuedOK, DatagramOK
  <2> HIDE DEF new
  <2>4. queue' = queue \cup {new}
    BY <2>1 DEF Queued, new
  <2>5. \A q \in queue' : QueuedOK(q)
    BY <2>3, <2>4 DEF HeadersOK
  <2>6. (\A q \in queue : QueuedOK(q))'
    BY <2>1, <2>5 DEF QueuedOK
  <2>7. (\A q \in wire : DatagramOK(q))'
    BY <2>1 DEF HeadersOK, DatagramOK, HeaderOf
  <2>8. HeaderOf(headerBuffer, produced)' /\ session' \in Nat /\ produced' \in 0..(Frames + 1)
    BY <2>1 DEF HeadersOK, HeaderOf
  <2> QED
    BY <2>6, <2>7, <2>8 DEF HeadersOK
<1>3. CASE WriteTop
  BY <1>3 DEF WriteTop, HeadersOK, DatagramOK, QueuedOK, HeaderOf
<1>4. CASE UNCHANGED headerVars
  BY <1>4 DEF headerVars, HeadersOK, DatagramOK, QueuedOK, HeaderOf
<1> QED
  BY <1>1, <1>2, <1>3, <1>4 DEF HeaderStep

(* Whatever the diode writes into the header's end and however far the     *)
(* count runs, the server reads what the client stored.                    *)
THEOREM HeadersAlwaysReadBack == HeaderSpec => []HeadersReadBack
<1>1. HeaderSpec => []HeadersOK
  BY InitHeaders, StepHeaders, PTL DEF HeaderSpec
<1>2. HeadersOK => HeadersReadBack
  BY ReadsHeader DEF HeadersOK, HeadersReadBack
<1> QED
  BY <1>1, <1>2, PTL
-----------------------------------------------------------------------------
(* Frames and their places.  A session is stuck for good once a frame from *)
(* just above the wrap is on top of the one it awaits below it.            *)
Stuck ==
  \E t \in queue : /\ t.place <= written + 1 + Window
                  /\ t.params.frameCount < nextFrameCount

ProgressOK ==
  /\ written \in Nat /\ written <= Frames /\ written <= produced
  /\ nextFrameCount = (written + 1) % Modulus
  /\ complete \in BOOLEAN
  /\ complete => written = Frames

PlacesApart ==
  /\ \A d \in wire : \A e \in wire : d.place = e.place => d = e
  /\ \A d \in queue : \A e \in queue : d.place = e.place => d = e
  /\ \A d \in wire : \A e \in queue : d.place # e.place
  /\ \A d \in wire : d.place > written

(* Nothing is lost.                                                        *)
AllHere ==
  ~complete =>
    \A p \in (written + 1)..produced : \E d \in wire \cup queue : d.place = p

(* No frame is queued before its cycle, unless the session is stuck.       *)
InWindow ==
  \A d \in queue :
    d.place > written /\ (Stuck \/ d.place <= written + 1 + Window)

OrderInv == HeadersOK /\ ProgressOK /\ PlacesApart /\ AllHere /\ InWindow

(* When the awaited frame is queued but not on top, the session is stuck.  *)
LEMMA NotOnTop ==
  ASSUME OrderInv, NEW e \in queue, e.place = written + 1,
         \A d \in TopOf(queue) : d.params.frameCount # nextFrameCount
  PROVE  Stuck
<1>1. e.params.frameCount = nextFrameCount
  BY DEF OrderInv, HeadersOK, QueuedOK, ProgressOK
<1>2. PICK o \in queue : ~(e.params.frameCount <= o.params.frameCount)
  BY <1>1 DEF TopOf
<1>3. o.params.frameCount \in Nat /\ nextFrameCount \in Nat
  <2>1. o.place \in Nat /\ o.params.frameCount = o.place % Modulus
    BY DEF OrderInv, HeadersOK, QueuedOK
  <2>2. PICK a \in Nat : a = written + 1 /\ nextFrameCount = a % Modulus
    BY DEF OrderInv, ProgressOK
  <2> QED
    BY <2>1, <2>2, ModulusType, Division
<1>4. o.params.frameCount < nextFrameCount
  BY <1>1, <1>2, <1>3
<1> QED
  BY <1>4 DEF OrderInv, InWindow, Stuck

(* What is written next is the frame of the awaited place: within the      *)
(* window no other has its count.                                          *)
LEMMA TopIsNext ==
  ASSUME OrderInv, Window < Modulus,
         NEW d \in TopOf(queue), d.params.frameCount = nextFrameCount
  PROVE  d.place = written + 1 /\ ~Stuck
<1>1. d \in queue /\ \A o \in queue : d.params.frameCount <= o.params.frameCount
  BY DEF TopOf
<1>2. \A o \in queue : o.params.frameCount \in Nat
  <2> SUFFICES ASSUME NEW o \in queue
               PROVE  o.params.frameCount \in Nat
    OBVIOUS
  <2>1. o.place \in Nat /\ o.params.frameCount = o.place % Modulus
    BY DEF OrderInv, HeadersOK, QueuedOK
  <2> QED
    BY <2>1, ModulusType, Division
<1>3. ~Stuck
  BY <1>1, <1>2 DEF Stuck
<1>4. PICK a \in Nat : a = written + 1 /\ nextFrameCount = a % Modulus
  BY DEF OrderInv, ProgressOK
<1>5. /\ d.place \in Nat /\ d.place >= a /\ d.place <= a + Window
      /\ d.place % Modulus = a % Modulus
  <2>1. d.place \in Nat /\ d.params.frameCount = d.place % Modulus
    BY <1>1 DEF OrderInv, HeadersOK, QueuedOK
  <2>2. d.place > written /\ d.place <= written + 1 + Window /\ written \in Nat
    BY <1>1, <1>3 DEF OrderInv, InWindow, ProgressOK
  <2> QED
    BY <1>4, <2>1, <2>2
<1>6. ~(a < d.place)
  <2>1. Modulus \in Nat /\ Modulus > 0 /\ Window \in Nat
    BY ModulusType, FramesAssumption
  <2> QED
    BY <1>5, <2>1, CloseRemainders
<1> QED
  BY <1>3, <1>4, <1>5, <1>6

LEMMA InitOrder ==
  ASSUME HeaderInit(Session)
  PROVE  OrderInv
<1>1. /\ written = 0 /\ produced = 0 /\ nextFrameCount = 1 /\ complete = FALSE
      /\ wire = {} /\ queue = {}
  BY DEF HeaderInit
<1>2. 1 % Modulus = 1
  BY ModulusType, SmallRemainder
<1>3. ProgressOK
  <2>1. (written + 1) % Modulus = 1
    BY <1>1, <1>2
  <2>2. written \in Nat /\ written <= Frames /\ written <= produced
    BY <1>1, FramesAssumption
  <2>3. complete \in BOOLEAN /\ ~complete
    BY <1>1
  <2>4. nextFrameCount = (written + 1) % Modulus
    BY <1>1, <2>1
  <2> QED
    BY <2>2, <2>3, <2>4 DEF ProgressOK
<1>4. PlacesApart /\ InWindow
  BY <1>1 DEF PlacesApart, InWindow
<1>5. AllHere
  BY <1>1 DEF AllHere
<1> QED
  BY <1>3, <1>4, <1>5, InitHeaders DEF OrderInv

LEMMA SendKeepsOrder ==
  ASSUME OrderInv, SendFrame
  PROVE  ProgressOK' /\ PlacesApart' /\ AllHere' /\ InWindow'
<1>1. PICK new : wire' = wire \cup {new} /\ new.place = produced + 1
  <2> DEFINE d == [header |-> Wrapped(headerBuffer', Base - 1), place |-> produced']
  <2>1. d.place = produced + 1 /\ wire' = wire \cup {d}
    BY DEF SendFrame
  <2> QED
    BY <2>1, Zenon
<1>2. /\ produced' = produced + 1 /\ queue' = queue /\ written' = written
      /\ nextFrameCount' = nextFrameCount /\ complete' = complete
  BY DEF SendFrame
<1>3. /\ produced \in Nat
      /\ \A d \in wire : d.place \in 1..produced
      /\ \A d \in queue : d.place \in 1..produced
  BY FramesAssumption DEF OrderInv, HeadersOK, DatagramOK, QueuedOK
<1>4. ProgressOK'
  <2>1. written' <= produced'
    BY <1>2, <1>3 DEF OrderInv, ProgressOK
  <2> QED
    BY <1>2, <2>1 DEF OrderInv, ProgressOK
<1>5. PlacesApart'
  <2>1. /\ \A d \in wire : d.place # new.place
        /\ \A d \in queue : new.place # d.place
        /\ new.place > written
    BY <1>1, <1>3 DEF OrderInv, ProgressOK
  <2> QED
    BY <1>1, <1>2, <2>1 DEF OrderInv, PlacesApart
<1>6. AllHere'
  <2> SUFFICES ASSUME ~complete, NEW p \in (written + 1)..(produced + 1)
               PROVE  \E d \in wire' \cup queue' : d.place = p
    BY <1>2 DEF AllHere
  <2>1. CASE p = produced + 1
    BY <1>1, <2>1
  <2>2. CASE p # produced + 1
    <3>1. p \in (written + 1)..produced
      BY <1>3, <2>2 DEF OrderInv, ProgressOK
    <3>2. PICK d \in wire \cup queue : d.place = p
      BY <3>1 DEF OrderInv, AllHere
    <3> QED
      BY <1>1, <1>2, <3>2
  <2> QED
    BY <2>1, <2>2
<1>7. InWindow'
  BY <1>2 DEF OrderInv, InWindow, Stuck
<1> QED
  BY <1>4, <1>5, <1>6, <1>7

LEMMA ReceiveKeepsOrder ==
  ASSUME OrderInv, ReceiveHeader
  PROVE  ProgressOK' /\ PlacesApart' /\ AllHere' /\ InWindow'
<1>1. /\ ~complete /\ complete' = complete
      /\ \A d \in TopOf(queue) : d.params.frameCount # nextFrameCount
      /\ produced' = produced /\ written' = written /\ nextFrameCount' = nextFrameCount
  BY DEF ReceiveHeader
<1>2. PICK d \in Arrivable : wire' = wire \ {d} /\ queue' = Queued(d)
  BY DEF ReceiveHeader
<1>3. d \in wire /\ \A o \in wire : d.place - o.place <= Window
  BY DEF Arrivable
<1>4. PICK new : queue' = queue \cup {new} /\ new.place = d.place
  <2> DEFINE q == [params |-> ReadHeaderParams(d.header), place |-> d.place]
  <2>1. q.place = d.place /\ queue' = queue \cup {q}
    BY <1>2 DEF Queued
  <2> QED
    BY <2>1, Zenon
<1>5. /\ produced \in Nat /\ written \in Nat /\ Window \in Nat
      /\ d.place \in Nat /\ d.place > written /\ d.place <= produced
  BY <1>3, FramesAssumption
  DEF OrderInv, HeadersOK, DatagramOK, ProgressOK, PlacesApart
<1>6. ProgressOK'
  BY <1>1 DEF OrderInv, ProgressOK
<1>7. PlacesApart'
  BY <1>1, <1>2, <1>3, <1>4 DEF OrderInv, PlacesApart
<1>8. AllHere'
  <2> SUFFICES ASSUME NEW p \in (written + 1)..produced
               PROVE  \E e \in wire' \cup queue' : e.place = p
    BY <1>1 DEF AllHere
  <2>1. PICK e \in wire \cup queue : e.place = p
    BY <1>1 DEF OrderInv, AllHere
  <2>2. CASE e = d
    BY <1>4, <2>1, <2>2
  <2>3. CASE e # d
    BY <1>2, <1>4, <2>1, <2>3
  <2> QED
    BY <2>2, <2>3
<1>9. Stuck \/ d.place <= written + 1 + Window
  <2>1. PICK e \in wire \cup queue : e.place = written + 1
    <3>1. written + 1 \in (written + 1)..produced
      BY <1>5
    <3> QED
      BY <1>1, <3>1 DEF OrderInv, AllHere
  <2>2. CASE e \in wire
    BY <1>3, <1>5, <2>1, <2>2
  <2>3. CASE e \in queue
    BY <1>1, <2>1, <2>3, NotOnTop
  <2> QED
    BY <2>2, <2>3
<1>10. Stuck => Stuck'
  BY <1>1, <1>4 DEF Stuck
<1>11. InWindow'
  <2> SUFFICES ASSUME NEW q \in queue'
               PROVE  q.place > written /\ (Stuck' \/ q.place <= written + 1 + Window)
    BY <1>1 DEF InWindow
  <2>1. CASE q = new
    BY <1>4, <1>5, <1>9, <1>10, <2>1
  <2>2. CASE q # new
    BY <1>4, <1>10, <2>2 DEF OrderInv, InWindow
  <2> QED
    BY <2>1, <2>2
<1> QED
  BY <1>6, <1>7, <1>8, <1>11

LEMMA WriteKeepsOrder ==
  ASSUME OrderInv, Window < Modulus, WriteTop
  PROVE  ProgressOK' /\ PlacesApart' /\ AllHere' /\ InWindow'
<1>1. PICK d \in TopOf(queue) :
        /\ d.params.frameCount = nextFrameCount
        /\ queue' = queue \ {d}
        /\ IF d.params.eOFFlag
           THEN complete' = TRUE /\ UNCHANGED <<nextFrameCount, written>>
           ELSE /\ nextFrameCount' = CountUp(nextFrameCount)
                /\ written' = IF d.place = written + 1 THEN d.place ELSE -1
                /\ UNCHANGED complete
  BY DEF WriteTop
<1>2. ~complete /\ produced' = produced /\ wire' = wire
  BY DEF WriteTop
<1>3. d.place = written + 1 /\ ~Stuck /\ d \in queue
  BY <1>1, TopIsNext DEF TopOf
<1>4. /\ d.place \in 1..produced /\ (d.params.eOFFlag <=> d.place = Frames + 1)
      /\ written \in Nat /\ produced \in Nat /\ produced <= Frames + 1
      /\ Frames \in Nat
  BY <1>3, FramesAssumption DEF OrderInv, HeadersOK, QueuedOK, ProgressOK
<1>5. \A q \in queue : q.place \in Nat /\ q.place > written /\ q.place <= written + 1 + Window
  BY <1>3 DEF OrderInv, InWindow, HeadersOK, QueuedOK
<1>6. CASE d.params.eOFFlag
  <2>1. complete' = TRUE /\ nextFrameCount' = nextFrameCount /\ written' = written
    BY <1>1, <1>6
  <2>2. written = Frames
    BY <1>3, <1>4, <1>6
  <2>3. ProgressOK'
    BY <1>2, <2>1, <2>2 DEF OrderInv, ProgressOK
  <2>4. PlacesApart'
    BY <1>1, <1>2, <2>1 DEF OrderInv, PlacesApart
  <2>5. AllHere'
    BY <2>1 DEF AllHere
  <2>6. InWindow'
    BY <1>1, <1>5, <2>1 DEF InWindow
  <2> QED
    BY <2>3, <2>4, <2>5, <2>6
<1>7. CASE ~d.params.eOFFlag
  <2>1. complete' = complete /\ nextFrameCount' = CountUp(nextFrameCount) /\ written' = written + 1
    BY <1>1, <1>3, <1>7
  <2>2. written + 1 <= Frames /\ written + 1 <= produced
    BY <1>3, <1>4, <1>7
  <2>3. nextFrameCount' = (written' + 1) % Modulus
    <3>1. PICK a \in Nat : a = written + 1
      BY <1>4
    <3>2. nextFrameCount = a % Modulus
      BY <3>1 DEF OrderInv, ProgressOK
    <3>3. ((a % Modulus) + 1) % Modulus = (a + 1) % Modulus
      <4>1. Modulus \in Nat /\ Modulus > 0
        BY ModulusType
      <4> QED
        BY <4>1, SuccRemainder, Zenon
    <3>4. nextFrameCount' = (a + 1) % Modulus
      BY <2>1, <3>2, <3>3, Zenon DEF CountUp
    <3> QED
      BY <2>1, <3>1, <3>4
  <2>4. ProgressOK'
    BY <1>2, <1>4, <2>1, <2>2, <2>3 DEF OrderInv, ProgressOK
  <2>5. \A q \in queue' : q \in queue /\ q.place > written + 1
    <3> SUFFICES ASSUME NEW q \in queue'
                 PROVE  q \in queue /\ q.place > written + 1
      OBVIOUS
    <3>1. q \in queue /\ q # d
      BY <1>1
    <3>2. q.place # d.place
      BY <1>3, <3>1 DEF OrderInv, PlacesApart
    <3> QED
      BY <1>3, <1>4, <1>5, <3>1, <3>2
  <2>6. \A q \in wire : q.place > written + 1
    <3> SUFFICES ASSUME NEW q \in wire
                 PROVE  q.place > written + 1
      OBVIOUS
    <3>1. q.place # d.place /\ q.place > written /\ q.place \in Nat
      BY <1>3 DEF OrderInv, PlacesApart, HeadersOK, DatagramOK
    <3> QED
      BY <1>3, <1>4, <3>1
  <2>7. PlacesApart'
    BY <1>2, <2>1, <2>5, <2>6 DEF OrderInv, PlacesApart
  <2>8. AllHere'
    <3> SUFFICES ASSUME NEW p \in (written + 1 + 1)..produced
                 PROVE  \E e \in wire' \cup queue' : e.place = p
      BY <1>2, <2>1 DEF AllHere
    <3>1. p \in (written + 1)..produced /\ p # written + 1
      BY <1>4
    <3>2. PICK e \in wire \cup queue : e.place = p
      BY <1>2, <3>1 DEF OrderInv, AllHere
    <3> QED
      BY <1>1, <1>2, <1>3, <3>1, <3>2
  <2>9. InWindow'
    <3> SUFFICES ASSUME NEW q \in queue'
                 PROVE  q.place > written' /\ q.place <= written' + 1 + Window
      BY DEF InWindow
    <3>1. q.place > written + 1 /\ q.place \in Nat /\ q.place <= written + 1 + Window
      BY <1>5, <2>5
    <3> QED
      BY <1>4, <2>1, <3>1, FramesAssumption
  <2> QED
    BY <2>4, <2>7, <2>8, <2>9
<1> QED
  BY <1>6, <1>7

(* The strengthening of the two properties of the count: inductive, when   *)
(* no datagram overtakes one a whole cycle of the count ahead of it.       *)
THEOREM OrderInvariant ==
  ASSUME Window < Modulus
  PROVE  HeaderSpec => []OrderInv
<1>1. OrderInv /\ [HeaderStep]_headerVars => OrderInv'
  <2> SUFFICES ASSUME OrderInv, [HeaderStep]_headerVars
               PROVE  OrderInv'
    OBVIOUS
  <2>1. HeadersOK'
    BY StepHeaders DEF OrderInv
  <2>2. CASE SendFrame
    BY <2>1, <2>2, SendKeepsOrder DEF OrderInv
  <2>3. CASE ReceiveHeader
    BY <2>1, <2>3, ReceiveKeepsOrder DEF OrderInv
  <2>4. CASE WriteTop
    BY <2>1, <2>4, WriteKeepsOrder DEF OrderInv
  <2>5. CASE UNCHANGED headerVars
    BY <2>1, <2>5 DEF headerVars, OrderInv, ProgressOK, PlacesApart, AllHere,
                      InWindow, Stuck
  <2> QED
    BY <2>2, <2>3, <2>4, <2>5 DEF HeaderStep
<1> QED
  BY <1>1, InitOrder, PTL DEF HeaderSpec

(* Two frames of one count are never taken for each other, however long    *)
(* the file: the server writes the file from its start, in order.          *)
THEOREM AlwaysWrittenInPlace ==
  ASSUME Window < Modulus
  PROVE  HeaderSpec => []WrittenInPlace
<1>1. OrderInv => WrittenInPlace
  BY DEF OrderInv, ProgressOK, WrittenInPlace
<1> QED
  BY <1>1, OrderInvariant, PTL

(* Of a transfer of which everything came, only one whose count wraps      *)
(* within the reach of the network's reordering can be stuck.              *)
THEOREM OnlyWrapSticks ==
  ASSUME Window < Modulus
  PROVE  HeaderSpec => []StuckOnlyAtWrap
<1>1. OrderInv => StuckOnlyAtWrap
  <2> SUFFICES ASSUME OrderInv, AllArrived, ~complete, ~AwaitedOnTop
               PROVE  nextFrameCount \in (Modulus - Window)..(Modulus - 1)
    BY DEF StuckOnlyAtWrap
  <2>1. /\ written \in Nat /\ written <= Frames /\ Frames \in Nat /\ Window \in Nat
        /\ produced = Frames + 1 /\ wire = {}
    BY FramesAssumption DEF OrderInv, ProgressOK, AllArrived
  <2>2. PICK e \in queue : e.place = written + 1
    <3>1. written + 1 \in (written + 1)..produced
      BY <2>1
    <3> QED
      BY <2>1, <3>1 DEF OrderInv, AllHere
  <2>3. Stuck
    BY <2>2, NotOnTop DEF AwaitedOnTop
  <2>4. PICK t \in queue : /\ t.place <= written + 1 + Window
                           /\ t.params.frameCount < nextFrameCount
    BY <2>3 DEF Stuck
  <2>5. PICK a \in Nat : a = written + 1
    BY <2>1
  <2>6. PICK c \in Nat : c = t.place
    BY DEF OrderInv, HeadersOK, QueuedOK
  <2>7. c % Modulus < a % Modulus /\ nextFrameCount = a % Modulus
    BY <2>4, <2>5, <2>6 DEF OrderInv, HeadersOK, QueuedOK, ProgressOK
  <2>8. Modulus \in Nat /\ Modulus > 0
    BY ModulusType
  <2>9. a % Modulus \in Nat /\ a % Modulus < Modulus
    BY <2>8, Division
  <2>10. a < c /\ c <= a + Window
    <3>1. c # a
      BY <2>7, <2>9
    <3>2. c > written
      BY <2>6 DEF OrderInv, InWindow
    <3> QED
      BY <2>1, <2>4, <2>5, <2>6, <3>1, <3>2
  <2>11. (a % Modulus) + Window >= Modulus
    BY <2>1, <2>7, <2>8, <2>10, CloseRemainders
  <2> QED
    BY <2>1, <2>7, <2>8, <2>9, <2>11
<1> QED
  BY <1>1, OrderInvariant, PTL
-----------------------------------------------------------------------------
(* Reading along a text: blanks skipped, a run of symbols up to a stop.    *)

LEMMA MinIs ==
  ASSUME NEW X \in SUBSET Int, NEW x \in X, \A y \in X : x <= y
  PROVE  Min(X) = x /\ X # {}
<1>1. Min(X) \in X /\ \A y \in X : Min(X) <= y
  BY DEF Min
<1>2. \A y \in X : (\A z \in X : y <= z) => y = x
  OBVIOUS
<1> QED
  BY <1>1, <1>2

LEMMA SkipHere ==
  ASSUME NEW t, NEW n \in Nat, Len(t) = n, NEW i \in 1..n, t[i] # "blank"
  PROVE  Skip(t, i) = i
<1> DEFINE X == {j \in i..n : t[j] # "blank"}
<1>1. X \in SUBSET Int /\ i \in X /\ \A y \in X : i <= y
  OBVIOUS
<1>2. X = {j \in i..Len(t) : t[j] # "blank"}
  OBVIOUS
<1> HIDE DEF X
<1>3. Min(X) = i /\ X # {}
  BY <1>1, MinIs
<1> QED
  BY <1>2, <1>3 DEF Skip

LEMMA SkipBlank ==
  ASSUME NEW t, NEW n \in Nat, Len(t) = n, NEW i \in 1..n, t[i] = "blank",
         i + 1 <= n, t[i + 1] # "blank"
  PROVE  Skip(t, i) = i + 1
<1> DEFINE X == {j \in i..n : t[j] # "blank"}
<1>1. X \in SUBSET Int /\ i + 1 \in X /\ \A y \in X : i + 1 <= y
  OBVIOUS
<1>2. X = {j \in i..Len(t) : t[j] # "blank"}
  OBVIOUS
<1> HIDE DEF X
<1>3. Min(X) = i + 1 /\ X # {}
  BY <1>1, MinIs
<1> QED
  BY <1>2, <1>3 DEF Skip

LEMMA SkipEnd ==
  ASSUME NEW t, NEW n \in Nat, Len(t) = n
  PROVE  Skip(t, n + 1) = n + 1
<1>1. {j \in (n + 1)..n : t[j] # "blank"} = {}
  OBVIOUS
<1> QED
  BY <1>1 DEF Skip

LEMMA FromStop ==
  ASSUME NEW t, NEW n \in Nat, Len(t) = n, NEW i \in Nat, NEW stop,
         NEW j \in i..n, t[j] \in stop, \A k \in i..(j - 1) : t[k] \notin stop
  PROVE  From(t, i, stop) = j
<1> DEFINE X == {k \in i..n : t[k] \in stop}
<1>1. X \in SUBSET Int /\ j \in X /\ \A y \in X : j <= y
  OBVIOUS
<1>2. X = {k \in i..Len(t) : t[k] \in stop}
  OBVIOUS
<1> HIDE DEF X
<1>3. Min(X) = j /\ X # {}
  BY <1>1, MinIs
<1> QED
  BY <1>2, <1>3 DEF From

LEMMA FromNone ==
  ASSUME NEW t, NEW i, NEW stop, \A k \in i..Len(t) : t[k] \notin stop
  PROVE  From(t, i, stop) = Len(t) + 1
<1>1. {j \in i..Len(t) : t[j] \in stop} = {}
  OBVIOUS
<1> QED
  BY <1>1 DEF From

LEMMA OneSymbol ==
  ASSUME NEW t, NEW i \in Int
  PROVE  SubSeq(t, i, i) = <<t[i]>>
<1> DEFINE s == SubSeq(t, i, i)
           r == <<t[i]>>
           D == {t[i]}
<1>1. s \in Seq(D) /\ Len(s) = 1 /\ \A k \in 1..1 : s[k] = t[i]
  <2>1. \A k \in i..i : t[k] \in D
    OBVIOUS
  <2>2. i <= i /\ i - i + 1 = 1 /\ i + 1 - 1 = i
    OBVIOUS
  <2> HIDE DEF D
  <2> QED
    BY <2>1, <2>2, SubSeqProperties
<1>2. r \in Seq(D) /\ Len(r) = 1 /\ \A k \in 1..1 : r[k] = t[i]
  OBVIOUS
<1> HIDE DEF s, r, D
<1>3. s = r
  BY <1>1, <1>2, SeqEqual
<1> QED
  BY <1>3 DEF s, r

-----------------------------------------------------------------------------
(* The text of an EOF frame whose name got past the client.                *)
IsNameText(t, name) ==
  LET n == Len(name)
  IN  /\ n \in Nat /\ n > 0 /\ Len(t) = n + 10 /\ DOMAIN t = 1..(n + 10)
      /\ t[1] = "open" /\ t[2] = "name" /\ t[3] = "colon" /\ t[4] = "blank"
      /\ t[5] = "mark" /\ t[6] = "str" /\ t[7] = "blank" /\ t[8] = "quote"
      /\ \A i \in 9..(n + 8) : t[i] = name[i - 8] /\ t[i] \notin Punctuation
      /\ t[n + 9] = "quote" /\ t[n + 10] = "close"
      /\ t \in Seq(DOMAIN Length) /\ name \in Seq(DOMAIN Length)

LEMMA TextOf ==
  ASSUME NEW name \in Names, Matches(name), NEW t, t = FilenameAsSisl(name)
  PROVE  IsNameText(t, name)
<1> DEFINE n == Len(name)
           D == DOMAIN Length
           a == <<"open", "name", "colon", "blank", "mark", "str", "blank", "quote">>
           b == <<"quote", "close">>
<1>0. name \in Seq(D)
  BY SymbolAssumption
<1>1. n \in Nat /\ n > 0
  <2>1. name # <<>>
    BY DEF Matches
  <2> QED
    BY <1>0, <2>1, EmptySeq
<1>2. a \in Seq(D) /\ Len(a) = 8 /\ b \in Seq(D) /\ Len(b) = 2
  <2>1. "open" \in D /\ "name" \in D /\ "colon" \in D /\ "blank" \in D /\ "mark" \in D
        /\ "str" \in D /\ "quote" \in D /\ "close" \in D
    BY SymbolAssumption DEF Punctuation
  <2> HIDE DEF D
  <2> QED
    BY <2>1
<1>3. t = (a \o name) \o b
  <2>1. t = a \o name \o b
    BY DEF FilenameAsSisl
  <2> QED
    BY <2>1
<1> DEFINE c == a \o name
<1>4. /\ c \in Seq(D) /\ Len(c) = n + 8
      /\ \A i \in 1..(n + 8) : c[i] = IF i <= 8 THEN a[i] ELSE name[i - 8]
  <2> HIDE DEF a, D
  <2>1. /\ c \in Seq(D) /\ Len(c) = Len(a) + Len(name)
        /\ \A i \in 1..(Len(a) + Len(name)) :
             c[i] = IF i <= Len(a) THEN a[i] ELSE name[i - Len(a)]
    BY <1>0, <1>2, ConcatProperties
  <2> QED
    BY <1>0, <1>1, <1>2, <2>1
<1>5. /\ t \in Seq(D) /\ Len(t) = n + 10
      /\ \A i \in 1..(n + 10) : t[i] = IF i <= n + 8 THEN c[i] ELSE b[i - (n + 8)]
  <2> HIDE DEF b, c, D
  <2>1. /\ c \o b \in Seq(D) /\ Len(c \o b) = Len(c) + Len(b)
        /\ \A i \in 1..(Len(c) + Len(b)) :
             (c \o b)[i] = IF i <= Len(c) THEN c[i] ELSE b[i - Len(c)]
    BY <1>2, <1>4, ConcatProperties
  <2>2. t = c \o b
    BY <1>3 DEF c
  <2> QED
    BY <1>1, <1>2, <1>4, <2>1, <2>2
<1>6. /\ a[1] = "open" /\ a[2] = "name" /\ a[3] = "colon" /\ a[4] = "blank"
      /\ a[5] = "mark" /\ a[6] = "str" /\ a[7] = "blank" /\ a[8] = "quote"
      /\ b[1] = "quote" /\ b[2] = "close"
  OBVIOUS
<1> HIDE DEF a, b, c, D
<1>7. \A i \in 1..8 : t[i] = a[i]
  BY <1>1, <1>4, <1>5
<1>8. t[n + 9] = b[1] /\ t[n + 10] = b[2]
  BY <1>1, <1>5
<1>9. ASSUME NEW i \in 9..(n + 8)
      PROVE  t[i] = name[i - 8] /\ t[i] \notin Punctuation
  <2>1. t[i] = name[i - 8]
    BY <1>1, <1>4, <1>5
  <2>2. i - 8 \in DOMAIN name
    BY <1>0, <1>1
  <2>3. name[i - 8] \in ToSet(name)
    BY <2>2 DEF ToSet
  <2>4. name[i - 8] \notin Special
    BY <2>3 DEF Matches
  <2> QED
    BY <2>1, <2>4, SymbolAssumption
<1>10. DOMAIN t = 1..(n + 10)
  BY <1>5
<1>11. t[1] = a[1] /\ t[2] = a[2] /\ t[3] = a[3] /\ t[4] = a[4]
       /\ t[5] = a[5] /\ t[6] = a[6] /\ t[7] = a[7] /\ t[8] = a[8]
  BY <1>7
<1> QED
  BY <1>0, <1>1, <1>5, <1>6, <1>8, <1>9, <1>10, <1>11 DEF D, IsNameText

(* Where the symbols SISL gives a meaning to are in it.                    *)
LEMMA SymbolAt ==
  ASSUME NEW name, NEW t, IsNameText(t, name), NEW i \in 1..(Len(name) + 10)
  PROVE  /\ t[i] = "blank" <=> i = 4 \/ i = 7
         /\ t[i] # "comma"
         /\ t[i] = "colon" <=> i = 3
         /\ t[i] = "open" <=> i = 1
         /\ t[i] = "quote" <=> i = 8 \/ i = Len(name) + 9
         /\ At(t, i) = t[i]
<1> DEFINE n == Len(name)
<1>1. n \in Nat /\ n > 0
  BY DEF IsNameText
<1>2. At(t, i) = t[i]
  BY DEF IsNameText, At
<1>3. i \in 1..8 \/ i \in 9..(n + 8) \/ i = n + 9 \/ i = n + 10
  BY <1>1
<1>4. CASE i \in 1..8
  BY <1>1, <1>2, <1>4 DEF IsNameText
<1>5. CASE i \in 9..(n + 8)
  <2>1. t[i] \notin Punctuation
    BY <1>5 DEF IsNameText
  <2> QED
    BY <1>1, <1>2, <1>5, <2>1 DEF Punctuation
<1>6. CASE i = n + 9
  BY <1>1, <1>2, <1>6 DEF IsNameText
<1>7. CASE i = n + 10
  BY <1>1, <1>2, <1>7 DEF IsNameText
<1> QED
  BY <1>3, <1>4, <1>5, <1>6, <1>7

LEMMA SkipAt ==
  ASSUME NEW name, NEW t, IsNameText(t, name), NEW i \in 1..(Len(name) + 11)
  PROVE  Skip(t, i) = IF i = 4 THEN 5 ELSE IF i = 7 THEN 8 ELSE i
<1> DEFINE n == Len(name) + 10
<1>1. n \in Nat /\ n >= 11 /\ Len(t) = n
  BY DEF IsNameText
<1>2. CASE i = n + 1
  BY <1>1, <1>2, SkipEnd
<1>3. CASE i \in 1..n /\ i # 4 /\ i # 7
  <2>1. t[i] # "blank"
    BY <1>3, SymbolAt
  <2> QED
    BY <1>1, <1>3, <2>1, SkipHere
<1>4. CASE i = 4 \/ i = 7
  <2>1. t[i] = "blank"
    BY <1>1, <1>4, SymbolAt
  <2>2. t[i + 1] # "blank" /\ i + 1 <= n /\ i \in 1..n
    <3>1. i + 1 \in 1..n /\ i + 1 # 4 /\ i + 1 # 7
      BY <1>1, <1>4
    <3> QED
      BY <1>1, <1>4, <3>1, SymbolAt
  <2>3. Skip(t, i) = i + 1
    BY <1>1, <2>1, <2>2, SkipBlank
  <2> QED
    BY <1>4, <2>3
<1> QED
  BY <1>1, <1>2, <1>3, <1>4

(* The name the rule `name' reads where it starts.                         *)
LEMMA NameText2 ==
  ASSUME NEW name, NEW t, IsNameText(t, name)
  PROVE  NameAt(t, 2).text = <<"name">>
<1> DEFINE stop == {"colon", "comma"}
<1>1. /\ Len(t) \in Nat /\ Len(t) >= 11 /\ Len(name) \in Nat
      /\ Len(t) = Len(name) + 10 /\ t[2] = "name" /\ t[3] = "colon"
  BY DEF IsNameText
<1>2. Skip(t, 2) = 2
  BY <1>1, SkipAt
<1>3. t[3] \in stop /\ \A k \in 2..(3 - 1) : t[k] \notin stop
  BY <1>1
<1>4. From(t, 2, stop) = 3
  BY <1>1, <1>3, FromStop
<1>5. NameAt(t, 2).text = SubSeq(t, 2 + Len(<<>>), From(t, 2 + Len(<<>>), stop) - 1)
  BY <1>2 DEF NameAt, Lexeme
<1>6. 2 + Len(<<>>) = 2 /\ 3 - 1 = 2
  OBVIOUS
<1>7. NameAt(t, 2).text = SubSeq(t, 2, 2)
  BY <1>4, <1>5, <1>6
<1>8. SubSeq(t, 2, 2) = <<t[2]>>
  BY OneSymbol
<1> QED
  BY <1>1, <1>7, <1>8

(* The rule `name' reads the member's name where it starts and at the      *)
(* brace before it, and nothing further on.                                *)
LEMMA NameRead ==
  ASSUME NEW name, NEW t, IsNameText(t, name), NEW i \in 1..(Len(name) + 11)
  PROVE  /\ NameAt(t, i).ok <=> i <= 2
         /\ i <= 2 => NameAt(t, i).next = 4
         /\ NameAt(t, 2).text = <<"name">>
<1> DEFINE n == Len(name) + 10
           stop == {"colon", "comma"}
           run == Skip(t, i)
           end == From(t, run, stop)
<1>0. run = IF i = 4 THEN 5 ELSE IF i = 7 THEN 8 ELSE i
  BY SkipAt
<1>1. /\ n \in Nat /\ n >= 11 /\ Len(t) = n
      /\ run = IF i = 4 THEN 5 ELSE IF i = 7 THEN 8 ELSE i
      /\ Len(<<>>) = 0 /\ run + 0 = run
  <2> HIDE DEF run
  <2> QED
    BY <1>0 DEF IsNameText
<1>2. \A k \in 1..n : t[k] \in stop <=> k = 3
  BY SymbolAt
<1>3. /\ NameAt(t, i).ok <=> end - run >= 1 /\ At(t, end) = "colon"
      /\ NameAt(t, i).next = end + 1
  <2> HIDE DEF run
  <2>1. NameAt(t, i) = [ok |-> /\ <<>> = <<>> \/ At(t, run) = Head(<<>>)
                               /\ From(t, run + Len(<<>>), stop) - (run + Len(<<>>)) >= 1
                               /\ At(t, From(t, run + Len(<<>>), stop)) = "colon",
                        text |-> SubSeq(t, run + Len(<<>>), From(t, run + Len(<<>>), stop) - 1),
                        next |-> From(t, run + Len(<<>>), stop) + 1]
    BY DEF NameAt, Lexeme, run
  <2>2. run + Len(<<>>) = run
    BY <1>1
  <2> HIDE DEF stop
  <2> QED
    BY <2>1, <2>2
<1>4. CASE i <= 2
  <2>1. run = i /\ i \in Nat /\ 3 \in i..n
    BY <1>1, <1>4
  <2>2. t[3] \in stop /\ \A k \in i..(3 - 1) : t[k] \notin stop
    BY <1>1, <1>2, <1>4
  <2>3. end = 3
    BY <1>1, <2>1, <2>2, FromStop
  <2>4. At(t, 3) = "colon"
    BY <1>1, SymbolAt
  <2> QED
    BY <1>3, <1>4, <2>1, <2>3, <2>4, NameText2
<1>5. CASE i > 2
  <2>1. CASE i = 3
    <3>1. run = 3 /\ 3 \in Nat /\ 3 \in 3..n /\ t[3] \in stop
      BY <1>1, <1>2, <2>1
    <3>2. \A k \in 3..(3 - 1) : t[k] \notin stop
      OBVIOUS
    <3>3. end = 3
      BY <1>1, <3>1, <3>2, FromStop
    <3> QED
      BY <1>3, <1>5, <3>1, <3>3, NameText2
  <2>2. CASE i > 3
    <3>1. \A k \in run..Len(t) : t[k] \notin stop
      BY <1>1, <1>2, <2>2
    <3>2. end = n + 1
      BY <1>1, <3>1, FromNone
    <3>3. At(t, n + 1) # "colon"
      BY <1>1 DEF At, IsNameText
    <3> QED
      BY <1>3, <1>5, <3>2, <3>3, NameText2
  <2> QED
    BY <1>5, <2>1, <2>2
<1> QED
  BY <1>4, <1>5
(* The rule `type' at the blank before the mark, and `quoted_string' at    *)
(* the quote that follows.                                                 *)
LEMMA TypeRead ==
  ASSUME NEW name, NEW t, IsNameText(t, name)
  PROVE  TypeAt(t, 4).ok /\ TypeAt(t, 4).next = 8 /\ TypeAt(t, 4).text = <<"str">>
<1> DEFINE n == Len(name) + 10
           open == <<"mark">>
           stop == {"blank"}
<1>1. n \in Nat /\ n >= 11 /\ Len(t) = n /\ t[5] = "mark" /\ t[6] = "str"
  BY DEF IsNameText
<1>2. Skip(t, 4) = 5 /\ At(t, 5) = "mark" /\ At(t, 7) = "blank"
  <2>1. 4 \in 1..(Len(name) + 11) /\ 5 \in 1..n /\ 7 \in 1..n
    BY <1>1
  <2> QED
    BY <1>1, <2>1, SkipAt, SymbolAt
<1>3. t[7] \in stop /\ \A k \in 6..(7 - 1) : t[k] \notin stop
  <2>1. 7 \in 1..n /\ t[7] = "blank"
    BY <1>1, SymbolAt
  <2> QED
    BY <1>1, <2>1
<1>4. From(t, 6, stop) = 7
  BY <1>1, <1>3, FromStop
<1>5. Len(open) = 1 /\ Head(open) = "mark" /\ 5 + 1 = 6 /\ 7 - 6 >= 1
      /\ 7 - 1 = 6 /\ 7 + 1 = 8
  OBVIOUS
<1>6. SubSeq(t, 6, 6) = <<"str">>
  BY <1>1, OneSymbol
<1> HIDE DEF open, stop
<1>7. TypeAt(t, 4) = Lexeme(t, 4, open, stop, 1, "blank")
  BY DEF TypeAt, open, stop
<1>8. /\ Lexeme(t, 4, open, stop, 1, "blank").ok
      /\ Lexeme(t, 4, open, stop, 1, "blank").next = 8
      /\ Lexeme(t, 4, open, stop, 1, "blank").text = SubSeq(t, 6, 6)
  BY <1>2, <1>4, <1>5 DEF Lexeme
<1> QED
  BY <1>6, <1>7, <1>8

LEMMA QuotedRead ==
  ASSUME NEW name, NEW t, IsNameText(t, name)
  PROVE  /\ QuotedAt(t, 8).ok /\ QuotedAt(t, 8).next = Len(name) + 10
         /\ QuotedAt(t, 8).text = name
<1> DEFINE m == Len(name)
           n == m + 10
           open == <<"quote">>
           stop == {"quote"}
<1>1. m \in Nat /\ m > 0 /\ Len(t) = n /\ n \in Nat
  BY DEF IsNameText
<1>2. Skip(t, 8) = 8 /\ At(t, 8) = "quote" /\ At(t, m + 9) = "quote"
  <2>1. 8 \in 1..(Len(name) + 11) /\ 8 \in 1..n /\ m + 9 \in 1..n
    BY <1>1
  <2> QED
    BY <1>1, <2>1, SkipAt, SymbolAt
<1>3. t[m + 9] \in stop /\ \A k \in 9..((m + 9) - 1) : t[k] \notin stop
  <2>1. t[m + 9] \in stop
    BY DEF IsNameText
  <2>2. ASSUME NEW k \in 9..((m + 9) - 1) PROVE t[k] \notin stop
    <3>1. k \in 1..n /\ k # 8 /\ k # m + 9
      BY <1>1
    <3>2. t[k] # "quote"
      BY <3>1, SymbolAt
    <3> QED
      BY <3>2
  <2> QED
    BY <2>1, <2>2
<1>4. From(t, 9, stop) = m + 9
  <2>1. m + 9 \in 9..n /\ 9 \in Nat
    BY <1>1
  <2> HIDE DEF stop
  <2> QED
    BY <1>1, <1>3, <2>1, FromStop
<1>5. /\ Len(open) = 1 /\ Head(open) = "quote" /\ 8 + 1 = 9 /\ (m + 9) - 9 >= 0
      /\ (m + 9) - 1 = m + 8 /\ (m + 9) + 1 = n
  BY <1>1
<1>6. SubSeq(t, 9, m + 8) = name
  <2> DEFINE D == DOMAIN Length
             s == SubSeq(t, 9, m + 8)
  <2>1. name \in Seq(D) /\ t \in Seq(D)
    BY DEF IsNameText
  <2>2. \A k \in 9..(m + 8) : t[k] \in D /\ t[k] = name[k - 8]
    <3>1. DOMAIN t = 1..n /\ \A k \in 9..(m + 8) : t[k] = name[k - 8]
      BY DEF IsNameText
    <3> HIDE DEF D
    <3> QED
      BY <1>1, <2>1, <3>1
  <2>3. /\ s \in Seq(D)
        /\ Len(s) = IF 9 <= m + 8 THEN (m + 8) - 9 + 1 ELSE 0
        /\ \A k \in 1..((m + 8) - 9 + 1) : s[k] = t[9 + k - 1]
    <3> HIDE DEF D
    <3>1. m + 8 \in Int /\ 9 \in Int
      BY <1>1
    <3> QED
      BY <2>2, <3>1, SubSeqProperties
  <2> HIDE DEF s, D
  <2>4. Len(s) = Len(name) /\ \A k \in 1..Len(s) : s[k] = name[k]
    <3>1. Len(s) = m
      BY <1>1, <2>3
    <3>2. ASSUME NEW k \in 1..m PROVE s[k] = name[k]
      <4>1. /\ k \in 1..((m + 8) - 9 + 1) /\ 9 + k - 1 \in 9..(m + 8)
            /\ (9 + k - 1) - 8 = k
        BY <1>1
      <4> QED
        BY <2>2, <2>3, <4>1
    <3> QED
      BY <3>1, <3>2
  <2>5. s = name
    BY <2>1, <2>3, <2>4, SeqEqual
  <2> QED
    BY <2>5 DEF s
<1> HIDE DEF open, stop
<1>7. QuotedAt(t, 8) = Lexeme(t, 8, open, stop, 0, "quote")
  BY DEF QuotedAt, open, stop
<1>8. /\ Lexeme(t, 8, open, stop, 0, "quote").ok
      /\ Lexeme(t, 8, open, stop, 0, "quote").next = (m + 9) + 1
      /\ Lexeme(t, 8, open, stop, 0, "quote").text = SubSeq(t, 9, (m + 9) - 1)
  BY <1>2, <1>4, <1>5 DEF Lexeme
<1> QED
  BY <1>5, <1>6, <1>7, <1>8

-----------------------------------------------------------------------------
(* What every rule reads at every place of the text: the member where it   *)
(* starts and, as `name' takes the brace for a part of it, one place       *)
(* before; the object where the text starts; nothing elsewhere.            *)
GroupingRead(t, name, i) ==
  IF i <= 2 THEN Matched(Len(name) + 10, <<Key(NameAt(t, i).text), Scalar("str", name)>>)
            ELSE Failed(<<>>)

Listed(at, events) == [ok |-> TRUE, at |-> at, events |-> events, members |-> 1]

GroupingsRead(t, name, i) ==
  IF i <= 2 THEN Listed(Len(name) + 10, <<Key(NameAt(t, i).text), Scalar("str", name)>>)
            ELSE Matched(i, <<>>)

ObjectEvents(name) ==
  <<StartObject, Key(<<"name">>), Scalar("str", name), EndObject(1)>>

ObjectRead(name, i) ==
  IF i = 1 THEN Matched(Len(name) + 11, ObjectEvents(name)) ELSE Failed(<<>>)

LEMMA PairOf ==
  ASSUME NEW a, NEW b
  PROVE  <<a>> \o <<b>> = <<a, b>>
<1> DEFINE D == {a, b}
           r == <<a>>
           s == <<b>>
           u == <<a, b>>
<1>1. r \in Seq(D) /\ s \in Seq(D) /\ Len(r) = 1 /\ Len(s) = 1 /\ r[1] = a /\ s[1] = b
  OBVIOUS
<1>2. u \in Seq(D) /\ Len(u) = 2 /\ u[1] = a /\ u[2] = b
  OBVIOUS
<1> HIDE DEF D, r, s, u
<1>3. /\ r \o s \in Seq(D) /\ Len(r \o s) = Len(r) + Len(s)
      /\ \A i \in 1..(Len(r) + Len(s)) :
           (r \o s)[i] = IF i <= Len(r) THEN r[i] ELSE s[i - Len(r)]
  BY <1>1, ConcatProperties
<1>4. Len(r \o s) = 2 /\ (r \o s)[1] = a /\ (r \o s)[2] = b
  BY <1>1, <1>3
<1> DEFINE v == r \o s
<1> HIDE DEF v
<1>5. v \in Seq(D) /\ Len(v) = 2 /\ v[1] = a /\ v[2] = b
  BY <1>3, <1>4 DEF v
<1>6. v = u
  BY <1>2, <1>5, SeqEqual
<1> QED
  BY <1>6 DEF v, r, s, u

LEMMA EventsReplaced ==
  ASSUME NEW ok, NEW at, NEW e, NEW x, NEW r,
         r = [ok |-> ok, at |-> at, events |-> e, members |-> 0]
  PROVE  [r EXCEPT !.events = x] = [ok |-> ok, at |-> at, events |-> x, members |-> 0]
OBVIOUS

LEMMA AfterMatched ==
  ASSUME NEW e, NEW at, NEW f
  PROVE  /\ After(e, Matched(at, f)) = Matched(at, e \o f)
         /\ After(e, Failed(f)) = Failed(e \o f)
<1> DEFINE d == Matched(at, f)
           c == Failed(f)
           x == e \o f
           yes == TRUE
           no == FALSE
<1>1. d = [ok |-> yes, at |-> at, events |-> f, members |-> 0]
  BY DEF Matched
<1>2. c = [ok |-> no, at |-> 0, events |-> f, members |-> 0]
  BY DEF Failed
<1>3. Matched(at, x) = [ok |-> yes, at |-> at, events |-> x, members |-> 0]
  BY DEF Matched
<1>4. Failed(x) = [ok |-> no, at |-> 0, events |-> x, members |-> 0]
  BY DEF Failed
<1>5. After(e, d) = [d EXCEPT !.events = e \o d.events]
  BY DEF After
<1>6. After(e, c) = [c EXCEPT !.events = e \o c.events]
  BY DEF After
<1> HIDE DEF d, c, yes, no
<1>7. e \o d.events = x /\ e \o c.events = x
  <2>1. d.events = f /\ c.events = f
    BY <1>1, <1>2
  <2> QED
    BY <2>1
<1> HIDE DEF x
<1>8. [d EXCEPT !.events = x] = [ok |-> yes, at |-> at, events |-> x, members |-> 0]
  BY <1>1, EventsReplaced
<1>9. [c EXCEPT !.events = x] = [ok |-> no, at |-> 0, events |-> x, members |-> 0]
  BY <1>2, EventsReplaced
<1>10. After(e, d) = Matched(at, x)
  BY <1>3, <1>5, <1>7, <1>8
<1>11. After(e, c) = Failed(x)
  BY <1>4, <1>6, <1>7, <1>9
<1> QED
  BY <1>10, <1>11 DEF d, c, x

LEMMA GroupingIs ==
  ASSUME NEW name, NEW t, IsNameText(t, name), NEW i \in 1..(Len(name) + 11), NEW p
  PROVE  Grouping(p, t, i) = GroupingRead(t, name, i)
<1>1. CASE i <= 2
  <2> DEFINE text == NameAt(t, i).text
             key == <<Key(text)>>
             value == <<Scalar("str", name)>>
  <2>1. NameAt(t, i).ok /\ NameAt(t, i).next = 4
    BY <1>1, NameRead
  <2>2. TypeAt(t, 4).ok /\ TypeAt(t, 4).next = 8 /\ TypeAt(t, 4).text = <<"str">>
    BY TypeRead
  <2>3. /\ QuotedAt(t, 8).ok /\ QuotedAt(t, 8).next = Len(name) + 10
        /\ QuotedAt(t, 8).text = name
    BY QuotedRead
  <2>4. ValueEvents(<<"str">>, name) = value
    BY DEF ValueEvents, RType
  <2>5. Grouping(p, t, i) = After(key, Matched(Len(name) + 10, value))
    BY <2>1, <2>2, <2>3, <2>4 DEF Grouping
  <2>6. key \o value = <<Key(text), Scalar("str", name)>>
    BY PairOf
  <2> HIDE DEF key, value, text
  <2>7. After(key, Matched(Len(name) + 10, value)) = Matched(Len(name) + 10, key \o value)
    BY AfterMatched
  <2> QED
    BY <1>1, <2>5, <2>6, <2>7 DEF GroupingRead, text
<1>2. CASE ~(i <= 2)
  <2>1. ~NameAt(t, i).ok
    BY <1>2, NameRead
  <2> QED
    BY <1>2, <2>1 DEF Grouping, GroupingRead
<1> QED
  BY <1>1, <1>2

LEMMA MembersReplaced ==
  ASSUME NEW ok, NEW at, NEW e, NEW m, NEW k, NEW r,
         r = [ok |-> ok, at |-> at, events |-> e, members |-> m]
  PROVE  [r EXCEPT !.members = k] = [ok |-> ok, at |-> at, events |-> e, members |-> k]
OBVIOUS

LEMMA CountedEvents ==
  ASSUME NEW ok, NEW at, NEW e, NEW m, NEW x, NEW r,
         r = [ok |-> ok, at |-> at, events |-> e, members |-> m]
  PROVE  [r EXCEPT !.events = x] = [ok |-> ok, at |-> at, events |-> x, members |-> m]
OBVIOUS

LEMMA ListedMatched ==
  ASSUME NEW at, NEW e
  PROVE  [Matched(at, e) EXCEPT !.members = @ + 1] = Listed(at, e)
<1> DEFINE r == Matched(at, e)
           yes == TRUE
           k == r.members + 1
<1>1. r = [ok |-> yes, at |-> at, events |-> e, members |-> 0]
  BY DEF Matched
<1>2. Listed(at, e) = [ok |-> yes, at |-> at, events |-> e, members |-> 1]
  BY DEF Listed
<1> HIDE DEF r, yes
<1>3. k = 1
  BY <1>1
<1> HIDE DEF k
<1>4. [r EXCEPT !.members = k] = [ok |-> yes, at |-> at, events |-> e, members |-> k]
  BY <1>1, MembersReplaced
<1>5. [r EXCEPT !.members = k] = Listed(at, e)
  BY <1>2, <1>3, <1>4
<1> QED
  BY <1>5 DEF r, k

LEMMA AfterListed ==
  ASSUME NEW d, NEW at, NEW e
  PROVE  After(d, Listed(at, e)) = Listed(at, d \o e)
<1> DEFINE r == Listed(at, e)
           yes == TRUE
           x == d \o e
<1>1. r = [ok |-> yes, at |-> at, events |-> e, members |-> 1]
  BY DEF Listed
<1>2. Listed(at, x) = [ok |-> yes, at |-> at, events |-> x, members |-> 1]
  BY DEF Listed
<1>3. After(d, r) = [r EXCEPT !.events = d \o r.events]
  BY DEF After
<1> HIDE DEF r, yes
<1>4. d \o r.events = x
  <2>1. r.events = e
    BY <1>1
  <2> QED
    BY <2>1
<1> HIDE DEF x
<1>5. [r EXCEPT !.events = x] = [ok |-> yes, at |-> at, events |-> x, members |-> 1]
  BY <1>1, CountedEvents
<1>6. After(d, r) = Listed(at, x)
  BY <1>2, <1>3, <1>4, <1>5
<1> QED
  BY <1>6 DEF r, x

(* No comma follows a place of the text.                                   *)
LEMMA NoComma ==
  ASSUME NEW name, NEW t, IsNameText(t, name), NEW i \in 1..(Len(name) + 11)
  PROVE  At(t, Skip(t, i)) # "comma"
<1> DEFINE n == Len(name) + 10
           j == Skip(t, i)
<1>1. n \in Nat /\ n >= 11 /\ DOMAIN t = 1..n
  BY DEF IsNameText
<1>2. j \in 1..(n + 1)
  <2>1. j = IF i = 4 THEN 5 ELSE IF i = 7 THEN 8 ELSE i
    BY SkipAt
  <2> HIDE DEF j
  <2> QED
    BY <1>1, <2>1
<1> HIDE DEF j
<1>3. ASSUME j \in 1..n PROVE At(t, j) # "comma"
  BY <1>3, SymbolAt
<1>4. ASSUME j = n + 1 PROVE At(t, j) # "comma"
  <2>1. j \notin DOMAIN t
    BY <1>1, <1>4
  <2> QED
    BY <2>1 DEF At
<1>5. At(t, j) # "comma"
  BY <1>1, <1>2, <1>3, <1>4
<1> QED
  BY <1>5 DEF j

LEMMA GroupingsEnd ==
  ASSUME NEW name, NEW t, IsNameText(t, name), NEW i \in 1..(Len(name) + 11), i > 2,
         NEW p, p["grouping"][i] = GroupingRead(t, name, i), NEW more
  PROVE  Groupings(p, t, i, more) = GroupingsRead(t, name, i)
<1> DEFINE none == <<>>
           listed == IF more /\ At(t, Skip(t, i)) = "comma"
                     THEN p["grouping"][Skip(t, i) + 1] ELSE Failed(none)
<1>1. At(t, Skip(t, i)) # "comma"
  BY NoComma
<1>2. listed = Failed(none)
  BY <1>1
<1>3. ~Failed(none).ok /\ Failed(none).events = none
  BY DEF Failed
<1>4. p["grouping"][i] = Failed(none)
  BY DEF GroupingRead
<1>5. none \o none = none
  <2>1. none \in Seq({})
    OBVIOUS
  <2> QED
    BY <2>1, ConcatEmptySeq
<1>6. After(none, Failed(none)) = Failed(none)
  <2>1. After(none, Failed(none)) = Failed(none \o none)
    BY AfterMatched
  <2> QED
    BY <1>5, <2>1
<1>7. GroupingsRead(t, name, i) = Matched(i, none)
  BY DEF GroupingsRead
<1> HIDE DEF none
<1>8. Groupings(p, t, i, more) =
        LET next == IF listed.ok THEN listed
                    ELSE After(listed.events, p["grouping"][i])
        IN  IF next.ok
            THEN [After(next.events, p["more"][next.at]) EXCEPT !.members = @ + 1]
            ELSE Matched(i, next.events)
  BY DEF Groupings, none
<1> HIDE DEF listed
<1> QED
  BY <1>2, <1>3, <1>4, <1>6, <1>7, <1>8

LEMMA GroupingsStart ==
  ASSUME NEW name, NEW t, IsNameText(t, name), NEW i \in 1..(Len(name) + 11), i <= 2,
         NEW p, p["grouping"][i] = GroupingRead(t, name, i),
         p["more"][Len(name) + 10] = Matched(Len(name) + 10, <<>>), NEW more
  PROVE  Groupings(p, t, i, more) = GroupingsRead(t, name, i)
<1> DEFINE none == <<>>
           end == Len(name) + 10
           a == Key(NameAt(t, i).text)
           b == Scalar("str", name)
           e == <<a, b>>
           listed == IF more /\ At(t, Skip(t, i)) = "comma"
                     THEN p["grouping"][Skip(t, i) + 1] ELSE Failed(none)
           full == Matched(end, e)
<1>1. At(t, Skip(t, i)) # "comma"
  BY NoComma
<1>2. listed = Failed(none)
  BY <1>1
<1>3. ~Failed(none).ok /\ Failed(none).events = none
  BY DEF Failed
<1>4. p["grouping"][i] = full
  BY DEF GroupingRead
<1>5. none \o e = e /\ e \o none = e
  <2> HIDE DEF a, b
  <2>1. e \in Seq({a, b})
    OBVIOUS
  <2> HIDE DEF e
  <2> QED
    BY <2>1, ConcatEmptySeq
<1>6. GroupingsRead(t, name, i) = Listed(end, e)
  BY DEF GroupingsRead
<1>7. p["more"][end] = Matched(end, none)
  OBVIOUS
<1>8. Groupings(p, t, i, more) =
        LET next == IF listed.ok THEN listed
                    ELSE After(listed.events, p["grouping"][i])
        IN  IF next.ok
            THEN [After(next.events, p["more"][next.at]) EXCEPT !.members = @ + 1]
            ELSE Matched(i, next.events)
  BY DEF Groupings, none
<1> HIDE DEF none, end, e, listed
<1>9. After(none, full) = full
  <2>1. After(none, full) = Matched(end, none \o e)
    BY AfterMatched
  <2> QED
    BY <1>5, <2>1
<1>10. After(e, Matched(end, none)) = full
  <2>1. After(e, Matched(end, none)) = Matched(end, e \o none)
    BY AfterMatched
  <2> QED
    BY <1>5, <2>1
<1>11. [full EXCEPT !.members = @ + 1] = Listed(end, e)
  BY ListedMatched
<1>12. full.ok /\ full.events = e /\ full.at = end
  BY DEF Matched
<1> HIDE DEF full
<1>13. Groupings(p, t, i, more) =
         [After(full.events, p["more"][full.at]) EXCEPT !.members = @ + 1]
  BY <1>2, <1>3, <1>4, <1>8, <1>9, <1>12
<1>14. After(full.events, p["more"][full.at]) = full
  BY <1>7, <1>10, <1>12
<1> QED
  BY <1>6, <1>11, <1>13, <1>14

LEMMA ObjectNone ==
  ASSUME NEW name, NEW t, IsNameText(t, name), NEW i \in 1..(Len(name) + 11), i > 1, NEW p
  PROVE  Object(p, t, i) = Failed(<<>>)
<1> DEFINE n == Len(name) + 10
           j == Skip(t, i)
<1>1. n \in Nat /\ n >= 11 /\ DOMAIN t = 1..n
  BY DEF IsNameText
<1>2. j \in 2..(n + 1)
  <2>1. j = IF i = 4 THEN 5 ELSE IF i = 7 THEN 8 ELSE i
    BY SkipAt
  <2> HIDE DEF j
  <2> QED
    BY <1>1, <2>1
<1> HIDE DEF j
<1>3. ASSUME j \in 2..n PROVE At(t, j) # "open"
  BY <1>3, SymbolAt
<1>4. ASSUME j = n + 1 PROVE At(t, j) # "open"
  <2>1. j \notin DOMAIN t
    BY <1>1, <1>4
  <2> QED
    BY <2>1 DEF At
<1>5. At(t, j) # "open"
  BY <1>1, <1>2, <1>3, <1>4
<1> QED
  BY <1>5 DEF j, Object

LEMMA EventsOf ==
  ASSUME NEW a, NEW b, NEW c, NEW d
  PROVE  Append(<<a>> \o <<b, c>>, d) = <<a, b, c, d>>
<1> DEFINE D == {a, b, c, d}
           r == <<a>>
           s == <<b, c>>
           u == <<a, b, c, d>>
           v == r \o s
           w == Append(v, d)
<1>1. /\ r \in Seq(D) /\ s \in Seq(D) /\ Len(r) = 1 /\ Len(s) = 2
      /\ r[1] = a /\ s[1] = b /\ s[2] = c /\ d \in D
  OBVIOUS
<1>2. u \in Seq(D) /\ Len(u) = 4 /\ u[1] = a /\ u[2] = b /\ u[3] = c /\ u[4] = d
  OBVIOUS
<1> HIDE DEF D, r, s, u
<1>3. v \in Seq(D) /\ Len(v) = 3 /\ v[1] = a /\ v[2] = b /\ v[3] = c
  <2>1. /\ v \in Seq(D) /\ Len(v) = Len(r) + Len(s)
        /\ \A i \in 1..(Len(r) + Len(s)) :
             v[i] = IF i <= Len(r) THEN r[i] ELSE s[i - Len(r)]
    BY <1>1, ConcatProperties
  <2> HIDE DEF v
  <2> QED
    BY <1>1, <2>1
<1> HIDE DEF v
<1>4. /\ w \in Seq(D) /\ Len(w) = 4 /\ w[1] = a /\ w[2] = b /\ w[3] = c /\ w[4] = d
  <2>1. v \in Seq(D) /\ d \in D
    BY <1>1, <1>3
  <2>2. w \in Seq(D) /\ Len(w) = Len(v) + 1 /\ w[Len(v) + 1] = d
    BY <2>1
  <2>3. \A i \in 1..Len(v) : w[i] = v[i]
    BY <2>1, AppendProperties
  <2> HIDE DEF w
  <2> QED
    BY <1>3, <2>2, <2>3
<1> HIDE DEF w
<1>5. w = u
  BY <1>2, <1>4, SeqEqual
<1> QED
  BY <1>5 DEF w, v, r, s, u

LEMMA ObjectWhole ==
  ASSUME NEW name, NEW t, IsNameText(t, name),
         NEW p, p["groupings"][2] = GroupingsRead(t, name, 2)
  PROVE  Object(p, t, 1) = ObjectRead(name, 1)
<1> DEFINE end == Len(name) + 10
           a == StartObject
           b == Key(<<"name">>)
           c == Scalar("str", name)
           d == EndObject(1)
           e == <<b, c>>
           f == <<a>>
           body == After(f, p["groupings"][2])
<1>1. end \in 11..(Len(name) + 10) /\ Len(name) \in Nat /\ 1 \in 1..(Len(name) + 11)
  BY DEF IsNameText
<1>2. Skip(t, 1) = 1 /\ At(t, 1) = "open" /\ Skip(t, end) = end /\ At(t, end) = "close"
  <2>1. Skip(t, 1) = 1 /\ Skip(t, end) = end
    BY <1>1, SkipAt
  <2>2. At(t, 1) = t[1] /\ At(t, end) = t[end]
    BY <1>1, SymbolAt
  <2>3. t[1] = "open" /\ t[end] = "close"
    BY DEF IsNameText
  <2> QED
    BY <2>1, <2>2, <2>3
<1>3. p["groupings"][2] = Listed(end, e)
  BY NameText2 DEF GroupingsRead
<1>4. ObjectRead(name, 1) = Matched(end + 1, <<a, b, c, d>>)
  <2>1. end + 1 = Len(name) + 11
    BY <1>1
  <2> QED
    BY <2>1 DEF ObjectRead, ObjectEvents
<1>5. Append(f \o e, d) = <<a, b, c, d>>
  BY EventsOf
<1>6. Object(p, t, 1) =
        LET open == Skip(t, 1)
            whole == After(f, p["groupings"][open + 1])
            close == Skip(t, whole.at)
        IN  IF At(t, open) # "open" THEN Failed(<<>>)
            ELSE IF At(t, close) # "close" THEN Failed(whole.events)
            ELSE Matched(close + 1, Append(whole.events, EndObject(whole.members)))
  BY DEF Object
<1>7. 1 + 1 = 2 /\ EndObject(1) = d
  OBVIOUS
<1> HIDE DEF a, b, c, d, e, f, end
<1>8. body = Listed(end, f \o e)
  BY <1>3, AfterListed
<1>9. body.at = end /\ body.events = f \o e /\ body.members = 1
  BY <1>8 DEF Listed
<1> HIDE DEF body
<1>10. After(f, p["groupings"][Skip(t, 1) + 1]) = body
  BY <1>2, <1>7 DEF body
<1>11. Object(p, t, 1) = Matched(end + 1, Append(f \o e, d))
  BY <1>2, <1>6, <1>7, <1>9, <1>10
<1> QED
  BY <1>4, <1>5, <1>11

(* The whole reading, as one function of the rule and the place.           *)
Reading(t, name) ==
  [rule \in Rules |->
     [i \in 1..(Len(t) + 1) |->
        IF rule = "grouping" THEN GroupingRead(t, name, i)
        ELSE IF rule = "sisl" THEN ObjectRead(name, i)
        ELSE GroupingsRead(t, name, i)]]

LEMMA RuleIs ==
  ASSUME NEW p, NEW t, NEW i
  PROVE  /\ RuleAt(p, t, "sisl", i) = Object(p, t, i)
         /\ RuleAt(p, t, "grouping", i) = Grouping(p, t, i)
         /\ RuleAt(p, t, "groupings", i) = Groupings(p, t, i, FALSE)
         /\ RuleAt(p, t, "more", i) = Groupings(p, t, i, TRUE)
BY DEF RuleAt

(* It satisfies the equations of the grammar, so that there is a function  *)
(* that does.                                                              *)
LEMMA ReadingReads ==
  ASSUME NEW name, NEW t, IsNameText(t, name)
  PROVE  Reading(t, name) =
           [rule \in Rules |->
              [i \in 1..(Len(t) + 1) |-> RuleAt(Reading(t, name), t, rule, i)]]
<1> DEFINE p == Reading(t, name)
           I == 1..(Len(t) + 1)
           end == Len(name) + 10
           Value(rule, i) == IF rule = "grouping" THEN GroupingRead(t, name, i)
                             ELSE IF rule = "sisl" THEN ObjectRead(name, i)
                             ELSE GroupingsRead(t, name, i)
<1>1. p = [rule \in Rules |-> [i \in I |-> Value(rule, i)]]
  BY DEF Reading
<1>2. /\ Len(t) = end /\ end \in 11..(Len(t) + 1) /\ Len(name) \in Nat
      /\ I = 1..(Len(name) + 11)
  BY DEF IsNameText
<1>3. "sisl" \in Rules /\ "grouping" \in Rules /\ "groupings" \in Rules /\ "more" \in Rules
  BY DEF Rules
<1> HIDE DEF p, I
<1>4. ASSUME NEW i \in I
      PROVE  /\ p["sisl"][i] = ObjectRead(name, i)
             /\ p["grouping"][i] = GroupingRead(t, name, i)
             /\ p["groupings"][i] = GroupingsRead(t, name, i)
             /\ p["more"][i] = GroupingsRead(t, name, i)
  <2>1. \A rule \in Rules : p[rule][i] = Value(rule, i)
    BY <1>1
  <2>2. /\ Value("sisl", i) = ObjectRead(name, i)
        /\ Value("grouping", i) = GroupingRead(t, name, i)
        /\ Value("groupings", i) = GroupingsRead(t, name, i)
        /\ Value("more", i) = GroupingsRead(t, name, i)
    OBVIOUS
  <2> HIDE DEF Value
  <2> QED
    BY <1>3, <2>1, <2>2
<1> HIDE DEF Value
<1>5. ASSUME NEW i \in I PROVE p["sisl"][i] = RuleAt(p, t, "sisl", i)
  <2>0. p["sisl"][i] = ObjectRead(name, i) /\ RuleAt(p, t, "sisl", i) = Object(p, t, i)
    BY <1>4, RuleIs
  <2>1. CASE i = 1
    <3>1. 2 \in I
      BY <1>2
    <3>2. Object(p, t, 1) = ObjectRead(name, 1)
      BY <1>4, <3>1, ObjectWhole
    <3> QED
      BY <2>0, <2>1, <3>2
  <2>2. CASE i # 1
    <3>1. Object(p, t, i) = Failed(<<>>)
      BY <1>2, <2>2, ObjectNone
    <3>2. ObjectRead(name, i) = Failed(<<>>)
      BY <2>2 DEF ObjectRead
    <3> QED
      BY <2>0, <3>1, <3>2
  <2> QED
    BY <2>1, <2>2
<1>6. ASSUME NEW i \in I PROVE p["grouping"][i] = RuleAt(p, t, "grouping", i)
  <2>1. Grouping(p, t, i) = GroupingRead(t, name, i)
    BY <1>2, GroupingIs
  <2> QED
    BY <1>4, <2>1, RuleIs
<1>7. p["more"][end] = Matched(end, <<>>)
  <2>1. end \in I /\ ~(end <= 2)
    BY <1>2
  <2> QED
    BY <1>4, <2>1 DEF GroupingsRead
<1>8. ASSUME NEW i \in I, NEW more
      PROVE  Groupings(p, t, i, more) = GroupingsRead(t, name, i)
  <2>1. p["grouping"][i] = GroupingRead(t, name, i)
    BY <1>4
  <2>2. CASE i <= 2
    BY <1>2, <1>7, <2>1, <2>2, GroupingsStart
  <2>3. CASE i > 2
    BY <1>2, <2>1, <2>3, GroupingsEnd
  <2> QED
    BY <1>2, <2>2, <2>3
<1>9. ASSUME NEW i \in I
      PROVE  /\ p["groupings"][i] = RuleAt(p, t, "groupings", i)
             /\ p["more"][i] = RuleAt(p, t, "more", i)
  <2> DEFINE yes == TRUE
             no == FALSE
  <2>1. /\ RuleAt(p, t, "groupings", i) = Groupings(p, t, i, no)
        /\ RuleAt(p, t, "more", i) = Groupings(p, t, i, yes)
    BY RuleIs
  <2> HIDE DEF yes, no
  <2> QED
    BY <1>4, <1>8, <2>1
<1>10. \A rule \in Rules : \A i \in I : p[rule][i] = RuleAt(p, t, rule, i)
  BY <1>5, <1>6, <1>9 DEF Rules
<1>11. \A rule \in Rules : p[rule] = [i \in I |-> RuleAt(p, t, rule, i)]
  <2> SUFFICES ASSUME NEW rule \in Rules
               PROVE  p[rule] = [i \in I |-> RuleAt(p, t, rule, i)]
    OBVIOUS
  <2>1. p[rule] = [i \in I |-> p[rule][i]]
    BY <1>1
  <2> QED
    BY <1>10, <2>1
<1>12. p = [rule \in Rules |-> p[rule]]
  BY <1>1
<1>13. p = [rule \in Rules |-> [i \in I |-> RuleAt(p, t, rule, i)]]
  BY <1>11, <1>12
<1> QED
  BY <1>13 DEF p, I

LEMMA ParseUnfolds ==
  ASSUME NEW name, NEW t, IsNameText(t, name)
  PROVE  Parse(t) = [rule \in Rules |->
                       [i \in 1..(Len(t) + 1) |-> RuleAt(Parse(t), t, rule, i)]]
<1> DEFINE Is(p) == p = [rule \in Rules |->
                           [i \in 1..(Len(t) + 1) |-> RuleAt(p, t, rule, i)]]
<1>1. Is(Reading(t, name))
  BY ReadingReads
<1>2. Parse(t) = CHOOSE p : Is(p)
  BY DEF Parse
<1> HIDE DEF Is
<1>3. Is(Parse(t))
  BY <1>1, <1>2
<1> QED
  BY <1>3 DEF Is

(* And the one the recursive definition denotes reads the object at the    *)
(* start of the text, with its one member.                                 *)
LEMMA ParseRead ==
  ASSUME NEW name, NEW t, IsNameText(t, name)
  PROVE  Parse(t)["sisl"][1] = ObjectRead(name, 1)
<1> DEFINE p == Parse(t)
           I == 1..(Len(t) + 1)
           end == Len(name) + 10
<1>1. p = [rule \in Rules |-> [i \in I |-> RuleAt(p, t, rule, i)]]
  BY ParseUnfolds
<1>2. /\ Len(t) = end /\ end \in 11..(Len(t) + 1) /\ Len(name) \in Nat
      /\ I = 1..(Len(name) + 11) /\ 1 \in I /\ 2 \in I /\ end \in I
  BY DEF IsNameText
<1>3. "sisl" \in Rules /\ "grouping" \in Rules /\ "groupings" \in Rules /\ "more" \in Rules
  BY DEF Rules
<1> HIDE DEF p, I
<1>4. \A rule \in Rules : \A i \in I : p[rule][i] = RuleAt(p, t, rule, i)
  BY <1>1
<1>5. ASSUME NEW i \in I
      PROVE  p["grouping"][i] = Grouping(p, t, i) /\ p["sisl"][i] = Object(p, t, i)
  <2>1. /\ p["grouping"][i] = RuleAt(p, t, "grouping", i)
        /\ p["sisl"][i] = RuleAt(p, t, "sisl", i)
    BY <1>3, <1>4
  <2> QED
    BY <2>1, RuleIs
<1>6. p["grouping"][end] = GroupingRead(t, name, end)
  <2>1. p["grouping"][end] = Grouping(p, t, end)
    BY <1>2, <1>5
  <2>2. Grouping(p, t, end) = GroupingRead(t, name, end)
    BY <1>2, GroupingIs
  <2> QED
    BY <2>1, <2>2
<1>7. p["grouping"][2] = GroupingRead(t, name, 2)
  <2>1. p["grouping"][2] = Grouping(p, t, 2)
    BY <1>2, <1>5
  <2>2. Grouping(p, t, 2) = GroupingRead(t, name, 2)
    BY <1>2, GroupingIs
  <2> QED
    BY <2>1, <2>2
<1> DEFINE yes == TRUE
           no == FALSE
<1>8. p["more"][end] = Groupings(p, t, end, yes) /\ p["groupings"][2] = Groupings(p, t, 2, no)
  BY <1>2, <1>3, <1>4, RuleIs
<1> HIDE DEF yes, no
<1>9. p["more"][end] = Matched(end, <<>>)
  <2>1. end \in 1..(Len(name) + 11) /\ end > 2 /\ ~(end <= 2)
    BY <1>2
  <2> HIDE DEF end
  <2>2. Groupings(p, t, end, yes) = GroupingsRead(t, name, end)
    BY <1>6, <2>1, GroupingsEnd
  <2> QED
    BY <1>8, <2>1, <2>2 DEF GroupingsRead
<1>10. p["groupings"][2] = GroupingsRead(t, name, 2)
  <2>1. Groupings(p, t, 2, no) = GroupingsRead(t, name, 2)
    BY <1>2, <1>7, <1>9, GroupingsStart
  <2> QED
    BY <1>8, <2>1
<1>11. p["sisl"][1] = Object(p, t, 1)
  BY <1>2, <1>5
<1>12. Object(p, t, 1) = ObjectRead(name, 1)
  BY <1>10, ObjectWhole
<1> QED
  BY <1>11, <1>12 DEF p

LEMMA JsonOf ==
  ASSUME NEW name, NEW t, IsNameText(t, name)
  PROVE  ToJson(t).ok /\ ToJson(t).events = ObjectEvents(name)
<1> DEFINE s == Parse(t)["sisl"][1]
           end == Len(name) + 11
           events == ObjectEvents(name)
<1>1. s = Matched(end, events)
  BY ParseRead DEF ObjectRead
<1>2. At(t, 1) = "open" /\ Skip(t, end) = end /\ end = Len(t) + 1
  <2>1. 1 \in 1..(Len(name) + 10) /\ end \in 1..(Len(name) + 11)
        /\ end # 4 /\ end # 7 /\ end = Len(t) + 1 /\ t[1] = "open"
    BY DEF IsNameText
  <2> QED
    BY <2>1, SkipAt, SymbolAt
<1>3. Throws \notin ToSet(events)
  <2> DEFINE e == events
  <2>1. e[1].on # "Throws" /\ e[2].on # "Throws" /\ e[3].on # "Throws" /\ e[4].on # "Throws"
    BY DEF ObjectEvents, StartObject, Key, Scalar, EndObject
  <2>2. DOMAIN e = 1..4
    BY DEF ObjectEvents
  <2>3. Throws.on = "Throws"
    BY DEF Throws
  <2> HIDE DEF e
  <2>4. \A i \in DOMAIN e : e[i] # Throws
    BY <2>1, <2>2, <2>3
  <2> QED
    BY <2>4 DEF ToSet, e
<1>4. s.ok /\ s.at = end /\ s.events = events
  BY <1>1 DEF Matched
<1> HIDE DEF s, events, end
<1>5. ToJson(t) = [ok |-> /\ At(t, 1) = "open" /\ s.ok /\ Skip(t, s.at) = Len(t) + 1
                          /\ Throws \notin ToSet(s.events),
                   events |-> s.events]
  BY DEF ToJson, s
<1> QED
  BY <1>2, <1>3, <1>4, <1>5 DEF events

LEMMA NameOfObject ==
  ASSUME NEW name
  PROVE  NameIn(ObjectEvents(name)) = name
<1> DEFINE e == ObjectEvents(name)
           Starts(i) == {j \in 1..i : e[j] = StartObject}
           Ends(i) == {j \in 1..i : e[j].on = "EndObject"}
           depth(i) == Cardinality(Starts(i)) - Cardinality(Ends(i))
           named == {i \in DOMAIN e : depth(i) = 1 /\ e[i] = Key(<<"name">>)}
<1>1. /\ DOMAIN e = 1..4
      /\ e[1] = StartObject /\ e[2] = Key(<<"name">>)
      /\ e[3] = Scalar("str", name) /\ e[4] = EndObject(1)
  BY DEF ObjectEvents
<1>2. /\ e[1].on = "StartObject" /\ e[2].on = "Key" /\ e[3].on = "Value"
      /\ e[4].on = "EndObject" /\ e[3].text = name
      /\ StartObject.on = "StartObject" /\ Key(<<"name">>).on = "Key"
  BY <1>1 DEF StartObject, Key, Scalar, EndObject
<1>3. NameIn(e) = IF named = {} THEN <<>> ELSE e[Min(named) + 1].text
  BY DEF NameIn
<1> HIDE DEF e
<1>4. depth(2) = 1
  <2>1. Starts(2) = {1} /\ Ends(2) = {}
    BY <1>1, <1>2
  <2>2. Cardinality(Starts(2)) = 1 /\ Cardinality(Ends(2)) = 0
    BY <2>1, FS_Singleton, FS_EmptySet
  <2> QED
    BY <2>2
<1> HIDE DEF depth
<1>5. named = {2}
  <2>1. \A i \in 1..4 : e[i] = Key(<<"name">>) <=> i = 2
    BY <1>1, <1>2
  <2> QED
    BY <1>1, <1>4, <2>1
<1>6. Min(named) = 2
  BY <1>5, MinIs
<1> HIDE DEF named
<1> QED
  BY <1>2, <1>3, <1>5, <1>6 DEF e

(* What the server makes of the text: the name, where the lengths allow,   *)
(* or none.                                                                *)
LEMMA Extracted ==
  ASSUME NEW name \in Names, Matches(name)
  PROVE  ExtractFilename(FilenameAsSisl(name)) =
           IF /\ Size(FilenameAsSisl(name)) \in 2..MaxSislLength
              /\ Size(name) <= MaxFilenameLength
           THEN name ELSE Rejected
<1> DEFINE t == FilenameAsSisl(name)
<1>1. IsNameText(t, name)
  BY TextOf
<1>2. ToJson(t).ok /\ NameIn(ToJson(t).events) = name
  BY <1>1, JsonOf, NameOfObject
<1>3. Head(t) = "open"
  <2> HIDE DEF t
  <2>1. t \in Seq(DOMAIN Length) /\ Len(t) > 0 /\ t[1] = "open"
    BY <1>1 DEF IsNameText
  <2> QED
    BY <2>1
<1> HIDE DEF t
<1> QED
  BY <1>2, <1>3 DEF ExtractFilename, t

-----------------------------------------------------------------------------
(* Induction with a set in the place of the predicate.                     *)
LEMMA SetInduction ==
  ASSUME NEW T \in SUBSET Nat, 0 \in T, \A n \in T : n + 1 \in T
  PROVE  \A n \in Nat : n \in T
<1> DEFINE Less == OpToRel(<, Nat)
           Others == Nat \ T
<1>1. \A m, n \in Nat : m < n => <<m, n>> \in Less
  BY DEF OpToRel
<1>2. IsWellFoundedOn(Less, Nat)
  BY NatLessThanWellFounded
<1> HIDE DEF Less
<1> SUFFICES ASSUME Others # {} PROVE FALSE
  OBVIOUS
<1>3. PICK x \in Others : \A y \in Others : ~(<<y, x>> \in Less)
  BY <1>2, WFMin
<1>4. x - 1 \in Nat /\ x - 1 < x
  OBVIOUS
<1>5. x - 1 \in T
  BY <1>1, <1>3, <1>4
<1> QED
  BY <1>4, <1>5

(* f counts the characters of the symbols as far as each place.            *)
Counts(f, text) ==
  /\ f[0] = 0
  /\ \A i \in 1..Len(text) : f[i] = f[i - 1] + Length[text[i]]

LEMMA SizeCounts ==
  ASSUME NEW text, Len(text) \in Nat
  PROVE  \E f : Counts(f, text) /\ Size(text) = f[Len(text)]
<1> DEFINE n == Len(text)
           Is(f, m) == f = [i \in 0..m |-> IF i = 0 THEN 0
                                           ELSE f[i - 1] + Length[text[i]]]
           T == {m \in Nat : \E f : Is(f, m)}
<1>1. 0 \in T
  <2>1. Is([i \in 0..0 |-> 0], 0)
    OBVIOUS
  <2> QED
    BY <2>1
<1>2. ASSUME NEW m \in T PROVE m + 1 \in T
  <2>1. PICK f : Is(f, m)
    OBVIOUS
  <2> DEFINE x == f[m] + Length[text[m + 1]]
             g == [i \in 0..(m + 1) |-> IF i = m + 1 THEN x ELSE f[i]]
  <2>2. ASSUME NEW i \in 0..(m + 1)
        PROVE  g[i] = IF i = 0 THEN 0 ELSE g[i - 1] + Length[text[i]]
    <3>1. CASE i = m + 1
      <4>1. i # 0 /\ i - 1 = m /\ m \in 0..(m + 1) /\ m # m + 1
        BY <3>1
      <4> QED
        BY <3>1, <4>1
    <3>2. CASE i = 0
      BY <2>1, <3>2
    <3>3. CASE i # m + 1 /\ i # 0
      <4>1. i \in 0..m /\ i - 1 \in 0..m /\ i - 1 \in 0..(m + 1) /\ i - 1 # m + 1
        BY <3>3
      <4>2. f[i] = f[i - 1] + Length[text[i]]
        BY <2>1, <3>3, <4>1
      <4> HIDE DEF x
      <4> QED
        BY <3>3, <4>1, <4>2
    <3> QED
      BY <3>1, <3>2, <3>3
  <2>3. g = [i \in 0..(m + 1) |-> IF i = 0 THEN 0 ELSE g[i - 1] + Length[text[i]]]
    BY <2>2
  <2> HIDE DEF g
  <2>4. Is(g, m + 1)
    BY <2>3
  <2> QED
    BY <2>4
<1>3. T \in SUBSET Nat
  OBVIOUS
<1> HIDE DEF T
<1>4. n \in T
  BY <1>1, <1>2, <1>3, SetInduction
<1> DEFINE f == CHOOSE g : Is(g, n)
<1>5. Size(text) = f[n]
  BY DEF Size
<1>6. Is(f, n)
  <2> HIDE DEF Is
  <2> QED
    BY <1>4 DEF T
<1> HIDE DEF f
<1>7. Counts(f, text)
  <2>1. f[0] = 0
    BY <1>6
  <2>2. ASSUME NEW i \in 1..n PROVE f[i] = f[i - 1] + Length[text[i]]
    <3>1. i \in 0..n /\ i # 0
      OBVIOUS
    <3> QED
      BY <1>6, <3>1
  <2> QED
    BY <2>1, <2>2 DEF Counts
<1> QED
  BY <1>5, <1>7

(* The text is 15 characters longer than the name.                         *)
LEMMA SizeOfText ==
  ASSUME NEW name \in Names, Matches(name)
  PROVE  /\ Size(name) \in Nat
         /\ Size(FilenameAsSisl(name)) = Size(name) + 15
<1> DEFINE t == FilenameAsSisl(name)
           n == Len(name)
<1>1. IsNameText(t, name)
  BY TextOf
<1>2. /\ n \in Nat /\ n > 0 /\ Len(t) = n + 10
      /\ t[1] = "open" /\ t[2] = "name" /\ t[3] = "colon" /\ t[4] = "blank"
      /\ t[5] = "mark" /\ t[6] = "str" /\ t[7] = "blank" /\ t[8] = "quote"
      /\ \A i \in 9..(n + 8) : t[i] = name[i - 8]
      /\ t[n + 9] = "quote" /\ t[n + 10] = "close"
      /\ \A i \in 1..n : name[i] \in DOMAIN Length
  BY <1>1 DEF IsNameText
<1>3. /\ Length["open"] = 1 /\ Length["colon"] = 1 /\ Length["blank"] = 1
      /\ Length["mark"] = 1 /\ Length["quote"] = 1 /\ Length["close"] = 1
      /\ Length["name"] = 4 /\ Length["str"] = 3
  BY SymbolAssumption DEF Punctuation
<1>4. \A i \in 1..n : Length[name[i]] \in Nat
  BY <1>2, SymbolAssumption
<1> HIDE DEF t, n
<1>5. PICK f : Counts(f, t) /\ Size(t) = f[Len(t)]
  BY <1>2, SizeCounts
<1>6. PICK g : Counts(g, name) /\ Size(name) = g[n]
  BY <1>2, SizeCounts DEF n
<1>7. f[8] = 13
  <2>1. f[0] = 0 /\ \A i \in 1..8 : f[i] = f[i - 1] + Length[t[i]]
    BY <1>2, <1>5 DEF Counts
  <2>2. f[1] = f[0] + 1 /\ f[2] = f[1] + 4 /\ f[3] = f[2] + 1 /\ f[4] = f[3] + 1
    BY <1>2, <1>3, <2>1
  <2>3. f[5] = f[4] + 1 /\ f[6] = f[5] + 3 /\ f[7] = f[6] + 1 /\ f[8] = f[7] + 1
    BY <1>2, <1>3, <2>1
  <2> QED
    BY <2>1, <2>2, <2>3
<1> DEFINE T == {j \in Nat : j <= n => f[8 + j] = 13 + g[j] /\ g[j] \in Nat}
<1>8. 0 \in T
  <2>1. g[0] = 0
    BY <1>6 DEF Counts
  <2> QED
    BY <1>7, <2>1
<1>9. ASSUME NEW j \in T PROVE j + 1 \in T
  <2> SUFFICES ASSUME j + 1 <= n
               PROVE  f[8 + (j + 1)] = 13 + g[j + 1] /\ g[j + 1] \in Nat
    OBVIOUS
  <2>1. f[8 + j] = 13 + g[j] /\ g[j] \in Nat /\ j \in Nat
    BY <1>2
  <2>2. j + 1 \in 1..n /\ (j + 1) - 1 = j /\ n = Len(name)
    BY <1>2, <2>1 DEF n
  <2>3. g[j + 1] = g[j] + Length[name[j + 1]]
    BY <1>6, <2>2 DEF Counts
  <2>4. /\ j + 9 \in 1..Len(t) /\ (j + 9) - 1 = 8 + j /\ j + 9 = 8 + (j + 1)
        /\ j + 9 \in 9..(n + 8) /\ (j + 9) - 8 = j + 1
    BY <1>2, <2>1
  <2>5. f[j + 9] = f[8 + j] + Length[t[j + 9]]
    BY <1>5, <2>4 DEF Counts
  <2>6. t[j + 9] = name[j + 1]
    BY <1>2, <2>4
  <2>7. Length[name[j + 1]] \in Nat
    BY <1>4, <2>2
  <2>8. f[j + 9] = 13 + g[j + 1]
    BY <2>1, <2>3, <2>5, <2>6, <2>7
  <2> QED
    BY <2>1, <2>3, <2>4, <2>7, <2>8
<1>10. T \in SUBSET Nat
  OBVIOUS
<1> HIDE DEF T
<1>11. n \in T
  BY <1>2, <1>8, <1>9, <1>10, SetInduction
<1>12. f[n + 8] = 13 + g[n] /\ g[n] \in Nat
  BY <1>2, <1>11 DEF T
<1>13. f[n + 9] = f[n + 8] + 1 /\ f[n + 10] = f[n + 9] + 1
  <2>1. /\ n + 9 \in 1..Len(t) /\ n + 10 \in 1..Len(t)
        /\ (n + 9) - 1 = n + 8 /\ (n + 10) - 1 = n + 9
    BY <1>2
  <2> QED
    BY <1>2, <1>3, <1>5, <2>1 DEF Counts
<1>14. Size(t) = f[n + 10]
  BY <1>2, <1>5
<1> QED
  BY <1>6, <1>12, <1>13, <1>14 DEF t

-----------------------------------------------------------------------------
(* What a behaviour keeps: what was sent is the text of a name the client  *)
(* took, and what was stored is what the server makes of it.               *)
NameInv ==
  /\ filename \in Names
  /\ stage \in {"sent", "stored"} => TakesFilename(filename)
  /\ stage = "sent" => frame = FilenameAsSisl(filename)
  /\ stage = "stored" =>
       stored = StoredFilename(ExtractFilename(FilenameAsSisl(filename)))

LEMMA NameInvariant == NameSpec => []NameInv
<1>1. NameInit(Names) => NameInv
  BY DEF NameInit, NameInv
<1>2. NameInv /\ [NameStep]_nameVars => NameInv'
  <2> SUFFICES ASSUME NameInv, [NameStep]_nameVars PROVE NameInv'
    OBVIOUS
  <2>1. CASE Refuse
    BY <2>1 DEF Refuse, NameInv
  <2>2. CASE SendEOFFrame
    BY <2>2 DEF SendEOFFrame, NameInv
  <2>3. CASE StoreFile
    BY <2>3 DEF StoreFile, NameInv
  <2>4. CASE UNCHANGED nameVars
    BY <2>4 DEF nameVars, NameInv
  <2> QED
    BY <2>1, <2>2, <2>3, <2>4 DEF NameStep
<1> QED
  BY <1>1, <1>2, PTL DEF NameSpec

(* Whatever the client sends, the server stores under the very name or as  *)
(* rejected.N.                                                             *)
THEOREM StoredUnderItsName == NameSpec => []NoThirdName
<1>1. NameInv => NoThirdName
  <2> SUFFICES ASSUME NameInv, stage = "stored" PROVE NoThirdName
    BY DEF NoThirdName
  <2> DEFINE got == ExtractFilename(FilenameAsSisl(filename))
  <2>1. filename \in Names /\ Matches(filename) /\ stored = StoredFilename(got)
    BY DEF NameInv, TakesFilename
  <2>2. got = filename \/ got = Rejected
    BY <2>1, Extracted
  <2> HIDE DEF got
  <2> QED
    BY <2>1, <2>2 DEF StoredFilename, NoThirdName
<1> QED
  BY <1>1, NameInvariant, PTL

(* The names that survive are those whose text is within the server's      *)
(* limit, but for the word for having none, whatever that limit is.        *)
THEOREM SurvivesIfItFits == NameSpec => []NameSurvives
<1>1. NameInv => NameSurvives
  <2> SUFFICES ASSUME NameInv, stage = "stored",
                      Size(filename) + 15 <= MaxSislLength, filename # Rejected
               PROVE  stored = filename
    BY DEF NameSurvives
  <2> DEFINE got == ExtractFilename(FilenameAsSisl(filename))
  <2>1. /\ filename \in Names /\ Matches(filename) /\ Size(filename) <= ClientLimit
        /\ stored = StoredFilename(got)
    BY DEF NameInv, TakesFilename
  <2>2. /\ Size(filename) \in Nat
        /\ Size(FilenameAsSisl(filename)) = Size(filename) + 15
    BY <2>1, SizeOfText
  <2>3. got = filename
    BY <2>1, <2>2, Extracted, LimitAssumption DEF ClientLimit
  <2> HIDE DEF got
  <2> QED
    BY <2>1, <2>3 DEF StoredFilename
<1> QED
  BY <1>1, NameInvariant, PTL
=============================================================================
