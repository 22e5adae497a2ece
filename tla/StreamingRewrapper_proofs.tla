---------------------- MODULE StreamingRewrapper_proofs ----------------------
(***************************************************************************)
(* For masks and chunks of any bytes, files of any length and any draw of  *)
(* the diode's masks: what a rewrapped file unwraps to is the source, and  *)
(* the rewrapper refuses only what RefusedOnlyFor lists.                   *)
(***************************************************************************)
EXTENDS StreamingRewrapper, SequenceTheorems, WellFoundedInduction, TLAPS

Offset == 0..(maskLength - 1)

(* Positions modulo the mask's length, counted from any offset.            *)
LEMMA OffsetInMask ==
  ASSUME NEW n \in Int
  PROVE  n % maskLength \in Offset
BY DEF Offset, maskLength

(* Rotating back by the offset undoes rotating by it.                      *)
LEMMA RotateBack ==
  ASSUME NEW n \in Nat, NEW j \in Nat
  PROVE  (((n + j) % maskLength) - n) % maskLength = j % maskLength
BY SMT DEF maskLength

(* XOR of bytes as sets of bits.                                           *)
LEMMA XorType ==
  ASSUME NEW a \in Byte, NEW b \in Byte
  PROVE  Xor(a, b) \in Byte
BY DEF Xor, Byte

LEMMA XorTwice ==
  ASSUME NEW a \in Byte, NEW b \in Byte
  PROVE  Xor(Xor(a, b), b) = a
BY DEF Xor, Byte

(* The byte the client sent, after the diode's mask, the combined mask and *)
(* the file's mask.                                                        *)
LEMMA XorThrice ==
  ASSUME NEW a \in Byte, NEW k \in Byte, NEW m \in Byte
  PROVE  Xor(Xor(Xor(a, k), Xor(k, m)), m) = a
BY DEF Xor, Byte

(* XOR with a mask keeps the length of a text and makes it of bytes.       *)
LEMMA XoredType ==
  ASSUME NEW text \in Seq(Byte), NEW m \in Mask, NEW offset \in Nat
  PROVE  /\ Xored(text, m, offset) \in Seq(Byte)
         /\ Len(Xored(text, m, offset)) = Len(text)
         /\ \A i \in 1..Len(text) :
              Xored(text, m, offset)[i] =
                Xor(text[i], m[(offset + i - 1) % maskLength])
<1>1. \A i \in 1..Len(text) :
        Xor(text[i], m[(offset + i - 1) % maskLength]) \in Byte
  <2> SUFFICES ASSUME NEW i \in 1..Len(text)
               PROVE  Xor(text[i], m[(offset + i - 1) % maskLength]) \in Byte
    OBVIOUS
  <2>1. (offset + i - 1) % maskLength \in Offset
    BY OffsetInMask
  <2>2. m[(offset + i - 1) % maskLength] \in Byte
    BY <2>1 DEF Mask, Offset
  <2>3. text[i] \in Byte
    OBVIOUS
  <2> QED BY <2>2, <2>3, XorType
<1>2. Xored(text, m, offset) \in [1..Len(text) -> Byte]
  BY <1>1 DEF Xored
<1>3. Len(text) \in Nat
  OBVIOUS
<1> QED BY <1>2, <1>3 DEF Xored

(* Unwrapping what one mask wrapped gives the text back.                   *)
LEMMA XoredTwice ==
  ASSUME NEW text \in Seq(Byte), NEW m \in Mask, NEW offset \in Nat
  PROVE  Xored(Xored(text, m, offset), m, offset) = text
<1> DEFINE once == Xored(text, m, offset)
           twice == Xored(once, m, offset)
<1>1. once \in Seq(Byte) /\ Len(once) = Len(text)
  BY XoredType
<1>2. twice \in Seq(Byte) /\ Len(twice) = Len(text)
  BY <1>1, XoredType
<1>3. ASSUME NEW i \in 1..Len(text)
      PROVE  twice[i] = text[i]
  <2>1. once[i] = Xor(text[i], m[(offset + i - 1) % maskLength])
    BY XoredType
  <2>2. twice[i] = Xor(once[i], m[(offset + i - 1) % maskLength])
    BY <1>1, XoredType
  <2>3. m[(offset + i - 1) % maskLength] \in Byte
    <3>1. (offset + i - 1) % maskLength \in Offset
      BY OffsetInMask
    <3> QED BY <3>1 DEF Mask, Offset
  <2>4. text[i] \in Byte
    OBVIOUS
  <2> HIDE DEF once, twice
  <2> QED BY <2>1, <2>2, <2>3, <2>4, XorTwice
<1> HIDE DEF once, twice
<1>4. twice = text
  BY <1>2, <1>3, SeqEqual
<1> QED BY <1>4 DEF once, twice

(* A text is unwrapped part by part.                                       *)
LEMMA XoredConcat ==
  ASSUME NEW s \in Seq(Byte), NEW t \in Seq(Byte), NEW m \in Mask
  PROVE  Xored(s \o t, m, 0) = Xored(s, m, 0) \o Xored(t, m, Len(s))
<1> DEFINE u == s \o t
           whole == Xored(u, m, 0)
           front == Xored(s, m, 0)
           back == Xored(t, m, Len(s))
<1>1. /\ u \in Seq(Byte) /\ Len(u) = Len(s) + Len(t)
      /\ Len(s) \in Nat /\ Len(t) \in Nat
      /\ \A i \in 1..Len(s) : u[i] = s[i]
      /\ \A j \in 1..Len(t) : u[Len(s) + j] = t[j]
  OBVIOUS
<1> HIDE DEF u
<1>2. /\ whole \in Seq(Byte) /\ Len(whole) = Len(s) + Len(t)
      /\ \A i \in 1..Len(u) : whole[i] = Xor(u[i], m[(0 + i - 1) % maskLength])
  BY <1>1, XoredType
<1>3. /\ front \in Seq(Byte) /\ Len(front) = Len(s)
      /\ \A i \in 1..Len(s) : front[i] = Xor(s[i], m[(0 + i - 1) % maskLength])
  BY XoredType
<1>4. /\ back \in Seq(Byte) /\ Len(back) = Len(t)
      /\ \A j \in 1..Len(t) :
           back[j] = Xor(t[j], m[(Len(s) + j - 1) % maskLength])
  BY <1>1, XoredType
<1> HIDE DEF whole, front, back
<1>5. ASSUME NEW i \in 1..(Len(s) + Len(t))
      PROVE  whole[i] = (front \o back)[i]
  <2>1. CASE i <= Len(s)
    <3>1. i \in 1..Len(s) /\ (front \o back)[i] = front[i]
      BY <2>1, <1>1, <1>3, <1>4
    <3> QED BY <3>1, <1>1, <1>2, <1>3
  <2>2. CASE i > Len(s)
    <3> DEFINE j == i - Len(s)
    <3>1. j \in 1..Len(t) /\ i = Len(s) + j /\ Len(s) + j - 1 = 0 + i - 1
      BY <2>2, <1>1
    <3>2. (front \o back)[i] = back[j]
      BY <2>2, <1>1, <1>3, <1>4
    <3> HIDE DEF j
    <3>3. whole[i] = Xor(u[i], m[(0 + i - 1) % maskLength])
      BY <1>1, <1>2
    <3>4. u[i] = t[j]
      BY <3>1, <1>1
    <3>5. back[j] = Xor(t[j], m[(Len(s) + j - 1) % maskLength])
      BY <3>1, <1>4
    <3> QED BY <3>1, <3>2, <3>3, <3>4, <3>5
  <2>3. i <= Len(s) \/ i > Len(s)
    <3>1. i \in Int /\ Len(s) \in Int
      BY <1>1
    <3> QED BY <3>1
  <2> QED BY <2>1, <2>2, <2>3
<1>6. front \o back \in Seq(Byte) /\ Len(front \o back) = Len(s) + Len(t)
  <2>1. front \in Seq(Byte) /\ back \in Seq(Byte)
    BY <1>3, <1>4
  <2>2. Len(front) = Len(s) /\ Len(back) = Len(t)
    BY <1>3, <1>4
  <2> QED BY <2>1, <2>2
<1>7. whole = front \o back
  BY <1>2, <1>5, <1>6, SeqEqual
<1> QED BY <1>7 DEF whole, front, back, u

(* The heart of the matter: a frame wrapped with any key and rewrapped at  *)
(* any place in the file unwraps, there, with the file's mask.             *)
LEMMA RewrappedUnwraps ==
  ASSUME NEW chunk \in Seq(Byte), NEW key \in Mask, NEW valid,
         mask \in Mask, mask_index \in Nat
  PROVE  LET f == WrappedFrame(chunk, key, valid)
         IN  /\ RewrapData(f) \in Seq(Byte)
             /\ Len(RewrapData(f)) = Len(chunk)
             /\ Xored(RewrapData(f), mask, mask_index) = chunk
<1> DEFINE f == WrappedFrame(chunk, key, valid)
           combined == XORedMask(key)
           diode == Xored(chunk, key, 0)
           file == Xored(diode, combined, mask_index)
           read == Xored(file, mask, mask_index)
<1>1. combined \in Mask
  <2>1. \A o \in Offset : Xor(key[(o - mask_index) % maskLength], mask[o]) \in Byte
    <3> TAKE o \in Offset
    <3>1. o - mask_index \in Int
      BY DEF Offset, maskLength
    <3>2. (o - mask_index) % maskLength \in Offset
      BY <3>1, OffsetInMask
    <3> QED BY <3>2, XorType DEF Mask, Offset
  <2> QED BY <2>1 DEF XORedMask, Mask, Offset
<1>2. /\ diode \in Seq(Byte) /\ Len(diode) = Len(chunk)
      /\ \A i \in 1..Len(chunk) :
           diode[i] = Xor(chunk[i], key[(0 + i - 1) % maskLength])
  BY XoredType
<1>3. \A i \in 1..Len(chunk) :
        combined[(mask_index + i - 1) % maskLength] =
          Xor(key[(0 + i - 1) % maskLength], mask[(mask_index + i - 1) % maskLength])
  <2> TAKE i \in 1..Len(chunk)
  <2> DEFINE o == (mask_index + i - 1) % maskLength
  <2>1. o \in Offset
    BY OffsetInMask
  <2>2. combined[o] = Xor(key[(o - mask_index) % maskLength], mask[o])
    BY <2>1 DEF XORedMask, Offset
  <2>3. i - 1 \in Nat /\ mask_index + (i - 1) = mask_index + i - 1 /\ 0 + i - 1 = i - 1
    OBVIOUS
  <2>4. (o - mask_index) % maskLength = (0 + i - 1) % maskLength
    BY <2>3, RotateBack
  <2> HIDE DEF o, combined
  <2> QED BY <2>2, <2>4 DEF o
<1> HIDE DEF combined, diode
<1>4. /\ file \in Seq(Byte) /\ Len(file) = Len(chunk)
      /\ \A i \in 1..Len(chunk) :
           file[i] = Xor(diode[i], combined[(mask_index + i - 1) % maskLength])
  BY <1>1, <1>2, XoredType
<1> HIDE DEF file
<1>5. /\ read \in Seq(Byte) /\ Len(read) = Len(chunk)
      /\ \A i \in 1..Len(chunk) :
           read[i] = Xor(file[i], mask[(mask_index + i - 1) % maskLength])
  BY <1>4, XoredType
<1> HIDE DEF read
<1>6. ASSUME NEW i \in 1..Len(chunk)
      PROVE  read[i] = chunk[i]
  <2> DEFINE k == key[(0 + i - 1) % maskLength]
             m == mask[(mask_index + i - 1) % maskLength]
  <2>1. read[i] = Xor(Xor(Xor(chunk[i], k), Xor(k, m)), m)
    BY <1>2, <1>3, <1>4, <1>5
  <2>2. k \in Byte /\ m \in Byte
    <3>1. (0 + i - 1) % maskLength \in Offset
      BY OffsetInMask
    <3>2. (mask_index + i - 1) % maskLength \in Offset
      BY OffsetInMask
    <3> QED BY <3>1, <3>2 DEF Mask, Offset
  <2>3. chunk[i] \in Byte
    OBVIOUS
  <2> HIDE DEF k, m
  <2> QED BY <2>1, <2>2, <2>3, XorThrice
<1>7. read = chunk
  BY <1>5, <1>6
<1>8. RewrapData(f) = file
  BY DEF RewrapData, WrappedFrame, file, diode, combined
<1> QED BY <1>4, <1>7, <1>8 DEF read
-----------------------------------------------------------------------------
(* The queue's top is the awaited frame as the diode made it.              *)
TopIsAwaited ==
  top # NoFrame =>
    /\ nextFrameCount <= Len(source)
    /\ IF wrapped
       THEN \E key \in Mask, valid \in BOOLEAN :
              top = WrappedFrame(source[nextFrameCount], key, valid)
       ELSE top = PlainFrame(source[nextFrameCount])

Types ==
  /\ source \in Seq(Seq(Byte))
  /\ \A n \in 1..Len(source) : Len(source[n]) > 0
  /\ wrapped \in BOOLEAN
  /\ nextFrameCount \in 1..(Len(source) + 1)
  /\ mask \in Mask
  /\ mask_index \in Nat
  /\ data \in Seq(Byte)

(* From its second frame on a wrapped file has the mask of its header, and *)
(* mask_index is the place the next byte is written to.                    *)
MaskIsHeader ==
  /\ ~wrapped => fileHeader = NoFrame
  /\ nextFrameCount = 1 => fileHeader = NoFrame /\ data = <<>>
  /\ wrapped /\ nextFrameCount > 1 =>
       /\ fileHeader \in Mask
       /\ fileHeader = mask
       /\ mask_index = Len(data)

(* A frame that made rewrap throw is on top of the queue for good.         *)
ThrewStays == refused => top # NoFrame /\ ~CanRewrap(top)

Inv == Types /\ TopIsAwaited /\ MaskIsHeader /\ ThrewStays

LEMMA FrameNotNoFrame ==
  ASSUME NEW chunk \in Seq(Byte), NEW key \in Mask, NEW valid \in BOOLEAN
  PROVE  WrappedFrame(chunk, key, valid) # NoFrame
<1>1. Xored(chunk, key, 0) \in Seq(Byte)
  BY XoredType
<1>2. WrappedFrame(chunk, key, valid) \in Frame
  BY <1>1 DEF WrappedFrame, Frame
<1> QED BY <1>2, FrameAssumption

LEMMA InitInv == RewrapInit => Inv
<1> SUFFICES ASSUME RewrapInit PROVE Inv
  OBVIOUS
<1>1. PICK n \in 0..MaxFrames : source \in [1..n -> Chunk]
  BY DEF RewrapInit
<1>2. n \in Nat /\ Len(source) = n /\ source \in Seq(Chunk)
  BY <1>1, RewrapBound
<1>3. \A i \in 1..Len(source) : source[i] \in Seq(Byte) /\ source[i] # <<>>
  BY <1>1, <1>2, ChunkAssumption
<1>4. source \in Seq(Seq(Byte)) /\ \A i \in 1..Len(source) : Len(source[i]) > 0
  <2>1. source \in [1..n -> Seq(Byte)]
    BY <1>1, <1>2, <1>3
  <2>2. source \in Seq(Seq(Byte))
    BY <1>2, <2>1
  <2>3. ASSUME NEW i \in 1..Len(source) PROVE Len(source[i]) > 0
    BY <1>3
  <2> QED BY <2>2, <2>3
<1>5. NoMask \in Mask
  BY DEF NoMask, Mask, Byte
<1>6. Types
  BY <1>2, <1>4, <1>5 DEF RewrapInit, Types
<1> QED BY <1>6 DEF RewrapInit, Inv, TopIsAwaited, MaskIsHeader, ThrewStays
-----------------------------------------------------------------------------
(* What GrowsByTheChunk says of a step.                                    *)
Growth ==
  IF nextFrameCount' = nextFrameCount
  THEN Unwrapped' = Unwrapped
  ELSE /\ nextFrameCount' = nextFrameCount + 1
       /\ Unwrapped' = Unwrapped \o source[nextFrameCount]

LEMMA ArriveStep ==
  ASSUME Inv, FrameArrives
  PROVE  Inv' /\ Growth
<1>1. Types'
  BY DEF Inv, Types, FrameArrives
<1>2. TopIsAwaited'
  <2>1. CASE wrapped
    <3>1. PICK key \in Key, valid \in ValidHeader :
            top' = WrappedFrame(source[nextFrameCount], key, valid)
      BY <2>1 DEF FrameArrives
    <3>2. key \in Mask /\ valid \in BOOLEAN
      BY KeyAssumption, RewrapBound
    <3> QED BY <2>1, <3>1, <3>2 DEF TopIsAwaited, FrameArrives, WrappedFrame, Xored
  <2>2. CASE ~wrapped
    BY <2>2 DEF TopIsAwaited, FrameArrives, PlainFrame
  <2> QED BY <2>1, <2>2
<1>3. MaskIsHeader'
  BY DEF Inv, MaskIsHeader, FrameArrives
<1>4. ThrewStays'
  BY DEF Inv, ThrewStays, FrameArrives
<1>5. Growth
  BY DEF Growth, Unwrapped, FrameArrives, Xored
<1> QED BY <1>1, <1>2, <1>3, <1>4, <1>5 DEF Inv

(* The awaited chunk, when a frame is on top.                              *)
LEMMA ChunkOnTop ==
  ASSUME Inv, top # NoFrame
  PROVE  /\ nextFrameCount \in 1..Len(source)
         /\ source[nextFrameCount] \in Seq(Byte)
         /\ Len(source[nextFrameCount]) \in Nat \ {0}
         /\ wrapped <=> top.wrapped
         /\ ~wrapped => top.payload = source[nextFrameCount] /\ top.valid
<1>1. nextFrameCount \in 1..Len(source)
  BY DEF Inv, Types, TopIsAwaited
<1>2. source[nextFrameCount] \in Seq(Byte) /\ Len(source[nextFrameCount]) > 0
  BY <1>1 DEF Inv, Types
<1>3. CASE wrapped
  <2>1. PICK key \in Mask, valid \in BOOLEAN :
          top = WrappedFrame(source[nextFrameCount], key, valid)
    BY <1>3 DEF Inv, TopIsAwaited
  <2>2. top.wrapped = TRUE
    BY <2>1 DEF WrappedFrame
  <2> QED BY <1>1, <1>2, <1>3, <2>2
<1>4. CASE ~wrapped
  <2>1. top = PlainFrame(source[nextFrameCount])
    BY <1>4 DEF Inv, TopIsAwaited
  <2>2. top.wrapped = FALSE /\ top.valid = TRUE /\ top.payload = source[nextFrameCount]
    BY <2>1 DEF PlainFrame
  <2> QED BY <1>1, <1>2, <1>4, <2>2
<1> QED BY <1>3, <1>4

LEMMA WriteFirstStep ==
  ASSUME Inv, WriteFirst
  PROVE  Inv' /\ Growth
<1> DEFINE chunk == source[nextFrameCount]
<1>1. /\ nextFrameCount \in 1..Len(source) /\ nextFrameCount = 1 /\ wrapped
      /\ chunk \in Seq(Byte)
  BY ChunkOnTop DEF WriteFirst
<1>2. PICK key \in Mask, valid \in BOOLEAN : top = WrappedFrame(chunk, key, valid)
  BY <1>1 DEF Inv, TopIsAwaited, WriteFirst
<1>3. top.key = key /\ top.payload = Xored(chunk, key, 0)
  BY <1>2 DEF WrappedFrame
<1>4. fileHeader = NoFrame /\ data = <<>> /\ Unwrapped = <<>>
  BY <1>1 DEF Inv, MaskIsHeader, Unwrapped
<1> DEFINE payload == Xored(chunk, key, 0)
<1>5. payload \in Seq(Byte) /\ Len(payload) = Len(chunk) /\ Len(payload) \in Nat
  BY <1>1, XoredType
<1>6. Xored(payload, key, 0) = chunk
  BY <1>1, XoredTwice
<1> HIDE DEF payload
<1>7. data' = payload /\ fileHeader' = key /\ mask' = key /\ mask_index' = Len(payload)
  BY <1>3, <1>4, <1>5 DEF WriteFirst, payload
<1>8. /\ nextFrameCount' = 2 /\ top' = NoFrame
      /\ UNCHANGED <<source, wrapped, refused>>
  BY <1>1 DEF WriteFirst, Popped
<1>9. Unwrapped' = chunk
  <2>1. fileHeader' # NoFrame
    BY <1>7, FrameAssumption
  <2>2. Unwrapped' = Xored(data', fileHeader', 0)
    BY <2>1 DEF Unwrapped, Xored
  <2> QED BY <2>2, <1>6, <1>7
<1>10. Types'
  BY <1>1, <1>5, <1>7, <1>8 DEF Inv, Types
<1>11. TopIsAwaited'
  BY <1>8 DEF TopIsAwaited
<1>12. MaskIsHeader'
  BY <1>1, <1>7, <1>8 DEF MaskIsHeader
<1>13. ThrewStays'
  BY <1>8 DEF Inv, ThrewStays, WriteFirst
<1>14. <<>> \o chunk = chunk
  BY <1>1
<1>15. Growth
  BY <1>1, <1>4, <1>8, <1>9, <1>14 DEF Growth
<1> QED BY <1>10, <1>11, <1>12, <1>13, <1>15 DEF Inv

LEMMA WriteRewrappedStep ==
  ASSUME Inv, WriteRewrapped
  PROVE  Inv' /\ Growth
<1> DEFINE chunk == source[nextFrameCount]
           piece == RewrapData(top)
<1>1. /\ nextFrameCount \in 1..Len(source) /\ nextFrameCount > 1 /\ wrapped
      /\ chunk \in Seq(Byte)
  BY ChunkOnTop DEF WriteRewrapped, Inv, Types
<1>2. PICK key \in Mask, valid \in BOOLEAN : top = WrappedFrame(chunk, key, valid)
  BY <1>1 DEF Inv, TopIsAwaited, WriteRewrapped
<1>3. /\ fileHeader = mask /\ fileHeader \in Mask /\ mask_index = Len(data)
      /\ mask_index \in Nat /\ data \in Seq(Byte)
  BY <1>1 DEF Inv, Types, MaskIsHeader
<1>4. /\ piece \in Seq(Byte) /\ Len(piece) = Len(chunk)
      /\ Xored(piece, mask, mask_index) = chunk
  BY <1>1, <1>2, <1>3, RewrappedUnwraps
<1>5. Len(top.payload) = Len(chunk) /\ Len(chunk) \in Nat
  BY <1>1, <1>2, XoredType DEF WrappedFrame
<1>6. /\ data' = data \o piece /\ mask_index' = mask_index + Len(chunk)
      /\ UNCHANGED <<mask, fileHeader>>
  BY <1>5 DEF WriteRewrapped
<1>7. /\ nextFrameCount' = nextFrameCount + 1 /\ top' = NoFrame
      /\ UNCHANGED <<source, wrapped, refused>>
  BY DEF WriteRewrapped, Popped
<1> HIDE DEF piece
<1>8. data' \in Seq(Byte) /\ Len(data') = Len(data) + Len(chunk)
  BY <1>3, <1>4, <1>6
<1>9. Unwrapped' = Unwrapped \o chunk
  <2>1. fileHeader # NoFrame
    BY <1>3, FrameAssumption
  <2>2. Unwrapped = Xored(data, fileHeader, 0)
    BY <2>1 DEF Unwrapped
  <2>3. Unwrapped' = Xored(data', fileHeader', 0)
    BY <2>1, <1>6 DEF Unwrapped, Xored
  <2>4. Xored(data \o piece, mask, 0)
          = Xored(data, mask, 0) \o Xored(piece, mask, Len(data))
    BY <1>3, <1>4, XoredConcat
  <2> QED BY <2>2, <2>3, <2>4, <1>3, <1>4, <1>6
<1>10. Types'
  BY <1>1, <1>3, <1>5, <1>6, <1>7, <1>8 DEF Inv, Types
<1>11. TopIsAwaited'
  BY <1>7 DEF TopIsAwaited
<1>12. MaskIsHeader'
  BY <1>1, <1>3, <1>6, <1>7, <1>8 DEF MaskIsHeader
<1>13. ThrewStays'
  BY <1>7 DEF Inv, ThrewStays, WriteRewrapped
<1>14. Growth
  BY <1>1, <1>7, <1>9 DEF Growth
<1> QED BY <1>10, <1>11, <1>12, <1>13, <1>14 DEF Inv

LEMMA WritePlainStep ==
  ASSUME Inv, WritePlain
  PROVE  Inv' /\ Growth
<1> DEFINE chunk == source[nextFrameCount]
<1>1. /\ nextFrameCount \in 1..Len(source) /\ ~wrapped
      /\ chunk \in Seq(Byte) /\ top.payload = chunk
  BY ChunkOnTop DEF WritePlain
<1>2. fileHeader = NoFrame /\ data \in Seq(Byte)
  BY <1>1 DEF Inv, Types, MaskIsHeader
<1>3. data' = data \o chunk /\ UNCHANGED <<mask, mask_index, fileHeader>>
  BY <1>1 DEF WritePlain
<1>4. /\ nextFrameCount' = nextFrameCount + 1 /\ top' = NoFrame
      /\ UNCHANGED <<source, wrapped, refused>>
  BY DEF WritePlain, Popped
<1>5. Types'
  <2>1. data' \in Seq(Byte)
    BY <1>1, <1>2, <1>3
  <2> QED BY <2>1, <1>1, <1>3, <1>4 DEF Inv, Types
<1>6. TopIsAwaited'
  BY <1>4 DEF TopIsAwaited
<1>7. MaskIsHeader'
  BY <1>1, <1>2, <1>3, <1>4 DEF MaskIsHeader
<1>8. ThrewStays'
  BY <1>4 DEF Inv, ThrewStays, WritePlain
<1>9. Growth
  <2>1. Unwrapped' = Unwrapped \o chunk
    BY <1>2, <1>3 DEF Unwrapped
  <2> QED BY <2>1, <1>1, <1>4 DEF Growth
<1> QED BY <1>5, <1>6, <1>7, <1>8, <1>9 DEF Inv

(* A frame that cannot be rewrapped, the EOF frame, and stuttering leave   *)
(* what was written as it was.                                             *)
LEMMA OtherSteps ==
  ASSUME Inv, RewrapThrows \/ CompleteFile \/ UNCHANGED rewrapVars
  PROVE  Inv' /\ Growth
<1>1. UNCHANGED <<source, wrapped, top, nextFrameCount, mask, mask_index, fileHeader, data>>
  BY DEF RewrapThrows, CompleteFile, rewrapVars
<1>2. Types' /\ MaskIsHeader'
  BY <1>1 DEF Inv, Types, MaskIsHeader
<1>3. TopIsAwaited'
  BY <1>1 DEF Inv, TopIsAwaited, WrappedFrame, PlainFrame, Xored
<1>4. ThrewStays'
  <2>1. CanRewrap(top)' = CanRewrap(top)
    BY <1>1 DEF CanRewrap
  <2>2. refused' => refused \/ (top # NoFrame /\ ~CanRewrap(top))
    BY DEF RewrapThrows, CompleteFile, rewrapVars
  <2> QED BY <1>1, <2>1, <2>2 DEF Inv, ThrewStays
<1>5. Growth
  <2>1. Unwrapped' = Unwrapped
    BY <1>1 DEF Unwrapped, Xored
  <2> QED BY <1>1, <2>1 DEF Growth
<1> QED BY <1>2, <1>3, <1>4, <1>5 DEF Inv

LEMMA NextStep == Inv /\ [RewrapNext]_rewrapVars => Inv' /\ Growth
<1> SUFFICES ASSUME Inv, [RewrapNext]_rewrapVars PROVE Inv' /\ Growth
  OBVIOUS
<1>1. CASE FrameArrives
  BY <1>1, ArriveStep
<1>2. CASE WriteFirst
  BY <1>2, WriteFirstStep
<1>3. CASE WriteRewrapped
  BY <1>3, WriteRewrappedStep
<1>4. CASE WritePlain
  BY <1>4, WritePlainStep
<1>5. CASE RewrapThrows \/ CompleteFile \/ UNCHANGED rewrapVars
  BY <1>5, OtherSteps
<1> QED BY <1>1, <1>2, <1>3, <1>4, <1>5 DEF RewrapNext

(* The types, the awaited frame and the place in the mask hold together in *)
(* every state of a session behind an import diode.                        *)
THEOREM RewrapperInvariant == RewrapSpec => []Inv
<1>1. RewrapInit => Inv
  BY InitInv
<1>2. Inv /\ [RewrapNext]_rewrapVars => Inv'
  BY NextStep
<1> QED BY <1>1, <1>2, PTL DEF RewrapSpec

(* Whatever masks the diode drew, writing a frame makes the file unwrap to *)
(* one chunk of the source more, and nothing else changes what it unwraps  *)
(* to.                                                                     *)
THEOREM FileGrowsByTheChunk == RewrapSpec => GrowsByTheChunk
<1>1. RewrapInit => Inv
  BY InitInv
<1>2. Inv /\ [RewrapNext]_rewrapVars => Inv' /\ Growth
  BY NextStep
<1>3. Inv /\ [RewrapNext]_rewrapVars => [Growth]_rewrapVars
  BY <1>2
<1>4. RewrapSpec => [][Growth]_rewrapVars
  BY <1>1, <1>2, <1>3, PTL DEF RewrapSpec
<1>5. GrowsByTheChunk <=> [][Growth]_rewrapVars
  BY DEF GrowsByTheChunk, Growth
<1> QED BY <1>4, <1>5

(* In every state, a frame that was refused was one of the kinds           *)
(* RefusedOnlyFor lists.                                                   *)
LEMMA InvRefused == Inv => RefusedOnlyFor
<1> SUFFICES ASSUME Inv, refused
             PROVE  IF wrapped
                    THEN ~top.valid \/ (nextFrameCount > 1 /\ fileHeader = NoMask)
                    ELSE \E n \in 1..Len(source) : source[n][1] \notin Opening
  BY DEF RefusedOnlyFor
<1>1. top # NoFrame /\ ~CanRewrap(top)
  BY DEF Inv, ThrewStays
<1>2. /\ nextFrameCount \in 1..Len(source)
      /\ wrapped <=> top.wrapped
      /\ ~wrapped => top.payload = source[nextFrameCount]
  BY <1>1, ChunkOnTop
<1>3. CASE wrapped
  <2>1. ~top.valid \/ (nextFrameCount # 1 /\ mask = NoMask)
    BY <1>1, <1>2, <1>3 DEF CanRewrap
  <2>2. nextFrameCount # 1 => nextFrameCount > 1 /\ fileHeader = mask
    BY <1>2, <1>3 DEF Inv, MaskIsHeader
  <2> QED BY <1>3, <2>1, <2>2
<1>4. CASE ~wrapped
  <2>1. source[nextFrameCount][1] \notin Opening
    BY <1>1, <1>2, <1>4 DEF CanRewrap
  <2> QED BY <1>2, <1>4, <2>1
<1> QED BY <1>3, <1>4

(* The rewrapper refuses no file but those RefusedOnlyFor lists.           *)
THEOREM RefusalsAreListed == RewrapSpec => []RefusedOnlyFor
BY RewrapperInvariant, InvRefused, PTL
-----------------------------------------------------------------------------
(* Induction with a set in the place of the predicate.                     *)
LEMMA SetInduction ==
  ASSUME NEW T \in SUBSET Nat, 0 \in T, \A n \in T : n + 1 \in T
  PROVE  \A n \in Nat : n \in T
<1> DEFINE Less == OpToRel(<, Nat)
           Others == Nat \ T
<1>1. \A m, n \in Nat : m < n => <<m, n>> \in Less
  BY DEF OpToRel
<1>2. IsWellFoundedOn(Less, Nat)
  BY NatLessThanWellFounded
<1> HIDE DEF Less
<1> SUFFICES ASSUME Others # {} PROVE FALSE
  OBVIOUS
<1>3. PICK x \in Others : \A y \in Others : ~(<<y, x>> \in Less)
  BY <1>2, WFMin
<1>4. x - 1 \in Nat /\ x - 1 < x
  OBVIOUS
<1>5. x - 1 \in T
  BY <1>1, <1>3, <1>4
<1> QED
  BY <1>4, <1>5

(* The function FlattenSeq defines, for the first m chunks of a file.      *)
Flattens(f, s, m) ==
  f = [i \in 1..m |-> IF i = 1 THEN s[i] ELSE f[i - 1] \o s[i]]

Flattened(s) == CHOOSE f : Flattens(f, s, Len(s))

(* There is such a function.                                               *)
LEMMA FlattenedIs ==
  ASSUME NEW s, Len(s) \in Nat
  PROVE  Flattens(Flattened(s), s, Len(s))
<1> DEFINE T == {m \in Nat : \E f : Flattens(f, s, m)}
<1>1. 0 \in T
  <2> DEFINE none == [i \in 1..0 |-> s]
  <2>1. Flattens(none, s, 0)
    BY DEF Flattens
  <2> QED BY <2>1
<1>2. ASSUME NEW m \in T PROVE m + 1 \in T
  <2>1. PICK f : Flattens(f, s, m)
    OBVIOUS
  <2> DEFINE x == IF m = 0 THEN s[1] ELSE f[m] \o s[m + 1]
             g == [i \in 1..(m + 1) |-> IF i = m + 1 THEN x ELSE f[i]]
  <2>2. ASSUME NEW i \in 1..(m + 1)
        PROVE  g[i] = IF i = 1 THEN s[i] ELSE g[i - 1] \o s[i]
    <3>1. CASE i = m + 1 /\ i = 1
      <4>1. m = 0
        BY <3>1
      <4> QED BY <3>1, <4>1
    <3>2. CASE i = m + 1 /\ i # 1
      <4>1. m # 0 /\ i - 1 = m /\ m \in 1..(m + 1) /\ m # m + 1
        BY <3>2
      <4>2. g[i] = x /\ g[i - 1] = f[m]
        BY <3>2, <4>1
      <4>3. x = f[m] \o s[i]
        BY <3>2, <4>1
      <4> HIDE DEF g, x
      <4> QED BY <3>2, <4>2, <4>3
    <3>3. CASE i # m + 1
      <4>1. i \in 1..m
        BY <3>3
      <4>2. f[i] = IF i = 1 THEN s[i] ELSE f[i - 1] \o s[i]
        BY <2>1, <4>1 DEF Flattens
      <4>3. g[i] = f[i] /\ (i # 1 => g[i - 1] = f[i - 1])
        BY <3>3, <4>1
      <4> HIDE DEF g
      <4> QED BY <4>2, <4>3
    <3> QED BY <3>1, <3>2, <3>3
  <2>3. g = [i \in 1..(m + 1) |-> IF i = 1 THEN s[i] ELSE g[i - 1] \o s[i]]
    BY <2>2
  <2> HIDE DEF g
  <2>4. Flattens(g, s, m + 1)
    BY <2>3 DEF Flattens
  <2> QED BY <2>4
<1> HIDE DEF T
<1>3. Len(s) \in T
  BY <1>1, <1>2, SetInduction DEF T
<1> QED BY <1>3 DEF T, Flattened

LEMMA FlattenedAt ==
  ASSUME NEW s, Len(s) \in Nat, NEW i \in 1..Len(s)
  PROVE  Flattened(s)[i] = IF i = 1 THEN s[i] ELSE Flattened(s)[i - 1] \o s[i]
<1> DEFINE f == Flattened(s)
           g == [j \in 1..Len(s) |-> IF j = 1 THEN s[j] ELSE f[j - 1] \o s[j]]
<1>1. f = g
  BY FlattenedIs DEF Flattens
<1>2. g[i] = IF i = 1 THEN s[i] ELSE f[i - 1] \o s[i]
  OBVIOUS
<1> HIDE DEF f, g
<1>3. f[i] = IF i = 1 THEN s[i] ELSE f[i - 1] \o s[i]
  BY <1>1, <1>2
<1> QED BY <1>3 DEF f

(* What the file unwraps to is the source up to the awaited frame, and the *)
(* EOF frame comes after the last.                                         *)
ReadSoFar ==
  /\ Unwrapped = IF nextFrameCount = 1
                 THEN <<>>
                 ELSE Flattened(source)[nextFrameCount - 1]
  /\ complete => nextFrameCount = Len(source) + 1

LEMMA InitReadSoFar == RewrapInit => ReadSoFar
BY DEF RewrapInit, ReadSoFar, Unwrapped

LEMMA ReadSoFarStep ==
  ASSUME Inv, ReadSoFar, [RewrapNext]_rewrapVars
  PROVE  ReadSoFar'
<1> DEFINE n == nextFrameCount
           f == Flattened(source)
<1>1. /\ n \in 1..(Len(source) + 1) /\ Len(source) \in Nat
      /\ source \in Seq(Seq(Byte))
  BY DEF Inv, Types
<1>2. UNCHANGED source
  BY DEF RewrapNext, FrameArrives, WriteFirst, WriteRewrapped, WritePlain, RewrapThrows,
         CompleteFile, Popped, rewrapVars
<1>3. /\ complete => n = Len(source) + 1
      /\ Unwrapped = IF n = 1 THEN <<>> ELSE f[n - 1]
  BY DEF ReadSoFar
<1>4. complete' => n' = Len(source') + 1
  <2>1. top # NoFrame => n <= Len(source)
    BY DEF Inv, TopIsAwaited
  <2>2. CASE UNCHANGED <<complete, nextFrameCount>>
    BY <2>2, <1>2, <1>3
  <2>3. CASE CompleteFile
    BY <2>3 DEF CompleteFile
  <2>4. CASE WriteFirst \/ WriteRewrapped \/ WritePlain
    <3>1. top # NoFrame /\ complete' = complete
      BY <2>4 DEF WriteFirst, WriteRewrapped, WritePlain, Popped
    <3>2. n # Len(source) + 1
      BY <3>1, <2>1, <1>1
    <3> QED BY <3>1, <3>2, <1>3
  <2>5. \/ UNCHANGED <<complete, nextFrameCount>>
        \/ CompleteFile \/ WriteFirst \/ WriteRewrapped \/ WritePlain
    BY DEF RewrapNext, FrameArrives, RewrapThrows, rewrapVars
  <2> QED BY <2>2, <2>3, <2>4, <2>5
<1>5. Unwrapped' = IF n' = 1 THEN <<>> ELSE f'[n' - 1]
  <2>1. Growth
    BY NextStep
  <2>2. f' = f
    BY <1>2
  <2>3. CASE n' = n
    BY <2>1, <2>2, <2>3, <1>3 DEF Growth
  <2>4. CASE n' # n
    <3>1. n' = n + 1 /\ Unwrapped' = Unwrapped \o source[n]
      BY <2>1, <2>4 DEF Growth
    <3>2. n' \in 1..(Len(source) + 1)
      BY NextStep, <1>2 DEF Inv, Types
    <3>3. n \in 1..Len(source) /\ n' # 1 /\ n' - 1 = n
      BY <1>1, <3>1, <3>2
    <3>4. f[n] = IF n = 1 THEN source[n] ELSE f[n - 1] \o source[n]
      BY <1>1, <3>3, FlattenedAt
    <3>5. source[n] \in Seq(Byte)
      BY <1>1, <3>3
    <3>6. <<>> \o source[n] = source[n]
      BY <3>5
    <3>7. Unwrapped' = f[n]
      <4> HIDE DEF n, f
      <4>1. CASE n = 1
        BY <4>1, <1>3, <3>1, <3>4, <3>6
      <4>2. CASE n # 1
        BY <4>2, <1>3, <3>1, <3>4
      <4> QED BY <4>1, <4>2
    <3> HIDE DEF n, f
    <3> QED BY <2>2, <3>3, <3>7
  <2> QED BY <2>3, <2>4
<1> QED BY <1>4, <1>5 DEF ReadSoFar

LEMMA ReadSoFarComplete == Inv /\ ReadSoFar => CompleteIsSource
<1> SUFFICES ASSUME Inv, ReadSoFar, complete PROVE Unwrapped = FlattenSeq(source)
  BY DEF CompleteIsSource
<1>1. nextFrameCount = Len(source) + 1
  BY DEF ReadSoFar
<1>2. source \in Seq(Seq(Byte)) /\ Len(source) \in Nat
  BY DEF Inv, Types
<1>3. CASE Len(source) = 0
  <2>1. FlattenSeq(source) = source /\ source = <<>>
    BY <1>2, <1>3 DEF FlattenSeq
  <2> QED BY <1>1, <1>3, <2>1 DEF ReadSoFar
<1>4. CASE Len(source) # 0
  <2>1. FlattenSeq(source) = Flattened(source)[Len(source)]
    BY <1>4 DEF FlattenSeq, Flattened, Flattens
  <2>2. nextFrameCount # 1 /\ nextFrameCount - 1 = Len(source)
    BY <1>1, <1>2, <1>4
  <2> QED BY <2>1, <2>2 DEF ReadSoFar
<1> QED BY <1>3, <1>4

(* For a file of any length and any draw of the masks, plain or wrapped: a *)
(* session that gets to the EOF frame leaves a file that unwraps to the    *)
(* whole source.                                                           *)
THEOREM CompleteFileIsSource == RewrapSpec => []CompleteIsSource
<1>1. RewrapInit => Inv /\ ReadSoFar
  BY InitInv, InitReadSoFar
<1>2. Inv /\ ReadSoFar /\ [RewrapNext]_rewrapVars => (Inv /\ ReadSoFar)'
  BY NextStep, ReadSoFarStep
<1>3. Inv /\ ReadSoFar => CompleteIsSource
  BY ReadSoFarComplete
<1> QED BY <1>1, <1>2, <1>3, PTL DEF RewrapSpec
=============================================================================
