------------------------- MODULE StreamingRewrapper -------------------------
(***************************************************************************)
(* A session on a server behind an import diode.  The diode wraps each     *)
(* frame of a file by itself: it XORs the payload with a mask drawn for    *)
(* the frame, which its CloakedDagger header names, and passes pure SISL   *)
(* and bitmap frames as they are.  The server rewraps the frames so that   *)
(* the whole file is XORed with the first frame's mask.                    *)
(*                                                                         *)
(* Frames reach writeFrame in order (ReorderPackets).  A frame that cannot *)
(* be rewrapped throws out of the loop and stays on top of the queue,      *)
(* where the session's next packet finds it again.  A byte is the set of   *)
(* its bits, and XOR the symmetric difference.                             *)
(***************************************************************************)
EXTENDS Integers, SequencesExt

CONSTANTS
  Bit,          \* the bits of a byte
  Opening,      \* the bytes '{' and 'B'
  Chunk,        \* the payloads a client cuts a file into
  MaxFrames,    \* bound: the data frames of a file
  Key,          \* the masks the diode draws from
  ValidHeader,  \* whether headers decode: {TRUE}, or BOOLEAN
  NoFrame

VARIABLES
  source,      \* the file the client sends, cut into chunks
  wrapped,     \* whether the diode wraps this file
  top,         \* the frame on top of the queue, or NoFrame
  nextFrameCount,
  mask,        \* the mask of the first frame
  mask_index,  \* the bytes rewrapped so far
  fileHeader,  \* the key in the header the file was given, or NoFrame
  data,        \* what was written after it
  refused,     \* whether rewrap has thrown
  complete     \* whether the EOF frame was handled

rewrapVars == <<source, wrapped, top, nextFrameCount, mask, mask_index,
                fileHeader, data, refused, complete>>

maskLength == 8

Byte == SUBSET Bit
Mask == [0..(maskLength - 1) -> Byte]
NoMask == [i \in 0..(maskLength - 1) |-> {}]

ASSUME KeyAssumption == Key \subseteq Mask
ASSUME ChunkAssumption == Chunk \subseteq Seq(Byte) \ {<<>>}
ASSUME OpeningAssumption == Opening \subseteq Byte
ASSUME RewrapBound == MaxFrames \in Nat /\ ValidHeader \subseteq BOOLEAN

Xor(a, b) == (a \ b) \cup (b \ a)

(* Byte i of a text, counted from 1, meets mask byte i - 1 modulo 8, when  *)
(* `offset' bytes came before the text.                                    *)
Xored(text, m, offset) ==
  [i \in 1..Len(text) |-> Xor(text[i], m[(offset + i - 1) % maskLength])]

Frame == [wrapped : BOOLEAN, valid : BOOLEAN, key : Mask, payload : Seq(Byte)]
ASSUME FrameAssumption == NoFrame \notin Frame /\ NoFrame \notin Mask

(* What the diode makes of a chunk.                                        *)
WrappedFrame(chunk, key, valid) ==
  [wrapped |-> TRUE, valid |-> valid, key |-> key,
   payload |-> Xored(chunk, key, 0)]
PlainFrame(chunk) ==
  [wrapped |-> FALSE, valid |-> TRUE, key |-> NoMask, payload |-> chunk]
-----------------------------------------------------------------------------
(* A mutant: the offset of the frame in the file is left out.              *)
XORedMaskUnrotated(key) ==
  [o \in 0..(maskLength - 1) |-> Xor(key[o], mask[o])]

(* constructXORedMask: byte r of the frame's mask meets the file's mask    *)
(* where byte r of the frame falls, at (r + mask_index) % maskLength.      *)
XORedMask(key) ==
  [o \in 0..(maskLength - 1) |->
     Xor(key[(o - mask_index) % maskLength], mask[o])]

RewrapData(f) == Xored(f.payload, XORedMask(f.key), mask_index)

(* A mutant: the frame's own mask is taken for the one set before.         *)
CanRewrapByKey(f) ==
  IF f.wrapped
  THEN f.valid /\ (nextFrameCount = 1 \/ f.key # NoMask)
  ELSE f.payload[1] \in Opening

(* rewrap throws for a header that does not decode, for a later frame of a *)
(* file whose mask is not set, and for a plain frame of unknown kind.      *)
CanRewrap(f) ==
  IF f.wrapped
  THEN f.valid /\ (nextFrameCount = 1 \/ mask # NoMask)
  ELSE f.payload[1] \in Opening
-----------------------------------------------------------------------------
RewrapInit ==
  /\ source \in UNION {[1..n -> Chunk] : n \in 0..MaxFrames}
  /\ wrapped \in BOOLEAN
  /\ top = NoFrame
  /\ nextFrameCount = 1
  /\ mask = NoMask
  /\ mask_index = 0
  /\ fileHeader = NoFrame
  /\ data = <<>>
  /\ refused = FALSE
  /\ complete = FALSE

(* The next frame comes through the diode.                                 *)
FrameArrives ==
  /\ top = NoFrame
  /\ nextFrameCount <= Len(source)
  /\ IF wrapped
     THEN \E key \in Key, valid \in ValidHeader :
            top' = WrappedFrame(source[nextFrameCount], key, valid)
     ELSE top' = PlainFrame(source[nextFrameCount])
  /\ UNCHANGED <<source, wrapped, nextFrameCount, mask, mask_index,
                 fileHeader, data, refused, complete>>

Popped ==
  /\ nextFrameCount' = nextFrameCount + 1
  /\ top' = NoFrame
  /\ UNCHANGED <<source, wrapped, refused, complete>>

(* handleFirstFrame: the header and the frame are written as they came.    *)
WriteFirst ==
  /\ top # NoFrame /\ top.wrapped /\ nextFrameCount = 1
  /\ CanRewrap(top)
  /\ mask' = top.key
  /\ mask_index' = Len(top.payload)
  /\ fileHeader' = top.key
  /\ data' = data \o top.payload
  /\ Popped

WriteRewrapped ==
  /\ top # NoFrame /\ top.wrapped /\ nextFrameCount # 1
  /\ CanRewrap(top)
  /\ data' = data \o RewrapData(top)
  /\ mask_index' = mask_index + Len(top.payload)
  /\ UNCHANGED <<mask, fileHeader>>
  /\ Popped

WritePlain ==
  /\ top # NoFrame /\ ~top.wrapped
  /\ CanRewrap(top)
  /\ data' = data \o top.payload
  /\ UNCHANGED <<mask, mask_index, fileHeader>>
  /\ Popped

RewrapThrows ==
  /\ top # NoFrame
  /\ ~CanRewrap(top)
  /\ refused' = TRUE
  /\ UNCHANGED <<source, wrapped, top, nextFrameCount, mask, mask_index,
                 fileHeader, data, complete>>

(* A mutant: the EOF frame's count is not compared with the awaited one.   *)
CompleteFileAtAnyCount ==
  /\ top = NoFrame
  /\ complete' = TRUE
  /\ UNCHANGED <<source, wrapped, top, nextFrameCount, mask, mask_index,
                 fileHeader, data, refused>>

(* The EOF frame is not rewrapped.                                         *)
CompleteFile ==
  /\ top = NoFrame
  /\ nextFrameCount = Len(source) + 1
  /\ complete' = TRUE
  /\ UNCHANGED <<source, wrapped, top, nextFrameCount, mask, mask_index,
                 fileHeader, data, refused>>

RewrapNext ==
  \/ FrameArrives
  \/ WriteFirst
  \/ WriteRewrapped
  \/ WritePlain
  \/ RewrapThrows
  \/ CompleteFile

RewrapSpec ==
  RewrapInit /\ [][RewrapNext]_rewrapVars /\ WF_rewrapVars(RewrapNext)
-----------------------------------------------------------------------------
(* What reads the file on the far side: unwrapFromStream.                  *)
Unwrapped == IF fileHeader = NoFrame THEN data ELSE Xored(data, fileHeader, 0)

(* However the diode drew the masks of the frames, what the file unwraps   *)
(* to, with the one mask in its header, grows by the source's next chunk   *)
(* whenever a frame leaves the queue, and by nothing in between.           *)
GrowsByTheChunk ==
  [][IF nextFrameCount' = nextFrameCount
     THEN Unwrapped' = Unwrapped
     ELSE /\ nextFrameCount' = nextFrameCount + 1
          /\ Unwrapped' = Unwrapped \o source[nextFrameCount]]_rewrapVars

(* A file that gets to its EOF frame unwraps to the whole source, whatever *)
(* was refused or drawn on the way.                                        *)
CompleteIsSource == complete => Unwrapped = FlattenSeq(source)

(* The rewrapper refuses no wrapped file but those its own marker for "no  *)
(* mask yet" takes for unset, and headers that do not decode; and of a     *)
(* file the diode let pass as it is, every frame, not just the first, has  *)
(* to start as SISL or as a bitmap does.                                   *)
RefusedOnlyFor ==
  refused =>
    IF wrapped
    THEN ~top.valid \/ (nextFrameCount > 1 /\ fileHeader = NoMask)
    ELSE \E n \in 1..Len(source) : source[n][1] \notin Opening

(* A wrapped file whose frames all decode and whose first mask is not zero *)
(* gets to its end; so does a plain one of frames of known kinds.          *)
IsRewrappable ==
  IF wrapped
  THEN (top = NoFrame \/ top.valid) /\ fileHeader # NoMask
  ELSE \A n \in 1..Len(source) : source[n][1] \in Opening

RewrappableCompletes == []IsRewrappable => <>complete
=============================================================================
