------------------------------ MODULE SbusReader ------------------------------
(***************************************************************************)
(* SBUSReader of platform/lpio: the frames a receiver sends over a serial  *)
(* line, 25 bytes each, cut up by the reads, found again by their header   *)
(* and footer, and decoded into 16 channels of 11 bits.                    *)
(***************************************************************************)
EXTENDS Integers, SequencesExt

CONSTANTS
    Frames,      \* the frames that may be sent: channels and flags
    MaxFrames    \* how many are sent (bound of TLC's runs)

ASSUME SbusAssumption == MaxFrames \in Nat

VARIABLES
    sent,        \* the frames the receiver sends
    consumed,    \* how many of their bytes were read
    raw,         \* the bytes recvFrame() has of the frame it is reading
    received,    \* the frames recvFrame() returned, and the bytes read by then
    cut,         \* history: the frames in whose middle recvFrame() gave up
    lost         \* history: the frames whose first byte went into another

sbusVars == <<sent, consumed, raw, received, cut, lost>>

kSbusChannelCount == 16
kSbusFrameBytes == 25

(* The SBUS protocol: header, the channels' bits from the lowest on, flags *)
(* and footer.                                                             *)
Bit(frame, n) == (frame.channels[n \div 11] \div 2 ^ (n % 11)) % 2

ChannelByte(frame, k) == MapThenSumSet(LAMBDA i : 2 ^ i * Bit(frame, 8 * (k - 2) + i), 0..7)

Packed(frame) ==
    [k \in 1..kSbusFrameBytes |->
        CASE k = 1 -> 15
          [] k = 24 -> frame.flags
          [] k = 25 -> 0
          [] k \in 2..23 -> ChannelByte(frame, k)]

OnTheWire == [frame \in Frames |-> Packed(frame)]

Byte(n) == OnTheWire[sent[(n - 1) \div kSbusFrameBytes + 1]][((n - 1) % kSbusFrameBytes) + 1]

(* decodeFrame: each channel is taken from two bytes, in a uint16_t.       *)
decodeFrame(bytes) ==
    [raw |-> bytes,
     flags |-> bytes[24],
     channels |-> [i \in 0..kSbusChannelCount - 1 |->
        LET byteIndex == 1 + (i * 11) \div 8
            bitOffset == (i * 11) % 8
            v == bytes[byteIndex + 1] \div 2 ^ bitOffset
                 + bytes[byteIndex + 2] * 2 ^ (8 - bitOffset)
        IN  (v % 2 ^ 16) % 2 ^ 11]]

SbusInit ==
    /\ sent \in [1..MaxFrames -> Frames]
    /\ consumed = 0
    /\ raw = <<>>
    /\ received = <<>>
    /\ cut = {} /\ lost = {}

(* readByte, until a byte is a header.                                     *)
Searches ==
    /\ raw = <<>> /\ consumed < MaxFrames * kSbusFrameBytes
    /\ consumed' = consumed + 1
    /\ raw' = IF Byte(consumed') = 15 THEN <<15>> ELSE <<>>
    /\ UNCHANGED <<sent, received, cut, lost>>

Piece(n) == [k \in 1..n |-> Byte(consumed + k)]

(* The frames that begin within the next n bytes.                          *)
BeginWithin(n) == {q \in 1..MaxFrames : kSbusFrameBytes * (q - 1) \in consumed..consumed + n - 1}

(* Mutant: a piece is put behind the header, whatever came before it.      *)
ReadsRestAnew(n) ==
    /\ raw # <<>> /\ n <= kSbusFrameBytes - Len(raw)
    /\ consumed + n <= MaxFrames * kSbusFrameBytes
    /\ consumed' = consumed + n
    /\ LET bytes == <<15>> \o Piece(n) \o SubSeq(raw, n + 2, Len(raw)) IN
       IF Len(raw) + n < kSbusFrameBytes
       THEN raw' = bytes \o [k \in 1..(Len(raw) + n - Len(bytes)) |-> 0] /\ UNCHANGED received
       ELSE /\ raw' = <<>>
            /\ received' =
                  IF bytes[Len(bytes)] # 0 THEN received
                  ELSE Append(received, [at |-> consumed', frame |->
                          decodeFrame(bytes \o [k \in 1..(kSbusFrameBytes - Len(bytes)) |-> 0])])
    /\ lost' = lost \cup BeginWithin(n)
    /\ UNCHANGED <<sent, cut>>

(* The rest of the frame, as much as has come: without a footer all of it  *)
(* is discarded.                                                           *)
ReadsRest(n) ==
    LET bytes == raw \o Piece(n) IN
    /\ raw # <<>> /\ n <= kSbusFrameBytes - Len(raw)
    /\ consumed + n <= MaxFrames * kSbusFrameBytes
    /\ consumed' = consumed + n
    /\ IF Len(bytes) < kSbusFrameBytes
       THEN raw' = bytes /\ UNCHANGED received
       ELSE /\ raw' = <<>>
            /\ received' =
                  IF bytes[kSbusFrameBytes] # 0 THEN received
                  ELSE Append(received, [at |-> consumed', frame |-> decodeFrame(bytes)])
    /\ lost' = lost \cup BeginWithin(n)
    /\ UNCHANGED <<sent, cut>>

(* recvFrame() throws at its deadline, whatever it has read.               *)
GivesUp ==
    /\ raw # <<>>
    /\ raw' = <<>>
    /\ cut' = cut \cup {(consumed - 1) \div kSbusFrameBytes + 1}
    /\ UNCHANGED <<sent, consumed, received, lost>>

SbusNext ==
    Searches \/ GivesUp \/ \E n \in 1..kSbusFrameBytes : ReadsRest(n)

SbusSpec == SbusInit /\ [][SbusNext]_sbusVars

-----------------------------------------------------------------------------
(* The frame whose last byte is the n-th of the line.                      *)
EndingAt(n) == sent[n \div kSbusFrameBytes]

(* A frame that has a header's byte only where the header is.              *)
Unmistakable(frame) == \A k \in 2..kSbusFrameBytes : OnTheWire[frame][k] # 15

(***************************************************************************)
(* However the reads cut the bytes up and wherever recvFrame() gives up,   *)
(* what it returns is 25 consecutive bytes of the line from a header's     *)
(* byte to a footer's, no byte is returned twice, and a frame it did not   *)
(* give up in is returned, unless its beginning was taken for a part of    *)
(* another.  That does not happen before it first gives up, nor later if   *)
(* nothing in the frames looks like a header: it finds the very next one,  *)
(* and returns the frames sent but those it gave up in, and no other.      *)
(***************************************************************************)
CutFromTheLine(r) ==
    /\ r.at \in kSbusFrameBytes..consumed
    /\ r.frame.raw = [k \in 1..kSbusFrameBytes |-> Byte(r.at - kSbusFrameBytes + k)]
    /\ r.frame.raw[1] = 15 /\ r.frame.raw[kSbusFrameBytes] = 0

InStep == cut = {} \/ \A i \in DOMAIN sent : Unmistakable(sent[i])

FramesAreSent ==
    /\ \A i \in DOMAIN received :
          /\ CutFromTheLine(received[i])
          /\ i > 1 => received[i].at >= received[i - 1].at + kSbusFrameBytes
    /\ \A q \in 1..consumed \div kSbusFrameBytes : q \notin cut \cup lost =>
          \E i \in DOMAIN received : received[i].at = kSbusFrameBytes * q
    /\ InStep =>
          /\ lost = {}
          /\ \A i \in DOMAIN received :
                received[i].at % kSbusFrameBytes = 0
                /\ received[i].at \div kSbusFrameBytes \notin cut

(***************************************************************************)
(* A channel may be anything from kSbusPwmMin to kSbusPwmMax: what was     *)
(* sent is what is decoded.                                                *)
(***************************************************************************)
ChannelsAreExact ==
    cut = {} =>
       \A i \in DOMAIN received :
          received[i].frame.channels = EndingAt(received[i].at).channels

=============================================================================
