----------------------------- MODULE FrameStream -----------------------------
(***************************************************************************)
(* One direction of the connection: frames with a three-byte length, cut   *)
(* into chunks by the network and put together again.                      *)
(*                                                                         *)
(* The sender is `encode_frame` and the reader `FrameReader`, both in      *)
(* crates/wanoise/src/frame.rs, driven by `read_frame` of                  *)
(* crates/wapair/src/main.rs.  The bytes of the connection are kept for    *)
(* good in `wire`; the reader's buffer is the part of it received and not  *)
(* yet drained.  Bytes are digits of a base, 256 in the code.              *)
(***************************************************************************)
EXTENDS Naturals, Sequences

CONSTANTS
    Base,           \* values of a byte: 256
    Payloads,       \* payloads handed to encode_frame
    MaxFrames       \* bound: frames sent in a behaviour

ASSUME BaseAssumption == Base \in Nat /\ Base > 1

Byte == 0..(Base - 1)

ASSUME PayloadsAssumption == Payloads \subseteq Seq(Byte)

ASSUME MaxFramesAssumption == MaxFrames \in Nat

VARIABLES
    wire,           \* every byte put on the connection
    received,       \* how many of them the reader has received
    consumed,       \* how many of those next_frame has drained
    pc,             \* read_frame: "idle" (its caller runs), "call", or "wait" in ws.read
    sent,           \* history: payloads that encode_frame accepted
    starts,         \* history: where each of them starts on the wire
    delivered       \* history: what read_frame has returned

vars == <<wire, received, consumed, pc, sent, starts, delivered>>

(***************************************************************************)
(* encode_frame.                                                           *)
(***************************************************************************)

HeaderLen == 3
MaxFrameLen == Base * Base * Base - 1

\* The length, most significant byte first; `as u8` keeps the low digit.
Header(len) == <<(len \div (Base * Base)) % Base, (len \div Base) % Base, len % Base>>

\* Mutant: one more byte than the header can count is let through.
Fits_OffByOne(p) == Len(p) <= MaxFrameLen + 1

Fits(p) == Len(p) <= MaxFrameLen

\* A payload that does not fit is an error and leaves the output alone.
SendFrame ==
    /\ Len(sent) < MaxFrames
    /\ \E p \in Payloads :
           /\ Fits(p)
           /\ wire' = wire \o Header(Len(p)) \o p
           /\ sent' = Append(sent, p)
           /\ starts' = Append(starts, Len(wire))
    /\ UNCHANGED <<received, consumed, pc, delivered>>

(***************************************************************************)
(* FrameReader.                                                            *)
(***************************************************************************)

\* A frame is complete when `n` bytes are received and `c` of them drained.
FrameLen(c) == wire[c + 1] * (Base * Base) + wire[c + 2] * Base + wire[c + 3]

\* Mutant: the buffer's length is compared with the payload's alone.
HasFrame_HeaderForgotten(n, c) ==
    /\ n - c >= HeaderLen
    /\ n - c >= FrameLen(c)

HasFrame(n, c) ==
    /\ n - c >= HeaderLen
    /\ n - c >= HeaderLen + FrameLen(c)

\* Mutant: drain takes the payload's length and leaves the header's behind.
Drained_PayloadOnly(c) == c + FrameLen(c)

Drained(c) == c + HeaderLen + FrameLen(c)

\* next_frame, on a buffer of bytes c + 1 .. n: return a complete frame to the
\* caller of read_frame, or wait for more bytes.
NextFrame(n) ==
    \/ /\ HasFrame(n, consumed)
       /\ delivered' = Append(delivered,
                              SubSeq(wire, consumed + HeaderLen + 1, Drained(consumed)))
       /\ consumed' = Drained(consumed)
       /\ pc' = "idle"
    \/ /\ ~HasFrame(n, consumed)
       /\ pc' = "wait"
       /\ UNCHANGED <<consumed, delivered>>

(***************************************************************************)
(* read_frame.                                                             *)
(***************************************************************************)

Call ==
    /\ pc = "idle" /\ pc' = "call"
    /\ UNCHANGED <<wire, received, consumed, sent, starts, delivered>>

\* Mutant: read_frame goes to the socket before it looks in the buffer.
TryBuffered_Skipped ==
    /\ pc = "call" /\ pc' = "wait"
    /\ UNCHANGED <<wire, received, consumed, sent, starts, delivered>>

\* A frame may be left over from the last chunk.
TryBuffered ==
    /\ pc = "call"
    /\ NextFrame(received)
    /\ UNCHANGED <<wire, received, sent, starts>>

\* ws.read returns a chunk: some of the bytes on their way, cut anywhere.
ReadChunk ==
    /\ pc = "wait"
    /\ \E n \in (received + 1)..Len(wire) :
           /\ received' = n
           /\ NextFrame(n)
    /\ UNCHANGED <<wire, sent, starts>>

Init ==
    /\ wire = <<>> /\ received = 0 /\ consumed = 0 /\ pc = "idle"
    /\ sent = <<>> /\ starts = <<>> /\ delivered = <<>>

Reader == Call \/ TryBuffered \/ ReadChunk

Next == SendFrame \/ Reader

Spec == Init /\ [][Next]_vars

\* The caller reads on, and what is sent arrives.
FairSpec == Spec /\ WF_vars(Reader)

(***************************************************************************)
(* Properties.                                                             *)
(***************************************************************************)

\* Every variable stays in its range, and the reader within the wire.
TypeOK ==
    /\ wire \in Seq(Byte)
    /\ received \in 0..Len(wire) /\ consumed \in 0..received
    /\ pc \in {"idle", "call", "wait"}
    /\ sent \in Seq(Payloads) /\ delivered \in Seq(Payloads)
    /\ starts \in Seq(Nat)

\* read_frame never blocks on the socket with a whole frame in its buffer:
\* a frame that came in the same chunk as the one before is not stranded.
NeverWaitsOnAFrame == pc = "wait" => ~HasFrame(received, consumed)

\* The reader always stands at the start of the frame it delivers next.
Aligned ==
    /\ Len(starts) = Len(sent)
    /\ Len(delivered) <= Len(sent)
    /\ consumed = IF Len(delivered) < Len(sent)
                  THEN starts[Len(delivered) + 1] ELSE Len(wire)

\* Frames come out whole, once and in order, however they were cut.
Queue == INSTANCE Fifo WITH Payload <- Payloads
InOrder == Queue!Spec

\* Every frame sent is delivered.
EverythingArrives ==
    \A n \in 1..MaxFrames : Len(sent) >= n ~> Len(delivered) >= n
=============================================================================
