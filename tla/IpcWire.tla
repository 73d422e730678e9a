------------------------------ MODULE IpcWire ------------------------------
(***************************************************************************)
(* The wire form of a Message and its Receiver (mrml-kernel/src/ipc.rs):   *)
(* encode, decode and the sequence check, over a transport that may lose,  *)
(* duplicate, reorder, truncate and extend frames.  The transport is not   *)
(* part of the repository.  A frame has no checksum: a transport that      *)
(* rewrites fields of a frame is outside of what decode can notice.        *)
(*                                                                         *)
(* A word stands for an 8-byte token and for a byte of payload alike, so   *)
(* where one part of a frame ends and the next begins is in its header.    *)
(*                                                                         *)
(* The parts of the specification are WInit, WNext, ...:                   *)
(* CapabilitySpaceProofs extends it together with CapabilitySpace.         *)
(***************************************************************************)
EXTENDS Integers, Sequences, FiniteSets

CONSTANTS HALF,         \* 2^32: generation and slot are the halves of a token
          WORDS,        \* bound: the words are below WORDS
          MAX_CAPS,     \* MAX_CAPABILITIES
          MAX_PAYLOAD,  \* MAX_INLINE_PAYLOAD
          LastSequence, \* u64::MAX in the code
          MaxFrames     \* bound: frames in flight

ASSUME WireAssumption ==
    /\ HALF \in Nat \ {0} /\ WORDS \in Nat /\ MAX_CAPS \in Nat /\ MAX_PAYLOAD \in Nat
    /\ LastSequence \in Nat \ {0} /\ MaxFrames \in Nat

WireSeqs == INSTANCE SequencesExt

Word == 0 .. WORDS - 1

\* Capability::token, and the handles whose tokens are words: no generation 0.
Token(cap) == cap.generation * HALF + cap.slot
FromToken(word) == [slot |-> word % HALF, generation |-> word \div HALF]
WireHandle == {FromToken(word) : word \in {w \in Word : w \div HALF # 0}}

WireMessage == [caps : WireSeqs!SeqOf(WireHandle, MAX_CAPS),
                payload : WireSeqs!SeqOf(Word, MAX_PAYLOAD)]

VARIABLES next,      \* Endpoint: next_sequence
          expected,  \* Receiver: next_sequence
          wire,      \* the frames in flight
          sent,      \* history: the messages sent, by sequence number
          delivered  \* history: the messages the receiver accepted, in order

wvars == <<next, expected, wire, sent, delivered>>

\* Magic, version and the reserved bytes are one flag: as encode writes them.
Frame == [intact : BOOLEAN, sequence : 0 .. LastSequence, count : 0 .. MAX_CAPS,
          length : 0 .. MAX_PAYLOAD, body : WireSeqs!SeqOf(Word, MAX_CAPS + MAX_PAYLOAD + 1)]

WTypeOK == /\ next \in 1 .. LastSequence
           /\ expected \in 1 .. LastSequence
           /\ wire \subseteq Frame
           /\ sent \in Seq(WireMessage)
           /\ delivered \in Seq(WireMessage)

WInit == /\ next = 1
         /\ expected = 1
         /\ wire = {}
         /\ sent = <<>>
         /\ delivered = <<>>

-----------------------------------------------------------------------------
Encode(message, sequence) ==
    [intact |-> TRUE, sequence |-> sequence, count |-> Len(message.caps),
     length |-> Len(message.payload),
     body |-> [k \in DOMAIN message.caps |-> Token(message.caps[k])] \o message.payload]

\* Mutant of Decodes: the frame must be long enough, not of the exact length.
MutDecodesLonger(frame) ==
    /\ frame.intact
    /\ frame.sequence # 0
    /\ Len(frame.body) >= frame.count + frame.length
    /\ \A k \in 1 .. frame.count : frame.body[k] \div HALF # 0

\* The checks of Message::decode.
Decodes(frame) ==
    /\ frame.intact
    /\ frame.count <= MAX_CAPS
    /\ frame.sequence # 0
    /\ frame.length <= MAX_PAYLOAD
    /\ Len(frame.body) = frame.count + frame.length
    /\ \A k \in 1 .. frame.count : frame.body[k] \div HALF # 0

Decoded(frame) ==
    [caps |-> [k \in 1 .. frame.count |-> FromToken(frame.body[k])],
     payload |-> SubSeq(frame.body, frame.count + 1, Len(frame.body))]

-----------------------------------------------------------------------------
\* A message that authorize_send gave a number is encoded under it.  The last
\* number is never given out: SequenceExhausted.
SendFrame(message) ==
    /\ next # LastSequence
    /\ Cardinality(wire) < MaxFrames
    /\ wire' = wire \cup {Encode(message, next)}
    /\ sent' = Append(sent, message)
    /\ next' = next + 1
    /\ UNCHANGED <<expected, delivered>>

\* Mutant of InSequence: frames may be skipped.
MutInSequenceSkips(frame) == frame.sequence >= expected

\* Anything but the next frame is refused with Replay, the last number with
\* SequenceExhausted.
InSequence(frame) == frame.sequence = expected /\ expected # LastSequence

\* Receiver::decode.  A frame stays in flight: it may be delivered again.
Deliver(frame) ==
    /\ Decodes(frame)
    /\ InSequence(frame)
    /\ delivered' = Append(delivered, Decoded(frame))
    /\ expected' = expected + 1
    /\ UNCHANGED <<next, wire, sent>>

\* The transport: a frame is lost, loses its end, gets more words or has its
\* constant bytes changed.
Damaged(frame) ==
    {[frame EXCEPT !.body = SubSeq(@, 1, k)] : k \in 0 .. Len(frame.body) - 1}
    \cup {[frame EXCEPT !.body = Append(@, word)] : word \in Word}
    \cup {[frame EXCEPT !.intact = FALSE]}

Lose(frame) ==
    /\ wire' = wire \ {frame}
    /\ UNCHANGED <<next, expected, sent, delivered>>

Damage(frame) ==
    /\ frame = Encode(sent[frame.sequence], frame.sequence)
    /\ \E damaged \in Damaged(frame) : wire' = (wire \ {frame}) \cup {damaged}
    /\ UNCHANGED <<next, expected, sent, delivered>>

WNext == \/ \E message \in WireMessage : SendFrame(message)
         \/ \E frame \in wire : Deliver(frame) \/ Lose(frame) \/ Damage(frame)

WSpec == WInit /\ [][WNext]_wvars

-----------------------------------------------------------------------------
(***************************************************************************)
(* Properties                                                              *)
(***************************************************************************)
\* "wire_encoding_is_exact_bounded_and_replay_checked": whatever the transport
\* lost, repeated, reordered or cut, what the receiver accepted is what was
\* sent, in that order, each message once and none left out.
DeliveredIsPrefix == WireSeqs!IsPrefix(delivered, sent)

\* The encoding is exact: decode accepts the frames that are, field by field,
\* the encoding of the message sent under their number, and gives that message
\* back; no truncated or extended frame passes for a shorter or longer one.
AcceptedMeansSent ==
    \A frame \in wire :
        /\ Decodes(frame) <=> frame = Encode(sent[frame.sequence], frame.sequence)
        /\ Decodes(frame) => Decoded(frame) = sent[frame.sequence]
=============================================================================
