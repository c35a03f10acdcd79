-------------------------------- MODULE Framing --------------------------------
(***************************************************************************)
(* How Boost.MQTT5 cuts the bytes it reads into packets (assemble_op) and   *)
(* handles them one after the other (read_message_op), over connections     *)
(* that are lost and made again while a packet is half read.  A packet is   *)
(* its bytes: the control byte, the length of the rest, the rest.           *)
(***************************************************************************)
EXTENDS Integers, Sequences, SequencesExt, Varint

CONSTANTS Frames,     \* the packets a broker may send, good and bad ones
          Garbled,    \* those of type PUBLISH that cannot be decoded
          Capacity,   \* the size of the read buffer: maximum_packet_size, or 65536
          MaxFrames,  \* bound on the packets sent on one connection
          MaxOutages  \* bound on the lost connections

\* A packet is as long as it says; one whose length does not end is longer than that.
Whole(f) ==
    LET length == ParseVarint(Tail(f))
    IN  IF length.ok THEN Len(length.rest) = length.value ELSE Len(f) > MaxDigits

ASSUME FramingAssumption ==
       /\ Frames \subseteq Seq(Nat) /\ Garbled \subseteq Frames
       /\ \A f \in Frames : f # <<>> /\ Whole(f)
       /\ Capacity \in Nat /\ Capacity > MaxDigits /\ MaxFrames \in Nat /\ MaxOutages \in Nat

VARIABLES span,     \* _data_span: what is read and not yet handled
          reader,   \* "reading", a read that is "posted", or "disconnecting"
          wire,     \* bytes on their way
          line,     \* the connection: "up", "shut" by the client, or "lost"
          outages,  \* how often it was lost
          sent,     \* history: the packets sent on this connection, those handled,
          handled,
          muddled   \* and whether the reader goes on in the middle of something
framingVars == <<span, reader, wire, line, outages, sent, handled, muddled>>

FramingInit ==
    /\ span = <<>> /\ reader = "reading" /\ wire = <<>> /\ line = "up" /\ outages = 0
    /\ sent = <<>> /\ handled = <<>> /\ muddled = FALSE

Code(control) == control \div 16
IsPublish(control) == Code(control) = 3
IsDisconnectCode(control) == Code(control) = 14

\* Flags are fixed for every code but PUBLISH.
ValidHeader(control) ==
    IsPublish(control) \/ control % 16 = IF Code(control) = 6 THEN 2 ELSE 0

\* Mutant: a further packet in the buffer waits for more bytes.
PerformLazy(atLeast, bytes) == span' = bytes /\ reader' = "reading"

\* perform: a read that needs no more bytes than there are is posted.
Perform(atLeast, bytes) ==
    /\ span' = bytes
    /\ reader' = IF atLeast = 0 /\ bytes # <<>> THEN "posted" ELSE "reading"

\* A malformed packet: what was read is dropped, and the reader disconnects.
MalformedPacket ==
    /\ span' = <<>> /\ reader' = "disconnecting" /\ muddled' = TRUE
    /\ UNCHANGED <<line, handled>>

\* dispatch: the packet is handled; then the next one is read, after DISCONNECT or
\* what cannot be decoded when the connection is shut down.
HandlePacket(f, rest) ==
    /\ handled' = Append(handled, f) /\ UNCHANGED muddled
    /\ IF f \in Garbled THEN span' = rest /\ reader' = "disconnecting" /\ UNCHANGED line
       ELSE /\ Perform(0, rest)
            /\ line' = IF IsDisconnectCode(f[1]) /\ line = "up" THEN "shut" ELSE line

\* Mutant: a packet may be as long as the buffer, without its header.
FitsBarely(header, length) == length <= Capacity

Fits(header, length) == length <= Capacity - header

\* on_read, with what is in the buffer.
OnRead(bytes) ==
    LET length == ParseVarint(Tail(bytes))
        header == Len(bytes) - Len(length.rest)
        end == header + length.value
    IN  IF Code(bytes[1]) = 0 THEN MalformedPacket
        ELSE IF ~length.ok
        THEN IF Len(bytes) < 1 + MaxDigits
             THEN Perform(1, bytes) /\ UNCHANGED <<line, handled, muddled>>
             ELSE MalformedPacket
        ELSE IF ~Fits(header, length.value) THEN MalformedPacket
        ELSE IF Len(bytes) < end THEN Perform(1, bytes) /\ UNCHANGED <<line, handled, muddled>>
        ELSE IF ~ValidHeader(bytes[1]) THEN MalformedPacket
        ELSE HandlePacket(SubSeq(bytes, 1, end), SubSeq(bytes, end + 1, Len(bytes)))

-----------------------------------------------------------------------------
\* As many bytes as have come, or as there is room for.
ReadSome ==
    /\ reader = "reading" /\ wire # <<>>
    /\ \E n \in 1 .. Len(wire) :
          /\ Len(span) + n <= Capacity
          /\ OnRead(span \o SubSeq(wire, 1, n))
          /\ wire' = SubSeq(wire, n + 1, Len(wire))
    /\ UNCHANGED <<outages, sent>>

ReadPosted ==
    /\ reader = "posted" /\ OnRead(span)
    /\ UNCHANGED <<wire, outages, sent>>

\* The DISCONNECT is written, the connection shut down, and the reader reads on.
Disconnected ==
    /\ reader = "disconnecting" /\ line # "lost"
    /\ line' = "shut" /\ Perform(0, span)
    /\ UNCHANGED <<wire, outages, sent, handled, muddled>>

NewConnection == line' = "up" /\ wire' = <<>> /\ sent' = <<>> /\ handled' = <<>>

\* Mutant: what was read of the packet before is kept.
TryAgainKeeping ==
    /\ reader = "reading" /\ line # "up"
    /\ NewConnection /\ muddled' = FALSE
    /\ UNCHANGED <<span, reader, outages>>

\* The read fails, and comes back with try_again when there is a new connection.
TryAgainRead ==
    /\ reader = "reading" /\ line # "up"
    /\ NewConnection /\ span' = <<>> /\ muddled' = FALSE
    /\ UNCHANGED <<reader, outages>>

\* The DISCONNECT cannot be written; the writer connects again, and the reader goes on
\* with what it had read before.
Reconnected ==
    /\ reader = "disconnecting" /\ line = "lost"
    /\ NewConnection /\ Perform(0, span) /\ muddled' = (span # <<>>)
    /\ UNCHANGED outages

SendFrame(f) ==
    /\ line = "up" /\ Len(sent) < MaxFrames
    /\ wire' = wire \o f /\ sent' = Append(sent, f)
    /\ UNCHANGED <<span, reader, line, outages, handled, muddled>>

Outage ==
    /\ line # "lost" /\ outages < MaxOutages
    /\ line' = "lost" /\ wire' = <<>> /\ outages' = outages + 1
    /\ UNCHANGED <<span, reader, sent, handled, muddled>>

FramingNext ==
    \/ ReadSome \/ ReadPosted \/ Disconnected \/ TryAgainRead \/ Reconnected \/ Outage
    \/ \E f \in Frames : SendFrame(f)

FramingSpec == FramingInit /\ [][FramingNext]_framingVars

Reader == ReadSome \/ ReadPosted \/ Disconnected \/ TryAgainRead \/ Reconnected

-----------------------------------------------------------------------------
\* What is handled are the packets that were sent on this connection, whole and in
\* order, and what is read and on its way is the rest of them: not one byte of another
\* connection, however the bytes come.  Two cases are excepted, until the
\* connection is made anew: after a malformed packet, whose end is not known, and when a PUBLISH that
\* cannot be decoded is followed by a lost connection before the DISCONNECT is written:
\* its end is known, but the reader goes on, on the new connection, with what it had read
\* of the old one.  The reader never waits for bytes it has no room for.
FramesWhole ==
    /\ ~muddled /\ line = "up" =>
         /\ IsPrefix(handled, sent)
         /\ span \o wire = FlattenSeq(SubSeq(sent, Len(handled) + 1, Len(sent)))
    /\ reader = "reading" => Len(span) < Capacity

\* On a connection that stays every packet is handled: none is left in the buffer.
AllHandled == []<>(handled = sent \/ muddled \/ line # "up")
=============================================================================
