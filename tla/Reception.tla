----------------------------- MODULE Reception ------------------------------
(***************************************************************************)
(* The receiving side of ws_client.c.  esp_websocket_client reads a frame  *)
(* in pieces of at most its buffer and posts one DATA event per piece; the *)
(* handler puts text and buffered binary messages together again, passes   *)
(* audio on as it comes, and drops what does not continue the assembly.    *)
(* The library is external: a piece has any length up to the buffer, an    *)
(* event whose post fails is lost, and the link may be lost between any    *)
(* two events.  Lengths are in units of payload, HeaderLen of them for the *)
(* header of a binary frame.                                               *)
(***************************************************************************)
EXTENDS Naturals, Sequences

CONSTANTS
    HeaderLen,      \* WS_BINARY_HEADER_LEN, in units
    MaxLen,         \* bound: the longest frame
    BufferLen,      \* WS_BUFFER_SIZE, in units: the longest piece
    MaxFrames,      \* bound: frames the server sends
    MaxLost         \* bound: events whose post fails

ASSUME LengthsAssumption == /\ HeaderLen \in Nat \ {0}
                            /\ MaxLen \in Nat /\ BufferLen \in Nat /\ MaxFrames \in Nat

\* What the reassembly withstands: one lost event.  With two, the first half
\* of one message can be completed by the second half of another.
ASSUME LossAssumption == MaxLost \in {0, 1}

VARIABLES
    link,           \* s_socket_connected
    begun,          \* frames sent so far
    wire,           \* the frame being read from the socket
    at,             \* payload_offset of the next piece of it
    spoiled,        \* one of its events was lost or found no memory
    lost,           \* events lost so far
    text,           \* s_text_fragment_state
    bin,            \* s_binary_fragment_state
    log             \* what the reassembly handed on

vars == <<link, begun, wire, at, spoiled, lost, text, bin, log>>

NoFrame == [id |-> 0, op |-> "none", len |-> 0, magic |-> FALSE,
            kind |-> "other", last |-> FALSE, plen |-> 0]

\* The mapping to FrameChannel: a frame is on its way until its last event
\* or until the assembly has dropped it; from then on it is abandoned.
TextCurrent == text.active /\ text.total = wire.len /\ text.received = at
BinCurrent == bin.active /\ bin.total = wire.len /\ bin.received = at
OnItsWay == \/ at = 0
            \/ wire.op = "text" /\ TextCurrent
            \/ wire.op = "binary" /\ BinCurrent

Channel == INSTANCE FrameChannel
           WITH now <- IF OnItsWay THEN wire ELSE NoFrame,
                played <- IF wire.kind = "audio" /\ wire.op = "binary" /\ at > 0 /\ BinCurrent
                          THEN bin.payloadReceived ELSE 0

Frame(i) == Channel!Frame(i)
Unit(f, i) == Channel!Unit(f, i)

Blank == <<0, 0>>
NoText == [active |-> FALSE, total |-> 0, received |-> 0, buf |-> [i \in 1..0 |-> Blank]]
NoBin == [active |-> FALSE, total |-> 0, received |-> 0, headerLen |-> 0, parsed |-> FALSE,
          head |-> NoFrame, payloadReceived |-> 0, buf |-> [i \in 1..0 |-> Blank]]

Init == /\ link = FALSE /\ begun = 0 /\ wire = NoFrame /\ at = 0
        /\ spoiled = FALSE /\ lost = 0
        /\ text = NoText /\ bin = NoBin
        /\ log = << >>

-----------------------------------------------------------------------------
(* The session. *)

\* WEBSOCKET_EVENT_CONNECTED: the fragments are not touched here.
Connect == /\ ~link
           /\ link' = TRUE
           /\ UNCHANGED <<begun, wire, at, spoiled, lost, text, bin, log>>

\* WEBSOCKET_EVENT_DISCONNECTED, or ws_client_stop: whatever was on the way
\* is gone, and ws_reset_session_state forgets both assemblies.
Disconnect == /\ link
              /\ link' = FALSE
              /\ wire' = NoFrame /\ at' = 0 /\ spoiled' = FALSE
              /\ text' = NoText /\ bin' = NoBin
              /\ UNCHANGED <<begun, lost, log>>

SendFrame == /\ link /\ wire = NoFrame /\ begun < MaxFrames
             /\ begun' = begun + 1
             /\ wire' \in Frame(begun + 1)
             /\ at' = 0 /\ spoiled' = FALSE
             /\ UNCHANGED <<link, lost, text, bin, log>>

-----------------------------------------------------------------------------
(* One DATA event: n units of the frame at offset at. *)

Pieces == {n \in 1..BufferLen : at + n <= wire.len}
Whole(n) == at = 0 /\ n = wire.len              \* ~ws_event_is_fragmented
Final(n) == at + n = wire.len

Advance(n) == /\ at' = IF Final(n) THEN 0 ELSE at + n
              /\ wire' = IF Final(n) THEN NoFrame ELSE wire
Spoil(n) == spoiled' = ~Final(n)
Quiet == UNCHANGED <<link, begun, lost>>

Fill(buf, from, n, at0) ==
    [i \in DOMAIN buf |-> IF from < i /\ i <= from + n THEN Unit(wire, i - from + at0) ELSE buf[i]]

\* The post of the event fails inside the library.
LoseEvent(n) ==
    /\ lost < MaxLost
    /\ lost' = lost + 1
    /\ Advance(n) /\ Spoil(n)
    /\ UNCHANGED <<link, begun, text, bin, log>>

\* An opcode that is neither text nor binary: a continuation frame.
IgnoreEvent(n) ==
    /\ wire.op = "cont"
    /\ Advance(n) /\ Quiet
    /\ spoiled' = (spoiled /\ ~Final(n))
    /\ UNCHANGED <<text, bin, log>>

\* No memory for the copy of a whole message, or for the assembly of one.
TextNoMemory(n) ==
    /\ wire.op = "text" /\ at = 0
    /\ text' = IF Whole(n) THEN text ELSE NoText
    /\ Advance(n) /\ Spoil(n) /\ Quiet
    /\ UNCHANGED <<bin, log>>

TextWhole(n) ==
    /\ wire.op = "text" /\ Whole(n)
    /\ log' = Append(log, Channel!TextEntry(wire))
    /\ Advance(n) /\ Quiet /\ spoiled' = FALSE
    /\ UNCHANGED <<text, bin>>

\* Mutant: a new message does not reset an assembly left half done.
TextStartedOnce == IF at > 0 \/ text.active THEN text
                   ELSE [active |-> TRUE, total |-> wire.len, received |-> 0,
                         buf |-> [i \in 1..wire.len |-> Blank]]
TextStarted == IF at > 0 THEN text
               ELSE [active |-> TRUE, total |-> wire.len, received |-> 0,
                     buf |-> [i \in 1..wire.len |-> Blank]]
\* Mutant: the offset is not compared with what was received.
TextContinuesAnyhow(n) == TextStarted.active /\ TextStarted.total = wire.len
TextContinues(n) == /\ TextStarted.active /\ TextStarted.total = wire.len
                    /\ TextStarted.received = at /\ at + n <= TextStarted.total

TextDrop(n) ==
    /\ wire.op = "text" /\ ~Whole(n) /\ ~TextContinues(n)
    /\ text' = NoText
    /\ Advance(n) /\ Quiet
    /\ spoiled' = (spoiled /\ ~Final(n))
    /\ UNCHANGED <<bin, log>>

TextPiece(n) ==
    LET buf == Fill(TextStarted.buf, at, n, at) IN
    /\ wire.op = "text" /\ ~Whole(n) /\ TextContinues(n)
    /\ IF Final(n)
       THEN /\ text' = NoText
            /\ log' = Append(log, Channel!Entry("text", buf))
       ELSE /\ text' = [TextStarted EXCEPT !.received = at + n, !.buf = buf]
            /\ UNCHANGED log
    /\ Advance(n) /\ Quiet
    /\ spoiled' = (spoiled /\ ~Final(n))
    /\ UNCHANGED <<bin>>

-----------------------------------------------------------------------------
(* Binary frames.  What ws_dispatch_binary_frame does with a buffered one is left to its taker. *)

Dispatched(kind, content) == log' = Append(log, Channel!Entry(kind, content))

\* ws_parse_binary_frame refuses it.
BinaryBad(n) ==
    /\ wire.op = "binary" /\ Whole(n) /\ ~Channel!Valid(wire)
    /\ Advance(n) /\ Quiet /\ spoiled' = FALSE
    /\ UNCHANGED <<text, bin, log>>

BinaryWhole(n) ==
    /\ wire.op = "binary" /\ Whole(n) /\ Channel!Valid(wire)
    /\ IF wire.kind = "audio"
       THEN log' = (log \o Channel!AudioEntries(wire, 0, wire.plen)) \o Channel!EndEntries(wire)
       ELSE Dispatched(wire.kind, Channel!Piece(wire, 0, wire.plen))
    /\ Advance(n) /\ Quiet /\ spoiled' = FALSE
    /\ UNCHANGED <<text, bin>>

BinStarted == IF at > 0 THEN bin
              ELSE [NoBin EXCEPT !.active = TRUE, !.total = wire.len]
BinContinues(n) == /\ BinStarted.active /\ BinStarted.total = wire.len
                   /\ BinStarted.received = at /\ at + n <= BinStarted.total

\* The part of the piece that goes to the header, and what is left of it.
\* Mutant: the whole piece is taken for the header.
ForHeaderAll(n) == IF BinStarted.parsed THEN 0 ELSE n
ForHeader(n) == IF BinStarted.parsed THEN 0
                ELSE IF n < HeaderLen - BinStarted.headerLen THEN n
                     ELSE HeaderLen - BinStarted.headerLen
ForPayload(n) == n - ForHeader(n)
\* What the completed header says: its fields stay in the assembly.
Header == IF BinStarted.parsed THEN BinStarted.head ELSE wire
HeaderDone(n) == BinStarted.headerLen + ForHeader(n) = HeaderLen
HeaderGood == wire.magic /\ wire.plen + HeaderLen = wire.len
NeedsMemory == Header.kind # "audio" /\ Header.plen > 0

\* Out of order, a header that does not fit the frame, or too much payload.
BinaryRejected(n) ==
    \/ ~BinContinues(n)
    \/ ~BinStarted.parsed /\ HeaderDone(n) /\ ~HeaderGood
    \/ HeaderDone(n) /\ BinStarted.payloadReceived + ForPayload(n) > Header.plen

BinaryDrop(n) ==
    /\ wire.op = "binary" /\ ~Whole(n) /\ BinaryRejected(n)
    /\ bin' = NoBin
    /\ Advance(n) /\ Quiet
    /\ spoiled' = (spoiled /\ ~Final(n))
    /\ UNCHANGED <<text, log>>

\* No memory for the payload, when the header has just been completed.
BinaryNoMemory(n) ==
    /\ wire.op = "binary" /\ ~Whole(n) /\ ~BinaryRejected(n)
    /\ ~BinStarted.parsed /\ HeaderDone(n) /\ NeedsMemory
    /\ bin' = NoBin
    /\ Advance(n) /\ Spoil(n) /\ Quiet
    /\ UNCHANGED <<text, log>>

\* The header is still incomplete, perhaps at the very end of a short frame.
BinaryHeader(n) ==
    /\ wire.op = "binary" /\ ~Whole(n) /\ ~BinaryRejected(n) /\ ~HeaderDone(n)
    /\ bin' = [BinStarted EXCEPT !.received = at + n, !.headerLen = @ + ForHeader(n)]
    /\ Advance(n) /\ Quiet
    /\ spoiled' = (spoiled /\ ~Final(n))
    /\ UNCHANGED <<text, log>>

\* The bytes of the piece that are payload start at wire offset
\* at + ForHeader(n); the copy goes behind the payload received so far.
BinBuffer == IF BinStarted.parsed THEN BinStarted.buf
             ELSE [i \in 1..(IF NeedsMemory THEN Header.plen ELSE 0) |-> Blank]
PayloadFrom(n) == at + ForHeader(n) - HeaderLen

BinaryPiece(n) ==
    LET k   == ForPayload(n)
        buf == Fill(BinBuffer, BinStarted.payloadReceived, k, PayloadFrom(n))
        heard == IF Header.kind = "audio"
                 THEN log \o Channel!AudioEntries(wire, PayloadFrom(n), k) ELSE log
    IN
    /\ wire.op = "binary" /\ ~Whole(n) /\ ~BinaryRejected(n) /\ HeaderDone(n)
    /\ IF ~Final(n)
       THEN /\ bin' = [BinStarted EXCEPT !.received = at + n, !.headerLen = HeaderLen,
                         !.parsed = TRUE, !.head = Header, !.payloadReceived = @ + k, !.buf = buf]
            /\ log' = heard
       ELSE /\ bin' = NoBin
            /\ IF BinStarted.payloadReceived + k # Header.plen
               THEN log' = heard
               ELSE IF Header.kind = "audio"
               THEN log' = heard \o Channel!EndEntries(Header)
               ELSE Dispatched(Header.kind, buf)
    /\ Advance(n) /\ Quiet
    /\ spoiled' = (spoiled /\ ~Final(n))
    /\ UNCHANGED text

TextEvent(n) == TextNoMemory(n) \/ TextWhole(n) \/ TextDrop(n) \/ TextPiece(n)
BinaryEvent(n) == \/ BinaryBad(n) \/ BinaryWhole(n) \/ BinaryDrop(n)
                  \/ BinaryNoMemory(n) \/ BinaryHeader(n) \/ BinaryPiece(n)
DataEvent(n) == LoseEvent(n) \/ IgnoreEvent(n) \/ TextEvent(n) \/ BinaryEvent(n)

Next == \/ Connect \/ Disconnect \/ SendFrame
        \/ \E n \in Pieces : DataEvent(n)

Spec == Init /\ [][Next]_vars

-----------------------------------------------------------------------------
(* Properties. *)

IsContent(buf) == \E n \in 0..MaxLen : buf \in [1..n -> (0..MaxFrames) \X (0..MaxLen)]

\* The type invariant.
TypeOK ==
    /\ link \in BOOLEAN /\ spoiled \in BOOLEAN
    /\ begun \in 0..MaxFrames /\ lost \in 0..MaxLost
    /\ wire = NoFrame \/ wire \in Frame(begun)
    /\ at \in Nat /\ (wire = NoFrame => at = 0) /\ (wire # NoFrame => at < wire.len)
    /\ \A a \in {text, bin} : /\ a.active \in BOOLEAN /\ a.total \in 0..MaxLen
                             /\ a.received \in 0..a.total /\ IsContent(a.buf)
    /\ DOMAIN text.buf = 1..text.total
    /\ bin.headerLen \in 0..HeaderLen /\ bin.payloadReceived \in 0..MaxLen
    /\ bin.parsed \in BOOLEAN

\* The assembly, with its resets, its checks and its lost events, hands on
\* only what FrameChannel allows: no message mixed from two, none in part,
\* none twice, no gap in the audio and no end before all of it was played.
ImplementsChannel == Channel!Spec

\* Nothing earlier poisons a later message: a text or a valid, well-sized
\* binary frame all of whose events arrived and found memory is handed on
\* with its last event, whatever was dropped or left half done before it.
Deliverable(f) == \/ f.op = "text"
                  \/ f.op = "binary" /\ f.magic /\ f.plen + HeaderLen = f.len
                     /\ (f.kind # "audio" \/ f.plen > 0)
CleanFrameDelivered ==
    [][ (/\ Deliverable(wire) /\ ~spoiled /\ wire' = NoFrame /\ link' = link
         /\ lost' = lost)
        => \/ Len(log') > Len(log)
           \/ \E n \in Pieces : TextNoMemory(n) \/ BinaryNoMemory(n) ]_vars

=============================================================================
