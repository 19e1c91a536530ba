--------------------------- MODULE ReceptionProofs ---------------------------
(***************************************************************************)
(* Proofs about Reception for frames of every length, pieces of every      *)
(* size, every number of frames and a header of every length: that it      *)
(* implements FrameChannel, and that what was dropped before a message     *)
(* never keeps that message from being handed on.                          *)
(*                                                                         *)
(* The inductive invariant says of each assembly whose it is.  Either it   *)
(* holds exactly the first r units of the frame being read, r no more than *)
(* what has been read of that frame; or it is a leftover of an earlier     *)
(* one.  A leftover could be taken for the beginning of the present frame  *)
(* only if the present frame's first event were lost, so a leftover needs  *)
(* a lost event of its own (Belongs below); a binary frame too short for   *)
(* its header leaves one without a loss, but a full one, which continues   *)
(* nothing.                                                                *)
(***************************************************************************)
EXTENDS Reception, TLAPS

-----------------------------------------------------------------------------
(* The strengthening. *)

\* The first k units of frame f in a buffer of m.
Filled(f, m, k) == [i \in 1..m |-> IF i <= k THEN Unit(f, i) ELSE Blank]

\* The assembly of the frame being read, r units into it.
TextAt(r) == [active |-> TRUE, total |-> wire.len, received |-> r,
              buf |-> Filled(wire, wire.len, r)]

HeaderAt(r) == [active |-> TRUE, total |-> wire.len, received |-> r, headerLen |-> r,
                parsed |-> FALSE, head |-> NoFrame, payloadReceived |-> 0,
                buf |-> [i \in 1..0 |-> Blank]]

Copied == IF wire.kind = "audio" THEN 0 ELSE wire.plen

PayloadAt(r) == [active |-> TRUE, total |-> wire.len, received |-> r, headerLen |-> HeaderLen,
                 parsed |-> TRUE, head |-> wire, payloadReceived |-> r - HeaderLen,
                 buf |-> Filled(wire, Copied, r - HeaderLen)]

BinAt(r) == IF r < HeaderLen THEN HeaderAt(r) ELSE PayloadAt(r)

TextOfWire == \E r \in 1..at : text = TextAt(r)
BinOfWire == \E r \in 1..at : bin = BinAt(r) /\ (HeaderLen <= r => HeaderGood)

TextBelongs == \/ ~text.active
               \/ wire.op = "text" /\ TextOfWire
               \/ lost > 0 /\ (at = 0 \/ wire.op # "text")

BinBelongs == \/ ~bin.active
              \/ wire.op = "binary" /\ BinOfWire
              \/ lost > 0 /\ (at = 0 \/ wire.op # "binary")
              \/ bin.received = bin.total

\* A frame whose events all arrived and found memory is not abandoned.
Kept == at > 0 /\ ~spoiled /\ Deliverable(wire) => OnItsWay

Contents == UNION {[1..n -> (0..MaxFrames) \X (0..MaxLen)] : n \in 0..MaxLen}
LogEntry == [what : Channel!Kinds \union {"text", "end"}, content : Contents]
Logged == log \in Seq(LogEntry)

Inv == TypeOK /\ Logged /\ TextBelongs /\ BinBelongs /\ Kept

-----------------------------------------------------------------------------
(* Frames and what is filled from them. *)

\* What a frame is: the fields the handler looks at and their ranges.
LEMMA FrameFacts ==
    ASSUME NEW i \in Nat, NEW f \in Frame(i)
    PROVE  /\ f.id = i /\ f.op \in {"text", "cont", "binary"}
           /\ f.len \in 1..MaxLen /\ f.plen \in 0..MaxLen
           /\ f.magic \in BOOLEAN /\ f.last \in BOOLEAN /\ f.kind \in Channel!Kinds
           /\ f # NoFrame
<1>1. CASE f \in Channel!TextFrame(i)
  <2>1. 0 \in 0..MaxLen
    BY LengthsAssumption
  <2>2. /\ f.id = i /\ f.op \in {"text", "cont"} /\ f.len \in 1..MaxLen /\ f.plen = 0
        /\ f.magic = FALSE /\ f.last = FALSE /\ f.kind = "other"
    BY <1>1 DEF Channel!TextFrame
  <2>3. NoFrame.op = "none"
    BY DEF NoFrame
  <2>4. f.magic \in BOOLEAN /\ f.last \in BOOLEAN
    BY <2>2, Zenon
  <2> QED
    BY <2>1, <2>2, <2>3, <2>4 DEF Channel!Kinds
<1>2. CASE f \in Channel!BinaryFrame(i)
  BY <1>2 DEF Channel!BinaryFrame, NoFrame
<1> QED
  BY <1>1, <1>2 DEF Frame, Channel!Frame

\* An event has a frame, and a piece of it that is not empty.
LEMMA EventFacts ==
    ASSUME TypeOK, NEW n \in Pieces
    PROVE  /\ wire \in Frame(begun) /\ wire # NoFrame
           /\ begun \in 0..MaxFrames /\ wire.id = begun
           /\ wire.op \in {"text", "cont", "binary"}
           /\ wire.len \in 1..MaxLen /\ wire.plen \in 0..MaxLen
           /\ wire.magic \in BOOLEAN /\ wire.last \in BOOLEAN /\ wire.kind \in Channel!Kinds
           /\ n \in Nat \ {0} /\ at \in Nat /\ at < wire.len /\ at + n <= wire.len
           /\ HeaderLen \in Nat \ {0} /\ MaxLen \in Nat
<1>1. n \in Nat \ {0} /\ at + n <= wire.len /\ at \in Nat
  BY LengthsAssumption DEF Pieces, TypeOK
<1>2. wire # NoFrame
  BY <1>1 DEF NoFrame
<1>3. wire \in Frame(begun) /\ begun \in 0..MaxFrames /\ begun \in Nat /\ at < wire.len
  BY <1>2, LengthsAssumption DEF TypeOK
<1> QED
  BY <1>1, <1>2, <1>3, FrameFacts, LengthsAssumption

\* Copying the next k units behind the first p gives the first p + k.
LEMMA FillFilled ==
    ASSUME NEW m \in Nat, NEW p \in Nat, NEW k \in Nat
    PROVE  Fill(Filled(wire, m, p), p, k, p) = Filled(wire, m, p + k)
<1> DEFINE old == Filled(wire, m, p)
           new == Filled(wire, m, p + k)
<1>1. DOMAIN old = 1..m
  BY DEF Filled
<1>2. ASSUME NEW i \in 1..m
      PROVE  (IF p < i /\ i <= p + k THEN Unit(wire, i - p + p) ELSE old[i])
             = (IF i <= p + k THEN Unit(wire, i) ELSE Blank)
  <2>1. i - p + p = i
    OBVIOUS
  <2>2. old[i] = IF i <= p THEN Unit(wire, i) ELSE Blank
    BY DEF Filled
  <2> QED
    BY <2>1, <2>2
<1> HIDE DEF old
<1>3. Fill(old, p, k, p) = [i \in 1..m |-> IF i <= p + k THEN Unit(wire, i) ELSE Blank]
  BY <1>1, <1>2 DEF Fill
<1> QED
  BY <1>3 DEF Filled, old

\* Nothing filled, and everything.
LEMMA FilledEnds ==
    ASSUME NEW f, NEW m \in Nat
    PROVE  /\ Filled(f, m, 0) = [i \in 1..m |-> Blank]
           /\ Filled(f, m, m) = Channel!Piece(f, 0, m)
<1>1. \A i \in 1..m : ~(i <= 0) /\ i <= m /\ 0 + i = i
  OBVIOUS
<1>2. Filled(f, m, m) = [i \in 1..m |-> Unit(f, 0 + i)]
  BY <1>1 DEF Filled
<1>3. Unit(f, 0) = Channel!Unit(f, 0)
  BY DEF Unit
<1> QED
  BY <1>1, <1>2 DEF Filled, Channel!Piece, Unit

LEMMA UnitTyped ==
    ASSUME NEW f, f.id \in 0..MaxFrames, NEW j \in 0..MaxLen
    PROVE  Unit(f, j) \in (0..MaxFrames) \X (0..MaxLen)
BY DEF Unit, Channel!Unit

LEMMA FilledTyped ==
    ASSUME NEW f, f.id \in 0..MaxFrames, NEW m \in 0..MaxLen, NEW k \in Nat
    PROVE  /\ Filled(f, m, k) \in [1..m -> (0..MaxFrames) \X (0..MaxLen)]
           /\ Filled(f, m, k) \in Contents
           /\ IsContent(Filled(f, m, k))
<1>1. ASSUME NEW i \in 1..m
      PROVE  (IF i <= k THEN Unit(f, i) ELSE Blank) \in (0..MaxFrames) \X (0..MaxLen)
  <2>1. i \in 0..MaxLen
    BY LengthsAssumption
  <2>2. Blank \in (0..MaxFrames) \X (0..MaxLen)
    BY LengthsAssumption DEF Blank
  <2> QED
    BY <2>1, <2>2, UnitTyped
<1>2. Filled(f, m, k) \in [1..m -> (0..MaxFrames) \X (0..MaxLen)]
  BY <1>1 DEF Filled
<1> QED
  BY <1>2 DEF Contents, IsContent

\* The empty buffer is content too.
LEMMA EmptyContent ==
    /\ IsContent([i \in 1..0 |-> Blank])
    /\ \A f : Channel!Piece(f, 0, 0) = [i \in 1..0 |-> Blank]
    /\ 0 \in 0..MaxLen
<1>1. 0 \in 0..MaxLen
  BY LengthsAssumption
<1>2. [i \in 1..0 |-> Blank] \in [1..0 -> (0..MaxFrames) \X (0..MaxLen)]
  OBVIOUS
<1>3. ASSUME NEW f PROVE Channel!Piece(f, 0, 0) = [i \in 1..0 |-> Blank]
  BY DEF Channel!Piece
<1> QED
  BY <1>1, <1>2, <1>3 DEF IsContent

\* What is played of a frame is content, and its units are those copied.
LEMMA PieceTyped ==
    ASSUME NEW f, f.id \in 0..MaxFrames, NEW from \in Nat, NEW n \in Nat, from + n <= MaxLen
    PROVE  Channel!Piece(f, from, n) \in Contents
<1>1. ASSUME NEW i \in 1..n PROVE Channel!Unit(f, from + i) \in (0..MaxFrames) \X (0..MaxLen)
  <2>1. from + i \in 0..MaxLen
    BY LengthsAssumption
  <2> QED
    BY <2>1, UnitTyped DEF Unit
<1>2. Channel!Piece(f, from, n) \in [1..n -> (0..MaxFrames) \X (0..MaxLen)]
  BY <1>1 DEF Channel!Piece
<1>3. n \in 0..MaxLen
  BY LengthsAssumption
<1> QED
  BY <1>2, <1>3 DEF Contents

-----------------------------------------------------------------------------
(* Whatever continues an assembly continues its own frame. *)

LEMMA TextContinuing ==
    ASSUME TypeOK, TextBelongs, NEW n \in Pieces, wire.op = "text", TextContinues(n)
    PROVE  /\ TextStarted = TextAt(at)
           /\ at > 0 => TextCurrent
           /\ Fill(TextStarted.buf, at, n, at) = Filled(wire, wire.len, at + n)
           /\ \A next : next = [TextStarted EXCEPT !.received = at + n,
                                                 !.buf = Fill(TextStarted.buf, at, n, at)]
                       => next = TextAt(at + n)
<1>1. wire.len \in Nat /\ at \in Nat /\ n \in Nat
  BY EventFacts
<1>2. TextStarted = TextAt(at)
  <2>1. CASE at = 0
    <3>1. Filled(wire, wire.len, 0) = [i \in 1..wire.len |-> Blank]
      BY <1>1, FilledEnds
    <3>2. TextStarted = [active |-> TRUE, total |-> wire.len, received |-> 0,
                         buf |-> [i \in 1..wire.len |-> Blank]]
      BY <2>1 DEF TextStarted
    <3> QED
      BY <2>1, <3>1, <3>2 DEF TextAt
  <2>2. CASE at > 0
    <3>1. TextStarted = text /\ text.active /\ text.received = at
      BY <2>2 DEF TextStarted, TextContinues
    <3>2. lost > 0 /\ (at = 0 \/ wire.op # "text") => FALSE
      BY <2>2
    <3>3. TextOfWire
      BY <3>1, <3>2 DEF TextBelongs
    <3>4. PICK r \in 1..at : text = TextAt(r)
      BY <3>3 DEF TextOfWire
    <3>5. TextAt(r).received = r
      BY DEF TextAt
    <3> QED
      BY <3>1, <3>4, <3>5
  <2> QED
    BY <2>1, <2>2, <1>1
<1>3. at > 0 => TextCurrent
  BY <1>1 DEF TextStarted, TextContinues, TextCurrent
<1>4. Fill(TextStarted.buf, at, n, at) = Filled(wire, wire.len, at + n)
  BY <1>1, <1>2, FillFilled DEF TextAt
<1>5. TextStarted = [active |-> TRUE, total |-> wire.len, received |-> at,
                     buf |-> Filled(wire, wire.len, at)]
  BY <1>2 DEF TextAt
<1>6. ASSUME NEW next, next = [TextStarted EXCEPT !.received = at + n,
                                                  !.buf = Filled(wire, wire.len, at + n)]
      PROVE  next = [active |-> TRUE, total |-> wire.len, received |-> at + n,
                     buf |-> Filled(wire, wire.len, at + n)]
  BY <1>5, <1>6
<1> QED
  BY <1>2, <1>3, <1>4, <1>6 DEF TextAt

LEMMA BinContinuing ==
    ASSUME TypeOK, BinBelongs, NEW n \in Pieces, wire.op = "binary", BinContinues(n)
    PROVE  /\ BinStarted = BinAt(at)
           /\ HeaderLen <= at => HeaderGood
           /\ at > 0 => BinCurrent
<1>1. wire.len \in Nat /\ at \in Nat /\ at < wire.len /\ HeaderLen \in Nat \ {0}
  BY EventFacts
<1>2. CASE at = 0
  <2>1. BinStarted = HeaderAt(0)
    <3>1. BinStarted = [NoBin EXCEPT !.active = TRUE, !.total = wire.len]
      BY <1>2 DEF BinStarted
    <3>2. NoBin = [active |-> FALSE, total |-> 0, received |-> 0, headerLen |-> 0,
                   parsed |-> FALSE, head |-> NoFrame, payloadReceived |-> 0,
                   buf |-> [i \in 1..0 |-> Blank]]
      BY DEF NoBin
    <3> QED
      BY <3>1, <3>2 DEF HeaderAt
  <2>2. ~(HeaderLen <= at) /\ ~(at > 0) /\ BinAt(0) = HeaderAt(0)
    BY <1>1, <1>2 DEF BinAt
  <2> QED
    BY <1>2, <2>1, <2>2
<1>3. CASE at > 0
  <2>1. BinStarted = bin /\ bin.active /\ bin.received = at /\ bin.total = wire.len
    BY <1>3 DEF BinStarted, BinContinues
  <2>2. BinOfWire
    BY <2>1, <1>1, <1>3 DEF BinBelongs
  <2>3. PICK r \in 1..at : bin = BinAt(r) /\ (HeaderLen <= r => HeaderGood)
    BY <2>2 DEF BinOfWire
  <2>4. BinAt(r).received = r
    BY DEF BinAt, HeaderAt, PayloadAt
  <2> QED
    BY <2>1, <2>3, <2>4 DEF BinCurrent
<1> QED
  BY <1>1, <1>2, <1>3

\* How much of the payload has been heard of, at units into the frame.
Heard == IF at < HeaderLen THEN 0 ELSE at - HeaderLen

LEMMA BinAccepted ==
    ASSUME TypeOK, BinBelongs, NEW n \in Pieces, wire.op = "binary", ~BinaryRejected(n)
    PROVE  /\ BinStarted = BinAt(at) /\ (at > 0 => BinCurrent)
           /\ BinStarted.payloadReceived = Heard /\ Heard \in Nat
           /\ HeaderDone(n) <=> HeaderLen <= at + n
           /\ ~HeaderDone(n) => ForHeader(n) = n
           /\ HeaderDone(n) =>
                /\ HeaderGood /\ Header = wire
                /\ PayloadFrom(n) = Heard
                /\ ForPayload(n) \in Nat /\ Heard + ForPayload(n) = (at + n) - HeaderLen
                /\ BinBuffer = Filled(wire, Copied, Heard)
<1>1. /\ wire.len \in Nat /\ at \in Nat /\ n \in Nat \ {0} /\ HeaderLen \in Nat \ {0}
      /\ wire.plen \in Nat
  BY EventFacts
<1>2. BinStarted = BinAt(at) /\ (HeaderLen <= at => HeaderGood) /\ (at > 0 => BinCurrent)
  BY BinContinuing DEF BinaryRejected
<1>3. CASE at < HeaderLen
  <2>1. BinStarted = HeaderAt(at)
    BY <1>2, <1>3 DEF BinAt
  <2>2. /\ ~BinStarted.parsed /\ BinStarted.headerLen = at /\ BinStarted.payloadReceived = 0
        /\ Heard = 0
    BY <2>1, <1>3 DEF HeaderAt, Heard
  <2>3. Header = wire
    BY <2>2 DEF Header
  <2>4. ForHeader(n) = IF n < HeaderLen - at THEN n ELSE HeaderLen - at
    BY <2>2 DEF ForHeader
  <2>5. HeaderDone(n) <=> HeaderLen <= at + n
    BY <2>2, <2>4, <1>1, <1>3 DEF HeaderDone
  <2>6. HeaderDone(n) => HeaderGood
    BY <2>2 DEF BinaryRejected
  <2>7. HeaderDone(n) => ForHeader(n) = HeaderLen - at
    BY <2>4, <2>5, <1>1, <1>3
  <2>8. HeaderDone(n) => ForPayload(n) = (at + n) - HeaderLen /\ PayloadFrom(n) = 0
    BY <2>7, <1>1, <1>3 DEF ForPayload, PayloadFrom
  <2>9. (IF NeedsMemory THEN Header.plen ELSE 0) = Copied
    BY <2>3, <1>1 DEF NeedsMemory, Copied
  <2>10. Copied \in Nat
    BY <1>1 DEF Copied
  <2>11. BinBuffer = Filled(wire, Copied, Heard)
    BY <2>2, <2>9, <2>10, FilledEnds DEF BinBuffer
  <2>12. ~HeaderDone(n) => ForHeader(n) = n
    BY <2>4, <2>5, <1>1, <1>3
  <2> QED
    BY <1>1, <1>2, <2>2, <2>3, <2>5, <2>6, <2>8, <2>11, <2>12
<1>4. CASE HeaderLen <= at
  <2>1. BinStarted = PayloadAt(at)
    BY <1>1, <1>2, <1>4 DEF BinAt
  <2>2. /\ BinStarted.parsed /\ BinStarted.headerLen = HeaderLen /\ BinStarted.head = wire
        /\ BinStarted.payloadReceived = at - HeaderLen
        /\ BinStarted.buf = Filled(wire, Copied, at - HeaderLen)
    BY <2>1 DEF PayloadAt
  <2>3. Heard = at - HeaderLen
    BY <1>1, <1>4 DEF Heard
  <2>4. Header = wire /\ ForHeader(n) = 0
    BY <2>2 DEF Header, ForHeader
  <2>5. HeaderDone(n) /\ ForPayload(n) = n /\ PayloadFrom(n) = at - HeaderLen
    BY <2>2, <2>4, <1>1 DEF HeaderDone, ForPayload, PayloadFrom
  <2>6. BinBuffer = Filled(wire, Copied, Heard)
    BY <2>2, <2>3 DEF BinBuffer
  <2> QED
    BY <1>1, <1>2, <1>4, <2>2, <2>3, <2>4, <2>5, <2>6
<1> QED
  BY <1>1, <1>3, <1>4

-----------------------------------------------------------------------------
(* What an event can do to the assemblies. *)

LEMMA Advances ==
    ASSUME TypeOK, NEW n \in Pieces, Advance(n)
    PROVE  /\ Final(n) => at' = 0 /\ wire' = NoFrame
           /\ ~Final(n) => at' = at + n /\ wire' = wire /\ at' > 0 /\ at' < wire.len
BY EventFacts DEF Advance, Final

LEMMA TextMoves ==
    ASSUME TypeOK, TextBelongs, NEW n \in Pieces, DataEvent(n)
    PROVE  \/ text' = text /\ (wire.op # "text" \/ Whole(n) \/ LoseEvent(n))
           \/ text' = NoText
           \/ wire.op = "text" /\ ~Final(n) /\ text' = TextAt(at + n)
<1>1. CASE LoseEvent(n)
  BY <1>1 DEF LoseEvent
<1>2. CASE IgnoreEvent(n)
  BY <1>2 DEF IgnoreEvent
<1>3. CASE BinaryEvent(n)
  BY <1>3 DEF BinaryEvent, BinaryBad, BinaryWhole, BinaryDrop, BinaryNoMemory, BinaryHeader,
              BinaryPiece
<1>4. CASE TextNoMemory(n)
  BY <1>4 DEF TextNoMemory
<1>5. CASE TextWhole(n)
  BY <1>5 DEF TextWhole
<1>6. CASE TextDrop(n)
  BY <1>6 DEF TextDrop
<1>7. CASE TextPiece(n)
  <2>1. CASE Final(n)
    BY <1>7, <2>1 DEF TextPiece
  <2>2. CASE ~Final(n)
    <3>1. /\ wire.op = "text" /\ TextContinues(n)
          /\ text' = [TextStarted EXCEPT !.received = at + n,
                                         !.buf = Fill(TextStarted.buf, at, n, at)]
      BY <1>7, <2>2 DEF TextPiece
    <3> QED
      BY <2>2, <3>1, TextContinuing
  <2> QED
    BY <2>1, <2>2
<1> QED
  BY <1>1, <1>2, <1>3, <1>4, <1>5, <1>6, <1>7 DEF DataEvent, TextEvent

LEMMA HeaderMoves ==
    ASSUME TypeOK, BinBelongs, NEW n \in Pieces, BinaryHeader(n)
    PROVE  wire.op = "binary" /\ at + n < HeaderLen /\ bin' = HeaderAt(at + n)
<1>1. /\ wire.op = "binary" /\ ~BinaryRejected(n) /\ ~HeaderDone(n)
      /\ bin' = [BinStarted EXCEPT !.received = at + n, !.headerLen = @ + ForHeader(n)]
  BY DEF BinaryHeader
<1>2. /\ BinStarted = BinAt(at) /\ ForHeader(n) = n /\ ~(HeaderLen <= at + n)
      /\ at \in Nat /\ n \in Nat \ {0} /\ HeaderLen \in Nat
  BY <1>1, BinAccepted, EventFacts
<1>3. at + n < HeaderLen /\ at < HeaderLen
  BY <1>2
<1>4. BinStarted = [active |-> TRUE, total |-> wire.len, received |-> at, headerLen |-> at,
                    parsed |-> FALSE, head |-> NoFrame, payloadReceived |-> 0,
                    buf |-> [i \in 1..0 |-> Blank]]
  BY <1>2, <1>3 DEF BinAt, HeaderAt
<1>5. bin' = [BinStarted EXCEPT !.received = at + n, !.headerLen = @ + n]
  BY <1>1, <1>2
<1>6. bin' = HeaderAt(at + n)
  BY <1>4, <1>5 DEF HeaderAt
<1> QED
  BY <1>1, <1>3, <1>6

LEMMA PayloadMoves ==
    ASSUME TypeOK, BinBelongs, NEW n \in Pieces, BinaryPiece(n)
    PROVE  /\ wire.op = "binary" /\ HeaderLen <= at + n /\ HeaderGood
           /\ Fill(BinBuffer, BinStarted.payloadReceived, ForPayload(n), PayloadFrom(n))
              = Filled(wire, Copied, (at + n) - HeaderLen)
           /\ ~Final(n) => bin' = PayloadAt(at + n)
           /\ Final(n) => bin' = NoBin
<1> DEFINE k == ForPayload(n)
           next == Fill(BinBuffer, BinStarted.payloadReceived, k, PayloadFrom(n))
<1>1. wire.op = "binary" /\ ~BinaryRejected(n) /\ HeaderDone(n)
  BY DEF BinaryPiece
<1>2. /\ ~Final(n) => bin' = [BinStarted EXCEPT !.received = at + n, !.headerLen = HeaderLen,
                                !.parsed = TRUE, !.head = Header,
                                !.payloadReceived = @ + k, !.buf = next]
      /\ Final(n) => bin' = NoBin
  BY DEF BinaryPiece
<1>3. /\ BinStarted = BinAt(at) /\ BinStarted.payloadReceived = Heard /\ Heard \in Nat
      /\ HeaderLen <= at + n /\ HeaderGood /\ Header = wire /\ PayloadFrom(n) = Heard
      /\ k \in Nat /\ Heard + k = (at + n) - HeaderLen
      /\ BinBuffer = Filled(wire, Copied, Heard)
  BY <1>1, BinAccepted
<1>4. Copied \in Nat
  BY EventFacts DEF Copied
<1>5. next = Filled(wire, Copied, (at + n) - HeaderLen)
  BY <1>3, <1>4, FillFilled
<1> HIDE DEF k, next
<1>6. PICK len, parsed, head, buf :
        BinStarted = [active |-> TRUE, total |-> wire.len, received |-> at, headerLen |-> len,
                      parsed |-> parsed, head |-> head, payloadReceived |-> Heard, buf |-> buf]
  BY <1>3 DEF BinAt, HeaderAt, PayloadAt, Heard
<1>7. ASSUME ~Final(n) PROVE bin' = PayloadAt(at + n)
  <2>1. bin' = [BinStarted EXCEPT !.received = at + n, !.headerLen = HeaderLen,
                  !.parsed = TRUE, !.head = wire, !.payloadReceived = @ + k, !.buf = next]
    BY <1>2, <1>3, <1>7
  <2>2. bin' = [active |-> TRUE, total |-> wire.len, received |-> at + n,
                headerLen |-> HeaderLen, parsed |-> TRUE, head |-> wire,
                payloadReceived |-> Heard + k, buf |-> next]
    BY <1>6, <2>1
  <2>3. Heard + k = (at + n) - HeaderLen
    BY <1>3
  <2> QED
    BY <2>2, <2>3, <1>5, Zenon DEF PayloadAt
<1> QED
  BY <1>1, <1>2, <1>3, <1>5, <1>7 DEF next, k

LEMMA BinMoves ==
    ASSUME TypeOK, BinBelongs, NEW n \in Pieces, DataEvent(n)
    PROVE  \/ bin' = bin /\ (wire.op # "binary" \/ Whole(n) \/ LoseEvent(n))
           \/ bin' = NoBin
           \/ wire.op = "binary" /\ bin' = HeaderAt(at + n) /\ at + n < HeaderLen
           \/ /\ wire.op = "binary" /\ bin' = PayloadAt(at + n) /\ HeaderLen <= at + n
              /\ HeaderGood /\ ~Final(n)
<1>1. CASE LoseEvent(n)
  BY <1>1 DEF LoseEvent
<1>2. CASE IgnoreEvent(n)
  BY <1>2 DEF IgnoreEvent
<1>3. CASE TextEvent(n)
  BY <1>3 DEF TextEvent, TextNoMemory, TextWhole, TextDrop, TextPiece
<1>4. CASE BinaryBad(n) \/ BinaryWhole(n)
  BY <1>4 DEF BinaryBad, BinaryWhole
<1>5. CASE BinaryDrop(n) \/ BinaryNoMemory(n)
  BY <1>5 DEF BinaryDrop, BinaryNoMemory
<1>6. CASE BinaryHeader(n)
  BY <1>6, HeaderMoves
<1>7. CASE BinaryPiece(n)
  BY <1>7, PayloadMoves
<1> QED
  BY <1>1, <1>2, <1>3, <1>4, <1>5, <1>6, <1>7 DEF DataEvent, BinaryEvent

\* Everything else an event may touch.
LEMMA EventMoves ==
    ASSUME NEW n \in Pieces, DataEvent(n)
    PROVE  /\ Advance(n) /\ begun' = begun /\ link' = link
           /\ lost' = lost \/ (LoseEvent(n) /\ lost < MaxLost /\ lost' = lost + 1)
           /\ LoseEvent(n) => lost < MaxLost /\ lost' = lost + 1
           /\ spoiled' \in BOOLEAN
<1>0. LoseEvent(n) => lost < MaxLost /\ lost' = lost + 1
  BY DEF LoseEvent
<1>1. CASE LoseEvent(n)
  BY <1>1 DEF LoseEvent, Spoil
<1>2. CASE IgnoreEvent(n)
  BY <1>0, <1>2 DEF IgnoreEvent, Quiet
<1>3. CASE TextEvent(n)
  BY <1>0, <1>3, Zenon DEF TextEvent, TextNoMemory, TextWhole, TextDrop, TextPiece, Quiet, Spoil
<1>4. CASE BinaryEvent(n)
  <2>1. Advance(n) /\ Quiet
    BY <1>4 DEF BinaryEvent, BinaryBad, BinaryWhole, BinaryDrop, BinaryNoMemory, BinaryHeader,
                BinaryPiece
  <2>2. CASE BinaryBad(n) \/ BinaryWhole(n)
    BY <1>0, <2>1, <2>2, Zenon DEF BinaryBad, BinaryWhole, Quiet
  <2>3. CASE BinaryDrop(n)
    BY <1>0, <2>1, <2>3, Zenon DEF BinaryDrop, Quiet
  <2>4. CASE BinaryNoMemory(n)
    <3>1. spoiled' = ~Final(n)
      BY <2>4 DEF BinaryNoMemory, Spoil
    <3> QED
      BY <1>0, <2>1, <3>1, Zenon DEF Quiet
  <2>5. CASE BinaryHeader(n) \/ BinaryPiece(n)
    <3>1. spoiled' = (spoiled /\ ~Final(n))
      BY <2>5, Zenon DEF BinaryHeader, BinaryPiece
    <3> QED
      BY <1>0, <2>1, <3>1, Zenon DEF Quiet
  <2> QED
    BY <1>4, <2>2, <2>3, <2>4, <2>5 DEF BinaryEvent
<1> QED
  BY <1>1, <1>2, <1>3, <1>4 DEF DataEvent

-----------------------------------------------------------------------------
(* The invariant is inductive. *)

TextTyped == /\ text.active \in BOOLEAN /\ text.total \in 0..MaxLen
             /\ text.received \in 0..text.total /\ IsContent(text.buf)
             /\ DOMAIN text.buf = 1..text.total
BinTyped == /\ bin.active \in BOOLEAN /\ bin.total \in 0..MaxLen
            /\ bin.received \in 0..bin.total /\ IsContent(bin.buf)
            /\ bin.headerLen \in 0..HeaderLen /\ bin.payloadReceived \in 0..MaxLen
            /\ bin.parsed \in BOOLEAN
FlagsTyped == link \in BOOLEAN /\ spoiled \in BOOLEAN
WireTyped == /\ begun \in 0..MaxFrames /\ lost \in 0..MaxLost
             /\ wire = NoFrame \/ wire \in Frame(begun)
             /\ at \in Nat /\ (wire = NoFrame => at = 0) /\ (wire # NoFrame => at < wire.len)

LEMMA TypeParts == TypeOK <=> FlagsTyped /\ WireTyped /\ TextTyped /\ BinTyped
BY Zenon DEF TypeOK, FlagsTyped, WireTyped, TextTyped, BinTyped

LEMMA TypePartsNext == TypeOK' <=> FlagsTyped' /\ WireTyped' /\ TextTyped' /\ BinTyped'
BY Zenon DEF TypeOK, FlagsTyped, WireTyped, TextTyped, BinTyped

\* The blank assemblies are of their types.
LEMMA BlanksTyped ==
    /\ text = NoText => TextTyped /\ ~text.active
    /\ bin = NoBin => BinTyped /\ ~bin.active
<1>1. HeaderLen \in Nat /\ 0 \in 0..MaxLen
  BY LengthsAssumption
<1>2. ASSUME text = NoText PROVE TextTyped /\ ~text.active
  BY <1>1, <1>2, EmptyContent DEF TextTyped, NoText
<1>3. ASSUME bin = NoBin PROVE BinTyped /\ ~bin.active
  BY <1>1, <1>3, EmptyContent DEF BinTyped, NoBin
<1> QED
  BY <1>2, <1>3

LEMMA BlanksTypedNext ==
    /\ text' = NoText => TextTyped' /\ ~text.active'
    /\ bin' = NoBin => BinTyped' /\ ~bin.active'
<1>1. HeaderLen \in Nat /\ 0 \in 0..MaxLen
  BY LengthsAssumption
<1>2. ASSUME text' = NoText PROVE TextTyped' /\ ~text.active'
  BY <1>1, <1>2, EmptyContent DEF TextTyped, NoText
<1>3. ASSUME bin' = NoBin PROVE BinTyped' /\ ~bin.active'
  BY <1>1, <1>3, EmptyContent DEF BinTyped, NoBin
<1> QED
  BY <1>2, <1>3

LEMMA AssembliesTyped ==
    ASSUME TypeOK, NEW n \in Pieces
    PROVE  /\ text' = TextAt(at + n) => TextTyped'
           /\ bin' = HeaderAt(at + n) /\ at + n < HeaderLen => BinTyped'
           /\ bin' = PayloadAt(at + n) /\ HeaderLen <= at + n => BinTyped'
<1>1. /\ wire.id \in 0..MaxFrames /\ wire.len \in 0..MaxLen /\ wire.plen \in 0..MaxLen
      /\ at \in Nat /\ n \in Nat /\ at + n <= wire.len
      /\ HeaderLen \in Nat /\ MaxLen \in Nat
  BY EventFacts
<1>2. ASSUME text' = TextAt(at + n) PROVE TextTyped'
  <2>1. /\ IsContent(Filled(wire, wire.len, at + n))
        /\ DOMAIN Filled(wire, wire.len, at + n) = 1..wire.len
    BY <1>1, FilledTyped DEF Filled
  <2> QED
    BY <1>1, <1>2, <2>1 DEF TextTyped, TextAt
<1>3. ASSUME bin' = HeaderAt(at + n), at + n < HeaderLen PROVE BinTyped'
  BY <1>1, <1>3, EmptyContent DEF BinTyped, HeaderAt
<1>4. ASSUME bin' = PayloadAt(at + n), HeaderLen <= at + n PROVE BinTyped'
  <2>1. Copied \in 0..MaxLen /\ (at + n) - HeaderLen \in 0..MaxLen
    BY <1>1, <1>4 DEF Copied
  <2>2. IsContent(Filled(wire, Copied, (at + n) - HeaderLen))
    BY <1>1, <2>1, FilledTyped
  <2> QED
    BY <1>1, <1>4, <2>1, <2>2 DEF BinTyped, PayloadAt
<1> QED
  BY <1>2, <1>3, <1>4

LEMMA EventType ==
    ASSUME TypeOK, TextBelongs, BinBelongs, NEW n \in Pieces, DataEvent(n)
    PROVE  TypeOK'
<1>1. WireTyped /\ TextTyped /\ BinTyped /\ FlagsTyped
  BY TypeParts
<1>2. WireTyped'
  <2>1. lost' \in 0..MaxLost
    BY <1>1, LossAssumption, EventMoves DEF WireTyped
  <2>2. begun' = begun /\ Advance(n)
    BY EventMoves
  <2>3. CASE Final(n)
    <3>1. at' = 0 /\ wire' = NoFrame
      BY <2>2, <2>3, Advances
    <3> QED
      BY <1>1, <2>1, <2>2, <3>1 DEF WireTyped
  <2>4. CASE ~Final(n)
    <3>1. at' = at + n /\ wire' = wire /\ at' < wire.len /\ at \in Nat /\ n \in Nat
          /\ wire # NoFrame
      BY <2>2, <2>4, Advances, EventFacts
    <3> QED
      BY <1>1, <2>1, <2>2, <3>1 DEF WireTyped
  <2> QED
    BY <2>3, <2>4
<1>3. TextTyped'
  <2>1. text' = text => TextTyped'
    BY <1>1 DEF TextTyped
  <2> QED
    BY <2>1, TextMoves, BlanksTypedNext, AssembliesTyped
<1>4. BinTyped'
  <2>1. bin' = bin => BinTyped'
    BY <1>1 DEF BinTyped
  <2> QED
    BY <2>1, BinMoves, BlanksTypedNext, AssembliesTyped
<1>5. FlagsTyped'
  BY <1>1, EventMoves, Zenon DEF FlagsTyped
<1> QED
  BY <1>2, <1>3, <1>4, <1>5, TypePartsNext

\* While the frame stays, so do the assemblies it would fill.
LEMMA SameFrame ==
    ASSUME NEW r, wire' = wire
    PROVE  /\ TextAt(r)' = TextAt(r)
           /\ HeaderAt(r)' = HeaderAt(r)
           /\ PayloadAt(r)' = PayloadAt(r)
           /\ HeaderGood' = HeaderGood
BY DEF TextAt, HeaderAt, PayloadAt, Copied, HeaderGood, Filled, Unit, Channel!Unit

LEMMA EventText ==
    ASSUME TypeOK, TextBelongs, NEW n \in Pieces, DataEvent(n)
    PROVE  TextBelongs'
<1>1. /\ at \in Nat /\ n \in Nat \ {0} /\ lost \in Nat /\ MaxLost \in {0, 1}
      /\ wire.len \in Nat
  BY EventFacts, LossAssumption DEF TypeOK
<1>2. Advance(n) /\ (lost' = lost \/ lost' = lost + 1)
      /\ (LoseEvent(n) => lost = 0 /\ lost' = 1)
  BY EventMoves, <1>1
<1>3. CASE text' = NoText
  BY <1>3, BlanksTypedNext DEF TextBelongs
<1>4. CASE wire.op = "text" /\ ~Final(n) /\ text' = TextAt(at + n)
  <2>1. at' = at + n /\ wire' = wire
    BY <1>2, <1>4, Advances
  <2>2. PICK r \in Nat : r = at + n
    BY <1>1
  <2>3. text' = TextAt(r)' /\ r \in 1..at'
    BY <1>1, <1>4, <2>1, <2>2, SameFrame
  <2> QED
    BY <1>4, <2>1, <2>3 DEF TextBelongs, TextOfWire
<1>5. CASE text' = text /\ (wire.op # "text" \/ Whole(n) \/ LoseEvent(n))
  <2>1. CASE ~text.active
    BY <1>5, <2>1 DEF TextBelongs
  <2>2. CASE lost > 0 /\ (at = 0 \/ wire.op # "text")
    <3>1. lost' > 0 /\ ~LoseEvent(n)
      BY <1>1, <1>2, <2>2
    <3>2. CASE Final(n)
      BY <3>1, <3>2, <1>2, Advances DEF TextBelongs
    <3>3. CASE ~Final(n)
      <4>1. wire' = wire /\ wire.op # "text"
        BY <1>1, <1>2, <1>5, <2>2, <3>1, <3>3, Advances DEF Whole, Final
      <4> QED
        BY <3>1, <4>1 DEF TextBelongs
    <3> QED
      BY <3>2, <3>3
  <2>3. CASE wire.op = "text" /\ TextOfWire
    <3>1. PICK r \in 1..at : text = TextAt(r)
      BY <2>3 DEF TextOfWire
    <3>2. at > 0 /\ LoseEvent(n) /\ lost' > 0
      BY <1>1, <1>2, <1>5, <2>3, <3>1 DEF Whole
    <3>3. CASE Final(n)
      BY <3>2, <3>3, <1>2, Advances DEF TextBelongs
    <3>4. CASE ~Final(n)
      <4>1. wire' = wire /\ at' = at + n
        BY <1>2, <3>4, Advances
      <4>2. r \in 1..at' /\ TextAt(r)' = TextAt(r)
        BY <1>1, <4>1, SameFrame
      <4>3. text' = TextAt(r)'
        BY <1>5, <3>1, <4>2
      <4> QED
        BY <2>3, <4>1, <4>2, <4>3 DEF TextBelongs, TextOfWire
    <3> QED
      BY <3>3, <3>4
  <2> QED
    BY <2>1, <2>2, <2>3 DEF TextBelongs
<1> QED
  BY <1>3, <1>4, <1>5, TextMoves

LEMMA EventBin ==
    ASSUME TypeOK, BinBelongs, NEW n \in Pieces, DataEvent(n)
    PROVE  BinBelongs'
<1>1. /\ at \in Nat /\ n \in Nat \ {0} /\ lost \in Nat /\ MaxLost \in {0, 1}
      /\ wire.len \in Nat /\ HeaderLen \in Nat
  BY EventFacts, LossAssumption DEF TypeOK
<1>2. Advance(n) /\ (lost' = lost \/ lost' = lost + 1)
      /\ (LoseEvent(n) => lost = 0 /\ lost' = 1)
  BY EventMoves, <1>1
<1>3. CASE bin' = NoBin
  BY <1>3, BlanksTypedNext DEF BinBelongs
<1>4. CASE /\ wire.op = "binary"
           /\ \/ bin' = HeaderAt(at + n) /\ at + n < HeaderLen
              \/ bin' = PayloadAt(at + n) /\ HeaderLen <= at + n /\ HeaderGood /\ ~Final(n)
  <2>1. CASE Final(n)
    <3>1. bin'.received = at + n /\ bin'.total = wire.len
      BY <1>4, <2>1 DEF HeaderAt
    <3> QED
      BY <2>1, <3>1 DEF BinBelongs, Final
  <2>2. CASE ~Final(n)
    <3>1. at' = at + n /\ wire' = wire
      BY <1>2, <2>2, Advances
    <3>2. PICK r \in Nat : r = at + n
      BY <1>1
    <3>3. r \in 1..at'
      BY <1>1, <3>1, <3>2
    <3>4. bin' = BinAt(r)' /\ (HeaderLen <= r => HeaderGood')
      BY <1>1, <1>4, <3>1, <3>2, SameFrame DEF BinAt
    <3> QED
      BY <1>4, <3>1, <3>3, <3>4 DEF BinBelongs, BinOfWire
  <2> QED
    BY <2>1, <2>2
<1>5. CASE bin' = bin /\ (wire.op # "binary" \/ Whole(n) \/ LoseEvent(n))
  <2>1. CASE ~bin.active \/ bin.received = bin.total
    BY <1>5, <2>1 DEF BinBelongs
  <2>2. CASE lost > 0 /\ (at = 0 \/ wire.op # "binary")
    <3>1. lost' > 0 /\ ~LoseEvent(n)
      BY <1>1, <1>2, <2>2
    <3>2. CASE Final(n)
      BY <3>1, <3>2, <1>2, Advances DEF BinBelongs
    <3>3. CASE ~Final(n)
      <4>1. wire' = wire /\ wire.op # "binary"
        BY <1>1, <1>2, <1>5, <2>2, <3>1, <3>3, Advances DEF Whole, Final
      <4> QED
        BY <3>1, <4>1 DEF BinBelongs
    <3> QED
      BY <3>2, <3>3
  <2>3. CASE wire.op = "binary" /\ BinOfWire
    <3>1. PICK r \in 1..at : bin = BinAt(r) /\ (HeaderLen <= r => HeaderGood)
      BY <2>3 DEF BinOfWire
    <3>2. at > 0 /\ LoseEvent(n) /\ lost' > 0
      BY <1>1, <1>2, <1>5, <2>3, <3>1 DEF Whole
    <3>3. CASE Final(n)
      BY <3>2, <3>3, <1>2, Advances DEF BinBelongs
    <3>4. CASE ~Final(n)
      <4>1. wire' = wire /\ at' = at + n
        BY <1>2, <3>4, Advances
      <4>2. r \in 1..at'
        BY <1>1, <4>1
      <4>3. bin' = BinAt(r)' /\ (HeaderLen <= r => HeaderGood')
        BY <1>5, <3>1, <4>1, SameFrame DEF BinAt
      <4> QED
        BY <2>3, <4>1, <4>2, <4>3 DEF BinBelongs, BinOfWire
    <3> QED
      BY <3>3, <3>4
  <2> QED
    BY <2>1, <2>2, <2>3 DEF BinBelongs
<1> QED
  BY <1>3, <1>4, <1>5, BinMoves

\* The next piece of a frame that is not spoiled is always accepted.
LEMMA Accepts ==
    ASSUME TypeOK, TextBelongs, BinBelongs, Kept, NEW n \in Pieces, ~spoiled, Deliverable(wire)
    PROVE  /\ wire.op = "text" => TextContinues(n)
           /\ wire.op = "binary" => ~BinaryRejected(n)
<1>1. /\ at \in Nat /\ n \in Nat \ {0} /\ wire.len \in Nat /\ wire.plen \in Nat
      /\ HeaderLen \in Nat \ {0} /\ at + n <= wire.len
  BY EventFacts
<1>2. ASSUME wire.op = "text" PROVE TextContinues(n)
  <2>1. CASE at = 0
    BY <1>1, <2>1 DEF TextContinues, TextStarted
  <2>2. CASE at > 0
    BY <1>1, <1>2, <2>2 DEF Kept, OnItsWay, TextCurrent, TextContinues, TextStarted
  <2> QED
    BY <1>1, <2>1, <2>2
<1>3. ASSUME wire.op = "binary" PROVE ~BinaryRejected(n)
  <2>1. BinContinues(n)
    <3>1. CASE at = 0
      <4>1. BinStarted = [NoBin EXCEPT !.active = TRUE, !.total = wire.len]
        BY <3>1, <1>1 DEF BinStarted
      <4>2. BinStarted.active /\ BinStarted.total = wire.len /\ BinStarted.received = 0
        BY <4>1 DEF NoBin
      <4> QED
        BY <1>1, <3>1, <4>2 DEF BinContinues
    <3>2. CASE at > 0
      BY <1>1, <1>3, <3>2 DEF Kept, OnItsWay, BinCurrent, BinContinues, BinStarted
    <3> QED
      BY <1>1, <3>1, <3>2
  <2>2. BinStarted = BinAt(at)
    BY <1>3, <2>1, BinContinuing
  <2>3. HeaderGood
    BY <1>3 DEF Deliverable, HeaderGood
  <2>4. CASE at < HeaderLen
    <3>1. /\ ~BinStarted.parsed /\ BinStarted.headerLen = at
          /\ BinStarted.payloadReceived = 0
      BY <2>2, <2>4 DEF BinAt, HeaderAt
    <3>2. Header = wire /\ ForHeader(n) = IF n < HeaderLen - at THEN n ELSE HeaderLen - at
      BY <3>1 DEF Header, ForHeader
    <3>3. HeaderDone(n) => ForPayload(n) = (at + n) - HeaderLen
      BY <1>1, <2>4, <3>1, <3>2 DEF HeaderDone, ForPayload
    <3> QED
      BY <1>1, <2>1, <2>3, <3>1, <3>2, <3>3 DEF BinaryRejected, HeaderGood
  <2>5. CASE HeaderLen <= at
    <3>1. /\ BinStarted.parsed /\ BinStarted.head = wire
          /\ BinStarted.payloadReceived = at - HeaderLen
      BY <1>1, <2>2, <2>5 DEF BinAt, PayloadAt
    <3>2. Header = wire /\ ForPayload(n) = n
      BY <1>1, <3>1 DEF Header, ForHeader, ForPayload
    <3> QED
      BY <1>1, <2>1, <2>3, <2>5, <3>1, <3>2 DEF BinaryRejected, HeaderGood
  <2> QED
    BY <1>1, <2>4, <2>5
<1> QED
  BY <1>2, <1>3

LEMMA EventKept ==
    ASSUME TypeOK, TextBelongs, BinBelongs, Kept, NEW n \in Pieces, DataEvent(n)
    PROVE  Kept'
<1>1. Advance(n)
  BY EventMoves
<1>2. CASE Final(n)
  BY <1>1, <1>2, Advances DEF Kept
<1>3. CASE ~Final(n) /\ ~spoiled' /\ Deliverable(wire)
  <2>1. wire' = wire /\ at' = at + n /\ at \in Nat /\ n \in Nat \ {0} /\ ~Whole(n)
    BY <1>1, <1>3, Advances, EventFacts DEF Whole, Final
  <2>2. wire.op \in {"text", "binary"}
    BY <1>3 DEF Deliverable
  <2>3. ~LoseEvent(n) /\ ~IgnoreEvent(n) /\ ~TextNoMemory(n) /\ ~BinaryNoMemory(n)
    BY <1>3, <2>2 DEF LoseEvent, IgnoreEvent, TextNoMemory, BinaryNoMemory, Spoil
  <2>4. CASE TextDrop(n) \/ TextPiece(n)
    <3>1. wire.op = "text" /\ spoiled' = (spoiled /\ ~Final(n))
      BY <2>4, Zenon DEF TextDrop, TextPiece
    <3>2. ~spoiled
      BY <1>3, <3>1
    <3>3. TextContinues(n)
      BY <1>3, <3>1, <3>2, Accepts
    <3>4. TextPiece(n)
      BY <2>4, <3>3 DEF TextDrop
    <3>5. text' = TextAt(at + n)
      BY <1>3, <3>1, <3>3, <3>4, TextContinuing DEF TextPiece
    <3>6. TextCurrent' /\ wire'.op = "text"
      BY <2>1, <3>1, <3>5 DEF TextCurrent, TextAt
    <3> QED
      BY <3>6 DEF Kept, OnItsWay
  <2>5. CASE BinaryDrop(n) \/ BinaryHeader(n) \/ BinaryPiece(n)
    <3>1. wire.op = "binary" /\ spoiled' = (spoiled /\ ~Final(n))
      BY <2>5, Zenon DEF BinaryDrop, BinaryHeader, BinaryPiece
    <3>2. ~spoiled
      BY <1>3, <3>1
    <3>3. ~BinaryRejected(n)
      BY <1>3, <3>1, <3>2, Accepts
    <3>4. BinaryHeader(n) \/ BinaryPiece(n)
      BY <2>5, <3>3 DEF BinaryDrop
    <3>5. bin' = HeaderAt(at + n) \/ bin' = PayloadAt(at + n)
      BY <1>3, <3>4, HeaderMoves, PayloadMoves
    <3>6. BinCurrent' /\ wire'.op = "binary"
      BY <2>1, <3>1, <3>5 DEF BinCurrent, HeaderAt, PayloadAt
    <3> QED
      BY <3>6 DEF Kept, OnItsWay
  <2>6. ~TextWhole(n) /\ ~BinaryBad(n) /\ ~BinaryWhole(n)
    BY <2>1 DEF TextWhole, BinaryBad, BinaryWhole
  <2> QED
    BY <2>3, <2>4, <2>5, <2>6 DEF DataEvent, TextEvent, BinaryEvent
<1>4. CASE ~Final(n) /\ (spoiled' \/ ~Deliverable(wire))
  <2>1. wire' = wire
    BY <1>1, <1>4, Advances
  <2> QED
    BY <1>4, <2>1 DEF Kept, Deliverable
<1> QED
  BY <1>2, <1>3, <1>4

-----------------------------------------------------------------------------
(* What is handed on is content, in the order in which it is handed on. *)

LEMMA Appended ==
    ASSUME NEW S, NEW s \in Seq(S), NEW e \in S
    PROVE  Append(s, e) \in Seq(S) /\ Len(Append(s, e)) = Len(s) + 1
OBVIOUS

LEMMA Joined ==
    ASSUME NEW S, NEW s \in Seq(S), NEW t \in Seq(S)
    PROVE  s \o t \in Seq(S) /\ Len(s \o t) = Len(s) + Len(t)
OBVIOUS

LEMMA EntriesTyped ==
    ASSUME NEW f, f.id \in 0..MaxFrames, f.kind \in Channel!Kinds,
           NEW from \in Nat, NEW k \in Nat, from + k <= MaxLen
    PROVE  /\ Channel!AudioEntries(f, from, k) \in Seq(LogEntry)
           /\ Len(Channel!AudioEntries(f, from, k)) = IF k = 0 THEN 0 ELSE 1
           /\ Channel!EndEntries(f) \in Seq(LogEntry)
           /\ \A c \in Contents : /\ Channel!Entry("text", c) \in LogEntry
                                 /\ Channel!Entry(f.kind, c) \in LogEntry
<1>1. ASSUME NEW w \in Channel!Kinds \union {"text", "end"}, NEW c \in Contents
      PROVE  Channel!Entry(w, c) \in LogEntry
  BY DEF Channel!Entry, LogEntry
<1>2. "audio" \in Channel!Kinds
  BY DEF Channel!Kinds
<1>3. Channel!Piece(f, from, k) \in Contents
  BY PieceTyped
<1>4. [i \in 1..0 |-> <<f.id, i>>] \in Contents
  <2>1. [i \in 1..0 |-> <<f.id, i>>] \in [1..0 -> (0..MaxFrames) \X (0..MaxLen)]
    OBVIOUS
  <2> QED
    BY <2>1, EmptyContent DEF Contents
<1>5. /\ Channel!AudioEntries(f, from, k) \in Seq(LogEntry)
      /\ Len(Channel!AudioEntries(f, from, k)) = IF k = 0 THEN 0 ELSE 1
  <2>1. Channel!Entry("audio", Channel!Piece(f, from, k)) \in LogEntry
    BY <1>1, <1>2, <1>3
  <2> QED
    BY <2>1 DEF Channel!AudioEntries
<1>6. Channel!EndEntries(f) \in Seq(LogEntry)
  <2>1. Channel!Entry("end", [i \in 1..0 |-> <<f.id, i>>]) \in LogEntry
    BY <1>1, <1>4
  <2> QED
    BY <2>1 DEF Channel!EndEntries
<1> QED
  BY <1>1, <1>5, <1>6

\* What a piece of audio or the last piece of a message adds to the log.
LEMMA PayloadLog ==
    ASSUME TypeOK, BinBelongs, NEW n \in Pieces, BinaryPiece(n)
    PROVE  /\ Heard \in Nat /\ ForPayload(n) \in Nat
           /\ Heard + ForPayload(n) = (at + n) - HeaderLen
           /\ wire.op = "binary" /\ HeaderGood /\ HeaderLen <= at + n /\ at + n <= wire.len
           /\ Final(n) => Heard + ForPayload(n) = wire.plen
           /\ wire.kind = "audio" /\ ~Final(n) =>
                log' = log \o Channel!AudioEntries(wire, Heard, ForPayload(n))
           /\ wire.kind = "audio" /\ Final(n) =>
                log' = (log \o Channel!AudioEntries(wire, Heard, ForPayload(n)))
                       \o Channel!EndEntries(wire)
           /\ wire.kind # "audio" /\ ~Final(n) => log' = log
           /\ wire.kind # "audio" /\ Final(n) => log' = Append(log, Channel!BinaryEntry(wire))
<1>1. wire.op = "binary" /\ ~BinaryRejected(n) /\ HeaderDone(n)
  BY DEF BinaryPiece
<1>2. /\ BinStarted.payloadReceived = Heard /\ Heard \in Nat
      /\ HeaderGood /\ Header = wire /\ HeaderLen <= at + n
      /\ PayloadFrom(n) = Heard /\ ForPayload(n) \in Nat
      /\ Heard + ForPayload(n) = (at + n) - HeaderLen
  BY <1>1, BinAccepted
<1>3. /\ at \in Nat /\ n \in Nat /\ wire.len \in Nat /\ wire.plen \in Nat
      /\ HeaderLen \in Nat /\ at + n <= wire.len
  BY EventFacts
<1>4. wire.plen = wire.len - HeaderLen
  BY <1>2, <1>3 DEF HeaderGood
<1>5. Final(n) => Heard + ForPayload(n) = wire.plen
  BY <1>2, <1>3, <1>4 DEF Final
<1>6. Fill(BinBuffer, BinStarted.payloadReceived, ForPayload(n), PayloadFrom(n))
      = Filled(wire, Copied, (at + n) - HeaderLen)
  BY PayloadMoves
<1>7. ASSUME wire.kind = "audio"
      PROVE  /\ ~Final(n) => log' = log \o Channel!AudioEntries(wire, Heard, ForPayload(n))
             /\ Final(n) => log' = (log \o Channel!AudioEntries(wire, Heard, ForPayload(n)))
                                   \o Channel!EndEntries(wire)
  BY <1>2, <1>5, <1>7 DEF BinaryPiece
<1>8. ASSUME wire.kind # "audio", ~Final(n) PROVE log' = log
  BY <1>2, <1>8 DEF BinaryPiece
<1>9. ASSUME wire.kind # "audio", Final(n)
      PROVE  log' = Append(log, Channel!BinaryEntry(wire))
  <2>1. log' = Append(log, Channel!Entry(wire.kind, Filled(wire, Copied, (at + n) - HeaderLen)))
    BY <1>2, <1>5, <1>6, <1>9 DEF BinaryPiece, Dispatched
  <2>2. Copied = wire.plen /\ (at + n) - HeaderLen = wire.plen
    BY <1>2, <1>5, <1>9 DEF Copied
  <2>3. Filled(wire, wire.plen, wire.plen) = Channel!Piece(wire, 0, wire.plen)
    BY <1>3, FilledEnds
  <2> QED
    BY <2>1, <2>2, <2>3 DEF Channel!BinaryEntry
<1> QED
  BY <1>1, <1>2, <1>3, <1>5, <1>7, <1>8, <1>9

LEMMA EventLogged ==
    ASSUME TypeOK, TextBelongs, BinBelongs, Logged, NEW n \in Pieces, DataEvent(n)
    PROVE  Logged'
<1>1. /\ wire.id \in 0..MaxFrames /\ wire.kind \in Channel!Kinds
      /\ wire.len \in 0..MaxLen /\ wire.plen \in 0..MaxLen /\ MaxLen \in Nat
      /\ HeaderLen \in Nat /\ at \in Nat /\ n \in Nat
  BY EventFacts
<1>2. log \in Seq(LogEntry)
  BY DEF Logged
<1>3. ASSUME NEW k \in 0..MaxLen, NEW w \in {"text", wire.kind}
      PROVE  Channel!Entry(w, Channel!Piece(wire, 0, k)) \in LogEntry
  <2>1. Channel!Piece(wire, 0, k) \in Contents
    BY <1>1, PieceTyped
  <2> QED
    BY <1>1, <2>1 DEF Channel!Entry, LogEntry
<1>4. CASE log' = log
  BY <1>2, <1>4 DEF Logged
<1>5. CASE TextWhole(n)
  BY <1>1, <1>2, <1>3, <1>5 DEF TextWhole, Channel!TextEntry, Logged
<1>6. CASE TextPiece(n)
  <2>1. CASE ~Final(n)
    BY <1>4, <1>6, <2>1 DEF TextPiece
  <2>2. CASE Final(n)
    <3>1. Fill(TextStarted.buf, at, n, at) = Filled(wire, wire.len, at + n)
      BY <1>6, TextContinuing DEF TextPiece
    <3>2. Filled(wire, wire.len, at + n) \in Contents
      BY <1>1, FilledTyped
    <3>3. log' = Append(log, Channel!Entry("text", Filled(wire, wire.len, at + n)))
      BY <1>6, <2>2, <3>1 DEF TextPiece
    <3> QED
      BY <1>2, <3>2, <3>3 DEF Channel!Entry, LogEntry, Logged
  <2> QED
    BY <2>1, <2>2
<1>7. CASE BinaryWhole(n)
  <2> DEFINE audio == Channel!AudioEntries(wire, 0, wire.plen)
             end == Channel!EndEntries(wire)
             entry == Channel!Entry(wire.kind, Channel!Piece(wire, 0, wire.plen))
  <2>1. audio \in Seq(LogEntry) /\ end \in Seq(LogEntry) /\ entry \in LogEntry
    BY <1>1, <1>3, EntriesTyped
  <2>2. log' = (log \o audio) \o end \/ log' = Append(log, entry)
    BY <1>7 DEF BinaryWhole, Dispatched
  <2> HIDE DEF audio, end, entry
  <2>3. (log \o audio) \o end \in Seq(LogEntry) /\ Append(log, entry) \in Seq(LogEntry)
    BY <1>2, <2>1, Appended, Joined
  <2> QED
    BY <2>2, <2>3 DEF Logged
<1>8. CASE BinaryPiece(n)
  <2> DEFINE audio == Channel!AudioEntries(wire, Heard, ForPayload(n))
             end == Channel!EndEntries(wire)
             entry == Channel!BinaryEntry(wire)
  <2>1. /\ Heard \in Nat /\ ForPayload(n) \in Nat /\ Heard + ForPayload(n) <= MaxLen
    BY <1>1, <1>8, PayloadLog
  <2>2. audio \in Seq(LogEntry) /\ end \in Seq(LogEntry)
    BY <1>1, <2>1, EntriesTyped
  <2>3. entry \in LogEntry
    BY <1>1, <1>3 DEF Channel!BinaryEntry
  <2>4. \/ log' = log \o audio \/ log' = (log \o audio) \o end
        \/ log' = log \/ log' = Append(log, entry)
    BY <1>8, PayloadLog
  <2> HIDE DEF audio, end, entry
  <2>5. /\ log \o audio \in Seq(LogEntry) /\ (log \o audio) \o end \in Seq(LogEntry)
        /\ Append(log, entry) \in Seq(LogEntry)
    BY <1>2, <2>2, <2>3, Appended, Joined
  <2> QED
    BY <1>2, <2>4, <2>5 DEF Logged
<1>9. CASE \/ LoseEvent(n) \/ IgnoreEvent(n) \/ TextNoMemory(n) \/ TextDrop(n)
           \/ BinaryBad(n) \/ BinaryDrop(n) \/ BinaryNoMemory(n) \/ BinaryHeader(n)
  BY <1>4, <1>9 DEF LoseEvent, IgnoreEvent, TextNoMemory, TextDrop, BinaryBad, BinaryDrop,
                    BinaryNoMemory, BinaryHeader
<1> QED
  BY <1>5, <1>6, <1>7, <1>8, <1>9 DEF DataEvent, TextEvent, BinaryEvent

-----------------------------------------------------------------------------
LEMMA InitInv == Init => Inv
<1> SUFFICES ASSUME Init PROVE Inv
  OBVIOUS
<1>1. HeaderLen \in Nat /\ MaxFrames \in Nat /\ 0 \in 0..MaxLost
  BY LengthsAssumption, LossAssumption
<1>2. TextTyped /\ BinTyped /\ ~text.active /\ ~bin.active
  BY BlanksTyped DEF Init
<1>3. WireTyped
  BY <1>1 DEF Init, WireTyped
<1>4. FlagsTyped
  BY Zenon DEF Init, FlagsTyped
<1>5. Logged
  BY DEF Init, Logged
<1>6. Kept
  BY DEF Init, Kept
<1> QED
  BY <1>2, <1>3, <1>4, <1>5, <1>6, TypeParts DEF Inv, TextBelongs, BinBelongs

LEMMA NextInv == Inv /\ [Next]_vars => Inv'
<1> SUFFICES ASSUME Inv, [Next]_vars PROVE Inv'
  OBVIOUS
<1>0. FlagsTyped /\ WireTyped /\ TextTyped /\ BinTyped
  BY TypeParts DEF Inv
<1>1. CASE \E n \in Pieces : DataEvent(n)
  <2>1. PICK n \in Pieces : DataEvent(n)
    BY <1>1
  <2> QED
    BY <2>1, EventType, EventText, EventBin, EventKept, EventLogged DEF Inv
<1>2. CASE Connect
  <2>1. UNCHANGED <<begun, wire, at, spoiled, lost, text, bin, log>> /\ link' = TRUE
    BY <1>2 DEF Connect
  <2>2. FlagsTyped'
    BY <1>0, <2>1, Zenon DEF FlagsTyped
  <2>3. WireTyped' /\ TextTyped' /\ BinTyped'
    BY <1>0, <2>1 DEF WireTyped, TextTyped, BinTyped
  <2>4. (TextBelongs /\ BinBelongs /\ Kept /\ Logged)'
    BY <2>1, SameFrame DEF Inv, TextBelongs, BinBelongs, TextOfWire, BinOfWire, BinAt, Kept, Logged,
       OnItsWay, TextCurrent, BinCurrent, Deliverable
  <2> QED
    BY <2>2, <2>3, <2>4, TypePartsNext DEF Inv
<1>3. CASE Disconnect
  <2>1. /\ wire' = NoFrame /\ at' = 0 /\ text' = NoText /\ bin' = NoBin
        /\ UNCHANGED <<begun, lost, log>> /\ link' = FALSE /\ spoiled' = FALSE
    BY <1>3 DEF Disconnect
  <2>2. FlagsTyped'
    BY <2>1, Zenon DEF FlagsTyped
  <2>3. WireTyped'
    BY <1>0, <2>1 DEF WireTyped
  <2>4. (TextBelongs /\ BinBelongs /\ Kept /\ Logged)'
    BY <2>1, BlanksTypedNext DEF Inv, TextBelongs, BinBelongs, Kept, Logged
  <2> QED
    BY <2>1, <2>2, <2>3, <2>4, TypePartsNext, BlanksTypedNext DEF Inv
<1>4. CASE SendFrame
  <2>1. /\ begun' = begun + 1 /\ begun < MaxFrames /\ wire' \in Frame(begun + 1) /\ at' = 0
        /\ spoiled' = FALSE /\ wire = NoFrame /\ UNCHANGED <<link, lost, text, bin, log>>
    BY <1>4 DEF SendFrame
  <2>2. FlagsTyped'
    BY <1>0, <2>1, Zenon DEF FlagsTyped
  <2>3. WireTyped'
    <3>1. begun + 1 \in 0..MaxFrames /\ begun + 1 \in Nat
      BY <1>0, <2>1, LengthsAssumption DEF WireTyped
    <3>2. wire'.len > 0
      BY <2>1, <3>1, FrameFacts
    <3>3. wire' \in Frame(begun)'
      BY <2>1 DEF Frame, Channel!Frame, Channel!TextFrame, Channel!BinaryFrame, Channel!Kinds
    <3> QED
      BY <1>0, <2>1, <3>1, <3>2, <3>3 DEF WireTyped
  <2>4. TextTyped' /\ BinTyped'
    BY <1>0, <2>1 DEF TextTyped, BinTyped
  <2>5. NoFrame.op = "none"
    BY DEF NoFrame
  <2>6. (TextBelongs /\ BinBelongs /\ Kept /\ Logged)'
    BY <2>1, <2>5 DEF Inv, TextBelongs, BinBelongs, Kept, Logged
  <2> QED
    BY <2>2, <2>3, <2>4, <2>6, TypePartsNext DEF Inv
<1>5. CASE UNCHANGED vars
  <2>1. UNCHANGED <<link, begun, wire, at, spoiled, lost, text, bin, log>>
    BY <1>5 DEF vars
  <2>2. FlagsTyped'
    BY <1>0, <2>1, Zenon DEF FlagsTyped
  <2>3. WireTyped' /\ TextTyped' /\ BinTyped'
    BY <1>0, <2>1 DEF WireTyped, TextTyped, BinTyped
  <2>4. (TextBelongs /\ BinBelongs /\ Kept /\ Logged)'
    BY <2>1, SameFrame DEF Inv, TextBelongs, BinBelongs, TextOfWire, BinOfWire, BinAt, Kept, Logged,
       OnItsWay, TextCurrent, BinCurrent, Deliverable
  <2> QED
    BY <2>2, <2>3, <2>4, TypePartsNext DEF Inv
<1> QED
  BY <1>1, <1>2, <1>3, <1>4, <1>5 DEF Next

\* The invariant holds of every behaviour.
THEOREM Invariant == Spec => []Inv
BY InitInv, NextInv, PTL DEF Spec

\* Type correctness.
THEOREM TypeCorrect == Spec => []TypeOK
<1>1. Inv => TypeOK
  BY DEF Inv
<1> QED
  BY <1>1, Invariant, PTL

-----------------------------------------------------------------------------
(* The refinement.  Now and Played are what FrameChannel's now and played  *)
(* are mapped to; each action of FrameChannel is restated over them.       *)

Now == IF OnItsWay THEN wire ELSE NoFrame
Played == IF wire.kind = "audio" /\ wire.op = "binary" /\ at > 0 /\ BinCurrent
          THEN bin.payloadReceived ELSE 0

Stutter == UNCHANGED <<begun, log>> /\ Now' = Now /\ Played' = Played
Gone == Now' = NoFrame /\ Played' = 0

LEMMA ChannelSteps ==
    /\ Stutter => UNCHANGED Channel!vars
    /\ Gone /\ UNCHANGED <<begun, log>> => Channel!Abandon
    /\ /\ Now = NoFrame /\ begun' = begun + 1 /\ Now' \in Frame(begun + 1) /\ Played' = 0
       /\ log' = log
       => Channel!Begin
    /\ /\ Now = wire /\ wire.op = "text" /\ log' = Append(log, Channel!TextEntry(wire))
       /\ Gone /\ begun' = begun
       => Channel!HandText
    /\ /\ Now = wire /\ Channel!Valid(wire) /\ wire.kind # "audio"
       /\ log' = Append(log, Channel!BinaryEntry(wire)) /\ Gone /\ begun' = begun
       => Channel!HandBinary
    /\ \A k : /\ Now = wire /\ Channel!Valid(wire) /\ wire.kind = "audio"
              /\ k > 0 /\ Played + k <= wire.plen
              /\ log' = log \o Channel!AudioEntries(wire, Played, k)
              /\ Played' = Played + k /\ Now' = Now /\ begun' = begun
              => Channel!PlayOn(k)
    /\ \A k : /\ Now = wire /\ Channel!Valid(wire) /\ wire.kind = "audio"
              /\ Played + k = wire.plen
              /\ log' = (log \o Channel!AudioEntries(wire, Played, k)) \o Channel!EndEntries(wire)
              /\ Gone /\ begun' = begun
              => Channel!PlayOut(k)
<1> USE DEF Now, Played, Gone
<1>1. Channel!Idle = NoFrame
  BY DEF Channel!Idle, NoFrame
<1>2. Stutter => UNCHANGED Channel!vars
  BY DEF Stutter, Channel!vars
<1>3. Gone /\ UNCHANGED <<begun, log>> => Channel!Abandon
  BY <1>1 DEF Channel!Abandon
<1>4. /\ Now = NoFrame /\ begun' = begun + 1 /\ Now' \in Frame(begun + 1) /\ Played' = 0
      /\ log' = log
      => Channel!Begin
  BY <1>1 DEF Channel!Begin, Frame
<1>5. /\ Now = wire /\ wire.op = "text" /\ log' = Append(log, Channel!TextEntry(wire))
      /\ Gone /\ begun' = begun
      => Channel!HandText
  BY <1>1 DEF Channel!HandText
<1>6. /\ Now = wire /\ Channel!Valid(wire) /\ wire.kind # "audio"
      /\ log' = Append(log, Channel!BinaryEntry(wire)) /\ Gone /\ begun' = begun
      => Channel!HandBinary
  BY <1>1 DEF Channel!HandBinary
<1>7. ASSUME NEW k, Now = wire, Channel!Valid(wire), wire.kind = "audio",
             k > 0, Played + k <= wire.plen,
             log' = log \o Channel!AudioEntries(wire, Played, k),
             Played' = Played + k, Now' = Now, begun' = begun
      PROVE  Channel!PlayOn(k)
  BY <1>7 DEF Channel!PlayOn
<1>8. ASSUME NEW k, Now = wire, Channel!Valid(wire), wire.kind = "audio",
             Played + k = wire.plen,
             log' = (log \o Channel!AudioEntries(wire, Played, k)) \o Channel!EndEntries(wire),
             Gone, begun' = begun
      PROVE  Channel!PlayOut(k)
  BY <1>1, <1>8 DEF Channel!PlayOut
<1> QED
  BY <1>2, <1>3, <1>4, <1>5, <1>6, <1>7, <1>8

\* Where the frame stands before an event that is part of it, and after.
LEMMA NowBefore ==
    /\ at = 0 => Now = wire /\ Played = 0
    /\ wire.op = "text" /\ TextCurrent => Now = wire
    /\ wire.op # "binary" => Played = 0
    /\ wire.op = "binary" /\ BinCurrent => Now = wire
    /\ wire.kind # "audio" => Played = 0
    /\ at > 0 /\ wire.op = "binary" /\ wire.kind = "audio" /\ BinCurrent
       => Played = bin.payloadReceived
BY DEF Now, Played, OnItsWay

LEMMA NowAfter ==
    ASSUME TypeOK, NEW n \in Pieces, Advance(n)
    PROVE  /\ Final(n) => Gone
           /\ ~Final(n) /\ (wire.op = "text" => ~TextCurrent')
              /\ (wire.op = "binary" => ~BinCurrent') => Gone
           /\ ~Final(n) /\ wire.op = "text" /\ TextCurrent' => Now' = wire /\ Played' = 0
           /\ ~Final(n) /\ wire.op = "binary" /\ BinCurrent' =>
                /\ Now' = wire
                /\ Played' = IF wire.kind = "audio" THEN bin'.payloadReceived ELSE 0
<1>1. CASE Final(n)
  <2>1. at' = 0 /\ wire' = NoFrame
    BY <1>1, Advances
  <2> QED
    BY <1>1, <2>1 DEF Gone, Now, Played, OnItsWay, NoFrame
<1>2. CASE ~Final(n)
  <2>1. wire' = wire /\ at' > 0 /\ at' = at + n /\ at \in Nat /\ n \in Nat \ {0}
    BY <1>2, Advances, EventFacts
  <2> QED
    BY <1>2, <2>1 DEF Gone, Now, Played, OnItsWay
<1> QED
  BY <1>1, <1>2

\* An event that leaves its assembly as it was, or blank, abandons its frame.
LEMMA LeftBehind ==
    ASSUME Inv, NEW n \in Pieces, Advance(n),
           \/ LoseEvent(n)
           \/ wire.op = "cont"
           \/ wire.op = "text" /\ text' = NoText
           \/ wire.op = "binary" /\ bin' = NoBin
    PROVE  Gone
<1>1. /\ at \in Nat /\ n \in Nat \ {0} /\ wire.len \in Nat
      /\ lost \in Nat /\ MaxLost \in {0, 1}
  BY EventFacts, LossAssumption DEF TypeOK, Inv
<1>2. CASE Final(n)
  BY <1>2, NowAfter DEF Inv
<1>3. CASE ~Final(n)
  <2>1. wire' = wire /\ at' = at + n /\ at + n < wire.len
    BY <1>3, Advances DEF Inv
  <2>2. CASE text' = NoText /\ wire.op = "text"
    BY <1>3, <2>2, NowAfter DEF Inv, TextCurrent, NoText
  <2>3. CASE bin' = NoBin /\ wire.op = "binary"
    BY <1>3, <2>3, NowAfter DEF Inv, BinCurrent, NoBin
  <2>4. CASE LoseEvent(n)
    <3>1. text' = text /\ bin' = bin /\ lost = 0
      BY <1>1, <2>4 DEF LoseEvent
    <3>2. ASSUME wire.op = "text" PROVE ~TextCurrent'
      <4>1. CASE ~text.active
        BY <3>1, <4>1 DEF TextCurrent
      <4>2. CASE TextOfWire
        <5>1. PICK r \in 1..at : text = TextAt(r)
          BY <4>2 DEF TextOfWire
        <5>2. text'.received = r
          BY <3>1, <5>1 DEF TextAt
        <5> QED
          BY <1>1, <2>1, <5>2 DEF TextCurrent
      <4> QED
        BY <3>1, <3>2, <4>1, <4>2 DEF Inv, TextBelongs
    <3>3. ASSUME wire.op = "binary" PROVE ~BinCurrent'
      <4>1. CASE ~bin.active
        BY <3>1, <4>1 DEF BinCurrent
      <4>2. CASE BinOfWire
        <5>1. PICK r \in 1..at : bin = BinAt(r)
          BY <4>2 DEF BinOfWire
        <5>2. bin'.received = r
          BY <3>1, <5>1 DEF BinAt, HeaderAt, PayloadAt
        <5> QED
          BY <1>1, <2>1, <5>2 DEF BinCurrent
      <4>3. CASE bin.received = bin.total
        BY <1>1, <2>1, <3>1, <4>3 DEF BinCurrent
      <4> QED
        BY <3>1, <3>3, <4>1, <4>2, <4>3 DEF Inv, BinBelongs
    <3> QED
      BY <1>3, <3>2, <3>3, NowAfter DEF Inv
  <2>5. CASE wire.op = "cont"
    BY <1>3, <2>5, NowAfter DEF Inv
  <2> QED
    BY <2>2, <2>3, <2>4, <2>5
<1> QED
  BY <1>2, <1>3

LEMMA TextImplements ==
    ASSUME Inv, NEW n \in Pieces, TextPiece(n)
    PROVE  Channel!HandText \/ UNCHANGED Channel!vars
<1>1. /\ wire.op = "text" /\ TextContinues(n) /\ Advance(n) /\ begun' = begun
      /\ at \in Nat /\ n \in Nat /\ wire.len \in Nat
  BY EventFacts DEF TextPiece, Quiet, Inv
<1>2. /\ at > 0 => TextCurrent
      /\ Fill(TextStarted.buf, at, n, at) = Filled(wire, wire.len, at + n)
  BY <1>1, TextContinuing DEF Inv
<1>3. Now = wire /\ Played = 0
  BY <1>1, <1>2, NowBefore
<1>4. CASE Final(n)
  <2>1. log' = Append(log, Channel!Entry("text", Filled(wire, wire.len, wire.len)))
    BY <1>1, <1>2, <1>4 DEF TextPiece, Final
  <2>2. log' = Append(log, Channel!TextEntry(wire))
    BY <1>1, <2>1, FilledEnds DEF Channel!TextEntry
  <2>3. Gone
    BY <1>1, <1>4, NowAfter DEF Inv
  <2> QED
    BY <1>1, <1>3, <2>2, <2>3, ChannelSteps
<1>5. CASE ~Final(n)
  <2>1. log' = log /\ text' = TextAt(at + n)
    BY <1>1, <1>5, TextContinuing DEF TextPiece, Inv
  <2>2. wire' = wire /\ at' = at + n
    BY <1>1, <1>5, Advances DEF Inv
  <2>3. TextCurrent'
    BY <2>1, <2>2 DEF TextCurrent, TextAt
  <2>4. Now' = wire /\ Played' = 0
    BY <1>1, <1>5, <2>3, NowAfter DEF Inv
  <2> QED
    BY <1>1, <1>3, <2>1, <2>4, ChannelSteps DEF Stutter
<1> QED
  BY <1>4, <1>5

LEMMA HeaderImplements ==
    ASSUME Inv, NEW n \in Pieces, BinaryHeader(n)
    PROVE  Channel!Abandon \/ UNCHANGED Channel!vars
<1>1. /\ wire.op = "binary" /\ ~BinaryRejected(n) /\ Advance(n) /\ begun' = begun /\ log' = log
      /\ at + n < HeaderLen /\ bin' = HeaderAt(at + n)
      /\ at \in Nat /\ n \in Nat /\ HeaderLen \in Nat
  BY HeaderMoves, EventFacts DEF BinaryHeader, Quiet, Inv
<1>2. CASE Final(n)
  <2>1. Gone
    BY <1>1, <1>2, NowAfter DEF Inv
  <2> QED
    BY <1>1, <2>1, ChannelSteps
<1>3. CASE ~Final(n)
  <2>1. (at > 0 => BinCurrent) /\ BinStarted.payloadReceived = Heard /\ Heard = 0
    BY <1>1, BinAccepted DEF Inv, Heard
  <2>2. Now = wire /\ Played = 0
    BY <1>1, <2>1, NowBefore DEF BinStarted
  <2>3. wire' = wire /\ at' = at + n
    BY <1>1, <1>3, Advances DEF Inv
  <2>4. BinCurrent' /\ bin'.payloadReceived = 0
    BY <1>1, <2>3 DEF BinCurrent, HeaderAt
  <2>5. Now' = wire /\ Played' = 0
    BY <1>1, <1>3, <2>4, NowAfter DEF Inv
  <2> QED
    BY <1>1, <2>2, <2>5, ChannelSteps DEF Stutter
<1> QED
  BY <1>2, <1>3

LEMMA PieceImplements ==
    ASSUME Inv, NEW n \in Pieces, BinaryPiece(n)
    PROVE  Channel!Next \/ UNCHANGED Channel!vars
<1> DEFINE k == ForPayload(n)
<1>1. /\ wire.op = "binary" /\ ~BinaryRejected(n) /\ Advance(n) /\ begun' = begun
      /\ at \in Nat /\ n \in Nat \ {0} /\ HeaderLen \in Nat /\ MaxLen \in Nat
      /\ wire.len \in 0..MaxLen /\ wire.plen \in 0..MaxLen /\ at + n <= wire.len
  BY EventFacts DEF BinaryPiece, Quiet, Inv
<1>2. /\ (at > 0 => BinCurrent) /\ BinStarted.payloadReceived = Heard
  BY <1>1, BinAccepted DEF Inv
<1>3. /\ Heard \in Nat /\ k \in Nat /\ Heard + k = (at + n) - HeaderLen
      /\ HeaderGood /\ (Final(n) => Heard + k = wire.plen)
  BY PayloadLog DEF Inv
<1>4. Now = wire /\ (wire.kind # "audio" => Played = 0)
  BY <1>1, <1>2, NowBefore
<1>5. wire.kind = "audio" => Played = Heard
  <2>1. CASE at = 0
    <3>1. Heard = 0
      BY <1>1, <2>1, LengthsAssumption DEF Heard
    <3> QED
      BY <2>1, <3>1, NowBefore
  <2>2. CASE at > 0
    BY <1>1, <1>2, <2>2, NowBefore DEF BinStarted
  <2> QED
    BY <1>1, <2>1, <2>2
<1>6. Channel!Valid(wire) /\ wire.plen = wire.len - HeaderLen /\ k \in 0..MaxLen
  BY <1>1, <1>3 DEF HeaderGood, Channel!Valid
<1>7. CASE Final(n)
  <2>1. Gone
    BY <1>1, <1>7, NowAfter DEF Inv
  <2>2. CASE wire.kind = "audio"
    <3>1. log' = (log \o Channel!AudioEntries(wire, Heard, k)) \o Channel!EndEntries(wire)
      BY <1>7, <2>2, PayloadLog DEF Inv
    <3>2. Channel!PlayOut(k)
      BY <1>1, <1>3, <1>4, <1>5, <1>6, <1>7, <2>1, <2>2, <3>1, ChannelSteps
    <3> QED
      BY <1>6, <3>2 DEF Channel!Next
  <2>3. CASE wire.kind # "audio"
    <3>1. log' = Append(log, Channel!BinaryEntry(wire))
      BY <1>7, <2>3, PayloadLog DEF Inv
    <3>2. Channel!HandBinary
      BY <1>1, <1>4, <1>6, <2>1, <2>3, <3>1, ChannelSteps
    <3> QED
      BY <3>2 DEF Channel!Next
  <2> QED
    BY <2>2, <2>3
<1>8. CASE ~Final(n)
  <2>1. bin' = PayloadAt(at + n)
    BY <1>8, PayloadMoves DEF Inv
  <2>2. wire' = wire /\ at' = at + n
    BY <1>1, <1>8, Advances DEF Inv
  <2>3. BinCurrent' /\ bin'.payloadReceived = Heard + k
    BY <1>3, <2>1, <2>2 DEF BinCurrent, PayloadAt
  <2>4. Now' = Now /\ Played' = IF wire.kind = "audio" THEN Heard + k ELSE 0
    BY <1>1, <1>4, <1>8, <2>3, NowAfter DEF Inv
  <2>5. CASE wire.kind # "audio"
    <3>1. log' = log
      BY <1>8, <2>5, PayloadLog DEF Inv
    <3>2. Stutter
      BY <1>1, <1>4, <2>4, <2>5, <3>1 DEF Stutter
    <3> QED
      BY <3>2, ChannelSteps
  <2>6. CASE wire.kind = "audio" /\ k = 0
    <3>1. log' = log \o Channel!AudioEntries(wire, Heard, k)
      BY <1>8, <2>6, PayloadLog DEF Inv
    <3>2. log' = log \o << >>
      BY <2>6, <3>1 DEF Channel!AudioEntries
    <3>3. log' = log
      BY <3>2 DEF Inv, Logged
    <3>4. Stutter
      BY <1>1, <1>3, <1>5, <2>4, <2>6, <3>3 DEF Stutter
    <3> QED
      BY <3>4, ChannelSteps
  <2>7. CASE wire.kind = "audio" /\ k > 0
    <3>1. log' = log \o Channel!AudioEntries(wire, Played, k)
      BY <1>5, <1>8, <2>7, PayloadLog DEF Inv
    <3>2. Played + k <= wire.plen
      BY <1>1, <1>3, <1>5, <1>6, <2>7
    <3>3. Played' = Played + k
      BY <1>5, <2>4, <2>7
    <3>4. Channel!PlayOn(k)
      BY <1>1, <1>4, <1>6, <2>4, <2>7, <3>1, <3>2, <3>3, ChannelSteps
    <3> QED
      BY <1>6, <3>4 DEF Channel!Next
  <2> QED
    BY <1>3, <2>5, <2>6, <2>7
<1> QED
  BY <1>7, <1>8

LEMMA EventImplements ==
    ASSUME Inv, NEW n \in Pieces, DataEvent(n)
    PROVE  Channel!Next \/ UNCHANGED Channel!vars
<1>1. Advance(n) /\ begun' = begun
  BY EventMoves
<1>2. /\ wire.plen \in 0..MaxLen /\ at \in Nat /\ n \in Nat
  BY EventFacts DEF Inv
<1>3. Whole(n) => Final(n) /\ at = 0
  BY <1>2 DEF Whole, Final
<1>4. Final(n) => Gone
  BY <1>1, NowAfter DEF Inv
<1>5. CASE \/ LoseEvent(n) \/ IgnoreEvent(n) \/ TextNoMemory(n) \/ TextDrop(n)
           \/ BinaryBad(n) \/ BinaryDrop(n) \/ BinaryNoMemory(n)
  <2>1. log' = log
    BY <1>5 DEF LoseEvent, IgnoreEvent, TextNoMemory, TextDrop, BinaryBad, BinaryDrop,
                BinaryNoMemory
  <2>2. \/ Whole(n)
        \/ LoseEvent(n)
        \/ wire.op = "cont"
        \/ wire.op = "text" /\ text' = NoText
        \/ wire.op = "binary" /\ bin' = NoBin
    BY <1>5 DEF IgnoreEvent, TextNoMemory, TextDrop, BinaryBad, BinaryDrop, BinaryNoMemory
  <2>3. Gone
    BY <1>1, <1>3, <1>4, <2>2, LeftBehind
  <2> QED
    BY <1>1, <2>1, <2>3, ChannelSteps DEF Channel!Next
<1>6. CASE TextWhole(n)
  <2>1. /\ wire.op = "text" /\ Whole(n) /\ log' = Append(log, Channel!TextEntry(wire))
    BY <1>6 DEF TextWhole
  <2>2. Now = wire /\ Gone
    BY <1>3, <1>4, <2>1, NowBefore
  <2> QED
    BY <1>1, <2>1, <2>2, ChannelSteps DEF Channel!Next
<1>7. CASE BinaryWhole(n)
  <2>1. Whole(n) /\ Channel!Valid(wire)
    BY <1>7 DEF BinaryWhole
  <2>2. Now = wire /\ Played = 0 /\ Gone
    BY <1>3, <1>4, <2>1, NowBefore
  <2>3. CASE wire.kind = "audio"
    <3>1. log' = (log \o Channel!AudioEntries(wire, Played, wire.plen)) \o Channel!EndEntries(wire)
      BY <1>7, <2>2, <2>3 DEF BinaryWhole
    <3>2. Played + wire.plen = wire.plen
      BY <1>2, <2>2
    <3>3. Channel!PlayOut(wire.plen)
      BY <1>1, <2>1, <2>2, <2>3, <3>1, <3>2, ChannelSteps, Zenon
    <3> QED
      BY <1>2, <3>3 DEF Channel!Next
  <2>4. CASE wire.kind # "audio"
    <3>1. log' = Append(log, Channel!BinaryEntry(wire))
      BY <1>7, <2>4 DEF BinaryWhole, Dispatched, Channel!BinaryEntry
    <3> QED
      BY <1>1, <2>1, <2>2, <2>4, <3>1, ChannelSteps DEF Channel!Next
  <2> QED
    BY <2>3, <2>4
<1> QED
  BY <1>5, <1>6, <1>7, TextImplements, HeaderImplements, PieceImplements
     DEF DataEvent, TextEvent, BinaryEvent, Channel!Next

LEMMA NextImplements == Inv /\ [Next]_vars => [Channel!Next]_Channel!vars
<1> SUFFICES ASSUME Inv, [Next]_vars PROVE Channel!Next \/ UNCHANGED Channel!vars
  OBVIOUS
<1>1. CASE \E n \in Pieces : DataEvent(n)
  BY <1>1, EventImplements
<1>2. CASE Connect \/ UNCHANGED vars
  <2>1. Stutter
    BY <1>2 DEF Connect, vars, Stutter, Now, Played, OnItsWay, TextCurrent, BinCurrent
  <2> QED
    BY <2>1, ChannelSteps
<1>3. CASE Disconnect
  <2>1. Gone /\ UNCHANGED <<begun, log>>
    BY <1>3 DEF Disconnect, Gone, Now, Played, OnItsWay, NoFrame
  <2> QED
    BY <2>1, ChannelSteps DEF Channel!Next
<1>4. CASE SendFrame
  <2>1. at = 0 /\ wire = NoFrame
    BY <1>4 DEF SendFrame, Inv, TypeOK
  <2>2. Now = NoFrame
    BY <2>1, NowBefore
  <2>3. Now' = wire' /\ Played' = 0
    BY <1>4 DEF SendFrame, Now, Played, OnItsWay
  <2> QED
    BY <1>4, <2>2, <2>3, ChannelSteps DEF SendFrame, Channel!Next
<1> QED
  BY <1>1, <1>2, <1>3, <1>4 DEF Next

\* Whatever the sizes of the pieces, whichever event is lost and wherever
\* memory fails, what the reassembly hands on is what FrameChannel allows.
THEOREM Implements == Spec => ImplementsChannel
<1>1. Init => Channel!Init
  BY DEF Init, Channel!Init, Channel!Idle, OnItsWay, NoFrame
<1> QED
  BY <1>1, Invariant, NextImplements, PTL DEF Spec, ImplementsChannel, Channel!Spec

-----------------------------------------------------------------------------
(* Delivery. *)

\* The last event of a frame that is not spoiled hands something on, unless
\* memory fails it.
LEMMA LastEventDelivers ==
    ASSUME Inv, NEW n \in Pieces, DataEvent(n), Deliverable(wire), ~spoiled,
           wire' = NoFrame, lost' = lost
    PROVE  Len(log') > Len(log) \/ TextNoMemory(n) \/ BinaryNoMemory(n)
<1>1. /\ wire # NoFrame /\ wire.id \in 0..MaxFrames /\ wire.kind \in Channel!Kinds
      /\ wire.len \in 0..MaxLen /\ wire.plen \in 0..MaxLen /\ MaxLen \in Nat
      /\ HeaderLen \in Nat \ {0} /\ at \in Nat /\ n \in Nat \ {0} /\ lost \in Nat
  BY EventFacts DEF Inv, TypeOK
<1>2. Final(n)
  BY <1>1, EventMoves, Advances DEF Inv
<1>3. log \in Seq(LogEntry) /\ Len(log) \in Nat
  BY DEF Inv, Logged
<1>4. /\ wire.op \in {"text", "binary"}
      /\ wire.op = "text" => TextContinues(n)
      /\ wire.op = "binary" => ~BinaryRejected(n) /\ HeaderGood
                             /\ (wire.kind = "audio" => wire.plen > 0)
  BY Accepts DEF Inv, Deliverable, HeaderGood
<1>5. ~LoseEvent(n) /\ ~IgnoreEvent(n)
  BY <1>1, <1>4 DEF LoseEvent, IgnoreEvent
<1>6. ~TextDrop(n) /\ ~BinaryDrop(n)
  BY <1>4 DEF TextDrop, BinaryDrop
<1>7. ~BinaryBad(n)
  BY <1>1, <1>4 DEF BinaryBad, HeaderGood, Channel!Valid
<1>8. ~BinaryHeader(n)
  BY <1>1, <1>2, <1>4, HeaderMoves DEF Inv, HeaderGood, Final
<1>9. ASSUME NEW e \in LogEntry, log' = Append(log, e) PROVE Len(log') > Len(log)
  BY <1>3, <1>9
<1>10. ASSUME NEW from \in Nat, NEW k \in Nat \ {0}, from + k <= MaxLen,
              log' = (log \o Channel!AudioEntries(wire, from, k)) \o Channel!EndEntries(wire)
       PROVE  Len(log') > Len(log)
  <2> DEFINE audio == Channel!AudioEntries(wire, from, k)
             end == Channel!EndEntries(wire)
  <2>1. audio \in Seq(LogEntry) /\ Len(audio) = 1 /\ end \in Seq(LogEntry)
    BY <1>1, <1>10, EntriesTyped
  <2>2. log' = (log \o audio) \o end
    BY <1>10
  <2> HIDE DEF audio, end
  <2>3. log \o audio \in Seq(LogEntry) /\ Len(log \o audio) = Len(log) + Len(audio)
    BY <1>3, <2>1, Joined
  <2>4. Len((log \o audio) \o end) = Len(log \o audio) + Len(end)
    BY <2>1, <2>3, Joined
  <2>5. Len(end) \in Nat
    BY <2>1
  <2> QED
    BY <1>3, <2>1, <2>2, <2>3, <2>4, <2>5
<1>11. \A k \in 0..MaxLen : Channel!Piece(wire, 0, k) \in Contents
  BY <1>1, PieceTyped
<1>12. CASE TextWhole(n)
  <2>1. log' = Append(log, Channel!TextEntry(wire))
    BY <1>12 DEF TextWhole
  <2>2. Channel!TextEntry(wire) \in LogEntry
    BY <1>1, <1>11 DEF Channel!TextEntry, Channel!Entry, LogEntry
  <2> QED
    BY <1>9, <2>1, <2>2
<1>13. CASE TextPiece(n)
  <2>1. log' = Append(log, Channel!Entry("text", Filled(wire, wire.len, at + n)))
    BY <1>2, <1>13, TextContinuing DEF TextPiece, Inv
  <2>2. Filled(wire, wire.len, at + n) \in Contents
    BY <1>1, FilledTyped
  <2>3. Channel!Entry("text", Filled(wire, wire.len, at + n)) \in LogEntry
    BY <2>2 DEF Channel!Entry, LogEntry
  <2> QED
    BY <1>9, <2>1, <2>3
<1>14. ASSUME log' = Append(log, Channel!BinaryEntry(wire)) PROVE Len(log') > Len(log)
  <2>1. Channel!BinaryEntry(wire) \in LogEntry
    BY <1>1, <1>11 DEF Channel!BinaryEntry, Channel!Entry, LogEntry
  <2> QED
    BY <1>9, <1>14, <2>1
<1>15. CASE BinaryWhole(n)
  <2>1. CASE wire.kind = "audio"
    <3>1. log' = (log \o Channel!AudioEntries(wire, 0, wire.plen)) \o Channel!EndEntries(wire)
      BY <1>15, <2>1 DEF BinaryWhole
    <3>2. wire.plen \in Nat \ {0} /\ 0 + wire.plen <= MaxLen
      BY <1>1, <1>4, <1>15, <2>1 DEF BinaryWhole
    <3> QED
      BY <1>10, <3>1, <3>2
  <2>2. CASE wire.kind # "audio"
    BY <1>14, <1>15, <2>2 DEF BinaryWhole, Dispatched, Channel!BinaryEntry
  <2> QED
    BY <2>1, <2>2
<1>16. CASE BinaryPiece(n)
  <2>1. /\ wire.op = "binary" /\ Heard \in Nat /\ ForPayload(n) \in Nat
        /\ Heard + ForPayload(n) = (at + n) - HeaderLen
        /\ Heard + ForPayload(n) = wire.plen
    BY <1>2, <1>16, PayloadLog DEF Inv
  <2>2. CASE wire.kind = "audio"
    <3>1. ForPayload(n) \in Nat \ {0}
      <4>1. wire.plen > 0 /\ wire.plen \in Nat
        BY <1>1, <1>4, <2>1, <2>2
      <4>2. CASE at < HeaderLen
        BY <2>1, <4>1, <4>2 DEF Heard
      <4>3. CASE ~(at < HeaderLen)
        BY <1>1, <2>1, <4>3 DEF Heard
      <4> QED
        BY <4>2, <4>3
    <3>2. log' = (log \o Channel!AudioEntries(wire, Heard, ForPayload(n)))
                 \o Channel!EndEntries(wire)
      BY <1>2, <1>16, <2>2, PayloadLog DEF Inv
    <3>3. Heard + ForPayload(n) <= MaxLen
      BY <1>1, <2>1
    <3> QED
      BY <1>10, <2>1, <3>1, <3>2, <3>3
  <2>3. CASE wire.kind # "audio"
    BY <1>2, <1>14, <1>16, <2>3, PayloadLog DEF Inv
  <2> QED
    BY <2>2, <2>3
<1> QED
  BY <1>5, <1>6, <1>7, <1>8, <1>12, <1>13, <1>15, <1>16 DEF DataEvent, TextEvent, BinaryEvent

\* A text or a valid, well-sized binary frame all of whose events arrived and
\* found memory is handed on with its last event, whatever came before it.
THEOREM Delivered == Spec => CleanFrameDelivered
<1>1. ASSUME Inv, Next, Deliverable(wire), ~spoiled, wire' = NoFrame, link' = link, lost' = lost
      PROVE  Len(log') > Len(log) \/ \E n \in Pieces : TextNoMemory(n) \/ BinaryNoMemory(n)
  <2>1. CASE Connect \/ Disconnect
    BY <1>1, <2>1 DEF Connect, Disconnect
  <2>2. CASE SendFrame
    BY <1>1, <2>2 DEF SendFrame, Deliverable, NoFrame
  <2>3. CASE \E n \in Pieces : DataEvent(n)
    BY <1>1, <2>3, LastEventDelivers
  <2> QED
    BY <1>1, <2>1, <2>2, <2>3 DEF Next
<1> QED
  BY <1>1, Invariant, PTL DEF Spec, CleanFrameDelivered

=============================================================================
