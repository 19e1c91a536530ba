---------------------------- MODULE FrameChannel ----------------------------
(***************************************************************************)
(* What the reassembly in ws_client.c promises of one WebSocket session:   *)
(* a text message or a buffered binary message is handed on once, whole    *)
(* and with its own bytes, or not at all; the audio of a message is handed *)
(* on piece by piece, in its order and without a gap; and an audio message *)
(* ends the stream only when all its audio has been handed on.  A message  *)
(* may be abandoned at any point, and is never taken up again.             *)
(***************************************************************************)
EXTENDS Naturals, Sequences

CONSTANTS HeaderLen, MaxLen

VARIABLES
    begun,      \* how many frames the server has begun
    now,        \* the frame on its way, Idle when there is none
    played,     \* the units of its audio handed on so far
    log         \* what was handed on, in order

vars == <<begun, now, played, log>>

-----------------------------------------------------------------------------
(* Frames: a length in units, and for a binary frame what its header says. *)

Kinds == {"audio", "ota", "other"}

TextFrame(i) == [id: {i}, op: {"text", "cont"}, len: 1..MaxLen, magic: {FALSE},
                 kind: {"other"}, last: {FALSE}, plen: {0}]

BinaryFrame(i) == [id: {i}, op: {"binary"}, len: 1..MaxLen, magic: BOOLEAN,
                   kind: Kinds, last: BOOLEAN, plen: 0..MaxLen]

Frame(i) == TextFrame(i) \union BinaryFrame(i)

Idle == [id |-> 0, op |-> "none", len |-> 0, magic |-> FALSE,
         kind |-> "other", last |-> FALSE, plen |-> 0]

\* Unit i of what frame f carries.
Unit(f, i) == <<f.id, i>>

\* A header that can be honoured: the magic, and a payload the frame holds.
Valid(f) == f.op = "binary" /\ f.magic /\ f.plen + HeaderLen <= f.len

\* The units from+1 .. from+n of f, as they reach whoever takes them.
Piece(f, from, n) == [i \in 1..n |-> Unit(f, from + i)]

Entry(what, content) == [what |-> what, content |-> content]

TextEntry(f) == Entry("text", Piece(f, 0, f.len))
BinaryEntry(f) == Entry(f.kind, Piece(f, 0, f.plen))
AudioEntries(f, from, n) ==
    IF n = 0 THEN << >> ELSE << Entry("audio", Piece(f, from, n)) >>
EndEntries(f) == IF f.last THEN << Entry("end", [i \in 1..0 |-> <<f.id, i>>]) >> ELSE << >>

-----------------------------------------------------------------------------
Init == begun = 0 /\ now = Idle /\ played = 0 /\ log = << >>

Begin == /\ now = Idle
         /\ begun' = begun + 1
         /\ now' \in Frame(begun + 1)
         /\ played' = 0
         /\ UNCHANGED log

Abandon == /\ now' = Idle
           /\ played' = 0
           /\ UNCHANGED <<begun, log>>

HandText == /\ now.op = "text"
            /\ log' = Append(log, TextEntry(now))
            /\ now' = Idle /\ played' = 0
            /\ UNCHANGED begun

HandBinary == /\ Valid(now) /\ now.kind # "audio"
              /\ log' = Append(log, BinaryEntry(now))
              /\ now' = Idle /\ played' = 0
              /\ UNCHANGED begun

\* Audio goes on as it comes, the next units after those handed on before.
PlayOn(n) == /\ Valid(now) /\ now.kind = "audio"
             /\ n > 0 /\ played + n <= now.plen
             /\ log' = log \o AudioEntries(now, played, n)
             /\ played' = played + n
             /\ UNCHANGED <<begun, now>>

\* The last units, and with them the end of the stream if the frame says so.
PlayOut(n) == /\ Valid(now) /\ now.kind = "audio"
              /\ played + n = now.plen
              /\ log' = (log \o AudioEntries(now, played, n)) \o EndEntries(now)
              /\ now' = Idle /\ played' = 0
              /\ UNCHANGED begun

Next == \/ Begin \/ Abandon \/ HandText \/ HandBinary
        \/ \E n \in 0..MaxLen : PlayOn(n) \/ PlayOut(n)

Spec == Init /\ [][Next]_vars
=============================================================================
