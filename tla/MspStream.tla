------------------------------ MODULE MspStream ------------------------------
(***************************************************************************)
(* The reading side of the serial line to Betaflight: replies framed byte  *)
(* after byte (MspFraming.cpp), one byte of them perhaps corrupted on the  *)
(* line, read in pieces of any length and parsed as they come              *)
(* (MspRcSink.cpp).                                                        *)
(*                                                                         *)
(* A byte has three bits, so that a frame's size is at most MaxSize; the   *)
(* header's bytes are none of the others'.                                 *)
(***************************************************************************)
EXTENDS Naturals, Sequences, SequencesExt, FiniteSets, FiniteSetsExt, Bitwise

CONSTANTS
    Garbage,    \* what may precede the first frame
    Payloads,   \* payloads of the replies
    Frames,     \* bound: replies
    Corrupts    \* one byte may be corrupted

StreamAssumption ==
    Frames \in Nat \ {0} /\ Corrupts \in BOOLEAN /\ Payloads # {} /\ Garbage # {}

VARIABLES
    sent,      \* history: the payloads of the replies
    at,        \* history: where each begins; and the corrupted byte, or 0
    line,      \* all the bytes
    pos,       \* how many of them have been read
    buffer,    \* rx_buffer_
    got,       \* payloads of the frames parsed
    errors     \* parse_errors_

vars == <<sent, at, line, pos, buffer, got, errors>>

Byte == 0 .. 7
MaxSize == 4
MaxFrame == 6 + MaxSize
Header == <<7, 6, 5>>      \* $M>
Cmd == 1

Checksum(s) == FoldLeft(LAMBDA a, b : a ^^ b, 0, s)

\* Size, command and payload under one checksum.
Encode(payload) ==
    LET body == <<Len(payload), Cmd>> \o payload IN Header \o body \o <<Checksum(body)>>

Headers(buf) == {i \in 1 .. Len(buf) - 2 : SubSeq(buf, i, i + 2) = Header}

\* What a call tells: bytes consumed, the payload of a frame (none, one, or a checksum error).
Nothing(consumed) == [consumed |-> consumed, frame |-> <<>>, bad |-> FALSE]

\* Fault: without a header nothing is kept.
ParseDropsTail(buf) ==
    IF Len(buf) < 3 THEN Nothing(0)
    ELSE IF Headers(buf) = {} THEN Nothing(Len(buf))
    ELSE LET i == Min(Headers(buf)) IN
         IF Len(buf) < i + 4 \/ Len(buf) < i + 5 + buf[i + 3] THEN Nothing(i - 1)
         ELSE LET size == buf[i + 3]
                  good == Checksum(SubSeq(buf, i + 3, i + 4 + size)) = buf[i + 5 + size] IN
              [consumed |-> i + 5 + size, bad |-> ~good,
               frame |-> IF good THEN <<SubSeq(buf, i + 5, i + 4 + size)>> ELSE <<>>]

\* parse_response
Parse(buf) ==
    IF Len(buf) < 3 THEN Nothing(0)
    ELSE IF Headers(buf) = {} THEN Nothing(Len(buf) - 2)
    ELSE LET i == Min(Headers(buf)) IN
         IF Len(buf) < i + 4 \/ Len(buf) < i + 5 + buf[i + 3] THEN Nothing(i - 1)
         ELSE LET size == buf[i + 3]
                  good == Checksum(SubSeq(buf, i + 3, i + 4 + size)) = buf[i + 5 + size] IN
              [consumed |-> i + 5 + size, bad |-> ~good,
               frame |-> IF good THEN <<SubSeq(buf, i + 5, i + 4 + size)>> ELSE <<>>]

\* parse_drain: until nothing is consumed.  Its state: the buffer, the frames, the errors.
RECURSIVE Drain(_)
Drain(s) ==
    LET p == Parse(s.buffer) IN
    IF p.consumed = 0 THEN s
    ELSE Drain([buffer |-> SubSeq(s.buffer, p.consumed + 1, Len(s.buffer)),
                got |-> s.got \o p.frame,
                errors |-> IF p.bad THEN s.errors + 1 ELSE s.errors])

Wire(payloads) == FoldLeft(LAMBDA bytes, p : bytes \o Encode(p), <<>>, payloads)

Init ==
    /\ sent \in [1 .. Frames -> Payloads]
    /\ \E g \in Garbage :
          LET clean == g \o Wire(sent)
              starts == [k \in 1 .. Frames |-> Len(g) + Len(Wire(SubSeq(sent, 1, k - 1))) + 1]
          IN \/ line = clean /\ at = [frame |-> starts, corrupt |-> 0]
             \/ /\ Corrupts
                /\ \E c \in DOMAIN clean, b \in Byte :
                      line = [clean EXCEPT ![c] = b] /\ at = [frame |-> starts, corrupt |-> c]
    /\ pos = 0 /\ buffer = <<>> /\ got = <<>> /\ errors = 0

\* poll_msp_rc_: whatever has arrived is read and parsed.
Poll ==
    /\ \E n \in pos + 1 .. Len(line) :
          LET s == Drain([buffer |-> buffer \o SubSeq(line, pos + 1, n), got |-> got,
                          errors |-> errors])
          IN pos' = n /\ buffer' = s.buffer /\ got' = s.got /\ errors' = s.errors
    /\ UNCHANGED <<sent, at, line>>

Next == Poll

Spec == Init /\ [][Next]_vars
-----------------------------------------------------------------------------
(* Properties.                                                             *)

\* However the bytes are cut into reads: on a line without errors every reply is parsed as
\* soon as its last byte is read; and a corrupted byte, also one that makes the parser wait
\* for bytes of the frames behind it, costs no reply before it and none that begins a longest
\* frame after it.
LossIsLocal ==
    LET before == {k \in 1 .. Frames :
                      /\ at.frame[k] + 5 + Len(sent[k]) <= pos
                      /\ at.corrupt = 0 \/ at.frame[k] + 5 + Len(sent[k]) < at.corrupt}
        after == {k \in 1 .. Frames : at.corrupt # 0 /\ at.frame[k] >= at.corrupt + MaxFrame}
    IN /\ IsPrefix(SubSeq(sent, 1, Cardinality(before)), got)
       /\ at.corrupt = 0 => Len(got) = Cardinality(before)
       /\ pos = Len(line) => IsSuffix(SubSeq(sent, Frames - Cardinality(after) + 1, Frames), got)
=============================================================================
