-------------------------------- MODULE WsFrames --------------------------------
(***************************************************************************)
(* The bytes of WebSocket frames: how laure_ws_on_data finds the frames in *)
(* rbuf when the peer's bytes come in pieces, and the frames that          *)
(* build_frame makes of the answers.  LaureWs takes what this module shows *)
(* for granted, and models everything else that a frame does; here the     *)
(* script leaves the connection open.                                      *)
(*                                                                         *)
(* The first byte of a frame is a byte; the others are digits of the base  *)
(* Base, which is 256 in the code.  A smaller base keeps every comparison  *)
(* and every shift, and makes the long forms of a length short.            *)
(***************************************************************************)
EXTENDS Naturals, Sequences, SequencesExt, FiniteSets

CONSTANTS
    Base,      \* values of a byte: a power of two
    MaxFrame,  \* LAURE_WS_MAX_FRAME
    Frames,    \* frames the peer may send, as Encode takes them
    MaxFrames, \* bound: frames of the peer
    Cut,       \* bound: bytes of a read that is not of all there is
    ByteXor(_, _) \* the exclusive or of two bytes

ASSUME BaseAssumption == Base \in {8, 16, 32, 64, 128, 256}
ASSUME BoundAssumption == MaxFrames \in Nat /\ Cut \in Nat

Digit == 0..(Base - 1)

\* n, shifted to the right by that many digits.
Shifted(n) ==
    LET by[k \in 0..7] == IF k = 0 THEN n ELSE by[k - 1] \div Base
    IN  by

\* The bound is a number of four digits, no less than a close frame with a code.
ASSUME MaxFrameAssumption ==
    MaxFrame \in Nat /\ MaxFrame >= 2 /\ Shifted(MaxFrame)[3] < Base

\* What the masking relies on.
ASSUME XorAssumption ==
    \A a, b \in Digit : ByteXor(a, b) \in Digit /\ ByteXor(ByteXor(a, b), b) = a

VARIABLES
    sent,     \* the frames the peer sends
    wire,     \* their bytes
    arrived,  \* how many of these were read
    rbuf,     \* c->rbuf
    ctl,      \* the loop of libuv, or the loop over the frames
    state,    \* c->state
    got,      \* history: the frames that reached the switch
    out       \* history: the frames written, as bytes

peer == <<sent, wire>>
vars == <<peer, arrived, rbuf, ctl, state, got, out>>

\* laure_ws_opcode_t.
Cont   == 0
Text   == 1
Binary == 2
Close  == 8
Ping   == 9
Pong   == 10

-----------------------------------------------------------------------------
(* The peer. *)

\* The most significant byte first.
Digits(n, k) == [i \in 1..k |-> Shifted(n)[k - i] % Base]

\* A length has a short form, one of two bytes and one of eight.
Bits16 == (Base \div 2) - 2
Bits64 == (Base \div 2) - 1

\* The mask bit of the second byte.
Masked == Base \div 2

\* A frame: its bits, its payload, the key of its mask if it has one, and a form
\* that its length fits in, which may be longer than it need be.
IsFrame(f) ==
    /\ f \in [op : 0..15, fin : BOOLEAN, form : {0, Bits16, Bits64},
              key : {<<>>} \cup [1..4 -> Digit], body : Seq(Digit)]
    /\ f.form = 0 => Len(f.body) < Bits16
    /\ f.form = Bits16 => Shifted(Len(f.body))[1] < Base
    /\ f.form = Bits64 => Shifted(Len(f.body))[7] < Base

ASSUME FramesAssumption == \A f \in Frames : IsFrame(f)

LenField(n, form) ==
    IF form = Bits16 THEN <<form>> \o Digits(n, 2)
    ELSE IF form = Bits64 THEN <<form>> \o Digits(n, 8)
    ELSE <<n>>

Unmask(key, body) ==
    IF key = <<>> THEN body
    ELSE [i \in DOMAIN body |-> ByteXor(body[i], key[((i - 1) % 4) + 1])]

\* A frame as RFC 6455 puts it on the wire; key is empty or four bytes.
Encode(f) ==
    LET field == LenField(Len(f.body), f.form) IN
    <<(IF f.fin THEN 128 ELSE 0) + f.op>>
        \o [field EXCEPT ![1] = @ + IF f.key = <<>> THEN 0 ELSE Masked]
        \o f.key \o Unmask(f.key, f.body)

\* The bytes of the first k frames, for each k.
Stream(fs) ==
    LET upto[k \in 0..Len(fs)] == IF k = 0 THEN <<>> ELSE upto[k - 1] \o Encode(fs[k])
    IN  upto

Wire(fs) == Stream(fs)[Len(fs)]

-----------------------------------------------------------------------------
(* The header of the frame at the beginning of b, as laure_ws_on_data reads *)
(* it and as a peer reads an answer.                                        *)

\* The bytes of a long form of the length.
LenBytes(b) ==
    LET field == b[2] % Masked IN
    IF field = Bits16 THEN 2 ELSE IF field = Bits64 THEN 8 ELSE 0

HeaderRead(b) == Len(b) >= 2 /\ Len(b) >= 2 + LenBytes(b)

\* plen, exact as long as it is no more than MaxFrame; shifting a larger one
\* leaves it larger.
Shift(n, digit) == IF n > MaxFrame THEN n ELSE n * Base + digit
Plen(b) ==
    IF LenBytes(b) = 0 THEN b[2] % Masked
    ELSE LET plen[i \in 0..LenBytes(b)] == IF i = 0 THEN 0 ELSE Shift(plen[i - 1], b[2 + i])
         IN  plen[LenBytes(b)]

IsMasked(b) == b[2] >= Masked

Hlen(b) == 2 + LenBytes(b) + IF IsMasked(b) THEN 4 ELSE 0

\* total bytes are there.
Whole(b) == Len(b) >= Hlen(b) + Plen(b)

\* The frame is no larger than LAURE_WS_MAX_FRAME.
Admitted(b) == Plen(b) <= MaxFrame

\* The key is looked for behind a length of one byte.
KeyOf_Short(b) == IF IsMasked(b) THEN SubSeq(b, 3, 6) ELSE <<>>

\* mk, the last four bytes of the header.
KeyOf(b) == IF IsMasked(b) THEN SubSeq(b, Hlen(b) - 3, Hlen(b)) ELSE <<>>

Payload(b) == Unmask(KeyOf(b), SubSeq(b, Hlen(b) + 1, Hlen(b) + Plen(b)))

\* The frame that the switch sees.
Frame(b) == [op |-> b[1] % 16, fin |-> b[1] >= 128, body |-> Payload(b)]

-----------------------------------------------------------------------------
(* The answers. *)

\* A length that fits in two bytes is written in host order.
BuildLen_HostOrder(n) ==
    IF n < Bits16 THEN <<n>>
    ELSE IF n < Base * Base THEN <<Bits16>> \o Reverse(Digits(n, 2))
    ELSE <<Bits64>> \o Reverse(Digits(n, 8))

\* build_frame's length: byte i of the eight holds bits 8 * i and up, which is
\* the least significant byte first.
BuildLen(n) ==
    IF n < Bits16 THEN <<n>>
    ELSE IF n < Base * Base THEN <<Bits16>> \o Digits(n, 2)
    ELSE <<Bits64>> \o Reverse(Digits(n, 8))

\* build_frame, of a whole message.
BuildFrame(op, body) == <<128 + op>> \o BuildLen(Len(body)) \o body

Write(op, body) == out' = Append(out, BuildFrame(op, body))

\* The code in network order and the reason, a C string.
CodeBytes(code) == Digits(code % (Base * Base), 2)
CString(s) ==
    LET strlen == CHOOSE n \in 0..Len(s) :
                     (\A i \in 1..n : s[i] # 0) /\ (n < Len(s) => s[n + 1] = 0)
    IN  SubSeq(s, 1, strlen)

\* laure_ws_close answers a close frame with its code and its reason.
CloseBody(body) ==
    IF Len(body) >= 2
    THEN SubSeq(body, 1, 2) \o CString(SubSeq(body, 3, Len(body)))
    ELSE CodeBytes(1000)

\* laure_ws_close and laure_conn_close of an open connection.
CloseWith(body) == Write(Close, body) /\ state' = "CLOSE"

-----------------------------------------------------------------------------
(* laure_ws_on_data. *)

\* A read of n bytes: any number up to Cut, or all there is.
OnData(n) ==
    /\ ctl = "loop" /\ state = "WS_OPEN"
    /\ n <= Cut \/ n = Len(wire) - arrived
    /\ rbuf' = rbuf \o SubSeq(wire, arrived + 1, arrived + n)
    /\ arrived' = arrived + n
    /\ ctl' = "frames"
    /\ UNCHANGED <<peer, state, got, out>>

\* Too few bytes for the header, or for the frame.
Wait ==
    /\ ctl = "frames"
    /\ HeaderRead(rbuf) => Admitted(rbuf) /\ ~Whole(rbuf)
    /\ ctl' = "loop"
    /\ UNCHANGED <<peer, arrived, rbuf, state, got, out>>

\* The length alone is enough to refuse a frame.
Refuse ==
    /\ ctl = "frames"
    /\ HeaderRead(rbuf) /\ ~Admitted(rbuf)
    /\ CloseWith(CodeBytes(1009))
    /\ ctl' = "loop"
    /\ UNCHANGED <<peer, arrived, rbuf, got>>

Take ==
    /\ ctl = "frames"
    /\ HeaderRead(rbuf) /\ Admitted(rbuf) /\ Whole(rbuf)
    /\ rbuf' = SubSeq(rbuf, Hlen(rbuf) + Plen(rbuf) + 1, Len(rbuf))
    /\ LET f == Frame(rbuf) IN
       /\ got' = Append(got, f)
       /\ \/ /\ f.op \in {Cont, Text, Binary, Pong}
             /\ UNCHANGED <<ctl, state, out>>
          \/ /\ f.op = Ping
             /\ Write(Pong, f.body)
             /\ UNCHANGED <<ctl, state>>
          \/ /\ f.op = Close
             /\ CloseWith(CloseBody(f.body))
             /\ ctl' = "loop"
          \/ /\ f.op \notin {Cont, Text, Binary, Close, Ping, Pong}
             /\ CloseWith(CodeBytes(1002))
             /\ ctl' = "loop"
    /\ UNCHANGED <<peer, arrived>>

-----------------------------------------------------------------------------

Init ==
    /\ sent \in UNION {[1..n -> Frames] : n \in 1..MaxFrames}
    /\ wire = Wire(sent)
    /\ arrived = 0 /\ rbuf = <<>>
    /\ ctl = "loop" /\ state = "WS_OPEN"
    /\ got = <<>> /\ out = <<>>

Done == ctl = "loop" /\ (state = "CLOSE" \/ arrived = Len(wire))

Next ==
    \/ \E n \in 1..(Len(wire) - arrived) : OnData(n)
    \/ Wait \/ Refuse \/ Take
    \/ (Done /\ UNCHANGED vars)

Spec == Init /\ [][Next]_vars

-----------------------------------------------------------------------------
(* Properties. *)

\* What ends the connection, and after which of its bytes that is seen.
TooLong(f) == Len(f.body) > MaxFrame
Ends(f) == f.op \notin {Cont, Text, Binary, Ping, Pong} \/ TooLong(f)
SeenAfter(f) ==
    Len(Encode(f)) - IF TooLong(f) THEN Len(f.key) + Len(f.body) ELSE 0

\* What the switch should see of it.
AsSent(f) == [op |-> f.op, fin |-> f.fin, body |-> f.body]

\* The peer's first k frames are seen: all but the last are whole and no end.
Seen(k) ==
    /\ k <= Len(sent)
    /\ k > 0 => Len(Stream(sent)[k - 1]) + SeenAfter(sent[k]) <= arrived
    /\ \A i \in 1..(k - 1) : ~Ends(sent[i])

\* Wherever the reads cut the bytes, in a header, in a key or across frames, and
\* whatever form the lengths have: when libuv's loop runs, the frames handled
\* are those the peer has sent in full, each with its bits and its payload.
FramesExact ==
    ctl = "loop" =>
       LET k == CHOOSE n \in 0..Len(sent) : Seen(n) /\ ~Seen(n + 1)
           handled == IF k > 0 /\ TooLong(sent[k]) THEN k - 1 ELSE k
       IN  /\ got = [i \in 1..handled |-> AsSent(sent[i])]
           /\ state = "CLOSE" <=> k > 0 /\ Ends(sent[k])

\* The last frame is a close frame with a code; the one that answers the peer's
\* has its code, and its reason up to a NUL.
CloseSaid ==
    LET last == Frame(out[Len(out)])
        ask  == got[Len(got)]
    IN  /\ last.op = Close /\ Len(last.body) >= 2
        /\ got # <<>> /\ ask.op = Close /\ Len(ask.body) >= 2 =>
              /\ SubSeq(last.body, 1, 2) = SubSeq(ask.body, 1, 2)
              /\ IsPrefix(last.body, ask.body)
              /\ ~Contains(SubSeq(last.body, 3, Len(last.body)), 0)

\* The pings among the first k frames handled.
Pings(k) == {i \in 1..k : got[i].op = Ping}

\* The last frame handled is a close frame too long for two bytes of length.
LongClose ==
    got # <<>> /\ got[Len(got)].op = Close /\ Len(got[Len(got)].body) >= Base * Base

\* The peer reads the answers as they were meant, one for each ping and a close
\* frame for the end, if they are shorter than 65536 bytes.  The length of a longer
\* pong, or of a close frame that repeats a longer reason, is announced with its
\* bytes turned round (websocket.c:91): the peer finds no end of it.
AnswersExact ==
    /\ Len(out) = Cardinality(Pings(Len(got))) + IF state = "CLOSE" THEN 1 ELSE 0
    /\ \A i \in DOMAIN out :
          Plen(out[i]) <= MaxFrame => Len(out[i]) = Hlen(out[i]) + Plen(out[i])
    /\ \A i \in Pings(Len(got)) :
          LET pong == out[Cardinality(Pings(i))] IN
          IF Len(got[i].body) < Base * Base
          THEN Frame(pong) = [op |-> Pong, fin |-> TRUE, body |-> got[i].body]
          ELSE Plen(pong) > MaxFrame
    /\ state = "CLOSE" => (LongClose /\ Plen(out[Len(out)]) > MaxFrame) \/ CloseSaid

=============================================================================
