------------------------------ MODULE MCWsFrames ------------------------------
EXTENDS WsFrames, Bitwise

MCXor(a, b) == a ^^ b

Key == <<3, 6, 1, 5>>
Body(n) == [i \in 1..n |-> (5 * i + n) % Base]
F(op, fin, form, key, body) ==
    [op |-> op, fin |-> fin, form |-> form, key |-> key, body |-> body]

\* Every form of a length, also longer than it need be, with a key and without,
\* around its limits; every kind of frame.
MCFrames ==
    { F(Text, TRUE, 0, Key, Body(0)),
      F(Text, FALSE, 0, Key, Body(1)),
      F(Cont, TRUE, 0, <<>>, Body(1)),
      F(Binary, TRUE, Bits16, Key, Body(3)),
      F(Binary, TRUE, Bits64, <<>>, Body(1)),
      F(Pong, TRUE, Bits16, Key, Body(Bits16)),
      F(Ping, TRUE, 0, Key, Body(0)),
      F(Ping, TRUE, Bits16, Key, Body(5)),
      F(Ping, TRUE, Bits16, <<>>, Body(Base * Base - 1)),
      F(Ping, TRUE, Bits64, Key, Body(Base * Base + 1)),
      F(Text, TRUE, Bits64, Key, Body(MaxFrame)),
      F(Text, TRUE, Bits64, Key, Body(MaxFrame + 20)),
      F(Close, TRUE, 0, Key, <<>>),
      F(Close, TRUE, Bits16, Key, <<3, 6, 7, 0, 7>>),
      F(Close, TRUE, Bits64, Key, [i \in 1..(Base * Base + 2) |-> (i % 7) + 1]),
      F(11, TRUE, 0, Key, Body(1)) }
===============================================================================
