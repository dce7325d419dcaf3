------------------------------- MODULE WsChannel -------------------------------
(***************************************************************************)
(* What a WebSocket connection of laure promises its message callback, with *)
(* no frames, no buffers and no close handshake: the messages that the peer *)
(* completed, whole, in order, once each.  Messages that arrived before the *)
(* connection was closed may still be handed over after it; none arrives    *)
(* after it.  A script that threw an exception hears nothing more.          *)
(***************************************************************************)
EXTENDS Naturals, Sequences

VARIABLES
    sent,    \* the messages whose last byte has arrived: a function from their
             \* places in the stream, numbers that grow, to the messages
    taken,   \* the places of those that are dealt with
    got,     \* those that the message callback was given
    open,    \* the connection is not closed
    deaf     \* no callback is called

vars == <<sent, taken, got, open, deaf>>

Init == DOMAIN sent = {} /\ taken = {} /\ got = <<>> /\ open = TRUE /\ deaf \in BOOLEAN

\* Some more messages arrive, behind those that are here.
Arrive ==
    /\ open
    /\ DOMAIN sent \subseteq DOMAIN sent'
    /\ \A p \in DOMAIN sent : sent'[p] = sent[p]
    /\ \A p \in DOMAIN sent, q \in DOMAIN sent' \ DOMAIN sent : p < q
    /\ UNCHANGED <<taken, got, open, deaf>>

\* The next message is handed over, or dropped for want of a listener.
Take ==
    /\ \E p \in DOMAIN sent \ taken :
          /\ \A q \in DOMAIN sent \ taken : p <= q
          /\ taken' = taken \cup {p}
          /\ got' = IF deaf THEN got ELSE Append(got, sent[p])
    /\ UNCHANGED <<sent, open, deaf>>

Close == open' = FALSE /\ UNCHANGED <<sent, taken, got, deaf>>
Throw == deaf' = TRUE /\ UNCHANGED <<sent, taken, got, open>>

Next == Arrive \/ Take \/ Close \/ Throw

Spec == Init /\ [][Next]_vars

===============================================================================
