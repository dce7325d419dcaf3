------------------------------- MODULE ConnLife -------------------------------
(***************************************************************************)
(* What laure promises a PHP script about its connections, with no loop,   *)
(* no frames and no memory: a connection opens, is handed data while it is *)
(* open, is closed once, tells its close callback once, and is gone.  A    *)
(* server that stops abandons its open connections without telling.        *)
(***************************************************************************)
EXTENDS Naturals

CONSTANT Conns

VARIABLES
    life,   \* where each connection is in its life
    got     \* chunks that each connection's receive callback was handed

vars == <<life, got>>

Lives == {"absent", "open", "closing", "notifying", "gone", "abandoned"}

TypeOK == life \in [Conns -> Lives] /\ got \in [Conns -> Nat]

Init ==
    /\ life = [c \in Conns |-> "absent"]
    /\ got = [c \in Conns |-> 0]

Become(c, from, to) ==
    /\ life[c] = from
    /\ life' = [life EXCEPT ![c] = to]
    /\ UNCHANGED got

Open(c)   == Become(c, "absent", "open")
Refuse(c) == Become(c, "absent", "gone")
Close(c)  == Become(c, "open", "closing")
Notify(c) == Become(c, "closing", "notifying")
\* The close callback returned, or none was called.
Vanish(c) == Become(c, "notifying", "gone") \/ Become(c, "closing", "gone")

\* The receive callback is handed more chunks, of an open connection only.
Deliver(c) ==
    /\ life[c] = "open"
    /\ got'[c] > got[c]
    /\ got' = [got EXCEPT ![c] = got'[c]]
    /\ UNCHANGED life

Stop ==
    /\ life' = [c \in Conns |-> IF life[c] = "open" THEN "abandoned" ELSE life[c]]
    /\ UNCHANGED got

Next ==
    \/ Stop
    \/ \E c \in Conns : \/ Open(c) \/ Refuse(c) \/ Close(c)
                        \/ Notify(c) \/ Vanish(c) \/ Deliver(c)

Spec == Init /\ [][Next]_vars

===============================================================================
