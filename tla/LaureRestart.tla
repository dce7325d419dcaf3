------------------------------ MODULE LaureRestart ------------------------------
(***************************************************************************)
(* One laure server that is started again: after its loop ended, after a   *)
(* start that failed, or from a callback of the loop that still runs.      *)
(* laure_server_start makes a new loop each time and puts the server's own *)
(* handles, which exist once, on it; the loop that srv->loop pointed to    *)
(* before is neither closed nor freed, and may be running further down the *)
(* C stack.  LaureLoop has the connections of one loop in full; here a     *)
(* connection is a handle on some loop.                                    *)
(***************************************************************************)
EXTENDS Naturals, Sequences

CONSTANTS
    Loops,   \* bound: the loops start() can allocate
    NoLoop,  \* NULL
    Conns    \* bound: the connections

Srv == "srv"  \* the server's listener, signals and tick timer

ASSUME NoLoopAssumption == NoLoop \notin Loops
ASSUME SrvAssumption    == Srv \notin Conns

VARIABLES
    mem,    \* what became of each loop's memory
    cur,    \* srv->loop
    hand,   \* the handles: the server's and the connections'
    stack,  \* uv_run and the callbacks it is in, innermost last
    exc,    \* a PHP exception is pending
    fault   \* the undefined behaviour met, if any

vars == <<mem, cur, hand, stack, exc, fault>>

Handles == Conns \cup {Srv}

\* q: the closing handles that uv_run took off its loop's list.
Frames == [fn : {"uv_run", "callback"}, on : Loops, q : SUBSET Handles]
HandRecs == [st : {"none", "open", "closing", "closed"}, on : Loops \cup {NoLoop}]

TypeOK ==
    /\ mem \in [Loops -> {"unused", "open", "raw", "freed"}]
    /\ cur \in Loops \cup {NoLoop}
    /\ hand \in [Handles -> HandRecs]
    /\ stack \in Seq(Frames)
    /\ exc \in BOOLEAN
    /\ fault \in {"none", "reinit", "raw_loop", "loop_busy", "destroyed"}

-----------------------------------------------------------------------------

Depth == Len(stack)
Top == stack[Depth]
Pop == SubSeq(stack, 1, Depth - 1)
Frame(fn, g) == [fn |-> fn, on |-> g, q |-> {}]

Idle == fault = "none" /\ stack = <<>>
Looping == fault = "none" /\ stack # <<>> /\ Top.fn = "uv_run"
Polling == Looping /\ Top.q = {}
InCallback == fault = "none" /\ stack # <<>> /\ Top.fn = "callback"
InUser == (Idle \/ InCallback) /\ ~exc

\* libuv has not finished with the handle.
Active(h) == hand[h].st \in {"open", "closing"}
Raw(g) == g # NoLoop /\ mem[g] = "raw"

\* uv_walk(loop, walk_close_all, NULL).
WalkCloseAll(g) ==
    hand' = [h \in Handles |->
                IF hand[h].st = "open" /\ hand[h].on = g
                THEN [hand[h] EXCEPT !.st = "closing"] ELSE hand[h]]

-----------------------------------------------------------------------------
(* The script. *)

\* start() frees the loop it replaces.
Start_FreesOld ==
    /\ InUser
    /\ \E g \in Loops :
          /\ mem[g] = "unused"
          /\ mem' = [l \in Loops |-> IF l = g THEN "open"
                                     ELSE IF l = cur THEN "freed" ELSE mem[l]]
          /\ cur' = g
          /\ IF Active(Srv)
             THEN fault' = "reinit" /\ UNCHANGED <<hand, stack>>
             ELSE /\ hand' = [hand EXCEPT ![Srv] = [st |-> "open", on |-> g]]
                  /\ stack' = Append(stack, Frame("uv_run", g))
                  /\ UNCHANGED fault
    /\ UNCHANGED exc

\* laure_server_start.  A handle that libuv is not done with is initialised anew
\* while a list of its old loop runs through it.
Start ==
    /\ InUser
    /\ \E g \in Loops :
          /\ mem[g] = "unused"
          /\ mem' = [mem EXCEPT ![g] = "open"]
          /\ cur' = g
          /\ IF Active(Srv)
             THEN fault' = "reinit" /\ UNCHANGED <<hand, stack>>
             ELSE /\ hand' = [hand EXCEPT ![Srv] = [st |-> "open", on |-> g]]
                  /\ stack' = Append(stack, Frame("uv_run", g))
                  /\ UNCHANGED fault
    /\ UNCHANGED exc

\* cleanup frees the loop without running it.
StartFails_NoRun ==
    /\ InUser
    /\ \E g \in Loops :
          /\ mem[g] = "unused"
          /\ mem' = [mem EXCEPT ![g] = "freed"]
          /\ IF Active(Srv)
             THEN fault' = "reinit" /\ UNCHANGED <<cur, hand, exc>>
             ELSE /\ hand' = [hand EXCEPT ![Srv] = [st |-> "closing", on |-> g]]
                  /\ cur' = NoLoop
                  /\ exc' = TRUE
                  /\ UNCHANGED fault
    /\ UNCHANGED stack

\* ... that cannot have its address: cleanup closes the handles it had made, runs
\* the new loop till they are finished, and frees it.
StartFails ==
    /\ InUser
    /\ \E g \in Loops :
          /\ mem[g] = "unused"
          /\ mem' = [mem EXCEPT ![g] = "freed"]
          /\ IF Active(Srv)
             THEN fault' = "reinit" /\ UNCHANGED <<cur, hand, exc>>
             ELSE /\ hand' = [hand EXCEPT ![Srv] = [st |-> "closed", on |-> g]]
                  /\ cur' = NoLoop
                  /\ exc' = TRUE
                  /\ UNCHANGED fault
    /\ UNCHANGED stack

\* srv->loop is reset, as cleanup does.
LoopInitFails_Resets ==
    /\ InUser
    /\ \E g \in Loops : mem[g] = "unused" /\ mem' = [mem EXCEPT ![g] = "freed"]
    /\ cur' = NoLoop
    /\ exc' = TRUE
    /\ UNCHANGED <<hand, stack, fault>>

\* ... and one that uv_loop_init refused a loop: srv->loop is that loop.
LoopInitFails ==
    /\ InUser
    /\ \E g \in Loops :
          /\ mem[g] = "unused"
          /\ mem' = [mem EXCEPT ![g] = "raw"]
          /\ cur' = g
    /\ exc' = TRUE
    /\ UNCHANGED <<hand, stack, fault>>

\* laure_server_stop, of the loop that the last start() made.
Stop ==
    /\ InUser
    /\ cur # NoLoop
    /\ IF Raw(cur)
       THEN fault' = "raw_loop" /\ UNCHANGED <<hand, stack>>
       ELSE /\ WalkCloseAll(cur)
            /\ stack' = Append(stack, Frame("uv_run", cur))
            /\ UNCHANGED fault
    /\ UNCHANGED <<mem, cur, exc>>

\* laure_server_free_obj: the loops before the last are not in srv any more.
Destroy ==
    /\ Idle
    /\ IF Raw(cur)
       THEN fault' = "raw_loop" /\ UNCHANGED mem
       ELSE /\ mem' = [l \in Loops |-> IF l = cur THEN "freed" ELSE mem[l]]
            /\ fault' = IF \E h \in Handles : Active(h) /\ hand[h].on = cur
                        THEN "loop_busy" ELSE "destroyed"
    /\ UNCHANGED <<cur, hand, stack, exc>>

Catch ==
    /\ Idle \/ InCallback
    /\ exc /\ exc' = FALSE
    /\ UNCHANGED <<mem, cur, hand, stack, fault>>

-----------------------------------------------------------------------------
(* The loop that runs: uv_run of the innermost frame. *)

\* laure_on_new_connection inits the connection's handle on srv->loop, whichever
\* loop the listener is on.
Accept(c) ==
    /\ Polling
    /\ hand[Srv].st = "open" /\ hand[Srv].on = Top.on
    /\ hand[c].st = "none"
    /\ IF Raw(cur)
       THEN fault' = "raw_loop" /\ UNCHANGED <<hand, stack>>
       ELSE /\ hand' = [hand EXCEPT ![c] = [st |-> "open", on |-> cur]]
            /\ stack' \in {stack, Append(stack, Frame("callback", Top.on))}
            /\ UNCHANGED fault
    /\ UNCHANGED <<mem, cur, exc>>

\* The tick, receive and request callbacks.
Callback ==
    /\ Polling /\ ~exc
    /\ \E h \in Handles : hand[h].st = "open" /\ hand[h].on = Top.on
    /\ stack' = Append(stack, Frame("callback", Top.on))
    /\ UNCHANGED <<mem, cur, hand, exc, fault>>

\* laure_conn_close, by the peer's end of file or by the script.
Close(c) ==
    /\ hand[c].st = "open"
    /\ InUser \/ (Polling /\ hand[c].on = Top.on)
    /\ hand' = [hand EXCEPT ![c].st = "closing"]
    /\ UNCHANGED <<mem, cur, stack, exc, fault>>

\* on_signal closes what is on the signal's loop, not on srv->loop.
OnSignal ==
    /\ Polling
    /\ hand[Srv].st = "open" /\ hand[Srv].on = Top.on
    /\ WalkCloseAll(Top.on)
    /\ UNCHANGED <<mem, cur, stack, exc, fault>>

Queued(h) == \E i \in 1..Depth : h \in stack[i].q
Pending(g) == {h \in Handles : hand[h].st = "closing" /\ hand[h].on = g /\ ~Queued(h)}

TakeClosing ==
    /\ Polling
    /\ Pending(Top.on) # {}
    /\ stack' = [stack EXCEPT ![Depth].q = Pending(Top.on)]
    /\ UNCHANGED <<mem, cur, hand, exc, fault>>

\* uv__finish_close; on_handle_closed may call the close callback.
Finish(h) ==
    /\ Looping
    /\ h \in Top.q
    /\ hand' = [hand EXCEPT ![h].st = "closed"]
    /\ LET s == [stack EXCEPT ![Depth].q = @ \ {h}] IN
       \/ stack' = s
       \/ h # Srv /\ ~exc /\ stack' = Append(s, Frame("callback", Top.on))
    /\ UNCHANGED <<mem, cur, exc, fault>>

\* A handle that the outer uv_run is to finish does not keep an inner one going.
ExitRun ==
    /\ Polling
    /\ Pending(Top.on) = {}
    /\ \A h \in Handles : hand[h].on = Top.on => hand[h].st # "open"
    /\ stack' = Pop
    /\ UNCHANGED <<mem, cur, hand, exc, fault>>

Return ==
    /\ InCallback
    /\ exc' \in {exc, TRUE}
    /\ stack' = Pop
    /\ UNCHANGED <<mem, cur, hand, fault>>

-----------------------------------------------------------------------------

Init ==
    /\ mem = [l \in Loops |-> "unused"]
    /\ cur = NoLoop
    /\ hand = [h \in Handles |-> [st |-> "none", on |-> NoLoop]]
    /\ stack = <<>>
    /\ exc = FALSE
    /\ fault = "none"

Script == Start \/ StartFails \/ LoopInitFails \/ Stop \/ Destroy \/ Catch
Run == \/ Callback \/ OnSignal \/ TakeClosing \/ ExitRun \/ Return
       \/ \E c \in Conns : Accept(c) \/ Close(c)
       \/ \E h \in Handles : Finish(h)

Next == Script \/ Run \/ (fault # "none" /\ UNCHANGED vars)

Spec == Init /\ [][Next]_vars

-----------------------------------------------------------------------------
(* Properties. *)

\* Every uv_run on the C stack, however many starts and stops the callbacks above
\* it nested, comes back to a loop that was not freed.  It is the leak below
\* that keeps it so: a start() that freed the loop it replaces would free one
\* that is running.
SuspendedKept == \A i \in 1..Depth : mem[stack[i].on] = "open"

\* The last loop is freed with the object.  A loop that start() replaced, with its
\* descriptors, never is (server.c:110).
OldLoopsLeak ==
    [][\A g \in Loops : mem[g] = "open" =>
          mem'[g] = "open" \/ (g = cur /\ fault' = "destroyed")]_vars

\* When the outermost start() or stop() has returned, no handle is left on any
\* loop, old or new: the script may start and destroy the server again, whatever
\* failed and whatever its callbacks nested.
IdleClean ==
    Idle => \A h \in Handles : ~Active(h)

\* A connection is put on the loop that its listener is on, though the code takes
\* srv->loop: the two differ only after a start() that uv_loop_init refused.
OwnLoop ==
    fault = "none" /\ hand[Srv].st = "open" => hand[Srv].on = cur \/ Raw(cur)

\* The undefined behaviour this code has: a start() in a callback before the
\* server's handles were finished, and the use of a loop that uv_loop_init
\* refused.  uv_loop_close always finds the last loop empty.
KnownRestartFaults ==
    /\ fault = "reinit" => stack # <<>> /\ Active(Srv)
    /\ fault = "raw_loop" => Raw(cur)
    /\ fault # "loop_busy"

-----------------------------------------------------------------------------
(* The inductive invariant behind them.                                     *)

\* A handle lies on an open loop, and that loop has a uv_run on the stack.
HandlesRun ==
    \A h \in Handles : Active(h) =>
        /\ hand[h].on \in Loops /\ mem[hand[h].on] = "open"
        /\ \E i \in 1..Depth : stack[i].fn = "uv_run" /\ stack[i].on = hand[h].on

\* What uv_run took off its loop's list is on that loop, and on one list only.
QueuesOK ==
    \A i \in 1..Depth : \A h \in stack[i].q :
        /\ hand[h].st = "closing" /\ hand[h].on = stack[i].on
        /\ stack[i].fn = "uv_run"
        /\ \A j \in 1..Depth : h \in stack[j].q => i = j

IInv ==
    /\ TypeOK
    /\ HandlesRun /\ QueuesOK /\ SuspendedKept
    /\ fault # "destroyed" /\ cur # NoLoop => mem[cur] \in {"open", "raw"}
    /\ OwnLoop /\ KnownRestartFaults

=============================================================================
