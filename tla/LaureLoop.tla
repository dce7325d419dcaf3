------------------------------ MODULE LaureLoop ------------------------------
(***************************************************************************)
(* The life of the connections of one laure server: conn.c and server.c    *)
(* run by one libuv loop inside one PHP process.                           *)
(*                                                                         *)
(* Everything happens on one C stack.  uv_run calls into conn.c, conn.c    *)
(* calls a PHP callback, and the callback may call back into conn.c        *)
(* (send, close) or server.c (stop, which runs the loop again, nested).    *)
(* The variable stack holds the C frames that are suspended in a PHP       *)
(* callback or in uv_run, so a step is one handler up to the next point    *)
(* where PHP code or the loop takes over.                                  *)
(*                                                                         *)
(* What C leaves undefined (touching a connection that was freed) sets     *)
(* fault and stops the model.                                              *)
(***************************************************************************)
EXTENDS Naturals, Sequences

CONSTANTS
    Conns,        \* the connections the listener may accept
    NoConn,       \* the "connection" of a frame that serves none
    ServerType,   \* laure_server_t.type: the two that PHP classes construct
    Events,       \* the event names the script registers callbacks for
    MaxReads,     \* bound: chunks read from one TCP connection
    MaxPend,      \* bound: write requests of a connection under way
    MaxPipeline   \* bound: complete HTTP requests in one read

ASSUME NoConnAssumption == NoConn \notin Conns
ASSUME TypeAssumption   == ServerType \in {"TCP", "HTTP"}
ASSUME EventAssumption  ==
    Events \subseteq {"connect", "receive", "close", "request", "tick"}
ASSUME BoundAssumption  ==
    MaxReads \in Nat /\ MaxPend \in Nat /\ MaxPipeline \in Nat

VARIABLES
    conn,      \* per connection, the fields of laure_conn_t that matter
    closing,   \* connections on loop->closing_handles
    stack,     \* the C frames, innermost last
    srvh,      \* the server's own handles: listener, signals, tick timer
    loop,      \* srv->loop
    cbs,       \* events with a registered callback (srv->cb_...)
    exc,       \* the PHP exception that no PHP code has caught yet
    objs,      \* PHP objects handed out, each with its dangling-prone conn
    undercut,  \* history: connections closed under a frame that stop() ran in
    fault      \* the undefined behaviour met, if any

vars == <<conn, closing, stack, srvh, loop, cbs, exc, objs, undercut, fault>>

phpVars == <<cbs, exc, objs>>
srvVars == <<srvh, loop>>

-----------------------------------------------------------------------------
(* Types. *)

ConnFns == {"laure_conn_accept", "dispatch_plain", "llhttp_execute"}
FnNames == ConnFns \cup {"uv_run", "on_tick", "on_handle_closed"}

\* n is the number of requests still to dispatch by llhttp_execute; q the
\* handles uv_run has taken off loop->closing_handles and not yet finished.
Frames == [fn : FnNames, c : Conns \cup {NoConn}, q : SUBSET Conns, n : Nat]

\* rcvd: chunks read that rbuf had room for; held: how many of the latest are
\* in rbuf; dlvd: the latest chunk passed to the receive callback; pend: writes
\* libuv owns; orphan: a write request that uv_write refused and nobody frees.
ConnRecs ==
    [mem     : {"none", "live", "freed"},
     state   : {"TCP", "HTTP", "CLOSE"},
     handle  : {"none", "open", "closing", "closed"},
     closeCb : {"NULL", "on_handle_closed"},
     reading : BOOLEAN,
     pend    : Nat,
     orphan  : BOOLEAN,
     rcvd    : Nat,
     held    : Nat,
     dlvd    : Nat]

Faults == {"none",
           "resume",        \* a C frame went on with a connection freed under it
           "object",        \* PHP used an object whose connection was freed
           "uv_closing",    \* libuv walked or finished a handle in freed memory
           "double_free",   \* efree of a freed connection
           "loop_busy",     \* uv_loop_close found open handles, loop freed
           "raw_loop"}      \* a loop that uv_loop_init refused was used

TypeOK ==
    /\ conn \in [Conns -> ConnRecs]
    /\ closing \subseteq Conns
    /\ stack \in Seq(Frames)
    /\ srvh \in {"none", "open", "closing"}
    /\ loop \in {"NULL", "open", "raw", "freed"}
    /\ cbs \subseteq Events
    /\ exc \in {"none", "pending", "cleared"}
    /\ objs \subseteq Conns \X {"Connection", "Response"}
    /\ undercut \subseteq Conns
    /\ fault \in Faults

-----------------------------------------------------------------------------
(* Frames and callbacks. *)

Frame(fn, c, n) == [fn |-> fn, c |-> c, q |-> {}, n |-> n]
RunFrame == Frame("uv_run", NoConn, 0)

Depth == Len(stack)
Top == stack[Depth]
Pop == SubSeq(stack, 1, Depth - 1)

\* uv_run is in control; Polling: it is not draining a list of closed handles.
Looping == fault = "none" /\ stack # <<>> /\ Top.fn = "uv_run"
Polling == Looping /\ Top.q = {}
\* PHP code runs: the script itself (Idle) or a callback (InCallback).
Idle       == fault = "none" /\ stack = <<>> /\ loop # "freed"
InCallback == fault = "none" /\ stack # <<>> /\ Top.fn # "uv_run"
\* ... and no exception is unwinding it.
InUser == (Idle \/ InCallback) /\ exc # "pending"

\* laure_zval_cb runs the callback: it is registered, and the engine, which
\* starts no call while an exception is pending, accepts the call.
Callable(e) == e \in cbs /\ exc # "pending"

-----------------------------------------------------------------------------
(* laure_conn_t and its libuv handle. *)

NewConn ==
    [mem |-> "none", state |-> ServerType, handle |-> "none",
     closeCb |-> "NULL", reading |-> FALSE, pend |-> 0, orphan |-> FALSE,
     rcvd |-> 0, held |-> 0, dlvd |-> 0]

\* uv_close(handle, on_handle_closed): libuv stops reading at once and calls
\* back when the loop next drains its closing handles.
UvClosed(r, cb) ==
    [r EXCEPT !.handle = "closing", !.closeCb = cb, !.reading = FALSE]

ClosesHandle(r) == r.state # "CLOSE" /\ r.handle = "open"

\* close() of a connection that walk_close_all closed sets the callback anew.
ClosedRec_Retarget(r) == [UvClosed(r, "on_handle_closed") EXCEPT !.state = "CLOSE"]

\* laure_conn_close on the connection's fields.
ClosedRec(r) ==
    IF ClosesHandle(r)
    THEN [UvClosed(r, "on_handle_closed") EXCEPT !.state = "CLOSE"]
    ELSE [r EXCEPT !.state = "CLOSE"]

\* laure_conn_close frees the connection itself, as laure_conn_accept does.
LaureConnClose_Frees(c) ==
    /\ conn' = [conn EXCEPT ![c] = [ClosedRec(@) EXCEPT !.mem = "freed"]]
    /\ closing' = IF ClosesHandle(conn[c]) THEN closing \cup {c} ELSE closing

LaureConnClose(c) ==
    /\ conn' = [conn EXCEPT ![c] = ClosedRec(@)]
    /\ closing' = IF ClosesHandle(conn[c]) THEN closing \cup {c} ELSE closing

\* laure_conn_send_raw without its test of the state.
SentRec_NoGuard(r) ==
    IF r.handle = "open" THEN [r EXCEPT !.pend = @ + 1] ELSE [r EXCEPT !.orphan = TRUE]

\* laure_conn_send_raw: nothing once closed.  uv_write refuses a handle that
\* is closing; its result is ignored, so the request is never freed.
SentRec(r) ==
    IF r.state = "CLOSE" THEN r
    ELSE IF r.handle = "open" THEN [r EXCEPT !.pend = @ + 1]
    ELSE [r EXCEPT !.orphan = TRUE]

\* Closing a handle leaves its writes waiting.
FinishedRec_KeepsWrites(r) == [r EXCEPT !.handle = "closed"]

\* uv__finish_close: cancels the writes (on_write_done frees them).
FinishedRec(r) == [r EXCEPT !.handle = "closed", !.pend = 0]

\* A handle on the loop's lists whose memory is gone.
DanglingHandle(c) == conn[c].handle = "closing" /\ conn[c].mem = "freed"

\* libuv follows loop->handle_queue through every handle, dangling or not.
TouchHandles ==
    fault' = IF \E c \in Conns : DanglingHandle(c) THEN "uv_closing" ELSE fault

\* stop() closes the listener, the signals and the timer only.
WalkCloseAll_ServerOnly ==
    /\ srvh' = IF srvh = "open" THEN "closing" ELSE srvh
    /\ UNCHANGED <<conn, closing, fault>>

\* uv_walk(loop, walk_close_all, NULL): closes what is open, with no callback.
WalkCloseAll ==
    /\ conn' = [c \in Conns |-> IF conn[c].handle = "open"
                                THEN UvClosed(conn[c], "NULL")
                                ELSE conn[c]]
    /\ closing' = closing \cup {c \in Conns : conn[c].handle = "open"}
    /\ srvh' = IF srvh = "open" THEN "closing" ELSE srvh
    /\ TouchHandles

-----------------------------------------------------------------------------
(* The script: start(), stop(), on(), destruction of the server object. *)

Start ==
    /\ Idle
    /\ exc # "pending"
    /\ loop' = "open"
    /\ srvh' = "open"
    /\ stack' = <<RunFrame>>
    /\ UNCHANGED <<conn, closing, phpVars, undercut, fault>>

\* Bad address, bind or listen failed: start() closes and frees its loop.
StartFails ==
    /\ Idle
    /\ exc # "pending"
    /\ loop' = "NULL"
    /\ exc' = "pending"
    /\ UNCHANGED <<conn, closing, stack, srvh, cbs, objs, undercut, fault>>

\* uv_loop_init failed: the zeroed loop stays in srv->loop.
LoopInitFails ==
    /\ Idle
    /\ exc # "pending"
    /\ loop' = "raw"
    /\ exc' = "pending"
    /\ UNCHANGED <<conn, closing, stack, srvh, cbs, objs, undercut, fault>>

\* Connections that a suspended frame still uses and a nested loop will free.
Endangered ==
    {c \in closing : /\ conn[c].closeCb = "on_handle_closed"
                     /\ \E i \in 1..Depth : stack[i].fn \in ConnFns /\ stack[i].c = c}

\* laure_server_stop, from the script or from a callback.
PhpStop ==
    /\ InUser
    /\ loop # "NULL"
    /\ IF loop = "raw"
       THEN /\ fault' = "raw_loop"
            /\ UNCHANGED <<conn, closing, stack, srvh, undercut>>
       ELSE /\ WalkCloseAll
            /\ stack' = Append(stack, RunFrame)
            /\ undercut' = undercut \cup Endangered
    /\ UNCHANGED <<loop, phpVars>>

PhpOn(e) ==
    /\ InUser
    /\ e \notin cbs
    /\ cbs' = cbs \cup {e}
    /\ UNCHANGED <<conn, closing, stack, srvVars, exc, objs, undercut, fault>>

\* PHP code catches the exception.
PhpCatch ==
    /\ Idle \/ InCallback
    /\ exc = "pending"
    /\ exc' = "cleared"
    /\ UNCHANGED <<conn, closing, stack, srvVars, cbs, objs, undercut, fault>>

\* laure_server_free_obj: uv_loop_close refuses a loop with handles left on
\* it, its result is ignored and the loop is freed all the same.
Destroy ==
    /\ Idle
    /\ fault' = CASE loop = "raw" -> "raw_loop"
                  [] loop = "open" /\ (srvh # "none" \/
                        \E c \in Conns : conn[c].handle \in {"open", "closing"})
                          -> "loop_busy"
                  [] OTHER -> fault
    /\ loop' = "freed"
    /\ UNCHANGED <<conn, closing, stack, srvh, phpVars, undercut>>

-----------------------------------------------------------------------------
(* Connection and Response objects in PHP code. *)

\* Connection::send, Response::write, end, json, redirect.
PhpSend(c) ==
    /\ InUser
    /\ \E kind \in {"Connection", "Response"} : <<c, kind>> \in objs
    /\ conn[c].mem = "live"
    /\ conn[c].pend < MaxPend
    /\ conn' = [conn EXCEPT ![c] = SentRec(@)]
    /\ UNCHANGED <<closing, stack, srvVars, phpVars, undercut, fault>>

\* Connection::close.
PhpClose(c) ==
    /\ InUser
    /\ <<c, "Connection">> \in objs
    /\ conn[c].mem = "live"
    /\ LaureConnClose(c)
    /\ UNCHANGED <<stack, srvVars, phpVars, undercut, fault>>

\* Any method of an object whose conn pointer outlived the connection.
PhpUseStale(c) ==
    /\ InUser
    /\ \E kind \in {"Connection", "Response"} : <<c, kind>> \in objs
    /\ conn[c].mem = "freed"
    /\ fault' = "object"
    /\ UNCHANGED <<conn, closing, stack, srvVars, phpVars, undercut>>

-----------------------------------------------------------------------------
(* What the loop delivers: connections, data, ends of file, timers, signals. *)

\* laure_conn_accept up to the connect callback, or to its end without one.
Accept(c) ==
    /\ Polling
    /\ srvh = "open"
    /\ conn[c].mem = "none"
    /\ conn' = [conn EXCEPT ![c] =
                  [NewConn EXCEPT !.mem = "live", !.handle = "open",
                                  !.reading = ~Callable("connect")]]
    /\ IF Callable("connect")
       THEN /\ stack' = Append(stack, Frame("laure_conn_accept", c, 0))
            /\ objs' = objs \cup {<<c, "Connection">>}
       ELSE UNCHANGED <<stack, objs>>
    /\ TouchHandles
    /\ UNCHANGED <<closing, srvVars, cbs, exc, undercut>>

\* uv_accept failed: the connection is freed at once, although the loop keeps
\* its closing handle, which lies inside it, until it finishes closing it.
AcceptFails(c) ==
    /\ Polling
    /\ srvh = "open"
    /\ conn[c].mem = "none"
    /\ conn' = [conn EXCEPT ![c] = [UvClosed(NewConn, "NULL") EXCEPT !.mem = "freed"]]
    /\ closing' = closing \cup {c}
    /\ TouchHandles
    /\ UNCHANGED <<stack, srvVars, phpVars, undercut>>

Readable(c) == Polling /\ conn[c].handle = "open" /\ conn[c].reading

\* dispatch_plain, LAURE_CONN_TCP: the receive callback is given all of rbuf.
\* What laure_buf_append returns is ignored: when it had no memory the chunk is
\* lost and everything goes on, the callback included, with what rbuf has.
ReadTcp(c) ==
    /\ Readable(c)
    /\ conn[c].state = "TCP"
    /\ conn[c].rcvd < MaxReads
    /\ \E kept \in {0, 1} :
         LET r == [conn[c] EXCEPT !.rcvd = @ + kept, !.held = @ + kept] IN
         \/ /\ Callable("receive")
            /\ conn' = [conn EXCEPT ![c] = [r EXCEPT !.dlvd = @ + r.held]]
            /\ stack' = Append(stack, Frame("dispatch_plain", c, 0))
            /\ objs' = objs \cup {<<c, "Connection">>}
         \/ /\ "receive" \in cbs /\ ~Callable("receive")
            /\ conn' = [conn EXCEPT ![c] = [r EXCEPT !.held = 0]]
            /\ UNCHANGED <<stack, objs>>
         \/ /\ "receive" \notin cbs
            /\ conn' = [conn EXCEPT ![c] = r]
            /\ UNCHANGED <<stack, objs>>
    /\ UNCHANGED <<closing, srvVars, cbs, exc, undercut, fault>>

\* dispatch_plain, LAURE_CONN_HTTP: llhttp_execute completes n requests; what
\* it returns is never a pause for an upgrade, so the connection is closed.
ReadHttp(c) ==
    /\ Readable(c)
    /\ conn[c].state = "HTTP"
    /\ \E n \in 0..MaxPipeline :
         IF n > 0 /\ Callable("request")
         THEN /\ stack' = Append(stack, Frame("llhttp_execute", c, n - 1))
              /\ objs' = objs \cup {<<c, "Response">>}
              /\ UNCHANGED <<conn, closing>>
         ELSE /\ LaureConnClose(c)
              /\ UNCHANGED <<stack, objs>>
    /\ UNCHANGED <<srvVars, cbs, exc, undercut, fault>>

\* The end of file frees the connection without waiting for on_handle_closed.
ReadEof_Frees(c) ==
    /\ Readable(c)
    /\ conn' = [conn EXCEPT ![c] = [ClosedRec(@) EXCEPT !.mem = "freed"]]
    /\ closing' = closing \cup {c}
    /\ UNCHANGED <<stack, srvVars, phpVars, undercut, fault>>

\* on_read with nread < 0: libuv has stopped reading.
ReadEof(c) ==
    /\ Readable(c)
    /\ IF conn[c].state = "CLOSE"
       THEN /\ conn' = [conn EXCEPT ![c].reading = FALSE]
            /\ UNCHANGED closing
       ELSE LaureConnClose(c)
    /\ UNCHANGED <<stack, srvVars, phpVars, undercut, fault>>

\* on_write_done.
WriteDone(c) ==
    /\ Polling
    /\ conn[c].handle = "open"
    /\ conn[c].pend > 0
    /\ conn' = [conn EXCEPT ![c].pend = @ - 1]
    /\ UNCHANGED <<closing, stack, srvVars, phpVars, undercut, fault>>

OnTick ==
    /\ Polling
    /\ srvh = "open"
    /\ Callable("tick")
    /\ stack' = Append(stack, Frame("on_tick", NoConn, 0))
    /\ UNCHANGED <<conn, closing, srvVars, phpVars, undercut, fault>>

OnSignal ==
    /\ Polling
    /\ srvh = "open"
    /\ WalkCloseAll
    /\ UNCHANGED <<stack, loop, phpVars, undercut>>

-----------------------------------------------------------------------------
(* The loop's own work: uv__run_closing_handles and uv__loop_alive. *)

\* uv_run takes the list of closing handles; the server's own need no callback.
TakeClosing ==
    /\ Polling
    /\ closing # {} \/ srvh = "closing"
    /\ stack' = [stack EXCEPT ![Depth].q = closing]
    /\ closing' = {}
    /\ srvh' = IF srvh = "closing" THEN "none" ELSE srvh
    /\ UNCHANGED <<conn, loop, phpVars, undercut, fault>>

\* The rest of the list once c is done.
Drained(c) == [stack EXCEPT ![Depth].q = @ \ {c}]

FinishDangling(c) ==
    /\ Looping
    /\ c \in Top.q
    /\ conn[c].mem = "freed"
    /\ fault' = "uv_closing"
    /\ UNCHANGED <<conn, closing, stack, srvVars, phpVars, undercut>>

\* A handle closed by walk_close_all: nobody frees the connection.
FinishWalked(c) ==
    /\ Looping
    /\ c \in Top.q
    /\ conn[c].mem = "live"
    /\ conn[c].closeCb = "NULL"
    /\ conn' = [conn EXCEPT ![c] = FinishedRec(@)]
    /\ stack' = Drained(c)
    /\ UNCHANGED <<closing, srvVars, phpVars, undercut, fault>>

\* on_handle_closed up to the close callback, or to its end without one.
OnHandleClosed(c) ==
    /\ Looping
    /\ c \in Top.q
    /\ conn[c].mem = "live"
    /\ conn[c].closeCb = "on_handle_closed"
    /\ IF Callable("close")
       THEN /\ conn' = [conn EXCEPT ![c] = FinishedRec(@)]
            /\ stack' = Append(Drained(c), Frame("on_handle_closed", c, 0))
            /\ objs' = objs \cup {<<c, "Connection">>}
       ELSE /\ conn' = [conn EXCEPT ![c] = [FinishedRec(@) EXCEPT !.mem = "freed"]]
            /\ stack' = Drained(c)
            /\ UNCHANGED objs
    /\ UNCHANGED <<closing, srvVars, cbs, exc, undercut, fault>>

\* uv__loop_alive; a write under way keeps the loop alive even when its handle
\* waits in the list that an outer uv_run is draining.
Alive ==
    \/ srvh # "none"
    \/ closing # {}
    \/ \E c \in Conns : conn[c].pend > 0 \/ (conn[c].handle = "open" /\ conn[c].reading)

ExitRun ==
    /\ Polling
    /\ ~Alive
    /\ stack' = Pop
    /\ UNCHANGED <<conn, closing, srvVars, phpVars, undercut, fault>>

-----------------------------------------------------------------------------
(* A callback returns to the C function that called it, by itself or thrown *)
(* out of by an exception.                                                  *)

Returns(fn) == InCallback /\ Top.fn = fn /\ exc' \in {exc, "pending"}

\* The frame's connection was freed while it was suspended.
ResumeFreed ==
    /\ InCallback
    /\ Top.fn \in ConnFns
    /\ conn[Top.c].mem = "freed"
    /\ fault' = "resume"
    /\ UNCHANGED <<conn, closing, stack, srvVars, phpVars, undercut>>

\* laure_conn_accept: uv_read_start, which a closing handle refuses.
ReturnConnect ==
    /\ Returns("laure_conn_accept")
    /\ conn[Top.c].mem = "live"
    /\ conn' = [conn EXCEPT ![Top.c].reading = (conn[Top.c].handle = "open")]
    /\ stack' = Pop
    /\ UNCHANGED <<closing, srvVars, cbs, objs, undercut, fault>>

\* The buffer is not reset after the callback.
ReturnReceive_KeepsBuf ==
    /\ Returns("dispatch_plain")
    /\ conn[Top.c].mem = "live"
    /\ stack' = Pop
    /\ UNCHANGED <<conn, closing, srvVars, cbs, objs, undercut, fault>>

\* dispatch_plain: laure_buf_reset(&c->rbuf).
ReturnReceive ==
    /\ Returns("dispatch_plain")
    /\ conn[Top.c].mem = "live"
    /\ conn' = [conn EXCEPT ![Top.c].held = 0]
    /\ stack' = Pop
    /\ UNCHANGED <<closing, srvVars, cbs, objs, undercut, fault>>

\* dispatch_plain keeps the connection when the parser would.
ReturnRequest_KeepAlive ==
    /\ Returns("llhttp_execute")
    /\ conn[Top.c].mem = "live"
    /\ stack' = Pop
    /\ \/ LaureConnClose(Top.c)
       \/ UNCHANGED <<conn, closing>>
    /\ UNCHANGED <<srvVars, cbs, objs, undercut, fault>>

\* laure_http_dispatch: the next request of the same read if the parser keeps
\* the connection alive, whether or not PHP closed it; at last dispatch_plain's
\* laure_conn_close.
ReturnRequest ==
    /\ Returns("llhttp_execute")
    /\ conn[Top.c].mem = "live"
    /\ \E keepAlive \in BOOLEAN :
         IF keepAlive /\ Top.n > 0 /\ "request" \in cbs /\ exc' # "pending"
         THEN /\ stack' = [stack EXCEPT ![Depth].n = @ - 1]
              /\ UNCHANGED <<conn, closing>>
         ELSE /\ stack' = Pop
              /\ LaureConnClose(Top.c)
    /\ UNCHANGED <<srvVars, cbs, objs, undercut, fault>>

ReturnTick ==
    /\ Returns("on_tick")
    /\ stack' = Pop
    /\ UNCHANGED <<conn, closing, srvVars, cbs, objs, undercut, fault>>

\* An exception in the close callback skips efree.
ReturnClose_Leaks ==
    /\ Returns("on_handle_closed")
    /\ conn' = IF exc' = "pending" THEN conn ELSE [conn EXCEPT ![Top.c].mem = "freed"]
    /\ stack' = Pop
    /\ UNCHANGED <<closing, srvVars, cbs, objs, undercut, fault>>

\* on_handle_closed: efree(c).
ReturnClose ==
    /\ Returns("on_handle_closed")
    /\ fault' = IF conn[Top.c].mem = "freed" THEN "double_free" ELSE fault
    /\ conn' = [conn EXCEPT ![Top.c].mem = "freed"]
    /\ stack' = Pop
    /\ UNCHANGED <<closing, srvVars, cbs, objs, undercut>>

-----------------------------------------------------------------------------
(* The specification. *)

Init ==
    /\ conn = [c \in Conns |-> NewConn]
    /\ closing = {}
    /\ stack = <<>>
    /\ srvh = "none"
    /\ loop = "NULL"
    /\ cbs \in SUBSET Events
    /\ exc = "none"
    /\ objs = {}
    /\ undercut = {}
    /\ fault = "none"

\* A nested uv_run waits for a write whose handle only the outer one can finish.
Hung ==
    /\ Polling
    /\ srvh = "none" /\ closing = {}
    /\ \A c \in Conns : conn[c].handle # "open"
    /\ \E c \in Conns : conn[c].pend > 0

\* The process crashed, hangs, or has destroyed its server.
Terminated == (fault # "none" \/ loop = "freed" \/ Hung) /\ UNCHANGED vars

Script == Start \/ StartFails \/ LoopInitFails \/ Destroy
Php == \/ PhpStop \/ PhpCatch
       \/ \E e \in Events : PhpOn(e)
       \/ \E c \in Conns : PhpSend(c) \/ PhpClose(c) \/ PhpUseStale(c)
Network == \/ OnTick \/ OnSignal
           \/ \E c \in Conns : \/ Accept(c) \/ AcceptFails(c) \/ WriteDone(c)
                               \/ ReadTcp(c) \/ ReadHttp(c) \/ ReadEof(c)
Finish == \E c \in Conns : FinishDangling(c) \/ FinishWalked(c) \/ OnHandleClosed(c)
Return == \/ ResumeFreed \/ ReturnConnect \/ ReturnReceive \/ ReturnRequest
          \/ ReturnTick \/ ReturnClose

Next == \/ Script \/ Php \/ Network
        \/ TakeClosing \/ Finish \/ ExitRun \/ Return
        \/ Terminated

Spec == Init /\ [][Next]_vars

\* Every iteration of uv_run finishes the closing handles, a loop with nothing
\* left to do ends, and PHP callbacks return.
Fairness ==
    /\ SF_vars(TakeClosing)
    /\ WF_vars(Finish)
    /\ WF_vars(ExitRun)
    /\ SF_vars(Return)

FairSpec == Spec /\ Fairness

-----------------------------------------------------------------------------
(* Properties. *)

\* The receive callback, the close callback of c is active.
Receiving(c) == \E i \in 1..Depth : stack[i].fn = "dispatch_plain" /\ stack[i].c = c
Notifying(c) == \E i \in 1..Depth : stack[i].fn = "on_handle_closed" /\ stack[i].c = c

\* What goes wrong in freed memory, and what never does.
MemoryFaults ==
    /\ fault = "resume" => undercut # {}
    /\ fault = "uv_closing" =>
          \E c \in Conns : conn[c].mem = "freed" /\ conn[c].closeCb = "NULL"
    /\ fault \notin {"double_free", "loop_busy"}

\* What the script does to its objects and to its server.
ScriptFaults ==
    /\ fault = "object" =>
          \E o \in objs : conn[o[1]].mem = "freed" /\ conn[o[1]].closeCb = "on_handle_closed"
    /\ fault = "raw_loop" => stack = <<>> /\ exc # "none"

\* The undefined behaviour this code has is what these causes explain: a frame
\* resumes on freed memory only after a stop() inside a callback freed it
\* (server.c:194), the loop meets a dangling handle only after uv_accept failed
\* (conn.c:190), and no sequence of callbacks and calls makes on_handle_closed
\* free a connection twice or frees the loop under an open handle.  PHP meets a
\* freed connection only in an object of one that on_handle_closed freed
\* (conn.c:88), never of one that uv_accept refused.  A loop that uv_loop_init
\* refused (server.c:111) is used only after start() threw, by the code that
\* called start(): here the script itself (in LaureRestart, a callback too).
KnownFaults == MemoryFaults /\ ScriptFaults

\* While a PHP callback runs, however deep stop() has nested the loop, the
\* connection its C caller goes on to use is allocated, unless that stop() was
\* called when the connection was already closing; on_handle_closed itself is
\* never active twice for a connection, and owns it.
FrameSafe ==
    \A i \in 1..Depth :
        /\ stack[i].fn \in ConnFns =>
              conn[stack[i].c].mem = "live" \/ stack[i].c \in undercut
        /\ stack[i].fn = "on_handle_closed" =>
              /\ conn[stack[i].c].mem = "live"
              /\ conn[stack[i].c].handle = "closed"
              /\ \A j \in 1..Depth : stack[j] = stack[i] => j = i

\* A closing handle is on exactly one list: the loop's, or the one some uv_run,
\* perhaps suspended under a callback, is draining.  So it is finished once.
QueuedOnce ==
    \A c \in Conns :
        /\ conn[c].handle = "closing" =>
              c \in closing \/ \E i \in 1..Depth : c \in stack[i].q
        /\ c \in closing =>
              /\ conn[c].handle = "closing"
              /\ \A i \in 1..Depth : c \notin stack[i].q
        /\ \A i, j \in 1..Depth : c \in stack[i].q =>
              /\ conn[c].handle = "closing"
              /\ c \in stack[j].q => j = i

\* Memory is lost only by stop() or a signal, whose walk_close_all closes with
\* no callback (server.c:86): a connection whose handle is closed and that
\* on_handle_closed is not about to free, and a write that uv_write refused.
LeaksOnlyByWalk ==
    \A c \in Conns :
        /\ conn[c].mem = "live" /\ conn[c].handle = "closed" =>
              \/ conn[c].closeCb = "NULL"
              \/ Notifying(c)
        /\ conn[c].orphan => conn[c].closeCb = "NULL" /\ conn[c].handle # "open"

\* Every chunk a TCP client sends, if laure_buf_append had memory for it
\* (conn.c:104), is handed to the receive callback exactly once, in order,
\* however the callback is registered, closes or stops: nothing is handed over
\* twice, and what is neither handed over nor still buffered was lost to an
\* exception nobody caught (util.c:7).
ChunksOnce ==
    \A c \in Conns :
        /\ conn[c].dlvd + (IF Receiving(c) THEN 0 ELSE conn[c].held) <= conn[c].rcvd
        /\ Receiving(c) => conn[c].held <= conn[c].dlvd
        /\ exc = "none" =>
              conn[c].dlvd + (IF Receiving(c) THEN 0 ELSE conn[c].held) = conn[c].rcvd

\* The loop hangs only when a close callback calls stop() while a connection
\* that an outer uv_run has yet to finish still has a write under way.
HangOnlyInClose ==
    Hung => \E i \in 1..Depth :
                /\ i < Depth /\ stack[i + 1].fn = "on_handle_closed"
                /\ \E c \in stack[i].q : conn[c].pend > 0

\* However callbacks and stop() call each other, the C stack stays bounded: the
\* first nested stop() closes every handle at once, so the loop it runs can call
\* close callbacks only, and a stop() in one of those finds nothing left to call.
NestingBounded == Depth <= 5

\* One read is all an HTTP connection is given: when the callbacks for the
\* requests in it are done, the connection is closed, whatever the client and
\* the response headers say of keep-alive (conn.c:128).
OneReadPerHttp ==
    \A c \in Conns : <<c, "Response">> \in objs =>
        \/ conn[c].state = "CLOSE"
        \/ \E i \in 1..Depth : stack[i].fn = "llhttp_execute" /\ stack[i].c = c

\* Once a connection is closed, by close(), by the client or by dispatch_plain,
\* no connect or receive callback and no first request of a read is started for
\* it, nothing is written to it, and it does not come back.
CloseIsFinal ==
    [][\A c \in Conns : conn[c].state = "CLOSE" =>
          /\ conn'[c].state = "CLOSE"
          /\ conn'[c].pend <= conn[c].pend
          /\ conn'[c].orphan = conn[c].orphan
          /\ Len(stack') > Len(stack) =>
                ~(stack'[Len(stack')].fn \in ConnFns /\ stack'[Len(stack')].c = c)]_vars

\* The process can no longer make progress of its own.
Dead == fault # "none" \/ Hung

\* Every connection that laure_conn_close or an end of file closes is freed.
ClosedIsFreed ==
    \A c \in Conns :
        conn[c].closeCb = "on_handle_closed" ~> (conn[c].mem = "freed" \/ Dead)

\* stop() and a signal end every uv_run, nested ones included.
ShutdownCompletes == srvh = "closing" ~> (stack = <<>> \/ Dead)

-----------------------------------------------------------------------------
(* The life of a connection as a script sees it. *)

LifeOf(c) ==
    IF conn[c].mem = "none" THEN "absent"
    ELSE IF conn[c].mem = "freed" THEN "gone"
    ELSE IF Notifying(c) THEN "notifying"
    ELSE IF conn[c].handle = "open" THEN "open"
    ELSE IF conn[c].closeCb = "NULL" THEN "abandoned"
    ELSE "closing"

Life == INSTANCE ConnLife WITH
            life <- [c \in Conns |-> LifeOf(c)],
            got  <- [c \in Conns |-> conn[c].dlvd]

\* The C code keeps ConnLife's promise: one close notification at most, after
\* close and before the memory goes; no data before it opens or after it closes;
\* nothing comes back.
KeepsConnLife == Life!Spec

-----------------------------------------------------------------------------
(* The inductive invariant behind the safety properties.                    *)

\* What the fields of one connection say of each other.
RecOK(r) ==
    /\ r.mem = "none" <=> r.handle = "none"
    /\ r.handle = "none" => ~r.orphan
    /\ r.handle = "open" => r.mem = "live" /\ r.state # "CLOSE" /\ r.closeCb = "NULL"
    /\ r.reading => r.handle = "open"
    /\ r.pend # 0 => r.handle \in {"open", "closing"}
    /\ r.closeCb = "on_handle_closed" => r.state = "CLOSE"
    /\ r.state = "CLOSE" => r.handle \in {"closing", "closed"}
    /\ r.mem = "freed" =>
          r.handle = IF r.closeCb = "on_handle_closed" THEN "closed" ELSE "closing"
    /\ r.orphan => r.closeCb = "NULL" /\ r.handle # "open"

\* The stack is the loop, a callback, a nested loop, a close callback and one
\* more nested loop with nothing to close, or the beginning of that.
Shape ==
    /\ Depth <= 5
    /\ \A i \in {1, 3, 5} : i <= Depth => stack[i].fn = "uv_run" /\ stack[i].c = NoConn
    /\ 2 <= Depth =>
          /\ stack[2].fn # "uv_run"
          /\ stack[2].q = {}
          /\ stack[2].c \in Conns <=> stack[2].fn # "on_tick"
          /\ stack[1].q # {} => stack[2].fn = "on_handle_closed"
    /\ 4 <= Depth =>
          stack[4].fn = "on_handle_closed" /\ stack[4].c \in Conns /\ stack[4].q = {}
    /\ 5 <= Depth => stack[5].q = {}

\* stop() in a callback closes everything; once its loop has taken the closing
\* handles there are no more.
Stopped ==
    /\ 3 <= Depth => srvh # "open" /\ \A c \in Conns : conn[c].handle # "open"
    /\ 4 <= Depth \/ (3 <= Depth /\ stack[3].q # {}) => srvh = "none" /\ closing = {}

\* A loop that ended left nothing behind.
Ended == stack = <<>> =>
    srvh = "none" /\ closing = {} /\ \A c \in Conns : conn[c].handle # "open"

\* Which list a closing handle is on.
Lists ==
    \A c \in Conns :
        /\ conn[c].handle = "closing" <=>
              \/ c \in closing
              \/ 1 <= Depth /\ c \in stack[1].q
              \/ 3 <= Depth /\ c \in stack[3].q
        /\ c \in closing =>
              ~(1 <= Depth /\ c \in stack[1].q) /\ ~(3 <= Depth /\ c \in stack[3].q)
        /\ 3 <= Depth /\ c \in stack[3].q => c \notin stack[1].q

\* The close callback of c is active at level i of the stack.
NotifyingAt(c, i) ==
    i <= Depth /\ stack[i].fn = "on_handle_closed" /\ stack[i].c = c

\* What a connection's fields say of the frames that serve it.
Served ==
    \A c \in Conns :
        /\ NotifyingAt(c, 2) \/ NotifyingAt(c, 4) =>
              /\ conn[c].mem = "live" /\ conn[c].handle = "closed"
              /\ conn[c].closeCb = "on_handle_closed"
        /\ ~(NotifyingAt(c, 2) /\ NotifyingAt(c, 4))
        /\ conn[c].mem = "live" /\ conn[c].handle = "closed"
              /\ conn[c].closeCb = "on_handle_closed" =>
                 NotifyingAt(c, 2) \/ NotifyingAt(c, 4)
        /\ conn[c].handle = "open" /\ ~conn[c].reading =>
              2 <= Depth /\ stack[2].fn = "laure_conn_accept" /\ stack[2].c = c
        /\ 2 <= Depth /\ stack[2].fn \in ConnFns /\ stack[2].c = c =>
              /\ conn[c].mem # "none"
              /\ conn[c].mem = "freed" => conn[c].closeCb = "on_handle_closed"
              /\ conn[c].closeCb = "on_handle_closed" /\ (3 <= Depth \/ conn[c].mem = "freed")
                    => c \in undercut

IInv ==
    /\ TypeOK
    /\ \A c \in Conns : RecOK(conn[c])
    /\ Shape /\ Stopped /\ Ended /\ Lists /\ Served
    /\ MemoryFaults

\* What ScriptFaults rests on: an object's connection is allocated, or
\* laure_conn_close closed it; a refused loop is in place only while nothing runs.
Given ==
    /\ \A o \in objs : conn[o[1]].mem = "live" \/ conn[o[1]].closeCb = "on_handle_closed"
    /\ loop = "raw" => stack = <<>> /\ exc # "none"

UseInv == IInv /\ Given /\ ScriptFaults

\* Nothing touches a connection before the listener accepts it.
Untouched == \A c \in Conns : conn[c].mem = "none" => conn[c] = NewConn

LifeInv == IInv /\ Untouched

=============================================================================
