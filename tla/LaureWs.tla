-------------------------------- MODULE LaureWs --------------------------------
(***************************************************************************)
(* One WebSocket connection of laure: websocket.c and heartbeat.c, from    *)
(* where dispatch_plain calls laure_ws_handshake to the end of its memory. *)
(*                                                                         *)
(* A frame is handled when its last byte has arrived (WsFrames shows that  *)
(* laure_ws_on_data finds just those, however the bytes are cut), one      *)
(* frame a step, up to the callback it ends in.  The heartbeat timer lies  *)
(* in the connection's memory and is a libuv handle of its own, beside the *)
(* stream; the order in which the two are closed decides whether libuv     *)
(* finishes one of them in memory that the other's callback freed.         *)
(*                                                                         *)
(* stop() and signals are LaureLoop's, and so are the use of a connection  *)
(* that was freed and Connection::send, whose bytes are no frame.          *)
(***************************************************************************)
EXTENDS Naturals, Sequences

CONSTANTS
    Ops,        \* what the peer's frames may be
    Legal,      \* BOOLEAN: the peer keeps the order of frames RFC 6455 asks for
    Events,     \* the event names the script registered callbacks for
    MaxFrames,  \* bound: frames of the peer
    MaxReads    \* bound: reads after the handshake

DataOps == {"cont", "text", "binary"}
\* "other": an opcode the switch does not name; "huge": a header that
\* announces more than LAURE_WS_MAX_FRAME bytes.
AllOps == DataOps \cup {"close", "ping", "pong", "other", "huge"}

ASSUME OpAssumption    == Ops \subseteq AllOps
ASSUME LegalAssumption == Legal \in BOOLEAN
ASSUME EventAssumption ==
    Events \subseteq {"open", "message", "ping", "pong", "close"}
ASSUME BoundAssumption == MaxFrames \in Nat /\ MaxReads \in Nat

VARIABLES
    conn,    \* laure_conn_t and its two handles
    ctl,     \* who runs: the loop, the loop over frames, or a callback
    rest,    \* bytes followed the request to upgrade in its read
    in,      \* the peer's frames that arrived, all of them
    done,    \* how many of them laure_ws_on_data took off rbuf
    reads,   \* reads so far
    exc,     \* a PHP exception is pending, until the loop ends
    msgs,    \* history: what the message callback was given
    out,     \* history: the frames given to uv_write
    cause,   \* history: what closed the connection
    fault    \* the undefined behaviour met, if any

peerVars == <<in, reads>>
vars == <<conn, ctl, rest, peerVars, done, exc, msgs, out, cause, fault>>

-----------------------------------------------------------------------------
(* Types. *)

\* laure_ws_on_data does not look at the fin of a control frame.
Frames == {f \in [op : Ops, fin : BOOLEAN] : f.op \notin DataOps => f.fin}

\* frag holds the numbers of the frames whose payload is in ws_frag_buf, and
\* fragOp is ws_frag_opcode, whose 0 is the opcode of a continuation; first
\* is the one of the two handles that loop->closing_handles has at its head.
ConnRecs ==
    [mem     : {"live", "freed"},
     state   : {"WS_HAND", "WS_OPEN", "WS_CLOSING", "CLOSE"},
     tcp     : {"open", "closing", "closed"},
     timer   : {"none", "armed", "idle", "closing", "closed"},
     first   : {"none", "tcp", "timer"},
     waiting : BOOLEAN,
     paused  : BOOLEAN,
     fragOp  : DataOps,
     frag    : Seq(Nat)]

Callbacks == {"open", "message", "fragmented", "ping", "pong", "close"}

\* of: the ping that a pong answers; reads: reads before a ping, or a close.
Items == [kind : {"101", "close", "ping", "pong"}, of : Nat, reads : Nat]
Item(kind, of) == [kind |-> kind, of |-> of, reads |-> reads]

TypeOK ==
    /\ conn \in ConnRecs
    /\ ctl \in {"loop", "frames"} \cup Callbacks
    /\ rest \in BOOLEAN
    /\ in \in Seq(Frames)
    /\ done \in Nat /\ reads \in Nat
    /\ exc \in BOOLEAN
    /\ msgs \in Seq([op : DataOps, parts : Seq(Nat)])
    /\ out \in Seq(Items)
    /\ cause \in {"none", "script", "eof", "peer", "protocol", "heartbeat"}
    /\ fault \in {"none", "hang", "stale_rest", "freed_timer"}

-----------------------------------------------------------------------------
(* The functions of heartbeat.c, conn.c and websocket.c on the connection. *)

\* A handle goes to the head of loop->closing_handles.
CloseTcp(r) ==
    IF r.tcp = "open"
    THEN [r EXCEPT !.tcp = "closing", !.first = "tcp"]
    ELSE r

\* hb_active, between laure_hb_start and laure_hb_stop.
HbActive(r) == r.timer \in {"armed", "idle"}

LaureHbStart(r) ==
    IF HbActive(r) THEN r ELSE [r EXCEPT !.timer = "armed", !.waiting = FALSE]

LaureHbStop(r) ==
    IF HbActive(r)
    THEN [r EXCEPT !.timer = "closing", !.first = "timer"]
    ELSE r

\* laure_hb_reset leaves hb_waiting_pong; or stops the timer as well.
LaureHbReset_Keeps(r) == r
LaureHbReset_Stops(r) ==
    [r EXCEPT !.waiting = FALSE, !.timer = IF @ = "armed" THEN "idle" ELSE @]

LaureHbReset(r) == [r EXCEPT !.waiting = FALSE]

LaureConnClose(r) ==
    IF r.state = "CLOSE" THEN r ELSE CloseTcp([r EXCEPT !.state = "CLOSE"])

\* laure_conn_send_raw without its test of the state.
SendRaw_Unguarded(kind, of) == out' = Append(out, Item(kind, of))

\* laure_conn_send_raw, of what becomes the next item.
SendRaw(kind, of) ==
    out' = IF conn.state = "CLOSE" THEN out ELSE Append(out, Item(kind, of))

\* laure_ws_close: what it writes, and what it leaves.
LaureWsClose(r) == IF r.state = "WS_OPEN" THEN [r EXCEPT !.state = "WS_CLOSING"] ELSE r
\* ... sent again by whoever closes again.
SendClose_Unguarded == out' = Append(out, Item("close", 0))

SendClose ==
    out' = IF conn.state = "WS_OPEN" THEN Append(out, Item("close", 0)) ELSE out

Because(why) == cause' = IF conn.state = "CLOSE" THEN cause ELSE why

\* laure_conn_close first, which makes laure_ws_close do nothing.
EndWith_ClosesFirst(why) ==
    /\ conn' = LaureWsClose(LaureConnClose(conn))
    /\ UNCHANGED out
    /\ Because(why)

\* laure_ws_close and then laure_conn_close, as the protocol errors, the peer's
\* close frame and the heartbeat do.
EndWith(why) ==
    /\ conn' = LaureConnClose(LaureWsClose(conn))
    /\ SendClose
    /\ Because(why)

\* laure_zval_cb calls the callback.
Callable(e) == e \in Events /\ ~exc

\* A callback, or on at once to where the frame's handling goes on.
Calls(e, cb) == ctl' = IF Callable(e) THEN cb ELSE ctl

-----------------------------------------------------------------------------
(* The upgrade. *)

AtLoop == fault = "none" /\ ctl = "loop"
Reading == AtLoop /\ conn.tcp = "open"

\* What dispatch_plain does with bytes behind the request: their length is
\* computed as data - len - rest, which wraps to a number so great that the
\* doubling in laure_buf_append passes through 0 and never ends.
AfterHandshake(leftover) == fault' = IF leftover THEN "hang" ELSE fault

\* dispatch_plain, when the parser paused: laure_ws_handshake sends the 101 and
\* calls the open callback ...
Handshake ==
    /\ Reading
    /\ conn.state = "WS_HAND" /\ ~conn.paused
    /\ SendRaw("101", 0)
    /\ rest' \in BOOLEAN
    /\ IF Callable("open")
       THEN /\ conn' = [conn EXCEPT !.state = "WS_OPEN"]
            /\ ctl' = "open"
            /\ UNCHANGED fault
       ELSE /\ conn' = LaureHbStart([conn EXCEPT !.state = "WS_OPEN"])
            /\ UNCHANGED ctl
            /\ AfterHandshake(rest')
    /\ UNCHANGED <<peerVars, done, exc, msgs, cause>>

\* ... after which the heartbeat starts, whatever the callback did.
ReturnOpen ==
    /\ fault = "none" /\ ctl = "open"
    /\ exc' \in {exc, TRUE}
    /\ conn' = LaureHbStart(conn)
    /\ ctl' = "loop"
    /\ AfterHandshake(rest)
    /\ UNCHANGED <<rest, peerVars, done, msgs, out, cause>>

\* No key in the request: laure_ws_handshake does nothing, and nobody asks.
HandshakeRefused ==
    /\ Reading
    /\ conn.state = "WS_HAND" /\ ~conn.paused
    /\ conn' = [conn EXCEPT !.paused = TRUE]
    /\ rest' \in BOOLEAN
    /\ AfterHandshake(rest')
    /\ UNCHANGED <<ctl, peerVars, done, exc, msgs, out, cause>>

\* The next read of such a connection: llhttp_execute answers again that it is
\* paused, at a place in a read buffer that was freed since.
ReadRefused ==
    /\ Reading
    /\ conn.state = "WS_HAND" /\ conn.paused
    /\ fault' \in {"none", "stale_rest"}
    /\ UNCHANGED <<conn, ctl, rest, peerVars, done, exc, msgs, out, cause>>

-----------------------------------------------------------------------------
(* The peer. *)

\* Frame j begins a message that is not ended in the first k frames of s.
Begins(s, j, k) ==
    /\ j \in 1..k
    /\ s[j].op \in {"text", "binary"} /\ ~s[j].fin
    /\ \A i \in (j + 1)..k : ~(s[i].op = "cont" /\ s[i].fin)

OpenAt(s, k) == \E j \in 1..k : Begins(s, j, k)

LegalFrames(s) ==
    \A i \in DOMAIN s :
        /\ s[i].op \notin {"other", "huge"}
        /\ s[i].op \in DataOps => (s[i].op = "cont" <=> OpenAt(s, i - 1))
        /\ s[i].op = "close" => i = Len(s)

\* on_read and dispatch_plain: the bytes complete n frames, perhaps none.
Read ==
    /\ Reading
    /\ conn.state \in {"WS_OPEN", "WS_CLOSING"}
    /\ reads < MaxReads
    /\ \E n \in 0..MaxFrames : \E fs \in [1..n -> Frames] :
          Len(in) + n <= MaxFrames /\ in' = in \o fs
    /\ Legal => LegalFrames(in')
    /\ reads' = reads + 1
    /\ conn' = LaureHbReset(conn)
    /\ ctl' = "frames"
    /\ UNCHANGED <<rest, done, exc, msgs, out, cause, fault>>

\* The stream is closed before the timer, and so finished after it.
ReadEof_TimerLast ==
    /\ Reading
    /\ conn' = LaureHbStop(CloseTcp([conn EXCEPT !.state = "CLOSE"]))
    /\ cause' = "eof"
    /\ UNCHANGED <<ctl, rest, peerVars, done, exc, msgs, out, fault>>

\* on_read with an error or the end of file.
ReadEof ==
    /\ Reading
    /\ conn' = CloseTcp(LaureHbStop([conn EXCEPT !.state = "CLOSE"]))
    /\ cause' = "eof"
    /\ UNCHANGED <<ctl, rest, peerVars, done, exc, msgs, out, fault>>

-----------------------------------------------------------------------------
(* laure_ws_on_data: the loop over the frames in rbuf. *)

Taking(ops) ==
    /\ fault = "none" /\ ctl = "frames"
    /\ done < Len(in)
    /\ in[done + 1].op \in ops
Fin == in[done + 1].fin

Message(op, parts) ==
    msgs' = IF Callable("message") THEN Append(msgs, [op |-> op, parts |-> parts]) ELSE msgs

OnDataFrame ==
    /\ Taking({"text", "binary"})
    /\ done' = done + 1
    /\ IF Fin
       THEN /\ Message(in[done + 1].op, <<done + 1>>)
            /\ Calls("message", "message")
            /\ UNCHANGED conn
       ELSE /\ conn' = [conn EXCEPT
                           !.fragOp = IF @ = "cont" THEN in[done + 1].op ELSE @,
                           !.frag = Append(@, done + 1)]
            /\ UNCHANGED <<msgs, ctl>>
    /\ UNCHANGED <<rest, peerVars, exc, out, cause, fault>>

\* laure_buf_reset is not called.
Unfragmented_KeepsBuf(r) == [r EXCEPT !.fragOp = "cont"]

Unfragmented(r) == [r EXCEPT !.frag = <<>>, !.fragOp = "cont"]

OnContFrame ==
    /\ Taking({"cont"})
    /\ done' = done + 1
    /\ LET r == [conn EXCEPT !.frag = Append(@, done + 1)] IN
       IF Fin
       THEN /\ Message(r.fragOp, r.frag)
            /\ Calls("message", "fragmented")
            /\ conn' = IF Callable("message") THEN r ELSE Unfragmented(r)
       ELSE conn' = r /\ UNCHANGED <<msgs, ctl>>
    /\ UNCHANGED <<rest, peerVars, exc, out, cause, fault>>

\* The pong goes out through laure_ws_send, which is for open connections.
OnPingFrame_OpenOnly ==
    /\ Taking({"ping"})
    /\ done' = done + 1
    /\ IF conn.state = "WS_OPEN" THEN SendRaw("pong", done + 1) ELSE UNCHANGED out
    /\ Calls("ping", "ping")
    /\ UNCHANGED <<conn, rest, peerVars, exc, msgs, cause, fault>>

OnPingFrame ==
    /\ Taking({"ping"})
    /\ done' = done + 1
    /\ SendRaw("pong", done + 1)
    /\ Calls("ping", "ping")
    /\ UNCHANGED <<conn, rest, peerVars, exc, msgs, cause, fault>>

OnPongFrame ==
    /\ Taking({"pong"})
    /\ done' = done + 1
    /\ conn' = LaureHbReset(conn)
    /\ Calls("pong", "pong")
    /\ UNCHANGED <<rest, peerVars, exc, msgs, out, cause, fault>>

\* The peer's close frame: answered, unless it is the answer.
OnCloseFrame ==
    /\ Taking({"close"})
    /\ done' = done + 1
    /\ EndWith("peer")
    /\ ctl' = "loop"
    /\ UNCHANGED <<rest, peerVars, exc, msgs, fault>>

\* A frame too large stays in rbuf; one of an unknown opcode is taken off it.
OnBadFrame ==
    /\ Taking({"other", "huge"})
    /\ done' = IF in[done + 1].op = "other" THEN done + 1 ELSE done
    /\ EndWith("protocol")
    /\ ctl' = "loop"
    /\ UNCHANGED <<rest, peerVars, exc, msgs, fault>>

FramesEnd ==
    /\ fault = "none" /\ ctl = "frames"
    /\ done = Len(in)
    /\ ctl' = "loop"
    /\ UNCHANGED <<conn, rest, peerVars, done, exc, msgs, out, cause, fault>>

\* A callback returns to the loop over the frames, thrown out of or not.
ReturnFrame ==
    /\ fault = "none" /\ ctl \in {"message", "fragmented", "ping", "pong"}
    /\ exc' \in {exc, TRUE}
    /\ conn' = IF ctl = "fragmented" THEN Unfragmented(conn) ELSE conn
    /\ ctl' = "frames"
    /\ UNCHANGED <<rest, peerVars, done, msgs, out, cause, fault>>

-----------------------------------------------------------------------------
(* The heartbeat. *)

\* hb_timer_cb.  The timer is not repeated: it is idle when its callback runs.
HbTimerCb ==
    /\ AtLoop /\ conn.mem = "live"
    /\ conn.timer = "armed"
    /\ IF conn.state # "WS_OPEN"
       THEN conn' = LaureHbStop(conn) /\ UNCHANGED <<out, cause>>
       ELSE IF conn.waiting
       THEN /\ conn' = [LaureConnClose(LaureWsClose(conn)) EXCEPT !.timer = "idle"]
            /\ SendClose
            /\ Because("heartbeat")
       ELSE /\ conn' = [conn EXCEPT !.waiting = TRUE]
            /\ SendRaw("ping", 0)
            /\ UNCHANGED cause
    /\ UNCHANGED <<ctl, rest, peerVars, done, exc, msgs, fault>>

-----------------------------------------------------------------------------
(* The script, in a callback of this connection or of the server. *)

InUser == fault = "none" /\ conn.mem = "live" /\ ctl # "frames" /\ ~exc

\* Connection::close.
PhpClose ==
    /\ InUser
    /\ conn' = LaureConnClose(conn)
    /\ Because("script")
    /\ UNCHANGED <<ctl, rest, peerVars, done, exc, msgs, out, fault>>

\* Connection::wsClose.
PhpWsClose ==
    /\ InUser
    /\ conn' = LaureWsClose(conn)
    /\ SendClose
    /\ UNCHANGED <<ctl, rest, peerVars, done, exc, msgs, cause, fault>>

-----------------------------------------------------------------------------
(* The end. *)

\* The handle that comes to the head of the list.
NextFirst(r) ==
    [r EXCEPT !.first = IF r.tcp = "closing" THEN "tcp"
                        ELSE IF r.timer = "closing" THEN "timer" ELSE "none"]

\* uv__finish_close of the first handle on the list; the stream's close callback
\* is on_handle_closed, up to the script's callback.
FinishTcp ==
    /\ AtLoop /\ conn.mem = "live"
    /\ conn.first = "tcp"
    /\ LET r == NextFirst([conn EXCEPT !.tcp = "closed"]) IN
       IF Callable("close")
       THEN conn' = r /\ ctl' = "close"
       ELSE conn' = [r EXCEPT !.mem = "freed"] /\ UNCHANGED ctl
    /\ UNCHANGED <<rest, peerVars, done, exc, msgs, out, cause, fault>>

FinishTimer ==
    /\ AtLoop /\ conn.mem = "live"
    /\ conn.first = "timer"
    /\ conn' = NextFirst([conn EXCEPT !.timer = "closed"])
    /\ UNCHANGED <<ctl, rest, peerVars, done, exc, msgs, out, cause, fault>>

\* on_handle_closed goes on to efree(c).
ReturnClose ==
    /\ fault = "none" /\ ctl = "close"
    /\ exc' \in {exc, TRUE}
    /\ conn' = [conn EXCEPT !.mem = "freed"]
    /\ ctl' = "loop"
    /\ UNCHANGED <<rest, peerVars, done, msgs, out, cause, fault>>

\* The loop fires the timer, finishes it, or passes it on its list of handles.
TouchTimer ==
    /\ AtLoop /\ conn.mem = "freed"
    /\ conn.timer \in {"armed", "idle", "closing"}
    /\ fault' = "freed_timer"
    /\ UNCHANGED <<conn, ctl, rest, peerVars, done, exc, msgs, out, cause>>

-----------------------------------------------------------------------------
(* The specification. *)

Init ==
    /\ conn = [mem |-> "live", state |-> "WS_HAND", tcp |-> "open", timer |-> "none",
               first |-> "none", waiting |-> FALSE, paused |-> FALSE,
               fragOp |-> "cont", frag |-> <<>>]
    /\ ctl = "loop"
    /\ rest = FALSE
    /\ in = <<>> /\ done = 0 /\ reads = 0
    /\ exc \in BOOLEAN
    /\ msgs = <<>> /\ out = <<>>
    /\ cause = "none" /\ fault = "none"

Ended == fault # "none" \/ (conn.mem = "freed" /\ conn.timer \in {"none", "closed"})

Peer == Handshake \/ HandshakeRefused \/ ReadRefused \/ Read \/ ReadEof
TakeFrame ==
    \/ OnDataFrame \/ OnContFrame \/ OnPingFrame \/ OnPongFrame
    \/ OnCloseFrame \/ OnBadFrame \/ FramesEnd
Return == ReturnOpen \/ ReturnFrame \/ ReturnClose
Finish == FinishTcp \/ FinishTimer

Next == \/ Peer \/ TakeFrame \/ Return \/ HbTimerCb \/ Finish \/ TouchTimer
        \/ PhpClose \/ PhpWsClose
        \/ (Ended /\ UNCHANGED vars)

Spec == Init /\ [][Next]_vars

\* The frames in rbuf are worked off, callbacks return, timers expire, and every
\* iteration of the loop finishes the closing handles.
Fairness ==
    WF_vars(TakeFrame) /\ WF_vars(Return) /\ SF_vars(HbTimerCb) /\ SF_vars(Finish)

FairSpec == Spec /\ Fairness

-----------------------------------------------------------------------------
(* Properties. *)

Kinds == {out[i].kind : i \in DOMAIN out}
Pongs == {i \in DOMAIN out : out[i].kind = "pong"}
Elems(s) == {s[i] : i \in DOMAIN s}
\* A ping was sent after the last read.
PingedSince == \E i \in DOMAIN out : out[i].kind = "ping" /\ out[i].reads = reads
\* The frames whose payload waits in ws_frag_buf for the rest of its message.
Held == IF ctl = "fragmented" THEN {} ELSE Elems(conn.frag)

\* Whatever frames the peer sends in whatever order, fragments of one message
\* between those of another, pings between fragments, whole messages in the
\* middle of one, and whatever the callbacks close meanwhile: the payload of a
\* frame goes into one message at most, in order, and while no exception is
\* pending every payload taken off rbuf is in a message or waits for its rest.
PartsOnce ==
    /\ \A i, j \in DOMAIN msgs :
          Elems(msgs[i].parts) \cap Elems(msgs[j].parts) # {} => i = j
    /\ \A i \in DOMAIN msgs : Elems(msgs[i].parts) \cap Held = {}
    /\ \A i \in DOMAIN msgs : \A j, k \in DOMAIN msgs[i].parts :
          j < k => msgs[i].parts[j] < msgs[i].parts[k]
    /\ "message" \in Events /\ ~exc =>
          {k \in 1..done : in[k].op \in DataOps}
             = Held \cup UNION {Elems(msgs[i].parts) : i \in DOMAIN msgs}

\* laure sends the peer one close frame at most, whoever closes, however often
\* and in whatever callback; behind it nothing of its own but answers to pings.
CloseFrameOnce ==
    \A i, j \in DOMAIN out : out[i].kind = "close" /\ i < j => out[j].kind = "pong"

\* A connection that the peer's close frame, a protocol error or the heartbeat
\* ends has said so with a close frame, also when the script began the closing.
CloseAnswered == cause \in {"peer", "protocol", "heartbeat"} => "close" \in Kinds

\* Pings are answered in the order in which they came, none twice, and each one
\* that laure_ws_on_data took while the connection was not closed.
PingsAnswered ==
    /\ \A i \in Pongs :
          /\ out[i].of \in 1..done /\ in[out[i].of].op = "ping"
          /\ \A j \in Pongs : i < j => out[i].of < out[j].of
    /\ conn.state # "CLOSE" =>
          \A k \in 1..done : in[k].op = "ping" => \E i \in Pongs : out[i].of = k

\* The heartbeat closes a connection only if nothing at all, no pong and no
\* other byte, was read between its last ping and the end of its timeout.
LivePeerKept ==
    cause = "heartbeat" => PingedSince

\* How a connection may end without leaving its timer behind in freed memory:
\* never by the heartbeat's own timeout, and after an end of file only if the
\* timer had found a connection that wsClose was called for (heartbeat.c:10).
\* The timer is touched there only if the handshake had started it.
TimerEnds ==
    /\ cause = "heartbeat" => conn.timer = "idle"
    /\ cause = "eof" /\ conn.timer = "closed" => "close" \in Kinds
    /\ fault = "freed_timer" => "101" \in Kinds /\ cause # "none"

\* The timer is started in this step.
HbStarts == conn.timer # "armed" /\ conn'.timer = "armed"
OpenReturns == ctl = "open" /\ ctl' # "open"

\* A closed connection stays closed: nothing more is read and no frame is
\* written, not even the pong of a ping that was read before, or a ping of the
\* timer.  That timer is started on a closed connection in just one place, and
\* there always: when the open callback returns in which the script closed it
\* (websocket.c:65).
ClosedIsSilent ==
    [][conn.state = "CLOSE" =>
          /\ conn'.state = "CLOSE"
          /\ in' = in /\ out' = out /\ cause' = cause
          /\ HbStarts <=> OpenReturns
          /\ HbStarts => cause = "script" /\ conn.timer = "none"]_vars

\* A peer that falls silent (the reads have a bound) is found out and its
\* connection freed.  One kind waits for ever: refused by the handshake, or
\* closed by wsClose, whose answer no timer waits for.
SilentPeerEnds ==
    \/ <>(conn.mem = "freed" \/ fault # "none")
    \/ <>[](conn.state \in {"WS_HAND", "WS_CLOSING"} /\ ~HbActive(conn))

-----------------------------------------------------------------------------
(* The messages of a legal peer. *)

\* The frames that end a message.
Ends(s) == {e \in DOMAIN s : s[e].op \in DataOps /\ s[e].fin}

\* Frame j is the first of the message that ends with frame e.
IsFirst(s, j, e) ==
    /\ j \in 1..e /\ s[j].op \in {"text", "binary"}
    /\ \A i \in (j + 1)..e : s[i].op \notin {"text", "binary"}

DataIn(s, j, e) == {i \in j..e : s[i].op \in DataOps}

MessageAt(s, e) ==
    LET first == CHOOSE j \in 1..e : IsFirst(s, j, e)
    IN  [op |-> s[first].op, parts |-> DataIn(s, first, e)]

\* That the parts come in their order is PartsOnce's.
Channel == INSTANCE WsChannel WITH
    sent  <- [e \in Ends(in) |-> MessageAt(in, e)],
    taken <- {e \in Ends(in) : e <= done},
    got   <- [i \in DOMAIN msgs |-> [op |-> msgs[i].op, parts |-> Elems(msgs[i].parts)]],
    open  <- conn.state # "CLOSE",
    deaf  <- exc \/ "message" \notin Events

\* Fragments, the frames between them, callbacks that close and exceptions: the
\* script hears a legal peer as WsChannel promises.
KeepsChannel == Channel!Spec

-----------------------------------------------------------------------------
(* The inductive invariant behind the safety properties.                    *)

\* The state, the two handles, the list they wait on, and the memory.
HandlesOK ==
    /\ conn.state = "CLOSE" <=> conn.tcp # "open"
    /\ conn.first = "tcp" => conn.tcp = "closing"
    /\ conn.first = "timer" => conn.timer = "closing"
    /\ conn.first = "none" => conn.tcp # "closing" /\ conn.timer # "closing"
    /\ conn.tcp = "closed" <=> ctl = "close" \/ conn.mem = "freed"
    /\ conn.mem = "freed" => ctl = "loop"

\* Where the connection is in its life, and what was written by then.
StagesOK ==
    /\ conn.state = "CLOSE" <=> cause # "none"
    /\ conn.state = "WS_HAND" => out = <<>> /\ ctl = "loop"
    /\ ctl = "open" \/ conn.timer # "none" => "101" \in Kinds
    /\ ctl = "open" => cause \in {"none", "script"}
    /\ conn.state \in {"WS_HAND", "WS_OPEN"} => "close" \notin Kinds
    /\ conn.state = "WS_CLOSING" => "close" \in Kinds
    /\ conn.state = "WS_HAND" \/ ctl = "open" => conn.timer = "none" /\ ~conn.waiting

\* What the timer's callback saw, and what its end depends on.
TimerOK ==
    /\ conn.waiting => PingedSince
    /\ conn.timer = "idle" => cause = "heartbeat"
    /\ conn.timer \in {"closing", "closed"} /\ conn.state # "CLOSE" => "close" \in Kinds
    /\ cause = "eof" /\ "close" \notin Kinds =>
          /\ conn.timer \in {"none", "closing"}
          /\ conn.tcp = "closing" => conn.first = "tcp"

IInv ==
    /\ TypeOK
    /\ HandlesOK /\ StagesOK /\ TimerOK
    /\ CloseFrameOnce /\ CloseAnswered /\ LivePeerKept /\ TimerEnds

\* No frame is handled before it arrived, and a payload is appended behind those
\* of earlier frames.
FragsOK ==
    /\ done <= Len(in)
    /\ \A j \in DOMAIN conn.frag :
          /\ conn.frag[j] <= done
          /\ \A k \in DOMAIN conn.frag : j < k => conn.frag[j] < conn.frag[k]
    /\ \A i \in DOMAIN msgs : \A j \in DOMAIN msgs[i].parts : msgs[i].parts[j] <= done

FrameInv == TypeOK /\ FragsOK /\ PartsOnce /\ PingsAnswered

\* ws_frag_buf and ws_frag_opcode hold what has come of the message that a legal
\* peer has begun, or nothing.
BufferOK ==
    /\ Legal => LegalFrames(in)
    /\ IF ctl = "fragmented" THEN ~OpenAt(in, done)
       ELSE \/ /\ ~OpenAt(in, done)
               /\ conn.frag = <<>> /\ conn.fragOp = "cont"
            \/ \E j \in 1..done :
                  /\ Begins(in, j, done)
                  /\ Elems(conn.frag) = DataIn(in, j, done)
                  /\ conn.fragOp = in[j].op

=============================================================================
