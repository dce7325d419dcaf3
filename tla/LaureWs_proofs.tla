----------------------------- MODULE LaureWs_proofs -----------------------------
(***************************************************************************)
(* Theorems about LaureWs, for any frames, any number of reads and any     *)
(* registered events.  The inductive invariant IInv is stated in LaureWs.  *)
(***************************************************************************)
EXTENDS LaureWs, TLAPS, SequenceTheorems

-----------------------------------------------------------------------------
(* The functions on the connection. *)

\* Each function of the code leaves a connection of the right type.
LEMMA RecTypes ==
    ASSUME NEW r \in ConnRecs
    PROVE  /\ CloseTcp(r) \in ConnRecs
           /\ LaureHbStart(r) \in ConnRecs
           /\ LaureHbStop(r) \in ConnRecs
           /\ LaureHbReset(r) \in ConnRecs
           /\ LaureConnClose(r) \in ConnRecs
           /\ LaureWsClose(r) \in ConnRecs
           /\ NextFirst(r) \in ConnRecs
<1>1. CloseTcp(r) \in ConnRecs
  BY DEF CloseTcp, ConnRecs
<1>4. LaureHbStart(r) \in ConnRecs
  BY DEF LaureHbStart, ConnRecs
<1>5. LaureHbStop(r) \in ConnRecs
  BY DEF LaureHbStop, ConnRecs
<1>6. LaureHbReset(r) \in ConnRecs
  BY DEF LaureHbReset, ConnRecs
<1>7. LaureWsClose(r) \in ConnRecs
  BY DEF LaureWsClose, ConnRecs
<1>3. NextFirst(r) \in ConnRecs
  <2> DEFINE h == IF r.tcp = "closing" THEN "tcp"
                  ELSE IF r.timer = "closing" THEN "timer" ELSE "none"
  <2>2. h \in {"none", "tcp", "timer"}
    OBVIOUS
  <2>3. NextFirst(r) = [r EXCEPT !.first = h]
    BY Zenon DEF NextFirst
  <2> HIDE DEF h
  <2>4. \A g \in {"none", "tcp", "timer"} : [r EXCEPT !.first = g] \in ConnRecs
    BY DEF ConnRecs
  <2> QED
    BY <2>2, <2>3, <2>4
<1>2. LaureConnClose(r) \in ConnRecs
  <2>1. [r EXCEPT !.state = "CLOSE"] \in ConnRecs
    BY DEF ConnRecs
  <2> DEFINE q == [r EXCEPT !.state = "CLOSE"]
  <2>2. [q EXCEPT !.tcp = "closing", !.first = "tcp"] \in ConnRecs
    BY <2>1 DEF ConnRecs
  <2> QED
    BY <2>1, <2>2 DEF LaureConnClose, CloseTcp
<1> QED
  BY <1>1, <1>2, <1>3, <1>4, <1>5, <1>6, <1>7

\* ... and so does taking the fragments of a message away.
LEMMA UnfragmentedType ==
    ASSUME NEW r \in ConnRecs
    PROVE  Unfragmented(r) \in ConnRecs
<1>1. <<>> \in Seq(Nat)
  OBVIOUS
<1>2. "cont" \in DataOps
  BY DEF DataOps
<1> QED
  BY <1>1, <1>2 DEF Unfragmented, ConnRecs

\* ... and adding one.
LEMMA FragType ==
    ASSUME NEW r \in ConnRecs, NEW n \in Nat, NEW op \in DataOps
    PROVE  [r EXCEPT !.fragOp = op, !.frag = Append(@, n)] \in ConnRecs
<1>1. r.frag \in Seq(Nat)
  BY DEF ConnRecs
<1>2. Append(r.frag, n) \in Seq(Nat)
  BY <1>1
<1> QED
  BY <1>2 DEF ConnRecs

-----------------------------------------------------------------------------
(* What was written. *)

\* One more frame is written: what that does to the sets and orders that the
\* invariant speaks of.
LEMMA Written ==
    ASSUME TypeOK, NEW kind \in {"101", "close", "ping", "pong"}, NEW of \in Nat,
           out' = Append(out, Item(kind, of)), reads' = reads
    PROVE  /\ out' \in Seq(Items)
           /\ Kinds' = Kinds \cup {kind}
           /\ kind = "ping" => PingedSince'
           /\ PingedSince => PingedSince'
           /\ CloseFrameOnce /\ ("close" \in Kinds => kind = "pong") => CloseFrameOnce'
<1> DEFINE item == Item(kind, of)
<1>1. out \in Seq(Items) /\ reads \in Nat
  BY DEF TypeOK
<1>2. item \in Items /\ item.kind = kind /\ item.reads = reads
  BY <1>1 DEF Items, Item
<1> HIDE DEF item
<1>3. /\ out' \in Seq(Items)
      /\ Len(out') = Len(out) + 1
      /\ \A i \in 1..Len(out) : out'[i] = out[i]
      /\ out'[Len(out) + 1] = item
  BY <1>1, <1>2 DEF item
<1>4. DOMAIN out = 1..Len(out) /\ DOMAIN out' = 1..(Len(out) + 1) /\ Len(out) \in Nat
  BY <1>1, <1>3
<1>5. Kinds' = Kinds \cup {kind}
  BY <1>2, <1>3, <1>4 DEF Kinds
<1>6. kind = "ping" => PingedSince'
  BY <1>2, <1>3, <1>4 DEF PingedSince
<1>7. PingedSince => PingedSince'
  BY <1>3, <1>4 DEF PingedSince
<1>8. CloseFrameOnce /\ ("close" \in Kinds => kind = "pong") => CloseFrameOnce'
  <2> SUFFICES ASSUME CloseFrameOnce, "close" \in Kinds => kind = "pong",
                      NEW i \in DOMAIN out', NEW j \in DOMAIN out',
                      out'[i].kind = "close", i < j
               PROVE  out'[j].kind = "pong"
    BY DEF CloseFrameOnce
  <2>1. CASE j \in 1..Len(out)
    BY <2>1, <1>3, <1>4 DEF CloseFrameOnce
  <2>2. CASE j = Len(out) + 1
    <3>1. i \in 1..Len(out) /\ out[i].kind = "close"
      BY <2>2, <1>3, <1>4
    <3>2. "close" \in Kinds
      BY <3>1, <1>4 DEF Kinds
    <3> QED
      BY <3>2, <2>2, <1>2, <1>3
  <2> QED
    BY <2>1, <2>2, <1>4
<1> QED
  BY <1>3, <1>5, <1>6, <1>7, <1>8

\* Nothing is written.
LEMMA NotWritten ==
    ASSUME out' = out
    PROVE  /\ Kinds' = Kinds
           /\ CloseFrameOnce => CloseFrameOnce'
           /\ reads' = reads /\ PingedSince => PingedSince'
BY DEF Kinds, CloseFrameOnce, PingedSince

\* laure_conn_send_raw and the close frame of laure_ws_close.
LEMMA SendTypes ==
    ASSUME TypeOK, UNCHANGED reads,
           \/ SendClose
           \/ \E kind \in {"101", "ping", "pong"}, of \in Nat : SendRaw(kind, of)
    PROVE  out' \in Seq(Items)
<1>1. out \in Seq(Items)
  BY DEF TypeOK
<1>2. \A kind \in {"101", "close", "ping", "pong"}, of \in Nat :
         out' = Append(out, Item(kind, of)) => out' \in Seq(Items)
  BY Written
<1> QED
  BY <1>1, <1>2 DEF SendClose, SendRaw

-----------------------------------------------------------------------------
(* Type correctness. *)

LEMMA InitType == Init => TypeOK
<1> SUFFICES ASSUME Init PROVE TypeOK
  OBVIOUS
<1>1. /\ <<>> \in Seq(Frames) /\ <<>> \in Seq(Nat) /\ <<>> \in Seq(Items)
      /\ <<>> \in Seq([op : DataOps, parts : Seq(Nat)])
  OBVIOUS
<1>2. conn \in ConnRecs
  BY <1>1 DEF Init, ConnRecs, DataOps
<1> QED
  BY <1>1, <1>2 DEF Init, TypeOK

\* The variables of a step that is not about frames, one by one.
LEMMA TypeParts ==
    ASSUME TypeOK
    PROVE  /\ conn \in ConnRecs /\ out \in Seq(Items) /\ in \in Seq(Frames)
           /\ done \in Nat /\ reads \in Nat /\ exc \in BOOLEAN
           /\ conn.frag \in Seq(Nat) /\ conn.fragOp \in DataOps
           /\ msgs \in Seq([op : DataOps, parts : Seq(Nat)])
BY DEF TypeOK, ConnRecs

\* What the message callback is given is a message.
LEMMA MessageType ==
    ASSUME TypeOK, NEW op \in DataOps, NEW parts \in Seq(Nat), Message(op, parts)
    PROVE  msgs' \in Seq([op : DataOps, parts : Seq(Nat)])
<1>1. [op |-> op, parts |-> parts] \in [op : DataOps, parts : Seq(Nat)]
  OBVIOUS
<1>2. msgs \in Seq([op : DataOps, parts : Seq(Nat)])
  BY TypeParts
<1>3. Append(msgs, [op |-> op, parts |-> parts]) \in Seq([op : DataOps, parts : Seq(Nat)])
  BY <1>1, <1>2
<1> QED
  BY <1>2, <1>3 DEF Message

\* Frames that arrive are frames.
LEMMA ReadType ==
    ASSUME TypeOK, NEW n \in Nat, NEW fs \in [1..n -> Frames]
    PROVE  in \o fs \in Seq(Frames)
<1>1. fs \in Seq(Frames)
  OBVIOUS
<1> QED
  BY <1>1, TypeParts, ConcatProperties

LEMMA PeerType == TypeOK /\ Peer => TypeOK'
<1> SUFFICES ASSUME TypeOK, Peer PROVE TypeOK'
  OBVIOUS
<1>1. CASE Handshake
  <2>1. conn' \in ConnRecs
    <3>1. [conn EXCEPT !.state = "WS_OPEN"] \in ConnRecs
      BY TypeParts DEF ConnRecs
    <3> QED
      BY <1>1, <3>1, RecTypes DEF Handshake
  <2>2. out' \in Seq(Items)
    BY <1>1, SendTypes DEF Handshake, peerVars
  <2> QED
    BY <1>1, <2>1, <2>2 DEF Handshake, AfterHandshake, TypeOK, peerVars, Callbacks
<1>2. CASE HandshakeRefused
  <2>1. conn' \in ConnRecs
    BY <1>2, TypeParts DEF HandshakeRefused, ConnRecs
  <2> QED
    BY <1>2, <2>1 DEF HandshakeRefused, AfterHandshake, TypeOK, peerVars
<1>3. CASE ReadRefused
  BY <1>3 DEF ReadRefused, TypeOK, peerVars
<1>4. CASE Read
  <2>1. in' \in Seq(Frames)
    BY <1>4, ReadType, BoundAssumption DEF Read
  <2>2. conn' \in ConnRecs
    BY <1>4, TypeParts, RecTypes DEF Read
  <2>3. reads' \in Nat
    BY <1>4, TypeParts DEF Read
  <2> QED
    BY <1>4, <2>1, <2>2, <2>3 DEF Read, TypeOK
<1>5. CASE ReadEof
  <2>1. [conn EXCEPT !.state = "CLOSE"] \in ConnRecs
    BY TypeParts DEF ConnRecs
  <2>2. conn' \in ConnRecs
    BY <1>5, <2>1, RecTypes DEF ReadEof
  <2> QED
    BY <1>5, <2>2 DEF ReadEof, TypeOK, peerVars
<1> QED
  BY <1>1, <1>2, <1>3, <1>4, <1>5 DEF Peer

\* EndWith, for each of its three reasons.
LEMMA EndType ==
    ASSUME TypeOK, NEW why \in {"peer", "protocol", "heartbeat"}, EndWith(why), UNCHANGED reads
    PROVE  /\ conn' \in ConnRecs /\ out' \in Seq(Items)
           /\ cause' \in {"none", "script", "eof", "peer", "protocol", "heartbeat"}
<1>1. conn' \in ConnRecs
  BY TypeParts, RecTypes DEF EndWith
<1>2. out' \in Seq(Items)
  BY SendTypes DEF EndWith
<1>3. cause' \in {cause, why}
  BY DEF EndWith, Because
<1> QED
  BY <1>1, <1>2, <1>3 DEF TypeOK

LEMMA FrameType == TypeOK /\ TakeFrame => TypeOK'
<1> SUFFICES ASSUME TypeOK, TakeFrame PROVE TypeOK'
  OBVIOUS
<1>0. done + 1 \in Nat /\ <<done + 1>> \in Seq(Nat) /\ reads \in Nat
  BY TypeParts
<1>f. \A ops : Taking(ops) => in[done + 1].op \in ops
  BY DEF Taking
<1>1. CASE OnDataFrame
  <2>1. in[done + 1].op \in DataOps
    BY <1>1, <1>f DEF OnDataFrame, DataOps
  <2>2. CASE Fin
    <3>1. msgs' \in Seq([op : DataOps, parts : Seq(Nat)])
      BY <1>0, <1>1, <2>1, <2>2, MessageType DEF OnDataFrame
    <3> QED
      BY <1>0, <1>1, <2>2, <3>1 DEF OnDataFrame, Calls, TypeOK, peerVars, Callbacks
  <2>3. CASE ~Fin
    <3> DEFINE op == IF conn.fragOp = "cont" THEN in[done + 1].op ELSE conn.fragOp
    <3>1. conn' = [conn EXCEPT !.fragOp = op, !.frag = Append(@, done + 1)]
      BY <1>1, <2>3 DEF OnDataFrame
    <3>2. op \in DataOps
      BY <2>1, TypeParts
    <3> HIDE DEF op
    <3>3. conn' \in ConnRecs
      BY <1>0, <3>1, <3>2, FragType, TypeParts
    <3> QED
      BY <1>0, <1>1, <2>3, <3>3 DEF OnDataFrame, TypeOK, peerVars
  <2> QED
    BY <2>2, <2>3
<1>2. CASE OnContFrame
  <2> DEFINE r == [conn EXCEPT !.frag = Append(@, done + 1)]
  <2>1. r = [conn EXCEPT !.fragOp = conn.fragOp, !.frag = Append(@, done + 1)]
    BY TypeParts DEF ConnRecs
  <2>2. r \in ConnRecs
    BY <2>1, <1>0, FragType, TypeParts
  <2>3. r.frag \in Seq(Nat) /\ r.fragOp \in DataOps
    BY <2>2 DEF ConnRecs
  <2> HIDE DEF r
  <2>4. conn' \in {r, Unfragmented(r)}
    BY <1>2 DEF OnContFrame, r
  <2>5. conn' \in ConnRecs
    BY <2>2, <2>4, UnfragmentedType
  <2>6. \/ UNCHANGED <<msgs, ctl>>
        \/ Message(r.fragOp, r.frag) /\ Calls("message", "fragmented")
    BY <1>2 DEF OnContFrame, r
  <2>7. msgs' \in Seq([op : DataOps, parts : Seq(Nat)])
    BY <2>3, <2>6, MessageType, TypeParts
  <2>8. ctl' \in {"loop", "frames"} \cup Callbacks
    BY <2>6 DEF Calls, TypeOK, Callbacks
  <2> QED
    BY <1>0, <1>2, <2>5, <2>7, <2>8 DEF OnContFrame, TypeOK, peerVars
<1>3. CASE OnPingFrame
  <2>1. out' \in Seq(Items)
    BY <1>0, <1>3, SendTypes DEF OnPingFrame, peerVars
  <2> QED
    BY <1>0, <1>3, <2>1 DEF OnPingFrame, Calls, TypeOK, peerVars, Callbacks
<1>4. CASE OnPongFrame
  <2>1. conn' \in ConnRecs
    BY <1>4, RecTypes, TypeParts DEF OnPongFrame
  <2> QED
    BY <1>0, <1>4, <2>1 DEF OnPongFrame, Calls, TypeOK, peerVars, Callbacks
<1>5. CASE OnCloseFrame
  BY <1>0, <1>5, EndType DEF OnCloseFrame, TypeOK, peerVars
<1>6. CASE OnBadFrame
  BY <1>0, <1>6, EndType DEF OnBadFrame, TypeOK, peerVars
<1>7. CASE FramesEnd
  BY <1>7 DEF FramesEnd, TypeOK, peerVars
<1> QED
  BY <1>1, <1>2, <1>3, <1>4, <1>5, <1>6, <1>7 DEF TakeFrame

LEMMA ReturnType == TypeOK /\ Return => TypeOK'
<1> SUFFICES ASSUME TypeOK, Return PROVE TypeOK'
  OBVIOUS
<1>1. CASE ReturnOpen
  BY <1>1, RecTypes, TypeParts DEF ReturnOpen, AfterHandshake, TypeOK, peerVars
<1>2. CASE ReturnFrame
  <2>1. conn' \in ConnRecs
    BY <1>2, UnfragmentedType, TypeParts DEF ReturnFrame
  <2> QED
    BY <1>2, <2>1 DEF ReturnFrame, TypeOK, peerVars
<1>3. CASE ReturnClose
  <2>1. conn' \in ConnRecs
    BY <1>3, TypeParts DEF ReturnClose, ConnRecs
  <2> QED
    BY <1>3, <2>1 DEF ReturnClose, TypeOK, peerVars
<1> QED
  BY <1>1, <1>2, <1>3 DEF Return

LEMMA TimerType == TypeOK /\ HbTimerCb => TypeOK'
<1> SUFFICES ASSUME TypeOK, HbTimerCb PROVE TypeOK'
  OBVIOUS
<1>1. conn' \in ConnRecs
  <2>1. LaureHbStop(conn) \in ConnRecs /\ LaureConnClose(LaureWsClose(conn)) \in ConnRecs
    BY RecTypes, TypeParts
  <2>2. \A r \in ConnRecs : /\ [r EXCEPT !.timer = "idle"] \in ConnRecs
                             /\ [r EXCEPT !.waiting = TRUE] \in ConnRecs
    BY DEF ConnRecs
  <2> QED
    BY <2>1, <2>2, TypeParts DEF HbTimerCb
<1>2. out' \in Seq(Items)
  BY SendTypes, TypeParts DEF HbTimerCb, peerVars
<1>3. cause' \in {cause, "heartbeat"}
  BY DEF HbTimerCb, Because
<1> QED
  BY <1>1, <1>2, <1>3 DEF HbTimerCb, TypeOK, peerVars

LEMMA ScriptType == TypeOK /\ (PhpClose \/ PhpWsClose) => TypeOK'
<1> SUFFICES ASSUME TypeOK, PhpClose \/ PhpWsClose PROVE TypeOK'
  OBVIOUS
<1>1. CASE PhpClose
  BY <1>1, RecTypes, TypeParts DEF PhpClose, Because, TypeOK, peerVars
<1>2. CASE PhpWsClose
  <2>1. conn' \in ConnRecs /\ out' \in Seq(Items)
    BY <1>2, RecTypes, SendTypes, TypeParts DEF PhpWsClose, peerVars
  <2> QED
    BY <1>2, <2>1 DEF PhpWsClose, TypeOK, peerVars
<1> QED
  BY <1>1, <1>2

LEMMA EndsType == TypeOK /\ (Finish \/ TouchTimer) => TypeOK'
<1> SUFFICES ASSUME TypeOK, Finish \/ TouchTimer PROVE TypeOK'
  OBVIOUS
<1>1. CASE FinishTcp
  <2> DEFINE r == NextFirst([conn EXCEPT !.tcp = "closed"])
  <2>1. [conn EXCEPT !.tcp = "closed"] \in ConnRecs
    BY TypeParts DEF ConnRecs
  <2>2. r \in ConnRecs
    BY <2>1, RecTypes
  <2> HIDE DEF r
  <2>3. [r EXCEPT !.mem = "freed"] \in ConnRecs
    BY <2>2 DEF ConnRecs
  <2>4. conn' \in ConnRecs
    BY <1>1, <2>2, <2>3 DEF FinishTcp, r
  <2> QED
    BY <1>1, <2>4 DEF FinishTcp, TypeOK, peerVars, Callbacks
<1>2. CASE FinishTimer
  <2>1. [conn EXCEPT !.timer = "closed"] \in ConnRecs
    BY TypeParts DEF ConnRecs
  <2> QED
    BY <1>2, <2>1, RecTypes DEF FinishTimer, TypeOK, peerVars
<1>3. CASE TouchTimer
  BY <1>3 DEF TouchTimer, TypeOK, peerVars
<1> QED
  BY <1>1, <1>2, <1>3 DEF Finish

LEMMA StepType == TypeOK /\ [Next]_vars => TypeOK'
<1>1. TypeOK /\ UNCHANGED vars => TypeOK'
  BY DEF TypeOK, vars, peerVars
<1> QED
  BY <1>1, PeerType, FrameType, ReturnType, TimerType, ScriptType, EndsType DEF Next

THEOREM TypeCorrect == Spec => []TypeOK
BY InitType, StepType, PTL DEF Spec

-----------------------------------------------------------------------------
(* The inductive invariant. *)

Safe == /\ HandlesOK /\ StagesOK /\ TimerOK
        /\ CloseFrameOnce /\ CloseAnswered /\ LivePeerKept /\ TimerEnds

LEMMA InitSafe == Init => Safe
<1> SUFFICES ASSUME Init PROVE Safe
  OBVIOUS
<1>1. out = <<>> /\ DOMAIN out = {}
  BY DEF Init
<1>2. Kinds = {}
  BY <1>1 DEF Kinds
<1>3. CloseFrameOnce
  BY <1>1 DEF CloseFrameOnce
<1>4. HandlesOK /\ StagesOK /\ TimerOK /\ CloseAnswered /\ LivePeerKept /\ TimerEnds
  BY <1>1, <1>2 DEF Init, HandlesOK, StagesOK, TimerOK, CloseAnswered, LivePeerKept, TimerEnds
<1> QED
  BY <1>3, <1>4 DEF Safe

\* Steps that leave the state, the handles and what was written alone.
LEMMA Quiet ==
    ASSUME Safe, UNCHANGED <<out, reads, cause>>,
           conn'.mem = conn.mem, conn'.state = conn.state, conn'.tcp = conn.tcp,
           conn'.timer = conn.timer, conn'.first = conn.first, conn'.waiting => conn.waiting,
           ctl' = ctl \/ (ctl # "close" /\ ctl' # "close" /\ ctl' # "open" /\ ctl # "loop"),
           fault' # "freed_timer" \/ fault' = fault
    PROVE  Safe'
<1>1. Kinds' = Kinds /\ (CloseFrameOnce => CloseFrameOnce') /\ (PingedSince => PingedSince')
  BY NotWritten
<1>2. HandlesOK'
  BY DEF Safe, HandlesOK
<1>3. StagesOK'
  BY <1>1 DEF Safe, StagesOK
<1>4. TimerOK' /\ CloseAnswered' /\ LivePeerKept' /\ TimerEnds'
  BY <1>1 DEF Safe, TimerOK, CloseAnswered, LivePeerKept, TimerEnds
<1> QED
  BY <1>1, <1>2, <1>3, <1>4 DEF Safe

LEMMA PeerSafe == TypeOK /\ Safe /\ Peer => Safe'
<1> SUFFICES ASSUME TypeOK, Safe, Peer PROVE Safe'
  OBVIOUS
<1>t. conn \in ConnRecs /\ reads \in Nat /\ out \in Seq(Items)
  BY TypeParts
<1>1. CASE Handshake
  <2>1. out = <<>> /\ conn.state = "WS_HAND" /\ Kinds = {} /\ conn.timer = "none"
    BY <1>1 DEF Handshake, Safe, StagesOK, Kinds
  <2>2. out' = Append(out, Item("101", 0)) /\ reads' = reads /\ cause' = cause
    BY <1>1, <2>1 DEF Handshake, SendRaw, peerVars
  <2>3. Kinds' = {"101"} /\ CloseFrameOnce'
    BY <2>1, <2>2, Written DEF Safe
  <2>4. /\ conn'.state = "WS_OPEN" /\ conn'.tcp = conn.tcp /\ conn'.mem = conn.mem
        /\ conn'.first = conn.first /\ ~conn'.waiting
        /\ \/ ctl' = "open" /\ conn'.timer = "none"
           \/ ctl' = "loop" /\ conn'.timer = "armed"
        /\ ctl = "loop" /\ conn.tcp = "open" /\ fault' # "freed_timer"
    BY <1>1, <1>t, <2>1 DEF Handshake, LaureHbStart, HbActive, ConnRecs, Safe, StagesOK,
                           Reading, AtLoop, AfterHandshake
  <2> QED
    BY <2>1, <2>2, <2>3, <2>4 DEF Safe, HandlesOK, StagesOK, TimerOK, CloseAnswered, LivePeerKept, TimerEnds
<1>2. CASE HandshakeRefused
  <2>1. /\ out' = out /\ reads' = reads /\ cause' = cause /\ ctl' = ctl
        /\ fault' # "freed_timer"
    BY <1>2 DEF HandshakeRefused, peerVars, AfterHandshake, Reading, AtLoop
  <2>2. conn' = [conn EXCEPT !.paused = TRUE]
    BY <1>2 DEF HandshakeRefused
  <2>3. Kinds' = Kinds /\ (CloseFrameOnce => CloseFrameOnce') /\ (PingedSince => PingedSince')
    BY <2>1, NotWritten
  <2> QED
    BY <1>t, <2>1, <2>2, <2>3 DEF Safe, HandlesOK, StagesOK, TimerOK, CloseAnswered, LivePeerKept, TimerEnds, ConnRecs
<1>3. CASE ReadRefused
  BY <1>3, Quiet DEF ReadRefused, peerVars
<1>4. CASE Read
  <2>1. /\ out' = out /\ cause' = cause /\ fault' = fault
        /\ ctl = "loop" /\ ctl' = "frames" /\ conn.tcp = "open"
        /\ conn.state \in {"WS_OPEN", "WS_CLOSING"} /\ fault = "none"
    BY <1>4 DEF Read, Reading, AtLoop
  <2>2. conn' = [conn EXCEPT !.waiting = FALSE]
    BY <1>4 DEF Read, LaureHbReset
  <2>3. Kinds' = Kinds /\ (CloseFrameOnce => CloseFrameOnce')
    BY <2>1, NotWritten
  <2> QED
    BY <1>t, <2>1, <2>2, <2>3 DEF Safe, HandlesOK, StagesOK, TimerOK, CloseAnswered, LivePeerKept, TimerEnds, ConnRecs
<1>5. CASE ReadEof
  <2>1. /\ out' = out /\ reads' = reads /\ cause' = "eof" /\ fault' = fault /\ ctl' = ctl
        /\ ctl = "loop" /\ conn.tcp = "open" /\ fault = "none"
    BY <1>5 DEF ReadEof, peerVars, Reading, AtLoop
  <2>2. Kinds' = Kinds /\ (CloseFrameOnce => CloseFrameOnce') /\ (PingedSince => PingedSince')
    BY <2>1, NotWritten
  <2>3. /\ conn'.state = "CLOSE" /\ conn'.tcp = "closing" /\ conn'.first = "tcp"
        /\ conn'.mem = conn.mem /\ conn'.waiting = conn.waiting
        /\ conn'.timer = IF HbActive(conn) THEN "closing" ELSE conn.timer
    BY <1>5, <1>t, <2>1 DEF ReadEof, CloseTcp, LaureHbStop, HbActive, ConnRecs
  <2> QED
    BY <1>t, <2>1, <2>2, <2>3 DEF Safe, HandlesOK, StagesOK, TimerOK, CloseAnswered, LivePeerKept, TimerEnds, ConnRecs, HbActive
<1> QED
  BY <1>1, <1>2, <1>3, <1>4, <1>5 DEF Peer

\* What EndWith does, by itself and in the timer's callback.
LEMMA EndFacts ==
    ASSUME TypeOK, Safe, NEW why \in {"peer", "protocol", "heartbeat"},
           NEW r, r = LaureConnClose(LaureWsClose(conn)), SendClose, Because(why),
           UNCHANGED reads, conn.state # "WS_HAND"
    PROVE  /\ r \in ConnRecs
           /\ r.state = "CLOSE" /\ r.mem = conn.mem /\ r.timer = conn.timer
           /\ r.waiting = conn.waiting
           /\ \/ r.tcp = conn.tcp /\ r.first = conn.first /\ conn.state = "CLOSE" /\ cause' = cause
              \/ r.tcp = "closing" /\ r.first = "tcp" /\ conn.state # "CLOSE" /\ cause' = why
           /\ Kinds \subseteq Kinds' /\ Kinds' \subseteq Kinds \cup {"close"}
           /\ conn.state # "CLOSE" => "close" \in Kinds'
           /\ CloseFrameOnce' /\ (PingedSince => PingedSince')
<1>1. conn \in ConnRecs /\ reads \in Nat /\ out \in Seq(Items)
  BY TypeParts
<1>2. conn.state = "CLOSE" <=> conn.tcp # "open"
  BY DEF Safe, HandlesOK
<1>3. conn.state \in {"WS_OPEN", "WS_CLOSING", "CLOSE"} /\ conn.tcp \in {"open", "closing", "closed"}
  BY <1>1 DEF ConnRecs
<1>4. r \in ConnRecs
  BY <1>1, RecTypes
<1>5. CASE conn.state = "CLOSE"
  <2>1. r = conn /\ out' = out /\ cause' = cause
    BY <1>5 DEF LaureConnClose, LaureWsClose, SendClose, Because
  <2> QED
    BY <1>4, <1>5, <2>1, NotWritten DEF Safe
<1>6. CASE conn.state # "CLOSE"
  <2>1. /\ r.state = "CLOSE" /\ r.mem = conn.mem /\ r.timer = conn.timer
        /\ r.waiting = conn.waiting /\ r.tcp = "closing" /\ r.first = "tcp"
    <3> DEFINE w == LaureWsClose(conn)
    <3>1. w \in ConnRecs /\ w.state # "CLOSE" /\ w.mem = conn.mem /\ w.timer = conn.timer
          /\ w.waiting = conn.waiting /\ w.tcp = "open"
      BY <1>1, <1>2, <1>3, <1>6 DEF LaureWsClose, ConnRecs
    <3>2. r = CloseTcp([w EXCEPT !.state = "CLOSE"])
      BY <3>1 DEF LaureConnClose
    <3> HIDE DEF w
    <3> QED
      BY <3>1, <3>2 DEF CloseTcp, ConnRecs
  <2>2. cause' = why
    BY <1>6 DEF Because
  <2>3. CASE conn.state = "WS_OPEN"
    <3>1. out' = Append(out, Item("close", 0)) /\ "close" \notin Kinds
      BY <2>3 DEF SendClose, Safe, StagesOK
    <3> QED
      BY <1>4, <1>6, <2>1, <2>2, <3>1, Written DEF Safe
  <2>4. CASE conn.state = "WS_CLOSING"
    <3>1. out' = out /\ "close" \in Kinds
      BY <2>4 DEF SendClose, Safe, StagesOK
    <3> QED
      BY <1>4, <1>6, <2>1, <2>2, <3>1, NotWritten DEF Safe
  <2> QED
    BY <1>3, <1>6, <2>3, <2>4
<1> QED
  BY <1>5, <1>6

\* The frames that end the connection.
LEMMA EndSafe ==
    ASSUME TypeOK, Safe, NEW why \in {"peer", "protocol"}, EndWith(why),
           ctl = "frames", ctl' = "loop", UNCHANGED <<reads, fault>>, fault = "none"
    PROVE  Safe'
<1>1. conn.state # "WS_HAND"
  BY DEF Safe, StagesOK
<1>2. conn' = LaureConnClose(LaureWsClose(conn)) /\ SendClose /\ Because(why) /\ reads' = reads
  BY DEF EndWith
<1>3. /\ conn'.state = "CLOSE" /\ conn'.mem = conn.mem /\ conn'.timer = conn.timer
      /\ conn'.waiting = conn.waiting
      /\ \/ conn'.tcp = conn.tcp /\ conn'.first = conn.first /\ conn.state = "CLOSE" /\ cause' = cause
         \/ conn'.tcp = "closing" /\ conn'.first = "tcp" /\ conn.state # "CLOSE" /\ cause' = why
      /\ Kinds \subseteq Kinds' /\ (conn.state # "CLOSE" => "close" \in Kinds')
      /\ Kinds' \subseteq Kinds \cup {"close"}
      /\ CloseFrameOnce' /\ (PingedSince => PingedSince')
  BY <1>1, <1>2, EndFacts
<1>4. HandlesOK'
  BY <1>3 DEF Safe, HandlesOK
<1>5. StagesOK'
  BY <1>3 DEF Safe, StagesOK
<1>6. TimerOK'
  BY <1>3 DEF Safe, TimerOK, StagesOK
<1>7. CloseAnswered' /\ LivePeerKept' /\ TimerEnds'
  BY <1>3 DEF Safe, CloseAnswered, LivePeerKept, TimerEnds, StagesOK
<1> QED
  BY <1>3, <1>4, <1>5, <1>6, <1>7 DEF Safe

LEMMA FrameSafe == TypeOK /\ Safe /\ TakeFrame => Safe'
<1> SUFFICES ASSUME TypeOK, Safe, TakeFrame PROVE Safe'
  OBVIOUS
<1>t. conn \in ConnRecs /\ reads \in Nat /\ out \in Seq(Items) /\ done \in Nat
  BY TypeParts
<1>1. CASE OnDataFrame
  <2>1. /\ UNCHANGED <<out, reads, cause, fault>>
        /\ ctl = "frames" /\ ctl' \in {"frames", "message"}
    BY <1>1 DEF OnDataFrame, Taking, Calls, peerVars
  <2>2. /\ conn'.mem = conn.mem /\ conn'.state = conn.state /\ conn'.tcp = conn.tcp
        /\ conn'.timer = conn.timer /\ conn'.first = conn.first /\ conn'.waiting = conn.waiting
    <3>1. CASE Fin
      BY <1>1, <3>1 DEF OnDataFrame
    <3>2. CASE ~Fin
      <4> DEFINE op == IF conn.fragOp = "cont" THEN in[done + 1].op ELSE conn.fragOp
      <4>1. conn' = [conn EXCEPT !.fragOp = op, !.frag = Append(@, done + 1)]
        BY <1>1, <3>2 DEF OnDataFrame
      <4> HIDE DEF op
      <4> QED
        BY <1>t, <4>1 DEF ConnRecs
    <3> QED
      BY <3>1, <3>2
  <2> QED
    BY <2>1, <2>2, Quiet
<1>2. CASE OnContFrame
  <2>1. /\ UNCHANGED <<out, reads, cause, fault>>
        /\ ctl = "frames" /\ ctl' \in {"frames", "fragmented"}
    BY <1>2 DEF OnContFrame, Taking, Calls, peerVars
  <2> DEFINE r == [conn EXCEPT !.frag = Append(@, done + 1)]
  <2>2. conn' \in {r, Unfragmented(r)}
    BY <1>2 DEF OnContFrame
  <2>3. /\ conn'.mem = conn.mem /\ conn'.state = conn.state /\ conn'.tcp = conn.tcp
        /\ conn'.timer = conn.timer /\ conn'.first = conn.first /\ conn'.waiting = conn.waiting
    BY <1>t, <2>2 DEF Unfragmented, ConnRecs
  <2> QED
    BY <2>1, <2>3, Quiet
<1>3. CASE OnPingFrame
  <2>1. /\ conn' = conn /\ reads' = reads /\ cause' = cause /\ fault' = fault
        /\ ctl = "frames" /\ ctl' \in {"frames", "ping"}
    BY <1>3 DEF OnPingFrame, Taking, Calls, peerVars
  <2>2. CASE out' = out
    BY <2>1, <2>2, Quiet
  <2>3. CASE out' = Append(out, Item("pong", done + 1))
    <3>1. Kinds' = Kinds \cup {"pong"} /\ CloseFrameOnce' /\ (PingedSince => PingedSince')
      BY <1>t, <2>1, <2>3, Written DEF Safe
    <3>2. HandlesOK'
      BY <2>1 DEF Safe, HandlesOK
    <3>3. StagesOK'
      BY <2>1, <3>1 DEF Safe, StagesOK
    <3> QED
      BY <2>1, <3>1, <3>2, <3>3 DEF Safe, TimerOK, CloseAnswered, LivePeerKept, TimerEnds
  <2> QED
    BY <1>3, <2>2, <2>3 DEF OnPingFrame, SendRaw
<1>4. CASE OnPongFrame
  <2>1. /\ UNCHANGED <<out, reads, cause, fault>>
        /\ ctl = "frames" /\ ctl' \in {"frames", "pong"}
    BY <1>4 DEF OnPongFrame, Taking, Calls, peerVars
  <2>2. conn' = [conn EXCEPT !.waiting = FALSE]
    BY <1>4 DEF OnPongFrame, LaureHbReset
  <2> QED
    BY <1>t, <2>1, <2>2, Quiet DEF ConnRecs
<1>5. CASE OnCloseFrame
  BY <1>5, EndSafe DEF OnCloseFrame, Taking, peerVars
<1>6. CASE OnBadFrame
  BY <1>6, EndSafe DEF OnBadFrame, Taking, peerVars
<1>7. CASE FramesEnd
  BY <1>7, Quiet DEF FramesEnd, peerVars
<1> QED
  BY <1>1, <1>2, <1>3, <1>4, <1>5, <1>6, <1>7 DEF TakeFrame

LEMMA ReturnSafe == TypeOK /\ Safe /\ Return => Safe'
<1> SUFFICES ASSUME TypeOK, Safe, Return PROVE Safe'
  OBVIOUS
<1>t. conn \in ConnRecs /\ reads \in Nat /\ out \in Seq(Items)
  BY TypeParts
<1>1. CASE ReturnOpen
  <2>1. /\ UNCHANGED <<out, reads, cause>> /\ ctl = "open" /\ ctl' = "loop"
        /\ fault = "none" /\ fault' # "freed_timer"
    BY <1>1 DEF ReturnOpen, AfterHandshake, peerVars
  <2>2. conn.timer = "none" /\ "101" \in Kinds /\ cause \in {"none", "script"}
        /\ conn.mem = "live" /\ conn.state # "WS_HAND"
    BY <1>t, <2>1 DEF Safe, StagesOK, HandlesOK, ConnRecs
  <2>3. conn' = [conn EXCEPT !.timer = "armed", !.waiting = FALSE]
    BY <1>1, <2>2 DEF ReturnOpen, LaureHbStart, HbActive
  <2>4. /\ conn'.mem = "live" /\ conn'.state = conn.state /\ conn'.tcp = conn.tcp
        /\ conn'.timer = "armed" /\ conn'.first = conn.first /\ ~conn'.waiting
    BY <1>t, <2>2, <2>3 DEF ConnRecs
  <2>5. Kinds' = Kinds /\ CloseFrameOnce'
    BY <2>1, NotWritten DEF Safe
  <2>6. HandlesOK'
    BY <2>1, <2>2, <2>4 DEF Safe, HandlesOK
  <2>7. StagesOK'
    BY <2>1, <2>2, <2>4, <2>5 DEF Safe, StagesOK
  <2>8. TimerOK' /\ CloseAnswered' /\ LivePeerKept' /\ TimerEnds'
    BY <2>1, <2>2, <2>4, <2>5 DEF TimerOK, CloseAnswered, LivePeerKept, TimerEnds
  <2> QED
    BY <2>5, <2>6, <2>7, <2>8 DEF Safe
<1>2. CASE ReturnFrame
  <2>1. /\ UNCHANGED <<out, reads, cause, fault>> /\ ctl' = "frames"
        /\ ctl \in {"message", "fragmented", "ping", "pong"}
    BY <1>2 DEF ReturnFrame, peerVars
  <2>2. conn' \in {conn, Unfragmented(conn)}
    BY <1>2 DEF ReturnFrame
  <2>3. /\ conn'.mem = conn.mem /\ conn'.state = conn.state /\ conn'.tcp = conn.tcp
        /\ conn'.timer = conn.timer /\ conn'.first = conn.first /\ conn'.waiting = conn.waiting
    BY <1>t, <2>2 DEF Unfragmented, ConnRecs
  <2> QED
    BY <2>1, <2>3, Quiet
<1>3. CASE ReturnClose
  <2>1. /\ UNCHANGED <<out, reads, cause, fault>> /\ ctl = "close" /\ ctl' = "loop"
    BY <1>3 DEF ReturnClose, peerVars
  <2>2. conn' = [conn EXCEPT !.mem = "freed"]
    BY <1>3 DEF ReturnClose
  <2>3. /\ conn'.mem = "freed" /\ conn'.state = conn.state /\ conn'.tcp = conn.tcp
        /\ conn'.timer = conn.timer /\ conn'.first = conn.first /\ conn'.waiting = conn.waiting
    BY <1>t, <2>2 DEF ConnRecs
  <2>4. Kinds' = Kinds /\ CloseFrameOnce' /\ (PingedSince => PingedSince')
    BY <2>1, NotWritten DEF Safe
  <2>5. HandlesOK'
    BY <2>1, <2>3 DEF Safe, HandlesOK
  <2>6. StagesOK'
    BY <2>1, <2>3, <2>4 DEF Safe, StagesOK, HandlesOK
  <2>7. TimerOK' /\ CloseAnswered' /\ LivePeerKept' /\ TimerEnds'
    BY <2>1, <2>3, <2>4 DEF Safe, TimerOK, CloseAnswered, LivePeerKept, TimerEnds
  <2> QED
    BY <2>4, <2>5, <2>6, <2>7 DEF Safe
<1> QED
  BY <1>1, <1>2, <1>3 DEF Return

LEMMA TimerSafe == TypeOK /\ Safe /\ HbTimerCb => Safe'
<1> SUFFICES ASSUME TypeOK, Safe, HbTimerCb PROVE Safe'
  OBVIOUS
<1>t. conn \in ConnRecs /\ reads \in Nat /\ out \in Seq(Items)
  BY TypeParts
<1>0. /\ reads' = reads /\ ctl' = ctl /\ ctl = "loop" /\ conn.mem = "live" /\ conn.timer = "armed"
      /\ fault' = fault /\ fault = "none"
  BY DEF HbTimerCb, AtLoop, peerVars
<1>s. conn.state # "WS_HAND" /\ "101" \in Kinds
  BY <1>0 DEF Safe, StagesOK
<1>1. CASE conn.state # "WS_OPEN"
  <2>1. conn' = [conn EXCEPT !.timer = "closing", !.first = "timer"] /\ out' = out /\ cause' = cause
    BY <1>0, <1>1 DEF HbTimerCb, LaureHbStop, HbActive
  <2>2. /\ conn'.mem = conn.mem /\ conn'.state = conn.state /\ conn'.tcp = conn.tcp
        /\ conn'.timer = "closing" /\ conn'.first = "timer" /\ conn'.waiting = conn.waiting
    BY <1>t, <2>1 DEF ConnRecs
  <2>3. Kinds' = Kinds /\ CloseFrameOnce' /\ (PingedSince => PingedSince')
    BY <1>0, <2>1, NotWritten DEF Safe
  <2>4. conn.state \in {"WS_CLOSING", "CLOSE"}
    BY <1>t, <1>s, <1>1 DEF ConnRecs
  <2>5. cause # "heartbeat" /\ (cause = "eof" => "close" \in Kinds)
    BY <1>0 DEF Safe, TimerEnds, TimerOK
  <2>6. HandlesOK'
    BY <1>0, <2>2 DEF Safe, HandlesOK
  <2>7. StagesOK'
    BY <1>0, <1>s, <2>1, <2>2, <2>3 DEF Safe, StagesOK
  <2>8. TimerOK' /\ CloseAnswered' /\ LivePeerKept' /\ TimerEnds'
    BY <1>0, <2>1, <2>2, <2>3, <2>4, <2>5
       DEF Safe, StagesOK, TimerOK, CloseAnswered, LivePeerKept, TimerEnds
  <2> QED
    BY <2>3, <2>6, <2>7, <2>8 DEF Safe
<1>2. CASE conn.state = "WS_OPEN" /\ conn.waiting
  <2> DEFINE r == LaureConnClose(LaureWsClose(conn))
  <2>1. conn' = [r EXCEPT !.timer = "idle"] /\ SendClose /\ Because("heartbeat")
    BY <1>2 DEF HbTimerCb
  <2>2. /\ r \in ConnRecs /\ r.state = "CLOSE" /\ r.mem = conn.mem
        /\ r.waiting = conn.waiting /\ r.tcp = "closing" /\ r.first = "tcp"
        /\ cause' = "heartbeat"
        /\ Kinds \subseteq Kinds' /\ "close" \in Kinds' /\ CloseFrameOnce'
        /\ (PingedSince => PingedSince')
    BY <1>0, <1>2, <2>1, EndFacts
  <2> HIDE DEF r
  <2>3. /\ conn'.mem = "live" /\ conn'.state = "CLOSE" /\ conn'.tcp = "closing"
        /\ conn'.timer = "idle" /\ conn'.first = "tcp" /\ conn'.waiting
    BY <1>0, <1>2, <2>1, <2>2 DEF ConnRecs
  <2>4. PingedSince'
    BY <1>2, <2>2 DEF Safe, TimerOK
  <2>5. HandlesOK'
    BY <1>0, <2>3 DEF HandlesOK
  <2>6. StagesOK'
    BY <1>0, <1>s, <2>2, <2>3 DEF StagesOK
  <2>7. TimerOK' /\ CloseAnswered' /\ LivePeerKept' /\ TimerEnds'
    BY <1>0, <2>2, <2>3, <2>4 DEF TimerOK, CloseAnswered, LivePeerKept, TimerEnds
  <2> QED
    BY <2>2, <2>5, <2>6, <2>7 DEF Safe
<1>3. CASE conn.state = "WS_OPEN" /\ ~conn.waiting
  <2>1. conn' = [conn EXCEPT !.waiting = TRUE] /\ out' = Append(out, Item("ping", 0)) /\ cause' = cause
    BY <1>3 DEF HbTimerCb, SendRaw
  <2>2. /\ conn'.mem = conn.mem /\ conn'.state = conn.state /\ conn'.tcp = conn.tcp
        /\ conn'.timer = conn.timer /\ conn'.first = conn.first /\ conn'.waiting
    BY <1>t, <2>1 DEF ConnRecs
  <2>3. "close" \notin Kinds /\ cause = "none"
    BY <1>3 DEF Safe, StagesOK
  <2>4. Kinds' = Kinds \cup {"ping"} /\ CloseFrameOnce' /\ PingedSince'
    BY <1>0, <2>1, <2>3, Written DEF Safe
  <2>5. HandlesOK'
    BY <1>0, <2>2 DEF Safe, HandlesOK
  <2>6. StagesOK'
    BY <1>0, <1>3, <1>s, <2>1, <2>2, <2>3, <2>4 DEF StagesOK
  <2>7. TimerOK' /\ CloseAnswered' /\ LivePeerKept' /\ TimerEnds'
    BY <1>0, <2>1, <2>2, <2>3, <2>4 DEF TimerOK, CloseAnswered, LivePeerKept, TimerEnds
  <2> QED
    BY <2>4, <2>5, <2>6, <2>7 DEF Safe
<1> QED
  BY <1>1, <1>2, <1>3

LEMMA ScriptSafe == TypeOK /\ Safe /\ (PhpClose \/ PhpWsClose) => Safe'
<1> SUFFICES ASSUME TypeOK, Safe, PhpClose \/ PhpWsClose PROVE Safe'
  OBVIOUS
<1>t. conn \in ConnRecs /\ reads \in Nat /\ out \in Seq(Items)
  BY TypeParts
<1>1. CASE PhpClose /\ conn.state = "CLOSE"
  <2>1. UNCHANGED <<conn, ctl, out, reads, cause, fault>>
    BY <1>1 DEF PhpClose, LaureConnClose, Because, peerVars
  <2> QED
    BY <2>1, Quiet
<1>2. CASE PhpClose /\ conn.state # "CLOSE"
  <2>1. /\ UNCHANGED <<ctl, out, reads, fault>> /\ cause' = "script" /\ conn.tcp = "open"
        /\ fault = "none" /\ cause = "none"
    BY <1>2 DEF PhpClose, InUser, Because, peerVars, Safe, HandlesOK, StagesOK
  <2>2. conn' = CloseTcp([conn EXCEPT !.state = "CLOSE"])
    BY <1>2 DEF PhpClose, LaureConnClose
  <2>3. /\ conn'.mem = conn.mem /\ conn'.state = "CLOSE" /\ conn'.tcp = "closing"
        /\ conn'.timer = conn.timer /\ conn'.first = "tcp" /\ conn'.waiting = conn.waiting
    BY <1>t, <2>1, <2>2 DEF CloseTcp, ConnRecs
  <2>4. Kinds' = Kinds /\ CloseFrameOnce' /\ (PingedSince => PingedSince')
    BY <2>1, NotWritten DEF Safe
  <2>5. HandlesOK'
    BY <2>1, <2>3 DEF Safe, HandlesOK
  <2>6. StagesOK'
    BY <2>1, <2>3, <2>4 DEF Safe, StagesOK
  <2>7. TimerOK' /\ CloseAnswered' /\ LivePeerKept' /\ TimerEnds'
    BY <2>1, <2>3, <2>4 DEF Safe, TimerOK, CloseAnswered, LivePeerKept, TimerEnds
  <2> QED
    BY <2>4, <2>5, <2>6, <2>7 DEF Safe
<1>3. CASE PhpWsClose /\ conn.state # "WS_OPEN"
  <2>1. UNCHANGED <<conn, ctl, out, reads, cause, fault>>
    BY <1>3 DEF PhpWsClose, LaureWsClose, SendClose, peerVars
  <2> QED
    BY <2>1, Quiet
<1>4. CASE PhpWsClose /\ conn.state = "WS_OPEN"
  <2>1. /\ UNCHANGED <<ctl, reads, cause, fault>> /\ out' = Append(out, Item("close", 0))
        /\ conn' = [conn EXCEPT !.state = "WS_CLOSING"]
    BY <1>4 DEF PhpWsClose, LaureWsClose, SendClose, peerVars
  <2>2. /\ conn'.mem = conn.mem /\ conn'.state = "WS_CLOSING" /\ conn'.tcp = conn.tcp
        /\ conn'.timer = conn.timer /\ conn'.first = conn.first /\ conn'.waiting = conn.waiting
    BY <1>t, <2>1 DEF ConnRecs
  <2>3. "close" \notin Kinds /\ cause = "none" /\ conn.tcp = "open"
    BY <1>4 DEF Safe, StagesOK, HandlesOK
  <2>4. Kinds' = Kinds \cup {"close"} /\ CloseFrameOnce' /\ (PingedSince => PingedSince')
    BY <2>1, <2>3, Written DEF Safe
  <2>5. HandlesOK'
    BY <1>4, <2>1, <2>2 DEF Safe, HandlesOK
  <2>6. StagesOK'
    BY <1>4, <2>1, <2>2, <2>3, <2>4 DEF Safe, StagesOK
  <2>7. TimerOK' /\ CloseAnswered' /\ LivePeerKept' /\ TimerEnds'
    BY <2>1, <2>2, <2>3, <2>4 DEF Safe, TimerOK, CloseAnswered, LivePeerKept, TimerEnds
  <2> QED
    BY <2>4, <2>5, <2>6, <2>7 DEF Safe
<1> QED
  BY <1>1, <1>2, <1>3, <1>4

LEMMA EndsSafe == TypeOK /\ Safe /\ (Finish \/ TouchTimer) => Safe'
<1> SUFFICES ASSUME TypeOK, Safe, Finish \/ TouchTimer PROVE Safe'
  OBVIOUS
<1>t. conn \in ConnRecs /\ reads \in Nat /\ out \in Seq(Items)
  BY TypeParts
<1>n. \A r \in ConnRecs :
         /\ NextFirst(r).mem = r.mem /\ NextFirst(r).state = r.state
         /\ NextFirst(r).tcp = r.tcp /\ NextFirst(r).timer = r.timer
         /\ NextFirst(r).waiting = r.waiting
         /\ NextFirst(r).first = IF r.tcp = "closing" THEN "tcp"
                                 ELSE IF r.timer = "closing" THEN "timer" ELSE "none"
  BY DEF NextFirst, ConnRecs
<1>1. CASE FinishTcp
  <2> DEFINE q == [conn EXCEPT !.tcp = "closed"]
             r == NextFirst(q)
  <2>1. /\ UNCHANGED <<out, reads, cause, fault>> /\ fault = "none"
        /\ ctl = "loop" /\ conn.mem = "live" /\ conn.first = "tcp"
    BY <1>1 DEF FinishTcp, AtLoop, peerVars
  <2>2. \/ conn' = r /\ ctl' = "close"
        \/ conn' = [r EXCEPT !.mem = "freed"] /\ ctl' = "loop"
    BY <1>1, <2>1 DEF FinishTcp
  <2>3. q \in ConnRecs /\ q.mem = "live" /\ q.state = conn.state /\ q.tcp = "closed"
        /\ q.timer = conn.timer /\ q.waiting = conn.waiting
    BY <1>t, <2>1 DEF ConnRecs
  <2> HIDE DEF q
  <2>4. r \in ConnRecs
    BY <2>3, RecTypes
  <2>5. r.mem = "live" /\ r.state = conn.state /\ r.tcp = "closed" /\ r.timer = conn.timer
        /\ r.waiting = conn.waiting
        /\ r.first = IF conn.timer = "closing" THEN "timer" ELSE "none"
    BY <2>3, <1>n
  <2> HIDE DEF r
  <2>6. /\ conn'.state = conn.state /\ conn'.tcp = "closed" /\ conn'.timer = conn.timer
        /\ conn'.waiting = conn.waiting
        /\ conn'.first = IF conn.timer = "closing" THEN "timer" ELSE "none"
        /\ \/ conn'.mem = "live" /\ ctl' = "close"
           \/ conn'.mem = "freed" /\ ctl' = "loop"
    BY <2>2, <2>4, <2>5 DEF ConnRecs
  <2>7. conn.tcp = "closing" /\ conn.state = "CLOSE"
    BY <2>1 DEF Safe, HandlesOK
  <2>8. Kinds' = Kinds /\ CloseFrameOnce' /\ (PingedSince => PingedSince')
    BY <2>1, NotWritten DEF Safe
  <2>9. HandlesOK'
    BY <2>6, <2>7 DEF Safe, HandlesOK
  <2>10. StagesOK'
    BY <2>1, <2>6, <2>7, <2>8 DEF Safe, StagesOK
  <2>11. TimerOK' /\ CloseAnswered' /\ LivePeerKept' /\ TimerEnds'
    BY <2>1, <2>6, <2>7, <2>8 DEF Safe, TimerOK, CloseAnswered, LivePeerKept, TimerEnds
  <2> QED
    BY <2>8, <2>9, <2>10, <2>11 DEF Safe
<1>2. CASE FinishTimer
  <2> DEFINE q == [conn EXCEPT !.timer = "closed"]
  <2>1. /\ UNCHANGED <<ctl, out, reads, cause, fault>> /\ fault = "none"
        /\ ctl = "loop" /\ conn.mem = "live" /\ conn.first = "timer" /\ conn' = NextFirst(q)
    BY <1>2 DEF FinishTimer, AtLoop, peerVars
  <2>2. q \in ConnRecs /\ q.mem = "live" /\ q.state = conn.state /\ q.tcp = conn.tcp
        /\ q.timer = "closed" /\ q.waiting = conn.waiting
    BY <1>t, <2>1 DEF ConnRecs
  <2> HIDE DEF q
  <2>3. /\ conn'.mem = "live" /\ conn'.state = conn.state /\ conn'.tcp = conn.tcp
        /\ conn'.timer = "closed" /\ conn'.waiting = conn.waiting
        /\ conn'.first = IF conn.tcp = "closing" THEN "tcp" ELSE "none"
    BY <2>1, <2>2, <1>n
  <2>4. conn.timer = "closing" /\ conn.tcp # "closed"
    BY <2>1 DEF Safe, HandlesOK
  <2>5. cause # "heartbeat" /\ (cause = "eof" => "close" \in Kinds)
    <3>1. conn.tcp \in {"open", "closing"} /\ (conn.state = "CLOSE" <=> cause # "none")
          /\ (conn.state = "CLOSE" <=> conn.tcp # "open")
      BY <1>t, <2>4 DEF ConnRecs, Safe, HandlesOK, StagesOK
    <3> QED
      BY <2>1, <2>4, <3>1 DEF Safe, TimerOK, TimerEnds
  <2>6. Kinds' = Kinds /\ CloseFrameOnce' /\ (PingedSince => PingedSince')
    BY <2>1, NotWritten DEF Safe
  <2>7. HandlesOK'
    BY <2>1, <2>3 DEF Safe, HandlesOK
  <2>8. StagesOK'
    BY <2>1, <2>3, <2>4, <2>6 DEF Safe, StagesOK
  <2>9. TimerOK' /\ CloseAnswered' /\ LivePeerKept' /\ TimerEnds'
    BY <2>1, <2>3, <2>4, <2>5, <2>6 DEF Safe, StagesOK, TimerOK, CloseAnswered, LivePeerKept, TimerEnds
  <2> QED
    BY <2>6, <2>7, <2>8, <2>9 DEF Safe
<1>3. CASE TouchTimer
  <2>1. /\ UNCHANGED <<conn, ctl, out, reads, cause>>
        /\ ctl = "loop" /\ conn.mem = "freed" /\ conn.timer # "none"
    BY <1>3 DEF TouchTimer, AtLoop, peerVars
  <2>2. "101" \in Kinds /\ cause # "none"
    BY <2>1 DEF Safe, HandlesOK, StagesOK
  <2>3. Kinds' = Kinds /\ CloseFrameOnce' /\ (PingedSince => PingedSince')
    BY <2>1, NotWritten DEF Safe
  <2> QED
    BY <2>1, <2>2, <2>3
       DEF Safe, HandlesOK, StagesOK, TimerOK, CloseAnswered, LivePeerKept, TimerEnds
<1> QED
  BY <1>1, <1>2, <1>3 DEF Finish

LEMMA StepSafe == TypeOK /\ Safe /\ [Next]_vars => Safe'
<1>1. TypeOK /\ Safe /\ UNCHANGED vars => Safe'
  BY Quiet DEF vars, peerVars
<1> QED
  BY <1>1, PeerSafe, FrameSafe, ReturnSafe, TimerSafe, ScriptSafe, EndsSafe DEF Next

\* Whatever the peer sends, the callbacks do and the timer fires between: the
\* handles are closed and the frames written in the orders IInv allows.
THEOREM Invariant == Spec => []IInv
<1>1. Init => IInv
  BY InitType, InitSafe DEF IInv, Safe
<1>2. IInv /\ [Next]_vars => IInv'
  BY StepType, StepSafe DEF IInv, Safe
<1> QED
  BY <1>1, <1>2, PTL DEF Spec

\* One close frame at most, and behind it nothing but pongs.
THEOREM OneCloseFrame == Spec => []CloseFrameOnce
<1>1. IInv => CloseFrameOnce
  BY DEF IInv
<1> QED
  BY <1>1, Invariant, PTL

\* A connection that the peer, an error or the heartbeat ends has said so.
THEOREM EndSaid == Spec => []CloseAnswered
<1>1. IInv => CloseAnswered
  BY DEF IInv
<1> QED
  BY <1>1, Invariant, PTL

\* The heartbeat ends no connection that something was read from since its ping.
THEOREM HeartbeatFair == Spec => []LivePeerKept
<1>1. IInv => LivePeerKept
  BY DEF IInv
<1> QED
  BY <1>1, Invariant, PTL

\* Where the timer is when the connection ends, and when it is touched too late.
THEOREM TimerLeft == Spec => []TimerEnds
<1>1. IInv => TimerEnds
  BY DEF IInv
<1> QED
  BY <1>1, Invariant, PTL

-----------------------------------------------------------------------------
(* The action property. *)

LEMMA SilentStep ==
    ASSUME IInv, Next, conn.state = "CLOSE"
    PROVE  /\ conn'.state = "CLOSE"
           /\ in' = in /\ out' = out /\ cause' = cause
           /\ HbStarts <=> OpenReturns
           /\ HbStarts => cause = "script" /\ conn.timer = "none"
<1>0. TypeOK /\ conn \in ConnRecs /\ conn.tcp # "open" /\ done \in Nat
  BY TypeParts DEF IInv, HandlesOK
<1>o. ctl = "open" => conn.timer = "none" /\ cause = "script"
  BY DEF IInv, StagesOK
<1>s. ASSUME conn'.timer # "armed" \/ conn'.timer = conn.timer, ctl # "open" \/ ctl' = ctl
      PROVE  /\ HbStarts <=> OpenReturns
             /\ HbStarts => cause = "script" /\ conn.timer = "none"
  BY <1>s DEF HbStarts, OpenReturns
<1>1. ~Peer
  BY <1>0 DEF Peer, Handshake, HandshakeRefused, ReadRefused, Read, ReadEof, Reading
<1>2. \A why : EndWith(why) => conn' = conn /\ out' = out /\ cause' = cause
  BY DEF EndWith, LaureWsClose, LaureConnClose, SendClose, Because
<1>3. CASE OnDataFrame
  <2>1. in' = in /\ out' = out /\ cause' = cause
    BY <1>3 DEF OnDataFrame, peerVars
  <2>2. conn'.state = conn.state /\ conn'.timer = conn.timer
    <3>1. CASE Fin
      BY <1>3, <3>1 DEF OnDataFrame
    <3>2. CASE ~Fin
      <4> DEFINE op == IF conn.fragOp = "cont" THEN in[done + 1].op ELSE conn.fragOp
      <4>1. conn' = [conn EXCEPT !.fragOp = op, !.frag = Append(@, done + 1)]
        BY <1>3, <3>2 DEF OnDataFrame
      <4> HIDE DEF op
      <4> QED
        BY <1>0, <4>1 DEF ConnRecs
    <3> QED
      BY <3>1, <3>2
  <2> QED
    BY <1>3, <1>s, <2>1, <2>2 DEF OnDataFrame, Taking
<1>4. CASE OnContFrame
  <2>1. in' = in /\ out' = out /\ cause' = cause
    BY <1>4 DEF OnContFrame, peerVars
  <2> DEFINE r == [conn EXCEPT !.frag = Append(@, done + 1)]
  <2>2. conn' \in {r, Unfragmented(r)}
    BY <1>4 DEF OnContFrame
  <2>3. conn'.state = conn.state /\ conn'.timer = conn.timer
    BY <1>0, <2>2 DEF Unfragmented, ConnRecs
  <2> QED
    BY <1>4, <1>s, <2>1, <2>3 DEF OnContFrame, Taking
<1>5. CASE OnPingFrame
  BY <1>5, <1>s DEF OnPingFrame, Taking, SendRaw, peerVars
<1>6. CASE OnPongFrame
  BY <1>0, <1>6, <1>s DEF OnPongFrame, Taking, LaureHbReset, ConnRecs, peerVars
<1>7. CASE OnCloseFrame \/ OnBadFrame
  BY <1>2, <1>7, <1>s DEF OnCloseFrame, OnBadFrame, Taking, peerVars
<1>8. CASE FramesEnd \/ TouchTimer \/ (Ended /\ UNCHANGED vars)
  BY <1>8, <1>s DEF FramesEnd, TouchTimer, vars, peerVars
<1>9. CASE ReturnOpen
  <2>1. conn' = [conn EXCEPT !.timer = "armed", !.waiting = FALSE] /\ ctl = "open" /\ ctl' = "loop"
    BY <1>9, <1>o DEF ReturnOpen, LaureHbStart, HbActive
  <2>2. HbStarts /\ OpenReturns
    BY <1>0, <1>o, <2>1 DEF HbStarts, OpenReturns, ConnRecs
  <2> QED
    BY <1>0, <1>9, <1>o, <2>1, <2>2 DEF ReturnOpen, ConnRecs, peerVars
<1>10. CASE ReturnFrame
  BY <1>0, <1>10, <1>s DEF ReturnFrame, Unfragmented, ConnRecs, peerVars
<1>11. CASE ReturnClose
  BY <1>0, <1>11, <1>s DEF ReturnClose, ConnRecs, peerVars
<1>12. CASE HbTimerCb
  BY <1>0, <1>12, <1>s DEF HbTimerCb, AtLoop, LaureHbStop, HbActive, ConnRecs, peerVars
<1>13. CASE PhpClose \/ PhpWsClose
  BY <1>13, <1>s DEF PhpClose, PhpWsClose, LaureConnClose, LaureWsClose, SendClose, Because, peerVars
<1>n. \A r \in ConnRecs : NextFirst(r).state = r.state /\ NextFirst(r).timer = r.timer
  BY DEF NextFirst, ConnRecs
<1>14. CASE FinishTcp
  <2> DEFINE q == [conn EXCEPT !.tcp = "closed"]
             r == NextFirst(q)
  <2>1. in' = in /\ out' = out /\ cause' = cause /\ conn' \in {r, [r EXCEPT !.mem = "freed"]}
    BY <1>14 DEF FinishTcp, peerVars
  <2>2. q \in ConnRecs /\ q.state = conn.state /\ q.timer = conn.timer
    BY <1>0 DEF ConnRecs
  <2> HIDE DEF q
  <2>3. r \in ConnRecs /\ r.state = conn.state /\ r.timer = conn.timer
    BY <2>2, <1>n, RecTypes
  <2> HIDE DEF r
  <2> QED
    BY <1>14, <1>s, <2>1, <2>3 DEF FinishTcp, AtLoop, ConnRecs
<1>15. CASE FinishTimer
  <2> DEFINE q == [conn EXCEPT !.timer = "closed"]
  <2>1. in' = in /\ out' = out /\ cause' = cause /\ conn' = NextFirst(q)
    BY <1>15 DEF FinishTimer, peerVars
  <2>2. q \in ConnRecs /\ q.state = conn.state /\ q.timer = "closed"
    BY <1>0 DEF ConnRecs
  <2> HIDE DEF q
  <2> QED
    BY <1>15, <1>s, <2>1, <2>2, <1>n DEF FinishTimer
<1> QED
  BY <1>1, <1>3, <1>4, <1>5, <1>6, <1>7, <1>8, <1>9, <1>10, <1>11, <1>12, <1>13, <1>14, <1>15
     DEF Next, TakeFrame, Return, Finish

\* A closed connection reads and writes nothing any more, and its timer is started
\* only as the open callback returns in which the script closed it.
THEOREM ClosedStaysSilent == Spec => ClosedIsSilent
<1> DEFINE Silent == conn.state = "CLOSE" =>
          /\ conn'.state = "CLOSE"
          /\ in' = in /\ out' = out /\ cause' = cause
          /\ HbStarts <=> OpenReturns
          /\ HbStarts => cause = "script" /\ conn.timer = "none"
<1>1. IInv /\ [Next]_vars => [Silent]_vars
  BY SilentStep
<1>2. Spec => [][Silent]_vars
  <2> HIDE DEF Silent
  <2> QED
    BY <1>1, Invariant, PTL DEF Spec
<1> QED
  BY <1>2 DEF ClosedIsSilent

-----------------------------------------------------------------------------
(* Payloads and pings: the inductive invariant FrameInv. *)

Framed == FragsOK /\ PartsOnce /\ PingsAnswered

LEMMA ElemsAppend ==
    ASSUME NEW s \in Seq(Nat), NEW e \in Nat
    PROVE  /\ Elems(Append(s, e)) = Elems(s) \cup {e}
           /\ Append(s, e) \in Seq(Nat) /\ DOMAIN Append(s, e) = 1..(Len(s) + 1)
           /\ DOMAIN s = 1..Len(s) /\ Len(s) \in Nat
           /\ \A i \in 1..Len(s) : Append(s, e)[i] = s[i]
           /\ Append(s, e)[Len(s) + 1] = e
<1>1. /\ Append(s, e) \in Seq(Nat) /\ DOMAIN Append(s, e) = 1..(Len(s) + 1)
      /\ DOMAIN s = 1..Len(s) /\ Len(s) \in Nat
      /\ \A i \in 1..Len(s) : Append(s, e)[i] = s[i]
      /\ Append(s, e)[Len(s) + 1] = e
  OBVIOUS
<1>2. Elems(Append(s, e)) = Elems(s) \cup {e}
  BY <1>1 DEF Elems
<1> QED
  BY <1>1, <1>2

\* Places in the stream are numbers.
LEMMA SeqOfNats ==
    ASSUME NEW s \in Seq(Nat)
    PROVE  /\ Len(s) \in Nat /\ DOMAIN s = 1..Len(s)
           /\ \A j \in DOMAIN s : s[j] \in Nat
<1>1. Len(s) \in Nat /\ DOMAIN s = 1..Len(s)
  BY LenProperties
<1>2. \A j \in 1..Len(s) : s[j] \in Nat
  BY ElementOfSeq
<1> QED
  BY <1>1, <1>2

LEMMA PlacesOfParts ==
    ASSUME TypeOK
    PROVE  /\ Len(msgs) \in Nat /\ DOMAIN msgs = 1..Len(msgs)
           /\ \A i \in DOMAIN msgs : msgs[i].parts \in Seq(Nat)
           /\ \A i \in DOMAIN msgs : \A j \in DOMAIN msgs[i].parts : msgs[i].parts[j] \in Nat
<1>1. msgs \in Seq([op : DataOps, parts : Seq(Nat)])
  BY TypeParts
<1>2. Len(msgs) \in Nat /\ DOMAIN msgs = 1..Len(msgs)
  BY <1>1, LenProperties
<1>3. \A i \in 1..Len(msgs) : msgs[i] \in [op : DataOps, parts : Seq(Nat)]
  BY <1>1, ElementOfSeq
<1>4. \A i \in DOMAIN msgs : msgs[i].parts \in Seq(Nat)
  BY <1>2, <1>3
<1>5. \A i \in DOMAIN msgs : \A j \in DOMAIN msgs[i].parts : msgs[i].parts[j] \in Nat
  BY <1>4, SeqOfNats
<1> QED
  BY <1>2, <1>4, <1>5

\* An answered ping stays answered, and no other pong is sent: whatever else is
\* taken off rbuf or written.
LEMMA PingsKept ==
    ASSUME TypeOK, FragsOK, PingsAnswered,
           done' \in Nat, done <= done',
           \A k \in 1..done : in'[k] = in[k],
           \A k \in 1..done' : k <= done \/ in'[k].op # "ping",
           \/ out' = out
           \/ \E kind \in {"101", "close", "ping"}, of \in Nat :
                 out' = Append(out, Item(kind, of)),
           conn'.state # "CLOSE" => conn.state # "CLOSE"
    PROVE  PingsAnswered'
<1>1. /\ out \in Seq(Items) /\ DOMAIN out = 1..Len(out) /\ Len(out) \in Nat /\ done \in Nat
  BY DEF TypeOK
<1>2. Pongs' = Pongs /\ \A i \in Pongs : out'[i] = out[i]
  <2>1. CASE out' = out
    BY <2>1 DEF Pongs
  <2>2. ASSUME NEW kind \in {"101", "close", "ping"}, NEW of \in Nat,
               out' = Append(out, Item(kind, of))
        PROVE  Pongs' = Pongs /\ \A i \in Pongs : out'[i] = out[i]
    <3> DEFINE item == Item(kind, of)
    <3>1. item.kind # "pong" /\ item \in Items
      BY TypeParts DEF Item, Items
    <3> HIDE DEF item
    <3>2. /\ DOMAIN out' = 1..(Len(out) + 1)
          /\ \A i \in 1..Len(out) : out'[i] = out[i]
          /\ out'[Len(out) + 1] = item
      <4>1. out' = Append(out, item)
        BY <2>2 DEF item
      <4>2. /\ Append(out, item) \in Seq(Items) /\ Len(Append(out, item)) = Len(out) + 1
            /\ \A i \in 1..Len(out) : Append(out, item)[i] = out[i]
            /\ Append(out, item)[Len(out) + 1] = item
        BY <1>1, <3>1, AppendProperties
      <4>3. DOMAIN Append(out, item) = 1..(Len(out) + 1)
        BY <4>2, LenProperties
      <4> QED
        BY <4>1, <4>2, <4>3
    <3> QED
      BY <1>1, <3>1, <3>2 DEF Pongs
  <2> QED
    BY <2>1, <2>2
<1>3. \A i \in Pongs : out[i].of \in 1..done /\ in[out[i].of].op = "ping"
                       /\ \A j \in Pongs : i < j => out[i].of < out[j].of
  BY DEF PingsAnswered
<1>4. ASSUME NEW i \in Pongs'
      PROVE  /\ out'[i].of \in 1..done' /\ in'[out'[i].of].op = "ping"
             /\ \A j \in Pongs' : i < j => out'[i].of < out'[j].of
  <2>1. i \in Pongs /\ out'[i] = out[i] /\ out[i].of \in 1..done /\ in[out[i].of].op = "ping"
    BY <1>2, <1>3, <1>4
  <2>2. out[i].of \in 1..done' /\ in'[out[i].of] = in[out[i].of]
    BY <1>1, <2>1
  <2>3. \A j \in Pongs' : i < j => out'[i].of < out'[j].of
    BY <1>2, <1>3, <2>1
  <2> QED
    BY <2>1, <2>2, <2>3
<1>5. ASSUME conn'.state # "CLOSE", NEW k \in 1..done', in'[k].op = "ping"
      PROVE  \E i \in Pongs' : out'[i].of = k
  <2>1. k \in 1..done /\ in[k].op = "ping"
    BY <1>1, <1>5
  <2> QED
    BY <1>2, <1>5, <2>1 DEF PingsAnswered
<1> QED
  BY <1>4, <1>5 DEF PingsAnswered

\* The payloads where no data frame is taken.
LEMMA PartsKept ==
    ASSUME TypeOK, FragsOK, PartsOnce,
           done' \in Nat, done <= done', done' <= Len(in'),
           \A k \in 1..done : in'[k] = in[k],
           \A k \in 1..done' : k <= done \/ in'[k].op \notin DataOps,
           msgs' = msgs, exc' \in {exc, TRUE},
           Held' = Held, conn'.frag \in {conn.frag, <<>>}
    PROVE  FragsOK' /\ PartsOnce'
<1>1. done \in Nat /\ exc \in BOOLEAN
  BY DEF TypeOK
<1>2. /\ \A j \in DOMAIN conn'.frag :
          /\ conn'.frag[j] <= done'
          /\ \A k \in DOMAIN conn'.frag : j < k => conn'.frag[j] < conn'.frag[k]
  <2>1. CASE conn'.frag = <<>>
    BY <2>1
  <2>2. CASE conn'.frag = conn.frag
    <3>1. \A j \in DOMAIN conn.frag : conn.frag[j] \in Nat
      BY TypeParts
    <3> QED
      BY <1>1, <2>2, <3>1 DEF FragsOK
  <2> QED
    BY <2>1, <2>2
<1>3. \A i \in DOMAIN msgs : \A j \in DOMAIN msgs[i].parts : msgs[i].parts[j] \in Nat
  BY PlacesOfParts
<1>4. FragsOK'
  BY <1>1, <1>2, <1>3 DEF FragsOK
<1>5. {k \in 1..done' : in'[k].op \in DataOps} = {k \in 1..done : in[k].op \in DataOps}
  BY <1>1
<1>6. PartsOnce'
  <2>1. \A i, j \in DOMAIN msgs' :
          Elems(msgs'[i].parts) \cap Elems(msgs'[j].parts) # {} => i = j
    BY DEF PartsOnce
  <2>2. \A i \in DOMAIN msgs' : Elems(msgs'[i].parts) \cap Held' = {}
    BY DEF PartsOnce
  <2>3. \A i \in DOMAIN msgs' : \A j, k \in DOMAIN msgs'[i].parts :
          j < k => msgs'[i].parts[j] < msgs'[i].parts[k]
    BY DEF PartsOnce
  <2>4. "message" \in Events /\ ~exc' =>
          {k \in 1..done' : in'[k].op \in DataOps}
             = Held' \cup UNION {Elems(msgs'[i].parts) : i \in DOMAIN msgs'}
    <3> DEFINE U == UNION {Elems(msgs[i].parts) : i \in DOMAIN msgs}
    <3>1. "message" \in Events /\ ~exc => {k \in 1..done : in[k].op \in DataOps} = Held \cup U
      BY DEF PartsOnce
    <3>2. ~exc' => ~exc
      BY <1>1
    <3>3. UNION {Elems(msgs'[i].parts) : i \in DOMAIN msgs'} = U
      OBVIOUS
    <3> HIDE DEF U
    <3> QED
      BY <1>5, <3>1, <3>2, <3>3
  <2> QED
    BY <2>1, <2>2, <2>3, <2>4 DEF PartsOnce, Elems
<1> QED
  BY <1>4, <1>6

\* A data frame is taken off rbuf, and its payload kept for the rest.
LEMMA PartHeld ==
    ASSUME TypeOK, FragsOK, PartsOnce, ctl = "frames",
           done < Len(in), in[done + 1].op \in DataOps,
           in' = in, done' = done + 1, msgs' = msgs, exc' = exc, ctl' = ctl,
           conn'.frag = Append(conn.frag, done + 1)
    PROVE  FragsOK' /\ PartsOnce'
<1>1. done \in Nat /\ done + 1 \in Nat /\ conn.frag \in Seq(Nat) /\ Len(in) \in Nat
  BY TypeParts DEF FragsOK
<1>2. /\ Held' = Held \cup {done + 1} /\ Held = Elems(conn.frag)
      /\ DOMAIN conn'.frag = 1..(Len(conn.frag) + 1)
      /\ DOMAIN conn.frag = 1..Len(conn.frag) /\ Len(conn.frag) \in Nat
      /\ \A i \in 1..Len(conn.frag) : conn'.frag[i] = conn.frag[i]
      /\ conn'.frag[Len(conn.frag) + 1] = done + 1
  <2>1. /\ Elems(conn'.frag) = Elems(conn.frag) \cup {done + 1}
        /\ DOMAIN conn'.frag = 1..(Len(conn.frag) + 1)
        /\ DOMAIN conn.frag = 1..Len(conn.frag) /\ Len(conn.frag) \in Nat
        /\ \A i \in 1..Len(conn.frag) : conn'.frag[i] = conn.frag[i]
        /\ conn'.frag[Len(conn.frag) + 1] = done + 1
    BY <1>1, ElemsAppend
  <2>2. Held = Elems(conn.frag) /\ Held' = Elems(conn'.frag)
    BY DEF Held, Elems
  <2> QED
    BY <2>1, <2>2
<1>3. \A i \in DOMAIN msgs : \A j \in DOMAIN msgs[i].parts :
         msgs[i].parts[j] \in Nat /\ msgs[i].parts[j] <= done
  BY PlacesOfParts DEF FragsOK
<1>4. FragsOK'
  <2>1. \A j \in 1..Len(conn.frag) :
           /\ conn.frag[j] \in Nat /\ conn.frag[j] <= done
           /\ \A k \in 1..Len(conn.frag) : j < k => conn.frag[j] < conn.frag[k]
    BY <1>1, <1>2, SeqOfNats DEF FragsOK
  <2>2. ASSUME NEW j \in DOMAIN conn'.frag
        PROVE  /\ conn'.frag[j] <= done + 1
               /\ \A k \in DOMAIN conn'.frag : j < k => conn'.frag[j] < conn'.frag[k]
    <3> DEFINE old == conn.frag
               new == conn'.frag
               n   == Len(conn.frag)
    <3>1. /\ n \in Nat /\ done \in Nat /\ DOMAIN new = 1..(n + 1) /\ j \in DOMAIN new
          /\ \A i \in 1..n : new[i] = old[i] /\ old[i] \in Nat /\ old[i] <= done
          /\ new[n + 1] = done + 1
      BY <1>1, <1>2, <2>1
    <3>2. \A i, k \in 1..n : i < k => old[i] < old[k]
      BY <2>1
    <3> HIDE DEF old, new, n
    <3>3. CASE j \in 1..n
      <4>1. new[j] \in Nat /\ new[j] <= done
        BY <3>1, <3>3
      <4>2. ASSUME NEW k \in DOMAIN new, j < k PROVE new[j] < new[k]
        <5>1. CASE k \in 1..n
          <6>1. old[j] < old[k]
            BY <3>2, <3>3, <4>2, <5>1
          <6> QED
            BY <3>1, <3>3, <5>1, <6>1
        <5>2. CASE k = n + 1
          BY <3>1, <4>1, <5>2
        <5> QED
          BY <3>1, <5>1, <5>2
      <4>3. new[j] <= done + 1
        BY <3>1, <4>1
      <4> QED
        BY <4>2, <4>3 DEF new
    <3>4. CASE j = n + 1
      <4>1. \A k \in DOMAIN new : ~(j < k)
        BY <3>1, <3>4
      <4>2. new[j] <= done + 1
        BY <3>1, <3>4
      <4> QED
        BY <4>1, <4>2 DEF new
    <3>5. j \in 1..n \/ j = n + 1
      BY <3>1
    <3> QED
      BY <3>3, <3>4, <3>5
  <2> QED
    BY <1>1, <1>3, <2>2 DEF FragsOK
<1>5. \A i \in DOMAIN msgs : done + 1 \notin Elems(msgs[i].parts)
  BY <1>1, <1>3 DEF Elems
<1>6. {k \in 1..(done + 1) : in[k].op \in DataOps} = {k \in 1..done : in[k].op \in DataOps} \cup {done + 1}
  BY <1>1
<1>7. \A i \in DOMAIN msgs' : Elems(msgs'[i].parts) \cap Held' = {}
  BY <1>2, <1>5 DEF PartsOnce
<1>8. "message" \in Events /\ ~exc' =>
          {k \in 1..done' : in'[k].op \in DataOps}
             = Held' \cup UNION {Elems(msgs'[i].parts) : i \in DOMAIN msgs'}
  <2> DEFINE U == UNION {Elems(msgs[i].parts) : i \in DOMAIN msgs}
  <2>1. "message" \in Events /\ ~exc => {k \in 1..done : in[k].op \in DataOps} = Held \cup U
    BY DEF PartsOnce
  <2>2. U' = U
    OBVIOUS
  <2> HIDE DEF U
  <2>3. "message" \in Events /\ ~exc' =>
          {k \in 1..done' : in'[k].op \in DataOps} = Held' \cup U'
    BY <1>2, <1>6, <2>1, <2>2
  <2> QED
    BY <2>3 DEF U
<1> QED
  BY <1>4, <1>7, <1>8 DEF PartsOnce

\* A data frame ends a message, which the message callback is given.
LEMMA PartGiven ==
    ASSUME TypeOK, FragsOK, PartsOnce,
           done < Len(in), in[done + 1].op \in DataOps,
           in' = in, done' = done + 1, exc' = exc,
           NEW op \in DataOps, NEW p \in Seq(Nat),
           msgs' = Append(msgs, [op |-> op, parts |-> p]),
           \A j, k \in DOMAIN p : j < k => p[j] < p[k],
           Elems(p) \cup Held' = Held \cup {done + 1},
           Elems(p) \cap Held' = {}
    PROVE  /\ PartsOnce'
           /\ \A i \in DOMAIN msgs' : \A j \in DOMAIN msgs'[i].parts :
                 msgs'[i].parts[j] <= done'
<1> DEFINE m == [op |-> op, parts |-> p]
<1>1. done \in Nat /\ done + 1 \in Nat /\ msgs \in Seq([op : DataOps, parts : Seq(Nat)])
  BY TypeParts
<1>2. /\ DOMAIN msgs = 1..Len(msgs) /\ Len(msgs) \in Nat
      /\ DOMAIN msgs' = 1..(Len(msgs) + 1)
      /\ \A i \in 1..Len(msgs) : msgs'[i] = msgs[i]
      /\ msgs'[Len(msgs) + 1].parts = p
  <2>1. m \in [op : DataOps, parts : Seq(Nat)] /\ m.parts = p
    OBVIOUS
  <2> HIDE DEF m
  <2>2. msgs' = Append(msgs, m)
    BY DEF m
  <2> QED
    BY <1>1, <2>1, <2>2, AppendProperties
<1>3. \A i \in 1..Len(msgs) : \A j \in DOMAIN msgs[i].parts :
         msgs[i].parts[j] \in Nat /\ msgs[i].parts[j] <= done
  BY <1>2, PlacesOfParts DEF FragsOK
<1>4. \A e \in Held : e \in Nat /\ e <= done
  BY TypeParts DEF Held, Elems, FragsOK
<1>5. \A e \in Elems(p) : e \in Nat /\ e <= done + 1
  BY <1>1, <1>4
<1>6. \A i \in 1..Len(msgs) : done + 1 \notin Elems(msgs[i].parts)
  BY <1>1, <1>3 DEF Elems
<1>7. \A i \in 1..Len(msgs) : Elems(msgs[i].parts) \cap Held = {}
  BY <1>2 DEF PartsOnce
<1>8. \A i \in 1..Len(msgs) : Elems(msgs[i].parts) \cap (Elems(p) \cup Held') = {}
  BY <1>6, <1>7
<1>9. \A i \in DOMAIN msgs' : \A j \in DOMAIN msgs'[i].parts : msgs'[i].parts[j] <= done'
  <2>1. \A j \in DOMAIN p : p[j] <= done + 1
    BY <1>5 DEF Elems
  <2> QED
    BY <1>1, <1>2, <1>3, <2>1
<1>10. ASSUME NEW i \in DOMAIN msgs', NEW j \in DOMAIN msgs',
              Elems(msgs'[i].parts) \cap Elems(msgs'[j].parts) # {}
       PROVE  i = j
  <2>1. \A a, b \in 1..Len(msgs) : Elems(msgs[a].parts) \cap Elems(msgs[b].parts) # {} => a = b
    BY <1>2 DEF PartsOnce
  <2>2. \A k \in DOMAIN msgs' : k \in 1..Len(msgs) \/ k = Len(msgs) + 1
    BY <1>2
  <2> QED
    BY <1>2, <1>8, <1>10, <2>1, <2>2
<1>11. \A i \in DOMAIN msgs' : Elems(msgs'[i].parts) \cap Held' = {}
  <2>2. \A k \in DOMAIN msgs' : k \in 1..Len(msgs) \/ k = Len(msgs) + 1
    BY <1>2
  <2> QED
    BY <1>2, <1>8, <2>2
<1>12. \A i \in DOMAIN msgs' : \A j, k \in DOMAIN msgs'[i].parts :
          j < k => msgs'[i].parts[j] < msgs'[i].parts[k]
  <2>1. \A i \in 1..Len(msgs) : \A j, k \in DOMAIN msgs[i].parts :
          j < k => msgs[i].parts[j] < msgs[i].parts[k]
    BY <1>2 DEF PartsOnce
  <2>2. \A k \in DOMAIN msgs' : k \in 1..Len(msgs) \/ k = Len(msgs) + 1
    BY <1>2
  <2> QED
    BY <1>2, <2>1, <2>2
<1>13. "message" \in Events /\ ~exc' =>
          {k \in 1..done' : in'[k].op \in DataOps}
             = Held' \cup UNION {Elems(msgs'[i].parts) : i \in DOMAIN msgs'}
  <2> DEFINE U == UNION {Elems(msgs[i].parts) : i \in 1..Len(msgs)}
             V == UNION {Elems(msgs'[i].parts) : i \in DOMAIN msgs'}
  <2>1. "message" \in Events /\ ~exc => {k \in 1..done : in[k].op \in DataOps} = Held \cup U
    BY <1>2 DEF PartsOnce
  <2>2. V = U \cup Elems(p)
    <3>1. \A k : k \in DOMAIN msgs' <=> k \in 1..Len(msgs) \/ k = Len(msgs) + 1
      BY <1>2
    <3>2. V \subseteq U \cup Elems(p)
      BY <1>2, <3>1
    <3>3. U \subseteq V
      BY <1>2, <3>1
    <3>4. Elems(p) \subseteq V
      BY <1>2, <3>1
    <3> QED
      BY <3>2, <3>3, <3>4
  <2>3. {k \in 1..(done + 1) : in[k].op \in DataOps}
           = {k \in 1..done : in[k].op \in DataOps} \cup {done + 1}
    BY <1>1
  <2> HIDE DEF U, V
  <2>4. "message" \in Events /\ ~exc' => {k \in 1..done' : in'[k].op \in DataOps} = Held' \cup V
    BY <2>1, <2>2, <2>3
  <2> QED
    BY <2>4 DEF V
<1> QED
  BY <1>9, <1>10, <1>11, <1>12, <1>13 DEF PartsOnce

\* None of the functions of heartbeat.c and conn.c has to do with the fragments,
\* and none opens a closed connection.
LEMMA FragOf ==
    ASSUME NEW r \in ConnRecs
    PROVE  /\ \A q \in {CloseTcp(r), LaureHbStart(r), LaureHbStop(r), LaureHbReset(r),
                        LaureConnClose(r), LaureWsClose(r), NextFirst(r)} :
                 q.frag = r.frag /\ q.fragOp = r.fragOp
           /\ \A q \in {CloseTcp(r), LaureHbStart(r), LaureHbStop(r), LaureHbReset(r),
                        NextFirst(r)} : q.state = r.state
           /\ LaureConnClose(r).state = "CLOSE"
           /\ r.state = "CLOSE" => LaureWsClose(r) = r
<1>1. \A q \in {CloseTcp(r), LaureHbStart(r), LaureHbStop(r), LaureHbReset(r)} :
         q.frag = r.frag /\ q.fragOp = r.fragOp /\ q.state = r.state
  BY DEF CloseTcp, LaureHbStart, LaureHbStop, LaureHbReset, ConnRecs
<1>2. /\ LaureWsClose(r).frag = r.frag /\ LaureWsClose(r).fragOp = r.fragOp
      /\ r.state = "CLOSE" => LaureWsClose(r) = r
  BY DEF LaureWsClose, ConnRecs
<1>3. /\ NextFirst(r).frag = r.frag /\ NextFirst(r).fragOp = r.fragOp
      /\ NextFirst(r).state = r.state
  BY DEF NextFirst, ConnRecs
<1>4. /\ LaureConnClose(r).frag = r.frag /\ LaureConnClose(r).fragOp = r.fragOp
      /\ LaureConnClose(r).state = "CLOSE"
  BY DEF LaureConnClose, CloseTcp, ConnRecs
<1> QED
  BY <1>1, <1>2, <1>3, <1>4

\* A step that takes no frame off rbuf.
LEMMA Unframed ==
    ASSUME TypeOK, Framed, TypeOK',
           UNCHANGED <<in, done, msgs>>, exc' \in {exc, TRUE},
           Held' = Held, conn'.frag \in {conn.frag, <<>>},
           conn'.state # "CLOSE" => conn.state # "CLOSE",
           \/ out' = out
           \/ \E kind \in {"101", "close", "ping"}, of \in Nat :
                 out' = Append(out, Item(kind, of))
    PROVE  Framed'
<1>1. done \in Nat /\ done' = done /\ done <= done' /\ done' <= Len(in')
  BY TypeParts DEF Framed, FragsOK
<1>2. /\ \A k \in 1..done : in'[k] = in[k]
      /\ \A k \in 1..done' : k <= done \/ in'[k].op # "ping"
      /\ \A k \in 1..done' : k <= done \/ in'[k].op \notin DataOps
  BY <1>1
<1>3. PingsAnswered'
  BY <1>1, <1>2, PingsKept DEF Framed
<1>4. FragsOK' /\ PartsOnce'
  BY <1>1, <1>2, PartsKept DEF Framed
<1> QED
  BY <1>3, <1>4 DEF Framed

LEMMA Sends ==
    ASSUME \/ SendClose
           \/ \E kind \in {"101", "ping"} : SendRaw(kind, 0)
    PROVE  \/ out' = out
           \/ \E kind \in {"101", "close", "ping"}, of \in Nat :
                 out' = Append(out, Item(kind, of))
BY DEF SendClose, SendRaw

LEMMA InitFramed == Init => Framed
<1> SUFFICES ASSUME Init PROVE Framed
  OBVIOUS
<1>1. /\ in = <<>> /\ done = 0 /\ msgs = <<>> /\ out = <<>> /\ conn.frag = <<>>
      /\ Len(in) = 0 /\ DOMAIN msgs = {} /\ DOMAIN out = {} /\ DOMAIN conn.frag = {}
  BY DEF Init
<1>2. Held = {} /\ Pongs = {} /\ 1..done = {}
  BY <1>1 DEF Held, Elems, Pongs
<1>3. FragsOK
  BY <1>1 DEF FragsOK
<1>4. PartsOnce
  BY <1>1, <1>2 DEF PartsOnce
<1>5. PingsAnswered
  BY <1>1, <1>2 DEF PingsAnswered
<1> QED
  BY <1>3, <1>4, <1>5 DEF Framed

\* The steps that neither bring a frame nor take one, but for ReturnFrame.
Aside == \/ Handshake \/ HandshakeRefused \/ ReadRefused \/ ReadEof
         \/ FramesEnd \/ ReturnOpen \/ ReturnClose \/ HbTimerCb
         \/ Finish \/ TouchTimer \/ PhpClose \/ PhpWsClose

\* ... leave the frames, the messages and the buffer as they are.
LEMMA AsideLeaves ==
    ASSUME TypeOK, Aside
    PROVE  /\ UNCHANGED <<in, done, msgs>>
           /\ exc' = exc \/ (exc' = TRUE /\ conn'.state = conn.state)
           /\ conn'.frag = conn.frag /\ conn'.fragOp = conn.fragOp
           /\ ctl' = "fragmented" <=> ctl = "fragmented"
           /\ conn'.state # "CLOSE" => conn.state # "CLOSE"
           /\ \/ UNCHANGED out \/ SendClose
              \/ \E kind \in {"101", "ping"} : SendRaw(kind, 0)
<1>t. conn \in ConnRecs
  BY TypeParts
<1>1. CASE Handshake
  <2> DEFINE r == [conn EXCEPT !.state = "WS_OPEN"]
  <2>1. r \in ConnRecs /\ r.frag = conn.frag /\ r.fragOp = conn.fragOp
    BY <1>t DEF ConnRecs
  <2> HIDE DEF r
  <2>2. conn' \in {r, LaureHbStart(r)}
    BY <1>1 DEF Handshake, r
  <2>3. conn'.frag = conn.frag /\ conn'.fragOp = conn.fragOp
    BY <2>1, <2>2, FragOf
  <2> QED
    BY <1>1, <2>3 DEF Handshake, Reading, AtLoop, peerVars
<1>2. CASE HandshakeRefused \/ ReadRefused
  BY <1>2, <1>t DEF HandshakeRefused, ReadRefused, ConnRecs, peerVars
<1>3. CASE ReadEof
  <2> DEFINE r == [conn EXCEPT !.state = "CLOSE"]
  <2>1. r \in ConnRecs /\ r.frag = conn.frag /\ r.fragOp = conn.fragOp /\ r.state = "CLOSE"
    BY <1>t DEF ConnRecs
  <2> HIDE DEF r
  <2>2. conn' = CloseTcp(LaureHbStop(r))
    BY <1>3 DEF ReadEof, r
  <2>3. conn'.frag = conn.frag /\ conn'.fragOp = conn.fragOp /\ conn'.state = "CLOSE"
    BY <2>1, <2>2, FragOf, RecTypes
  <2> QED
    BY <1>3, <2>3 DEF ReadEof, peerVars
<1>4. CASE FramesEnd
  BY <1>4 DEF FramesEnd, peerVars
<1>5. CASE ReturnOpen
  BY <1>5, <1>t, FragOf DEF ReturnOpen, peerVars
<1>6. CASE ReturnClose
  <2>1. /\ UNCHANGED <<in, done, msgs, out>> /\ exc' \in {exc, TRUE}
        /\ conn' = [conn EXCEPT !.mem = "freed"] /\ ctl = "close" /\ ctl' = "loop"
    BY <1>6 DEF ReturnClose, peerVars
  <2>2. conn'.frag = conn.frag /\ conn'.fragOp = conn.fragOp /\ conn'.state = conn.state
    BY <1>t, <2>1 DEF ConnRecs
  <2> QED
    BY <2>1, <2>2
<1>7. CASE HbTimerCb
  <2>1. UNCHANGED <<in, done, msgs, exc, ctl>>
    BY <1>7 DEF HbTimerCb, peerVars
  <2>2. CASE conn.state # "WS_OPEN"
    BY <1>7, <1>t, <2>1, <2>2, FragOf DEF HbTimerCb
  <2>3. CASE conn.state = "WS_OPEN" /\ conn.waiting
    <3> DEFINE r == LaureConnClose(LaureWsClose(conn))
    <3>1. r \in ConnRecs /\ r.frag = conn.frag /\ r.fragOp = conn.fragOp /\ r.state = "CLOSE"
      BY <1>t, FragOf, RecTypes
    <3>2. conn' = [r EXCEPT !.timer = "idle"] /\ SendClose
      BY <1>7, <2>3 DEF HbTimerCb
    <3> HIDE DEF r
    <3>3. conn'.frag = conn.frag /\ conn'.fragOp = conn.fragOp /\ conn'.state = "CLOSE"
      BY <3>1, <3>2 DEF ConnRecs
    <3> QED
      BY <2>1, <3>2, <3>3
  <2>4. CASE conn.state = "WS_OPEN" /\ ~conn.waiting
    <3>1. conn' = [conn EXCEPT !.waiting = TRUE] /\ SendRaw("ping", 0)
      BY <1>7, <2>4 DEF HbTimerCb
    <3>2. conn'.frag = conn.frag /\ conn'.fragOp = conn.fragOp /\ conn'.state = conn.state
      BY <1>t, <3>1 DEF ConnRecs
    <3> QED
      BY <2>1, <3>1, <3>2
  <2> QED
    BY <2>2, <2>3, <2>4
<1>8. CASE FinishTcp
  <2> DEFINE q == [conn EXCEPT !.tcp = "closed"]
             r == NextFirst(q)
  <2>1. /\ UNCHANGED <<in, done, msgs, exc, out>> /\ ctl = "loop" /\ ctl' \in {"loop", "close"}
        /\ conn' \in {r, [r EXCEPT !.mem = "freed"]}
    BY <1>8 DEF FinishTcp, AtLoop, peerVars
  <2>2. q \in ConnRecs /\ q.state = conn.state /\ q.frag = conn.frag /\ q.fragOp = conn.fragOp
    BY <1>t DEF ConnRecs
  <2> HIDE DEF q
  <2>3. r \in ConnRecs /\ r.state = conn.state /\ r.frag = conn.frag /\ r.fragOp = conn.fragOp
    BY <2>2, FragOf, RecTypes
  <2> HIDE DEF r
  <2>4. conn'.frag = conn.frag /\ conn'.fragOp = conn.fragOp /\ conn'.state = conn.state
    BY <2>1, <2>3 DEF ConnRecs
  <2> QED
    BY <2>1, <2>4
<1>9. CASE FinishTimer
  <2> DEFINE q == [conn EXCEPT !.timer = "closed"]
  <2>1. UNCHANGED <<in, done, msgs, exc, out, ctl>> /\ conn' = NextFirst(q)
    BY <1>9 DEF FinishTimer, peerVars
  <2>2. q \in ConnRecs /\ q.state = conn.state /\ q.frag = conn.frag /\ q.fragOp = conn.fragOp
    BY <1>t DEF ConnRecs
  <2> HIDE DEF q
  <2>3. conn'.frag = conn.frag /\ conn'.fragOp = conn.fragOp /\ conn'.state = conn.state
    BY <2>1, <2>2, FragOf
  <2> QED
    BY <2>1, <2>3
<1>10. CASE TouchTimer
  BY <1>10 DEF TouchTimer, peerVars
<1>11. CASE PhpClose
  BY <1>11, <1>t, FragOf DEF PhpClose, peerVars
<1>12. CASE PhpWsClose
  BY <1>12, <1>t, FragOf DEF PhpWsClose, peerVars
<1> QED
  BY <1>1, <1>2, <1>3, <1>4, <1>5, <1>6, <1>7, <1>8, <1>9, <1>10, <1>11, <1>12 DEF Aside, Finish

\* Frames that arrive come behind those that are here.
LEMMA ReadGrows ==
    ASSUME TypeOK, Read
    PROVE  /\ UNCHANGED <<done, msgs, exc, out>> /\ ctl = "loop" /\ ctl' = "frames"
           /\ conn'.frag = conn.frag /\ conn'.fragOp = conn.fragOp /\ conn'.state = conn.state
           /\ in' \in Seq(Frames) /\ Len(in) <= Len(in')
           /\ \A k \in 1..Len(in) : in'[k] = in[k]
<1>1. /\ UNCHANGED <<done, msgs, exc, out>> /\ conn' = LaureHbReset(conn)
      /\ ctl = "loop" /\ ctl' = "frames"
  BY DEF Read, Reading, AtLoop
<1>2. conn'.frag = conn.frag /\ conn'.fragOp = conn.fragOp /\ conn'.state = conn.state
  BY <1>1, TypeParts, FragOf
<1>3. PICK n \in 0..MaxFrames : \E fs \in [1..n -> Frames] : in' = in \o fs
  BY DEF Read
<1>4. PICK fs \in [1..n -> Frames] : in' = in \o fs
  BY <1>3
<1>5. fs \in Seq(Frames) /\ in \in Seq(Frames)
  BY <1>3, TypeParts, BoundAssumption
<1>6. Len(fs) \in Nat /\ Len(in) \in Nat
  BY <1>5, LenProperties
<1>7. /\ in' \in Seq(Frames) /\ Len(in) <= Len(in')
      /\ \A k \in 1..Len(in) : in'[k] = in[k]
  BY <1>4, <1>5, <1>6, ConcatProperties
<1> QED
  BY <1>1, <1>2, <1>7

\* A control frame or a bad one is taken, and is no ping or an answered one.
LEMMA ControlTaken ==
    ASSUME TypeOK, Framed, done < Len(in), in[done + 1].op \notin DataOps,
           UNCHANGED <<in, msgs, exc>>, done' \in {done, done + 1},
           Held' = Held, conn'.frag = conn.frag
    PROVE  FragsOK' /\ PartsOnce'
<1>1. /\ done \in Nat /\ Len(in) \in Nat
      /\ done' \in Nat /\ done <= done' /\ done' <= Len(in')
  BY TypeParts, LenProperties DEF Framed, FragsOK
<1>2. /\ \A k \in 1..done : in'[k] = in[k]
      /\ \A k \in 1..done' : k <= done \/ in'[k].op \notin DataOps
  BY <1>1
<1> QED
  BY <1>1, <1>2, PartsKept DEF Framed

\* The frame that is taken is no ping.
LEMMA NoPingTaken ==
    ASSUME TypeOK, Framed, done < Len(in), in[done + 1].op # "ping",
           UNCHANGED in, done' \in {done, done + 1},
           out' = out \/ SendClose,
           conn'.state # "CLOSE" => conn.state # "CLOSE"
    PROVE  PingsAnswered'
<1>1. done \in Nat /\ done' \in Nat /\ done <= done'
  BY TypeParts DEF Framed, FragsOK
<1>2. /\ \A k \in 1..done : in'[k] = in[k]
      /\ \A k \in 1..done' : k <= done \/ in'[k].op # "ping"
  BY <1>1
<1> QED
  BY <1>1, <1>2, Sends, PingsKept DEF Framed

\* The pong of the ping that is taken, if the connection is not closed.
LEMMA PingTaken ==
    ASSUME TypeOK, Framed, done < Len(in), in[done + 1].op = "ping",
           UNCHANGED <<in, conn>>, done' = done + 1, SendRaw("pong", done + 1)
    PROVE  PingsAnswered'
<1>1. /\ out \in Seq(Items) /\ DOMAIN out = 1..Len(out) /\ Len(out) \in Nat
      /\ done \in Nat /\ done + 1 \in Nat
  BY DEF TypeOK
<1>2. \A i \in Pongs : out[i].of \in 1..done /\ in[out[i].of].op = "ping"
                       /\ \A j \in Pongs : i < j => out[i].of < out[j].of
  BY DEF Framed, PingsAnswered
<1>3. CASE conn.state = "CLOSE"
  <2>1. out' = out /\ Pongs' = Pongs
    BY <1>3 DEF SendRaw, Pongs
  <2>2. \A i \in Pongs' : /\ out'[i].of \in 1..done' /\ in'[out'[i].of].op = "ping"
                           /\ \A j \in Pongs' : i < j => out'[i].of < out'[j].of
    BY <1>1, <1>2, <2>1
  <2> QED
    BY <1>3, <2>2 DEF PingsAnswered
<1>4. CASE conn.state # "CLOSE"
  <2> DEFINE item == Item("pong", done + 1)
             n == Len(out) + 1
  <2>1. item.kind = "pong" /\ item.of = done + 1
    BY DEF Item
  <2>2. out' = Append(out, item)
    BY <1>4 DEF SendRaw
  <2> HIDE DEF item
  <2>3. DOMAIN out' = 1..n /\ out'[n] = item /\ \A i \in 1..Len(out) : out'[i] = out[i]
    BY <1>1, <2>2, AppendProperties
  <2>4. /\ Pongs' = Pongs \cup {n} /\ n \notin Pongs
        /\ \A i \in Pongs : i \in 1..Len(out) /\ out'[i] = out[i]
    BY <1>1, <2>1, <2>3 DEF Pongs
  <2>5. ASSUME NEW i \in Pongs'
        PROVE  /\ out'[i].of \in 1..done' /\ in'[out'[i].of].op = "ping"
               /\ \A j \in Pongs' : i < j => out'[i].of < out'[j].of
    <3>1. CASE i = n
      <4>1. \A j \in Pongs' : ~(n < j)
        BY <1>1, <2>4
      <4> QED
        BY <1>1, <2>1, <2>3, <3>1, <4>1
    <3>2. CASE i \in Pongs
      <4>1. out'[i] = out[i] /\ out[i].of \in 1..done /\ in[out[i].of].op = "ping"
        BY <1>2, <2>4, <3>2
      <4>2. ASSUME NEW j \in Pongs', i < j PROVE out'[i].of < out'[j].of
        <5>1. CASE j = n
          BY <1>1, <2>1, <2>3, <4>1, <5>1
        <5>2. CASE j \in Pongs
          BY <1>2, <2>4, <3>2, <4>1, <4>2, <5>2
        <5> QED
          BY <2>4, <5>1, <5>2
      <4> QED
        BY <1>1, <4>1, <4>2
    <3> QED
      BY <2>4, <2>5, <3>1, <3>2
  <2>6. ASSUME NEW k \in 1..done', in'[k].op = "ping"
        PROVE  \E i \in Pongs' : out'[i].of = k
    <3>1. CASE k \in 1..done
      <4>1. PICK i \in Pongs : out[i].of = k
        BY <1>4, <2>6, <3>1 DEF Framed, PingsAnswered
      <4> QED
        BY <2>4, <4>1
    <3>2. CASE k = done + 1
      BY <2>1, <2>3, <2>4, <3>2
    <3> QED
      BY <1>1, <3>1, <3>2
  <2> QED
    BY <2>5, <2>6 DEF PingsAnswered
<1> QED
  BY <1>3, <1>4

\* While the message callback is not called, nothing is said of what it was given.
LEMMA MessagesDropped ==
    ASSUME PartsOnce, UNCHANGED <<msgs, exc>>, "message" \in Events => exc,
           Held' \subseteq Held
    PROVE  PartsOnce'
<1>1. /\ \A i, j \in DOMAIN msgs' :
            Elems(msgs'[i].parts) \cap Elems(msgs'[j].parts) # {} => i = j
      /\ \A i \in DOMAIN msgs' : \A j, k \in DOMAIN msgs'[i].parts :
            j < k => msgs'[i].parts[j] < msgs'[i].parts[k]
  BY DEF PartsOnce
<1>2. \A i \in DOMAIN msgs' : Elems(msgs'[i].parts) \cap Held' = {}
  <2>1. \A i \in DOMAIN msgs : Elems(msgs[i].parts) \cap Held = {}
    BY DEF PartsOnce
  <2> QED
    BY <2>1
<1>3. ~("message" \in Events /\ ~exc')
  OBVIOUS
<1> QED
  BY <1>1, <1>2, <1>3 DEF PartsOnce

LEMMA TakeFramed == TypeOK /\ Framed /\ TakeFrame => Framed'
<1> SUFFICES ASSUME TypeOK, Framed, TakeFrame PROVE Framed'
  OBVIOUS
<1>t. /\ TypeOK' /\ conn \in ConnRecs /\ done \in Nat /\ conn.frag \in Seq(Nat)
      /\ in \in Seq(Frames) /\ Len(in) \in Nat
  BY FrameType, TypeParts, LenProperties
<1>f. \A ops : Taking(ops) => ctl = "frames" /\ done < Len(in) /\ in[done + 1].op \in ops
  BY DEF Taking
<1>e. \A e, cb : ctl = "frames" /\ Calls(e, cb) => ctl' \in {"frames", cb}
  BY DEF Calls
<1>1. CASE OnDataFrame
  <2>1. /\ ctl = "frames" /\ done < Len(in) /\ in[done + 1].op \in {"text", "binary"}
        /\ UNCHANGED <<in, exc, out>> /\ done' = done + 1
    BY <1>1, <1>f DEF OnDataFrame, peerVars
  <2>2. in[done + 1].op \in DataOps /\ in[done + 1].op # "ping"
    BY <2>1 DEF DataOps
  <2>3. conn'.state = conn.state
    <3>1. CASE Fin
      BY <1>1, <3>1 DEF OnDataFrame
    <3>2. CASE ~Fin
      <4> DEFINE op == IF conn.fragOp = "cont" THEN in[done + 1].op ELSE conn.fragOp
      <4>1. conn' = [conn EXCEPT !.fragOp = op, !.frag = Append(@, done + 1)]
        BY <1>1, <3>2 DEF OnDataFrame
      <4> HIDE DEF op
      <4> QED
        BY <1>t, <4>1 DEF ConnRecs
    <3> QED
      BY <3>1, <3>2
  <2>4. PingsAnswered'
    BY <2>1, <2>2, <2>3, NoPingTaken
  <2>5. CASE Fin
    <3> DEFINE p == <<done + 1>>
    <3>1. /\ Message(in[done + 1].op, p) /\ Calls("message", "message") /\ conn' = conn
      BY <1>1, <2>5 DEF OnDataFrame
    <3>2. Held' = Held
      BY <1>e, <2>1, <3>1 DEF Held, Elems
    <3>3. CASE Callable("message")
      <4>1. msgs' = Append(msgs, [op |-> in[done + 1].op, parts |-> p])
        BY <3>1, <3>3 DEF Message
      <4>2. /\ p \in Seq(Nat) /\ Elems(p) = {done + 1}
            /\ \A j, k \in DOMAIN p : j < k => p[j] < p[k]
        BY <1>t DEF Elems
      <4>3. Elems(p) \cap Held' = {}
        <5>1. \A e \in Elems(conn.frag) : e \in Nat /\ e <= done
          BY <1>t, SeqOfNats DEF Elems, Framed, FragsOK
        <5>2. Held \subseteq Elems(conn.frag)
          BY DEF Held
        <5> HIDE DEF p
        <5> QED
          BY <1>t, <3>2, <4>2, <5>1, <5>2
      <4> HIDE DEF p
      <4>4. /\ PartsOnce'
            /\ \A i \in DOMAIN msgs' : \A j \in DOMAIN msgs'[i].parts : msgs'[i].parts[j] <= done'
        BY <2>1, <2>2, <3>2, <4>1, <4>2, <4>3, PartGiven DEF Framed
      <4>5. FragsOK'
        BY <1>t, <2>1, <3>1, <4>4 DEF Framed, FragsOK
      <4> QED
        BY <2>4, <4>4, <4>5 DEF Framed
    <3>4. CASE ~Callable("message")
      <4>1. msgs' = msgs /\ ("message" \in Events => exc)
        BY <1>t, <3>1, <3>4 DEF Message, Callable
      <4>2. \A i \in DOMAIN msgs : \A j \in DOMAIN msgs[i].parts : msgs[i].parts[j] \in Nat
        BY PlacesOfParts
      <4>3. FragsOK'
        BY <1>t, <2>1, <3>1, <4>1, <4>2 DEF Framed, FragsOK
      <4>4. PartsOnce'
        BY <2>1, <3>2, <4>1, MessagesDropped DEF Framed
      <4> QED
        BY <2>4, <4>3, <4>4 DEF Framed
    <3> QED
      BY <3>3, <3>4
  <2>6. CASE ~Fin
    <3> DEFINE op == IF conn.fragOp = "cont" THEN in[done + 1].op ELSE conn.fragOp
    <3>1. /\ conn' = [conn EXCEPT !.fragOp = op, !.frag = Append(@, done + 1)]
          /\ msgs' = msgs /\ ctl' = ctl
      BY <1>1, <2>6 DEF OnDataFrame
    <3> HIDE DEF op
    <3>2. conn'.frag = Append(conn.frag, done + 1)
      BY <1>t, <3>1 DEF ConnRecs
    <3> QED
      BY <2>1, <2>2, <2>4, <3>1, <3>2, PartHeld DEF Framed
  <2> QED
    BY <2>5, <2>6
<1>2. CASE OnContFrame
  <2> DEFINE r == [conn EXCEPT !.frag = Append(@, done + 1)]
             p == Append(conn.frag, done + 1)
  <2>1. /\ ctl = "frames" /\ done < Len(in) /\ in[done + 1].op \in {"cont"}
        /\ UNCHANGED <<in, exc, out>> /\ done' = done + 1
    BY <1>2, <1>f DEF OnContFrame, peerVars
  <2>2. in[done + 1].op \in DataOps /\ in[done + 1].op # "ping"
    BY <2>1 DEF DataOps
  <2>3. r.frag = p /\ r.state = conn.state /\ r.fragOp = conn.fragOp
        /\ Unfragmented(r).frag = <<>> /\ Unfragmented(r).state = conn.state
    BY <1>t DEF Unfragmented, ConnRecs
  <2>4. /\ Fin => /\ Message(r.fragOp, p) /\ Calls("message", "fragmented")
                  /\ conn' = IF Callable("message") THEN r ELSE Unfragmented(r)
        /\ ~Fin => conn' = r /\ UNCHANGED <<msgs, ctl>>
    BY <1>2, <2>3 DEF OnContFrame
  <2> HIDE DEF r
  <2>5. PingsAnswered'
    BY <2>1, <2>2, <2>3, <2>4, NoPingTaken
  <2>6. CASE ~Fin
    BY <2>1, <2>2, <2>3, <2>4, <2>5, <2>6, PartHeld DEF Framed
  <2>7. CASE Fin /\ Callable("message")
    <3>1. conn'.frag = p /\ ctl' = "fragmented" /\ msgs' = Append(msgs, [op |-> conn.fragOp, parts |-> p])
      BY <2>3, <2>4, <2>7 DEF Message, Calls
    <3>2. /\ p \in Seq(Nat) /\ Elems(p) = Elems(conn.frag) \cup {done + 1}
          /\ DOMAIN p = 1..(Len(conn.frag) + 1)
          /\ DOMAIN conn.frag = 1..Len(conn.frag) /\ Len(conn.frag) \in Nat
          /\ \A i \in 1..Len(conn.frag) : p[i] = conn.frag[i]
          /\ p[Len(conn.frag) + 1] = done + 1
      BY <1>t, ElemsAppend
    <3> HIDE DEF p
    <3>3. \A j \in 1..Len(conn.frag) :
             /\ conn.frag[j] \in Nat /\ conn.frag[j] <= done
             /\ \A k \in 1..Len(conn.frag) : j < k => conn.frag[j] < conn.frag[k]
      BY <1>t, <3>2, SeqOfNats DEF Framed, FragsOK
    <3>p. \A j \in DOMAIN p :
             \/ j \in 1..Len(conn.frag) /\ p[j] = conn.frag[j]
             \/ j = Len(conn.frag) + 1 /\ p[j] = done + 1
      BY <3>2
    <3>4. ASSUME NEW j \in DOMAIN p, NEW k \in DOMAIN p, j < k PROVE p[j] < p[k]
      <4>1. j \in 1..Len(conn.frag) /\ p[j] = conn.frag[j]
        BY <3>2, <3>4, <3>p
      <4>2. CASE k \in 1..Len(conn.frag) /\ p[k] = conn.frag[k]
        BY <3>3, <3>4, <4>1, <4>2
      <4>3. CASE p[k] = done + 1
        BY <1>t, <3>3, <4>1, <4>3
      <4> QED
        BY <3>p, <4>2, <4>3
    <3>5. \A j \in DOMAIN p : p[j] <= done + 1
      BY <1>t, <3>3, <3>p
    <3>6. Held' = {} /\ Held = Elems(conn.frag)
      BY <2>1, <3>1 DEF Held
    <3>7. conn.fragOp \in DataOps
      BY TypeParts
    <3>8. /\ PartsOnce'
          /\ \A i \in DOMAIN msgs' : \A j \in DOMAIN msgs'[i].parts : msgs'[i].parts[j] <= done'
      BY <2>1, <2>2, <3>1, <3>2, <3>4, <3>6, <3>7, PartGiven DEF Framed
    <3>9. FragsOK'
      BY <1>t, <2>1, <3>1, <3>4, <3>5, <3>8 DEF FragsOK
    <3> QED
      BY <2>5, <3>8, <3>9 DEF Framed
  <2>8. CASE Fin /\ ~Callable("message")
    <3>1. conn'.frag = <<>> /\ ctl' = ctl /\ msgs' = msgs /\ ("message" \in Events => exc)
      BY <1>t, <2>3, <2>4, <2>8, TypeParts DEF Message, Calls, Callable
    <3>2. \A i \in DOMAIN msgs : \A j \in DOMAIN msgs[i].parts : msgs[i].parts[j] \in Nat
      BY PlacesOfParts
    <3>3. FragsOK'
      BY <1>t, <2>1, <3>1, <3>2 DEF Framed, FragsOK
    <3>4. Held' = {}
      BY <3>1 DEF Held, Elems
    <3>5. PartsOnce'
      BY <2>1, <3>1, <3>4, MessagesDropped DEF Framed
    <3> QED
      BY <2>5, <3>3, <3>5 DEF Framed
  <2> QED
    BY <2>6, <2>7, <2>8
<1>3. CASE OnPingFrame
  <2>1. /\ ctl = "frames" /\ done < Len(in) /\ in[done + 1].op \in {"ping"}
        /\ UNCHANGED <<conn, in, exc, msgs>> /\ done' = done + 1
        /\ SendRaw("pong", done + 1) /\ Calls("ping", "ping")
    BY <1>3, <1>f DEF OnPingFrame, peerVars
  <2>2. Held' = Held
    BY <1>e, <2>1 DEF Held, Elems
  <2>3. FragsOK' /\ PartsOnce'
    BY <2>1, <2>2, ControlTaken DEF DataOps
  <2> QED
    BY <2>1, <2>3, PingTaken DEF Framed
<1>4. CASE OnPongFrame
  <2>1. /\ ctl = "frames" /\ done < Len(in) /\ in[done + 1].op \in {"pong"}
        /\ UNCHANGED <<in, exc, msgs, out>> /\ done' = done + 1
        /\ conn' = LaureHbReset(conn) /\ Calls("pong", "pong")
    BY <1>4, <1>f DEF OnPongFrame, peerVars
  <2>2. conn'.frag = conn.frag /\ conn'.state = conn.state
    BY <1>t, <2>1, FragOf
  <2>3. Held' = Held
    BY <1>e, <2>1, <2>2 DEF Held, Elems
  <2>4. FragsOK' /\ PartsOnce'
    BY <2>1, <2>2, <2>3, ControlTaken DEF DataOps
  <2> QED
    BY <2>1, <2>2, <2>4, NoPingTaken DEF Framed
<1>5. CASE OnCloseFrame \/ OnBadFrame
  <2>1. /\ ctl = "frames" /\ done < Len(in) /\ in[done + 1].op \in {"close", "other", "huge"}
        /\ UNCHANGED <<in, exc, msgs>> /\ done' \in {done, done + 1} /\ ctl' = "loop"
        /\ conn' = LaureConnClose(LaureWsClose(conn)) /\ SendClose
    BY <1>5, <1>f DEF OnCloseFrame, OnBadFrame, EndWith, peerVars
  <2>2. conn'.frag = conn.frag /\ conn'.state = "CLOSE"
    BY <1>t, <2>1, FragOf, RecTypes
  <2>3. Held' = Held
    BY <2>1, <2>2 DEF Held, Elems
  <2>4. FragsOK' /\ PartsOnce'
    BY <2>1, <2>2, <2>3, ControlTaken DEF DataOps
  <2> QED
    BY <2>1, <2>2, <2>4, NoPingTaken DEF Framed
<1>6. CASE FramesEnd
  <2>1. UNCHANGED <<in, done, msgs, exc, out, conn>> /\ ctl = "frames" /\ ctl' = "loop"
    BY <1>6 DEF FramesEnd, peerVars
  <2>2. Held' = Held
    BY <2>1 DEF Held, Elems
  <2> QED
    BY <1>t, <2>1, <2>2, Unframed
<1> QED
  BY <1>1, <1>2, <1>3, <1>4, <1>5, <1>6 DEF TakeFrame

LEMMA AsideFramed == TypeOK /\ TypeOK' /\ Framed /\ (Aside \/ ReturnFrame) => Framed'
<1> SUFFICES ASSUME TypeOK, TypeOK', Framed, Aside \/ ReturnFrame PROVE Framed'
  OBVIOUS
<1>1. CASE Aside
  <2>1. /\ UNCHANGED <<in, done, msgs>> /\ conn'.frag = conn.frag
        /\ ctl' = "fragmented" <=> ctl = "fragmented"
        /\ conn'.state # "CLOSE" => conn.state # "CLOSE"
        /\ exc' \in {exc, TRUE}
    BY <1>1, AsideLeaves
  <2>2. Held' = Held
    BY <2>1 DEF Held, Elems
  <2>3. \/ out' = out
        \/ \E kind \in {"101", "close", "ping"}, of \in Nat :
              out' = Append(out, Item(kind, of))
    BY <1>1, AsideLeaves, Sends
  <2> QED
    BY <2>1, <2>2, <2>3, Unframed
<1>2. CASE ReturnFrame
  <2>1. /\ UNCHANGED <<in, done, msgs, out>> /\ exc' \in {exc, TRUE}
        /\ conn' = IF ctl = "fragmented" THEN Unfragmented(conn) ELSE conn
        /\ ctl' = "frames"
    BY <1>2 DEF ReturnFrame, peerVars
  <2>2. Unfragmented(conn).frag = <<>> /\ Unfragmented(conn).state = conn.state
    BY TypeParts DEF Unfragmented, ConnRecs
  <2>3. conn'.frag \in {conn.frag, <<>>} /\ conn'.state = conn.state
    BY <2>1, <2>2
  <2>4. Held' = Held
    BY <2>1, <2>2 DEF Held, Elems
  <2> QED
    BY <2>1, <2>3, <2>4, Unframed
<1> QED
  BY <1>1, <1>2

LEMMA ReadFramed == TypeOK /\ TypeOK' /\ Framed /\ Read => Framed'
<1> SUFFICES ASSUME TypeOK, TypeOK', Framed, Read PROVE Framed'
  OBVIOUS
<1>1. /\ UNCHANGED <<done, msgs, exc, out>> /\ ctl = "loop" /\ ctl' = "frames"
      /\ conn'.frag = conn.frag /\ conn'.state = conn.state
      /\ Len(in) <= Len(in') /\ \A k \in 1..Len(in) : in'[k] = in[k]
  BY ReadGrows
<1>2. Held' = Held
  BY <1>1 DEF Held, Elems
<1>3. /\ done \in Nat /\ done' = done /\ Len(in) \in Nat /\ Len(in') \in Nat /\ done <= Len(in)
  BY <1>1, TypeParts, LenProperties DEF Framed, FragsOK, TypeOK
<1>4. /\ done <= done' /\ done' <= Len(in')
      /\ \A k \in 1..done : in'[k] = in[k]
      /\ \A k \in 1..done' : k <= done
  BY <1>1, <1>3
<1>5. PingsAnswered'
  BY <1>1, <1>3, <1>4, PingsKept DEF Framed
<1>6. FragsOK' /\ PartsOnce'
  BY <1>1, <1>2, <1>3, <1>4, PartsKept DEF Framed
<1> QED
  BY <1>5, <1>6 DEF Framed

\* Every step is one of these.
LEMMA Steps ==
    [Next]_vars => Aside \/ Read \/ TakeFrame \/ ReturnFrame \/ UNCHANGED vars
BY DEF Next, Aside, Peer, Return, Finish

\* However the peer's frames are mixed and whatever the script does in between,
\* payloads and pings are where FrameInv says they are.
THEOREM FrameInvariant == Spec => []FrameInv
<1>1. Init => TypeOK /\ Framed
  BY InitType, InitFramed
<1>2. TypeOK /\ Framed /\ [Next]_vars => (TypeOK /\ Framed)'
  <2>1. TypeOK /\ Framed /\ UNCHANGED vars => Framed'
    <3> SUFFICES ASSUME TypeOK, Framed, UNCHANGED vars PROVE Framed'
      OBVIOUS
    <3>1. UNCHANGED <<conn, ctl, in, done, exc, msgs, out>>
      BY DEF vars, peerVars
    <3>2. Held' = Held /\ TypeOK'
      BY StepType, <3>1 DEF Held, Elems
    <3> QED
      BY <3>1, <3>2, Unframed
  <2> QED
    BY <2>1, StepType, Steps, AsideFramed, ReadFramed, TakeFramed
<1>3. TypeOK /\ Framed => FrameInv
  BY DEF Framed, FrameInv
<1> QED
  BY <1>1, <1>2, <1>3, PTL DEF Spec

\* Each payload is in one message at most, in its order, and none is lost.
THEOREM PayloadsOnce == Spec => []PartsOnce
<1>1. FrameInv => PartsOnce
  BY DEF FrameInv
<1> QED
  BY <1>1, FrameInvariant, PTL

\* Pings are answered in order, once, and all of them until the connection closes.
THEOREM PongsInOrder == Spec => []PingsAnswered
<1>1. FrameInv => PingsAnswered
  BY DEF FrameInv
<1> QED
  BY <1>1, FrameInvariant, PTL

-----------------------------------------------------------------------------
(* The messages of a legal peer: what the frames of a sequence make. *)

\* No message begins inside another.
LEMMA NoneBeginsInside ==
    ASSUME NEW s \in Seq(Frames), LegalFrames(s), NEW k \in 0..Len(s), NEW j, Begins(s, j, k)
    PROVE  \A i \in (j + 1)..k : s[i].op \notin {"text", "binary"}
<1> SUFFICES ASSUME NEW i \in (j + 1)..k, s[i].op \in {"text", "binary"} PROVE FALSE
  OBVIOUS
<1>1. Len(s) \in Nat /\ j \in 1..k /\ i \in 1..Len(s) /\ DOMAIN s = 1..Len(s)
  BY LenProperties DEF Begins
<1>2. Begins(s, j, i - 1) /\ j \in 1..(i - 1)
  BY <1>1 DEF Begins
<1>3. OpenAt(s, i - 1)
  BY <1>2 DEF OpenAt
<1>4. s[i].op \in DataOps /\ s[i].op # "cont"
  BY DEF DataOps
<1> QED
  BY <1>1, <1>3, <1>4 DEF LegalFrames

\* A message has one first frame.
LEMMA FirstIs ==
    ASSUME NEW s, NEW e \in Nat, NEW j, IsFirst(s, j, e)
    PROVE  /\ MessageAt(s, e) = [op |-> s[j].op, parts |-> DataIn(s, j, e)]
           /\ j \in 1..e
<1>1. \A l \in 1..e : IsFirst(s, l, e) => l = j
  <2> SUFFICES ASSUME NEW l \in 1..e, IsFirst(s, l, e) PROVE l = j
    OBVIOUS
  <2>1. j \in 1..e /\ l \in 1..e
    BY DEF IsFirst
  <2>2. ~(l \in (j + 1)..e) /\ ~(j \in (l + 1)..e)
    BY DEF IsFirst
  <2> QED
    BY <2>1, <2>2
<1> DEFINE first == CHOOSE l \in 1..e : IsFirst(s, l, e)
<1>2. j \in 1..e
  BY DEF IsFirst
<1>3. first \in 1..e /\ IsFirst(s, first, e)
  BY <1>2
<1>4. first = j
  BY <1>1, <1>3
<1> QED
  BY <1>2, <1>4 DEF MessageAt

\* What ends in a legal stream has a first frame.
LEMMA EndHasFirst ==
    ASSUME NEW s \in Seq(Frames), LegalFrames(s), NEW e \in Ends(s)
    PROVE  /\ e \in 1..Len(s)
           /\ \E j \in 1..e : IsFirst(s, j, e)
<1>1. Len(s) \in Nat /\ DOMAIN s = 1..Len(s) /\ e \in 1..Len(s) /\ s[e].op \in DataOps /\ s[e].fin
  BY LenProperties DEF Ends
<1>2. CASE s[e].op # "cont"
  <2>1. s[e].op \in {"text", "binary"} /\ e \in 1..e /\ \A i \in (e + 1)..e : FALSE
    BY <1>1, <1>2 DEF DataOps
  <2>2. IsFirst(s, e, e)
    BY <2>1 DEF IsFirst
  <2> QED
    BY <1>1, <2>1, <2>2
<1>3. CASE s[e].op = "cont"
  <2>1. OpenAt(s, e - 1)
    BY <1>1, <1>3 DEF LegalFrames
  <2>2. PICK j \in 1..(e - 1) : Begins(s, j, e - 1)
    BY <2>1 DEF OpenAt
  <2>3. \A i \in (j + 1)..(e - 1) : s[i].op \notin {"text", "binary"}
    BY <1>1, <2>2, NoneBeginsInside
  <2>4. \A i \in (j + 1)..e : s[i].op \notin {"text", "binary"}
    <3>1. \A i \in (j + 1)..e : i \in (j + 1)..(e - 1) \/ i = e
      BY <1>1
    <3> QED
      BY <1>3, <2>3, <3>1
  <2>5. IsFirst(s, j, e) /\ j \in 1..e
    BY <1>1, <2>2, <2>4 DEF IsFirst, Begins
  <2> QED
    BY <1>1, <2>5
<1> QED
  BY <1>2, <1>3

\* Frames that arrive later change nothing about those that are here.
LEMMA Extended ==
    ASSUME NEW s \in Seq(Frames), NEW t \in Seq(Frames), LegalFrames(s),
           Len(s) <= Len(t), \A i \in 1..Len(s) : t[i] = s[i]
    PROVE  /\ Ends(s) \subseteq Ends(t)
           /\ \A e \in Ends(t) \ Ends(s) : e > Len(s)
           /\ \A e \in Ends(s) : MessageAt(t, e) = MessageAt(s, e)
           /\ \A k \in 0..Len(s) : \A j \in 1..k :
                 /\ Begins(t, j, k) <=> Begins(s, j, k)
                 /\ DataIn(t, j, k) = DataIn(s, j, k)
           /\ \A k \in 0..Len(s) : OpenAt(t, k) <=> OpenAt(s, k)
<1>1. /\ Len(s) \in Nat /\ DOMAIN s = 1..Len(s)
      /\ Len(t) \in Nat /\ DOMAIN t = 1..Len(t)
  BY LenProperties
<1>2. Ends(s) \subseteq Ends(t) /\ \A e \in Ends(t) \ Ends(s) : e > Len(s)
  BY <1>1 DEF Ends
<1>3. ASSUME NEW k \in 0..Len(s), NEW j \in 1..k
      PROVE  /\ Begins(t, j, k) <=> Begins(s, j, k)
             /\ DataIn(t, j, k) = DataIn(s, j, k)
             /\ IsFirst(t, j, k) <=> IsFirst(s, j, k)
  <2>1. \A i \in j..k : t[i] = s[i]
    BY <1>1, <1>3
  <2>2. t[j] = s[j] /\ \A i \in (j + 1)..k : t[i] = s[i]
    BY <1>1, <1>3
  <2> QED
    BY <2>1, <2>2 DEF Begins, DataIn, IsFirst
<1>5. \A k \in 0..Len(s) : OpenAt(t, k) <=> OpenAt(s, k)
  BY <1>3 DEF OpenAt
<1>6. ASSUME NEW e \in Ends(s) PROVE MessageAt(t, e) = MessageAt(s, e)
  <2>1. e \in 1..Len(s) /\ e \in 0..Len(s) /\ e \in Nat
    BY <1>1, <1>6 DEF Ends
  <2>2. PICK j \in 1..e : IsFirst(s, j, e)
    BY <1>6, EndHasFirst
  <2>3. IsFirst(t, j, e) /\ DataIn(t, j, e) = DataIn(s, j, e)
    BY <1>3, <2>1, <2>2
  <2>4. t[j] = s[j]
    BY <1>1, <2>1
  <2> QED
    BY <2>1, <2>2, <2>3, <2>4, FirstIs
<1> QED
  BY <1>2, <1>3, <1>5, <1>6

\* What the next frame does to the message that is open.
LEMMA NextFrame ==
    ASSUME NEW s \in Seq(Frames), LegalFrames(s), NEW k \in Nat, k < Len(s)
    PROVE  /\ s[k + 1].op \notin DataOps =>
                 /\ OpenAt(s, k + 1) <=> OpenAt(s, k)
                 /\ \A j \in 1..k : Begins(s, j, k) =>
                       Begins(s, j, k + 1) /\ DataIn(s, j, k + 1) = DataIn(s, j, k)
           /\ s[k + 1].op \in {"text", "binary"} =>
                 /\ ~OpenAt(s, k)
                 /\ s[k + 1].fin => ~OpenAt(s, k + 1)
                 /\ ~s[k + 1].fin => Begins(s, k + 1, k + 1)
                 /\ DataIn(s, k + 1, k + 1) = {k + 1}
                 /\ IsFirst(s, k + 1, k + 1)
           /\ s[k + 1].op = "cont" =>
                 /\ OpenAt(s, k)
                 /\ s[k + 1].fin => ~OpenAt(s, k + 1)
                 /\ \A j \in 1..k : Begins(s, j, k) =>
                       /\ ~s[k + 1].fin => Begins(s, j, k + 1)
                       /\ DataIn(s, j, k + 1) = DataIn(s, j, k) \cup {k + 1}
                       /\ IsFirst(s, j, k + 1)
<1>1. /\ Len(s) \in Nat /\ DOMAIN s = 1..Len(s) /\ k + 1 \in 1..Len(s) /\ (k + 1) - 1 = k
      /\ k \in 0..Len(s)
  BY LenProperties
<1>2. \A j \in 1..k : \A i : i \in (j + 1)..(k + 1) <=> i \in (j + 1)..k \/ i = k + 1
  OBVIOUS
<1>3. \A j \in 1..k : \A i : i \in j..(k + 1) <=> i \in j..k \/ i = k + 1
  OBVIOUS
<1>4. \A j : j \in 1..(k + 1) <=> j \in 1..k \/ j = k + 1
  OBVIOUS
<1>5. ASSUME s[k + 1].op \notin DataOps
      PROVE  /\ OpenAt(s, k + 1) <=> OpenAt(s, k)
             /\ \A j \in 1..k : Begins(s, j, k) =>
                   Begins(s, j, k + 1) /\ DataIn(s, j, k + 1) = DataIn(s, j, k)
  <2>1. s[k + 1].op \notin {"text", "binary"} /\ s[k + 1].op # "cont"
    BY <1>5 DEF DataOps
  <2>2. \A j \in 1..k : Begins(s, j, k + 1) <=> Begins(s, j, k)
    BY <1>2, <1>4, <2>1 DEF Begins
  <2>3. ~Begins(s, k + 1, k + 1)
    BY <2>1 DEF Begins
  <2>4. OpenAt(s, k + 1) <=> OpenAt(s, k)
    BY <1>4, <2>2, <2>3 DEF OpenAt
  <2>5. \A j \in 1..k : DataIn(s, j, k + 1) = DataIn(s, j, k)
    BY <1>3, <1>5 DEF DataIn
  <2> QED
    BY <2>2, <2>4, <2>5
<1>6. ASSUME s[k + 1].op \in {"text", "binary"}
      PROVE  /\ ~OpenAt(s, k)
             /\ s[k + 1].fin => ~OpenAt(s, k + 1)
             /\ ~s[k + 1].fin => Begins(s, k + 1, k + 1)
             /\ DataIn(s, k + 1, k + 1) = {k + 1}
             /\ IsFirst(s, k + 1, k + 1)
  <2>1. s[k + 1].op \in DataOps /\ s[k + 1].op # "cont"
    BY <1>6 DEF DataOps
  <2>2. ~OpenAt(s, k)
    BY <1>1, <2>1 DEF LegalFrames
  <2>3. \A j \in 1..k : ~Begins(s, j, k + 1)
    <3> SUFFICES ASSUME NEW j \in 1..k, Begins(s, j, k + 1) PROVE FALSE
      OBVIOUS
    <3>1. Begins(s, j, k)
      BY <1>2 DEF Begins
    <3> QED
      BY <2>2, <3>1 DEF OpenAt
  <2>4. s[k + 1].fin => ~OpenAt(s, k + 1)
    BY <1>4, <2>3 DEF OpenAt, Begins
  <2>5. /\ k + 1 \in 1..(k + 1) /\ \A i \in ((k + 1) + 1)..(k + 1) : FALSE
        /\ \A i : i \in (k + 1)..(k + 1) <=> i = k + 1
    OBVIOUS
  <2> QED
    BY <1>6, <2>1, <2>2, <2>4, <2>5 DEF Begins, DataIn, IsFirst
<1>7. ASSUME s[k + 1].op = "cont"
      PROVE  /\ OpenAt(s, k)
             /\ s[k + 1].fin => ~OpenAt(s, k + 1)
             /\ \A j \in 1..k : Begins(s, j, k) =>
                   /\ ~s[k + 1].fin => Begins(s, j, k + 1)
                   /\ DataIn(s, j, k + 1) = DataIn(s, j, k) \cup {k + 1}
                   /\ IsFirst(s, j, k + 1)
  <2>1. s[k + 1].op \in DataOps /\ s[k + 1].op \notin {"text", "binary"}
    BY <1>7 DEF DataOps
  <2>2. OpenAt(s, k)
    BY <1>1, <1>7, <2>1 DEF LegalFrames
  <2>3. s[k + 1].fin => ~OpenAt(s, k + 1)
    BY <1>2, <1>4, <1>7, <2>1 DEF OpenAt, Begins
  <2>4. ASSUME NEW j \in 1..k, Begins(s, j, k)
        PROVE  /\ ~s[k + 1].fin => Begins(s, j, k + 1)
               /\ DataIn(s, j, k + 1) = DataIn(s, j, k) \cup {k + 1}
               /\ IsFirst(s, j, k + 1)
    <3>1. \A i \in (j + 1)..k : s[i].op \notin {"text", "binary"}
      BY <1>1, <2>4, NoneBeginsInside
    <3>2. ~s[k + 1].fin => Begins(s, j, k + 1)
      BY <1>2, <1>4, <2>4 DEF Begins
    <3>3. DataIn(s, j, k + 1) = DataIn(s, j, k) \cup {k + 1}
      BY <1>3, <2>1 DEF DataIn
    <3>4. IsFirst(s, j, k + 1)
      BY <1>2, <1>4, <2>1, <2>4, <3>1 DEF Begins, IsFirst
    <3> QED
      BY <3>2, <3>3, <3>4
  <2> QED
    BY <2>2, <2>3, <2>4
<1> QED
  BY <1>5, <1>6, <1>7

-----------------------------------------------------------------------------
(* The buffer of a legal peer's fragments. *)

\* What BufferOK says of the buffer, of frames s of which k are taken.
Buffered(s, k, frag, fragOp) ==
    \/ ~OpenAt(s, k) /\ frag = <<>> /\ fragOp = "cont"
    \/ \E j \in 1..k : /\ Begins(s, j, k)
                       /\ Elems(frag) = DataIn(s, j, k)
                       /\ fragOp = s[j].op

LEMMA BufferParts ==
    BufferOK <=> /\ Legal => LegalFrames(in)
                 /\ IF ctl = "fragmented" THEN ~OpenAt(in, done)
                    ELSE Buffered(in, done, conn.frag, conn.fragOp)
BY DEF BufferOK, Buffered

\* Nothing is taken, or a frame of no payload; more may have arrived.
LEMMA BufferLeft ==
    ASSUME TypeOK, FragsOK, BufferOK, Legal,
           conn'.frag = conn.frag, conn'.fragOp = conn.fragOp,
           ctl' = "fragmented" <=> ctl = "fragmented",
           in' \in Seq(Frames), LegalFrames(in'),
           Len(in) <= Len(in'), \A i \in 1..Len(in) : in'[i] = in[i],
           \/ done' = done
           \/ done' = done + 1 /\ done < Len(in) /\ in[done + 1].op \notin DataOps
    PROVE  BufferOK'
<1>1. /\ in \in Seq(Frames) /\ Len(in) \in Nat /\ done \in Nat /\ done <= Len(in)
      /\ done \in 0..Len(in) /\ LegalFrames(in)
  BY TypeParts, LenProperties DEF FragsOK, BufferOK
<1>2. ASSUME NEW k \in 0..Len(in)
      PROVE  /\ OpenAt(in', k) <=> OpenAt(in, k)
             /\ \A j \in 1..k : /\ Begins(in', j, k) <=> Begins(in, j, k)
                                /\ DataIn(in', j, k) = DataIn(in, j, k)
  BY <1>1, <1>2, Extended
<1>3. /\ done' \in 0..Len(in) /\ done <= done'
      /\ OpenAt(in, done') <=> OpenAt(in, done)
      /\ \A j \in 1..done : Begins(in, j, done) =>
            Begins(in, j, done') /\ DataIn(in, j, done') = DataIn(in, j, done)
  BY <1>1, NextFrame
<1>4. /\ OpenAt(in', done') <=> OpenAt(in, done)
      /\ \A j \in 1..done : Begins(in, j, done) =>
            /\ j \in 1..done' /\ Begins(in', j, done')
            /\ DataIn(in', j, done') = DataIn(in, j, done)
            /\ in'[j] = in[j]
  <2>1. OpenAt(in', done') <=> OpenAt(in, done)
    BY <1>2, <1>3
  <2>2. ASSUME NEW j \in 1..done, Begins(in, j, done)
        PROVE  /\ j \in 1..done' /\ Begins(in', j, done')
               /\ DataIn(in', j, done') = DataIn(in, j, done)
               /\ in'[j] = in[j]
    <3>1. j \in 1..done' /\ j \in 1..Len(in)
      BY <1>1, <1>3
    <3> QED
      BY <1>2, <1>3, <2>2, <3>1
  <2> QED
    BY <2>1, <2>2
<1>5. CASE ctl = "fragmented"
  BY <1>4, <1>5 DEF BufferOK
<1>6. CASE ctl # "fragmented"
  <2>1. Buffered(in, done, conn.frag, conn.fragOp)
    BY <1>6, BufferParts
  <2>2. Buffered(in', done', conn.frag, conn.fragOp)
    <3>1. CASE ~OpenAt(in, done) /\ conn.frag = <<>> /\ conn.fragOp = "cont"
      BY <1>4, <3>1 DEF Buffered
    <3>2. CASE \E j \in 1..done : /\ Begins(in, j, done)
                                  /\ Elems(conn.frag) = DataIn(in, j, done)
                                  /\ conn.fragOp = in[j].op
      <4>1. PICK j \in 1..done : /\ Begins(in, j, done)
                                 /\ Elems(conn.frag) = DataIn(in, j, done)
                                 /\ conn.fragOp = in[j].op
        BY <3>2
      <4>2. /\ j \in 1..done' /\ Begins(in', j, done')
            /\ Elems(conn.frag) = DataIn(in', j, done') /\ conn.fragOp = in'[j].op
        BY <1>4, <4>1
      <4> QED
        BY <4>2 DEF Buffered
    <3> QED
      BY <2>1, <3>1, <3>2 DEF Buffered
  <2> QED
    BY <1>6, <2>2 DEF BufferOK, Buffered
<1> QED
  BY <1>5, <1>6

\* A frame of payload that ends no message.
LEMMA BufferGrows ==
    ASSUME TypeOK, FragsOK, BufferOK, Legal, ctl = "frames",
           done < Len(in), in[done + 1].op \in DataOps, ~Fin,
           OnDataFrame \/ OnContFrame
    PROVE  BufferOK'
<1>1. /\ in \in Seq(Frames) /\ Len(in) \in Nat /\ done \in Nat /\ conn.frag \in Seq(Nat)
      /\ done + 1 \in Nat /\ LegalFrames(in) /\ conn \in ConnRecs
  BY TypeParts, LenProperties DEF BufferOK
<1>2. in' = in /\ done' = done + 1 /\ ctl' = ctl
  BY DEF OnDataFrame, OnContFrame, peerVars
<1>3. /\ Elems(Append(conn.frag, done + 1)) = Elems(conn.frag) \cup {done + 1}
      /\ Buffered(in, done, conn.frag, conn.fragOp)
  BY <1>1, ElemsAppend, BufferParts
<1>4. ~in[done + 1].fin
  BY DEF Fin
<1>5. CASE OnDataFrame
  <2> DEFINE op == IF conn.fragOp = "cont" THEN in[done + 1].op ELSE conn.fragOp
  <2>1. in[done + 1].op \in {"text", "binary"}
    BY <1>5 DEF OnDataFrame, Taking
  <2>2. conn' = [conn EXCEPT !.fragOp = op, !.frag = Append(@, done + 1)]
    BY <1>5 DEF OnDataFrame
  <2>3. ~OpenAt(in, done) /\ Begins(in, done + 1, done + 1) /\ DataIn(in, done + 1, done + 1) = {done + 1}
    BY <1>1, <1>4, <2>1, NextFrame
  <2>4. conn.frag = <<>> /\ conn.fragOp = "cont"
    BY <1>3, <2>3 DEF Buffered, OpenAt
  <2>5. op = in[done + 1].op
    BY <2>4
  <2> HIDE DEF op
  <2>6. conn'.frag = Append(conn.frag, done + 1) /\ conn'.fragOp = in[done + 1].op
    BY <1>1, <2>2, <2>5 DEF ConnRecs
  <2>7. Elems(conn'.frag) = {done + 1}
    <3>1. Elems(conn.frag) = {}
      BY <2>4 DEF Elems
    <3> QED
      BY <1>3, <2>6, <3>1
  <2>8. Buffered(in, done + 1, conn'.frag, conn'.fragOp)
    <3>1. done + 1 \in 1..(done + 1)
      BY <1>1
    <3> QED
      BY <2>3, <2>6, <2>7, <3>1 DEF Buffered
  <2> QED
    BY <1>1, <1>2, <2>8 DEF BufferOK, Buffered
<1>6. CASE OnContFrame
  <2>1. in[done + 1].op = "cont"
    BY <1>6 DEF OnContFrame, Taking
  <2>2. conn' = [conn EXCEPT !.frag = Append(@, done + 1)]
    BY <1>6 DEF OnContFrame
  <2>3. conn'.frag = Append(conn.frag, done + 1) /\ conn'.fragOp = conn.fragOp
    BY <1>1, <2>2 DEF ConnRecs
  <2>4. OpenAt(in, done)
    BY <1>1, <2>1, NextFrame
  <2>5. PICK j \in 1..done : /\ Begins(in, j, done)
                             /\ Elems(conn.frag) = DataIn(in, j, done)
                             /\ conn.fragOp = in[j].op
    BY <1>3, <2>4 DEF Buffered
  <2>6. Begins(in, j, done + 1) /\ DataIn(in, j, done + 1) = DataIn(in, j, done) \cup {done + 1}
    BY <1>1, <1>4, <2>1, <2>5, NextFrame
  <2>7. Elems(conn'.frag) = DataIn(in, j, done + 1) /\ j \in 1..(done + 1)
    <3>1. j \in 1..(done + 1)
      BY <1>1
    <3>2. Elems(conn'.frag) = Elems(conn.frag) \cup {done + 1}
      BY <1>3, <2>3
    <3> QED
      BY <2>5, <2>6, <3>1, <3>2
  <2>8. Buffered(in, done + 1, conn'.frag, conn'.fragOp)
    BY <2>3, <2>5, <2>6, <2>7 DEF Buffered
  <2> QED
    BY <1>1, <1>2, <2>8 DEF BufferOK, Buffered
<1> QED
  BY <1>5, <1>6

\* The last frame of a message: what the callback is given, if it is called, is
\* the message that ends there.
LEMMA BufferEnds ==
    ASSUME TypeOK, FragsOK, BufferOK, Legal, ctl = "frames",
           done < Len(in), in[done + 1].op \in DataOps, Fin,
           OnDataFrame \/ OnContFrame
    PROVE  /\ BufferOK'
           /\ IF Callable("message")
              THEN \E op \in DataOps, p \in Seq(Nat) :
                      /\ msgs' = Append(msgs, [op |-> op, parts |-> p])
                      /\ [op |-> op, parts |-> Elems(p)] = MessageAt(in, done + 1)
              ELSE msgs' = msgs
<1>1. /\ in \in Seq(Frames) /\ Len(in) \in Nat /\ done \in Nat /\ conn.frag \in Seq(Nat)
      /\ done + 1 \in Nat /\ LegalFrames(in) /\ conn \in ConnRecs /\ conn.fragOp \in DataOps
  BY TypeParts, LenProperties DEF BufferOK
<1>2. in' = in /\ done' = done + 1
  BY DEF OnDataFrame, OnContFrame, peerVars
<1>3. /\ Elems(Append(conn.frag, done + 1)) = Elems(conn.frag) \cup {done + 1}
      /\ Append(conn.frag, done + 1) \in Seq(Nat)
      /\ Buffered(in, done, conn.frag, conn.fragOp)
  BY <1>1, ElemsAppend, BufferParts
<1>4. in[done + 1].fin
  BY DEF Fin
<1>5. CASE OnDataFrame
  <2> DEFINE p == <<done + 1>>
  <2>1. in[done + 1].op \in {"text", "binary"}
    BY <1>5 DEF OnDataFrame, Taking
  <2>2. conn' = conn /\ Message(in[done + 1].op, p) /\ Calls("message", "message")
    BY <1>5 DEF OnDataFrame
  <2>3. /\ ~OpenAt(in, done) /\ ~OpenAt(in, done + 1)
        /\ DataIn(in, done + 1, done + 1) = {done + 1} /\ IsFirst(in, done + 1, done + 1)
    BY <1>1, <1>4, <2>1, NextFrame
  <2>4. conn.frag = <<>> /\ conn.fragOp = "cont"
    BY <1>3, <2>3 DEF Buffered, OpenAt
  <2>5. ctl' # "fragmented"
    BY <2>2 DEF Calls
  <2>6. Buffered(in, done + 1, conn.frag, conn.fragOp)
    BY <2>3, <2>4 DEF Buffered
  <2>7. BufferOK'
    BY <1>1, <1>2, <2>2, <2>5, <2>6 DEF BufferOK, Buffered
  <2>8. p \in Seq(Nat) /\ Elems(p) = {done + 1}
    BY <1>1 DEF Elems
  <2>9. MessageAt(in, done + 1) = [op |-> in[done + 1].op, parts |-> {done + 1}]
    BY <1>1, <2>3, FirstIs
  <2> HIDE DEF p
  <2>10. [op |-> in[done + 1].op, parts |-> Elems(p)] = MessageAt(in, done + 1)
    BY <2>8, <2>9
  <2> QED
    BY <2>2, <2>7, <2>8, <2>10 DEF Message
<1>6. CASE OnContFrame
  <2> DEFINE r == [conn EXCEPT !.frag = Append(@, done + 1)]
             p == Append(conn.frag, done + 1)
  <2>1. in[done + 1].op = "cont"
    BY <1>6 DEF OnContFrame, Taking
  <2>2. r.frag = p /\ r.fragOp = conn.fragOp
        /\ Unfragmented(r).frag = <<>> /\ Unfragmented(r).fragOp = "cont"
    BY <1>1 DEF Unfragmented, ConnRecs
  <2>3. /\ Message(r.fragOp, r.frag) /\ Calls("message", "fragmented")
        /\ conn' = IF Callable("message") THEN r ELSE Unfragmented(r)
    BY <1>6 DEF OnContFrame
  <2> HIDE DEF r
  <2>4. OpenAt(in, done) /\ ~OpenAt(in, done + 1)
    BY <1>1, <1>4, <2>1, NextFrame
  <2>5. PICK j \in 1..done : /\ Begins(in, j, done)
                             /\ Elems(conn.frag) = DataIn(in, j, done)
                             /\ conn.fragOp = in[j].op
    BY <1>3, <2>4 DEF Buffered
  <2>6. IsFirst(in, j, done + 1) /\ DataIn(in, j, done + 1) = DataIn(in, j, done) \cup {done + 1}
    BY <1>1, <2>1, <2>5, NextFrame
  <2>7. MessageAt(in, done + 1) = [op |-> in[j].op, parts |-> DataIn(in, j, done + 1)]
    BY <1>1, <2>6, FirstIs
  <2>8. Elems(p) = DataIn(in, j, done + 1) /\ p \in Seq(Nat)
    BY <1>3, <2>5, <2>6
  <2> HIDE DEF p
  <2>9. [op |-> conn.fragOp, parts |-> Elems(p)] = MessageAt(in, done + 1)
    BY <2>5, <2>7, <2>8
  <2>10. BufferOK'
    <3>1. CASE Callable("message")
      <4>1. ctl' = "fragmented"
        BY <2>3, <3>1 DEF Calls
      <4> QED
        BY <1>1, <1>2, <2>4, <4>1 DEF BufferOK
    <3>2. CASE ~Callable("message")
      <4>1. conn'.frag = <<>> /\ conn'.fragOp = "cont" /\ ctl' = "frames"
        BY <2>2, <2>3, <3>2 DEF Calls
      <4> QED
        BY <1>1, <1>2, <2>4, <4>1 DEF BufferOK
    <3> QED
      BY <3>1, <3>2
  <2>11. Message(conn.fragOp, p)
    BY <2>2, <2>3
  <2> QED
    BY <1>1, <2>8, <2>9, <2>10, <2>11 DEF Message
<1> QED
  BY <1>5, <1>6

LEMMA InitBuffer == Init => BufferOK
<1> SUFFICES ASSUME Init PROVE BufferOK
  OBVIOUS
<1>1. in = <<>> /\ done = 0 /\ ctl = "loop" /\ conn.frag = <<>> /\ conn.fragOp = "cont"
  BY DEF Init
<1>2. DOMAIN in = {} /\ 1..done = {}
  BY <1>1
<1> QED
  BY <1>1, <1>2 DEF BufferOK, LegalFrames, OpenAt

LEMMA BufferStep ==
    ASSUME Legal, TypeOK, TypeOK', FragsOK, BufferOK, [Next]_vars
    PROVE  BufferOK'
<1>t. /\ in \in Seq(Frames) /\ in' \in Seq(Frames) /\ Len(in) \in Nat /\ conn \in ConnRecs
      /\ done \in Nat /\ LegalFrames(in)
  BY TypeParts, LenProperties DEF TypeOK, BufferOK
<1>u. ASSUME in' = in PROVE LegalFrames(in') /\ Len(in) <= Len(in')
                            /\ \A i \in 1..Len(in) : in'[i] = in[i]
  BY <1>t, <1>u
<1>f. \A ops : Taking(ops) => ctl = "frames" /\ done < Len(in) /\ in[done + 1].op \in ops
  BY DEF Taking
<1>1. CASE Aside
  <2>1. /\ in' = in /\ done' = done /\ conn'.frag = conn.frag /\ conn'.fragOp = conn.fragOp
        /\ ctl' = "fragmented" <=> ctl = "fragmented"
    BY <1>1, AsideLeaves
  <2> QED
    BY <1>t, <1>u, <2>1, BufferLeft
<1>2. CASE Read
  <2>1. LegalFrames(in')
    BY <1>2 DEF Read
  <2>2. /\ done' = done /\ conn'.frag = conn.frag /\ conn'.fragOp = conn.fragOp
        /\ ctl' = "fragmented" <=> ctl = "fragmented"
        /\ Len(in) <= Len(in') /\ \A k \in 1..Len(in) : in'[k] = in[k]
    BY <1>2, ReadGrows
  <2> QED
    BY <1>t, <2>1, <2>2, BufferLeft
<1>3. CASE ReturnFrame
  <2>1. /\ in' = in /\ done' = done /\ ctl' = "frames"
        /\ conn' = IF ctl = "fragmented" THEN Unfragmented(conn) ELSE conn
    BY <1>3 DEF ReturnFrame, peerVars
  <2>2. CASE ctl = "fragmented"
    <3>1. conn'.frag = <<>> /\ conn'.fragOp = "cont"
      BY <1>t, <2>1, <2>2 DEF Unfragmented, ConnRecs
    <3> QED
      BY <2>1, <2>2, <3>1 DEF BufferOK
  <2>3. CASE ctl # "fragmented"
    BY <1>t, <1>u, <2>1, <2>3, BufferLeft
  <2> QED
    BY <2>2, <2>3
<1>4. CASE UNCHANGED vars
  <2>1. UNCHANGED <<in, done, conn, ctl>>
    BY <1>4 DEF vars, peerVars
  <2> QED
    BY <1>t, <1>u, <2>1, BufferLeft
<1>5. CASE OnDataFrame \/ OnContFrame
  <2>1. ctl = "frames" /\ done < Len(in) /\ in[done + 1].op \in DataOps
    BY <1>5, <1>f DEF OnDataFrame, OnContFrame, DataOps
  <2> QED
    BY <1>5, <2>1, BufferGrows, BufferEnds
<1>6. CASE OnPingFrame \/ OnPongFrame
  <2>1. /\ ctl = "frames" /\ done < Len(in) /\ in[done + 1].op \in {"ping", "pong"}
        /\ in' = in /\ done' = done + 1
    BY <1>6, <1>f DEF OnPingFrame, OnPongFrame, peerVars
  <2>2. ctl' # "fragmented"
    BY <1>6, <2>1 DEF OnPingFrame, OnPongFrame, Calls
  <2>3. conn'.frag = conn.frag /\ conn'.fragOp = conn.fragOp
    BY <1>6, <1>t, FragOf DEF OnPingFrame, OnPongFrame
  <2> QED
    BY <1>t, <1>u, <2>1, <2>2, <2>3, BufferLeft DEF DataOps
<1>7. CASE OnCloseFrame \/ OnBadFrame
  <2>1. /\ ctl = "frames" /\ done < Len(in) /\ in[done + 1].op \in {"close", "other", "huge"}
        /\ in' = in /\ done' \in {done, done + 1} /\ ctl' = "loop"
        /\ conn' = LaureConnClose(LaureWsClose(conn))
    BY <1>7, <1>f DEF OnCloseFrame, OnBadFrame, EndWith, peerVars
  <2> DEFINE r == LaureWsClose(conn)
  <2>2. conn'.frag = conn.frag /\ conn'.fragOp = conn.fragOp
    <3>1. r \in ConnRecs /\ r.frag = conn.frag /\ r.fragOp = conn.fragOp
      BY <1>t, FragOf, RecTypes
    <3>2. conn' = LaureConnClose(r)
      BY <2>1
    <3> HIDE DEF r
    <3> QED
      BY <3>1, <3>2, FragOf
  <2> QED
    BY <1>t, <1>u, <2>1, <2>2, BufferLeft DEF DataOps
<1> QED
  BY <1>1, <1>2, <1>3, <1>4, <1>5, <1>6, <1>7, Steps DEF TakeFrame, Aside

-----------------------------------------------------------------------------
(* LaureWs implements WsChannel. *)

Sent(s) == [e \in Ends(s) |-> MessageAt(s, e)]
Taken(s, n) == {e \in Ends(s) : e <= n}
Heard(m) == [i \in DOMAIN m |-> [op |-> m[i].op, parts |-> Elems(m[i].parts)]]

\* One more message is heard.
LEMMA HeardAppend ==
    ASSUME NEW op \in DataOps, NEW p \in Seq(Nat),
           NEW m \in Seq([op : DataOps, parts : Seq(Nat)])
    PROVE  Heard(Append(m, [op |-> op, parts |-> p]))
              = Append(Heard(m), [op |-> op, parts |-> Elems(p)])
<1> DEFINE x == [op |-> op, parts |-> p]
           y == [op |-> op, parts |-> Elems(p)]
           S == [op : DataOps, parts : SUBSET UNION {Elems(q) : q \in Seq(Nat)}]
           n == Len(m) + 1
<1>1. x \in [op : DataOps, parts : Seq(Nat)] /\ x.op = op /\ x.parts = p
  OBVIOUS
<1>2. \A q \in Seq(Nat), o \in DataOps : [op |-> o, parts |-> Elems(q)] \in S
  OBVIOUS
<1>3. y \in S
  BY <1>2
<1> HIDE DEF x, y, S
<1>4. Len(m) \in Nat /\ DOMAIN m = 1..Len(m)
  BY LenProperties
<1>5. \A i \in 1..Len(m) : m[i].op \in DataOps /\ m[i].parts \in Seq(Nat)
  <2>1. \A i \in 1..Len(m) : m[i] \in [op : DataOps, parts : Seq(Nat)]
    BY ElementOfSeq
  <2> QED
    BY <2>1
<1>6. /\ Append(m, x) \in Seq([op : DataOps, parts : Seq(Nat)]) /\ Len(Append(m, x)) = n
      /\ \A i \in 1..Len(m) : Append(m, x)[i] = m[i]
      /\ Append(m, x)[n] = x
  BY <1>1, AppendProperties
<1>7. DOMAIN Append(m, x) = 1..n
  BY <1>6, LenProperties
<1>8. Heard(m) \in [1..Len(m) -> S]
  <2>1. \A i \in 1..Len(m) : [op |-> m[i].op, parts |-> Elems(m[i].parts)] \in S
    BY <1>2, <1>5
  <2>2. Heard(m) = [i \in 1..Len(m) |-> [op |-> m[i].op, parts |-> Elems(m[i].parts)]]
    BY <1>4 DEF Heard
  <2> QED
    BY <2>1, <2>2
<1>9. Heard(m) \in Seq(S) /\ Len(Heard(m)) = Len(m)
  <2> DEFINE h == Heard(m)
             l == Len(m)
  <2>1. h \in [1..l -> S] /\ l \in Nat
    BY <1>4, <1>8
  <2> HIDE DEF h, l
  <2>2. h \in Seq(S)
    BY <2>1
  <2>3. Len(h) = l
    BY <2>1, <2>2
  <2> QED
    BY <2>2, <2>3 DEF h, l
<1>10. /\ Append(Heard(m), y) \in Seq(S) /\ Len(Append(Heard(m), y)) = n
       /\ \A i \in 1..Len(m) : Append(Heard(m), y)[i] = Heard(m)[i]
       /\ Append(Heard(m), y)[n] = y
  BY <1>3, <1>9, AppendProperties
<1>11. DOMAIN Append(Heard(m), y) = 1..n
  BY <1>10, LenProperties
<1>12. ASSUME NEW i \in 1..n
       PROVE  [op |-> Append(m, x)[i].op, parts |-> Elems(Append(m, x)[i].parts)]
                 = Append(Heard(m), y)[i]
  <2>1. CASE i = n
    BY <1>1, <1>6, <1>10, <2>1 DEF y
  <2>2. CASE i \in 1..Len(m)
    <3>1. Heard(m)[i] = [op |-> m[i].op, parts |-> Elems(m[i].parts)]
      BY <1>4, <2>2 DEF Heard
    <3>2. Append(m, x)[i] = m[i] /\ Append(Heard(m), y)[i] = Heard(m)[i]
      BY <1>6, <1>10, <2>2
    <3> QED
      BY <3>1, <3>2
  <2>3. i = n \/ i \in 1..Len(m)
    BY <1>4, <1>12
  <2> QED
    BY <2>1, <2>2, <2>3
<1>13. Append(Heard(m), y) = [i \in 1..n |-> Append(Heard(m), y)[i]]
  BY <1>10, <1>11, LenProperties
<1>14. Heard(Append(m, x)) = Append(Heard(m), y)
  BY <1>7, <1>12, <1>13 DEF Heard
<1> QED
  BY <1>14 DEF x, y

\* The next frame ends a message, or is nothing that the script would hear of.
LEMMA NextTaken ==
    ASSUME NEW s \in Seq(Frames), NEW n \in Nat
    PROVE  /\ n + 1 \notin Ends(s) => Taken(s, n + 1) = Taken(s, n)
           /\ n + 1 \in Ends(s) =>
                 /\ Taken(s, n + 1) = Taken(s, n) \cup {n + 1}
                 /\ n + 1 \in Ends(s) \ Taken(s, n)
           /\ \A q \in Ends(s) \ Taken(s, n) : n + 1 <= q
<1>1. \A e \in Nat : e <= n + 1 <=> e <= n \/ e = n + 1
  OBVIOUS
<1>2. \A e \in Ends(s) : e \in Nat
  BY LenProperties DEF Ends
<1>3. \A e \in Nat : ~(e <= n) => n + 1 <= e
  OBVIOUS
<1>4. ~(n + 1 <= n)
  OBVIOUS
<1>5. n + 1 \notin Ends(s) => Taken(s, n + 1) = Taken(s, n)
  BY <1>1, <1>2 DEF Taken
<1>6. n + 1 \in Ends(s) => Taken(s, n + 1) = Taken(s, n) \cup {n + 1}
  BY <1>1, <1>2 DEF Taken
<1> QED
  BY <1>2, <1>3, <1>4, <1>5, <1>6 DEF Taken

\* What the code does with a frame, as a step of the channel.
LEMMA ChannelTakes ==
    ASSUME Legal, TypeOK, FragsOK, BufferOK, TakeFrame, UNCHANGED <<in, exc>>
    PROVE  [Channel!Next]_(Channel!vars)
<1> DEFINE open == conn.state # "CLOSE"
           deaf == exc \/ "message" \notin Events
<1>t. /\ in \in Seq(Frames) /\ Len(in) \in Nat /\ done \in Nat /\ conn \in ConnRecs
      /\ msgs \in Seq([op : DataOps, parts : Seq(Nat)])
  BY TypeParts, LenProperties
<1>f. \A ops : Taking(ops) => ctl = "frames" /\ done < Len(in) /\ in[done + 1].op \in ops
  BY DEF Taking
<1>0. Sent(in)' = Sent(in) /\ deaf' = deaf
  OBVIOUS
<1>1. ASSUME OnDataFrame \/ OnContFrame, Fin
      PROVE  Channel!Take
  <2>1. /\ ctl = "frames" /\ done < Len(in) /\ in[done + 1].op \in DataOps /\ done' = done + 1
    BY <1>1, <1>f DEF OnDataFrame, OnContFrame, DataOps
  <2>2. done + 1 \in Ends(in)
    BY <1>1, <1>t, <2>1 DEF Ends, Fin
  <2>3. /\ Taken(in, done)' = Taken(in, done) \cup {done + 1}
        /\ done + 1 \in Ends(in) \ Taken(in, done)
        /\ \A q \in Ends(in) \ Taken(in, done) : done + 1 <= q
    BY <1>t, <2>1, <2>2, NextTaken
  <2>4. IF Callable("message")
        THEN \E op \in DataOps, p \in Seq(Nat) :
                /\ msgs' = Append(msgs, [op |-> op, parts |-> p])
                /\ [op |-> op, parts |-> Elems(p)] = MessageAt(in, done + 1)
        ELSE msgs' = msgs
    BY <1>1, <2>1, BufferEnds
  <2>5. Heard(msgs)' = IF deaf THEN Heard(msgs) ELSE Append(Heard(msgs), Sent(in)[done + 1])
    <3>1. Sent(in)[done + 1] = MessageAt(in, done + 1)
      BY <2>2 DEF Sent
    <3>2. CASE Callable("message")
      <4>1. PICK op \in DataOps, p \in Seq(Nat) :
                /\ msgs' = Append(msgs, [op |-> op, parts |-> p])
                /\ [op |-> op, parts |-> Elems(p)] = MessageAt(in, done + 1)
        BY <2>4, <3>2
      <4>2. Heard(msgs') = Append(Heard(msgs), [op |-> op, parts |-> Elems(p)])
        BY <1>t, <4>1, HeardAppend
      <4>3. ~deaf
        BY <3>2 DEF Callable
      <4> QED
        BY <3>1, <4>1, <4>2, <4>3
    <3>3. CASE ~Callable("message")
      <4>1. deaf
        BY <3>3, Zenon DEF Callable
      <4> QED
        BY <2>4, <3>3, <4>1
    <3> QED
      BY <3>2, <3>3
  <2>6. open' = open
    <3>1. conn'.state = conn.state
      BY <1>1, <1>t DEF OnDataFrame, OnContFrame, Unfragmented, ConnRecs
    <3> QED
      BY <3>1
  <2>7. DOMAIN Sent(in) = Ends(in)
    BY DEF Sent
  <2> HIDE DEF open, deaf
  <2>8. \E p \in DOMAIN Sent(in) \ Taken(in, done) :
           /\ \A q \in DOMAIN Sent(in) \ Taken(in, done) : p <= q
           /\ Taken(in, done)' = Taken(in, done) \cup {p}
           /\ Heard(msgs)' = IF deaf THEN Heard(msgs) ELSE Append(Heard(msgs), Sent(in)[p])
    BY <2>3, <2>5, <2>7
  <2> QED
    BY <1>0, <2>6, <2>8 DEF Channel!Take, Sent, Taken, Heard, open, deaf
<1>2. ASSUME UNCHANGED msgs, done' = done \/ (done' = done + 1 /\ done + 1 \notin Ends(in)),
             conn'.state # "CLOSE" => conn.state # "CLOSE"
      PROVE  [Channel!Next]_(Channel!vars)
  <2>1. Taken(in, done)' = Taken(in, done)
    BY <1>2, <1>t, NextTaken
  <2>2. Heard(msgs)' = Heard(msgs)
    BY <1>2
  <2>3. open' = open \/ open' = FALSE
    BY <1>2
  <2> HIDE DEF open, deaf
  <2>4. CASE open' = open
    BY <1>0, <2>1, <2>2, <2>4 DEF Channel!vars, Sent, Taken, Heard, open, deaf
  <2>5. CASE open' = FALSE
    <3>1. Channel!Close
      BY <1>0, <2>1, <2>2, <2>5 DEF Channel!Close, Sent, Taken, Heard, open, deaf
    <3> QED
      BY <3>1 DEF Channel!Next
  <2> QED
    BY <2>3, <2>4, <2>5
<1>3. CASE OnDataFrame \/ OnContFrame
  <2>1. CASE Fin
    BY <1>1, <1>3, <2>1 DEF Channel!Next
  <2>2. CASE ~Fin
    <3>1. UNCHANGED msgs /\ done' = done + 1 /\ conn'.state = conn.state
      BY <1>3, <1>t, <2>2 DEF OnDataFrame, OnContFrame, ConnRecs
    <3>2. done + 1 \notin Ends(in)
      BY <2>2 DEF Ends, Fin
    <3> QED
      BY <1>2, <3>1, <3>2
  <2> QED
    BY <2>1, <2>2
<1>4. CASE OnPingFrame \/ OnPongFrame
  <2>1. /\ in[done + 1].op \in {"ping", "pong"}
        /\ UNCHANGED msgs /\ done' = done + 1
    BY <1>4, <1>f DEF OnPingFrame, OnPongFrame, peerVars
  <2>2. conn'.state = conn.state
    BY <1>4, <1>t, FragOf DEF OnPingFrame, OnPongFrame
  <2>3. done + 1 \notin Ends(in)
    BY <2>1 DEF Ends, DataOps
  <2> QED
    BY <1>2, <2>1, <2>2, <2>3
<1>5. CASE OnCloseFrame \/ OnBadFrame
  <2>1. /\ in[done + 1].op \in {"close", "other", "huge"}
        /\ UNCHANGED msgs /\ done' \in {done, done + 1}
        /\ conn' = LaureConnClose(LaureWsClose(conn))
    BY <1>5, <1>f DEF OnCloseFrame, OnBadFrame, EndWith, peerVars
  <2>2. conn'.state = "CLOSE"
    BY <1>t, <2>1, FragOf, RecTypes
  <2>3. done + 1 \notin Ends(in)
    BY <2>1 DEF Ends, DataOps
  <2> QED
    BY <1>2, <2>1, <2>2, <2>3
<1>6. CASE FramesEnd
  BY <1>2, <1>6 DEF FramesEnd, peerVars
<1> QED
  BY <1>3, <1>4, <1>5, <1>6 DEF TakeFrame

LEMMA ChannelReads ==
    ASSUME Legal, TypeOK, TypeOK', FragsOK, BufferOK, Read
    PROVE  Channel!Arrive
<1> DEFINE open == conn.state # "CLOSE"
           deaf == exc \/ "message" \notin Events
<1>1. /\ in \in Seq(Frames) /\ in' \in Seq(Frames) /\ Len(in) \in Nat /\ LegalFrames(in)
      /\ UNCHANGED <<done, msgs, exc>> /\ conn'.state = conn.state
      /\ Len(in) <= Len(in') /\ \A k \in 1..Len(in) : in'[k] = in[k]
  BY ReadGrows, TypeParts, LenProperties DEF BufferOK
<1>2. open /\ open' = open /\ deaf' = deaf
  BY <1>1 DEF Read
<1>3. /\ Ends(in) \subseteq Ends(in')
      /\ \A e \in Ends(in') \ Ends(in) : e > Len(in)
      /\ \A e \in Ends(in) : MessageAt(in', e) = MessageAt(in, e)
  BY <1>1, Extended
<1>4. DOMAIN Sent(in) = Ends(in) /\ DOMAIN Sent(in') = Ends(in')
  BY DEF Sent
<1>5. DOMAIN Sent(in) \subseteq DOMAIN Sent(in')
  BY <1>3, <1>4
<1>6. \A e \in Ends(in) : Sent(in')[e] = Sent(in)[e]
  BY <1>3 DEF Sent
<1>7. \A e \in Ends(in) : e \in Nat /\ e <= Len(in)
  BY <1>1, LenProperties DEF Ends
<1>8. \A e \in Ends(in') : e \in Nat
  BY <1>1, LenProperties DEF Ends
<1>9. \A p \in Ends(in), q \in Ends(in') \ Ends(in) : p < q
  BY <1>1, <1>3, <1>7, <1>8
<1>10. Taken(in', done') = Taken(in, done)
  <2>1. \A e \in Ends(in') : e <= done => e \in Ends(in)
    <3>1. done \in Nat /\ done <= Len(in)
      BY TypeParts DEF FragsOK
    <3> QED
      BY <1>1, <1>3, <1>8, <3>1
  <2> QED
    BY <1>1, <1>3, <2>1 DEF Taken
<1> HIDE DEF open, deaf
<1>11. Heard(msgs') = Heard(msgs)
  BY <1>1
<1> QED
  BY <1>2, <1>4, <1>5, <1>6, <1>9, <1>10, <1>11
     DEF Channel!Arrive, Sent, Taken, Heard, open, deaf

LEMMA ChannelStep ==
    ASSUME Legal, TypeOK, TypeOK', FragsOK, BufferOK, [Next]_vars
    PROVE  [Channel!Next]_(Channel!vars)
<1> DEFINE open == conn.state # "CLOSE"
           deaf == exc \/ "message" \notin Events
<1>1. CASE Read
  BY <1>1, ChannelReads DEF Channel!Next
<1>2. CASE TakeFrame
  <2>1. UNCHANGED <<in, exc>>
    BY <1>2 DEF TakeFrame, OnDataFrame, OnContFrame, OnPingFrame, OnPongFrame, OnCloseFrame,
                OnBadFrame, FramesEnd, peerVars
  <2> QED
    BY <1>2, <2>1, ChannelTakes
<1>3. ASSUME UNCHANGED <<in, done, msgs>>,
             exc' = exc \/ (exc' = TRUE /\ conn'.state = conn.state),
             conn'.state # "CLOSE" => conn.state # "CLOSE"
      PROVE  [Channel!Next]_(Channel!vars)
  <2>1. Sent(in)' = Sent(in) /\ Taken(in, done)' = Taken(in, done) /\ Heard(msgs)' = Heard(msgs)
    BY <1>3
  <2>2. \/ deaf' = deaf /\ open' = open
        \/ deaf' = deaf /\ open' = FALSE
        \/ deaf' = TRUE /\ open' = open
    <3>1. CASE exc' = exc
      <4>1. deaf' = deaf
        BY <3>1
      <4>2. open' = open \/ open' = FALSE
        BY <1>3
      <4> HIDE DEF open, deaf
      <4> QED
        BY <4>1, <4>2
    <3>2. CASE exc' = TRUE /\ conn'.state = conn.state
      <4>1. deaf' = TRUE
        BY <3>2
      <4>2. open' = open
        BY <3>2
      <4> HIDE DEF open, deaf
      <4> QED
        BY <4>1, <4>2
    <3> QED
      BY <1>3, <3>1, <3>2
  <2> HIDE DEF open, deaf
  <2>3. CASE deaf' = deaf /\ open' = open
    BY <2>1, <2>3 DEF Channel!vars, Sent, Taken, Heard, open, deaf
  <2>4. CASE deaf' = deaf /\ open' = FALSE
    <3>1. Channel!Close
      BY <2>1, <2>4 DEF Channel!Close, Sent, Taken, Heard, open, deaf
    <3> QED
      BY <3>1 DEF Channel!Next
  <2>5. CASE deaf' = TRUE /\ open' = open
    <3>1. Channel!Throw
      BY <2>1, <2>5 DEF Channel!Throw, Sent, Taken, Heard, open, deaf
    <3> QED
      BY <3>1 DEF Channel!Next
  <2> QED
    BY <2>2, <2>3, <2>4, <2>5
<1>4. CASE Aside
  <2>1. /\ UNCHANGED <<in, done, msgs>>
        /\ exc' = exc \/ (exc' = TRUE /\ conn'.state = conn.state)
        /\ conn'.state # "CLOSE" => conn.state # "CLOSE"
    BY <1>4, AsideLeaves
  <2> QED
    BY <1>3, <2>1
<1>5. CASE ReturnFrame
  <2>1. /\ UNCHANGED <<in, done, msgs>> /\ exc' \in {exc, TRUE}
        /\ conn' = IF ctl = "fragmented" THEN Unfragmented(conn) ELSE conn
    BY <1>5 DEF ReturnFrame, peerVars
  <2>2. conn'.state = conn.state
    BY <2>1, TypeParts DEF Unfragmented, ConnRecs
  <2> QED
    BY <1>3, <2>1, <2>2
<1>6. CASE UNCHANGED vars
  BY <1>3, <1>6 DEF vars, peerVars
<1> QED
  BY <1>1, <1>2, <1>4, <1>5, <1>6, Steps

LEMMA ChannelInit == Init => Channel!Init
<1> SUFFICES ASSUME Init PROVE Channel!Init
  OBVIOUS
<1>1. in = <<>> /\ msgs = <<>> /\ conn.state = "WS_HAND" /\ exc \in BOOLEAN
  BY DEF Init
<1>2. Ends(in) = {} /\ DOMAIN msgs = {}
  BY <1>1 DEF Ends
<1>3. DOMAIN Sent(in) = {} /\ Taken(in, done) = {}
  BY <1>2 DEF Sent, Taken
<1>4. Heard(msgs) = <<>>
  BY <1>2 DEF Heard
<1>5. (conn.state # "CLOSE") = TRUE /\ (exc \/ "message" \notin Events) \in BOOLEAN
  BY <1>1
<1> QED
  BY <1>3, <1>4, <1>5 DEF Channel!Init, Sent, Taken, Heard

\* While the peer keeps to RFC 6455, ws_frag_buf is what has come of its message.
THEOREM BufferInvariant ==
    ASSUME Legal
    PROVE  Spec => []BufferOK
<1>1. FrameInv => TypeOK /\ FragsOK
  BY DEF FrameInv
<1>2. Init => BufferOK
  BY InitBuffer
<1>3. TypeOK /\ FragsOK /\ BufferOK /\ [Next]_vars => BufferOK'
  BY StepType, BufferStep
<1> QED
  BY <1>1, <1>2, <1>3, FrameInvariant, PTL DEF Spec

\* A legal peer's messages are heard whole, in order, once each, whatever closes
\* the connection meanwhile and whatever the callbacks throw.
THEOREM Refinement ==
    ASSUME Legal
    PROVE  Spec => KeepsChannel
<1>1. FrameInv => TypeOK /\ FragsOK
  BY DEF FrameInv
<1>2. TypeOK /\ FragsOK /\ BufferOK /\ [Next]_vars => [Channel!Next]_(Channel!vars)
  BY StepType, ChannelStep
<1> QED
  BY <1>1, <1>2, ChannelInit, FrameInvariant, BufferInvariant, PTL DEF Spec, KeepsChannel, Channel!Spec

=================================================================================
