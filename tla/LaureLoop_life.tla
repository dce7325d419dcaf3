--------------------------- MODULE LaureLoop_life ----------------------------
(* What a connection is given, and the life ConnLife promises it: proofs     *)
(* about LaureLoop that rest on its inductive invariant.                     *)
EXTENDS LaureLoop_proofs

-----------------------------------------------------------------------------
(* The frames that hand a read over, dispatch_plain's and llhttp_execute's,  *)
(* are the second of the stack.                                              *)

ReadFns == {"dispatch_plain", "llhttp_execute"}

Serves(fn, c) == 2 <= Depth /\ stack[2].fn = fn /\ stack[2].c = c

LEMMA ServesIs ==
    ASSUME TypeOK, Shape, NEW fn \in ReadFns, NEW c \in Conns
    PROVE  (\E i \in 1..Depth : stack[i].fn = fn /\ stack[i].c = c) <=> Serves(fn, c)
<1>1. Depth \in Nat /\ fn \notin {"uv_run", "on_handle_closed"}
  BY DepthType DEF ReadFns
<1>2. ASSUME NEW i \in 1..Depth, stack[i].fn = fn PROVE i = 2
  <2>1. i \in {1, 2, 3, 4, 5} /\ i <= Depth
    BY <1>1 DEF Shape
  <2>. QED
    BY <1>1, <1>2, <2>1 DEF Shape
<1>3. 2 <= Depth => 2 \in 1..Depth
  BY <1>1
<1>. QED
  BY <1>2, <1>3 DEF Serves

LEMMA ReceivingIs ==
    ASSUME TypeOK, Shape, NEW c \in Conns
    PROVE  Receiving(c) <=> Serves("dispatch_plain", c)
  BY ServesIs DEF ReadFns, Receiving

\* The same in the state that follows.
LEMMA ReceivingNext ==
    ASSUME NEW c \in Conns
    PROVE  (TypeOK /\ Shape => (Receiving(c) <=> Serves("dispatch_plain", c)))'
<1>1. TypeOK /\ Shape => (Receiving(c) <=> Serves("dispatch_plain", c))
  BY ReceivingIs
<1>. QED
  BY <1>1, PTL

\* The chunks counted for a connection.
SameChunks(c) == /\ conn'[c].rcvd = conn[c].rcvd
                 /\ conn'[c].held = conn[c].held
                 /\ conn'[c].dlvd = conn[c].dlvd

SameServing == \A fn \in ReadFns, c \in Conns : Serves(fn, c)' <=> Serves(fn, c)

\* A step that hands nothing over and takes no answer.
Aside == /\ \A c \in Conns : SameChunks(c)
         /\ SameServing
         /\ exc' = "none" => exc = "none"
         /\ \A c \in Conns : <<c, "Response">> \in objs' => <<c, "Response">> \in objs

\* The helpers of the handlers count nothing.
LEMMA ChunkFields ==
    ASSUME NEW r \in ConnRecs, NEW s,
           \/ s \in {r, ClosedRec(r), SentRec(r), FinishedRec(r), UvClosed(r, "NULL")}
           \/ s = [FinishedRec(r) EXCEPT !.mem = "freed"]
           \/ s = [r EXCEPT !.mem = "freed"]
           \/ \E b \in BOOLEAN : s = [r EXCEPT !.reading = b]
    PROVE  s.rcvd = r.rcvd /\ s.held = r.held /\ s.dlvd = r.dlvd
<1>. DEFINE Like(t) == t.rcvd = r.rcvd /\ t.held = r.held /\ t.dlvd = r.dlvd
<1>1. \A cb \in {"NULL", "on_handle_closed"} : Like(UvClosed(r, cb))
  BY DEF UvClosed, ConnRecs
<1>2. Like(ClosedRec(r))
  BY DEF ClosedRec, UvClosed, ConnRecs
<1>3. Like(SentRec(r)) /\ Like(FinishedRec(r))
  BY DEF SentRec, FinishedRec, ConnRecs
<1>4. Like([FinishedRec(r) EXCEPT !.mem = "freed"])
  BY DEF FinishedRec, ConnRecs
<1>5. /\ Like(r) /\ Like([r EXCEPT !.mem = "freed"])
      /\ \A b \in BOOLEAN : Like([r EXCEPT !.reading = b])
  BY DEF ConnRecs
<1>6. Like(s)
  <2>. HIDE DEF Like
  <2>. QED
    BY <1>1, <1>2, <1>3, <1>4, <1>5
<1>. QED
  BY <1>6

\* The same of a step that changes one connection in one of those ways.
LEMMA OneKeepsChunks ==
    ASSUME TypeOK, NEW d \in Conns, NEW s, conn' = [conn EXCEPT ![d] = s],
           s.rcvd = conn[d].rcvd, s.held = conn[d].held, s.dlvd = conn[d].dlvd
    PROVE  \A c \in Conns : SameChunks(c)
  BY Elsewhere DEF SameChunks

LEMMA SameConnKeepsChunks ==
    ASSUME conn' = conn
    PROVE  \A c \in Conns : SameChunks(c)
  BY DEF SameChunks

LEMMA CloseKeepsChunks ==
    ASSUME TypeOK, NEW d \in Conns, LaureConnClose(d)
    PROVE  \A c \in Conns : SameChunks(c)
<1>1. conn[d] \in ConnRecs /\ conn' = [conn EXCEPT ![d] = ClosedRec(conn[d])]
  BY DEF TypeOK, LaureConnClose
<1>. QED
  BY <1>1, ChunkFields, OneKeepsChunks

LEMMA WalkKeepsChunks ==
    ASSUME TypeOK, WalkCloseAll
    PROVE  \A c \in Conns : SameChunks(c)
<1>. SUFFICES ASSUME NEW c \in Conns PROVE SameChunks(c)
  OBVIOUS
<1>1. conn[c] \in ConnRecs /\ conn'[c] \in {conn[c], UvClosed(conn[c], "NULL")}
  BY DEF TypeOK, WalkCloseAll
<1>. QED
  BY <1>1, ChunkFields DEF SameChunks

-----------------------------------------------------------------------------
(* Most steps are aside. *)

LEMMA SameStackServes ==
    ASSUME stack' = stack PROVE SameServing
  BY DEF SameServing, Serves, Depth

\* Levels 1 and 2 are what matters; pushes, pops and drains above keep them.
LEMMA LowServes ==
    ASSUME TypeOK, TypeOK',
           \/ Depth >= 2 /\ Depth' >= 2 /\ stack'[2].fn = stack[2].fn /\ stack'[2].c = stack[2].c
           \/ Depth < 2 /\ Depth' < 2
           \/ Depth < 2 /\ Depth' >= 2 /\ stack'[2].fn \notin ReadFns
           \/ Depth' < 2 /\ Depth >= 2 /\ stack[2].fn \notin ReadFns
    PROVE  SameServing
<1>1. Depth \in Nat /\ Depth' \in Nat
  BY DEF TypeOK, Depth
<1>. QED
  BY <1>1 DEF SameServing, Serves

LEMMA ScriptAside == IInv /\ IInv' /\ Script => Aside
<1>. SUFFICES ASSUME IInv, IInv', Script PROVE Aside
  OBVIOUS
<1>1. TypeOK /\ TypeOK'
  BY DEF IInv
<1>2. conn' = conn /\ objs' = objs /\ (exc' = "none" => exc = "none")
  BY DEF Script, Start, StartFails, LoopInitFails, Destroy, phpVars
<1>3. SameServing
  <2>1. CASE Start
    <3>1. stack = <<>> /\ stack' = <<RunFrame>>
      BY <2>1 DEF Start, Idle
    <3>2. Depth = 0 /\ Depth' = 1
      BY <3>1 DEF Depth
    <3>. QED
      BY <1>1, <3>2, LowServes
  <2>2. CASE stack' = stack
    BY <2>2, SameStackServes
  <2>. QED
    BY <2>1, <2>2 DEF Script, StartFails, LoopInitFails, Destroy
<1>. QED
  BY <1>2, <1>3, SameConnKeepsChunks DEF Aside

LEMMA PhpAside == IInv /\ IInv' /\ Php => Aside
<1>. SUFFICES ASSUME IInv, IInv', Php PROVE Aside
  OBVIOUS
<1>1. TypeOK /\ TypeOK'
  BY DEF IInv
<1>2. objs' = objs /\ (exc' = "none" => exc = "none")
  <2>1. CASE PhpStop \/ (\E e \in Events : PhpOn(e))
    BY <2>1 DEF PhpStop, PhpOn, phpVars
  <2>2. CASE PhpCatch
    BY <2>2 DEF PhpCatch
  <2>3. CASE \E c \in Conns : PhpSend(c) \/ PhpClose(c) \/ PhpUseStale(c)
    BY <2>3 DEF PhpSend, PhpClose, PhpUseStale, phpVars
  <2>. QED
    BY <2>1, <2>2, <2>3 DEF Php
<1>3. SameServing
  <2>1. CASE stack' = Append(stack, RunFrame) /\ PhpStop
    <3>1. Depth \in {0, 2, 4}
      BY <2>1, PhpDepth DEF PhpStop, InUser
    <3>2. CASE Depth = 0
      <4>1. Depth < 2 /\ Depth' < 2
        BY <1>1, <2>1, <3>2, PushRun
      <4>. QED
        BY <1>1, <4>1, LowServes
    <3>3. CASE Depth \in {2, 4}
      <4>1. Depth >= 2 /\ Depth' >= 2 /\ stack'[2] = stack[2]
        <5>1. stack' = Append(stack, RunFrame)
          BY <2>1
        <5>2. CASE Depth = 2
          <6>1. Depth' = 3 /\ stack'[2] = stack[2]
            BY <1>1, <5>1, <5>2, PushRun
          <6>. QED
            BY <5>2, <6>1
        <5>3. CASE Depth = 4
          <6>1. Depth' = 5 /\ stack'[2] = stack[2]
            BY <1>1, <5>1, <5>3, PushRun
          <6>. QED
            BY <5>3, <6>1
        <5>. QED
          BY <3>3, <5>2, <5>3
      <4>. QED
        BY <1>1, <4>1, LowServes
    <3>. QED
      BY <3>1, <3>2, <3>3
  <2>2. CASE stack' = stack
    BY <2>2, SameStackServes
  <2>. QED
    BY <2>1, <2>2 DEF Php, PhpStop, PhpCatch, PhpOn, PhpSend, PhpClose, PhpUseStale
<1>4. \A c \in Conns : SameChunks(c)
  <2>1. CASE WalkCloseAll
    BY <1>1, <2>1, WalkKeepsChunks
  <2>2. CASE conn' = conn
    BY <2>2, SameConnKeepsChunks
  <2>3. ASSUME NEW d \in Conns, PhpSend(d) PROVE \A c \in Conns : SameChunks(c)
    <3>1. conn[d] \in ConnRecs /\ conn' = [conn EXCEPT ![d] = SentRec(conn[d])]
      BY <1>1, <2>3 DEF TypeOK, PhpSend
    <3>. QED
      BY <1>1, <3>1, ChunkFields, OneKeepsChunks
  <2>4. ASSUME NEW d \in Conns, PhpClose(d) PROVE \A c \in Conns : SameChunks(c)
    BY <1>1, <2>4, CloseKeepsChunks DEF PhpClose
  <2>. QED
    BY <2>1, <2>2, <2>3, <2>4 DEF Php, PhpStop, PhpCatch, PhpOn, PhpUseStale
<1>. QED
  BY <1>2, <1>3, <1>4 DEF Aside

\* A callback pushed on the outermost loop.
LEMMA CallServes ==
    ASSUME IInv, TypeOK', Polling,
           srvh = "open" \/ \E d \in Conns : conn[d].handle = "open",
           NEW fn \in FnNames, NEW c \in Conns \cup {NoConn}, NEW n \in Nat,
           stack' = Append(stack, Frame(fn, c, n))
    PROVE  /\ fn \notin ReadFns => SameServing
           /\ \A f \in ReadFns, d \in Conns :
                 /\ ~Serves(f, d)
                 /\ Serves(f, d)' <=> f = fn /\ d = c
<1>1. Depth = 1 /\ TypeOK
  BY ServingDepth DEF IInv
<1>2. Depth' = 2 /\ stack'[2].fn = fn /\ stack'[2].c = c
  BY <1>1, PushCallback
<1>. QED
  BY <1>1, <1>2, LowServes DEF Serves

\* A connection that the listener has not accepted counts no chunk.
LEMMA AcceptKeepsChunks ==
    ASSUME TypeOK, Untouched, NEW d \in Conns, conn[d].mem = "none",
           Accept(d) \/ AcceptFails(d)
    PROVE  \A c \in Conns : SameChunks(c)
<1>1. conn[d] = NewConn
  BY DEF Untouched
<1>2. CASE Accept(d)
  <2>. DEFINE s == [NewConn EXCEPT !.mem = "live", !.handle = "open",
                                   !.reading = ~Callable("connect")]
  <2>1. s.rcvd = NewConn.rcvd /\ s.held = NewConn.held /\ s.dlvd = NewConn.dlvd
    BY DEF NewConn
  <2>2. conn' = [conn EXCEPT ![d] = s]
    BY <1>2 DEF Accept
  <2>. HIDE DEF s
  <2>. QED
    BY <1>1, <2>1, <2>2, OneKeepsChunks
<1>3. CASE AcceptFails(d)
  <2>. DEFINE s == [UvClosed(NewConn, "NULL") EXCEPT !.mem = "freed"]
  <2>1. s.rcvd = NewConn.rcvd /\ s.held = NewConn.held /\ s.dlvd = NewConn.dlvd
    BY DEF NewConn, UvClosed
  <2>2. conn' = [conn EXCEPT ![d] = s]
    BY <1>3 DEF AcceptFails
  <2>. HIDE DEF s
  <2>. QED
    BY <1>1, <2>1, <2>2, OneKeepsChunks
<1>. QED
  BY <1>2, <1>3

LEMMA NetworkAside ==
    ASSUME IInv, IInv', Untouched, Network,
           ~\E c \in Conns : ReadTcp(c) \/ ReadHttp(c)
    PROVE  Aside
<1>1. TypeOK /\ TypeOK'
  BY DEF IInv
<1>2. CASE OnTick
  <2>1. /\ Polling /\ srvh = "open" /\ conn' = conn /\ objs' = objs /\ exc' = exc
        /\ stack' = Append(stack, Frame("on_tick", NoConn, 0))
    BY <1>2 DEF OnTick, phpVars
  <2>2. SameServing
    BY <1>1, <2>1, CallServes DEF FnNames, ConnFns, ReadFns
  <2>. QED
    BY <2>1, <2>2, SameConnKeepsChunks DEF Aside
<1>3. CASE OnSignal
  BY <1>1, <1>3, WalkKeepsChunks, SameStackServes DEF OnSignal, phpVars, Aside
<1>4. ASSUME NEW d \in Conns, Accept(d) PROVE Aside
  <2>1. /\ Polling /\ srvh = "open" /\ conn[d].mem = "none" /\ exc' = exc
        /\ objs' = objs \/ objs' = objs \cup {<<d, "Connection">>}
        /\ \/ stack' = stack
           \/ stack' = Append(stack, Frame("laure_conn_accept", d, 0))
    BY <1>4 DEF Accept
  <2>2. SameServing
    BY <1>1, <2>1, CallServes, SameStackServes DEF FnNames, ConnFns, ReadFns
  <2>. QED
    BY <1>1, <1>4, <2>1, <2>2, AcceptKeepsChunks DEF Aside
<1>5. ASSUME NEW d \in Conns, AcceptFails(d) PROVE Aside
  BY <1>1, <1>5, AcceptKeepsChunks, SameStackServes DEF AcceptFails, phpVars, Aside
<1>6. ASSUME NEW d \in Conns, WriteDone(d) PROVE Aside
  <2>1. /\ conn[d] \in ConnRecs /\ stack' = stack /\ UNCHANGED phpVars
        /\ conn' = [conn EXCEPT ![d] = [conn[d] EXCEPT !.pend = conn[d].pend - 1]]
    BY <1>1, <1>6 DEF TypeOK, WriteDone
  <2>. DEFINE s == [conn[d] EXCEPT !.pend = conn[d].pend - 1]
  <2>2. s.rcvd = conn[d].rcvd /\ s.held = conn[d].held /\ s.dlvd = conn[d].dlvd
    BY <2>1 DEF ConnRecs
  <2>. HIDE DEF s
  <2>3. \A c \in Conns : SameChunks(c)
    BY <1>1, <2>1, <2>2, OneKeepsChunks DEF s
  <2>. QED
    BY <2>1, <2>3, SameStackServes DEF phpVars, Aside
<1>7. ASSUME NEW d \in Conns, ReadEof(d) PROVE Aside
  <2>1. /\ conn[d] \in ConnRecs /\ stack' = stack /\ UNCHANGED phpVars
        /\ \/ conn' = [conn EXCEPT ![d] = [conn[d] EXCEPT !.reading = FALSE]]
           \/ LaureConnClose(d)
    BY <1>1, <1>7 DEF TypeOK, ReadEof
  <2>2. \A c \in Conns : SameChunks(c)
    <3>1. CASE LaureConnClose(d)
      BY <1>1, <3>1, CloseKeepsChunks
    <3>2. CASE conn' = [conn EXCEPT ![d] = [conn[d] EXCEPT !.reading = FALSE]]
      BY <1>1, <2>1, <3>2, ChunkFields, OneKeepsChunks
    <3>. QED
      BY <2>1, <3>1, <3>2
  <2>. QED
    BY <2>1, <2>2, SameStackServes DEF phpVars, Aside
<1>. QED
  BY <1>2, <1>3, <1>4, <1>5, <1>6, <1>7 DEF Network

\* A loop's list is taken or drained: the frames stay what they are.
LEMMA QueueServes ==
    ASSUME IInv, TypeOK', Looping, NEW q \in SUBSET Conns,
           stack' = [stack EXCEPT ![Depth].q = q]
    PROVE  SameServing
<1>1. stack \in Seq(Frames) /\ Depth \in {1, 3, 5} /\ TypeOK
  BY LoopDepth DEF IInv, TypeOK
<1>2. /\ Depth' = Depth
      /\ Depth \in {3, 5} => stack'[2] = stack[2]
  BY <1>1, SetQueue DEF Depth
<1>. QED
  BY <1>1, <1>2, LowServes

LEMMA LoopAside == IInv /\ IInv' /\ (TakeClosing \/ Finish \/ ExitRun) => Aside
<1>. SUFFICES ASSUME IInv, IInv', TakeClosing \/ Finish \/ ExitRun PROVE Aside
  OBVIOUS
<1>1. TypeOK /\ TypeOK'
  BY DEF IInv
<1>2. CASE TakeClosing
  <2>1. /\ Looping /\ conn' = conn /\ UNCHANGED phpVars /\ closing \in SUBSET Conns
        /\ stack' = [stack EXCEPT ![Depth].q = closing]
    BY <1>1, <1>2 DEF TakeClosing, Polling, TypeOK
  <2>. QED
    BY <1>1, <2>1, QueueServes, SameConnKeepsChunks DEF Aside, phpVars
<1>3. CASE ExitRun
  <2>1. /\ Looping /\ conn' = conn /\ UNCHANGED phpVars /\ stack' = Pop /\ stack # <<>>
    BY <1>3 DEF ExitRun, Polling, Looping
  <2>2. Depth \in {1, 3, 5}
    BY <2>1, LoopDepth
  <2>3. SameServing
    BY <1>1, <2>1, <2>2, PopAt, LowServes
  <2>. QED
    BY <2>1, <2>3, SameConnKeepsChunks DEF Aside, phpVars
<1>4. ASSUME NEW d \in Conns, FinishDangling(d) PROVE Aside
  BY <1>4, SameConnKeepsChunks, SameStackServes DEF FinishDangling, phpVars, Aside
<1>5. ASSUME NEW d \in Conns, FinishWalked(d) \/ OnHandleClosed(d) PROVE Aside
  <2>1. /\ Looping /\ d \in Top.q /\ conn[d] \in ConnRecs /\ exc' = exc
        /\ objs' = objs \/ objs' = objs \cup {<<d, "Connection">>}
        /\ \/ stack' = Drained(d)
           \/ stack' = Append(Drained(d), Frame("on_handle_closed", d, 0))
        /\ \/ conn' = [conn EXCEPT ![d] = FinishedRec(conn[d])]
           \/ conn' = [conn EXCEPT ![d] = [FinishedRec(conn[d]) EXCEPT !.mem = "freed"]]
    BY <1>1, <1>5 DEF FinishWalked, OnHandleClosed, phpVars, TypeOK
  <2>2. \A c \in Conns : SameChunks(c)
    BY <1>1, <2>1, ChunkFields, OneKeepsChunks
  <2>3. SameServing
    <3>. DEFINE t == Drained(d)
                f == Frame("on_handle_closed", d, 0)
    <3>1. Depth \in {1, 3}
      BY <2>1, FinishFacts
    <3>2. /\ t \in Seq(Frames) /\ Len(t) = Depth
          /\ Depth = 3 => t[2] = stack[2]
      BY <1>1, <3>1, DrainedAt
    <3>3. f \in Frames /\ f.fn \notin ReadFns
      BY FrameTypes DEF FnNames, Frame, ReadFns
    <3>. HIDE DEF t, f
    <3>4. CASE stack' = t
      BY <1>1, <3>1, <3>2, <3>4, LowServes DEF Depth
    <3>5. CASE stack' = Append(t, f)
      <4>1. /\ Depth = 1 => Depth' = 2 /\ stack'[2] = f
            /\ Depth = 3 => Depth' = 4 /\ stack'[2] = t[2]
        BY <3>1, <3>2, <3>3, <3>5, PushAt DEF Depth
      <4>. QED
        BY <1>1, <3>1, <3>2, <3>3, <4>1, LowServes
    <3>. QED
      BY <2>1, <3>4, <3>5 DEF t, f
  <2>. QED
    BY <2>1, <2>2, <2>3 DEF Aside
<1>. QED
  BY <1>2, <1>3, <1>4, <1>5 DEF Finish

LEMMA ReturnAside ==
    ASSUME IInv, IInv', ResumeFreed \/ ReturnConnect \/ ReturnTick \/ ReturnClose
    PROVE  Aside
<1>1. TypeOK /\ TypeOK' /\ Shape
  BY DEF IInv
<1>2. InCallback /\ stack # <<>>
  BY DEF ResumeFreed, ReturnConnect, ReturnTick, ReturnClose, Returns, InCallback
<1>3. Depth \in {2, 4} /\ (Top.fn # "on_tick" => Top.c \in Conns) /\ Top = stack[Depth]
  BY <1>1, <1>2, TopOwner DEF Top
<1>4. objs' = objs /\ (exc' = "none" => exc = "none")
  BY DEF ResumeFreed, ReturnConnect, ReturnTick, ReturnClose, Returns, phpVars
<1>5. SameServing
  <2>1. CASE stack' = Pop /\ Top.fn \notin ReadFns
    BY <1>1, <1>2, <1>3, <2>1, PopAt, LowServes
  <2>2. CASE stack' = stack
    BY <2>2, SameStackServes
  <2>. QED
    BY <2>1, <2>2 DEF ResumeFreed, ReturnConnect, ReturnTick, ReturnClose, Returns, ReadFns
<1>6. \A c \in Conns : SameChunks(c)
  <2>1. CASE ResumeFreed \/ ReturnTick
    BY <2>1, SameConnKeepsChunks DEF ResumeFreed, ReturnTick
  <2>2. CASE ReturnConnect \/ ReturnClose
    <3>. DEFINE d == Top.c
    <3>1. d \in Conns /\ conn[d] \in ConnRecs
      BY <1>1, <1>3, <2>2 DEF ReturnConnect, ReturnClose, Returns, TypeOK
    <3>2. \/ conn' = [conn EXCEPT ![d] = [conn[d] EXCEPT !.mem = "freed"]]
          \/ \E b \in BOOLEAN : conn' = [conn EXCEPT ![d] = [conn[d] EXCEPT !.reading = b]]
      BY <2>2 DEF ReturnConnect, ReturnClose
    <3>. HIDE DEF d
    <3>3. CASE conn' = [conn EXCEPT ![d] = [conn[d] EXCEPT !.mem = "freed"]]
      BY <1>1, <3>1, <3>3, ChunkFields, OneKeepsChunks
    <3>4. ASSUME NEW b \in BOOLEAN, conn' = [conn EXCEPT ![d] = [conn[d] EXCEPT !.reading = b]]
          PROVE  \A c \in Conns : SameChunks(c)
      <4>. DEFINE s == [conn[d] EXCEPT !.reading = b]
      <4>1. s.rcvd = conn[d].rcvd /\ s.held = conn[d].held /\ s.dlvd = conn[d].dlvd
        BY <3>1, ChunkFields
      <4>. HIDE DEF s
      <4>2. conn' = [conn EXCEPT ![d] = s]
        BY <3>4 DEF s
      <4>. QED
        BY <1>1, <3>1, <4>1, <4>2, OneKeepsChunks
    <3>. QED
      BY <3>2, <3>3, <3>4
  <2>. QED
    BY <2>1, <2>2
<1>. QED
  BY <1>4, <1>5, <1>6 DEF Aside

-----------------------------------------------------------------------------
(* Where a step takes a connection in its life. *)

\* LifeOf, read off the connection's fields alone.
LifeRec(r) == IF r.mem = "none" THEN "absent"
              ELSE IF r.mem = "freed" THEN "gone"
              ELSE IF r.handle = "open" THEN "open"
              ELSE IF r.closeCb = "NULL" THEN "abandoned"
              ELSE IF r.handle = "closed" THEN "notifying"
              ELSE "closing"

LEMMA LifeIsRec ==
    ASSUME IInv, NEW c \in Conns
    PROVE  LifeOf(c) = LifeRec(conn[c])
<1>1. /\ TypeOK /\ Shape /\ RecOK(conn[c]) /\ conn[c] \in ConnRecs
      /\ conn[c].mem \in {"none", "live", "freed"}
      /\ conn[c].handle \in {"none", "open", "closing", "closed"}
      /\ conn[c].closeCb \in {"NULL", "on_handle_closed"}
  BY DEF IInv, TypeOK, ConnRecs
<1>2. Notifying(c) <=> NotifyingAt(c, 2) \/ NotifyingAt(c, 4)
  <2>1. ASSUME NEW i \in 1..Depth, stack[i].fn = "on_handle_closed", stack[i].c = c
        PROVE  NotifyingAt(c, 2) \/ NotifyingAt(c, 4)
    <3>1. i \in {2, 4} /\ i <= Depth
      BY <1>1, <2>1, Levels
    <3>. QED
      BY <2>1, <3>1 DEF NotifyingAt
  <2>2. ASSUME NEW i \in {2, 4}, NotifyingAt(c, i)
        PROVE  i \in 1..Depth /\ stack[i].fn = "on_handle_closed" /\ stack[i].c = c
    <3>1. Depth \in Nat
      BY <1>1, DepthType
    <3>. QED
      BY <2>2, <3>1 DEF NotifyingAt
  <2>. QED
    BY <2>1, <2>2 DEF Notifying
<1>3. Notifying(c) =>
         conn[c].mem = "live" /\ conn[c].handle = "closed" /\ conn[c].closeCb = "on_handle_closed"
  BY <1>2 DEF IInv, Served
<1>4. conn[c].mem = "live" /\ conn[c].handle = "closed" /\ conn[c].closeCb = "on_handle_closed"
         => Notifying(c)
  BY <1>2 DEF IInv, Served
<1>5. CASE Notifying(c)
  BY <1>3, <1>5 DEF LifeOf, LifeRec
<1>6. CASE ~Notifying(c) /\ conn[c].mem # "live"
  BY <1>1, <1>6 DEF LifeOf, LifeRec
<1>7. CASE ~Notifying(c) /\ conn[c].mem = "live"
  <2>1. conn[c].handle = "closed" => conn[c].closeCb = "NULL"
    BY <1>1, <1>4, <1>7
  <2>. QED
    BY <1>7, <2>1 DEF LifeOf, LifeRec
<1>. QED
  BY <1>5, <1>6, <1>7

Moves == {<<"absent", "open">>, <<"absent", "gone">>, <<"open", "closing">>,
          <<"closing", "notifying">>, <<"closing", "gone">>, <<"notifying", "gone">>}

\* One connection takes a step of its life, or none, and the others stay.
Moved(d, s) == /\ conn' = [conn EXCEPT ![d] = s]
               /\ s.mem # "none"
               /\ \/ LifeRec(s) = LifeRec(conn[d])
                  \/ <<LifeRec(conn[d]), LifeRec(s)>> \in Moves

LEMMA SameLife ==
    ASSUME NEW d \in Conns, NEW s, conn' = [conn EXCEPT ![d] = s],
           conn[d].mem # "none", s.mem = conn[d].mem, s.handle = conn[d].handle,
           s.closeCb = conn[d].closeCb
    PROVE  Moved(d, s)
  BY DEF Moved, LifeRec

LEMMA CloseMoves ==
    ASSUME TypeOK, NEW d \in Conns, conn[d].mem = "live", LaureConnClose(d)
    PROVE  Moved(d, ClosedRec(conn[d]))
<1>1. conn[d] \in ConnRecs /\ conn' = [conn EXCEPT ![d] = ClosedRec(conn[d])]
  BY DEF TypeOK, LaureConnClose
<1>2. CASE ClosesHandle(conn[d])
  BY <1>1, <1>2, ClosedFields DEF Moved, Moves, LifeRec, ClosesHandle
<1>3. CASE ~ClosesHandle(conn[d])
  BY <1>1, <1>3, ClosedFields, SameLife
<1>. QED
  BY <1>2, <1>3

LifeStep == \/ conn' = conn
            \/ WalkCloseAll
            \/ \E d \in Conns : \E s \in ConnRecs : Moved(d, s)

\* Moved, by what is assigned.
LEMMA MovesTo ==
    ASSUME TypeOK, TypeOK', NEW d \in Conns, NEW s, Moved(d, s)
    PROVE  LifeStep
<1>1. conn'[d] = s /\ conn'[d] \in ConnRecs
  BY DEF TypeOK, Moved
<1>. QED
  BY <1>1 DEF LifeStep

LEMMA PhpMoves == IInv /\ IInv' /\ (Script \/ Php) => LifeStep
<1>. SUFFICES ASSUME IInv, IInv', Script \/ Php PROVE LifeStep
  OBVIOUS
<1>1. TypeOK /\ TypeOK'
  BY DEF IInv
<1>2. CASE Script \/ PhpStop \/ PhpCatch \/ (\E e \in Events : PhpOn(e))
           \/ (\E c \in Conns : PhpUseStale(c))
  <2>1. conn' = conn \/ WalkCloseAll
    BY <1>2 DEF Script, Start, StartFails, LoopInitFails, Destroy,
                PhpStop, PhpCatch, PhpOn, PhpUseStale
  <2>. QED
    BY <2>1 DEF LifeStep
<1>3. ASSUME NEW d \in Conns, PhpSend(d) PROVE LifeStep
  <2>. DEFINE s == SentRec(conn[d])
  <2>1. conn[d] \in ConnRecs /\ conn[d].mem = "live" /\ conn' = [conn EXCEPT ![d] = s]
    BY <1>1, <1>3 DEF TypeOK, PhpSend
  <2>2. s.mem = conn[d].mem /\ s.handle = conn[d].handle /\ s.closeCb = conn[d].closeCb
    BY <2>1, SentFields
  <2>. HIDE DEF s
  <2>. QED
    BY <1>1, <2>1, <2>2, SameLife, MovesTo
<1>4. ASSUME NEW d \in Conns, PhpClose(d) PROVE LifeStep
  BY <1>1, <1>4, CloseMoves, MovesTo DEF PhpClose
<1>. QED
  BY <1>2, <1>3, <1>4 DEF Php

LEMMA NetworkMoves == IInv /\ IInv' /\ Network => LifeStep
<1>. SUFFICES ASSUME IInv, IInv', Network PROVE LifeStep
  OBVIOUS
<1>1. TypeOK /\ TypeOK' /\ \A c \in Conns : conn[c] \in ConnRecs /\ RecOK(conn[c])
  BY DEF IInv, TypeOK
<1>2. CASE OnTick \/ OnSignal
  BY <1>2 DEF OnTick, OnSignal, LifeStep
<1>3. ASSUME NEW d \in Conns, Accept(d) PROVE LifeStep
  <2>. DEFINE s == [NewConn EXCEPT !.mem = "live", !.handle = "open",
                                   !.reading = ~Callable("connect")]
  <2>1. conn' = [conn EXCEPT ![d] = s] /\ conn[d].mem = "none"
    BY <1>3 DEF Accept
  <2>2. s.mem = "live" /\ s.handle = "open"
    BY AcceptedFields
  <2>. HIDE DEF s
  <2>3. Moved(d, s)
    BY <2>1, <2>2 DEF Moved, Moves, LifeRec
  <2>. QED
    BY <1>1, <2>3, MovesTo
<1>4. ASSUME NEW d \in Conns, AcceptFails(d) PROVE LifeStep
  <2>. DEFINE s == [UvClosed(NewConn, "NULL") EXCEPT !.mem = "freed"]
  <2>1. conn' = [conn EXCEPT ![d] = s] /\ conn[d].mem = "none"
    BY <1>4 DEF AcceptFails
  <2>2. s.mem = "freed"
    BY AcceptedFields
  <2>. HIDE DEF s
  <2>3. Moved(d, s)
    BY <2>1, <2>2 DEF Moved, Moves, LifeRec
  <2>. QED
    BY <1>1, <2>3, MovesTo
<1>5. ASSUME NEW d \in Conns, WriteDone(d) \/ ReadTcp(d) \/ ReadHttp(d) \/ ReadEof(d)
      PROVE  LifeStep
  <2>1. conn[d].mem = "live"
    BY <1>1, <1>5 DEF WriteDone, ReadTcp, ReadHttp, ReadEof, Readable, RecOK
  <2>2. CASE LaureConnClose(d)
    BY <1>1, <2>1, <2>2, CloseMoves, MovesTo
  <2>3. CASE conn' = conn
    BY <2>3 DEF LifeStep
  <2>4. CASE WriteDone(d) \/ ReadTcp(d) \/ conn' = [conn EXCEPT ![d].reading = FALSE]
    <3>1. PICK s : /\ conn' = [conn EXCEPT ![d] = s]
                   /\ s.mem = conn[d].mem /\ s.handle = conn[d].handle
                   /\ s.closeCb = conn[d].closeCb
      <4>1. CASE WriteDone(d) \/ conn' = [conn EXCEPT ![d].reading = FALSE]
        <5>. DEFINE p == [conn[d] EXCEPT !.pend = @ - 1]
                    q == [conn[d] EXCEPT !.reading = FALSE]
        <5>1. /\ p.mem = conn[d].mem /\ p.handle = conn[d].handle /\ p.closeCb = conn[d].closeCb
              /\ q.mem = conn[d].mem /\ q.handle = conn[d].handle /\ q.closeCb = conn[d].closeCb
          BY <1>1 DEF ConnRecs
        <5>2. conn' = [conn EXCEPT ![d] = p] \/ conn' = [conn EXCEPT ![d] = q]
          BY <4>1 DEF WriteDone
        <5>. HIDE DEF p, q
        <5>. QED
          BY <5>1, <5>2
      <4>2. CASE ReadTcp(d)
        <5>0. PICK kept \in {0, 1} :
                 LET r == [conn[d] EXCEPT !.rcvd = @ + kept, !.held = @ + kept]
                 IN  \/ conn' = [conn EXCEPT ![d] = [r EXCEPT !.dlvd = @ + r.held]]
                     \/ conn' = [conn EXCEPT ![d] = [r EXCEPT !.held = 0]]
                     \/ conn' = [conn EXCEPT ![d] = r]
          BY <4>2 DEF ReadTcp
        <5>. DEFINE r == [conn[d] EXCEPT !.rcvd = @ + kept, !.held = @ + kept]
                    p == [r EXCEPT !.dlvd = @ + r.held]
                    q == [r EXCEPT !.held = 0]
        <5>1. /\ r.mem = conn[d].mem /\ r.handle = conn[d].handle /\ r.closeCb = conn[d].closeCb
              /\ p.mem = conn[d].mem /\ p.handle = conn[d].handle /\ p.closeCb = conn[d].closeCb
              /\ q.mem = conn[d].mem /\ q.handle = conn[d].handle /\ q.closeCb = conn[d].closeCb
          BY <1>1 DEF ConnRecs
        <5>2. \/ conn' = [conn EXCEPT ![d] = p] \/ conn' = [conn EXCEPT ![d] = q]
              \/ conn' = [conn EXCEPT ![d] = r]
          BY <5>0
        <5>. HIDE DEF r, p, q
        <5>. QED
          BY <5>1, <5>2
      <4>. QED
        BY <2>4, <4>1, <4>2
    <3>. QED
      BY <1>1, <2>1, <3>1, SameLife, MovesTo
  <2>. QED
    BY <1>5, <2>2, <2>3, <2>4 DEF ReadHttp, ReadEof
<1>. QED
  BY <1>2, <1>3, <1>4, <1>5 DEF Network

LEMMA LoopMoves == IInv /\ IInv' /\ (TakeClosing \/ Finish \/ ExitRun) => LifeStep
<1>. SUFFICES ASSUME IInv, IInv', TakeClosing \/ Finish \/ ExitRun PROVE LifeStep
  OBVIOUS
<1>1. TypeOK /\ TypeOK' /\ \A c \in Conns : conn[c] \in ConnRecs
  BY DEF IInv, TypeOK
<1>2. CASE TakeClosing \/ ExitRun \/ \E c \in Conns : FinishDangling(c)
  BY <1>2 DEF TakeClosing, ExitRun, FinishDangling, LifeStep
<1>3. ASSUME NEW d \in Conns, FinishWalked(d) \/ OnHandleClosed(d) PROVE LifeStep
  <2>. DEFINE p == FinishedRec(conn[d])
              q == [p EXCEPT !.mem = "freed"]
  <2>1. conn[d].mem = "live" /\ conn[d].handle = "closing"
    BY <1>3, FinishFacts DEF FinishWalked, OnHandleClosed
  <2>2. /\ p.mem = "live" /\ p.handle = "closed" /\ p.closeCb = conn[d].closeCb
        /\ q.mem = "freed"
    BY <1>1, <2>1 DEF FinishedRec, ConnRecs
  <2>3. \/ conn' = [conn EXCEPT ![d] = p]
        \/ conn' = [conn EXCEPT ![d] = q] /\ conn[d].closeCb = "on_handle_closed"
    BY <1>3 DEF FinishWalked, OnHandleClosed
  <2>. HIDE DEF p, q
  <2>4. Moved(d, p) \/ Moved(d, q)
    BY <2>1, <2>2, <2>3 DEF Moved, Moves, LifeRec
  <2>. QED
    BY <1>1, <2>4, MovesTo
<1>. QED
  BY <1>2, <1>3 DEF Finish

LEMMA ReturnMoves == IInv /\ IInv' /\ Return => LifeStep
<1>. SUFFICES ASSUME IInv, IInv', Return PROVE LifeStep
  OBVIOUS
<1>. DEFINE d == Top.c
<1>1. TypeOK /\ TypeOK' /\ Shape /\ \A c \in Conns : conn[c] \in ConnRecs
  BY DEF IInv, TypeOK
<1>2. CASE ResumeFreed \/ ReturnTick
  BY <1>2 DEF ResumeFreed, ReturnTick, LifeStep
<1>3. CASE ReturnConnect \/ ReturnReceive
  <2>. DEFINE p == [conn[d] EXCEPT !.reading = (conn[d].handle = "open")]
              q == [conn[d] EXCEPT !.held = 0]
  <2>1. d \in Conns /\ conn[d].mem = "live"
    BY <1>1, <1>3, TopOwner DEF ReturnConnect, ReturnReceive, Returns
  <2>2. /\ p.mem = conn[d].mem /\ p.handle = conn[d].handle /\ p.closeCb = conn[d].closeCb
        /\ q.mem = conn[d].mem /\ q.handle = conn[d].handle /\ q.closeCb = conn[d].closeCb
    BY <1>1, <2>1 DEF ConnRecs
  <2>3. conn' = [conn EXCEPT ![d] = p] \/ conn' = [conn EXCEPT ![d] = q]
    BY <1>3 DEF ReturnConnect, ReturnReceive
  <2>. HIDE DEF d, p, q
  <2>. QED
    BY <1>1, <2>1, <2>2, <2>3, SameLife, MovesTo
<1>4. CASE ReturnRequest
  <2>1. d \in Conns /\ conn[d].mem = "live" /\ (conn' = conn \/ LaureConnClose(d))
    BY <1>1, <1>4, TopOwner DEF ReturnRequest, Returns
  <2>. HIDE DEF d
  <2>. QED
    BY <1>1, <2>1, CloseMoves, MovesTo DEF LifeStep
<1>5. CASE ReturnClose
  <2>. DEFINE s == [conn[d] EXCEPT !.mem = "freed"]
  <2>1. /\ d \in Conns /\ NotifyingAt(d, Depth) /\ Depth \in {2, 4}
        /\ conn' = [conn EXCEPT ![d] = s]
    <3>1. /\ InCallback /\ Top.fn = "on_handle_closed"
          /\ conn' = [conn EXCEPT ![Top.c] = [conn[Top.c] EXCEPT !.mem = "freed"]]
      BY <1>5 DEF ReturnClose, Returns
    <3>2. Depth \in {2, 4} /\ Top.c \in Conns /\ Top = stack[Depth]
      BY <1>1, <3>1, TopOwner DEF Top
    <3>. QED
      BY <3>1, <3>2 DEF NotifyingAt
  <2>2. conn[d].mem = "live" /\ conn[d].handle = "closed" /\ conn[d].closeCb = "on_handle_closed"
    <3>. HIDE DEF d
    <3>. QED
      BY <2>1 DEF IInv, Served
  <2>3. s.mem = "freed"
    BY <1>1, <2>1 DEF ConnRecs
  <2>. HIDE DEF d, s
  <2>4. Moved(d, s)
    BY <2>1, <2>2, <2>3 DEF Moved, Moves, LifeRec
  <2>. QED
    BY <1>1, <2>1, <2>4, MovesTo
<1>. QED
  BY <1>2, <1>3, <1>4, <1>5 DEF Return

\* Every step moves one connection at most along its life, or stops them all.
LEMMA StepMoves == IInv /\ IInv' /\ [Next]_vars => LifeStep
  BY PhpMoves, NetworkMoves, LoopMoves, ReturnMoves DEF Next, Terminated, vars, LifeStep

-----------------------------------------------------------------------------
(* The invariant, with connections that are not accepted yet. *)

LEMMA StepUntouched == IInv /\ IInv' /\ Untouched /\ [Next]_vars => Untouched'
<1>. SUFFICES ASSUME IInv, IInv', Untouched, [Next]_vars, NEW c \in Conns,
                     conn'[c].mem = "none"
              PROVE  conn'[c] = NewConn
  BY DEF Untouched
<1>1. TypeOK /\ RecOK(conn[c])
  BY DEF IInv
<1>2. NewConn' = NewConn
  BY DEF NewConn
<1>3. CASE conn' = conn
  BY <1>3 DEF Untouched
<1>4. CASE WalkCloseAll
  <2>1. conn'[c].mem = conn[c].mem /\ (conn[c].handle # "open" => conn'[c] = conn[c])
    BY <1>1, <1>4, WalkEffect DEF IInv
  <2>2. conn[c].handle # "open"
    BY <1>1, <2>1 DEF RecOK
  <2>. QED
    BY <2>1, <2>2 DEF Untouched
<1>5. ASSUME NEW d \in Conns, NEW s \in ConnRecs, Moved(d, s)
      PROVE  conn'[c] = NewConn
  <2>1. conn'[c] = IF c = d THEN s ELSE conn[c]
    BY <1>1, <1>5, Elsewhere DEF Moved
  <2>. QED
    BY <1>5, <2>1 DEF Moved, Untouched
<1>. QED
  BY <1>3, <1>4, <1>5, StepMoves DEF LifeStep

\* The invariant of conn.c and server.c, and a connection laure_conn_accept has
\* not set up is as ecalloc would leave it (conn.c:174).
THEOREM LifeInvariant == Spec => []LifeInv
<1>1. Init => Untouched
  BY DEF Init, Untouched
<1>2. IInv /\ IInv' /\ Untouched /\ [Next]_vars => Untouched'
  BY StepUntouched
<1>. QED
  BY <1>1, <1>2, Invariant, PTL DEF Spec, LifeInv

-----------------------------------------------------------------------------
(* The chunks of a read. *)

LEMMA ReadTcpChunks ==
    ASSUME TypeOK, NEW d \in Conns, ReadTcp(d)
    PROVE  /\ \A c \in Conns \ {d} : SameChunks(c)
           /\ exc' = exc /\ (\A c \in Conns : <<c, "Response">> \in objs' => <<c, "Response">> \in objs)
           /\ \E kept \in {0, 1} :
                 /\ conn'[d].rcvd = conn[d].rcvd + kept
                 /\ \/ /\ stack' = Append(stack, Frame("dispatch_plain", d, 0))
                       /\ conn'[d].held = conn[d].held + kept
                       /\ conn'[d].dlvd = conn[d].dlvd + (conn[d].held + kept)
                    \/ /\ stack' = stack /\ exc = "pending"
                       /\ conn'[d].held = 0 /\ conn'[d].dlvd = conn[d].dlvd
                    \/ /\ stack' = stack
                       /\ conn'[d].held = conn[d].held + kept /\ conn'[d].dlvd = conn[d].dlvd
<1>0. PICK kept \in {0, 1} :
         LET r == [conn[d] EXCEPT !.rcvd = @ + kept, !.held = @ + kept]
         IN  \/ /\ stack' = Append(stack, Frame("dispatch_plain", d, 0))
                /\ conn' = [conn EXCEPT ![d] = [r EXCEPT !.dlvd = @ + r.held]]
             \/ /\ stack' = stack /\ exc = "pending"
                /\ conn' = [conn EXCEPT ![d] = [r EXCEPT !.held = 0]]
             \/ /\ stack' = stack
                /\ conn' = [conn EXCEPT ![d] = r]
  BY DEF ReadTcp, Callable
<1>. DEFINE r == [conn[d] EXCEPT !.rcvd = @ + kept, !.held = @ + kept]
            p == [r EXCEPT !.dlvd = @ + r.held]
            q == [r EXCEPT !.held = 0]
<1>1. conn[d] \in ConnRecs
  BY DEF TypeOK
<1>2. /\ r.rcvd = conn[d].rcvd + kept /\ r.held = conn[d].held + kept
      /\ r.dlvd = conn[d].dlvd
      /\ p.rcvd = r.rcvd /\ p.held = r.held /\ p.dlvd = r.dlvd + r.held
      /\ q.rcvd = r.rcvd /\ q.held = 0 /\ q.dlvd = r.dlvd
  BY <1>1 DEF ConnRecs
<1>3. \/ /\ stack' = Append(stack, Frame("dispatch_plain", d, 0))
         /\ conn' = [conn EXCEPT ![d] = p]
      \/ /\ stack' = stack /\ exc = "pending"
         /\ conn' = [conn EXCEPT ![d] = q]
      \/ /\ stack' = stack
         /\ conn' = [conn EXCEPT ![d] = r]
  BY <1>0
<1>4. exc' = exc /\ (objs' = objs \/ objs' = objs \cup {<<d, "Connection">>})
  BY DEF ReadTcp
<1>. HIDE DEF r, p, q
<1>5. \A c \in Conns \ {d} : conn'[c] = conn[c]
  BY <1>3, Elsewhere
<1>6. /\ conn' = [conn EXCEPT ![d] = p] => conn'[d] = p
      /\ conn' = [conn EXCEPT ![d] = q] => conn'[d] = q
      /\ conn' = [conn EXCEPT ![d] = r] => conn'[d] = r
  BY DEF TypeOK
<1>. QED
  BY <1>2, <1>3, <1>4, <1>5, <1>6 DEF SameChunks

\* A step that is not a read counts nothing.
LEMMA SameDelivered ==
    ASSUME IInv, IInv', Untouched, [Next]_vars, ~\E d \in Conns : ReadTcp(d)
    PROVE  \A c \in Conns : conn'[c].dlvd = conn[c].dlvd
<1>1. TypeOK /\ Shape
  BY DEF IInv
<1>2. CASE Script \/ Php \/ TakeClosing \/ Finish \/ ExitRun
  BY <1>2, ScriptAside, PhpAside, LoopAside DEF Aside, SameChunks
<1>3. CASE Network
  <2>1. ASSUME NEW d \in Conns, ReadHttp(d) PROVE \A c \in Conns : SameChunks(c)
    BY <1>1, <2>1, CloseKeepsChunks, SameConnKeepsChunks DEF ReadHttp
  <2>. QED
    BY <1>3, <2>1, NetworkAside DEF Aside, SameChunks
<1>4. CASE ResumeFreed \/ ReturnConnect \/ ReturnTick \/ ReturnClose
  BY <1>4, ReturnAside DEF Aside, SameChunks
<1>5. CASE ReturnReceive \/ ReturnRequest
  <2>. DEFINE d == Top.c
              s == [conn[d] EXCEPT !.held = 0]
  <2>1. d \in Conns /\ conn[d] \in ConnRecs
    BY <1>1, <1>5, TopOwner DEF ReturnReceive, ReturnRequest, Returns, TypeOK
  <2>2. s.dlvd = conn[d].dlvd
    BY <2>1 DEF ConnRecs
  <2>3. conn' = conn \/ LaureConnClose(d) \/ conn' = [conn EXCEPT ![d] = s]
    BY <1>5 DEF ReturnReceive, ReturnRequest
  <2>. HIDE DEF d, s
  <2>. QED
    BY <1>1, <2>1, <2>2, <2>3, CloseKeepsChunks, Elsewhere DEF SameChunks
<1>6. CASE UNCHANGED vars
  BY <1>6 DEF vars
<1>. QED
  BY <1>2, <1>3, <1>4, <1>5, <1>6 DEF Next, Return, Terminated

LEMMA ChunksKept ==
    ASSUME TypeOK, TypeOK', Shape, Shape', ChunksOnce, NEW c \in Conns, SameChunks(c),
           Serves("dispatch_plain", c)' <=> Serves("dispatch_plain", c),
           exc' = "none" => exc = "none"
    PROVE  /\ conn'[c].dlvd + (IF Receiving(c)' THEN 0 ELSE conn'[c].held) <= conn'[c].rcvd
           /\ Receiving(c)' => conn'[c].held <= conn'[c].dlvd
           /\ exc' = "none" =>
                 conn'[c].dlvd + (IF Receiving(c)' THEN 0 ELSE conn'[c].held) = conn'[c].rcvd
<1>1. Receiving(c) <=> Serves("dispatch_plain", c)
  BY ReceivingIs
<1>2. Receiving(c)' <=> Serves("dispatch_plain", c)'
  BY ReceivingNext
<1>. QED
  BY <1>1, <1>2 DEF ChunksOnce, SameChunks

LEMMA AsideChunks ==
    ASSUME IInv, IInv', ChunksOnce, Aside PROVE ChunksOnce'
<1>1. TypeOK /\ TypeOK' /\ Shape /\ Shape'
  BY DEF IInv
<1>2. \A c \in Conns : Serves("dispatch_plain", c)' <=> Serves("dispatch_plain", c)
  BY DEF Aside, SameServing, ReadFns
<1>. QED
  BY <1>1, <1>2, ChunksKept DEF Aside, ChunksOnce

LEMMA ReadTcpOnce ==
    ASSUME IInv, IInv', ChunksOnce, NEW d \in Conns, ReadTcp(d) PROVE ChunksOnce'
<1>1. TypeOK /\ TypeOK' /\ Shape /\ Shape'
  BY DEF IInv
<1>2. Polling /\ conn[d].handle = "open"
  BY DEF ReadTcp, Readable
<1>3. Depth = 1
  BY <1>2, ServingDepth
<1>4. \A c \in Conns : ~Serves("dispatch_plain", c) /\ ~Receiving(c)
  BY <1>1, <1>3, ReceivingIs DEF Serves
<1>5. \A c \in Conns : Receiving(c)' <=>
         stack' = Append(stack, Frame("dispatch_plain", d, 0)) /\ c = d
  <2>1. CASE stack' = Append(stack, Frame("dispatch_plain", d, 0))
    <3>1. \A c \in Conns : Serves("dispatch_plain", c)' <=> c = d
      BY <1>1, <1>2, <2>1, CallServes DEF FnNames, ConnFns, ReadFns
    <3>. QED
      BY <1>1, <2>1, <3>1, ReceivingNext
  <2>2. CASE stack' = stack
    <3>1. stack' # Append(stack, Frame("dispatch_plain", d, 0))
      <4>1. Len(Append(stack, Frame("dispatch_plain", d, 0))) = Len(stack) + 1 /\ Len(stack) \in Nat
        BY <1>1, FrameTypes, Push DEF TypeOK, FnNames, ConnFns
      <4>. QED
        BY <2>2, <4>1
    <3>2. \A c \in Conns : ~Receiving(c)'
      BY <1>4, <2>2 DEF Receiving, Depth
    <3>. QED
      BY <3>1, <3>2
  <2>. QED
    BY <1>1, <2>1, <2>2, ReadTcpChunks
<1>. SUFFICES ASSUME NEW c \in Conns
              PROVE  /\ conn'[c].dlvd + (IF Receiving(c)' THEN 0 ELSE conn'[c].held) <= conn'[c].rcvd
                     /\ Receiving(c)' => conn'[c].held <= conn'[c].dlvd
                     /\ exc' = "none" =>
                          conn'[c].dlvd + (IF Receiving(c)' THEN 0 ELSE conn'[c].held) = conn'[c].rcvd
  BY DEF ChunksOnce
<1>6. CASE c # d
  <2>1. SameChunks(c) /\ exc' = exc
    BY <1>1, <1>6, ReadTcpChunks
  <2>2. ~Receiving(c)' /\ ~Receiving(c)
    BY <1>4, <1>5, <1>6
  <2>. QED
    BY <2>1, <2>2 DEF ChunksOnce, SameChunks
<1>7. CASE c = d
  <2>0. PICK kept \in {0, 1} :
           /\ conn'[d].rcvd = conn[d].rcvd + kept
           /\ \/ /\ stack' = Append(stack, Frame("dispatch_plain", d, 0))
                 /\ conn'[d].held = conn[d].held + kept
                 /\ conn'[d].dlvd = conn[d].dlvd + (conn[d].held + kept)
              \/ /\ stack' = stack /\ exc = "pending"
                 /\ conn'[d].held = 0 /\ conn'[d].dlvd = conn[d].dlvd
              \/ /\ stack' = stack
                 /\ conn'[d].held = conn[d].held + kept /\ conn'[d].dlvd = conn[d].dlvd
    BY <1>1, ReadTcpChunks
  <2>1. /\ conn[d].rcvd \in Nat /\ conn[d].held \in Nat /\ conn[d].dlvd \in Nat
    BY <1>1, FieldTypes DEF TypeOK
  <2>2. /\ conn[d].dlvd + conn[d].held <= conn[d].rcvd
        /\ exc = "none" => conn[d].dlvd + conn[d].held = conn[d].rcvd
    BY <1>4 DEF ChunksOnce
  <2>3. conn'[d].rcvd = conn[d].rcvd + kept /\ exc' = exc
    BY <1>1, <2>0, ReadTcpChunks
  <2>4. CASE /\ stack' = Append(stack, Frame("dispatch_plain", d, 0))
             /\ conn'[d].held = conn[d].held + kept
             /\ conn'[d].dlvd = conn[d].dlvd + (conn[d].held + kept)
    <3>1. Receiving(c)'
      BY <1>5, <1>7, <2>4
    <3>2. conn'[d].dlvd + 0 <= conn'[d].rcvd /\ conn'[d].held <= conn'[d].dlvd
      BY <2>1, <2>2, <2>3, <2>4
    <3>3. exc' = "none" => conn'[d].dlvd + 0 = conn'[d].rcvd
      BY <2>1, <2>2, <2>3, <2>4
    <3>. QED
      BY <1>7, <3>1, <3>2, <3>3
  <2>5. CASE /\ stack' = stack /\ exc = "pending"
             /\ conn'[d].held = 0 /\ conn'[d].dlvd = conn[d].dlvd
    <3>1. ~Receiving(c)'
      BY <1>4, <2>5 DEF Receiving, Depth
    <3>. QED
      BY <1>7, <2>1, <2>2, <2>3, <2>5, <3>1
  <2>6. CASE /\ stack' = stack
             /\ conn'[d].held = conn[d].held + kept /\ conn'[d].dlvd = conn[d].dlvd
    <3>1. ~Receiving(c)'
      BY <1>4, <2>6 DEF Receiving, Depth
    <3>. QED
      BY <1>7, <2>1, <2>2, <2>3, <2>6, <3>1
  <2>. QED
    BY <2>0, <2>4, <2>5, <2>6
<1>. QED
  BY <1>6, <1>7

\* dispatch_plain's frame is left, and the buffer with it.
LEMMA ReturnReceiveOnce ==
    ASSUME IInv, IInv', ChunksOnce, ReturnReceive PROVE ChunksOnce'
<1>. DEFINE d == Top.c
<1>1. TypeOK /\ TypeOK' /\ Shape /\ Shape'
  BY DEF IInv
<1>2. /\ InCallback /\ Top.fn = "dispatch_plain" /\ stack' = Pop /\ stack # <<>>
      /\ conn' = [conn EXCEPT ![Top.c] = [conn[Top.c] EXCEPT !.held = 0]]
      /\ exc' = "none" => exc = "none"
  BY DEF ReturnReceive, Returns, InCallback
<1>3. Depth \in {2, 4} /\ d \in Conns /\ Top = stack[Depth]
  BY <1>1, <1>2, TopOwner DEF Top
<1>4. Depth = 2
  BY <1>1, <1>2, <1>3 DEF Shape
<1>5. Depth' = 1
  BY <1>1, <1>2, <1>4, PopAt
<1>6. \A c \in Conns : (Receiving(c) <=> c = d) /\ ~Receiving(c)'
  BY <1>1, <1>2, <1>3, <1>4, <1>5, ReceivingIs, ReceivingNext DEF Serves
<1>7. /\ \A c \in Conns \ {d} : conn'[c] = conn[c]
      /\ conn'[d].rcvd = conn[d].rcvd /\ conn'[d].held = 0 /\ conn'[d].dlvd = conn[d].dlvd
  <2>. DEFINE s == [conn[d] EXCEPT !.held = 0]
  <2>1. conn[d] \in ConnRecs
    BY <1>1, <1>3 DEF TypeOK
  <2>2. s.rcvd = conn[d].rcvd /\ s.held = 0 /\ s.dlvd = conn[d].dlvd
    BY <2>1 DEF ConnRecs
  <2>3. conn' = [conn EXCEPT ![d] = s]
    BY <1>2
  <2>. HIDE DEF d, s
  <2>4. conn'[d] = s /\ \A c \in Conns \ {d} : conn'[c] = conn[c]
    BY <1>1, <1>3, <2>3 DEF TypeOK
  <2>. QED
    BY <2>2, <2>4
<1>8. \A c \in Conns : conn[c].rcvd \in Nat /\ conn[c].held \in Nat /\ conn[c].dlvd \in Nat
  BY <1>1, FieldTypes DEF TypeOK
<1>. HIDE DEF d
<1>. SUFFICES ASSUME NEW c \in Conns
              PROVE  /\ conn'[c].dlvd + conn'[c].held <= conn'[c].rcvd
                     /\ exc' = "none" => conn'[c].dlvd + conn'[c].held = conn'[c].rcvd
  BY <1>6 DEF ChunksOnce
<1>9. CASE c # d
  BY <1>2, <1>6, <1>7, <1>9 DEF ChunksOnce
<1>10. CASE c = d
  <2>1. conn[d].dlvd + 0 <= conn[d].rcvd /\ (exc = "none" => conn[d].dlvd + 0 = conn[d].rcvd)
    BY <1>3, <1>6 DEF ChunksOnce
  <2>. QED
    BY <1>2, <1>3, <1>7, <1>8, <1>10, <2>1
<1>. QED
  BY <1>9, <1>10

\* llhttp_execute's frame: no chunk of a TCP read is touched.
LEMMA HttpOnce ==
    ASSUME IInv, IInv', ChunksOnce, ReturnRequest \/ \E d \in Conns : ReadHttp(d)
    PROVE  ChunksOnce'
<1>1. TypeOK /\ TypeOK' /\ Shape /\ Shape'
  BY DEF IInv
<1>2. exc' = "none" => exc = "none"
  BY DEF ReturnRequest, Returns, ReadHttp
<1>3. \A c \in Conns : SameChunks(c)
  <2>1. ASSUME NEW d \in Conns, LaureConnClose(d) PROVE \A c \in Conns : SameChunks(c)
    BY <1>1, <2>1, CloseKeepsChunks
  <2>2. ReturnRequest => Top.c \in Conns
    BY <1>1, TopOwner DEF ReturnRequest, Returns
  <2>. QED
    BY <2>1, <2>2, SameConnKeepsChunks DEF ReturnRequest, ReadHttp
<1>4. \A c \in Conns : Serves("dispatch_plain", c)' <=> Serves("dispatch_plain", c)
  <2>1. ASSUME NEW d \in Conns, ReadHttp(d)
        PROVE  \A c \in Conns : Serves("dispatch_plain", c)' <=> Serves("dispatch_plain", c)
    <3>1. CASE stack' = stack
      BY <3>1, SameStackServes DEF SameServing, ReadFns
    <3>2. ASSUME NEW n \in Nat, stack' = Append(stack, Frame("llhttp_execute", d, n))
          PROVE  \A c \in Conns : Serves("dispatch_plain", c)' <=> Serves("dispatch_plain", c)
      <4>1. Polling /\ conn[d].handle = "open"
        BY <2>1 DEF ReadHttp, Readable
      <4>. QED
        BY <1>1, <3>2, <4>1, CallServes DEF FnNames, ConnFns, ReadFns
    <3>3. ASSUME NEW n \in 0..MaxPipeline, n > 0 PROVE n - 1 \in Nat
      BY <3>3
    <3>. QED
      BY <2>1, <3>1, <3>2, <3>3 DEF ReadHttp
  <2>2. CASE ReturnRequest
    <3>1. /\ InCallback /\ Top.fn = "llhttp_execute" /\ stack # <<>>
          /\ \/ stack' = [stack EXCEPT ![Depth].n = @ - 1]
             \/ stack' = Pop
      BY <2>2 DEF ReturnRequest, Returns, InCallback
    <3>2. Depth \in {2, 4} /\ Top = stack[Depth]
      BY <1>1, <3>1, TopOwner DEF Top
    <3>3. Depth = 2 /\ stack[2].fn = "llhttp_execute"
      BY <1>1, <3>1, <3>2 DEF Shape
    <3>4. CASE stack' = Pop
      <4>1. Depth' = 1
        BY <1>1, <3>1, <3>3, <3>4, PopAt
      <4>. QED
        BY <3>3, <4>1 DEF Serves
    <3>5. CASE stack' = [stack EXCEPT ![Depth].n = @ - 1]
      <4>1. stack \in Seq(Frames) /\ stack[2] \in Frames /\ 2 \in 1..Len(stack)
        BY <1>1, <3>3 DEF TypeOK, Depth
      <4>2. Depth' = Depth /\ stack'[2] = [stack[2] EXCEPT !.n = @ - 1]
        BY <3>3, <3>5, <4>1 DEF Depth
      <4>3. stack'[2].fn = stack[2].fn
        BY <4>1, <4>2 DEF Frames
      <4>. QED
        BY <3>3, <4>3 DEF Serves
    <3>. QED
      BY <3>1, <3>4, <3>5
  <2>. QED
    BY <2>1, <2>2
<1>. QED
  BY <1>1, <1>2, <1>3, <1>4, ChunksKept DEF ChunksOnce

LEMMA StepChunks ==
    ASSUME LifeInv, LifeInv', ChunksOnce, [Next]_vars PROVE ChunksOnce'
<1>1. IInv /\ IInv' /\ Untouched
  BY DEF LifeInv
<1>2. CASE Script \/ Php \/ TakeClosing \/ Finish \/ ExitRun
  BY <1>1, <1>2, ScriptAside, PhpAside, LoopAside, AsideChunks
<1>3. CASE Network
  <2>1. ASSUME NEW d \in Conns, ReadTcp(d) PROVE ChunksOnce'
    BY <1>1, <2>1, ReadTcpOnce
  <2>2. ASSUME NEW d \in Conns, ReadHttp(d) PROVE ChunksOnce'
    BY <1>1, <2>2, HttpOnce
  <2>3. CASE ~\E d \in Conns : ReadTcp(d) \/ ReadHttp(d)
    BY <1>1, <1>3, <2>3, NetworkAside, AsideChunks
  <2>. QED
    BY <2>1, <2>2, <2>3
<1>4. CASE Return
  BY <1>1, <1>4, ReturnAside, AsideChunks, ReturnReceiveOnce, HttpOnce DEF Return
<1>5. CASE UNCHANGED vars
  BY <1>5 DEF vars, ChunksOnce, Receiving, Depth
<1>. QED
  BY <1>2, <1>3, <1>4, <1>5 DEF Next, Terminated

\* dispatch_plain hands each chunk of a TCP connection that rbuf had memory for
\* (conn.c:104) to the receive callback once and in order, whatever the callback
\* registers, closes or stops; only an exception nobody caught loses one.
THEOREM EachChunkOnce == Spec => []ChunksOnce
<1>1. Init => ChunksOnce
  <2>. SUFFICES ASSUME Init PROVE ChunksOnce
    OBVIOUS
  <2>1. Depth = 0
    BY DEF Init, Depth
  <2>2. \A c \in Conns : ~Receiving(c)
    BY <2>1 DEF Receiving
  <2>3. \A c \in Conns : conn[c].dlvd = 0 /\ conn[c].held = 0 /\ conn[c].rcvd = 0
    BY DEF Init, NewConn
  <2>4. 0 + 0 = 0 /\ 0 <= 0
    OBVIOUS
  <2>. QED
    BY <2>2, <2>3, <2>4 DEF ChunksOnce
<1>2. LifeInv /\ LifeInv' /\ ChunksOnce /\ [Next]_vars => ChunksOnce'
  BY StepChunks
<1>. QED
  BY <1>1, <1>2, LifeInvariant, PTL DEF Spec

-----------------------------------------------------------------------------
(* The one read of an HTTP connection. *)

Answering(c) == conn[c].state = "CLOSE" \/ Serves("llhttp_execute", c)

LEMMA StaysClosed ==
    ASSUME IInv, [Next]_vars, NEW c \in Conns, conn[c].state = "CLOSE"
    PROVE  conn'[c].state = "CLOSE"
<1>1. TypeOK
  BY DEF IInv
<1>2. CASE UNCHANGED vars
  BY <1>2 DEF vars
<1>. QED
  BY <1>1, <1>2, FinalScript, FinalPhp, FinalNetwork, FinalLoop, FinalReturn
     DEF Next, Terminated, Settled

\* A frame of llhttp_execute is left with its connection closed, or stays.
LEMMA ReturnRequestAnswers ==
    ASSUME IInv, IInv', ReturnRequest, NEW c \in Conns, Serves("llhttp_execute", c)
    PROVE  Answering(c)'
<1>1. TypeOK /\ Shape
  BY DEF IInv
<1>2. /\ InCallback /\ Top.fn = "llhttp_execute" /\ stack # <<>>
      /\ \/ stack' = [stack EXCEPT ![Depth].n = @ - 1]
         \/ stack' = Pop /\ LaureConnClose(Top.c)
  BY DEF ReturnRequest, Returns, InCallback
<1>3. Depth \in {2, 4} /\ Top = stack[Depth]
  BY <1>1, <1>2, TopOwner DEF Top
<1>4. Depth = 2 /\ Top = stack[2] /\ Top.c = c
  BY <1>1, <1>2, <1>3 DEF Shape, Serves
<1>5. CASE LaureConnClose(Top.c)
  <2>1. conn[c] \in ConnRecs
    BY <1>1 DEF TypeOK
  <2>2. conn'[c] = ClosedRec(conn[c])
    BY <1>1, <1>4, <1>5, CloseEffect
  <2>. QED
    BY <2>1, <2>2, ClosedFields DEF Answering
<1>6. CASE stack' = [stack EXCEPT ![Depth].n = @ - 1]
  <2>0. stack \in Seq(Frames) /\ Len(stack) = 2
    BY <1>1, <1>4 DEF TypeOK, Depth
  <2>1. stack[2] \in Frames /\ 2 \in 1..Len(stack) /\ stack \in Seq(Frames)
    <3>1. \A i \in 1..Len(stack) : stack[i] \in Frames
      BY <2>0
    <3>2. 2 \in 1..Len(stack)
      BY <2>0
    <3>. QED
      BY <2>0, <3>1, <3>2
  <2>2. Depth' = Depth /\ stack'[2] = [stack[2] EXCEPT !.n = @ - 1]
    BY <1>4, <1>6, <2>1 DEF Depth
  <2>3. stack'[2].fn = stack[2].fn /\ stack'[2].c = stack[2].c
    BY <2>1, <2>2 DEF Frames
  <2>. QED
    BY <1>4, <2>2, <2>3 DEF Serves, Answering
<1>. QED
  BY <1>2, <1>5, <1>6

LEMMA StepAnswers ==
    ASSUME LifeInv, LifeInv', \A c \in Conns : <<c, "Response">> \in objs => Answering(c),
           [Next]_vars, NEW c \in Conns, <<c, "Response">> \in objs'
    PROVE  Answering(c)'
<1>1. IInv /\ IInv' /\ Untouched /\ TypeOK /\ TypeOK' /\ Shape
  BY DEF LifeInv, IInv
<1>2. CASE conn[c].state = "CLOSE"
  BY <1>1, <1>2, StaysClosed DEF Answering
<1>3. ASSUME <<c, "Response">> \in objs, Serves("llhttp_execute", c)
      PROVE  Answering(c)'
  <2>1. CASE Aside
    BY <1>3, <2>1 DEF Aside, SameServing, ReadFns, Answering
  <2>2. ASSUME NEW d \in Conns, ReadTcp(d) \/ ReadHttp(d) PROVE FALSE
    <3>1. Polling /\ conn[d].handle = "open"
      BY <2>2 DEF ReadTcp, ReadHttp, Readable
    <3>2. Depth = 1
      BY <1>1, <3>1, ServingDepth
    <3>. QED
      BY <1>3, <3>2 DEF Serves
  <2>3. CASE ReturnReceive
    <3>1. InCallback /\ Top.fn = "dispatch_plain"
      BY <2>3 DEF ReturnReceive, Returns
    <3>2. Depth \in {2, 4} /\ Top = stack[Depth]
      BY <1>1, <3>1, TopOwner DEF Top
    <3>. QED
      BY <1>1, <1>3, <3>1, <3>2 DEF Shape, Serves
  <2>4. CASE UNCHANGED vars
    BY <1>3, <2>4, SameStackServes DEF vars, Answering, Serves, Depth
  <2>. QED
    BY <1>1, <1>3, <2>1, <2>2, <2>3, <2>4, ScriptAside, PhpAside, NetworkAside, LoopAside,
       ReturnAside, ReturnRequestAnswers DEF Next, Return, Terminated
<1>4. ASSUME <<c, "Response">> \notin objs
      PROVE  Answering(c)'
  <2>1. ~Aside
    BY <1>4 DEF Aside
  <2>2. ~UNCHANGED vars /\ ~ReturnReceive /\ ~ReturnRequest
    BY <1>4 DEF vars, ReturnReceive, ReturnRequest
  <2>3. ~\E d \in Conns : ReadTcp(d)
    BY <1>1, <1>4, ReadTcpChunks
  <2>4. \E d \in Conns : ReadHttp(d)
    BY <1>1, <2>1, <2>2, <2>3, ScriptAside, PhpAside, NetworkAside, LoopAside, ReturnAside
       DEF Next, Return, Terminated
  <2>5. PICK d \in Conns : ReadHttp(d)
    BY <2>4
  <2>6. PICK n \in 0..MaxPipeline :
           /\ n > 0 /\ stack' = Append(stack, Frame("llhttp_execute", d, n - 1))
           /\ objs' = objs \cup {<<d, "Response">>}
    BY <1>4, <2>5 DEF ReadHttp
  <2>7. c = d /\ n - 1 \in Nat
    BY <1>4, <2>6
  <2>8. Polling /\ conn[d].handle = "open"
    BY <2>5 DEF ReadHttp, Readable
  <2>9. Serves("llhttp_execute", c)'
    BY <1>1, <2>6, <2>7, <2>8, CallServes DEF FnNames, ConnFns, ReadFns
  <2>. QED
    BY <2>9 DEF Answering
<1>. QED
  BY <1>2, <1>3, <1>4 DEF Answering

\* dispatch_plain closes an HTTP connection after the requests of one read
\* (conn.c:118-130), whatever the client and the script say of keep-alive.
THEOREM OneRead == Spec => []OneReadPerHttp
<1>. DEFINE J == \A c \in Conns : <<c, "Response">> \in objs => Answering(c)
<1>1. Init => J
  BY DEF Init
<1>2. LifeInv /\ LifeInv' /\ J /\ [Next]_vars => J'
  BY StepAnswers
<1>3. IInv /\ J => OneReadPerHttp
  <2>. SUFFICES ASSUME IInv, J, NEW c \in Conns, <<c, "Response">> \in objs,
                       Serves("llhttp_execute", c)
                PROVE  \E i \in 1..Depth : stack[i].fn = "llhttp_execute" /\ stack[i].c = c
    BY DEF OneReadPerHttp, Answering
  <2>. QED
    BY ServesIs DEF IInv, ReadFns
<1>4. LifeInv => IInv
  BY DEF LifeInv
<1>. HIDE DEF J
<1>. QED
  BY <1>1, <1>2, <1>3, <1>4, LifeInvariant, PTL DEF Spec

-----------------------------------------------------------------------------
(* The code keeps the promise of ConnLife. *)

LifeNow == [c \in Conns |-> LifeOf(c)]
GotNow  == [c \in Conns |-> conn[c].dlvd]

LEMMA LifeNowIs ==
    ASSUME IInv
    PROVE  LifeNow = [c \in Conns |-> LifeRec(conn[c])]
  BY LifeIsRec DEF LifeNow

LEMMA LifeIsRecNext ==
    ASSUME NEW c \in Conns
    PROVE  (IInv => LifeOf(c) = LifeRec(conn[c]))'
<1>1. IInv => LifeOf(c) = LifeRec(conn[c])
  BY LifeIsRec
<1>. QED
  BY <1>1, PTL

\* What a step that takes one connection along means for ConnLife.
LEMMA MovedLife ==
    ASSUME IInv, IInv', NEW d \in Conns, NEW s, Moved(d, s)
    PROVE  /\ LifeNow[d] = LifeRec(conn[d])
           /\ LifeNow' = [LifeNow EXCEPT ![d] = LifeRec(s)]
<1>1. \A c \in Conns : /\ LifeOf(c) = LifeRec(conn[c])
                       /\ LifeOf(c)' = LifeRec(conn'[c])
  BY LifeIsRec, LifeIsRecNext DEF LifeRec
<1>2. \A c \in Conns : conn'[c] = IF c = d THEN s ELSE conn[c]
  BY Elsewhere DEF Moved, IInv
<1>. QED
  BY <1>1, <1>2 DEF LifeNow

LEMMA MovedRefines ==
    ASSUME IInv, IInv', NEW d \in Conns, NEW s, Moved(d, s), GotNow' = GotNow
    PROVE  [Life!Next]_(Life!vars)
<1>1. LifeNow[d] = LifeRec(conn[d]) /\ LifeNow' = [LifeNow EXCEPT ![d] = LifeRec(s)]
  BY MovedLife
<1>2. \A from, to : LifeRec(conn[d]) = from /\ LifeRec(s) = to => Life!Become(d, from, to)
  BY <1>1 DEF Life!Become, LifeNow, GotNow
<1>3. CASE LifeRec(s) = LifeRec(conn[d])
  <2>1. LifeNow' = LifeNow
    BY <1>1, <1>3 DEF LifeNow
  <2>. QED
    BY <2>1 DEF Life!vars, LifeNow, GotNow
<1>4. CASE <<LifeRec(conn[d]), LifeRec(s)>> \in Moves
  <2>1. \/ Life!Become(d, "absent", "open") \/ Life!Become(d, "absent", "gone")
        \/ Life!Become(d, "open", "closing") \/ Life!Become(d, "closing", "notifying")
        \/ Life!Become(d, "closing", "gone") \/ Life!Become(d, "notifying", "gone")
    BY <1>2, <1>4 DEF Moves
  <2>2. Life!Open(d) \/ Life!Refuse(d) \/ Life!Close(d) \/ Life!Notify(d) \/ Life!Vanish(d)
    BY <2>1 DEF Life!Open, Life!Refuse, Life!Close, Life!Notify, Life!Vanish
  <2>. QED
    BY <2>2 DEF Life!Next
<1>. QED
  BY <1>3, <1>4 DEF Moved

\* walk_close_all closes what is open and nothing else.
LEMMA WalkRefines ==
    ASSUME IInv, IInv', WalkCloseAll, GotNow' = GotNow
    PROVE  [Life!Next]_(Life!vars)
<1>1. \A c \in Conns : /\ LifeOf(c) = LifeRec(conn[c])
                       /\ LifeOf(c)' = LifeRec(conn'[c])
  BY LifeIsRec, LifeIsRecNext DEF LifeRec
<1>2. ASSUME NEW c \in Conns
      PROVE  LifeRec(conn'[c]) = IF LifeRec(conn[c]) = "open" THEN "abandoned"
                                 ELSE LifeRec(conn[c])
  <2>1. RecOK(conn[c])
    BY DEF IInv
  <2>2. CASE conn[c].handle = "open"
    <3>1. conn[c].mem = "live" /\ conn[c].closeCb = "NULL"
      BY <2>1, <2>2 DEF RecOK
    <3>2. conn'[c].mem = "live" /\ conn'[c].closeCb = "NULL" /\ conn'[c].handle = "closing"
      BY <2>2, <3>1, WalkEffect DEF IInv
    <3>. QED
      BY <2>2, <3>1, <3>2 DEF LifeRec
  <2>3. CASE conn[c].handle # "open"
    <3>1. conn'[c] = conn[c]
      BY <2>3, WalkEffect DEF IInv
    <3>. QED
      BY <2>3, <3>1 DEF LifeRec
  <2>. QED
    BY <2>2, <2>3
<1>3. LifeNow' = [c \in Conns |-> IF LifeNow[c] = "open" THEN "abandoned" ELSE LifeNow[c]]
  BY <1>1, <1>2 DEF LifeNow
<1>4. Life!Stop
  BY <1>3 DEF Life!Stop, LifeNow, GotNow
<1>. QED
  BY <1>4 DEF Life!Next

\* The receive callback is given chunks of an open connection, or the empty
\* rbuf of a read whose chunk found no memory, which delivers nothing.
LEMMA ReadRefines ==
    ASSUME IInv, IInv', NEW d \in Conns, ReadTcp(d)
    PROVE  [Life!Next]_(Life!vars)
<1>1. TypeOK /\ TypeOK' /\ RecOK(conn[d]) /\ conn[d].handle = "open" /\ conn[d].mem = "live"
  BY DEF IInv, ReadTcp, Readable, RecOK
<1>2. PICK s : conn' = [conn EXCEPT ![d] = s]
  BY DEF ReadTcp
<1>3. conn'[d] = s /\ \A c \in Conns \ {d} : conn'[c] = conn[c]
  BY <1>1, <1>2 DEF TypeOK
<1>4. conn[d].held \in Nat /\ conn[d].dlvd \in Nat
  BY <1>1, FieldTypes DEF TypeOK
<1>5. s.mem = "live" /\ s.handle = "open"
  <2>0. PICK kept \in {0, 1} :
           LET r == [conn[d] EXCEPT !.rcvd = @ + kept, !.held = @ + kept]
           IN  \/ conn' = [conn EXCEPT ![d] = [r EXCEPT !.dlvd = @ + r.held]]
               \/ conn' = [conn EXCEPT ![d] = [r EXCEPT !.held = 0]]
               \/ conn' = [conn EXCEPT ![d] = r]
    BY DEF ReadTcp
  <2>. DEFINE r == [conn[d] EXCEPT !.rcvd = @ + kept, !.held = @ + kept]
              p == [r EXCEPT !.dlvd = @ + r.held]
              q == [r EXCEPT !.held = 0]
  <2>1. conn[d] \in ConnRecs
    BY <1>1 DEF TypeOK
  <2>2. /\ r.mem = "live" /\ r.handle = "open"
        /\ p.mem = "live" /\ p.handle = "open"
        /\ q.mem = "live" /\ q.handle = "open"
    BY <1>1, <2>1 DEF ConnRecs
  <2>3. \/ conn' = [conn EXCEPT ![d] = p] \/ conn' = [conn EXCEPT ![d] = q]
        \/ conn' = [conn EXCEPT ![d] = r]
    BY <2>0
  <2>. HIDE DEF r, p, q
  <2>4. s \in {p, q, r}
    BY <1>1, <1>3, <2>3 DEF TypeOK
  <2>. QED
    BY <2>2, <2>4
<1>6. Moved(d, s) /\ LifeRec(conn[d]) = "open" /\ LifeRec(s) = "open"
  BY <1>1, <1>2, <1>5 DEF Moved, LifeRec
<1>7. LifeNow[d] = "open" /\ LifeNow' = LifeNow
  <2>1. LifeNow' = [LifeNow EXCEPT ![d] = "open"] /\ LifeNow[d] = "open"
    BY <1>6, MovedLife
  <2>. QED
    BY <2>1 DEF LifeNow
<1>8. CASE conn'[d].dlvd = conn[d].dlvd
  <2>1. GotNow' = GotNow
    BY <1>3, <1>8 DEF GotNow
  <2>. QED
    BY <1>6, <2>1, MovedRefines
<1>9. CASE conn'[d].dlvd > conn[d].dlvd
  <2>1. GotNow'[d] > GotNow[d]
    BY <1>4, <1>9 DEF GotNow
  <2>2. GotNow' = [GotNow EXCEPT ![d] = GotNow'[d]]
    BY <1>3 DEF GotNow
  <2>3. Life!Deliver(d)
    BY <1>7, <2>1, <2>2 DEF Life!Deliver, LifeNow, GotNow
  <2>. QED
    BY <2>3 DEF Life!Next
<1>10. PICK kept \in {0, 1} : \/ conn'[d].dlvd = conn[d].dlvd
                              \/ conn'[d].dlvd = conn[d].dlvd + (conn[d].held + kept)
  BY <1>1, ReadTcpChunks
<1>. QED
  BY <1>4, <1>8, <1>9, <1>10

\* A script sees each connection open, be given data, close, be told of it once
\* and go (conn.c:47-116, 173-221), as ConnLife says, whatever the frames
\* and nested loops below.
THEOREM Refinement == Spec => KeepsConnLife
<1>1. Init => Life!Init
  <2>. SUFFICES ASSUME Init PROVE Life!Init
    OBVIOUS
  <2>1. \A c \in Conns : conn[c].mem = "none" /\ conn[c].dlvd = 0
    BY DEF Init, NewConn
  <2>2. \A c \in Conns : LifeOf(c) = "absent"
    BY <2>1 DEF LifeOf
  <2>. QED
    BY <2>1, <2>2 DEF Life!Init
<1>2. LifeInv /\ LifeInv' /\ [Next]_vars => [Life!Next]_(Life!vars)
  <2>. SUFFICES ASSUME LifeInv, LifeInv', [Next]_vars PROVE [Life!Next]_(Life!vars)
    OBVIOUS
  <2>1. IInv /\ IInv' /\ Untouched
    BY DEF LifeInv
  <2>2. ASSUME NEW d \in Conns, ReadTcp(d) PROVE [Life!Next]_(Life!vars)
    BY <2>1, <2>2, ReadRefines
  <2>3. CASE ~\E d \in Conns : ReadTcp(d)
    <3>1. GotNow' = GotNow
      BY <2>1, <2>3, SameDelivered DEF GotNow
    <3>2. CASE conn' = conn
      <4>1. LifeNow' = LifeNow
        BY <2>1, <3>2, LifeIsRec, LifeIsRecNext DEF LifeNow, LifeRec
      <4>. QED
        BY <3>1, <4>1 DEF Life!vars, LifeNow, GotNow
    <3>. QED
      BY <2>1, <3>1, <3>2, StepMoves, WalkRefines, MovedRefines DEF LifeStep
  <2>. QED
    BY <2>2, <2>3
<1>. QED
  BY <1>1, <1>2, LifeInvariant, PTL DEF Spec, KeepsConnLife, Life!Spec

=============================================================================
