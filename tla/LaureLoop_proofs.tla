-------------------------- MODULE LaureLoop_proofs ---------------------------
(* Proofs about LaureLoop, for any set of connections and any bounds.       *)
EXTENDS LaureLoop, SequenceTheorems, TLAPS

USE NoConnAssumption, TypeAssumption, EventAssumption, BoundAssumption

-----------------------------------------------------------------------------
(* The stack of frames as a sequence. *)

\* A callback or a nested uv_run is pushed on top of what is there.
LEMMA Push ==
    ASSUME NEW s \in Seq(Frames), NEW f \in Frames
    PROVE  /\ Append(s, f) \in Seq(Frames)
           /\ Len(Append(s, f)) = Len(s) + 1
           /\ Append(s, f)[Len(s) + 1] = f
           /\ \A i \in 1..Len(s) : Append(s, f)[i] = s[i]
  OBVIOUS

\* Leaving the innermost frame keeps the others.
LEMMA Leave ==
    ASSUME NEW s \in Seq(Frames), s # <<>>
    PROVE  LET p == SubSeq(s, 1, Len(s) - 1) IN
           /\ p \in Seq(Frames)
           /\ Len(p) = Len(s) - 1
           /\ \A i \in 1..Len(p) : p[i] = s[i]
<1>. DEFINE n == Len(s) - 1
            p == SubSeq(s, 1, n)
<1>1. n \in Nat /\ \A i \in 1..n : s[i] \in Frames
  OBVIOUS
<1>. HIDE DEF n
<1>2. /\ p \in Seq(Frames)
      /\ Len(p) = IF 1 <= n THEN n - 1 + 1 ELSE 0
      /\ \A i \in 1..(n - 1 + 1) : p[i] = s[1 + i - 1]
  BY <1>1, SubSeqProperties
<1>. HIDE DEF p
<1>3. Len(p) = n
  BY <1>1, <1>2
<1>4. \A i \in 1..Len(p) : p[i] = s[i]
  <2>1. n - 1 + 1 = n /\ \A i \in 1..n : 1 + i - 1 = i
    BY <1>1
  <2>. QED
    BY <1>1, <1>2, <1>3, <2>1
<1>. QED
  BY <1>2, <1>3, <1>4 DEF p, n

\* Changing the innermost frame changes only that one.
LEMMA SetTop ==
    ASSUME NEW s \in Seq(Frames), s # <<>>, NEW f \in Frames
    PROVE  LET p == [s EXCEPT ![Len(s)] = f] IN
           /\ p \in Seq(Frames)
           /\ Len(p) = Len(s)
           /\ p[Len(s)] = f
           /\ \A i \in 1..(Len(s) - 1) : p[i] = s[i]
  OBVIOUS

\* The same for the depths that Shape allows, frame by frame.
LEMMA PushAt ==
    ASSUME NEW s \in Seq(Frames), NEW f \in Frames, NEW t, t = Append(s, f)
    PROVE  /\ Len(s) = 0 => Len(t) = 1 /\ t[1] = f
           /\ Len(s) = 1 => Len(t) = 2 /\ t[1] = s[1] /\ t[2] = f
           /\ Len(s) = 2 => Len(t) = 3 /\ t[1] = s[1] /\ t[2] = s[2] /\ t[3] = f
           /\ Len(s) = 3 => /\ Len(t) = 4 /\ t[1] = s[1] /\ t[2] = s[2] /\ t[3] = s[3]
                            /\ t[4] = f
           /\ Len(s) = 4 => /\ Len(t) = 5 /\ t[1] = s[1] /\ t[2] = s[2] /\ t[3] = s[3]
                            /\ t[4] = s[4] /\ t[5] = f
  OBVIOUS

LEMMA LeaveAt ==
    ASSUME NEW s \in Seq(Frames), s # <<>>, NEW t, t = SubSeq(s, 1, Len(s) - 1)
    PROVE  /\ Len(s) = 1 => Len(t) = 0 /\ t = <<>>
           /\ Len(s) = 2 => Len(t) = 1 /\ t[1] = s[1]
           /\ Len(s) = 3 => Len(t) = 2 /\ t[1] = s[1] /\ t[2] = s[2]
           /\ Len(s) = 4 => Len(t) = 3 /\ t[1] = s[1] /\ t[2] = s[2] /\ t[3] = s[3]
           /\ Len(s) = 5 => /\ Len(t) = 4 /\ t[1] = s[1] /\ t[2] = s[2] /\ t[3] = s[3]
                            /\ t[4] = s[4]
<1>1. t \in Seq(Frames) /\ Len(t) = Len(s) - 1 /\ \A i \in 1..Len(t) : t[i] = s[i]
  BY Leave
<1>2. CASE Len(s) = 1
  BY <1>1, <1>2
<1>3. CASE Len(s) = 2
  BY <1>1, <1>3
<1>4. CASE Len(s) = 3
  BY <1>1, <1>4
<1>5. CASE Len(s) = 4
  BY <1>1, <1>5
<1>6. CASE Len(s) = 5
  BY <1>1, <1>6
<1>7. CASE Len(s) \notin 1..5
  BY <1>1, <1>7
<1>. QED
  BY <1>2, <1>3, <1>4, <1>5, <1>6, <1>7

LEMMA SameBelowAt ==
    ASSUME NEW s \in Seq(Frames), NEW t, NEW f,
           Len(t) = Len(s), t[Len(s)] = f, \A i \in 1..(Len(s) - 1) : t[i] = s[i]
    PROVE  /\ Len(s) = 1 => t[1] = f
           /\ Len(s) = 2 => t[1] = s[1] /\ t[2] = f
           /\ Len(s) = 3 => t[1] = s[1] /\ t[2] = s[2] /\ t[3] = f
           /\ Len(s) = 4 => t[1] = s[1] /\ t[2] = s[2] /\ t[3] = s[3] /\ t[4] = f
           /\ Len(s) = 5 => /\ t[1] = s[1] /\ t[2] = s[2] /\ t[3] = s[3]
                            /\ t[4] = s[4] /\ t[5] = f
<1>2. CASE Len(s) = 1
  BY <1>2
<1>3. CASE Len(s) = 2
  BY <1>3
<1>4. CASE Len(s) = 3
  BY <1>4
<1>5. CASE Len(s) = 4
  BY <1>5
<1>6. CASE Len(s) = 5
  BY <1>6
<1>7. CASE Len(s) \notin 1..5
  BY <1>7
<1>. QED
  BY <1>2, <1>3, <1>4, <1>5, <1>6, <1>7

LEMMA SetTopAt ==
    ASSUME NEW s \in Seq(Frames), s # <<>>, NEW f \in Frames, NEW t,
           t = [s EXCEPT ![Len(s)] = f]
    PROVE  /\ Len(t) = Len(s)
           /\ Len(s) = 1 => t[1] = f
           /\ Len(s) = 2 => t[1] = s[1] /\ t[2] = f
           /\ Len(s) = 3 => t[1] = s[1] /\ t[2] = s[2] /\ t[3] = f
           /\ Len(s) = 4 => t[1] = s[1] /\ t[2] = s[2] /\ t[3] = s[3] /\ t[4] = f
           /\ Len(s) = 5 => /\ t[1] = s[1] /\ t[2] = s[2] /\ t[3] = s[3]
                            /\ t[4] = s[4] /\ t[5] = f
<1>1. /\ t \in Seq(Frames) /\ Len(t) = Len(s) /\ t[Len(s)] = f
      /\ \A i \in 1..(Len(s) - 1) : t[i] = s[i]
  BY SetTop
<1>. QED
  BY <1>1, SameBelowAt

LEMMA TopIsFrame ==
    ASSUME stack \in Seq(Frames), stack # <<>>
    PROVE  Depth \in Nat /\ Depth >= 1 /\ Top \in Frames
  BY DEF Depth, Top

-----------------------------------------------------------------------------
(* Types: what each helper returns. *)

LEMMA RecTypes ==
    /\ NewConn \in ConnRecs
    /\ \A r \in ConnRecs :
          /\ \A cb \in {"NULL", "on_handle_closed"} : UvClosed(r, cb) \in ConnRecs
          /\ ClosedRec(r) \in ConnRecs
          /\ SentRec(r) \in ConnRecs
          /\ FinishedRec(r) \in ConnRecs
<1>1. NewConn \in ConnRecs
  BY DEF NewConn, ConnRecs
<1>2. ASSUME NEW r \in ConnRecs
      PROVE  /\ \A cb \in {"NULL", "on_handle_closed"} : UvClosed(r, cb) \in ConnRecs
             /\ ClosedRec(r) \in ConnRecs
             /\ SentRec(r) \in ConnRecs
             /\ FinishedRec(r) \in ConnRecs
  <2>1. \A cb \in {"NULL", "on_handle_closed"} : UvClosed(r, cb) \in ConnRecs
    BY DEF ConnRecs, UvClosed
  <2>2. \A x \in ConnRecs : [x EXCEPT !.state = "CLOSE"] \in ConnRecs
    BY DEF ConnRecs
  <2>3. ClosedRec(r) \in ConnRecs
    BY <2>1, <2>2 DEF ClosedRec
  <2>4. [r EXCEPT !.pend = @ + 1] \in ConnRecs
    <3>1. r.pend \in Nat
      BY DEF ConnRecs
    <3>2. r.pend + 1 \in Nat
      BY <3>1
    <3>3. \A k \in Nat : [r EXCEPT !.pend = k] \in ConnRecs
      BY DEF ConnRecs
    <3>. QED
      BY <3>2, <3>3
  <2>5. SentRec(r) \in ConnRecs
    <3>1. [r EXCEPT !.orphan = TRUE] \in ConnRecs
      BY DEF ConnRecs
    <3>. QED
      BY <2>4, <3>1 DEF SentRec
  <2>6. FinishedRec(r) \in ConnRecs
    BY DEF ConnRecs, FinishedRec
  <2>. QED
    BY <2>1, <2>3, <2>5, <2>6
<1>. QED
  BY <1>1, <1>2

LEMMA FrameTypes ==
    ASSUME NEW fn \in FnNames, NEW c \in Conns \cup {NoConn}, NEW n \in Nat
    PROVE  Frame(fn, c, n) \in Frames
  BY DEF Frame, Frames

LEMMA RunFrameType == RunFrame \in Frames
  BY FrameTypes DEF RunFrame, FnNames

LEMMA CloseTypes ==
    ASSUME TypeOK, NEW c \in Conns, LaureConnClose(c)
    PROVE  conn' \in [Conns -> ConnRecs] /\ closing' \subseteq Conns
  BY RecTypes DEF TypeOK, LaureConnClose

LEMMA WalkTypes ==
    ASSUME TypeOK, WalkCloseAll
    PROVE  /\ conn' \in [Conns -> ConnRecs]
           /\ closing' \subseteq Conns
           /\ srvh' \in {"none", "open", "closing"}
           /\ fault' \in Faults
  BY RecTypes DEF TypeOK, WalkCloseAll, TouchHandles, Faults

\* A frame of a connection on top of the stack, and its return.
LEMMA CallTypes ==
    ASSUME TypeOK, NEW fn \in FnNames, NEW c \in Conns \cup {NoConn}, NEW n \in Nat
    PROVE  Append(stack, Frame(fn, c, n)) \in Seq(Frames)
  BY FrameTypes, Push DEF TypeOK

LEMMA PopTypes ==
    ASSUME TypeOK, stack # <<>>
    PROVE  Pop \in Seq(Frames)
  BY Leave DEF TypeOK, Pop, Depth

LEMMA DrainTypes ==
    ASSUME TypeOK, stack # <<>>
    PROVE  /\ \A c \in Conns : Drained(c) \in Seq(Frames)
           /\ \A q \in SUBSET Conns : [stack EXCEPT ![Depth].q = q] \in Seq(Frames)
           /\ Top.n > 0 => [stack EXCEPT ![Depth].n = @ - 1] \in Seq(Frames)
<1>1. stack \in Seq(Frames) /\ Top \in Frames
  BY TopIsFrame DEF TypeOK
<1>2. \A q \in SUBSET Conns : [stack[Len(stack)] EXCEPT !.q = q] \in Frames
  BY <1>1 DEF Top, Depth, Frames
<1>3. ASSUME NEW c \in Conns PROVE Drained(c) \in Seq(Frames)
  <2>1. [stack[Len(stack)] EXCEPT !.q = @ \ {c}] \in Frames
    BY <1>1 DEF Top, Depth, Frames
  <2>. QED
    BY <1>1, <2>1, SetTop DEF Drained, Depth
<1>4. ASSUME NEW q \in SUBSET Conns
      PROVE  [stack EXCEPT ![Depth].q = q] \in Seq(Frames)
  BY <1>1, <1>2, SetTop DEF Depth
<1>5. ASSUME Top.n > 0
      PROVE  [stack EXCEPT ![Depth].n = @ - 1] \in Seq(Frames)
  <2>1. [stack[Len(stack)] EXCEPT !.n = @ - 1] \in Frames
    BY <1>1, <1>5 DEF Top, Depth, Frames
  <2>. QED
    BY <1>1, <2>1, SetTop DEF Depth
<1>. QED
  BY <1>3, <1>4, <1>5

LEMMA TopTypes ==
    ASSUME TypeOK, stack # <<>>
    PROVE  /\ Top \in Frames
           /\ Top.q \subseteq Conns
           /\ Top.n \in Nat
           /\ Top.c \in Conns \cup {NoConn}
<1>1. Top \in Frames
  BY TopIsFrame DEF TypeOK
<1>. QED
  BY <1>1 DEF Frames

\* The fields that single handlers assign.
LEMMA FieldTypes ==
    ASSUME NEW r \in ConnRecs
    PROVE  /\ \A k \in Nat : /\ [r EXCEPT !.pend = k] \in ConnRecs
                             /\ [r EXCEPT !.rcvd = k] \in ConnRecs
                             /\ [r EXCEPT !.held = k] \in ConnRecs
                             /\ [r EXCEPT !.dlvd = k] \in ConnRecs
           /\ \A b \in BOOLEAN : [r EXCEPT !.reading = b] \in ConnRecs
           /\ \A m \in {"none", "live", "freed"} : [r EXCEPT !.mem = m] \in ConnRecs
           /\ r.pend \in Nat /\ r.rcvd \in Nat /\ r.held \in Nat /\ r.dlvd \in Nat
<1>1. \A k \in Nat : /\ [r EXCEPT !.pend = k] \in ConnRecs
                     /\ [r EXCEPT !.rcvd = k] \in ConnRecs
                     /\ [r EXCEPT !.held = k] \in ConnRecs
                     /\ [r EXCEPT !.dlvd = k] \in ConnRecs
  BY DEF ConnRecs
<1>2. \A b \in BOOLEAN : [r EXCEPT !.reading = b] \in ConnRecs
  BY DEF ConnRecs
<1>3. \A m \in {"none", "live", "freed"} : [r EXCEPT !.mem = m] \in ConnRecs
  BY DEF ConnRecs
<1>4. r.pend \in Nat /\ r.rcvd \in Nat /\ r.held \in Nat /\ r.dlvd \in Nat
  BY DEF ConnRecs
<1>. QED
  BY <1>1, <1>2, <1>3, <1>4

\* Assigning one connection's record.
LEMMA SetConnType ==
    ASSUME TypeOK, NEW c \in Conns, NEW r \in ConnRecs
    PROVE  [conn EXCEPT ![c] = r] \in [Conns -> ConnRecs]
  BY DEF TypeOK

-----------------------------------------------------------------------------
(* The type invariant. *)

LEMMA InitTypes == Init => TypeOK
  BY RecTypes DEF Init, TypeOK, Faults

LEMMA ScriptTypes == TypeOK /\ Script => TypeOK'
<1>. SUFFICES ASSUME TypeOK, Script PROVE TypeOK'
  OBVIOUS
<1>1. CASE Start
  <2>1. stack' \in Seq(Frames)
    BY <1>1, RunFrameType DEF Start
  <2>. QED
    BY <1>1, <2>1 DEF Start, TypeOK, phpVars
<1>2. CASE StartFails
  BY <1>2 DEF StartFails, TypeOK
<1>3. CASE LoopInitFails
  BY <1>3 DEF LoopInitFails, TypeOK
<1>4. CASE Destroy
  <2>1. fault' \in Faults
    BY <1>4 DEF Destroy, TypeOK, Faults
  <2>. QED
    BY <1>4, <2>1 DEF Destroy, TypeOK, phpVars
<1>. QED
  BY <1>1, <1>2, <1>3, <1>4 DEF Script

LEMMA PhpTypes == TypeOK /\ Php => TypeOK'
<1>. SUFFICES ASSUME TypeOK, Php PROVE TypeOK'
  OBVIOUS
<1>1. CASE PhpStop
  <2>1. CASE loop = "raw"
    BY <1>1, <2>1 DEF PhpStop, TypeOK, phpVars, Faults
  <2>2. CASE loop # "raw"
    <3>1. /\ conn' \in [Conns -> ConnRecs]
          /\ closing' \subseteq Conns
          /\ srvh' \in {"none", "open", "closing"}
          /\ fault' \in Faults
      BY <1>1, <2>2, WalkTypes DEF PhpStop
    <3>2. stack' \in Seq(Frames)
      BY <1>1, <2>2, RunFrameType, Push DEF PhpStop, TypeOK
    <3>3. undercut' \subseteq Conns
      BY <1>1, <2>2 DEF PhpStop, TypeOK, Endangered
    <3>. QED
      BY <1>1, <3>1, <3>2, <3>3 DEF PhpStop, TypeOK, phpVars
  <2>. QED
    BY <2>1, <2>2
<1>2. CASE PhpCatch
  BY <1>2 DEF PhpCatch, TypeOK, srvVars
<1>3. ASSUME NEW e \in Events, PhpOn(e) PROVE TypeOK'
  BY <1>3 DEF PhpOn, TypeOK, srvVars
<1>4. ASSUME NEW c \in Conns, PhpSend(c) PROVE TypeOK'
  <2>1. SentRec(conn[c]) \in ConnRecs
    BY RecTypes DEF TypeOK
  <2>2. conn' \in [Conns -> ConnRecs]
    BY <1>4, <2>1, SetConnType DEF PhpSend
  <2>. QED
    BY <1>4, <2>2 DEF PhpSend, TypeOK, srvVars, phpVars
<1>5. ASSUME NEW c \in Conns, PhpClose(c) PROVE TypeOK'
  BY <1>5, CloseTypes DEF PhpClose, TypeOK, srvVars, phpVars
<1>6. ASSUME NEW c \in Conns, PhpUseStale(c) PROVE TypeOK'
  BY <1>6 DEF PhpUseStale, TypeOK, srvVars, phpVars, Faults
<1>. QED
  BY <1>1, <1>2, <1>3, <1>4, <1>5, <1>6 DEF Php

LEMMA ReadTcpTypes ==
    ASSUME TypeOK, NEW c \in Conns, ReadTcp(c) PROVE TypeOK'
<1>0. PICK kept \in {0, 1} :
        LET r == [conn[c] EXCEPT !.rcvd = @ + kept, !.held = @ + kept]
        IN  \/ conn' = [conn EXCEPT ![c] = [r EXCEPT !.dlvd = @ + r.held]]
            \/ conn' = [conn EXCEPT ![c] = [r EXCEPT !.held = 0]]
            \/ conn' = [conn EXCEPT ![c] = r]
  BY DEF ReadTcp
<1>. DEFINE r == [conn[c] EXCEPT !.rcvd = @ + kept, !.held = @ + kept]
<1>1. conn[c] \in ConnRecs
  BY DEF TypeOK
<1>2. conn[c].rcvd + kept \in Nat /\ conn[c].held + kept \in Nat
  <2>1. conn[c].rcvd \in Nat /\ conn[c].held \in Nat
    BY <1>1, FieldTypes
  <2>. QED
    BY <2>1
<1>3. r \in ConnRecs
  <2>1. [conn[c] EXCEPT !.rcvd = conn[c].rcvd + kept] \in ConnRecs
    BY <1>1, <1>2, FieldTypes
  <2>2. r = [[conn[c] EXCEPT !.rcvd = conn[c].rcvd + kept] EXCEPT !.held = conn[c].held + kept]
    BY <1>1 DEF ConnRecs
  <2>. QED
    BY <1>2, <2>1, <2>2, FieldTypes
<1>4. [r EXCEPT !.held = 0] \in ConnRecs
  BY <1>3, FieldTypes
<1>5. [r EXCEPT !.dlvd = @ + r.held] \in ConnRecs
  <2>1. r.dlvd \in Nat /\ r.held \in Nat
    BY <1>3, FieldTypes
  <2>2. r.dlvd + r.held \in Nat
    BY <2>1
  <2>. QED
    BY <1>3, <2>2, FieldTypes
<1>. HIDE DEF r
<1>6. conn' \in [Conns -> ConnRecs]
  <2>1. \/ conn' = [conn EXCEPT ![c] = [r EXCEPT !.dlvd = @ + r.held]]
        \/ conn' = [conn EXCEPT ![c] = [r EXCEPT !.held = 0]]
        \/ conn' = [conn EXCEPT ![c] = r]
    BY <1>0 DEF r
  <2>. QED
    BY <1>3, <1>4, <1>5, <2>1, SetConnType
<1>7. stack' \in Seq(Frames)
  <2>1. Append(stack, Frame("dispatch_plain", c, 0)) \in Seq(Frames)
    BY CallTypes DEF FnNames, ConnFns
  <2>. QED
    BY <2>1 DEF ReadTcp, TypeOK
<1>8. objs' \subseteq Conns \X {"Connection", "Response"}
  BY DEF ReadTcp, TypeOK
<1>. QED
  BY <1>6, <1>7, <1>8 DEF ReadTcp, TypeOK, srvVars

LEMMA ReadHttpTypes ==
    ASSUME TypeOK, NEW c \in Conns, ReadHttp(c) PROVE TypeOK'
<1>1. PICK n \in 0..MaxPipeline :
         IF n > 0 /\ Callable("request")
         THEN /\ stack' = Append(stack, Frame("llhttp_execute", c, n - 1))
              /\ objs' = objs \cup {<<c, "Response">>}
              /\ UNCHANGED <<conn, closing>>
         ELSE /\ LaureConnClose(c)
              /\ UNCHANGED <<stack, objs>>
  BY DEF ReadHttp
<1>2. conn' \in [Conns -> ConnRecs] /\ closing' \subseteq Conns
  BY <1>1, CloseTypes DEF TypeOK
<1>3. stack' \in Seq(Frames)
  <2>1. CASE n > 0
    <3>1. n - 1 \in Nat
      BY <2>1
    <3>2. Append(stack, Frame("llhttp_execute", c, n - 1)) \in Seq(Frames)
      BY <3>1, CallTypes DEF FnNames, ConnFns
    <3>. QED
      BY <1>1, <3>2 DEF TypeOK
  <2>2. CASE ~(n > 0)
    BY <1>1, <2>2 DEF TypeOK
  <2>. QED
    BY <2>1, <2>2
<1>4. objs' \subseteq Conns \X {"Connection", "Response"}
  BY <1>1 DEF TypeOK
<1>. QED
  BY <1>2, <1>3, <1>4 DEF ReadHttp, TypeOK, srvVars

LEMMA NetworkTypes == TypeOK /\ Network => TypeOK'
<1>. SUFFICES ASSUME TypeOK, Network PROVE TypeOK'
  OBVIOUS
<1>1. CASE OnTick
  <2>1. stack' \in Seq(Frames)
    BY <1>1, CallTypes DEF OnTick, FnNames
  <2>. QED
    BY <1>1, <2>1 DEF OnTick, TypeOK, srvVars, phpVars
<1>2. CASE OnSignal
  BY <1>2, WalkTypes DEF OnSignal, TypeOK, phpVars
<1>3. ASSUME NEW c \in Conns, Accept(c) PROVE TypeOK'
  <2>1. [NewConn EXCEPT !.mem = "live", !.handle = "open",
                        !.reading = ~Callable("connect")] \in ConnRecs
    BY DEF NewConn, ConnRecs, Callable
  <2>2. conn' \in [Conns -> ConnRecs]
    BY <1>3, <2>1, SetConnType DEF Accept
  <2>3. stack' \in Seq(Frames)
    <3>1. Append(stack, Frame("laure_conn_accept", c, 0)) \in Seq(Frames)
      BY CallTypes DEF FnNames, ConnFns
    <3>. QED
      BY <1>3, <3>1 DEF Accept, TypeOK
  <2>4. fault' \in Faults
    BY <1>3 DEF Accept, TouchHandles, TypeOK, Faults
  <2>5. objs' \subseteq Conns \X {"Connection", "Response"}
    BY <1>3 DEF Accept, TypeOK
  <2>. QED
    BY <1>3, <2>2, <2>3, <2>4, <2>5 DEF Accept, TypeOK, srvVars
<1>4. ASSUME NEW c \in Conns, AcceptFails(c) PROVE TypeOK'
  <2>1. [UvClosed(NewConn, "NULL") EXCEPT !.mem = "freed"] \in ConnRecs
    BY RecTypes, FieldTypes
  <2>2. conn' \in [Conns -> ConnRecs]
    BY <1>4, <2>1, SetConnType DEF AcceptFails
  <2>3. fault' \in Faults
    BY <1>4 DEF AcceptFails, TouchHandles, TypeOK, Faults
  <2>. QED
    BY <1>4, <2>2, <2>3 DEF AcceptFails, TypeOK, srvVars, phpVars
<1>5. ASSUME NEW c \in Conns, WriteDone(c) PROVE TypeOK'
  <2>1. conn[c] \in ConnRecs
    BY DEF TypeOK
  <2>2. conn[c].pend - 1 \in Nat
    <3>1. conn[c].pend \in Nat
      BY <2>1, FieldTypes
    <3>2. conn[c].pend > 0
      BY <1>5 DEF WriteDone
    <3>. QED
      BY <3>1, <3>2
  <2>3. [conn[c] EXCEPT !.pend = conn[c].pend - 1] \in ConnRecs
    BY <2>1, <2>2, FieldTypes
  <2>4. conn' \in [Conns -> ConnRecs]
    BY <1>5, <2>3, SetConnType DEF WriteDone
  <2>. QED
    BY <1>5, <2>4 DEF WriteDone, TypeOK, srvVars, phpVars
<1>6. ASSUME NEW c \in Conns, ReadEof(c) PROVE TypeOK'
  <2>1. conn[c] \in ConnRecs
    BY DEF TypeOK
  <2>2. [conn[c] EXCEPT !.reading = FALSE] \in ConnRecs
    BY <2>1, FieldTypes
  <2>3. conn' \in [Conns -> ConnRecs] /\ closing' \subseteq Conns
    BY <1>6, <2>2, SetConnType, CloseTypes DEF ReadEof, TypeOK
  <2>. QED
    BY <1>6, <2>3 DEF ReadEof, TypeOK, srvVars, phpVars
<1>. QED
  BY <1>1, <1>2, <1>3, <1>4, <1>5, <1>6, ReadTcpTypes, ReadHttpTypes DEF Network

LEMMA LoopTypes == TypeOK /\ (TakeClosing \/ Finish \/ ExitRun) => TypeOK'
<1>. SUFFICES ASSUME TypeOK, TakeClosing \/ Finish \/ ExitRun PROVE TypeOK'
  OBVIOUS
<1>1. CASE TakeClosing
  <2>1. stack' \in Seq(Frames)
    <3>1. stack # <<>> /\ closing \in SUBSET Conns
      BY <1>1 DEF TakeClosing, Polling, Looping, TypeOK
    <3>. QED
      BY <1>1, <3>1, DrainTypes DEF TakeClosing
  <2>. QED
    BY <1>1, <2>1 DEF TakeClosing, TypeOK, phpVars
<1>2. ASSUME NEW c \in Conns, FinishDangling(c) PROVE TypeOK'
  BY <1>2 DEF FinishDangling, TypeOK, srvVars, phpVars, Faults
<1>3. ASSUME NEW c \in Conns, FinishWalked(c) PROVE TypeOK'
  <2>1. stack # <<>>
    BY <1>3 DEF FinishWalked, Looping
  <2>2. stack' \in Seq(Frames)
    BY <1>3, <2>1, DrainTypes DEF FinishWalked
  <2>3. FinishedRec(conn[c]) \in ConnRecs
    BY RecTypes DEF TypeOK
  <2>4. conn' \in [Conns -> ConnRecs]
    BY <1>3, <2>3, SetConnType DEF FinishWalked
  <2>. QED
    BY <1>3, <2>2, <2>4 DEF FinishWalked, TypeOK, srvVars, phpVars
<1>4. ASSUME NEW c \in Conns, OnHandleClosed(c) PROVE TypeOK'
  <2>1. stack # <<>>
    BY <1>4 DEF OnHandleClosed, Looping
  <2>2. Drained(c) \in Seq(Frames)
    BY <2>1, DrainTypes
  <2>3. Append(Drained(c), Frame("on_handle_closed", c, 0)) \in Seq(Frames)
    BY <2>2, FrameTypes, Push DEF FnNames
  <2>4. stack' \in Seq(Frames)
    BY <1>4, <2>2, <2>3 DEF OnHandleClosed
  <2>5. FinishedRec(conn[c]) \in ConnRecs
    BY RecTypes DEF TypeOK
  <2>6. [FinishedRec(conn[c]) EXCEPT !.mem = "freed"] \in ConnRecs
    BY <2>5, FieldTypes
  <2>7. conn' \in [Conns -> ConnRecs]
    BY <1>4, <2>5, <2>6, SetConnType DEF OnHandleClosed
  <2>8. objs' \subseteq Conns \X {"Connection", "Response"}
    BY <1>4 DEF OnHandleClosed, TypeOK
  <2>. QED
    BY <1>4, <2>4, <2>7, <2>8 DEF OnHandleClosed, TypeOK, srvVars
<1>5. CASE ExitRun
  <2>1. stack' \in Seq(Frames)
    BY <1>5, PopTypes DEF ExitRun, Polling, Looping
  <2>. QED
    BY <1>5, <2>1 DEF ExitRun, TypeOK, srvVars, phpVars
<1>. QED
  BY <1>1, <1>2, <1>3, <1>4, <1>5 DEF Finish

\* A return leaves a frame that serves a connection, except on_tick's.
LEMMA TopOwner ==
    ASSUME TypeOK, Shape, InCallback
    PROVE  /\ Depth \in {2, 4}
           /\ Top.fn # "on_tick" => Top.c \in Conns
<1>1. Depth \in Nat /\ Depth >= 1 /\ Top = stack[Depth]
  BY TopIsFrame DEF TypeOK, InCallback, Top
<1>2. Depth \in {1, 2, 3, 4, 5}
  BY <1>1 DEF Shape
<1>3. Depth \notin {1, 3, 5}
  BY <1>1, <1>2 DEF Shape, InCallback
<1>4. Depth = 2 \/ Depth = 4
  BY <1>2, <1>3
<1>. QED
  BY <1>1, <1>4 DEF Shape

LEMMA ReturnTypes == TypeOK /\ Shape /\ Return => TypeOK'
<1>. SUFFICES ASSUME TypeOK, Shape, Return PROVE TypeOK'
  OBVIOUS
<1>0. InCallback
  BY DEF Return, ResumeFreed, ReturnConnect, ReturnReceive, ReturnRequest,
         ReturnTick, ReturnClose, Returns
<1>1. stack # <<>>
  BY <1>0 DEF InCallback
<1>2. Top \in Frames /\ Pop \in Seq(Frames)
  BY <1>1, TopIsFrame, PopTypes DEF TypeOK
<1>3. Top.fn \in ConnFns \cup {"on_handle_closed"} => Top.c \in Conns
  BY <1>0, TopOwner DEF ConnFns
<1>4. \A fn \in FnNames : Returns(fn) => exc' \in {"none", "pending", "cleared"}
  BY DEF Returns, TypeOK
<1>5. CASE ResumeFreed
  BY <1>5 DEF ResumeFreed, TypeOK, srvVars, phpVars, Faults
<1>6. CASE ReturnConnect
  <2>1. Top.c \in Conns /\ conn[Top.c] \in ConnRecs
    BY <1>3, <1>6 DEF ReturnConnect, Returns, ConnFns, TypeOK
  <2>2. [conn[Top.c] EXCEPT !.reading = (conn[Top.c].handle = "open")] \in ConnRecs
    BY <2>1, FieldTypes
  <2>3. conn' \in [Conns -> ConnRecs]
    BY <1>6, <2>1, <2>2, SetConnType DEF ReturnConnect
  <2>. QED
    BY <1>2, <1>4, <1>6, <2>3 DEF ReturnConnect, TypeOK, srvVars, FnNames, ConnFns
<1>7. CASE ReturnReceive
  <2>1. Top.c \in Conns /\ conn[Top.c] \in ConnRecs
    BY <1>3, <1>7 DEF ReturnReceive, Returns, ConnFns, TypeOK
  <2>2. [conn[Top.c] EXCEPT !.held = 0] \in ConnRecs
    BY <2>1, FieldTypes
  <2>3. conn' \in [Conns -> ConnRecs]
    BY <1>7, <2>1, <2>2, SetConnType DEF ReturnReceive
  <2>. QED
    BY <1>2, <1>4, <1>7, <2>3 DEF ReturnReceive, TypeOK, srvVars, FnNames, ConnFns
<1>8. CASE ReturnRequest
  <2>1. Top.c \in Conns
    BY <1>3, <1>8 DEF ReturnRequest, Returns, ConnFns
  <2>2. PICK keepAlive \in BOOLEAN :
           IF keepAlive /\ Top.n > 0 /\ "request" \in cbs /\ exc' # "pending"
           THEN /\ stack' = [stack EXCEPT ![Depth].n = @ - 1]
                /\ UNCHANGED <<conn, closing>>
           ELSE /\ stack' = Pop
                /\ LaureConnClose(Top.c)
    BY <1>8 DEF ReturnRequest
  <2>3. conn' \in [Conns -> ConnRecs] /\ closing' \subseteq Conns
    BY <2>1, <2>2, CloseTypes DEF TypeOK
  <2>4. Top.n > 0 => [stack EXCEPT ![Depth].n = @ - 1] \in Seq(Frames)
    BY <1>1, DrainTypes
  <2>5. stack' \in Seq(Frames)
    BY <1>2, <2>2, <2>4
  <2>. QED
    BY <1>4, <1>8, <2>3, <2>5 DEF ReturnRequest, TypeOK, srvVars, FnNames, ConnFns
<1>9. CASE ReturnTick
  BY <1>2, <1>4, <1>9 DEF ReturnTick, TypeOK, srvVars, FnNames
<1>10. CASE ReturnClose
  <2>1. Top.c \in Conns /\ conn[Top.c] \in ConnRecs
    BY <1>3, <1>10 DEF ReturnClose, Returns, TypeOK
  <2>2. [conn[Top.c] EXCEPT !.mem = "freed"] \in ConnRecs
    BY <2>1, FieldTypes
  <2>3. conn' \in [Conns -> ConnRecs]
    BY <1>10, <2>1, <2>2, SetConnType DEF ReturnClose
  <2>4. fault' \in Faults
    BY <1>10 DEF ReturnClose, TypeOK, Faults
  <2>. QED
    BY <1>2, <1>4, <1>10, <2>3, <2>4 DEF ReturnClose, TypeOK, srvVars, FnNames
<1>. QED
  BY <1>5, <1>6, <1>7, <1>8, <1>9, <1>10 DEF Return

LEMMA StepTypes == TypeOK /\ Shape /\ [Next]_vars => TypeOK'
<1>. SUFFICES ASSUME TypeOK, Shape, [Next]_vars PROVE TypeOK'
  OBVIOUS
<1>1. CASE UNCHANGED vars
  BY <1>1 DEF vars, TypeOK
<1>2. CASE Terminated
  BY <1>2 DEF Terminated, vars, TypeOK
<1>. QED
  BY <1>1, <1>2, ScriptTypes, PhpTypes, NetworkTypes, LoopTypes, ReturnTypes DEF Next

-----------------------------------------------------------------------------
(* The fields of a connection, after each helper. *)

LEMMA ClosedFields ==
    ASSUME NEW r \in ConnRecs
    PROVE  /\ ClosedRec(r).mem = r.mem
           /\ ClosedRec(r).state = "CLOSE"
           /\ ClosedRec(r).pend = r.pend
           /\ ClosedRec(r).orphan = r.orphan
           /\ ClosesHandle(r) =>
                 /\ ClosedRec(r).handle = "closing"
                 /\ ClosedRec(r).closeCb = "on_handle_closed"
                 /\ ClosedRec(r).reading = FALSE
           /\ ~ClosesHandle(r) =>
                 /\ ClosedRec(r).handle = r.handle
                 /\ ClosedRec(r).closeCb = r.closeCb
                 /\ ClosedRec(r).reading = r.reading
  BY DEF ClosedRec, UvClosed, ConnRecs

LEMMA WalkedFields ==
    ASSUME NEW r \in ConnRecs
    PROVE  /\ UvClosed(r, "NULL").mem = r.mem
           /\ UvClosed(r, "NULL").state = r.state
           /\ UvClosed(r, "NULL").pend = r.pend
           /\ UvClosed(r, "NULL").orphan = r.orphan
           /\ UvClosed(r, "NULL").handle = "closing"
           /\ UvClosed(r, "NULL").closeCb = "NULL"
           /\ UvClosed(r, "NULL").reading = FALSE
  BY DEF UvClosed, ConnRecs

LEMMA SentFields ==
    ASSUME NEW r \in ConnRecs
    PROVE  /\ SentRec(r).mem = r.mem
           /\ SentRec(r).state = r.state
           /\ SentRec(r).handle = r.handle
           /\ SentRec(r).closeCb = r.closeCb
           /\ SentRec(r).reading = r.reading
           /\ r.state = "CLOSE" => SentRec(r) = r
           /\ r.handle # "open" => SentRec(r).pend = r.pend
           /\ r.handle = "open" => SentRec(r).orphan = r.orphan
  BY DEF SentRec, ConnRecs

LEMMA FinishedFields ==
    ASSUME NEW r \in ConnRecs
    PROVE  /\ FinishedRec(r).mem = r.mem
           /\ FinishedRec(r).state = r.state
           /\ FinishedRec(r).handle = "closed"
           /\ FinishedRec(r).closeCb = r.closeCb
           /\ FinishedRec(r).reading = r.reading
           /\ FinishedRec(r).pend = 0
           /\ FinishedRec(r).orphan = r.orphan
  BY DEF FinishedRec, ConnRecs

\* A closed, sent to or finished connection is as consistent as it was.
LEMMA ClosedOK ==
    ASSUME NEW r \in ConnRecs, RecOK(r), r.mem # "none"
    PROVE  RecOK(ClosedRec(r))
  BY ClosedFields DEF RecOK, ClosesHandle, ConnRecs

LEMMA WalkedOK ==
    ASSUME NEW r \in ConnRecs, RecOK(r), r.handle = "open"
    PROVE  RecOK(UvClosed(r, "NULL"))
  BY WalkedFields DEF RecOK

LEMMA SentOK ==
    ASSUME NEW r \in ConnRecs, RecOK(r), r.mem = "live"
    PROVE  RecOK(SentRec(r))
  BY SentFields DEF RecOK, ConnRecs

LEMMA FinishedOK ==
    ASSUME NEW r \in ConnRecs, RecOK(r), r.mem = "live", r.handle = "closing"
    PROVE  RecOK(FinishedRec(r))
  BY FinishedFields DEF RecOK, ConnRecs

-----------------------------------------------------------------------------
(* IInv is preserved: first by the steps that leave most of it alone. *)

LEMMA DepthType == TypeOK => Depth \in Nat
  BY DEF TypeOK, Depth

\* Nothing that IInv speaks of changes but the fault.
LEMMA Quiet ==
    ASSUME IInv, TypeOK', MemoryFaults',
           UNCHANGED <<conn, closing, stack, srvh, undercut>>
    PROVE  IInv'
<1>1. Shape' /\ Stopped' /\ Ended' /\ Lists' /\ Served'
  BY DEF IInv, Shape, Stopped, Ended, Lists, Served, NotifyingAt, Depth
<1>2. \A c \in Conns : RecOK(conn[c])'
  BY DEF IInv, RecOK
<1>. QED
  BY <1>1, <1>2 DEF IInv

LEMMA NoFaultYet ==
    ASSUME IInv, fault' = fault, conn' = conn, undercut' = undercut
    PROVE  MemoryFaults'
  BY DEF IInv, MemoryFaults

\* One connection changes, but not its place in its life, and the stack stays.
LEMMA Touch ==
    ASSUME IInv, TypeOK', NEW c \in Conns, NEW r \in ConnRecs, RecOK(r),
           conn' = [conn EXCEPT ![c] = r],
           r.mem = conn[c].mem, r.handle = conn[c].handle,
           r.closeCb = conn[c].closeCb, r.reading = conn[c].reading,
           UNCHANGED <<closing, stack, srvh, undercut, fault>>
    PROVE  IInv'
<1>1. /\ conn'[c] = r
      /\ \A d \in Conns \ {c} : conn'[d] = conn[d]
  BY DEF IInv, TypeOK
<1>2. \A d \in Conns : /\ conn'[d].mem = conn[d].mem
                       /\ conn'[d].handle = conn[d].handle
                       /\ conn'[d].closeCb = conn[d].closeCb
                       /\ conn'[d].reading = conn[d].reading
  BY <1>1
<1>3. \A d \in Conns : RecOK(conn'[d])
  BY <1>1 DEF IInv
<1>4. Shape'
  BY DEF IInv, Shape, Depth
<1>5. Stopped' /\ Ended' /\ Lists'
  BY <1>2 DEF IInv, Stopped, Ended, Lists, Depth
<1>6. Served'
  BY <1>2 DEF IInv, Served, NotifyingAt, Depth
<1>7. MemoryFaults'
  BY <1>2 DEF IInv, MemoryFaults
<1>. QED
  BY <1>3, <1>4, <1>5, <1>6, <1>7 DEF IInv

LEMMA ScriptInv == IInv /\ Script => IInv'
<1>. SUFFICES ASSUME IInv, Script PROVE IInv'
  OBVIOUS
<1>1. TypeOK'
  BY ScriptTypes DEF IInv
<1>2. CASE Start
  <2>1. Depth' = 1 /\ stack'[1] = RunFrame
    BY <1>2 DEF Start, Depth
  <2>2. stack'[1].q = {} /\ stack'[1].fn = "uv_run" /\ stack'[1].c = NoConn
    BY <2>1 DEF RunFrame, Frame
  <2>3. Depth = 0
    BY <1>2 DEF Start, Idle, Depth
  <2>4. Shape' /\ Stopped' /\ Ended'
    BY <2>1, <2>2 DEF Shape, Stopped, Ended, Depth
  <2>5. Lists'
    BY <1>2, <2>1, <2>2, <2>3 DEF Start, IInv, Lists
  <2>6. Served'
    BY <1>2, <2>1, <2>2, <2>3 DEF Start, IInv, Served, NotifyingAt
  <2>7. MemoryFaults'
    BY <1>2, NoFaultYet DEF Start
  <2>. QED
    BY <1>1, <1>2, <2>4, <2>5, <2>6, <2>7 DEF Start, IInv
<1>3. CASE StartFails
  BY <1>1, <1>3, NoFaultYet, Quiet DEF StartFails
<1>4. CASE LoopInitFails
  BY <1>1, <1>4, NoFaultYet, Quiet DEF LoopInitFails
<1>5. CASE Destroy
  <2>1. stack = <<>> /\ Depth = 0
    BY <1>5 DEF Destroy, Idle, Depth
  <2>2. srvh = "none" /\ \A c \in Conns : conn[c].handle \notin {"open", "closing"}
    BY <2>1 DEF IInv, Ended, Lists
  <2>3. fault' \in {fault, "raw_loop"} /\ conn' = conn
    BY <1>5, <2>2 DEF Destroy
  <2>4. MemoryFaults'
    BY <1>5, <2>3 DEF Destroy, Idle, MemoryFaults
  <2>. QED
    BY <1>1, <1>5, <2>4, Quiet DEF Destroy
<1>. QED
  BY <1>2, <1>3, <1>4, <1>5 DEF Script

-----------------------------------------------------------------------------
(* laure_conn_close and walk_close_all. *)

\* What laure_conn_close changes, field by field.
LEMMA CloseEffect ==
    ASSUME TypeOK, NEW c \in Conns, LaureConnClose(c)
    PROVE  /\ conn'[c] = ClosedRec(conn[c])
           /\ \A d \in Conns \ {c} : conn'[d] = conn[d]
           /\ \A d \in Conns :
                 /\ conn'[d].mem = conn[d].mem
                 /\ ~(d = c /\ ClosesHandle(conn[c])) =>
                       /\ conn'[d].handle = conn[d].handle
                       /\ conn'[d].closeCb = conn[d].closeCb
                       /\ conn'[d].reading = conn[d].reading
           /\ ClosesHandle(conn[c]) =>
                 /\ conn'[c].handle = "closing"
                 /\ conn'[c].closeCb = "on_handle_closed"
                 /\ conn[c].handle = "open"
                 /\ closing' = closing \cup {c}
           /\ ~ClosesHandle(conn[c]) => closing' = closing
<1>1. conn[c] \in ConnRecs
  BY DEF TypeOK
<1>2. conn'[c] = ClosedRec(conn[c]) /\ \A d \in Conns \ {c} : conn'[d] = conn[d]
  BY DEF TypeOK, LaureConnClose
<1>3. ClosesHandle(conn[c]) => conn[c].handle = "open"
  BY DEF ClosesHandle
<1>4. ASSUME NEW d \in Conns
      PROVE  /\ conn'[d].mem = conn[d].mem
             /\ ~(d = c /\ ClosesHandle(conn[c])) =>
                   /\ conn'[d].handle = conn[d].handle
                   /\ conn'[d].closeCb = conn[d].closeCb
                   /\ conn'[d].reading = conn[d].reading
  <2>1. CASE d = c
    <3>1. /\ ClosedRec(conn[c]).mem = conn[c].mem
          /\ ~ClosesHandle(conn[c]) =>
                /\ ClosedRec(conn[c]).handle = conn[c].handle
                /\ ClosedRec(conn[c]).closeCb = conn[c].closeCb
                /\ ClosedRec(conn[c]).reading = conn[c].reading
      BY <1>1, ClosedFields
    <3>. QED
      BY <1>2, <2>1, <3>1
  <2>2. CASE d # c
    BY <1>2, <2>2
  <2>. QED
    BY <2>1, <2>2
<1>5. ClosesHandle(conn[c]) =>
         conn'[c].handle = "closing" /\ conn'[c].closeCb = "on_handle_closed"
  BY <1>1, <1>2, ClosedFields
<1>6. /\ ClosesHandle(conn[c]) => closing' = closing \cup {c}
      /\ ~ClosesHandle(conn[c]) => closing' = closing
  BY DEF LaureConnClose
<1>. QED
  BY <1>2, <1>3, <1>4, <1>5, <1>6

LEMMA CloseInv ==
    ASSUME IInv, TypeOK', NEW c \in Conns, conn[c].mem = "live", LaureConnClose(c),
           UNCHANGED <<stack, srvh, undercut, fault>>
    PROVE  IInv'
<1>. USE CloseEffect DEF IInv
<1>0. Depth' = Depth /\ Depth \in Nat
  BY DepthType DEF Depth
<1>1. \A d \in Conns : RecOK(conn'[d])
  BY ClosedOK DEF TypeOK
<1>2. Shape'
  BY DEF Shape, Depth
<1>3. Stopped'
  BY <1>0 DEF Stopped
<1>4. Ended'
  BY DEF Ended
<1>5. Lists'
  BY <1>0 DEF Lists
<1>6. Served'
  <2>1. ClosesHandle(conn[c]) => ~(3 <= Depth)
    BY DEF Stopped
  <2>. QED
    BY <1>0, <2>1 DEF Served, NotifyingAt
<1>7. MemoryFaults'
  <2>1. \A d \in Conns : conn[d].mem = "freed" => conn'[d] = conn[d]
    OBVIOUS
  <2>. QED
    BY <2>1 DEF MemoryFaults
<1>. QED
  BY <1>1, <1>2, <1>3, <1>4, <1>5, <1>6, <1>7

\* What walk_close_all changes, field by field.
LEMMA WalkEffect ==
    ASSUME TypeOK, \A c \in Conns : RecOK(conn[c]), WalkCloseAll
    PROVE  /\ \A d \in Conns :
                 /\ RecOK(conn'[d])
                 /\ conn'[d].mem = conn[d].mem
                 /\ conn'[d].closeCb = conn[d].closeCb
                 /\ conn'[d].handle # "open"
                 /\ conn[d].handle = "open" => conn'[d].handle = "closing" /\ d \in closing'
                 /\ conn[d].handle # "open" => conn'[d] = conn[d] /\ (d \in closing' <=> d \in closing)
           /\ srvh' # "open"
           /\ srvh = "none" => srvh' = "none"
           /\ fault' = IF \E d \in Conns : DanglingHandle(d) THEN "uv_closing" ELSE fault
<1>1. ASSUME NEW d \in Conns
      PROVE  /\ RecOK(conn'[d])
             /\ conn'[d].mem = conn[d].mem
             /\ conn'[d].closeCb = conn[d].closeCb
             /\ conn'[d].handle # "open"
             /\ conn[d].handle = "open" => conn'[d].handle = "closing" /\ d \in closing'
             /\ conn[d].handle # "open" => conn'[d] = conn[d] /\ (d \in closing' <=> d \in closing)
  <2>1. conn[d] \in ConnRecs /\ RecOK(conn[d])
    BY DEF TypeOK
  <2>2. CASE conn[d].handle = "open"
    <3>1. conn'[d] = UvClosed(conn[d], "NULL") /\ d \in closing'
      BY <2>2 DEF WalkCloseAll
    <3>2. conn[d].closeCb = "NULL"
      BY <2>1, <2>2 DEF RecOK
    <3>. QED
      BY <2>1, <2>2, <3>1, <3>2, WalkedOK, WalkedFields
  <2>3. CASE conn[d].handle # "open"
    BY <2>1, <2>3 DEF WalkCloseAll
  <2>. QED
    BY <2>2, <2>3
<1>. QED
  BY <1>1 DEF WalkCloseAll, TouchHandles

\* The faults of a walk, and that a dangling handle is a refused connection's.
LEMMA WalkFaults ==
    ASSUME IInv, fault = "none",
           fault' = (IF \E d \in Conns : DanglingHandle(d) THEN "uv_closing" ELSE fault),
           \A d \in Conns : conn[d].mem = "freed" =>
              conn'[d].mem = "freed" /\ conn'[d].closeCb = conn[d].closeCb
    PROVE  MemoryFaults'
<1>1. \A d \in Conns : DanglingHandle(d) => conn[d].mem = "freed" /\ conn[d].closeCb = "NULL"
  BY DEF IInv, RecOK, DanglingHandle, TypeOK, ConnRecs
<1>. QED
  BY <1>1 DEF MemoryFaults

-----------------------------------------------------------------------------
(* Steps of PHP code. *)

\* Where PHP code can be running.
LEMMA PhpDepth ==
    ASSUME IInv, Idle \/ InCallback
    PROVE  Depth \in {0, 2, 4} /\ fault = "none"
<1>1. CASE Idle
  BY <1>1 DEF Idle, Depth
<1>2. CASE InCallback
  BY <1>2, TopOwner DEF InCallback, IInv
<1>. QED
  BY <1>1, <1>2

\* t is s with the frame f on top.
PushedOn(s, f, t) == t = Append(s, f)

\* A nested uv_run on top of the stack.
LEMMA PushRun ==
    ASSUME TypeOK, stack' = Append(stack, RunFrame)
    PROVE  /\ RunFrame.fn = "uv_run" /\ RunFrame.q = {} /\ RunFrame.c = NoConn
           /\ Depth = 0 => Depth' = 1 /\ stack'[1] = RunFrame
           /\ Depth = 2 => /\ Depth' = 3 /\ stack'[1] = stack[1]
                           /\ stack'[2] = stack[2] /\ stack'[3] = RunFrame
           /\ Depth = 4 => /\ Depth' = 5 /\ stack'[1] = stack[1] /\ stack'[2] = stack[2]
                           /\ stack'[3] = stack[3] /\ stack'[4] = stack[4]
                           /\ stack'[5] = RunFrame
<1>1. stack \in Seq(Frames) /\ RunFrame \in Frames
  BY RunFrameType DEF TypeOK
<1>2. RunFrame.fn = "uv_run" /\ RunFrame.q = {} /\ RunFrame.c = NoConn
  BY DEF RunFrame, Frame
<1>. QED
  BY <1>1, <1>2, PushAt DEF Depth

LEMMA StopInv ==
    ASSUME IInv, TypeOK', InUser, WalkCloseAll,
           PushedOn(stack, RunFrame, stack'),
           undercut' = undercut \cup Endangered
    PROVE  IInv'
<1>0. Depth \in {0, 2, 4} /\ fault = "none"
  BY PhpDepth DEF InUser
<1>1. /\ TypeOK /\ \A c \in Conns : RecOK(conn[c])
      /\ Shape /\ Stopped /\ Ended /\ Lists /\ Served
  BY DEF IInv
<1>2. /\ RunFrame.fn = "uv_run" /\ RunFrame.q = {} /\ RunFrame.c = NoConn
      /\ Depth = 0 => Depth' = 1 /\ stack'[1] = RunFrame
      /\ Depth = 2 => /\ Depth' = 3 /\ stack'[1] = stack[1]
                      /\ stack'[2] = stack[2] /\ stack'[3] = RunFrame
      /\ Depth = 4 => /\ Depth' = 5 /\ stack'[1] = stack[1] /\ stack'[2] = stack[2]
                      /\ stack'[3] = stack[3] /\ stack'[4] = stack[4]
                      /\ stack'[5] = RunFrame
  BY <1>1, PushRun DEF PushedOn
<1>3. /\ \A c \in Conns :
            /\ RecOK(conn'[c])
            /\ conn'[c].mem = conn[c].mem
            /\ conn'[c].closeCb = conn[c].closeCb
            /\ conn'[c].handle # "open"
            /\ conn[c].handle = "open" => conn'[c].handle = "closing" /\ c \in closing'
            /\ conn[c].handle # "open" =>
                  conn'[c].handle = conn[c].handle /\ (c \in closing' <=> c \in closing)
      /\ srvh' # "open"
      /\ srvh = "none" => srvh' = "none"
  BY <1>1, WalkEffect
<1>4. closing' \subseteq Conns
  BY DEF TypeOK
<1>41. fault' = IF \E d \in Conns : DanglingHandle(d) THEN "uv_closing" ELSE fault
  BY DEF WalkCloseAll, TouchHandles
<1>5. Shape'
  <2>1. CASE Depth = 0
    BY <1>2, <2>1 DEF Shape
  <2>2. CASE Depth = 2
    BY <1>1, <1>2, <2>2 DEF Shape
  <2>3. CASE Depth = 4
    BY <1>1, <1>2, <2>3 DEF Shape
  <2>. QED
    BY <1>0, <2>1, <2>2, <2>3
<1>6. Stopped'
  <2>1. CASE Depth = 0
    BY <1>2, <2>1 DEF Stopped
  <2>2. CASE Depth = 2
    BY <1>2, <1>3, <2>2 DEF Stopped
  <2>3. CASE Depth = 4
    BY <1>1, <1>2, <1>3, <1>4, <2>3 DEF Stopped
  <2>. QED
    BY <1>0, <2>1, <2>2, <2>3
<1>7. Ended'
  BY <1>0, <1>2 DEF Ended, Depth
<1>8. Lists'
  <2>1. CASE Depth = 0
    BY <1>1, <1>2, <1>3, <2>1 DEF Lists
  <2>2. CASE Depth = 2
    BY <1>1, <1>2, <1>3, <2>2 DEF Lists
  <2>3. CASE Depth = 4
    BY <1>1, <1>2, <1>3, <2>3 DEF Lists
  <2>. QED
    BY <1>0, <2>1, <2>2, <2>3
<1>9. Served'
  <2>. SUFFICES ASSUME NEW c \in Conns
       PROVE  /\ NotifyingAt(c, 2)' \/ NotifyingAt(c, 4)' =>
                    /\ conn'[c].mem = "live" /\ conn'[c].handle = "closed"
                    /\ conn'[c].closeCb = "on_handle_closed"
              /\ ~(NotifyingAt(c, 2)' /\ NotifyingAt(c, 4)')
              /\ conn'[c].mem = "live" /\ conn'[c].handle = "closed"
                    /\ conn'[c].closeCb = "on_handle_closed" =>
                       NotifyingAt(c, 2)' \/ NotifyingAt(c, 4)'
              /\ 2 <= Depth' /\ stack'[2].fn \in ConnFns /\ stack'[2].c = c =>
                    /\ conn'[c].mem # "none"
                    /\ conn'[c].mem = "freed" => conn'[c].closeCb = "on_handle_closed"
                    /\ conn'[c].closeCb = "on_handle_closed" => c \in undercut'
    BY <1>3 DEF Served
  <2>1. /\ NotifyingAt(c, 2)' <=> NotifyingAt(c, 2)
        /\ NotifyingAt(c, 4)' <=> NotifyingAt(c, 4)
    BY <1>0, <1>2 DEF NotifyingAt
  <2>2. conn'[c].handle = "closed" <=> conn[c].handle = "closed"
    BY <1>3
  <2>3. ASSUME 2 <= Depth', stack'[2].fn \in ConnFns, stack'[2].c = c,
               conn'[c].closeCb = "on_handle_closed"
        PROVE  c \in undercut'
    <3>1. /\ Depth \in {2, 4}
          /\ stack[2].fn \in ConnFns /\ stack[2].c = c
          /\ conn[c].closeCb = "on_handle_closed"
      BY <1>0, <1>2, <1>3, <2>3
    <3>2. CASE conn[c].mem = "freed" \/ Depth = 4
      BY <1>1, <3>1, <3>2 DEF Served
    <3>3. CASE conn[c].mem # "freed" /\ Depth = 2
      <4>1. conn[c].mem = "live" /\ conn[c].handle # "none" /\ conn[c].handle # "open"
        BY <1>1, <3>1, <3>3 DEF Served, RecOK, TypeOK, ConnRecs
      <4>2. conn[c].handle # "closed"
        BY <1>1, <3>1, <3>3, <4>1 DEF Served, NotifyingAt, ConnFns
      <4>3. c \in closing
        <5>1. conn[c].handle = "closing"
          BY <1>1, <4>1, <4>2 DEF TypeOK, ConnRecs
        <5>2. stack[1].q = {}
          BY <1>1, <3>1, <3>3 DEF Shape, ConnFns
        <5>. QED
          BY <1>1, <3>3, <5>1, <5>2 DEF Lists
      <4>4. 2 \in 1..Depth
        BY <3>3
      <4>5. c \in Endangered
        BY <3>1, <4>3, <4>4 DEF Endangered
      <4>. QED
        BY <4>5
    <3>. QED
      BY <3>1, <3>2, <3>3
  <2>4. ASSUME 2 <= Depth', stack'[2].fn \in ConnFns, stack'[2].c = c
        PROVE  /\ conn'[c].mem # "none"
               /\ conn'[c].mem = "freed" => conn'[c].closeCb = "on_handle_closed"
    BY <1>0, <1>1, <1>2, <1>3, <2>4 DEF Served
  <2>. QED
    BY <1>1, <1>3, <2>1, <2>2, <2>3, <2>4 DEF Served
<1>10. MemoryFaults'
  BY <1>0, <1>3, <1>41, WalkFaults
<1>. QED
  BY <1>3, <1>5, <1>6, <1>7, <1>8, <1>9, <1>10 DEF IInv

LEMMA PhpInv == IInv /\ Php => IInv'
<1>. SUFFICES ASSUME IInv, Php PROVE IInv'
  OBVIOUS
<1>1. TypeOK' /\ TypeOK
  BY PhpTypes DEF IInv
<1>2. CASE PhpStop
  <2>1. CASE loop = "raw"
    <3>1. MemoryFaults'
      BY <1>2, <2>1 DEF PhpStop, IInv, MemoryFaults
    <3>. QED
      BY <1>1, <1>2, <2>1, <3>1, Quiet DEF PhpStop
  <2>2. CASE loop # "raw"
    BY <1>1, <1>2, <2>2, StopInv DEF PhpStop, PushedOn
  <2>. QED
    BY <2>1, <2>2
<1>3. CASE PhpCatch
  BY <1>1, <1>3, NoFaultYet, Quiet DEF PhpCatch, srvVars
<1>4. ASSUME NEW e \in Events, PhpOn(e) PROVE IInv'
  BY <1>1, <1>4, NoFaultYet, Quiet DEF PhpOn, srvVars
<1>5. ASSUME NEW c \in Conns, PhpSend(c) PROVE IInv'
  <2>1. conn[c] \in ConnRecs /\ RecOK(conn[c]) /\ conn[c].mem = "live"
    BY <1>1, <1>5 DEF IInv, TypeOK, PhpSend
  <2>2. SentRec(conn[c]) \in ConnRecs /\ RecOK(SentRec(conn[c]))
    BY <2>1, SentOK, RecTypes
  <2>3. /\ SentRec(conn[c]).mem = conn[c].mem
        /\ SentRec(conn[c]).handle = conn[c].handle
        /\ SentRec(conn[c]).closeCb = conn[c].closeCb
        /\ SentRec(conn[c]).reading = conn[c].reading
    BY <2>1, SentFields
  <2>. QED
    BY <1>1, <1>5, <2>2, <2>3, Touch DEF PhpSend, srvVars
<1>6. ASSUME NEW c \in Conns, PhpClose(c) PROVE IInv'
  BY <1>1, <1>6, CloseInv DEF PhpClose, srvVars
<1>7. ASSUME NEW c \in Conns, PhpUseStale(c) PROVE IInv'
  <2>1. MemoryFaults'
    BY <1>7 DEF PhpUseStale, IInv, MemoryFaults
  <2>. QED
    BY <1>1, <1>7, <2>1, Quiet DEF PhpUseStale, srvVars
<1>. QED
  BY <1>2, <1>3, <1>4, <1>5, <1>6, <1>7 DEF Php

-----------------------------------------------------------------------------
(* Steps of the network, and the callbacks they call. *)

\* The loop is in control of the stack, at the bottom or nested.
LEMMA LoopDepth ==
    ASSUME IInv, Looping
    PROVE  Depth \in {1, 3, 5} /\ Top = stack[Depth] /\ fault = "none"
<1>1. Depth \in Nat /\ Depth >= 1 /\ Top = stack[Depth]
  BY TopIsFrame DEF IInv, TypeOK, Looping, Top
<1>2. Depth \in {1, 2, 3, 4, 5}
  BY <1>1 DEF IInv, Shape
<1>3. Depth \notin {2, 4}
  BY <1>1, <1>2 DEF IInv, Shape, Looping
<1>. QED
  BY <1>1, <1>2, <1>3 DEF Looping

\* Only the outermost loop has a listener or an open connection to serve.
LEMMA ServingDepth ==
    ASSUME IInv, Polling, srvh = "open" \/ \E c \in Conns : conn[c].handle = "open"
    PROVE  Depth = 1 /\ stack[1].q = {} /\ fault = "none"
<1>1. Depth \in {1, 3, 5} /\ Top = stack[Depth] /\ Top.q = {} /\ fault = "none"
  BY LoopDepth DEF Polling
<1>2. ~(3 <= Depth)
  BY DEF IInv, Stopped
<1>3. Depth = 1
  BY <1>1, <1>2
<1>. QED
  BY <1>1, <1>3

\* A callback on top of the outermost loop.
LEMMA PushCallback ==
    ASSUME TypeOK, Depth = 1, NEW fn \in FnNames, NEW c \in Conns \cup {NoConn},
           NEW n \in Nat, stack' = Append(stack, Frame(fn, c, n))
    PROVE  /\ Depth' = 2 /\ stack'[1] = stack[1]
           /\ stack'[2].fn = fn /\ stack'[2].c = c /\ stack'[2].q = {}
<1>1. Frame(fn, c, n) \in Frames /\ stack \in Seq(Frames)
  BY FrameTypes DEF TypeOK
<1>2. Depth' = 2 /\ stack'[1] = stack[1] /\ stack'[2] = Frame(fn, c, n)
  BY <1>1, PushAt DEF Depth
<1>3. /\ Frame(fn, c, n).fn = fn /\ Frame(fn, c, n).c = c
      /\ Frame(fn, c, n).q = {}
  BY DEF Frame
<1>. QED
  BY <1>2, <1>3

\* Calling PHP for a connection that is open and is read, or for none.
LEMMA CallInv ==
    ASSUME IInv, TypeOK', Polling, srvh = "open" \/ \E d \in Conns : conn[d].handle = "open",
           NEW fn \in {"dispatch_plain", "llhttp_execute", "on_tick"},
           NEW c \in Conns \cup {NoConn}, NEW n \in Nat,
           c \in Conns <=> fn # "on_tick",
           c \in Conns => conn[c].handle = "open",
           stack' = Append(stack, Frame(fn, c, n)),
           UNCHANGED <<closing, srvh, undercut, fault>>,
           \A d \in Conns :
              /\ RecOK(conn'[d])
              /\ conn'[d].mem = conn[d].mem
              /\ conn'[d].handle = conn[d].handle
              /\ conn'[d].closeCb = conn[d].closeCb
              /\ conn'[d].reading = conn[d].reading
    PROVE  IInv'
<1>1. Depth = 1 /\ stack[1].q = {} /\ fault = "none"
  BY ServingDepth
<1>2. /\ Depth' = 2 /\ stack'[1] = stack[1]
      /\ stack'[2].fn = fn /\ stack'[2].c = c /\ stack'[2].q = {}
  <2>1. TypeOK /\ fn \in FnNames
    BY DEF IInv, FnNames, ConnFns
  <2>. QED
    BY <1>1, <2>1, PushCallback
<1>3. /\ \A d \in Conns : RecOK(conn[d])
      /\ Shape /\ Stopped /\ Lists /\ Served
  BY DEF IInv
<1>4. Shape'
  BY <1>1, <1>2, <1>3 DEF Shape
<1>5. Stopped' /\ Ended'
  BY <1>2 DEF Stopped, Ended, Depth
<1>6. Lists'
  BY <1>1, <1>2, <1>3 DEF Lists
<1>7. Served'
  <2>1. \A d \in Conns : ~NotifyingAt(d, 2)' /\ ~NotifyingAt(d, 4)'
    BY <1>2 DEF NotifyingAt
  <2>2. \A d \in Conns : ~NotifyingAt(d, 2) /\ ~NotifyingAt(d, 4)
    BY <1>1 DEF NotifyingAt
  <2>3. \A d \in Conns : conn[d].handle = "open" => conn[d].reading
    BY <1>1, <1>3 DEF Served
  <2>4. c \in Conns => conn[c].mem = "live" /\ conn[c].closeCb = "NULL"
    BY <1>3 DEF RecOK
  <2>. QED
    BY <1>2, <1>3, <2>1, <2>2, <2>3, <2>4 DEF Served
<1>8. MemoryFaults'
  BY <1>1 DEF MemoryFaults
<1>. QED
  BY <1>4, <1>5, <1>6, <1>7, <1>8 DEF IInv

LEMMA ReadTcpInv ==
    ASSUME IInv, NEW c \in Conns, ReadTcp(c) PROVE IInv'
<1>0. PICK kept \in {0, 1} :
        LET r == [conn[c] EXCEPT !.rcvd = @ + kept, !.held = @ + kept]
        IN  /\ \/ conn' = [conn EXCEPT ![c] = [r EXCEPT !.dlvd = @ + r.held]]
               \/ conn' = [conn EXCEPT ![c] = [r EXCEPT !.held = 0]]
               \/ conn' = [conn EXCEPT ![c] = r]
            /\ \/ stack' = stack
               \/ stack' = Append(stack, Frame("dispatch_plain", c, 0))
  BY DEF ReadTcp
<1>. DEFINE r == [conn[c] EXCEPT !.rcvd = @ + kept, !.held = @ + kept]
            Same(s) == /\ RecOK(s) /\ s.mem = conn[c].mem /\ s.handle = conn[c].handle
                       /\ s.closeCb = conn[c].closeCb /\ s.reading = conn[c].reading
<1>1. TypeOK' /\ TypeOK /\ conn[c] \in ConnRecs /\ RecOK(conn[c])
  BY ReadTcpTypes DEF IInv, TypeOK
<1>2. Same(r) /\ Same([r EXCEPT !.held = 0]) /\ Same([r EXCEPT !.dlvd = @ + r.held])
  BY <1>1 DEF RecOK, ConnRecs
<1>. HIDE DEF r
<1>3. \E s : /\ conn' = [conn EXCEPT ![c] = s] /\ Same(s)
             /\ \/ stack' = stack
                \/ stack' = Append(stack, Frame("dispatch_plain", c, 0))
  BY <1>0, <1>2 DEF r
<1>4. PICK s : /\ conn' = [conn EXCEPT ![c] = s] /\ Same(s)
               /\ \/ stack' = stack
                  \/ stack' = Append(stack, Frame("dispatch_plain", c, 0))
  BY <1>3
<1>5. conn'[c] = s /\ \A d \in Conns \ {c} : conn'[d] = conn[d]
  BY <1>1, <1>4 DEF TypeOK
<1>6. Polling /\ conn[c].handle = "open"
  BY DEF ReadTcp, Readable
<1>7. UNCHANGED <<closing, srvh, undercut, fault>>
  BY DEF ReadTcp, srvVars
<1>8. CASE stack' = stack
  <2>1. s \in ConnRecs
    BY <1>1, <1>5 DEF TypeOK
  <2>. QED
    BY <1>1, <1>4, <1>7, <1>8, <2>1, Touch
<1>9. CASE stack' = Append(stack, Frame("dispatch_plain", c, 0))
  <2>1. \A d \in Conns :
           /\ RecOK(conn'[d])
           /\ conn'[d].mem = conn[d].mem
           /\ conn'[d].handle = conn[d].handle
           /\ conn'[d].closeCb = conn[d].closeCb
           /\ conn'[d].reading = conn[d].reading
    BY <1>4, <1>5 DEF IInv
  <2>. QED
    BY <1>1, <1>6, <1>7, <1>9, <2>1, CallInv
<1>. QED
  BY <1>4, <1>8, <1>9

LEMMA ReadHttpInv ==
    ASSUME IInv, NEW c \in Conns, ReadHttp(c) PROVE IInv'
<1>1. TypeOK' /\ RecOK(conn[c]) /\ Polling /\ conn[c].handle = "open"
  BY ReadHttpTypes DEF IInv, ReadHttp, Readable
<1>2. UNCHANGED <<srvh, undercut, fault>>
  BY DEF ReadHttp, srvVars
<1>3. PICK n \in 0..MaxPipeline :
         IF n > 0 /\ Callable("request")
         THEN /\ stack' = Append(stack, Frame("llhttp_execute", c, n - 1))
              /\ UNCHANGED <<conn, closing>>
         ELSE LaureConnClose(c) /\ stack' = stack
  BY DEF ReadHttp
<1>4. CASE n > 0 /\ Callable("request")
  <2>1. n - 1 \in Nat
    BY <1>4
  <2>2. \A d \in Conns : RecOK(conn'[d])
    BY <1>3, <1>4 DEF IInv
  <2>. QED
    BY <1>1, <1>2, <1>3, <1>4, <2>1, <2>2, CallInv
<1>5. CASE ~(n > 0 /\ Callable("request"))
  <2>1. conn[c].mem = "live"
    BY <1>1 DEF RecOK
  <2>. QED
    BY <1>1, <1>2, <1>3, <1>5, <2>1, CloseInv
<1>. QED
  BY <1>4, <1>5

LEMMA SignalInv ==
    ASSUME IInv, OnSignal PROVE IInv'
<1>1. TypeOK'
  BY NetworkTypes DEF Network, IInv
<1>2. Depth = 1 /\ stack[1].q = {} /\ fault = "none"
  BY ServingDepth DEF OnSignal
<1>3. /\ TypeOK /\ \A c \in Conns : RecOK(conn[c])
      /\ Shape /\ Lists /\ Served
  BY DEF IInv
<1>4. /\ \A c \in Conns :
            /\ RecOK(conn'[c])
            /\ conn'[c].mem = conn[c].mem
            /\ conn'[c].closeCb = conn[c].closeCb
            /\ conn'[c].handle # "open"
            /\ conn[c].handle = "open" => conn'[c].handle = "closing" /\ c \in closing'
            /\ conn[c].handle # "open" =>
                  conn'[c].handle = conn[c].handle /\ (c \in closing' <=> c \in closing)
  BY <1>3, WalkEffect DEF OnSignal
<1>5. fault' = IF \E d \in Conns : DanglingHandle(d) THEN "uv_closing" ELSE fault
  BY DEF OnSignal, WalkCloseAll, TouchHandles
<1>6. stack' = stack /\ undercut' = undercut /\ Depth' = 1
  BY <1>2 DEF OnSignal, Depth
<1>7. Shape' /\ Stopped' /\ Ended'
  <2>1. Shape'
    BY <1>2, <1>3, <1>6 DEF Shape
  <2>2. stack' # <<>>
    BY <1>2, <1>6 DEF Depth
  <2>. QED
    BY <1>6, <2>1, <2>2 DEF Stopped, Ended
<1>8. Lists'
  BY <1>2, <1>3, <1>4, <1>6 DEF Lists
<1>9. Served'
  BY <1>2, <1>3, <1>4, <1>6 DEF Served, NotifyingAt
<1>10. MemoryFaults'
  BY <1>2, <1>4, <1>5, WalkFaults
<1>. QED
  BY <1>1, <1>4, <1>7, <1>8, <1>9, <1>10 DEF IInv

\* The record laure_conn_accept leaves, accepted or refused.
LEMMA AcceptedFields ==
    /\ LET r == [NewConn EXCEPT !.mem = "live", !.handle = "open",
                                 !.reading = ~Callable("connect")]
       IN  /\ RecOK(r) /\ r.mem = "live" /\ r.handle = "open"
           /\ r.closeCb = "NULL" /\ (r.reading <=> ~Callable("connect"))
    /\ LET r == [UvClosed(NewConn, "NULL") EXCEPT !.mem = "freed"]
       IN  /\ RecOK(r) /\ r.mem = "freed" /\ r.handle = "closing" /\ r.closeCb = "NULL"
  BY DEF NewConn, UvClosed, RecOK, Callable

LEMMA AcceptInv ==
    ASSUME IInv, NEW c \in Conns, Accept(c) PROVE IInv'
<1>1. TypeOK'
  BY NetworkTypes DEF Network, IInv
<1>2. Depth = 1 /\ stack[1].q = {} /\ fault = "none"
  BY ServingDepth DEF Accept
<1>3. /\ TypeOK /\ \A d \in Conns : RecOK(conn[d])
      /\ Shape /\ Lists /\ Served
  BY DEF IInv
<1>4. conn[c].mem = "none" /\ conn[c].handle = "none"
  BY <1>3 DEF Accept, RecOK
<1>5. /\ \A d \in Conns \ {c} : conn'[d] = conn[d]
      /\ RecOK(conn'[c]) /\ conn'[c].mem = "live" /\ conn'[c].handle = "open"
      /\ conn'[c].closeCb = "NULL" /\ (conn'[c].reading <=> ~Callable("connect"))
  <2>1. /\ \A d \in Conns \ {c} : conn'[d] = conn[d]
        /\ conn'[c] = [NewConn EXCEPT !.mem = "live", !.handle = "open",
                                      !.reading = ~Callable("connect")]
    BY <1>3 DEF Accept, TypeOK
  <2>. QED
    BY <2>1, AcceptedFields
<1>6. UNCHANGED <<closing, srvh, undercut>>
  BY DEF Accept, srvVars
<1>7. /\ stack'[1] = stack[1]
      /\ ~Callable("connect") => Depth' = 1
      /\ Callable("connect") => /\ Depth' = 2 /\ stack'[2].q = {} /\ stack'[2].c = c
                                /\ stack'[2].fn = "laure_conn_accept"
  <2>1. CASE Callable("connect")
    <3>1. stack' = Append(stack, Frame("laure_conn_accept", c, 0))
      BY <2>1 DEF Accept
    <3>. QED
      BY <1>2, <1>3, <2>1, <3>1, PushCallback DEF FnNames, ConnFns
  <2>2. CASE ~Callable("connect")
    BY <1>2, <2>2 DEF Accept, Depth
  <2>. QED
    BY <2>1, <2>2
<1>8. MemoryFaults'
  <2>1. fault' = IF \E d \in Conns : DanglingHandle(d) THEN "uv_closing" ELSE fault
    BY DEF Accept, TouchHandles
  <2>2. \A d \in Conns : conn[d].mem = "freed" =>
           conn'[d].mem = "freed" /\ conn'[d].closeCb = conn[d].closeCb
    BY <1>4, <1>5
  <2>. QED
    BY <1>2, <2>1, <2>2, WalkFaults
<1>9. Shape'
  BY <1>2, <1>3, <1>7 DEF Shape, ConnFns
<1>10. Stopped' /\ Ended'
  <2>1. stack' # <<>>
    BY <1>7 DEF Depth
  <2>. QED
    BY <1>7, <2>1 DEF Stopped, Ended
<1>11. Lists'
  BY <1>2, <1>3, <1>4, <1>5, <1>6, <1>7 DEF Lists
<1>12. Served'
  <2>1. /\ \A d \in Conns : ~NotifyingAt(d, 2)' /\ ~NotifyingAt(d, 4)'
        /\ \A d \in Conns : ~NotifyingAt(d, 2) /\ ~NotifyingAt(d, 4)
    BY <1>2, <1>7 DEF NotifyingAt
  <2>2. \A d \in Conns : conn[d].handle = "open" => conn[d].reading
    BY <1>2, <1>3 DEF Served
  <2>3. ASSUME NEW d \in Conns
        PROVE  /\ conn'[d].mem = "live" /\ conn'[d].handle = "closed" =>
                     conn'[d].closeCb # "on_handle_closed"
               /\ conn'[d].handle = "open" /\ ~conn'[d].reading =>
                     d = c /\ Callable("connect")
    <3>1. CASE d = c
      BY <1>5, <3>1
    <3>2. CASE d # c
      BY <1>3, <1>5, <2>1, <2>2, <3>2 DEF Served
    <3>. QED
      BY <3>1, <3>2
  <2>4. 2 <= Depth' => stack'[2].c = c /\ stack'[2].fn = "laure_conn_accept" /\ ~(3 <= Depth')
    BY <1>7
  <2>5. Callable("connect") => 2 <= Depth'
    BY <1>7
  <2>. HIDE DEF Callable
  <2>. QED
    BY <1>5, <2>1, <2>3, <2>4, <2>5 DEF Served
<1>13. \A d \in Conns : RecOK(conn'[d])
  BY <1>3, <1>5
<1>. QED
  BY <1>1, <1>8, <1>9, <1>10, <1>11, <1>12, <1>13 DEF IInv

LEMMA AcceptFailsInv ==
    ASSUME IInv, NEW c \in Conns, AcceptFails(c) PROVE IInv'
<1>1. TypeOK'
  BY NetworkTypes DEF Network, IInv
<1>2. Depth = 1 /\ stack[1].q = {} /\ fault = "none"
  BY ServingDepth DEF AcceptFails
<1>3. /\ TypeOK /\ \A d \in Conns : RecOK(conn[d])
      /\ Shape /\ Lists /\ Served
  BY DEF IInv
<1>4. conn[c].mem = "none" /\ conn[c].handle = "none"
  BY <1>3 DEF AcceptFails, RecOK
<1>5. /\ \A d \in Conns \ {c} : conn'[d] = conn[d]
      /\ RecOK(conn'[c]) /\ conn'[c].mem = "freed" /\ conn'[c].handle = "closing"
      /\ conn'[c].closeCb = "NULL"
  <2>1. /\ \A d \in Conns \ {c} : conn'[d] = conn[d]
        /\ conn'[c] = [UvClosed(NewConn, "NULL") EXCEPT !.mem = "freed"]
    BY <1>3 DEF AcceptFails, TypeOK
  <2>. QED
    BY <2>1, AcceptedFields
<1>6. UNCHANGED <<stack, srvh, undercut>> /\ closing' = closing \cup {c} /\ Depth' = 1
  BY <1>2 DEF AcceptFails, srvVars, Depth
<1>7. MemoryFaults'
  <2>1. fault' = IF \E d \in Conns : DanglingHandle(d) THEN "uv_closing" ELSE fault
    BY DEF AcceptFails, TouchHandles
  <2>2. \A d \in Conns : conn[d].mem = "freed" =>
           conn'[d].mem = "freed" /\ conn'[d].closeCb = conn[d].closeCb
    BY <1>4, <1>5
  <2>. QED
    BY <1>2, <2>1, <2>2, WalkFaults
<1>8. Shape'
  BY <1>2, <1>3, <1>6 DEF Shape
<1>9. Stopped' /\ Ended'
  <2>1. stack' # <<>>
    BY <1>6 DEF Depth
  <2>. QED
    BY <1>6, <2>1 DEF Stopped, Ended
<1>10. Lists'
  BY <1>2, <1>3, <1>4, <1>5, <1>6 DEF Lists
<1>11. Served'
  BY <1>2, <1>3, <1>5, <1>6 DEF Served, NotifyingAt
<1>12. \A d \in Conns : RecOK(conn'[d])
  BY <1>3, <1>5
<1>. QED
  BY <1>1, <1>7, <1>8, <1>9, <1>10, <1>11, <1>12 DEF IInv

LEMMA NetworkInv == IInv /\ Network => IInv'
<1>. SUFFICES ASSUME IInv, Network PROVE IInv'
  OBVIOUS
<1>1. TypeOK' /\ TypeOK
  BY NetworkTypes DEF IInv
<1>2. CASE OnTick
  <2>1. /\ Polling /\ srvh = "open"
        /\ stack' = Append(stack, Frame("on_tick", NoConn, 0))
        /\ UNCHANGED <<conn, closing, srvh, undercut, fault>>
    BY <1>2 DEF OnTick, srvVars
  <2>2. \A d \in Conns : RecOK(conn'[d])
    BY <2>1 DEF IInv
  <2>. QED
    BY <1>1, <2>1, <2>2, CallInv
<1>3. ASSUME NEW c \in Conns, WriteDone(c) PROVE IInv'
  <2>. DEFINE r == [conn[c] EXCEPT !.pend = @ - 1]
  <2>1. conn[c] \in ConnRecs /\ RecOK(conn[c]) /\ conn[c].handle = "open"
    BY <1>1, <1>3 DEF IInv, TypeOK, WriteDone
  <2>2. conn' = [conn EXCEPT ![c] = r] /\ UNCHANGED <<closing, stack, srvh, undercut, fault>>
    BY <1>3 DEF WriteDone, srvVars
  <2>3. conn'[c] = r
    BY <1>1, <2>2 DEF TypeOK
  <2>4. r \in ConnRecs
    <3>1. conn'[c] \in ConnRecs
      BY <1>1 DEF TypeOK
    <3>. HIDE DEF r
    <3>. QED
      BY <2>3, <3>1
  <2>5. /\ r.mem = conn[c].mem /\ r.handle = conn[c].handle /\ r.state = conn[c].state
        /\ r.closeCb = conn[c].closeCb /\ r.reading = conn[c].reading
        /\ r.orphan = conn[c].orphan
    BY <2>1 DEF ConnRecs
  <2>. HIDE DEF r
  <2>6. RecOK(r)
    BY <2>1, <2>5 DEF RecOK
  <2>. QED
    BY <1>1, <2>2, <2>4, <2>5, <2>6, Touch
<1>4. ASSUME NEW c \in Conns, ReadEof(c) PROVE IInv'
  <2>1. conn[c].handle = "open" /\ RecOK(conn[c])
    BY <1>4 DEF IInv, ReadEof, Readable
  <2>2. conn[c].mem = "live" /\ conn[c].state # "CLOSE"
    BY <2>1 DEF RecOK
  <2>3. LaureConnClose(c) /\ UNCHANGED <<stack, srvh, undercut, fault>>
    BY <1>4, <2>2 DEF ReadEof, srvVars
  <2>. QED
    BY <1>1, <2>2, <2>3, CloseInv
<1>. QED
  BY <1>2, <1>3, <1>4, ReadTcpInv, ReadHttpInv, SignalInv, AcceptInv, AcceptFailsInv
     DEF Network

-----------------------------------------------------------------------------
(* Steps of the loop itself. *)

LEMMA LoopOnTop ==
    ASSUME NEW s \in Seq(Frames), Len(s) \in {1, 3, 5}
    PROVE  s # <<>> /\ Len(s) # 0 /\ Len(s) \in 1..Len(s)
  OBVIOUS

\* A loop's frame on top of the stack is given another list.
LEMMA SetQueue ==
    ASSUME NEW s \in Seq(Frames), Len(s) \in {1, 3, 5}, NEW q \in SUBSET Conns,
           NEW t, t = [s EXCEPT ![Len(s)].q = q]
    PROVE  /\ t \in Seq(Frames) /\ Len(t) = Len(s)
           /\ Len(s) = 1 => t[1].fn = s[1].fn /\ t[1].c = s[1].c /\ t[1].q = q
           /\ Len(s) = 3 => /\ t[1] = s[1] /\ t[2] = s[2]
                            /\ t[3].fn = s[3].fn /\ t[3].c = s[3].c /\ t[3].q = q
           /\ Len(s) = 5 => /\ t[1] = s[1] /\ t[2] = s[2] /\ t[3] = s[3] /\ t[4] = s[4]
                            /\ t[5].fn = s[5].fn /\ t[5].c = s[5].c /\ t[5].q = q
<1>. DEFINE f == [s[Len(s)] EXCEPT !.q = q]
<1>1. t = [s EXCEPT ![Len(s)] = f]
  OBVIOUS
<1>2. s # <<>> /\ s[Len(s)] \in Frames
  <2>1. Len(s) # 0 /\ Len(s) \in 1..Len(s)
    BY LoopOnTop
  <2>2. s # <<>>
    BY <2>1
  <2>3. s[Len(s)] \in Frames
    BY <2>1, ElementOfSeq
  <2>. QED
    BY <2>2, <2>3
<1>3. f \in Frames /\ f.fn = s[Len(s)].fn /\ f.c = s[Len(s)].c /\ f.q = q
  BY <1>2 DEF Frames
<1>. HIDE DEF f
<1>4. t \in Seq(Frames)
  BY <1>1, <1>2, <1>3, SetTop
<1>5. /\ Len(t) = Len(s)
      /\ Len(s) = 1 => t[1] = f
      /\ Len(s) = 3 => t[1] = s[1] /\ t[2] = s[2] /\ t[3] = f
      /\ Len(s) = 5 => /\ t[1] = s[1] /\ t[2] = s[2] /\ t[3] = s[3]
                       /\ t[4] = s[4] /\ t[5] = f
  BY <1>1, <1>2, <1>3, SetTopAt
<1>. QED
  BY <1>3, <1>4, <1>5

LEMMA TakeClosingInv ==
    ASSUME IInv, TakeClosing PROVE IInv'
<1>1. TypeOK'
  BY LoopTypes DEF IInv
<1>2. /\ TypeOK /\ \A c \in Conns : RecOK(conn[c])
      /\ Shape /\ Stopped /\ Lists /\ Served
  BY DEF IInv
<1>3. Depth \in {1, 3, 5} /\ stack[Depth].q = {} /\ fault = "none"
  BY LoopDepth DEF TakeClosing, Polling
<1>4. closing # {} \/ srvh = "closing"
  BY DEF TakeClosing
<1>5. Depth # 5
  BY <1>2, <1>4 DEF Stopped
<1>6. /\ UNCHANGED <<conn, undercut, fault>> /\ closing' = {}
      /\ srvh' = IF srvh = "closing" THEN "none" ELSE srvh
  BY DEF TakeClosing
<1>7. /\ Depth' = Depth
      /\ Depth = 1 => /\ stack'[1].fn = stack[1].fn /\ stack'[1].c = stack[1].c
                      /\ stack'[1].q = closing
      /\ Depth = 3 => /\ stack'[1] = stack[1] /\ stack'[2] = stack[2]
                      /\ stack'[3].fn = stack[3].fn /\ stack'[3].c = stack[3].c
                      /\ stack'[3].q = closing
  <2>1. /\ stack \in Seq(Frames) /\ closing \in SUBSET Conns
        /\ stack' = [stack EXCEPT ![Len(stack)].q = closing]
    BY <1>2 DEF TypeOK, TakeClosing, Depth
  <2>. QED
    BY <1>3, <2>1, SetQueue DEF Depth
<1>8. Shape'
  BY <1>2, <1>3, <1>5, <1>7 DEF Shape
<1>9. Stopped'
  BY <1>2, <1>3, <1>5, <1>6, <1>7 DEF Stopped, TypeOK
<1>10. Ended'
  BY <1>3, <1>7 DEF Ended, Depth
<1>11. Lists'
  <2>1. CASE Depth = 1
    BY <1>2, <1>3, <1>6, <1>7, <2>1 DEF Lists
  <2>2. CASE Depth = 3
    BY <1>2, <1>3, <1>6, <1>7, <2>2 DEF Lists
  <2>. QED
    BY <1>3, <1>5, <2>1, <2>2
<1>12. Served'
  <2>1. CASE Depth = 1
    BY <1>2, <1>6, <1>7, <2>1 DEF Served, NotifyingAt
  <2>2. CASE Depth = 3
    BY <1>2, <1>6, <1>7, <2>2 DEF Served, NotifyingAt
  <2>. QED
    BY <1>3, <1>5, <2>1, <2>2
<1>13. MemoryFaults' /\ \A c \in Conns : RecOK(conn'[c])
  BY <1>2, <1>3, <1>6 DEF MemoryFaults
<1>. QED
  BY <1>1, <1>8, <1>9, <1>10, <1>11, <1>12, <1>13 DEF IInv

\* What is known of the handle that a loop is about to finish.
LEMMA FinishFacts ==
    ASSUME IInv, Looping, NEW c \in Conns, c \in Top.q
    PROVE  /\ Depth \in {1, 3} /\ c \in stack[Depth].q /\ fault = "none"
           /\ conn[c].handle = "closing" /\ c \notin closing
           /\ Depth = 3 => c \notin stack[1].q /\ srvh = "none" /\ closing = {}
           /\ \A i \in {2, 4} : ~NotifyingAt(c, i)
<1>1. Depth \in {1, 3, 5} /\ Top = stack[Depth] /\ fault = "none"
  BY LoopDepth
<1>2. Shape /\ Stopped /\ Lists /\ Served
  BY DEF IInv
<1>3. Depth # 5
  BY <1>1, <1>2 DEF Shape
<1>4. Depth \in {1, 3} /\ c \in stack[Depth].q
  BY <1>1, <1>3
<1>5. conn[c].handle = "closing" /\ c \notin closing /\ (Depth = 3 => c \notin stack[1].q)
  <2>1. CASE Depth = 1
    BY <1>2, <1>4, <2>1 DEF Lists
  <2>2. CASE Depth = 3
    BY <1>2, <1>4, <2>2 DEF Lists
  <2>. QED
    BY <1>4, <2>1, <2>2
<1>6. Depth = 3 => srvh = "none" /\ closing = {}
  BY <1>2, <1>4 DEF Stopped
<1>7. \A i \in {2, 4} : ~NotifyingAt(c, i)
  BY <1>2, <1>5 DEF Served
<1>. QED
  BY <1>1, <1>4, <1>5, <1>6, <1>7

\* The list without the handle that is done.
LEMMA DrainedAt ==
    ASSUME TypeOK, Depth \in {1, 3}, NEW c \in Conns, NEW t, t = Drained(c)
    PROVE  /\ t \in Seq(Frames) /\ Len(t) = Depth
           /\ Depth = 1 => /\ t[1].fn = stack[1].fn /\ t[1].c = stack[1].c
                           /\ t[1].q = stack[1].q \ {c}
           /\ Depth = 3 => /\ t[1] = stack[1] /\ t[2] = stack[2]
                           /\ t[3].fn = stack[3].fn /\ t[3].c = stack[3].c
                           /\ t[3].q = stack[3].q \ {c}
<1>. DEFINE f == [stack[Len(stack)] EXCEPT !.q = @ \ {c}]
<1>1. stack \in Seq(Frames) /\ Len(stack) \in {1, 3} /\ Depth = Len(stack)
  BY DEF TypeOK, Depth
<1>2. t = [stack EXCEPT ![Len(stack)] = f]
  BY <1>1 DEF Drained
<1>3. Len(stack) # 0 /\ Len(stack) \in 1..Len(stack)
  BY <1>1
<1>4. stack # <<>>
  BY <1>3
<1>5. stack[Len(stack)] \in Frames
  BY <1>1, <1>3, ElementOfSeq
<1>6. /\ f \in Frames /\ f.fn = stack[Len(stack)].fn /\ f.c = stack[Len(stack)].c
      /\ f.q = stack[Len(stack)].q \ {c}
  BY <1>5 DEF Frames
<1>. HIDE DEF f
<1>7. t \in Seq(Frames)
  BY <1>1, <1>2, <1>4, <1>6, SetTop
<1>8. /\ Len(t) = Len(stack)
      /\ Len(stack) = 1 => t[1] = f
      /\ Len(stack) = 3 => t[1] = stack[1] /\ t[2] = stack[2] /\ t[3] = f
  BY <1>1, <1>2, <1>4, <1>6, SetTopAt
<1>9. CASE Depth = 1
  BY <1>1, <1>6, <1>7, <1>8, <1>9
<1>10. CASE Depth = 3
  BY <1>1, <1>6, <1>7, <1>8, <1>10
<1>. QED
  BY <1>9, <1>10

\* A closing handle is finished without a call to PHP.
LEMMA FinishedInv ==
    ASSUME IInv, TypeOK', Looping, NEW c \in Conns, c \in Top.q,
           NEW r, conn' = [conn EXCEPT ![c] = r],
           RecOK(r), r.handle = "closed", r.closeCb = conn[c].closeCb,
           r.mem = IF r.closeCb = "NULL" THEN "live" ELSE "freed",
           stack' = Drained(c), conn[c].mem = "live",
           UNCHANGED <<closing, srvh, undercut, fault>>
    PROVE  IInv'
<1>1. /\ Depth \in {1, 3} /\ c \in stack[Depth].q /\ fault = "none"
      /\ conn[c].handle = "closing" /\ c \notin closing
      /\ Depth = 3 => c \notin stack[1].q /\ srvh = "none" /\ closing = {}
      /\ \A i \in {2, 4} : ~NotifyingAt(c, i)
  BY FinishFacts
<1>2. /\ TypeOK /\ \A d \in Conns : RecOK(conn[d])
      /\ Shape /\ Stopped /\ Lists /\ Served
  BY DEF IInv
<1>3. /\ Depth' = Depth
      /\ Depth = 1 => /\ stack'[1].fn = stack[1].fn /\ stack'[1].c = stack[1].c
                      /\ stack'[1].q = stack[1].q \ {c}
      /\ Depth = 3 => /\ stack'[1] = stack[1] /\ stack'[2] = stack[2]
                      /\ stack'[3].fn = stack[3].fn /\ stack'[3].c = stack[3].c
                      /\ stack'[3].q = stack[3].q \ {c}
  <2>1. Len(stack') = Depth'
    BY DEF Depth
  <2>. QED
    BY <1>1, <1>2, <2>1, DrainedAt
<1>4. conn'[c] = r /\ \A d \in Conns \ {c} : conn'[d] = conn[d]
  BY <1>2 DEF TypeOK
<1>5. Shape'
  <2>1. CASE Depth = 1
    BY <1>2, <1>3, <2>1 DEF Shape
  <2>2. CASE Depth = 3
    BY <1>2, <1>3, <2>2 DEF Shape
  <2>. QED
    BY <1>1, <2>1, <2>2
<1>6. Stopped' /\ Ended'
  <2>1. Stopped'
    <3>1. 3 <= Depth => \A d \in Conns : conn'[d].handle # "open"
      BY <1>2, <1>4 DEF Stopped
    <3>. QED
      BY <1>1, <1>3, <3>1 DEF Stopped
  <2>2. Ended'
    BY <1>1, <1>3 DEF Ended, Depth
  <2>. QED
    BY <2>1, <2>2
<1>7. Lists'
  <2>1. CASE Depth = 1
    BY <1>1, <1>2, <1>3, <1>4, <2>1 DEF Lists
  <2>2. CASE Depth = 3
    BY <1>1, <1>2, <1>3, <1>4, <2>2 DEF Lists
  <2>. QED
    BY <1>1, <2>1, <2>2
<1>8. Served'
  <2>1. CASE Depth = 1
    BY <1>1, <1>2, <1>3, <1>4, <2>1 DEF Served, NotifyingAt
  <2>2. CASE Depth = 3
    <3>1. \A d \in Conns, i \in {2, 4} : NotifyingAt(d, i)' <=> NotifyingAt(d, i)
      BY <1>3, <2>2 DEF NotifyingAt
    <3>2. \A d \in Conns \ {c} :
             /\ NotifyingAt(d, 2)' <=> NotifyingAt(d, 2)
             /\ NotifyingAt(d, 4)' <=> NotifyingAt(d, 4)
      BY <3>1
    <3>3. ~NotifyingAt(c, 2)' /\ ~NotifyingAt(c, 4)'
      BY <1>1, <3>1
    <3>4. stack[2].fn \in ConnFns /\ stack[2].c = c /\ r.mem = "freed" => c \in undercut
      BY <1>1, <1>2, <2>2 DEF Served, RecOK
    <3>5. r.mem = "freed" => r.closeCb = "on_handle_closed"
      BY DEF RecOK
    <3>. QED
      BY <1>2, <1>3, <1>4, <2>2, <3>2, <3>3, <3>4, <3>5 DEF Served
  <2>. QED
    BY <1>1, <2>1, <2>2
<1>9. MemoryFaults' /\ \A d \in Conns : RecOK(conn'[d])
  BY <1>1, <1>2, <1>4 DEF MemoryFaults
<1>. QED
  BY <1>5, <1>6, <1>7, <1>8, <1>9 DEF IInv

\* on_handle_closed calls the close callback.
LEMMA NotifyInv ==
    ASSUME IInv, TypeOK', Looping, NEW c \in Conns, c \in Top.q,
           NEW r, conn' = [conn EXCEPT ![c] = r],
           RecOK(r), r.handle = "closed", r.mem = "live",
           r.closeCb = "on_handle_closed", conn[c].closeCb = "on_handle_closed",
           PushedOn(Drained(c), Frame("on_handle_closed", c, 0), stack'),
           UNCHANGED <<closing, srvh, undercut, fault>>
    PROVE  IInv'
<1>1. /\ Depth \in {1, 3} /\ c \in stack[Depth].q /\ fault = "none"
      /\ conn[c].handle = "closing" /\ c \notin closing
      /\ Depth = 3 => c \notin stack[1].q /\ srvh = "none" /\ closing = {}
      /\ \A i \in {2, 4} : ~NotifyingAt(c, i)
  BY FinishFacts
<1>2. /\ TypeOK /\ \A d \in Conns : RecOK(conn[d])
      /\ Shape /\ Stopped /\ Lists /\ Served
  BY DEF IInv
<1>. DEFINE f == Frame("on_handle_closed", c, 0)
<1>3. f \in Frames /\ f.fn = "on_handle_closed" /\ f.c = c /\ f.q = {}
  BY DEF Frame, Frames, FnNames
<1>. HIDE DEF f
<1>4. /\ Depth' = Depth + 1
      /\ Depth = 1 => /\ stack'[1].fn = stack[1].fn /\ stack'[1].c = stack[1].c
                      /\ stack'[1].q = stack[1].q \ {c} /\ stack'[2] = f
      /\ Depth = 3 => /\ stack'[1] = stack[1] /\ stack'[2] = stack[2]
                      /\ stack'[3].fn = stack[3].fn /\ stack'[3].c = stack[3].c
                      /\ stack'[3].q = stack[3].q \ {c} /\ stack'[4] = f
  <2>. DEFINE t == Drained(c)
  <2>1. stack' = Append(t, f) /\ Len(stack') = Depth'
    BY DEF f, Depth, PushedOn
  <2>2. /\ t \in Seq(Frames) /\ Len(t) = Depth
        /\ Depth = 1 => /\ t[1].fn = stack[1].fn /\ t[1].c = stack[1].c
                        /\ t[1].q = stack[1].q \ {c}
        /\ Depth = 3 => /\ t[1] = stack[1] /\ t[2] = stack[2]
                        /\ t[3].fn = stack[3].fn /\ t[3].c = stack[3].c
                        /\ t[3].q = stack[3].q \ {c}
    BY <1>1, <1>2, DrainedAt
  <2>. HIDE DEF t
  <2>3. /\ Len(t) = 1 => Len(stack') = 2 /\ stack'[1] = t[1] /\ stack'[2] = f
        /\ Len(t) = 3 => /\ Len(stack') = 4 /\ stack'[1] = t[1] /\ stack'[2] = t[2]
                         /\ stack'[3] = t[3] /\ stack'[4] = f
    BY <1>3, <2>1, <2>2, PushAt
  <2>4. CASE Depth = 1
    BY <2>1, <2>2, <2>3, <2>4
  <2>5. CASE Depth = 3
    BY <2>1, <2>2, <2>3, <2>5
  <2>. QED
    BY <1>1, <2>4, <2>5
<1>5. conn'[c] = r /\ \A d \in Conns \ {c} : conn'[d] = conn[d]
  BY <1>2 DEF TypeOK
<1>6. Shape'
  <2>1. CASE Depth = 1
    BY <1>2, <1>3, <1>4, <2>1 DEF Shape
  <2>2. CASE Depth = 3
    BY <1>2, <1>3, <1>4, <2>2 DEF Shape
  <2>. QED
    BY <1>1, <2>1, <2>2
<1>7. Stopped' /\ Ended'
  <2>1. Stopped'
    <3>1. 3 <= Depth => \A d \in Conns : conn'[d].handle # "open"
      BY <1>2, <1>5 DEF Stopped
    <3>2. CASE Depth = 1
      BY <1>4, <3>2 DEF Stopped
    <3>3. CASE Depth = 3
      BY <1>1, <1>4, <3>1, <3>3 DEF Stopped
    <3>. QED
      BY <1>1, <3>2, <3>3
  <2>2. Ended'
    BY <1>1, <1>4 DEF Ended, Depth
  <2>. QED
    BY <2>1, <2>2
<1>8. Lists'
  <2>1. CASE Depth = 1
    BY <1>1, <1>2, <1>3, <1>4, <1>5, <2>1 DEF Lists
  <2>2. CASE Depth = 3
    BY <1>1, <1>2, <1>3, <1>4, <1>5, <2>2 DEF Lists
  <2>. QED
    BY <1>1, <2>1, <2>2
<1>9. Served'
  <2>1. CASE Depth = 1
    BY <1>1, <1>2, <1>3, <1>4, <1>5, <2>1 DEF Served, NotifyingAt, ConnFns
  <2>2. CASE Depth = 3
    BY <1>1, <1>2, <1>3, <1>4, <1>5, <2>2 DEF Served, NotifyingAt
  <2>. QED
    BY <1>1, <2>1, <2>2
<1>10. MemoryFaults' /\ \A d \in Conns : RecOK(conn'[d])
  BY <1>1, <1>2, <1>5 DEF MemoryFaults
<1>. QED
  BY <1>6, <1>7, <1>8, <1>9, <1>10 DEF IInv

LEMMA FinishInv == IInv /\ Finish => IInv'
<1>. SUFFICES ASSUME IInv, Finish PROVE IInv'
  OBVIOUS
<1>1. TypeOK' /\ TypeOK
  BY LoopTypes DEF IInv
<1>2. ASSUME NEW c \in Conns, FinishDangling(c) PROVE IInv'
  <2>1. conn[c].mem = "freed" /\ conn[c].handle = "closing" /\ RecOK(conn[c])
    BY <1>2, FinishFacts DEF FinishDangling, IInv
  <2>2. conn[c].closeCb = "NULL"
    BY <1>1, <2>1 DEF RecOK, TypeOK, ConnRecs
  <2>3. UNCHANGED <<conn, closing, stack, srvh, undercut>> /\ fault' = "uv_closing"
    BY <1>2 DEF FinishDangling, srvVars
  <2>4. MemoryFaults'
    BY <2>1, <2>2, <2>3 DEF MemoryFaults
  <2>. QED
    BY <1>1, <2>3, <2>4, Quiet
<1>3. ASSUME NEW c \in Conns, FinishWalked(c) PROVE IInv'
  <2>. DEFINE r == FinishedRec(conn[c])
  <2>1. /\ Looping /\ c \in Top.q /\ conn[c].mem = "live" /\ conn[c].closeCb = "NULL"
        /\ conn' = [conn EXCEPT ![c] = r] /\ stack' = Drained(c)
        /\ UNCHANGED <<closing, srvh, undercut, fault>>
    BY <1>3 DEF FinishWalked, srvVars
  <2>2. conn[c] \in ConnRecs /\ RecOK(conn[c]) /\ conn[c].handle = "closing"
    BY <1>1, <2>1, FinishFacts DEF IInv, TypeOK
  <2>3. RecOK(r) /\ r.handle = "closed" /\ r.closeCb = "NULL" /\ r.mem = "live"
    BY <2>1, <2>2, FinishedOK, FinishedFields
  <2>. HIDE DEF r
  <2>. QED
    BY <1>1, <2>1, <2>3, FinishedInv
<1>4. ASSUME NEW c \in Conns, OnHandleClosed(c) PROVE IInv'
  <2>. DEFINE r == FinishedRec(conn[c])
              q == [r EXCEPT !.mem = "freed"]
  <2>1. /\ Looping /\ c \in Top.q /\ conn[c].mem = "live"
        /\ conn[c].closeCb = "on_handle_closed"
        /\ UNCHANGED <<closing, srvh, undercut, fault>>
    BY <1>4 DEF OnHandleClosed, srvVars
  <2>2. conn[c] \in ConnRecs /\ RecOK(conn[c]) /\ conn[c].handle = "closing"
    BY <1>1, <2>1, FinishFacts DEF IInv, TypeOK
  <2>3. /\ RecOK(r) /\ r.handle = "closed" /\ r.mem = "live"
        /\ r.closeCb = "on_handle_closed" /\ r \in ConnRecs
    BY <2>1, <2>2, FinishedOK, FinishedFields, RecTypes
  <2>4. \/ /\ conn' = [conn EXCEPT ![c] = r]
           /\ stack' = Append(Drained(c), Frame("on_handle_closed", c, 0))
        \/ conn' = [conn EXCEPT ![c] = q] /\ stack' = Drained(c)
    BY <1>4 DEF OnHandleClosed
  <2>. HIDE DEF r
  <2>5. RecOK(q) /\ q.handle = "closed" /\ q.mem = "freed" /\ q.closeCb = "on_handle_closed"
    <3>1. /\ q.mem = "freed" /\ q.handle = r.handle /\ q.closeCb = r.closeCb
          /\ q.state = r.state /\ q.pend = r.pend /\ q.orphan = r.orphan
          /\ q.reading = r.reading
      BY <2>3 DEF ConnRecs
    <3>. HIDE DEF q
    <3>. QED
      BY <2>3, <3>1 DEF RecOK
  <2>. HIDE DEF q
  <2>6. CASE stack' = Append(Drained(c), Frame("on_handle_closed", c, 0))
             /\ conn' = [conn EXCEPT ![c] = r]
    BY <1>1, <2>1, <2>3, <2>6, NotifyInv DEF PushedOn
  <2>7. CASE conn' = [conn EXCEPT ![c] = q] /\ stack' = Drained(c)
    BY <1>1, <2>1, <2>5, <2>7, FinishedInv
  <2>. QED
    BY <2>4, <2>6, <2>7
<1>. QED
  BY <1>2, <1>3, <1>4 DEF Finish

\* What is left when the innermost frame is.
LEMMA PopAt ==
    ASSUME TypeOK, stack # <<>>, stack' = Pop
    PROVE  /\ Depth = 1 => Depth' = 0 /\ stack' = <<>>
           /\ Depth = 2 => Depth' = 1 /\ stack'[1] = stack[1]
           /\ Depth = 3 => Depth' = 2 /\ stack'[1] = stack[1] /\ stack'[2] = stack[2]
           /\ Depth = 4 => /\ Depth' = 3 /\ stack'[1] = stack[1] /\ stack'[2] = stack[2]
                           /\ stack'[3] = stack[3]
           /\ Depth = 5 => /\ Depth' = 4 /\ stack'[1] = stack[1] /\ stack'[2] = stack[2]
                           /\ stack'[3] = stack[3] /\ stack'[4] = stack[4]
<1>1. stack \in Seq(Frames) /\ stack' = SubSeq(stack, 1, Len(stack) - 1)
  BY DEF TypeOK, Pop, Depth
<1>. QED
  BY <1>1, LeaveAt DEF Depth

LEMMA ExitRunInv == IInv /\ ExitRun => IInv'
<1>. SUFFICES ASSUME IInv, ExitRun PROVE IInv'
  OBVIOUS
<1>1. TypeOK'
  BY LoopTypes DEF IInv
<1>2. /\ TypeOK /\ \A d \in Conns : RecOK(conn[d])
      /\ Shape /\ Stopped /\ Lists /\ Served
  BY DEF IInv
<1>3. Depth \in {1, 3, 5} /\ stack[Depth].q = {} /\ fault = "none" /\ stack # <<>>
  BY LoopDepth DEF ExitRun, Polling, Looping
<1>4. /\ Depth = 1 => Depth' = 0 /\ stack' = <<>>
      /\ Depth = 3 => Depth' = 2 /\ stack'[1] = stack[1] /\ stack'[2] = stack[2]
      /\ Depth = 5 => /\ Depth' = 4 /\ stack'[1] = stack[1] /\ stack'[2] = stack[2]
                      /\ stack'[3] = stack[3] /\ stack'[4] = stack[4]
  BY <1>2, <1>3, PopAt DEF ExitRun
<1>5. UNCHANGED <<conn, closing, srvh, undercut, fault>>
  BY DEF ExitRun, srvVars
<1>6. ~Alive
  BY DEF ExitRun
<1>7. Shape'
  <2>1. CASE Depth = 1
    BY <1>4, <2>1 DEF Shape
  <2>2. CASE Depth = 3
    BY <1>2, <1>4, <2>2 DEF Shape
  <2>3. CASE Depth = 5
    BY <1>2, <1>4, <2>3 DEF Shape
  <2>. QED
    BY <1>3, <2>1, <2>2, <2>3
<1>8. Stopped'
  <2>1. CASE Depth = 1
    BY <1>4, <2>1 DEF Stopped
  <2>2. CASE Depth = 3
    BY <1>4, <2>2 DEF Stopped
  <2>3. CASE Depth = 5
    BY <1>2, <1>4, <1>5, <2>3 DEF Stopped
  <2>. QED
    BY <1>3, <2>1, <2>2, <2>3
<1>9. Ended'
  <2>1. CASE Depth = 1
    <3>1. \A d \in Conns : ~(conn[d].handle = "open" /\ conn[d].reading)
      BY <1>6, Zenon DEF Alive
    <3>2. \A d \in Conns : conn[d].handle = "open" => conn[d].reading
      BY <1>2, <2>1 DEF Served
    <3>3. \A d \in Conns : conn[d].handle # "open"
      BY <3>1, <3>2, Zenon
    <3>. QED
      BY <1>5, <1>6, <3>3 DEF Ended, Alive
  <2>2. CASE Depth \in {3, 5}
    <3>1. Depth' # 0
      BY <1>4, <2>2
    <3>. QED
      BY <3>1 DEF Ended, Depth
  <2>. QED
    BY <1>3, <2>1, <2>2
<1>10. Lists'
  <2>1. CASE Depth = 1
    BY <1>2, <1>3, <1>4, <1>5, <2>1 DEF Lists
  <2>2. CASE Depth = 3
    BY <1>2, <1>3, <1>4, <1>5, <2>2 DEF Lists
  <2>3. CASE Depth = 5
    BY <1>2, <1>3, <1>4, <1>5, <2>3 DEF Lists
  <2>. QED
    BY <1>3, <2>1, <2>2, <2>3
<1>11. Served'
  <2>1. CASE Depth = 1
    BY <1>2, <1>4, <1>5, <1>6, <2>1 DEF Served, NotifyingAt, Alive
  <2>2. CASE Depth = 3
    BY <1>2, <1>4, <1>5, <2>2 DEF Served, NotifyingAt
  <2>3. CASE Depth = 5
    BY <1>2, <1>4, <1>5, <2>3 DEF Served, NotifyingAt
  <2>. QED
    BY <1>3, <2>1, <2>2, <2>3
<1>12. MemoryFaults' /\ \A d \in Conns : RecOK(conn'[d])
  BY <1>2, <1>3, <1>5 DEF MemoryFaults
<1>. QED
  BY <1>1, <1>7, <1>8, <1>9, <1>10, <1>11, <1>12 DEF IInv

-----------------------------------------------------------------------------
(* Callbacks return. *)

\* A callback of the outermost loop, other than the close callback, returns;
\* its connection is then read, or is closed.
LEMMA ReturnDown ==
    ASSUME IInv, TypeOK', InCallback, Top.fn # "on_handle_closed", stack' = Pop,
           UNCHANGED <<srvh, undercut, fault>>,
           \A d \in Conns :
              /\ RecOK(conn'[d])
              /\ conn'[d].mem = conn[d].mem
              /\ \/ /\ conn'[d].handle = conn[d].handle
                    /\ conn'[d].closeCb = conn[d].closeCb
                    /\ d \in closing' <=> d \in closing
                 \/ /\ conn[d].handle = "open" /\ conn'[d].handle = "closing"
                    /\ d \in closing'
              /\ conn'[d].handle = "open" => conn'[d].reading
    PROVE  IInv'
<1>1. /\ TypeOK /\ \A d \in Conns : RecOK(conn[d])
      /\ Shape /\ Lists /\ Served /\ MemoryFaults
  BY DEF IInv
<1>2. Depth = 2 /\ Top = stack[2] /\ stack # <<>> /\ fault = "none"
  <2>1. Depth \in {2, 4} /\ Top = stack[Depth] /\ stack # <<>> /\ fault = "none"
    BY <1>1, TopOwner DEF Top, InCallback
  <2>2. Depth # 4
    BY <1>1, <2>1 DEF Shape
  <2>. QED
    BY <2>1, <2>2
<1>3. Depth' = 1 /\ stack'[1] = stack[1] /\ stack[1].q = {}
  <2>1. Depth' = 1 /\ stack'[1] = stack[1]
    BY <1>1, <1>2, PopAt
  <2>. QED
    BY <1>1, <1>2, <2>1 DEF Shape
<1>4. Shape'
  BY <1>1, <1>2, <1>3 DEF Shape
<1>5. Stopped' /\ Ended'
  <2>1. stack' # <<>>
    BY <1>3 DEF Depth
  <2>. QED
    BY <1>3, <2>1 DEF Stopped, Ended
<1>6. Lists'
  BY <1>1, <1>2, <1>3 DEF Lists
<1>7. Served'
  <2>1. \A d \in Conns : /\ ~NotifyingAt(d, 2) /\ ~NotifyingAt(d, 4)
                         /\ ~NotifyingAt(d, 2)' /\ ~NotifyingAt(d, 4)'
    BY <1>2, <1>3 DEF NotifyingAt
  <2>. QED
    BY <1>1, <1>2, <1>3, <2>1 DEF Served
<1>8. MemoryFaults'
  BY <1>2 DEF MemoryFaults
<1>. QED
  BY <1>4, <1>5, <1>6, <1>7, <1>8 DEF IInv

\* on_handle_closed frees its connection when the close callback returns.
LEMMA ReturnCloseInv == IInv /\ ReturnClose => IInv'
<1>. SUFFICES ASSUME IInv, ReturnClose PROVE IInv'
  OBVIOUS
<1>. DEFINE c == Top.c
            r == [conn[c] EXCEPT !.mem = "freed"]
<1>1. TypeOK'
  BY ReturnTypes DEF IInv, Return
<1>2. /\ TypeOK /\ \A d \in Conns : RecOK(conn[d])
      /\ Shape /\ Stopped /\ Lists /\ Served /\ MemoryFaults
  BY DEF IInv
<1>3. /\ InCallback /\ Top.fn = "on_handle_closed"
      /\ conn' = [conn EXCEPT ![c] = r] /\ stack' = Pop
      /\ UNCHANGED <<closing, srvh, undercut>>
      /\ fault' = IF conn[c].mem = "freed" THEN "double_free" ELSE fault
  BY DEF ReturnClose, Returns, srvVars
<1>4. /\ Depth \in {2, 4} /\ Top = stack[Depth] /\ stack # <<>> /\ fault = "none"
      /\ c \in Conns
  BY <1>2, <1>3, TopOwner DEF Top, InCallback
<1>5. conn[c].mem = "live" /\ conn[c].handle = "closed" /\ conn[c].closeCb = "on_handle_closed"
  <2>1. NotifyingAt(c, Depth)
    BY <1>3, <1>4 DEF NotifyingAt
  <2>. HIDE DEF c
  <2>2. NotifyingAt(c, 2) \/ NotifyingAt(c, 4)
    BY <1>4, <2>1
  <2>. QED
    BY <1>2, <1>4, <2>2 DEF Served
<1>6. fault' = "none"
  BY <1>3, <1>4, <1>5
<1>7. /\ conn'[c] = r /\ \A d \in Conns \ {c} : conn'[d] = conn[d]
      /\ RecOK(r) /\ r.mem = "freed" /\ r.handle = "closed"
      /\ r.closeCb = "on_handle_closed"
  <2>1. conn[c] \in ConnRecs /\ RecOK(conn[c])
    BY <1>2, <1>4 DEF TypeOK
  <2>2. conn'[c] = r /\ \A d \in Conns \ {c} : conn'[d] = conn[d]
    BY <1>2, <1>3, <1>4 DEF TypeOK
  <2>3. /\ r.mem = "freed" /\ r.handle = conn[c].handle /\ r.closeCb = conn[c].closeCb
        /\ r.state = conn[c].state /\ r.pend = conn[c].pend /\ r.orphan = conn[c].orphan
        /\ r.reading = conn[c].reading
    BY <2>1 DEF ConnRecs
  <2>. HIDE DEF r
  <2>. QED
    BY <1>5, <2>1, <2>2, <2>3 DEF RecOK
<1>8. /\ Depth = 2 => Depth' = 1 /\ stack'[1] = stack[1]
      /\ Depth = 4 => /\ Depth' = 3 /\ stack'[1] = stack[1] /\ stack'[2] = stack[2]
                      /\ stack'[3] = stack[3]
  BY <1>2, <1>3, <1>4, PopAt
<1>9. NotifyingAt(c, Depth)
  BY <1>3, <1>4 DEF NotifyingAt
<1>10. \A d \in Conns \ {c} : ~NotifyingAt(d, Depth)
  BY <1>4 DEF NotifyingAt
<1>. HIDE DEF r, c
<1>11. Shape'
  <2>1. CASE Depth = 2
    BY <1>2, <1>8, <2>1 DEF Shape
  <2>2. CASE Depth = 4
    BY <1>2, <1>8, <2>2 DEF Shape
  <2>. QED
    BY <1>4, <2>1, <2>2
<1>12. Stopped' /\ Ended'
  <2>0. Depth' # 0
    BY <1>4, <1>8
  <2>1. Ended'
    BY <2>0 DEF Ended, Depth
  <2>2. CASE Depth = 2
    BY <1>8, <2>1, <2>2 DEF Stopped
  <2>3. CASE Depth = 4
    BY <1>2, <1>3, <1>5, <1>7, <1>8, <2>1, <2>3 DEF Stopped
  <2>. QED
    BY <1>4, <2>2, <2>3
<1>13. Lists'
  <2>1. CASE Depth = 2
    BY <1>2, <1>3, <1>5, <1>7, <1>8, <2>1 DEF Lists
  <2>2. CASE Depth = 4
    BY <1>2, <1>3, <1>5, <1>7, <1>8, <2>2 DEF Lists
  <2>. QED
    BY <1>4, <2>1, <2>2
<1>14. Served'
  <2>1. CASE Depth = 2
    <3>1. \A d \in Conns : ~NotifyingAt(d, 2)' /\ ~NotifyingAt(d, 4)' /\ ~NotifyingAt(d, 4)
      BY <1>8, <2>1 DEF NotifyingAt
    <3>2. \A d \in Conns \ {c} : ~NotifyingAt(d, 2)
      BY <1>10, <2>1
    <3>3. stack[2].fn = "on_handle_closed"
      BY <1>9, <2>1 DEF NotifyingAt
    <3>. QED
      BY <1>2, <1>3, <1>7, <1>8, <2>1, <3>1, <3>2, <3>3 DEF Served, ConnFns
  <2>2. CASE Depth = 4
    <3>1. \A d \in Conns : /\ ~NotifyingAt(d, 4)'
                           /\ NotifyingAt(d, 2)' <=> NotifyingAt(d, 2)
      BY <1>8, <2>2 DEF NotifyingAt
    <3>2. \A d \in Conns \ {c} : ~NotifyingAt(d, 4)
      BY <1>10, <2>2
    <3>3. ~NotifyingAt(c, 2)
      BY <1>2, <1>4, <1>9, <2>2 DEF Served
    <3>. QED
      BY <1>2, <1>3, <1>5, <1>7, <1>8, <2>2, <3>1, <3>2, <3>3 DEF Served
  <2>. QED
    BY <1>4, <2>1, <2>2
<1>15. MemoryFaults' /\ \A d \in Conns : RecOK(conn'[d])
  BY <1>2, <1>6, <1>7 DEF MemoryFaults
<1>. QED
  BY <1>1, <1>11, <1>12, <1>13, <1>14, <1>15 DEF IInv

LEMMA ReturnInv == IInv /\ Return => IInv'
<1>. SUFFICES ASSUME IInv, Return PROVE IInv'
  OBVIOUS
<1>. DEFINE c == Top.c
<1>1. TypeOK' /\ TypeOK /\ Shape /\ Stopped /\ Served /\ \A d \in Conns : RecOK(conn[d])
  BY ReturnTypes DEF IInv
<1>2. InCallback
  BY DEF Return, ResumeFreed, ReturnConnect, ReturnReceive, ReturnRequest,
         ReturnTick, ReturnClose, Returns
<1>3. /\ Depth \in {2, 4} /\ Top = stack[Depth] /\ stack # <<>> /\ fault = "none"
      /\ Top.fn # "on_tick" => c \in Conns
  BY <1>1, <1>2, TopOwner DEF Top, InCallback
<1>4. Top.fn # "on_handle_closed" => Depth = 2 /\ Top = stack[2]
  BY <1>1, <1>3 DEF Shape
\* Only the connection whose connect callback is active is open and not read.
<1>5. Top.fn # "on_handle_closed" =>
         \A d \in Conns : conn[d].handle = "open" /\ ~conn[d].reading =>
            Top.fn = "laure_conn_accept" /\ d = c
  BY <1>1, <1>4 DEF Served
<1>6. CASE ResumeFreed
  <2>1. /\ Top.fn \in ConnFns /\ conn[c].mem = "freed" /\ fault' = "resume"
        /\ UNCHANGED <<conn, closing, stack, srvh, undercut>>
    BY <1>6 DEF ResumeFreed, srvVars
  <2>2. Depth = 2 /\ Top = stack[2] /\ c \in Conns
    BY <1>3, <1>4, <2>1 DEF ConnFns
  <2>3. c \in undercut
    BY <1>1, <2>1, <2>2 DEF Served
  <2>4. MemoryFaults'
    BY <2>1, <2>3 DEF MemoryFaults
  <2>. QED
    BY <1>1, <2>1, <2>4, Quiet
<1>7. CASE ReturnConnect
  <2>. DEFINE b == (conn[c].handle = "open")
              r == [conn[c] EXCEPT !.reading = b]
  <2>1. /\ Top.fn = "laure_conn_accept" /\ stack' = Pop /\ conn[c].mem = "live"
        /\ conn' = [conn EXCEPT ![c] = r]
        /\ UNCHANGED <<closing, srvh, undercut, fault>>
    BY <1>7 DEF ReturnConnect, Returns, srvVars
  <2>2. c \in Conns /\ conn[c] \in ConnRecs /\ RecOK(conn[c])
    BY <1>1, <1>3, <2>1 DEF TypeOK
  <2>3. conn'[c] = r /\ \A d \in Conns \ {c} : conn'[d] = conn[d]
    BY <1>1, <2>1, <2>2 DEF TypeOK
  <2>4. /\ r.mem = conn[c].mem /\ r.handle = conn[c].handle /\ r.closeCb = conn[c].closeCb
        /\ r.state = conn[c].state /\ r.pend = conn[c].pend /\ r.orphan = conn[c].orphan
        /\ r.reading = b
    BY <2>2 DEF ConnRecs
  <2>5. b <=> r.handle = "open"
    BY <2>4
  <2>. HIDE DEF r, b
  <2>6. RecOK(r)
    BY <2>2, <2>4, <2>5 DEF RecOK
  <2>7. \A d \in Conns \ {c} : conn[d].handle = "open" => conn[d].reading
    BY <1>5, <2>1
  <2>8. ASSUME NEW d \in Conns
        PROVE  /\ RecOK(conn'[d])
               /\ conn'[d].mem = conn[d].mem
               /\ conn'[d].handle = conn[d].handle
               /\ conn'[d].closeCb = conn[d].closeCb
               /\ conn'[d].handle = "open" => conn'[d].reading
    <3>1. CASE d = c
      BY <2>3, <2>4, <2>5, <2>6, <3>1
    <3>2. CASE d # c
      BY <1>1, <2>3, <2>7, <3>2
    <3>. QED
      BY <3>1, <3>2
  <2>. QED
    BY <1>1, <1>2, <2>1, <2>8, ReturnDown
<1>8. CASE ReturnReceive
  <2>. DEFINE r == [conn[c] EXCEPT !.held = 0]
  <2>1. /\ Top.fn = "dispatch_plain" /\ stack' = Pop
        /\ conn' = [conn EXCEPT ![c] = r]
        /\ UNCHANGED <<closing, srvh, undercut, fault>>
    BY <1>8 DEF ReturnReceive, Returns, srvVars
  <2>2. c \in Conns /\ conn[c] \in ConnRecs /\ RecOK(conn[c])
    BY <1>1, <1>3, <2>1 DEF TypeOK
  <2>3. conn'[c] = r /\ \A d \in Conns \ {c} : conn'[d] = conn[d]
    BY <1>1, <2>1, <2>2 DEF TypeOK
  <2>4. /\ r.mem = conn[c].mem /\ r.handle = conn[c].handle /\ r.closeCb = conn[c].closeCb
        /\ r.state = conn[c].state /\ r.pend = conn[c].pend /\ r.orphan = conn[c].orphan
        /\ r.reading = conn[c].reading
    BY <2>2 DEF ConnRecs
  <2>. HIDE DEF r
  <2>5. RecOK(r)
    BY <2>2, <2>4 DEF RecOK
  <2>6. \A d \in Conns : conn[d].handle = "open" => conn[d].reading
    BY <1>5, <2>1
  <2>7. ASSUME NEW d \in Conns
        PROVE  /\ RecOK(conn'[d])
               /\ conn'[d].mem = conn[d].mem
               /\ conn'[d].handle = conn[d].handle
               /\ conn'[d].closeCb = conn[d].closeCb
               /\ conn'[d].handle = "open" => conn'[d].reading
    <3>1. CASE d = c
      BY <2>2, <2>3, <2>4, <2>5, <2>6, <3>1
    <3>2. CASE d # c
      BY <1>1, <2>3, <2>6, <3>2
    <3>. QED
      BY <3>1, <3>2
  <2>. QED
    BY <1>1, <1>2, <2>1, <2>7, ReturnDown
<1>9. CASE ReturnRequest
  <2>1. /\ Top.fn = "llhttp_execute" /\ conn[c].mem = "live"
        /\ UNCHANGED <<srvh, undercut, fault>>
    BY <1>9 DEF ReturnRequest, Returns, srvVars
  <2>2. c \in Conns /\ Depth = 2 /\ Top = stack[2]
    BY <1>3, <1>4, <2>1
  <2>3. \/ /\ stack' = [stack EXCEPT ![Depth].n = @ - 1]
           /\ UNCHANGED <<conn, closing>>
        \/ stack' = Pop /\ LaureConnClose(c)
    BY <1>9 DEF ReturnRequest
  <2>4. CASE stack' = Pop /\ LaureConnClose(c)
    <3>1. \A d \in Conns : conn[d].handle = "open" => conn[d].reading
      BY <1>5, <2>1
    <3>2. conn[c] \in ConnRecs /\ RecOK(conn[c])
      BY <1>1, <2>2 DEF TypeOK
    <3>3. /\ conn'[c] = ClosedRec(conn[c])
          /\ \A d \in Conns \ {c} : conn'[d] = conn[d]
          /\ \A d \in Conns :
                /\ conn'[d].mem = conn[d].mem
                /\ ~(d = c /\ ClosesHandle(conn[c])) =>
                      /\ conn'[d].handle = conn[d].handle
                      /\ conn'[d].closeCb = conn[d].closeCb
                      /\ conn'[d].reading = conn[d].reading
          /\ ClosesHandle(conn[c]) =>
                /\ conn'[c].handle = "closing"
                /\ conn'[c].closeCb = "on_handle_closed"
                /\ conn[c].handle = "open"
                /\ closing' = closing \cup {c}
          /\ ~ClosesHandle(conn[c]) => closing' = closing
      BY <1>1, <2>2, <2>4, CloseEffect
    <3>4. RecOK(conn'[c])
      BY <2>1, <3>2, <3>3, ClosedOK
    <3>5. ASSUME NEW d \in Conns
          PROVE  /\ RecOK(conn'[d])
                 /\ conn'[d].mem = conn[d].mem
                 /\ \/ /\ conn'[d].handle = conn[d].handle
                       /\ conn'[d].closeCb = conn[d].closeCb
                       /\ d \in closing' <=> d \in closing
                    \/ /\ conn[d].handle = "open" /\ conn'[d].handle = "closing"
                       /\ d \in closing'
                 /\ conn'[d].handle = "open" => conn'[d].reading
      <4>1. CASE d = c
        BY <3>1, <3>3, <3>4, <4>1
      <4>2. CASE d # c
        BY <1>1, <3>1, <3>3, <4>2
      <4>. QED
        BY <4>1, <4>2
    <3>. QED
      BY <1>1, <1>2, <2>1, <2>4, <3>5, ReturnDown
  <2>5. CASE stack' = [stack EXCEPT ![Depth].n = @ - 1] /\ UNCHANGED <<conn, closing>>
    <3>. DEFINE f == [stack[Len(stack)] EXCEPT !.n = @ - 1]
    <3>1. stack \in Seq(Frames) /\ Len(stack) = 2
      BY <1>1, <2>2 DEF TypeOK, Depth
    <3>2. stack' = [stack EXCEPT ![Len(stack)] = f] /\ Len(stack') = Depth'
      BY <2>5 DEF Depth
    <3>3. stack[Len(stack)] = stack[2]
      BY <3>1
    <3>4. stack[2] \in Frames
      BY <3>1, ElementOfSeq
    <3>5. f.fn = stack[2].fn /\ f.c = stack[2].c /\ f.q = stack[2].q
      BY <3>3, <3>4 DEF Frames
    <3>6. Depth' = 2 /\ stack'[1] = stack[1] /\ stack'[2] = f
      BY <3>1, <3>2 DEF Depth
    <3>. HIDE DEF f
    <3>7. Shape /\ Lists /\ Served /\ MemoryFaults
      BY DEF IInv
    <3>8. Shape'
      BY <2>2, <3>5, <3>6, <3>7 DEF Shape
    <3>9. Stopped' /\ Ended'
      <4>1. stack' # <<>>
        BY <3>6 DEF Depth
      <4>. QED
        BY <3>6, <4>1 DEF Stopped, Ended
    <3>10. Lists'
      BY <2>2, <2>5, <3>6, <3>7 DEF Lists
    <3>11. Served'
      BY <2>1, <2>2, <2>5, <3>5, <3>6, <3>7 DEF Served, NotifyingAt
    <3>12. MemoryFaults' /\ \A d \in Conns : RecOK(conn'[d])
      BY <1>1, <1>3, <2>1, <2>5 DEF MemoryFaults
    <3>. QED
      BY <1>1, <3>8, <3>9, <3>10, <3>11, <3>12 DEF IInv
  <2>. QED
    BY <2>3, <2>4, <2>5
<1>10. CASE ReturnTick
  <2>1. /\ Top.fn = "on_tick" /\ stack' = Pop
        /\ UNCHANGED <<conn, closing, srvh, undercut, fault>>
    BY <1>10 DEF ReturnTick, Returns, srvVars
  <2>2. \A d \in Conns : conn[d].handle = "open" => conn[d].reading
    BY <1>5, <2>1
  <2>. QED
    BY <1>1, <1>2, <2>1, <2>2, ReturnDown
<1>. QED
  BY <1>6, <1>7, <1>8, <1>9, <1>10, ReturnCloseInv DEF Return

-----------------------------------------------------------------------------
(* The invariant holds, and what follows from it. *)

LEMMA InitInv == Init => IInv
<1>. SUFFICES ASSUME Init PROVE IInv
  OBVIOUS
<1>1. TypeOK
  BY InitTypes
<1>2. Depth = 0
  BY DEF Init, Depth
<1>3. \A c \in Conns : /\ RecOK(conn[c])
                       /\ conn[c].mem = "none" /\ conn[c].handle = "none"
  BY DEF Init, NewConn, RecOK
<1>4. Shape /\ Stopped
  BY <1>2 DEF Shape, Stopped
<1>5. Ended /\ Lists
  BY <1>2, <1>3 DEF Init, Ended, Lists
<1>6. Served
  <2>1. ~(2 <= Depth) /\ ~(3 <= Depth) /\ ~(4 <= Depth)
    BY <1>2
  <2>2. \A c \in Conns : ~NotifyingAt(c, 2) /\ ~NotifyingAt(c, 4)
    BY <2>1 DEF NotifyingAt
  <2>3. \A c \in Conns : conn[c].mem # "live" /\ conn[c].handle # "open"
    BY <1>3
  <2>. QED
    BY <2>1, <2>2, <2>3 DEF Served
<1>7. MemoryFaults
  BY DEF Init, MemoryFaults
<1>. QED
  BY <1>1, <1>3, <1>4, <1>5, <1>6, <1>7 DEF IInv

LEMMA StepInv == IInv /\ [Next]_vars => IInv'
<1>. SUFFICES ASSUME IInv, [Next]_vars PROVE IInv'
  OBVIOUS
<1>1. CASE Terminated \/ UNCHANGED vars
  <2>1. UNCHANGED vars
    BY <1>1 DEF Terminated
  <2>2. TypeOK' /\ MemoryFaults'
    BY <2>1, StepTypes, NoFaultYet DEF IInv, vars
  <2>. QED
    BY <2>1, <2>2, Quiet DEF vars
<1>. QED
  BY <1>1, ScriptInv, PhpInv, NetworkInv, TakeClosingInv, FinishInv, ExitRunInv,
     ReturnInv DEF Next

\* What the fields, the lists and the frames say of each other holds after every
\* handler of conn.c and server.c: the invariant that the theorems below rest on.
THEOREM Invariant == Spec => []IInv
<1>. QED
  BY InitInv, StepInv, PTL DEF Spec

\* Every field of every connection, frame and table keeps its type in every
\* behaviour of conn.c and server.c, for any number of connections.
THEOREM TypeCorrect == Spec => []TypeOK
<1>1. IInv => TypeOK
  BY DEF IInv
<1>. QED
  BY <1>1, Invariant, PTL

\* stop() inside callbacks never nests uv_run more than twice on the C stack
\* (server.c:194-200), however many connections there are.
THEOREM BoundedNesting == Spec => []NestingBounded
<1>1. IInv => NestingBounded
  BY DEF IInv, Shape, NestingBounded
<1>. QED
  BY <1>1, Invariant, PTL

\* The frames of the stack by their level.
LEMMA Levels ==
    ASSUME TypeOK, Shape, NEW i \in 1..Depth
    PROVE  /\ i \in {1, 2, 3, 4, 5} /\ i <= Depth
           /\ i \in {1, 3, 5} <=> stack[i].fn = "uv_run"
           /\ stack[i].fn \in ConnFns => i = 2
           /\ stack[i].q # {} => i \in {1, 3}
           /\ i \in {2, 4} /\ stack[i].fn # "on_tick" => stack[i].c \in Conns
<1>1. Depth \in Nat /\ Depth <= 5
  BY DepthType DEF Shape
<1>2. i \in {1, 2, 3, 4, 5} /\ i <= Depth
  BY <1>1
<1>3. CASE i \in {1, 3, 5}
  BY <1>2, <1>3 DEF Shape, ConnFns
<1>4. CASE i = 2
  BY <1>2, <1>4 DEF Shape
<1>5. CASE i = 4
  BY <1>2, <1>5 DEF Shape, ConnFns
<1>. QED
  BY <1>2, <1>3, <1>4, <1>5

\* Whatever PHP callbacks call, the connection that the suspended C function
\* goes on to use is still allocated, or stop() ran under it when it was closing
\* already; and on_handle_closed (conn.c:58-89) never runs twice for one.
THEOREM FramesAreSafe == Spec => []FrameSafe
<1>1. IInv => FrameSafe
  <2>. SUFFICES ASSUME IInv, NEW i \in 1..Depth
                PROVE  /\ stack[i].fn \in ConnFns =>
                             conn[stack[i].c].mem = "live" \/ stack[i].c \in undercut
                       /\ stack[i].fn = "on_handle_closed" =>
                             /\ conn[stack[i].c].mem = "live"
                             /\ conn[stack[i].c].handle = "closed"
                             /\ \A j \in 1..Depth : stack[j] = stack[i] => j = i
    BY DEF FrameSafe
  <2>1. TypeOK /\ Shape /\ Served
    BY DEF IInv
  <2>2. /\ i \in {1, 2, 3, 4, 5} /\ i <= Depth
        /\ i \in {1, 3, 5} <=> stack[i].fn = "uv_run"
        /\ stack[i].fn \in ConnFns => i = 2
        /\ i \in {2, 4} /\ stack[i].fn # "on_tick" => stack[i].c \in Conns
    BY <2>1, Levels
  <2>3. ASSUME stack[i].fn \in ConnFns
        PROVE  conn[stack[i].c].mem = "live" \/ stack[i].c \in undercut
    <3>1. i = 2 /\ stack[2].c \in Conns /\ 2 <= Depth
      BY <2>2, <2>3 DEF ConnFns
    <3>2. conn[stack[2].c].mem \in {"none", "live", "freed"}
      BY <2>1, <3>1 DEF TypeOK, ConnRecs
    <3>. QED
      BY <2>1, <2>3, <3>1, <3>2 DEF Served
  <2>4. ASSUME stack[i].fn = "on_handle_closed"
        PROVE  /\ conn[stack[i].c].mem = "live"
               /\ conn[stack[i].c].handle = "closed"
               /\ \A j \in 1..Depth : stack[j] = stack[i] => j = i
    <3>1. i \in {2, 4} /\ stack[i].c \in Conns
      BY <2>2, <2>4
    <3>2. NotifyingAt(stack[i].c, i)
      BY <2>2, <2>4 DEF NotifyingAt
    <3>3. NotifyingAt(stack[i].c, 2) \/ NotifyingAt(stack[i].c, 4)
      BY <3>1, <3>2
    <3>4. ASSUME NEW j \in 1..Depth, stack[j] = stack[i] PROVE j = i
      <4>1. j \in {2, 4} /\ j <= Depth
        BY <2>1, <2>4, <3>4, Levels
      <4>2. NotifyingAt(stack[i].c, j)
        BY <2>4, <3>4, <4>1 DEF NotifyingAt
      <4>3. ~(NotifyingAt(stack[i].c, 2) /\ NotifyingAt(stack[i].c, 4))
        BY <2>1, <3>1 DEF Served
      <4>. QED
        BY <3>1, <3>2, <4>1, <4>2, <4>3
    <3>. QED
      BY <2>1, <3>1, <3>3, <3>4 DEF Served
  <2>. QED
    BY <2>3, <2>4
<1>. QED
  BY <1>1, Invariant, PTL

\* A closing handle is on one list only, the loop's or that of one uv_run, so
\* uv__finish_close runs once for it.
THEOREM QueuedOnlyOnce == Spec => []QueuedOnce
<1>1. IInv => QueuedOnce
  <2>. SUFFICES ASSUME IInv, NEW c \in Conns
                PROVE  /\ conn[c].handle = "closing" =>
                             c \in closing \/ \E i \in 1..Depth : c \in stack[i].q
                       /\ c \in closing =>
                             /\ conn[c].handle = "closing"
                             /\ \A i \in 1..Depth : c \notin stack[i].q
                       /\ \A i, j \in 1..Depth : c \in stack[i].q =>
                             /\ conn[c].handle = "closing"
                             /\ c \in stack[j].q => j = i
    BY DEF QueuedOnce
  <2>1. TypeOK /\ Shape /\ Lists /\ Depth \in Nat
    BY DepthType DEF IInv
  <2>2. \A i \in 1..Depth : c \in stack[i].q => i \in {1, 3} /\ i <= Depth
    BY <2>1, Levels
  <2>3. conn[c].handle = "closing" => c \in closing \/ \E i \in 1..Depth : c \in stack[i].q
    <3>1. 1 <= Depth => 1 \in 1..Depth
      BY <2>1
    <3>2. 3 <= Depth => 3 \in 1..Depth
      BY <2>1
    <3>. QED
      BY <2>1, <3>1, <3>2 DEF Lists
  <2>4. c \in closing => /\ conn[c].handle = "closing"
                         /\ \A i \in 1..Depth : c \notin stack[i].q
    BY <2>1, <2>2 DEF Lists
  <2>5. ASSUME NEW i \in 1..Depth, NEW j \in 1..Depth, c \in stack[i].q
        PROVE  conn[c].handle = "closing" /\ (c \in stack[j].q => j = i)
    <3>1. i \in {1, 3} /\ i <= Depth /\ (c \in stack[j].q => j \in {1, 3} /\ j <= Depth)
      BY <2>2, <2>5
    <3>2. conn[c].handle = "closing"
      BY <2>1, <2>5, <3>1 DEF Lists
    <3>3. ~(3 <= Depth /\ c \in stack[3].q /\ c \in stack[1].q)
      BY <2>1 DEF Lists
    <3>. QED
      BY <2>5, <3>1, <3>2, <3>3
  <2>. QED
    BY <2>3, <2>4, <2>5
<1>. QED
  BY <1>1, Invariant, PTL

\* A connection is lost without being freed, or a write without being sent or
\* cancelled, only when walk_close_all (server.c:86-96) closed the connection.
THEOREM OnlyWalkLeaks == Spec => []LeaksOnlyByWalk
<1>1. IInv => LeaksOnlyByWalk
  <2>. SUFFICES ASSUME IInv, NEW c \in Conns
                PROVE  /\ conn[c].mem = "live" /\ conn[c].handle = "closed" =>
                             conn[c].closeCb = "NULL" \/ Notifying(c)
                       /\ conn[c].orphan => conn[c].closeCb = "NULL" /\ conn[c].handle # "open"
    BY DEF LeaksOnlyByWalk
  <2>1. TypeOK /\ RecOK(conn[c]) /\ Served /\ Depth \in Nat
    BY DepthType DEF IInv
  <2>2. conn[c].closeCb \in {"NULL", "on_handle_closed"}
    BY <2>1 DEF TypeOK, ConnRecs
  <2>3. NotifyingAt(c, 2) \/ NotifyingAt(c, 4) => Notifying(c)
    <3>1. 2 <= Depth => 2 \in 1..Depth
      BY <2>1
    <3>2. 4 <= Depth => 4 \in 1..Depth
      BY <2>1
    <3>. QED
      BY <3>1, <3>2 DEF NotifyingAt, Notifying
  <2>4. conn[c].mem = "live" /\ conn[c].handle = "closed" =>
           conn[c].closeCb = "NULL" \/ Notifying(c)
    BY <2>1, <2>2, <2>3 DEF Served
  <2>5. conn[c].orphan => conn[c].closeCb = "NULL" /\ conn[c].handle # "open"
    BY <2>1 DEF RecOK
  <2>. QED
    BY <2>4, <2>5
<1>. QED
  BY <1>1, Invariant, PTL

\* The loop can only hang under stop() called from a close callback, while an
\* outer uv_run holds, unfinished, a connection that has a write under way.
THEOREM HangsOnlyInClose == Spec => []HangOnlyInClose
<1>1. IInv => HangOnlyInClose
  <2>. SUFFICES ASSUME IInv, Hung
                PROVE  \E i \in 1..Depth :
                          /\ i < Depth /\ stack[i + 1].fn = "on_handle_closed"
                          /\ \E c \in stack[i].q : conn[c].pend > 0
    BY DEF HangOnlyInClose
  <2>1. /\ Depth \in {1, 3, 5} /\ stack[Depth].q = {}
        /\ closing = {} /\ \A c \in Conns : conn[c].handle # "open"
    BY LoopDepth DEF Hung, Polling
  <2>2. PICK c \in Conns : conn[c].pend > 0
    BY DEF Hung
  <2>3. conn[c].pend # 0
    <3>1. conn[c].pend \in Nat
      BY FieldTypes DEF IInv, TypeOK
    <3>. QED
      BY <2>2, <3>1
  <2>4. conn[c].handle = "closing"
    BY <2>1, <2>3 DEF IInv, RecOK
  <2>5. \/ c \in stack[1].q /\ Depth \in {3, 5}
        \/ c \in stack[3].q /\ Depth = 5
    <3>1. Lists
      BY DEF IInv
    <3>2. CASE Depth = 1
      BY <2>1, <2>4, <3>1, <3>2 DEF Lists
    <3>3. CASE Depth = 3
      BY <2>1, <2>4, <3>1, <3>3 DEF Lists
    <3>4. CASE Depth = 5
      BY <2>1, <2>4, <3>1, <3>4 DEF Lists
    <3>. QED
      BY <2>1, <3>2, <3>3, <3>4
  <2>6. CASE c \in stack[1].q /\ Depth \in {3, 5}
    <3>1. stack[2].fn = "on_handle_closed"
      BY <2>6 DEF IInv, Shape
    <3>2. 1 \in 1..Depth /\ 1 < Depth /\ stack[1 + 1].fn = "on_handle_closed"
      BY <2>6, <3>1
    <3>. QED
      BY <2>2, <2>6, <3>2
  <2>7. CASE c \in stack[3].q /\ Depth = 5
    <3>1. stack[4].fn = "on_handle_closed"
      BY <2>7 DEF IInv, Shape
    <3>2. 3 \in 1..Depth /\ 3 < Depth /\ stack[3 + 1].fn = "on_handle_closed"
      BY <2>7, <3>1
    <3>. QED
      BY <2>2, <2>7, <3>2
  <2>. QED
    BY <2>5, <2>6, <2>7
<1>. QED
  BY <1>1, Invariant, PTL

-----------------------------------------------------------------------------
(* A closed connection stays closed. *)

\* What CloseIsFinal asks of one connection's record, and of a step's frame.
Settled(c) == /\ conn'[c].state = "CLOSE"
              /\ conn'[c].pend <= conn[c].pend
              /\ conn'[c].orphan = conn[c].orphan
Uncalled(c) == Len(stack') > Len(stack) =>
                  ~(stack'[Len(stack')].fn \in ConnFns /\ stack'[Len(stack')].c = c)

\* The records the handlers leave of a closed connection.
LEMMA SettledRecs ==
    ASSUME NEW c \in Conns, conn[c] \in ConnRecs, conn[c].state = "CLOSE",
           \/ conn'[c] = conn[c]
           \/ conn'[c] = ClosedRec(conn[c])
           \/ conn'[c] = SentRec(conn[c])
           \/ conn'[c] = FinishedRec(conn[c])
           \/ conn'[c] = [FinishedRec(conn[c]) EXCEPT !.mem = "freed"]
           \/ conn'[c] = [conn[c] EXCEPT !.mem = "freed"]
           \/ conn'[c] = [conn[c] EXCEPT !.held = 0]
           \/ \E b \in BOOLEAN : conn'[c] = [conn[c] EXCEPT !.reading = b]
    PROVE  Settled(c)
<1>. DEFINE r == conn[c]
            s == conn'[c]
            Like(t) == t.state = "CLOSE" /\ t.orphan = r.orphan /\ t.pend \in {0, r.pend}
<1>1. Like(r) /\ Like(ClosedRec(r)) /\ Like(SentRec(r)) /\ Like(FinishedRec(r))
  BY ClosedFields, SentFields, FinishedFields
<1>2. Like([FinishedRec(r) EXCEPT !.mem = "freed"])
  <2>1. FinishedRec(r) \in ConnRecs
    BY RecTypes
  <2>. QED
    BY <1>1, <2>1 DEF ConnRecs
<1>3. /\ Like([r EXCEPT !.mem = "freed"]) /\ Like([r EXCEPT !.held = 0])
      /\ \A b \in BOOLEAN : Like([r EXCEPT !.reading = b])
  BY <1>1 DEF ConnRecs
<1>4. Like(s)
  <2>. HIDE DEF Like
  <2>. QED
    BY <1>1, <1>2, <1>3
<1>5. r.pend \in Nat
  BY FieldTypes
<1>. HIDE DEF r, s
<1>6. s.pend <= r.pend
  BY <1>4, <1>5
<1>. QED
  BY <1>4, <1>6 DEF Settled, r, s

\* A pushed frame that does not serve c.
LEMMA UncalledPush ==
    ASSUME NEW c \in Conns, NEW s \in Seq(Frames), NEW f \in Frames,
           stack' = Append(s, f), f.fn \notin ConnFns \/ f.c # c
    PROVE  Uncalled(c)
<1>1. stack'[Len(stack')] = f
  BY Push
<1>. QED
  BY <1>1 DEF Uncalled

\* A step that changes one connection, for any connection.
LEMMA Elsewhere ==
    ASSUME TypeOK, NEW c \in Conns, NEW d \in Conns, NEW r, conn' = [conn EXCEPT ![d] = r]
    PROVE  conn'[c] = IF c = d THEN r ELSE conn[c]
  BY DEF TypeOK

LEMMA FinalScript ==
    ASSUME TypeOK, Script, NEW c \in Conns, conn[c].state = "CLOSE"
    PROVE  Settled(c) /\ Uncalled(c)
<1>1. Settled(c)
  BY SettledRecs DEF Script, Start, StartFails, LoopInitFails, Destroy, TypeOK
<1>2. CASE Start
  <2>1. stack' = <<RunFrame>> /\ RunFrame.fn \notin ConnFns
    BY <1>2 DEF Start, RunFrame, Frame, ConnFns
  <2>2. stack'[Len(stack')] = RunFrame
    BY <2>1
  <2>. QED
    BY <1>1, <2>1, <2>2 DEF Uncalled
<1>3. CASE StartFails \/ LoopInitFails \/ Destroy
  <2>1. stack' = stack
    BY <1>3 DEF StartFails, LoopInitFails, Destroy
  <2>2. Len(stack) \in Nat
    BY DEF TypeOK
  <2>. QED
    BY <1>1, <2>1, <2>2 DEF Uncalled
<1>. QED
  BY <1>2, <1>3 DEF Script

LEMMA UncalledStay ==
    ASSUME TypeOK, NEW c \in Conns,
           stack' = stack \/ (stack # <<>> /\ stack' = Pop)
    PROVE  Uncalled(c)
<1>1. Len(stack) \in Nat
  BY DEF TypeOK
<1>2. stack # <<>> => Len(Pop) = Len(stack) - 1
  BY Leave DEF TypeOK, Pop, Depth
<1>3. ~(Len(stack') > Len(stack))
  BY <1>1, <1>2
<1>. QED
  BY <1>3 DEF Uncalled

LEMMA FinalPhp ==
    ASSUME IInv, Php, NEW c \in Conns, conn[c].state = "CLOSE"
    PROVE  Settled(c) /\ Uncalled(c)
<1>1. TypeOK /\ conn \in [Conns -> ConnRecs] /\ conn[c] \in ConnRecs /\ RecOK(conn[c])
  BY DEF IInv, TypeOK
<1>2. CASE PhpStop
  <2>1. conn[c].handle # "open"
    BY <1>1 DEF RecOK
  <2>2. conn'[c] = conn[c]
    BY <1>2, <2>1 DEF PhpStop, WalkCloseAll
  <2>3. stack' = stack \/ stack' = Append(stack, RunFrame)
    BY <1>2 DEF PhpStop
  <2>4. RunFrame.fn \notin ConnFns /\ RunFrame \in Frames /\ stack \in Seq(Frames)
    BY <1>1, RunFrameType DEF RunFrame, Frame, ConnFns, TypeOK
  <2>. QED
    BY <1>1, <2>2, <2>3, <2>4, SettledRecs, UncalledPush, UncalledStay
<1>3. CASE PhpCatch \/ (\E e \in Events : PhpOn(e)) \/ (\E d \in Conns : PhpUseStale(d))
  <2>1. conn' = conn /\ stack' = stack
    BY <1>3 DEF PhpCatch, PhpOn, PhpUseStale
  <2>. QED
    BY <1>1, <2>1, SettledRecs, UncalledStay
<1>4. ASSUME NEW d \in Conns, PhpSend(d) \/ PhpClose(d)
      PROVE  Settled(c) /\ Uncalled(c)
  <2>1. stack' = stack
    BY <1>4 DEF PhpSend, PhpClose
  <2>2. \/ conn' = [conn EXCEPT ![d] = SentRec(conn[d])]
        \/ conn' = [conn EXCEPT ![d] = ClosedRec(conn[d])]
    BY <1>4 DEF PhpSend, PhpClose, LaureConnClose
  <2>3. conn'[c] \in {conn[c], SentRec(conn[c]), ClosedRec(conn[c])}
    BY <1>1, <2>2, Elsewhere
  <2>. QED
    BY <1>1, <2>1, <2>3, SettledRecs, UncalledStay
<1>. QED
  BY <1>2, <1>3, <1>4 DEF Php

LEMMA FinalNetwork ==
    ASSUME IInv, Network, NEW c \in Conns, conn[c].state = "CLOSE"
    PROVE  Settled(c) /\ Uncalled(c)
<1>1. TypeOK /\ conn \in [Conns -> ConnRecs] /\ conn[c] \in ConnRecs /\ RecOK(conn[c]) /\ stack \in Seq(Frames)
  BY DEF IInv, TypeOK
<1>2. conn[c].handle # "open" /\ conn[c].mem # "none"
  BY <1>1 DEF RecOK
<1>3. CASE OnTick
  <2>1. conn' = conn /\ stack' = Append(stack, Frame("on_tick", NoConn, 0))
    BY <1>3 DEF OnTick
  <2>2. /\ Frame("on_tick", NoConn, 0) \in Frames
        /\ Frame("on_tick", NoConn, 0).fn \notin ConnFns
    BY FrameTypes DEF FnNames, Frame, ConnFns
  <2>. QED
    BY <1>1, <2>1, <2>2, SettledRecs, UncalledPush
<1>4. CASE OnSignal
  <2>1. conn'[c] = conn[c] /\ stack' = stack
    BY <1>2, <1>4 DEF OnSignal, WalkCloseAll
  <2>. QED
    BY <1>1, <2>1, SettledRecs, UncalledStay
<1>5. ASSUME NEW d \in Conns,
             \/ Accept(d) \/ AcceptFails(d) \/ WriteDone(d)
             \/ ReadTcp(d) \/ ReadHttp(d) \/ ReadEof(d)
      PROVE  Settled(c) /\ Uncalled(c)
  <2>1. d # c
    BY <1>2, <1>5 DEF Accept, AcceptFails, WriteDone, ReadTcp, ReadHttp, ReadEof, Readable
  <2>2. conn' = conn \/ \E r : conn' = [conn EXCEPT ![d] = r]
    BY <1>5 DEF Accept, AcceptFails, WriteDone, ReadTcp, ReadHttp, ReadEof, LaureConnClose
  <2>3. conn'[c] = conn[c]
    BY <1>1, <2>1, <2>2, Elsewhere
  <2>4. \/ stack' = stack
        \/ \E fn \in ConnFns, n \in Nat : stack' = Append(stack, Frame(fn, d, n))
    <3>1. ASSUME NEW n \in 0..MaxPipeline, n > 0 PROVE n - 1 \in Nat
      BY <3>1
    <3>. QED
      BY <1>5, <3>1 DEF Accept, AcceptFails, WriteDone, ReadTcp, ReadHttp, ReadEof, ConnFns
  <2>5. \A fn \in ConnFns, n \in Nat : Frame(fn, d, n) \in Frames /\ Frame(fn, d, n).c = d
    BY FrameTypes DEF FnNames, Frame
  <2>6. Uncalled(c)
    BY <1>1, <2>1, <2>4, <2>5, UncalledPush, UncalledStay
  <2>. QED
    BY <1>1, <2>3, <2>6, SettledRecs
<1>. QED
  BY <1>3, <1>4, <1>5 DEF Network

LEMMA FinalLoop ==
    ASSUME IInv, TakeClosing \/ Finish \/ ExitRun, NEW c \in Conns, conn[c].state = "CLOSE"
    PROVE  Settled(c) /\ Uncalled(c)
<1>1. TypeOK /\ conn \in [Conns -> ConnRecs] /\ conn[c] \in ConnRecs /\ RecOK(conn[c]) /\ stack \in Seq(Frames)
  BY DEF IInv, TypeOK
<1>2. CASE TakeClosing
  <2>1. conn' = conn /\ stack' = [stack EXCEPT ![Depth].q = closing]
    BY <1>2 DEF TakeClosing
  <2>2. Len(stack') = Len(stack) /\ Len(stack) \in Nat
    BY <1>1, <2>1 DEF Depth
  <2>. QED
    BY <1>1, <2>1, <2>2, SettledRecs DEF Uncalled
<1>3. CASE ExitRun
  <2>1. conn' = conn /\ stack' = Pop /\ stack # <<>>
    BY <1>3 DEF ExitRun, Polling, Looping
  <2>. QED
    BY <1>1, <2>1, SettledRecs, UncalledStay
<1>4. ASSUME NEW d \in Conns, FinishDangling(d) \/ FinishWalked(d) \/ OnHandleClosed(d)
      PROVE  Settled(c) /\ Uncalled(c)
  <2>1. /\ Looping /\ d \in Top.q /\ stack # <<>>
    BY <1>4 DEF FinishDangling, FinishWalked, OnHandleClosed, Looping
  <2>2. \/ conn' = conn
        \/ conn' = [conn EXCEPT ![d] = FinishedRec(conn[d])]
        \/ conn' = [conn EXCEPT ![d] = [FinishedRec(conn[d]) EXCEPT !.mem = "freed"]]
    BY <1>4 DEF FinishDangling, FinishWalked, OnHandleClosed
  <2>3. \/ conn'[c] = conn[c]
        \/ conn'[c] = FinishedRec(conn[c])
        \/ conn'[c] = [FinishedRec(conn[c]) EXCEPT !.mem = "freed"]
    BY <1>1, <2>2
  <2>4. Drained(d) \in Seq(Frames) /\ Len(Drained(d)) = Len(stack) /\ Len(stack) \in Nat
    BY <1>1, <2>1, DrainTypes DEF Drained, Depth
  <2>5. \/ stack' = stack
        \/ stack' = Drained(d)
        \/ stack' = Append(Drained(d), Frame("on_handle_closed", d, 0))
    BY <1>4 DEF FinishDangling, FinishWalked, OnHandleClosed
  <2>6. CASE stack' = stack \/ stack' = Drained(d)
    <3>1. Settled(c)
      BY <1>1, <2>3, SettledRecs
    <3>2. ~(Len(stack') > Len(stack))
      BY <2>4, <2>6
    <3>. QED
      BY <3>1, <3>2 DEF Uncalled
  <2>7. CASE stack' = Append(Drained(d), Frame("on_handle_closed", d, 0))
    <3>1. /\ Frame("on_handle_closed", d, 0) \in Frames
          /\ Frame("on_handle_closed", d, 0).fn \notin ConnFns
      BY FrameTypes DEF FnNames, Frame, ConnFns
    <3>. QED
      BY <1>1, <2>3, <2>4, <2>7, <3>1, SettledRecs, UncalledPush
  <2>. QED
    BY <2>5, <2>6, <2>7
<1>. QED
  BY <1>2, <1>3, <1>4 DEF Finish

LEMMA FinalReturn ==
    ASSUME IInv, Return, NEW c \in Conns, conn[c].state = "CLOSE"
    PROVE  Settled(c) /\ Uncalled(c)
<1>. DEFINE d == Top.c
<1>1. TypeOK /\ Shape /\ conn \in [Conns -> ConnRecs] /\ conn[c] \in ConnRecs /\ stack \in Seq(Frames)
  BY DEF IInv, TypeOK
<1>2. InCallback /\ stack # <<>>
  BY DEF Return, ResumeFreed, ReturnConnect, ReturnReceive, ReturnRequest,
         ReturnTick, ReturnClose, Returns, InCallback
<1>3. Top.fn # "on_tick" => d \in Conns
  BY <1>1, <1>2, TopOwner
<1>. HIDE DEF d
<1>4. CASE ResumeFreed \/ ReturnTick
  <2>1. conn' = conn /\ (stack' = stack \/ stack' = Pop)
    BY <1>4 DEF ResumeFreed, ReturnTick
  <2>. QED
    BY <1>1, <1>2, <2>1, SettledRecs, UncalledStay
<1>5. CASE ReturnConnect \/ ReturnReceive \/ ReturnClose
  <2>1. stack' = Pop /\ d \in Conns
    BY <1>3, <1>5 DEF ReturnConnect, ReturnReceive, ReturnClose, Returns
  <2>2. \/ conn' = [conn EXCEPT ![d] = [conn[d] EXCEPT !.mem = "freed"]]
        \/ conn' = [conn EXCEPT ![d] = [conn[d] EXCEPT !.held = 0]]
        \/ conn' = [conn EXCEPT ![d] =
                      [conn[d] EXCEPT !.reading = (conn[d].handle = "open")]]
    BY <1>5 DEF ReturnConnect, ReturnReceive, ReturnClose, d
  <2>3. (conn[c].handle = "open") \in BOOLEAN
    OBVIOUS
  <2>4. \/ conn'[c] = conn[c]
        \/ conn'[c] = [conn[c] EXCEPT !.mem = "freed"]
        \/ conn'[c] = [conn[c] EXCEPT !.held = 0]
        \/ conn'[c] = [conn[c] EXCEPT !.reading = (conn[c].handle = "open")]
    BY <1>1, <2>1, <2>2
  <2>5. Settled(c)
    BY <1>1, <2>3, <2>4, SettledRecs
  <2>. QED
    BY <1>1, <1>2, <2>1, <2>5, UncalledStay
<1>6. CASE ReturnRequest
  <2>1. d \in Conns
    BY <1>3, <1>6 DEF ReturnRequest, Returns
  <2>2. \/ stack' = [stack EXCEPT ![Depth].n = @ - 1] /\ conn' = conn
        \/ stack' = Pop /\ conn' = [conn EXCEPT ![d] = ClosedRec(conn[d])]
    BY <1>6 DEF ReturnRequest, LaureConnClose, d
  <2>3. conn'[c] = conn[c] \/ conn'[c] = ClosedRec(conn[c])
    BY <1>1, <2>1, <2>2
  <2>4. CASE stack' = [stack EXCEPT ![Depth].n = @ - 1]
    <3>1. Len(stack') = Len(stack) /\ Len(stack) \in Nat
      BY <1>1, <2>4 DEF Depth
    <3>2. Settled(c)
      BY <1>1, <2>3, SettledRecs
    <3>3. Uncalled(c)
      BY <3>1 DEF Uncalled
    <3>. QED
      BY <3>2, <3>3
  <2>5. CASE stack' = Pop
    BY <1>1, <1>2, <2>3, <2>5, SettledRecs, UncalledStay
  <2>. QED
    BY <2>2, <2>4, <2>5
<1>. QED
  BY <1>4, <1>5, <1>6 DEF Return

\* Once a connection is closed (conn.c:47-56) nothing calls it back to connect,
\* receive or begin a request, nothing is written to it and it never reopens.
THEOREM ClosedForGood == Spec => CloseIsFinal
<1>. DEFINE A == \A c \in Conns : conn[c].state = "CLOSE" =>
                    /\ conn'[c].state = "CLOSE"
                    /\ conn'[c].pend <= conn[c].pend
                    /\ conn'[c].orphan = conn[c].orphan
                    /\ Len(stack') > Len(stack) =>
                          ~(stack'[Len(stack')].fn \in ConnFns /\ stack'[Len(stack')].c = c)
<1>1. IInv /\ [Next]_vars => [A]_vars
  <2>. SUFFICES ASSUME IInv, Next, NEW c \in Conns, conn[c].state = "CLOSE"
                PROVE  (Settled(c) /\ Uncalled(c)) \/ UNCHANGED vars
    BY DEF Settled, Uncalled
  <2>1. TypeOK
    BY DEF IInv
  <2>. QED
    BY <2>1, FinalScript, FinalPhp, FinalNetwork, FinalLoop, FinalReturn
       DEF Next, Terminated
<1>. QED
  BY <1>1, Invariant, PTL DEF Spec, CloseIsFinal

-----------------------------------------------------------------------------
(* What the script was given: objects of connections, and a loop.             *)

Good(r) == r.mem = "live" \/ r.closeCb = "on_handle_closed"

\* What the handlers make of the record of a connection that has an object.
LEMMA GoodRecs ==
    ASSUME NEW r \in ConnRecs, RecOK(r), Good(r)
    PROVE  /\ Good(ClosedRec(r)) /\ Good(SentRec(r)) /\ Good(FinishedRec(r))
           /\ r.handle = "open" => Good(UvClosed(r, "NULL"))
           /\ r.closeCb = "on_handle_closed" =>
                 /\ Good([r EXCEPT !.mem = "freed"])
                 /\ Good([FinishedRec(r) EXCEPT !.mem = "freed"])
           /\ Good([r EXCEPT !.held = 0])
           /\ \A b : Good([r EXCEPT !.reading = b])
           /\ \A k : Good([r EXCEPT !.pend = k])
<1>1. Good(ClosedRec(r))
  BY ClosedFields DEF Good
<1>2. Good(SentRec(r)) /\ Good(FinishedRec(r))
  BY SentFields, FinishedFields DEF Good
<1>3. r.handle = "open" => Good(UvClosed(r, "NULL"))
  BY WalkedFields DEF Good, RecOK
<1>4. r.closeCb = "on_handle_closed" =>
         /\ Good([r EXCEPT !.mem = "freed"])
         /\ Good([FinishedRec(r) EXCEPT !.mem = "freed"])
  <2>1. FinishedRec(r) \in ConnRecs /\ FinishedRec(r).closeCb = r.closeCb
    BY RecTypes, FinishedFields
  <2>. QED
    BY <2>1 DEF Good, ConnRecs
<1>5. /\ Good([r EXCEPT !.held = 0])
      /\ \A b : Good([r EXCEPT !.reading = b])
      /\ \A k : Good([r EXCEPT !.pend = k])
  BY DEF Good, ConnRecs
<1>. QED
  BY <1>1, <1>2, <1>3, <1>4, <1>5

\* A connection that the network serves.
LEMMA GoodNetwork ==
    ASSUME IInv, Network, NEW c \in Conns, Good(conn[c])
    PROVE  Good(conn'[c])
<1>1. /\ TypeOK /\ conn \in [Conns -> ConnRecs] /\ conn[c] \in ConnRecs /\ RecOK(conn[c])
      /\ conn[c].mem # "none"
  BY DEF IInv, TypeOK, RecOK, Good
<1>2. CASE OnTick
  BY <1>2 DEF OnTick
<1>3. CASE OnSignal
  <2>1. conn'[c] = IF conn[c].handle = "open" THEN UvClosed(conn[c], "NULL") ELSE conn[c]
    BY <1>3 DEF OnSignal, WalkCloseAll
  <2>. QED
    BY <1>1, <2>1, GoodRecs
<1>4. ASSUME NEW d \in Conns, Accept(d) \/ AcceptFails(d)
      PROVE  Good(conn'[c])
  <2>1. d # c
    BY <1>1, <1>4 DEF Accept, AcceptFails
  <2>2. \E r : conn' = [conn EXCEPT ![d] = r]
    BY <1>4 DEF Accept, AcceptFails
  <2>3. conn'[c] = conn[c]
    BY <1>1, <2>1, <2>2, Elsewhere
  <2>. QED
    BY <2>3
<1>5. ASSUME NEW d \in Conns, ReadTcp(d)
      PROVE  Good(conn'[c])
  <2>0. PICK kept \in {0, 1} :
          LET r == [conn[d] EXCEPT !.rcvd = @ + kept, !.held = @ + kept]
          IN  \/ conn' = [conn EXCEPT ![d] = [r EXCEPT !.dlvd = @ + r.held]]
              \/ conn' = [conn EXCEPT ![d] = [r EXCEPT !.held = 0]]
              \/ conn' = [conn EXCEPT ![d] = r]
    BY <1>5 DEF ReadTcp
  <2>. DEFINE Same(s) == s.mem = conn[d].mem /\ s.closeCb = conn[d].closeCb
              r == [conn[d] EXCEPT !.rcvd = @ + kept, !.held = @ + kept]
  <2>1. conn[d] \in ConnRecs
    BY <1>1
  <2>2. Same(r) /\ Same([r EXCEPT !.held = 0]) /\ Same([r EXCEPT !.dlvd = @ + r.held])
    BY <2>1 DEF ConnRecs
  <2>. HIDE DEF r
  <2>3. \E s : conn' = [conn EXCEPT ![d] = s] /\ Same(s)
    BY <2>0, <2>2 DEF r
  <2>4. PICK s : conn' = [conn EXCEPT ![d] = s] /\ Same(s)
    BY <2>3
  <2>5. conn'[c] = IF c = d THEN s ELSE conn[c]
    BY <1>1, <2>4, Elsewhere
  <2>. QED
    BY <2>4, <2>5 DEF Good
<1>6. ASSUME NEW d \in Conns, WriteDone(d) \/ ReadHttp(d) \/ ReadEof(d)
      PROVE  Good(conn'[c])
  <2>1. \/ conn' = conn
        \/ conn' = [conn EXCEPT ![d] = [conn[d] EXCEPT !.pend = conn[d].pend - 1]]
        \/ conn' = [conn EXCEPT ![d] = [conn[d] EXCEPT !.reading = FALSE]]
        \/ conn' = [conn EXCEPT ![d] = ClosedRec(conn[d])]
    BY <1>6 DEF WriteDone, ReadHttp, ReadEof, LaureConnClose
  <2>2. \/ conn'[c] = conn[c]
        \/ conn'[c] = [conn[c] EXCEPT !.pend = conn[c].pend - 1]
        \/ conn'[c] = [conn[c] EXCEPT !.reading = FALSE]
        \/ conn'[c] = ClosedRec(conn[c])
    BY <1>1, <2>1
  <2>3. /\ Good([conn[c] EXCEPT !.pend = conn[c].pend - 1])
        /\ Good([conn[c] EXCEPT !.reading = FALSE]) /\ Good(ClosedRec(conn[c]))
    BY <1>1, <1>6, GoodRecs
  <2>. QED
    BY <1>6, <2>2, <2>3
<1>. QED
  BY <1>2, <1>3, <1>4, <1>5, <1>6 DEF Network

\* ... and one that the script, the loop or a return from a callback changes.
LEMMA GoodOther ==
    ASSUME IInv, Php \/ TakeClosing \/ Finish \/ ExitRun \/ Return,
           NEW c \in Conns, Good(conn[c])
    PROVE  Good(conn'[c])
<1>1. /\ TypeOK /\ Shape /\ Served
      /\ conn \in [Conns -> ConnRecs] /\ conn[c] \in ConnRecs /\ RecOK(conn[c])
  BY DEF IInv, TypeOK
<1>2. CASE PhpStop
  <2>1. \/ conn' = conn
        \/ conn'[c] = IF conn[c].handle = "open" THEN UvClosed(conn[c], "NULL") ELSE conn[c]
    BY <1>2 DEF PhpStop, WalkCloseAll
  <2>. QED
    BY <1>1, <2>1, GoodRecs
<1>3. CASE \/ PhpCatch \/ (\E e \in Events : PhpOn(e)) \/ (\E d \in Conns : PhpUseStale(d))
           \/ TakeClosing \/ ExitRun \/ ResumeFreed \/ ReturnTick
  BY <1>3 DEF PhpCatch, PhpOn, PhpUseStale, TakeClosing, ExitRun, ResumeFreed, ReturnTick
<1>4. ASSUME NEW d \in Conns, PhpSend(d) \/ PhpClose(d)
      PROVE  Good(conn'[c])
  <2>1. \/ conn' = [conn EXCEPT ![d] = SentRec(conn[d])]
        \/ conn' = [conn EXCEPT ![d] = ClosedRec(conn[d])]
    BY <1>4 DEF PhpSend, PhpClose, LaureConnClose
  <2>2. conn'[c] \in {conn[c], SentRec(conn[c]), ClosedRec(conn[c])}
    BY <1>1, <2>1, Elsewhere
  <2>. QED
    BY <1>1, <2>2, GoodRecs
<1>5. ASSUME NEW d \in Conns, FinishDangling(d) \/ FinishWalked(d) \/ OnHandleClosed(d)
      PROVE  Good(conn'[c])
  <2>1. \/ conn' = conn
        \/ conn' = [conn EXCEPT ![d] = FinishedRec(conn[d])]
        \/ /\ conn' = [conn EXCEPT ![d] = [FinishedRec(conn[d]) EXCEPT !.mem = "freed"]]
           /\ conn[d].closeCb = "on_handle_closed"
    BY <1>5 DEF FinishDangling, FinishWalked, OnHandleClosed
  <2>2. \/ conn'[c] = conn[c]
        \/ conn'[c] = FinishedRec(conn[c])
        \/ /\ conn'[c] = [FinishedRec(conn[c]) EXCEPT !.mem = "freed"]
           /\ conn[c].closeCb = "on_handle_closed"
    BY <1>1, <2>1
  <2>. QED
    BY <1>1, <2>2, GoodRecs
<1>6. CASE ReturnConnect \/ ReturnReceive \/ ReturnRequest \/ ReturnClose
  <2>. DEFINE d == Top.c
  <2>1. InCallback /\ Depth \in {2, 4} /\ d \in Conns
    BY <1>1, <1>6, TopOwner
       DEF ReturnConnect, ReturnReceive, ReturnRequest, ReturnClose, Returns
  <2>2. ReturnClose => conn[d].closeCb = "on_handle_closed"
    BY <1>1, <2>1 DEF ReturnClose, Returns, Top, Served, NotifyingAt
  <2>. HIDE DEF d
  <2>3. \/ conn' = conn
        \/ conn' = [conn EXCEPT ![d] = [conn[d] EXCEPT !.reading = (conn[d].handle = "open")]]
        \/ conn' = [conn EXCEPT ![d] = [conn[d] EXCEPT !.held = 0]]
        \/ conn' = [conn EXCEPT ![d] = ClosedRec(conn[d])]
        \/ /\ conn' = [conn EXCEPT ![d] = [conn[d] EXCEPT !.mem = "freed"]]
           /\ conn[d].closeCb = "on_handle_closed"
    BY <1>6, <2>2 DEF ReturnConnect, ReturnReceive, ReturnRequest, ReturnClose,
                      LaureConnClose, d
  <2>4. \/ conn'[c] = conn[c]
        \/ conn'[c] = [conn[c] EXCEPT !.reading = (conn[c].handle = "open")]
        \/ conn'[c] = [conn[c] EXCEPT !.held = 0]
        \/ conn'[c] = ClosedRec(conn[c])
        \/ /\ conn'[c] = [conn[c] EXCEPT !.mem = "freed"]
           /\ conn[c].closeCb = "on_handle_closed"
    BY <1>1, <2>1, <2>3
  <2>5. /\ Good([conn[c] EXCEPT !.reading = (conn[c].handle = "open")])
        /\ Good([conn[c] EXCEPT !.held = 0]) /\ Good(ClosedRec(conn[c]))
        /\ conn[c].closeCb = "on_handle_closed" => Good([conn[c] EXCEPT !.mem = "freed"])
    BY <1>1, GoodRecs
  <2>. QED
    BY <2>4, <2>5
<1>. QED
  BY <1>2, <1>3, <1>4, <1>5, <1>6 DEF Php, Finish, Return

\* An object is made of a connection that is allocated.
LEMMA NewObject ==
    ASSUME IInv, Next, NEW o \in objs'
    PROVE  o \in objs \/ conn'[o[1]].mem = "live"
<1>1. TypeOK /\ conn \in [Conns -> ConnRecs] /\ \A c \in Conns : RecOK(conn[c])
  BY DEF IInv, TypeOK
<1>2. CASE Script \/ Php \/ TakeClosing \/ ExitRun \/ Return \/ Terminated
  <2>1. objs' = objs
    BY <1>2 DEF Script, Start, StartFails, LoopInitFails, Destroy, Php, PhpStop, PhpCatch,
       PhpOn, PhpSend, PhpClose, PhpUseStale, TakeClosing, ExitRun, Return, ResumeFreed,
       ReturnConnect, ReturnReceive, ReturnRequest, ReturnTick, ReturnClose, Terminated,
       phpVars, vars
  <2>. QED
    BY <2>1
<1>3. ASSUME NEW d \in Conns, Accept(d) PROVE o \in objs \/ conn'[o[1]].mem = "live"
  <2>. DEFINE r == [NewConn EXCEPT !.mem = "live", !.handle = "open",
                                   !.reading = ~Callable("connect")]
  <2>1. conn' = [conn EXCEPT ![d] = r] /\ objs' \subseteq objs \cup {<<d, "Connection">>}
    BY <1>3 DEF Accept
  <2>2. r.mem = "live"
    BY AcceptedFields
  <2>. HIDE DEF r
  <2>3. conn'[d] = r
    BY <1>1, <2>1
  <2>. QED
    BY <2>1, <2>2, <2>3
<1>4. ASSUME NEW d \in Conns, ReadTcp(d) PROVE o \in objs \/ conn'[o[1]].mem = "live"
  <2>0. PICK kept \in {0, 1} :
          LET r == [conn[d] EXCEPT !.rcvd = @ + kept, !.held = @ + kept]
          IN  \/ conn' = [conn EXCEPT ![d] = [r EXCEPT !.dlvd = @ + r.held]]
              \/ conn' = [conn EXCEPT ![d] = [r EXCEPT !.held = 0]]
              \/ conn' = [conn EXCEPT ![d] = r]
    BY <1>4 DEF ReadTcp
  <2>. DEFINE r == [conn[d] EXCEPT !.rcvd = @ + kept, !.held = @ + kept]
  <2>1. conn[d] \in ConnRecs /\ conn[d].mem = "live"
    BY <1>1, <1>4 DEF ReadTcp, Readable, RecOK
  <2>2. /\ r.mem = "live" /\ [r EXCEPT !.held = 0].mem = "live"
        /\ [r EXCEPT !.dlvd = @ + r.held].mem = "live"
    BY <2>1 DEF ConnRecs
  <2>. HIDE DEF r
  <2>3. \E s : conn' = [conn EXCEPT ![d] = s] /\ s.mem = "live"
    BY <2>0, <2>2 DEF r
  <2>4. conn'[d].mem = "live"
    BY <1>1, <2>3
  <2>5. objs' \subseteq objs \cup {<<d, "Connection">>}
    BY <1>4 DEF ReadTcp
  <2>. QED
    BY <2>4, <2>5
<1>5. ASSUME NEW d \in Conns, ReadHttp(d) PROVE o \in objs \/ conn'[o[1]].mem = "live"
  <2>1. conn[d].mem = "live"
    BY <1>1, <1>5 DEF ReadHttp, Readable, RecOK
  <2>2. objs' = objs \/ (conn' = conn /\ objs' = objs \cup {<<d, "Response">>})
    BY <1>5 DEF ReadHttp
  <2>. QED
    BY <2>1, <2>2
<1>6. ASSUME NEW d \in Conns, OnHandleClosed(d) PROVE o \in objs \/ conn'[o[1]].mem = "live"
  <2>1. conn[d].mem = "live" /\ FinishedRec(conn[d]).mem = "live"
    BY <1>1, <1>6, FinishedFields DEF OnHandleClosed
  <2>2. \/ objs' = objs
        \/ /\ conn' = [conn EXCEPT ![d] = FinishedRec(conn[d])]
           /\ objs' = objs \cup {<<d, "Connection">>}
    BY <1>6 DEF OnHandleClosed
  <2>3. objs' = objs \/ conn'[d].mem = "live"
    BY <1>1, <2>1, <2>2
  <2>. QED
    BY <2>2, <2>3
<1>7. ASSUME NEW d \in Conns,
             AcceptFails(d) \/ WriteDone(d) \/ ReadEof(d) \/ FinishDangling(d) \/ FinishWalked(d)
      PROVE  objs' = objs
  BY <1>7 DEF AcceptFails, WriteDone, ReadEof, FinishDangling, FinishWalked, phpVars
<1>8. CASE OnTick \/ OnSignal
  BY <1>8 DEF OnTick, OnSignal, phpVars
<1>. QED
  BY <1>2, <1>3, <1>4, <1>5, <1>6, <1>7, <1>8 DEF Next, Network, Finish

\* A refused loop: nothing runs on it, and start() threw.
LEMMA RawIdle ==
    ASSUME IInv, Next, loop = "raw" => stack = <<>> /\ exc # "none"
    PROVE  loop' = "raw" => stack' = <<>> /\ exc' # "none"
<1>. SUFFICES ASSUME loop' = "raw" PROVE stack' = <<>> /\ exc' # "none"
  OBVIOUS
<1>1. CASE Script
  BY <1>1 DEF Script, Start, StartFails, LoopInitFails, Destroy, Idle
<1>2. CASE Php
  BY <1>2 DEF Php, PhpStop, PhpCatch, PhpOn, PhpSend, PhpClose, PhpUseStale, srvVars, phpVars
<1>3. CASE Network \/ TakeClosing \/ Finish \/ ExitRun \/ Return
  <2>1. stack # <<>>
    BY <1>3 DEF Network, OnTick, OnSignal, Accept, AcceptFails, WriteDone, ReadTcp, ReadHttp,
       ReadEof, Readable, TakeClosing, Finish, FinishDangling, FinishWalked, OnHandleClosed,
       ExitRun, Return, ResumeFreed, ReturnConnect, ReturnReceive, ReturnRequest,
       ReturnTick, ReturnClose, Returns, Polling, Looping, InCallback
  <2>2. loop' = loop
    BY <1>3 DEF Network, OnTick, OnSignal, Accept, AcceptFails, WriteDone, ReadTcp, ReadHttp,
       ReadEof, TakeClosing, Finish, FinishDangling, FinishWalked, OnHandleClosed,
       ExitRun, Return, ResumeFreed, ReturnConnect, ReturnReceive, ReturnRequest,
       ReturnTick, ReturnClose, srvVars
  <2>. QED
    BY <2>1, <2>2
<1>4. CASE Terminated
  BY <1>4 DEF Terminated, vars
<1>. QED
  BY <1>1, <1>2, <1>3, <1>4 DEF Next

\* The script's own faults come of its own calls only.
LEMMA ScriptFault ==
    ASSUME IInv, Given, ScriptFaults, Next
    PROVE  ScriptFaults'
<1>1. CASE Terminated
  BY <1>1 DEF Terminated, vars, ScriptFaults
<1>2. CASE Destroy
  <2>1. fault = "none" /\ stack = <<>> /\ UNCHANGED <<stack, exc>>
    BY <1>2 DEF Destroy, Idle, phpVars
  <2>2. fault' = "raw_loop" => loop = "raw"
    BY <1>2, <2>1 DEF Destroy
  <2>3. fault' # "object"
    BY <1>2, <2>1 DEF Destroy
  <2>. QED
    BY <2>1, <2>2, <2>3 DEF Given, ScriptFaults
<1>3. CASE PhpStop
  <2>1. fault = "none"
    BY <1>3 DEF PhpStop, InUser, Idle, InCallback
  <2>2. \/ loop = "raw" /\ fault' = "raw_loop" /\ UNCHANGED <<stack, exc>>
        \/ fault' \in {"none", "uv_closing"}
    BY <1>3, <2>1 DEF PhpStop, WalkCloseAll, TouchHandles, phpVars
  <2>. QED
    BY <2>2 DEF Given, ScriptFaults
<1>4. ASSUME NEW c \in Conns, PhpUseStale(c) PROVE ScriptFaults'
  <2>1. PICK kind \in {"Connection", "Response"} : <<c, kind>> \in objs
    BY <1>4 DEF PhpUseStale
  <2>2. /\ conn[c].mem = "freed" /\ fault' = "object" /\ UNCHANGED <<conn, objs>>
    BY <1>4 DEF PhpUseStale, phpVars
  <2>3. conn[c].closeCb = "on_handle_closed"
    BY <2>1, <2>2 DEF Given
  <2>. QED
    BY <2>1, <2>2, <2>3 DEF ScriptFaults
<1>5. CASE \/ Start \/ StartFails \/ LoopInitFails \/ PhpCatch \/ (\E e \in Events : PhpOn(e))
           \/ (\E c \in Conns : PhpSend(c) \/ PhpClose(c))
  <2>1. fault' = "none"
    BY <1>5 DEF Start, StartFails, LoopInitFails, PhpCatch, PhpOn, PhpSend, PhpClose,
       InUser, Idle, InCallback
  <2>. QED
    BY <2>1 DEF ScriptFaults
<1>6. CASE Network \/ TakeClosing \/ Finish \/ ExitRun
  <2>1. fault' \in {"none", "uv_closing"}
    BY <1>6 DEF Network, OnTick, OnSignal, Accept, AcceptFails, WriteDone, ReadTcp, ReadHttp,
       ReadEof, Readable, TakeClosing, Finish, FinishDangling, FinishWalked, OnHandleClosed,
       ExitRun, Polling, Looping, WalkCloseAll, TouchHandles
  <2>. QED
    BY <2>1 DEF ScriptFaults
<1>7. CASE Return
  <2>1. fault' \in {"none", "resume", "double_free"}
    BY <1>7 DEF Return, ResumeFreed, ReturnConnect, ReturnReceive, ReturnRequest,
       ReturnTick, ReturnClose, Returns, InCallback
  <2>. QED
    BY <2>1 DEF ScriptFaults
<1>. QED
  BY <1>1, <1>2, <1>3, <1>4, <1>5, <1>6, <1>7 DEF Next, Script, Php

LEMMA GivenStep ==
    ASSUME IInv, Given, Next PROVE Given'
<1>1. ASSUME NEW c \in Conns, Good(conn[c]) PROVE Good(conn'[c])
  <2>1. CASE Script
    BY <1>1, <2>1 DEF Script, Start, StartFails, LoopInitFails, Destroy
  <2>2. CASE Terminated
    BY <1>1, <2>2 DEF Terminated, vars
  <2>. QED
    BY <1>1, <2>1, <2>2, GoodNetwork, GoodOther DEF Next
<1>2. ASSUME NEW o \in objs' PROVE Good(conn'[o[1]])
  <2>1. CASE o \in objs
    <3>1. o[1] \in Conns
      BY <2>1 DEF IInv, TypeOK
    <3>2. Good(conn[o[1]])
      BY <2>1 DEF Given, Good
    <3>. QED
      BY <1>1, <3>1, <3>2
  <2>2. CASE o \notin objs
    BY <2>2, NewObject DEF Good
  <2>. QED
    BY <2>1, <2>2
<1>3. loop' = "raw" => stack' = <<>> /\ exc' # "none"
  BY RawIdle DEF Given
<1>. QED
  BY <1>2, <1>3 DEF Given, Good

\* Objects and a refused loop are as ScriptFaults needs them, in every behaviour.
LEMMA Used == Spec => []UseInv
<1>1. Init => UseInv
  BY InitInv DEF Init, UseInv, Given, ScriptFaults
<1>2. UseInv /\ [Next]_vars => UseInv'
  <2>1. UseInv /\ Next => UseInv'
    BY StepInv, GivenStep, ScriptFault DEF UseInv
  <2>2. UseInv /\ UNCHANGED vars => UseInv'
    <3>. SUFFICES ASSUME UseInv, UNCHANGED vars PROVE UseInv'
      OBVIOUS
    <3>1. IInv'
      BY StepInv DEF UseInv
    <3>2. Given' /\ ScriptFaults'
      BY DEF UseInv, Given, ScriptFaults, vars
    <3>. QED
      BY <3>1, <3>2 DEF UseInv
  <2>. QED
    BY <2>1, <2>2
<1>. QED
  BY <1>1, <1>2, PTL DEF Spec

\* The undefined behaviour that callbacks, stop() and close() can bring about
\* has no cause but the ones KnownFaults names: stop() under a connection that
\* was closing already (server.c:194), a refused uv_accept (conn.c:190), an
\* object kept after on_handle_closed freed its connection (conn.c:88), and a
\* refused loop in the hands of who called start() (server.c:111).
THEOREM OnlyKnownFaults == Spec => []KnownFaults
<1>1. UseInv => KnownFaults
  BY DEF UseInv, IInv, KnownFaults
<1>. QED
  BY <1>1, Used, PTL

=============================================================================
