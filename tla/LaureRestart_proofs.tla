-------------------------- MODULE LaureRestart_proofs --------------------------
(***************************************************************************)
(* Theorems about LaureRestart, for any number of loops and connections.   *)
(* The inductive invariant IInv is stated in LaureRestart.                 *)
(***************************************************************************)
EXTENDS LaureRestart, TLAPS, SequenceTheorems

USE NoLoopAssumption, SrvAssumption

-----------------------------------------------------------------------------
(* The stack. *)

LEMMA Pushed ==
    ASSUME NEW s \in Seq(Frames), NEW f \in Frames
    PROVE  /\ Append(s, f) \in Seq(Frames)
           /\ Len(Append(s, f)) = Len(s) + 1
           /\ Append(s, f)[Len(s) + 1] = f
           /\ \A i \in 1..Len(s) : Append(s, f)[i] = s[i]
  OBVIOUS

LEMMA Popped ==
    ASSUME NEW s \in Seq(Frames), s # <<>>, NEW p, p = SubSeq(s, 1, Len(s) - 1)
    PROVE  /\ p \in Seq(Frames)
           /\ Len(p) = Len(s) - 1
           /\ \A i \in 1..Len(p) : p[i] = s[i]
<1> DEFINE n == Len(s) - 1
<1>1. n \in Nat /\ \A i \in 1..n : s[i] \in Frames
  OBVIOUS
<1>2. p = SubSeq(s, 1, n)
  OBVIOUS
<1> HIDE DEF n
<1>3. /\ p \in Seq(Frames)
      /\ Len(p) = IF 1 <= n THEN n - 1 + 1 ELSE 0
      /\ \A i \in 1..(n - 1 + 1) : p[i] = s[1 + i - 1]
  BY <1>1, <1>2, SubSeqProperties
<1>4. n - 1 + 1 = n /\ \A i \in 1..n : 1 + i - 1 = i
  BY <1>1
<1>5. Len(p) = n
  BY <1>1, <1>3
<1> QED
  BY <1>1, <1>3, <1>4, <1>5 DEF n

LEMMA TopSet ==
    ASSUME NEW s \in Seq(Frames), s # <<>>, NEW f \in Frames, NEW t,
           t = [s EXCEPT ![Len(s)] = f]
    PROVE  /\ t \in Seq(Frames) /\ Len(t) = Len(s) /\ t[Len(s)] = f
           /\ \A i \in 1..(Len(s) - 1) : t[i] = s[i]
  OBVIOUS

LEMMA FrameType ==
    ASSUME NEW fn \in {"uv_run", "callback"}, NEW g \in Loops
    PROVE  Frame(fn, g) \in Frames /\ Frame(fn, g).fn = fn
           /\ Frame(fn, g).on = g /\ Frame(fn, g).q = {}
  BY DEF Frame, Frames

\* The types, one by one.
LEMMA TypeParts ==
    ASSUME TypeOK
    PROVE  /\ stack \in Seq(Frames) /\ Depth \in Nat
           /\ \A i \in 1..Depth : stack[i] \in Frames
           /\ stack # <<>> => Depth \in 1..Depth /\ Top \in Frames
           /\ hand \in [Handles -> HandRecs]
           /\ mem \in [Loops -> {"unused", "open", "raw", "freed"}]
           /\ cur \in Loops \cup {NoLoop}
  BY DEF TypeOK, Depth, Top

LEMMA FrameFields ==
    ASSUME NEW f \in Frames
    PROVE  /\ f.fn \in {"uv_run", "callback"} /\ f.on \in Loops /\ f.q \subseteq Handles
           /\ \A q \in SUBSET Handles :
                 /\ [f EXCEPT !.q = q] \in Frames
                 /\ [f EXCEPT !.q = q].fn = f.fn /\ [f EXCEPT !.q = q].on = f.on
                 /\ [f EXCEPT !.q = q].q = q
  BY DEF Frames

LEMMA HandFields ==
    ASSUME NEW r \in HandRecs
    PROVE  /\ r.st \in {"none", "open", "closing", "closed"}
           /\ r.on \in Loops \cup {NoLoop}
           /\ \A st \in {"none", "open", "closing", "closed"} :
                 /\ [r EXCEPT !.st = st] \in HandRecs
                 /\ [r EXCEPT !.st = st].st = st /\ [r EXCEPT !.st = st].on = r.on
  BY DEF HandRecs

-----------------------------------------------------------------------------
(* What a step keeps of the handles, the lists and the loops. *)

Kept == HandlesRun /\ QueuesOK /\ SuspendedKept

MemStep == \A g \in Loops : mem[g] = "open" => mem'[g] = "open"

\* A handle on no list may change, if its loop is open and runs afterwards.
HandStep ==
    \A h \in Handles :
        \/ hand'[h] = hand[h]
        \/ /\ hand[h].st # "closing"
           /\ Active(h)' =>
                 /\ hand'[h].on \in Loops /\ mem'[hand'[h].on] = "open"
                 /\ \E i \in 1..Depth' : stack'[i].fn = "uv_run" /\ stack'[i].on = hand'[h].on

\* The stack is the same.
LEMMA SameStack ==
    ASSUME TypeOK, Kept, MemStep, HandStep, stack' = stack
    PROVE  Kept'
<1>t. /\ stack \in Seq(Frames) /\ Depth \in Nat /\ Depth' = Depth
      /\ \A i \in 1..Depth : stack[i].on \in Loops /\ stack[i].q \subseteq Handles
  BY TypeParts, FrameFields DEF Depth
<1>1. HandlesRun'
  BY <1>t DEF Kept, HandlesRun, HandStep, MemStep, Active
<1>2. QueuesOK'
  BY <1>t DEF Kept, QueuesOK, HandStep
<1>3. SuspendedKept'
  BY <1>t DEF Kept, SuspendedKept, MemStep
<1> QED
  BY <1>1, <1>2, <1>3 DEF Kept

\* A frame is pushed on an open loop.
LEMMA PushStack ==
    ASSUME TypeOK, Kept, MemStep, HandStep,
           NEW fn \in {"uv_run", "callback"}, NEW g \in Loops, mem'[g] = "open",
           stack' = Append(stack, Frame(fn, g))
    PROVE  Kept'
<1>t. /\ stack \in Seq(Frames) /\ Depth \in Nat /\ Depth = Len(stack)
      /\ \A i \in 1..Depth : stack[i].on \in Loops /\ stack[i].q \subseteq Handles
  BY TypeParts, FrameFields DEF Depth
<1> DEFINE f == Frame(fn, g)
<1>f. f \in Frames /\ f.fn = fn /\ f.on = g /\ f.q = {}
  BY FrameType
<1> HIDE DEF f
<1>s. /\ Depth' = Depth + 1 /\ stack'[Depth + 1] = f
      /\ \A i \in 1..Depth : stack'[i] = stack[i]
  BY <1>t, <1>f, Pushed DEF Depth, f
<1>1. HandlesRun'
  <2> SUFFICES ASSUME NEW h \in Handles, Active(h)'
               PROVE  /\ hand'[h].on \in Loops /\ mem'[hand'[h].on] = "open"
                      /\ \E i \in 1..Depth' : stack'[i].fn = "uv_run" /\ stack'[i].on = hand'[h].on
    BY DEF HandlesRun
  <2>1. CASE hand'[h] = hand[h]
    <3>1. Active(h)
      BY <2>1 DEF Active
    <3>2. hand[h].on \in Loops /\ mem[hand[h].on] = "open"
      BY <3>1 DEF Kept, HandlesRun
    <3>3. PICK i \in 1..Depth : stack[i].fn = "uv_run" /\ stack[i].on = hand[h].on
      BY <3>1 DEF Kept, HandlesRun
    <3>4. i \in 1..Depth' /\ stack'[i] = stack[i]
      BY <1>t, <1>s, <3>3
    <3> QED
      BY <2>1, <3>2, <3>3, <3>4 DEF MemStep
  <2>2. CASE hand'[h] # hand[h]
    BY <2>2 DEF HandStep
  <2> QED
    BY <2>1, <2>2
<1>q. \A i \in 1..Depth' : stack'[i].q # {} => i \in 1..Depth /\ stack'[i] = stack[i]
  BY <1>t, <1>s, <1>f
<1>2. QueuesOK'
  <2> SUFFICES ASSUME NEW i \in 1..Depth', NEW h \in stack'[i].q
               PROVE  /\ hand'[h].st = "closing" /\ hand'[h].on = stack'[i].on
                      /\ stack'[i].fn = "uv_run"
                      /\ \A j \in 1..Depth' : h \in stack'[j].q => i = j
    BY DEF QueuesOK
  <2>1. i \in 1..Depth /\ stack'[i] = stack[i] /\ h \in stack[i].q
    BY <1>q
  <2>2. h \in Handles /\ hand[h].st = "closing" /\ hand[h].on = stack[i].on /\ stack[i].fn = "uv_run"
        /\ \A j \in 1..Depth : h \in stack[j].q => i = j
    BY <1>t, <2>1 DEF Kept, QueuesOK
  <2>3. hand'[h] = hand[h]
    BY <2>2 DEF HandStep
  <2> QED
    BY <1>q, <2>1, <2>2, <2>3
<1>3. SuspendedKept'
  BY <1>t, <1>s, <1>f DEF Kept, SuspendedKept, MemStep
<1> QED
  BY <1>1, <1>2, <1>3 DEF Kept

\* The innermost frame goes; the handles on its loop that are left are on the
\* list of another.
LEMMA PopStack ==
    ASSUME TypeOK, Kept, UNCHANGED <<mem, hand>>, stack # <<>>, stack' = Pop, Top.q = {},
           Top.fn = "uv_run" =>
              \A h \in Handles : Active(h) /\ hand[h].on = Top.on => Queued(h)
    PROVE  Kept'
<1>t. /\ stack \in Seq(Frames) /\ Depth \in Nat /\ Depth = Len(stack)
      /\ \A i \in 1..Depth : stack[i].on \in Loops /\ stack[i].q \subseteq Handles
      /\ Depth \in 1..Depth
  BY TypeParts, FrameFields DEF Depth
<1>s. /\ Depth' = Depth - 1 /\ \A i \in 1..Depth' : i \in 1..Depth /\ stack'[i] = stack[i]
      /\ \A i \in 1..Depth : i # Depth => i \in 1..Depth'
  <2>1. stack' = SubSeq(stack, 1, Len(stack) - 1)
    BY <1>t DEF Pop
  <2>2. Len(stack') = Len(stack) - 1 /\ \A i \in 1..Len(stack') : stack'[i] = stack[i]
    BY <1>t, <2>1, Popped
  <2> QED
    BY <1>t, <2>2 DEF Depth
<1>1. HandlesRun'
  <2> SUFFICES ASSUME NEW h \in Handles, Active(h)
               PROVE  \E i \in 1..Depth' : stack'[i].fn = "uv_run" /\ stack'[i].on = hand[h].on
    BY DEF HandlesRun, Kept, Active
  <2>1. \E i \in 1..Depth : i # Depth /\ stack[i].fn = "uv_run" /\ stack[i].on = hand[h].on
    <3>1. PICK i \in 1..Depth : stack[i].fn = "uv_run" /\ stack[i].on = hand[h].on
      BY DEF Kept, HandlesRun
    <3>2. CASE i # Depth
      BY <3>1, <3>2
    <3>3. CASE i = Depth
      <4>1. Queued(h)
        BY <3>1, <3>3 DEF Top
      <4>2. PICK j \in 1..Depth : h \in stack[j].q
        BY <4>1 DEF Queued
      <4>3. stack[j].fn = "uv_run" /\ stack[j].on = hand[h].on /\ j # Depth
        BY <4>2 DEF Kept, QueuesOK, Top
      <4> QED
        BY <4>3
    <3> QED
      BY <3>2, <3>3
  <2> QED
    BY <2>1, <1>s
<1>2. QueuesOK'
  BY <1>t, <1>s DEF Kept, QueuesOK
<1>3. SuspendedKept'
  BY <1>t, <1>s DEF Kept, SuspendedKept
<1> QED
  BY <1>1, <1>2, <1>3 DEF Kept

-----------------------------------------------------------------------------
(* The rest of IInv. *)

CurOK == fault # "destroyed" /\ cur # NoLoop => mem[cur] \in {"open", "raw"}
Rest == CurOK /\ OwnLoop /\ KnownRestartFaults

LEMMA Parts == IInv <=> TypeOK /\ Kept /\ Rest
  BY DEF IInv, Kept, Rest, CurOK

LEMMA InitAll == Init => TypeOK /\ Kept /\ Rest
<1> SUFFICES ASSUME Init PROVE TypeOK /\ Kept /\ Rest
  OBVIOUS
<1>0. <<>> \in Seq(Frames) /\ Len(<<>>) = 0 /\ [st |-> "none", on |-> NoLoop] \in HandRecs
  BY DEF HandRecs
<1>1. TypeOK
  BY <1>0 DEF Init, TypeOK
<1>2. Depth = 0 /\ \A h \in Handles : ~Active(h)
  BY <1>0 DEF Init, Depth, Active
<1>3. Kept
  BY <1>2 DEF Kept, HandlesRun, QueuesOK, SuspendedKept
<1>4. Rest
  BY <1>0 DEF Init, Rest, CurOK, OwnLoop, KnownRestartFaults, Handles
<1> QED
  BY <1>1, <1>3, <1>4

\* A new loop is made: no handle, frame or pointer is on it.
LEMMA NewLoop ==
    ASSUME TypeOK, Kept, NEW g \in Loops, mem[g] = "unused",
           NEW m \in {"open", "raw", "freed"}, mem' = [mem EXCEPT ![g] = m]
    PROVE  MemStep /\ mem' \in [Loops -> {"unused", "open", "raw", "freed"}] /\ mem'[g] = m
           /\ \A l \in Loops : l # g => mem'[l] = mem[l]
  BY TypeParts DEF MemStep

\* The loops that were open stay so.
LEMMA OnlyOneMade ==
    ASSUME mem \in [Loops -> {"unused", "open", "raw", "freed"}],
           NEW m \in {"open", "raw", "freed"},
           \E g \in Loops : mem[g] = "unused" /\ mem' = [mem EXCEPT ![g] = m]
    PROVE  \A g \in Loops : mem[g] = "open" => mem'[g] = "open"
  OBVIOUS

\* The server's handles are on a loop that a frame runs.
LEMMA ServerRuns ==
    ASSUME Kept, Active(Srv)
    PROVE  stack # <<>>
<1>1. Srv \in Handles
  BY DEF Handles
<1>2. \E i \in 1..Depth : stack[i].fn = "uv_run"
  BY <1>1 DEF Kept, HandlesRun
<1> QED
  BY <1>2 DEF Depth

LEMMA StartKeeps == TypeOK /\ Kept /\ Rest /\ Start => TypeOK' /\ Kept' /\ Rest'
<1> SUFFICES ASSUME TypeOK, Kept, Rest, Start PROVE TypeOK' /\ Kept' /\ Rest'
  OBVIOUS
<1>1. PICK g \in Loops :
         /\ mem[g] = "unused" /\ mem' = [mem EXCEPT ![g] = "open"] /\ cur' = g
         /\ IF Active(Srv)
            THEN fault' = "reinit" /\ UNCHANGED <<hand, stack>>
            ELSE /\ hand' = [hand EXCEPT ![Srv] = [st |-> "open", on |-> g]]
                 /\ stack' = Append(stack, Frame("uv_run", g))
                 /\ UNCHANGED fault
  BY Zenon DEF Start
<1>2. /\ MemStep /\ mem' \in [Loops -> {"unused", "open", "raw", "freed"}] /\ mem'[g] = "open"
  BY <1>1, NewLoop
<1>3. exc' = exc /\ fault = "none" /\ Srv \in Handles
  BY DEF Start, InUser, Idle, InCallback, Handles
<1>4. CASE Active(Srv)
  <2>1. fault' = "reinit" /\ hand' = hand /\ stack' = stack /\ stack # <<>>
    BY <1>1, <1>4, ServerRuns
  <2>2. TypeOK'
    BY <1>1, <1>2, <1>3, <2>1 DEF TypeOK
  <2>3. Kept'
    BY <1>2, <2>1, SameStack DEF HandStep
  <2>4. Rest'
    BY <1>1, <1>2, <1>4, <2>1 DEF Rest, CurOK, OwnLoop, KnownRestartFaults, Active
  <2> QED
    BY <2>2, <2>3, <2>4
<1>5. CASE ~Active(Srv)
  <2>1. /\ hand' = [hand EXCEPT ![Srv] = [st |-> "open", on |-> g]]
        /\ stack' = Append(stack, Frame("uv_run", g)) /\ fault' = fault
    BY <1>1, <1>5
  <2>2. hand' \in [Handles -> HandRecs]
    <3>1. [st |-> "open", on |-> g] \in HandRecs
      BY DEF HandRecs
    <3> QED
      BY <2>1, <3>1, TypeParts
  <2>3. stack \in Seq(Frames) /\ Frame("uv_run", g) \in Frames
    BY TypeParts, FrameType
  <2>4. stack' \in Seq(Frames) /\ Depth' = Depth + 1 /\ Depth \in Nat
        /\ stack'[Depth + 1] = Frame("uv_run", g)
    BY <2>1, <2>3, Pushed, TypeParts DEF Depth
  <2>5. TypeOK'
    BY <1>1, <1>2, <1>3, <2>1, <2>2, <2>4 DEF TypeOK
  <2>6. hand'[Srv].st = "open" /\ hand'[Srv].on = g /\ \A h \in Handles : h # Srv => hand'[h] = hand[h]
    BY <1>3, <2>1, TypeParts
  <2>7. HandStep
    <3>1. \E i \in 1..Depth' : stack'[i].fn = "uv_run" /\ stack'[i].on = g
      BY <2>4, FrameType
    <3>2. hand[Srv].st # "closing"
      BY <1>5 DEF Active
    <3> QED
      BY <1>2, <2>6, <3>1, <3>2 DEF HandStep
  <2>8. Kept'
    BY <1>2, <2>1, <2>7, PushStack
  <2>9. Rest'
    BY <1>1, <1>2, <1>3, <2>1, <2>6 DEF Rest, CurOK, OwnLoop, KnownRestartFaults
  <2> QED
    BY <2>5, <2>8, <2>9
<1> QED
  BY <1>4, <1>5

LEMMA StartFailsKeeps ==
    TypeOK /\ Kept /\ Rest /\ (StartFails \/ LoopInitFails) => TypeOK' /\ Kept' /\ Rest'
<1> SUFFICES ASSUME TypeOK, Kept, Rest, StartFails \/ LoopInitFails
             PROVE  TypeOK' /\ Kept' /\ Rest'
  OBVIOUS
<1>1. CASE StartFails
  <2>1. PICK g \in Loops :
           /\ mem[g] = "unused" /\ mem' = [mem EXCEPT ![g] = "freed"]
           /\ IF Active(Srv)
              THEN fault' = "reinit" /\ UNCHANGED <<cur, hand, exc>>
              ELSE /\ hand' = [hand EXCEPT ![Srv] = [st |-> "closed", on |-> g]]
                   /\ cur' = NoLoop
                   /\ exc' = TRUE
                   /\ UNCHANGED fault
    BY <1>1, Zenon DEF StartFails
  <2>2. MemStep /\ mem' \in [Loops -> {"unused", "open", "raw", "freed"}]
        /\ \A l \in Loops : l # g => mem'[l] = mem[l]
    BY <2>1, NewLoop
  <2>3. stack' = stack /\ fault = "none" /\ Srv \in Handles
    BY <1>1 DEF StartFails, InUser, Idle, InCallback, Handles
  <2>4. CASE Active(Srv)
    <3>1. fault' = "reinit" /\ hand' = hand /\ cur' = cur /\ exc' = exc /\ stack # <<>>
      BY <2>1, <2>4, ServerRuns
    <3>2. TypeOK'
      BY <2>2, <2>3, <3>1 DEF TypeOK
    <3>3. Kept'
      BY <2>2, <2>3, <3>1, SameStack DEF HandStep
    <3>4. CurOK'
      BY <2>1, <2>2, <2>3, <3>1, TypeParts DEF Rest, CurOK
    <3>5. Rest'
      BY <2>3, <2>4, <3>1, <3>4 DEF Rest, OwnLoop, KnownRestartFaults, Active
    <3> QED
      BY <3>2, <3>3, <3>5
  <2>5. CASE ~Active(Srv)
    <3>1. /\ hand' = [hand EXCEPT ![Srv] = [st |-> "closed", on |-> g]]
          /\ cur' = NoLoop /\ exc' = TRUE /\ fault' = fault
      BY <2>1, <2>5
    <3>2. hand' \in [Handles -> HandRecs]
      <4>1. [st |-> "closed", on |-> g] \in HandRecs
        BY DEF HandRecs
      <4> QED
        BY <3>1, <4>1, TypeParts
    <3>3. TypeOK'
      BY <2>2, <2>3, <3>1, <3>2 DEF TypeOK
    <3>4. hand'[Srv].st = "closed" /\ \A h \in Handles : h # Srv => hand'[h] = hand[h]
      BY <2>3, <3>1, TypeParts
    <3>5. HandStep
      BY <2>5, <3>4 DEF HandStep, Active
    <3>6. Kept'
      BY <2>2, <2>3, <3>5, SameStack
    <3>7. Rest'
      BY <2>3, <3>1, <3>4 DEF Rest, CurOK, OwnLoop, KnownRestartFaults
    <3> QED
      BY <3>3, <3>6, <3>7
  <2> QED
    BY <2>4, <2>5
<1>2. CASE LoopInitFails
  <2>1. PICK g \in Loops : mem[g] = "unused" /\ mem' = [mem EXCEPT ![g] = "raw"] /\ cur' = g
    BY <1>2 DEF LoopInitFails
  <2>2. MemStep /\ mem' \in [Loops -> {"unused", "open", "raw", "freed"}] /\ mem'[g] = "raw"
    BY <2>1, NewLoop
  <2>3. UNCHANGED <<hand, stack, fault>> /\ exc' = TRUE /\ fault = "none" /\ g # NoLoop
    BY <1>2 DEF LoopInitFails, InUser, Idle, InCallback
  <2>4. TypeOK'
    BY <2>1, <2>2, <2>3 DEF TypeOK
  <2>5. Kept'
    BY <2>2, <2>3, SameStack DEF HandStep
  <2>6. Rest'
    BY <2>1, <2>2, <2>3 DEF Rest, CurOK, OwnLoop, KnownRestartFaults, Raw
  <2> QED
    BY <2>4, <2>5, <2>6
<1> QED
  BY <1>1, <1>2

\* walk_close_all closes the open handles of the loop where they are.
LEMMA Walked ==
    ASSUME TypeOK, NEW g \in Loops, WalkCloseAll(g)
    PROVE  /\ hand' \in [Handles -> HandRecs]
           /\ \A h \in Handles : hand'[h].on = hand[h].on /\
                 (\/ hand'[h] = hand[h]
                  \/ hand[h].st = "open" /\ hand[h].on = g /\ hand'[h].st = "closing")
<1>1. /\ hand' = [h \in Handles |-> IF hand[h].st = "open" /\ hand[h].on = g
                                    THEN [hand[h] EXCEPT !.st = "closing"] ELSE hand[h]]
      /\ \A h \in Handles : hand[h] \in HandRecs
  BY TypeParts DEF WalkCloseAll
<1>2. \A h \in Handles : /\ [hand[h] EXCEPT !.st = "closing"] \in HandRecs
                         /\ [hand[h] EXCEPT !.st = "closing"].st = "closing"
                         /\ [hand[h] EXCEPT !.st = "closing"].on = hand[h].on
  BY <1>1, HandFields
<1> QED
  BY <1>1, <1>2

LEMMA StopKeeps == TypeOK /\ Kept /\ Rest /\ Stop => TypeOK' /\ Kept' /\ Rest'
<1> SUFFICES ASSUME TypeOK, Kept, Rest, Stop PROVE TypeOK' /\ Kept' /\ Rest'
  OBVIOUS
<1>1. UNCHANGED <<mem, cur, exc>> /\ fault = "none" /\ cur \in Loops /\ Srv \in Handles
  BY TypeParts DEF Stop, InUser, Idle, InCallback, Handles
<1>2. CASE Raw(cur)
  <2>1. fault' = "raw_loop" /\ UNCHANGED <<hand, stack>>
    BY <1>2 DEF Stop
  <2>2. TypeOK' /\ MemStep
    BY <1>1, <2>1 DEF TypeOK, MemStep
  <2>3. Kept'
    BY <2>1, <2>2, SameStack DEF HandStep
  <2>4. Rest'
    BY <1>1, <1>2, <2>1 DEF Rest, CurOK, OwnLoop, KnownRestartFaults, Raw
  <2> QED
    BY <2>2, <2>3, <2>4
<1>3. CASE ~Raw(cur)
  <2>1. WalkCloseAll(cur) /\ stack' = Append(stack, Frame("uv_run", cur)) /\ fault' = fault
    BY <1>3 DEF Stop
  <2>2. mem[cur] = "open" /\ mem'[cur] = "open"
    BY <1>1, <1>3 DEF Rest, CurOK, Raw
  <2>3. /\ hand' \in [Handles -> HandRecs]
        /\ \A h \in Handles : hand'[h].on = hand[h].on /\
              (\/ hand'[h] = hand[h]
               \/ hand[h].st = "open" /\ hand[h].on = cur /\ hand'[h].st = "closing")
    BY <1>1, <2>1, Walked
  <2>4. stack \in Seq(Frames) /\ Frame("uv_run", cur) \in Frames
    BY <1>1, TypeParts, FrameType
  <2>5. stack' \in Seq(Frames) /\ Depth' = Depth + 1 /\ Depth \in Nat
        /\ stack'[Depth + 1] = Frame("uv_run", cur)
    BY <2>1, <2>4, Pushed, TypeParts DEF Depth
  <2>6. TypeOK'
    BY <1>1, <2>1, <2>3, <2>5 DEF TypeOK
  <2>7. HandStep
    <3>1. \E i \in 1..Depth' : stack'[i].fn = "uv_run" /\ stack'[i].on = cur
      BY <1>1, <2>5, FrameType
    <3> QED
      BY <1>1, <2>2, <2>3, <3>1 DEF HandStep
  <2>8. Kept'
    BY <1>1, <2>1, <2>2, <2>7, PushStack DEF MemStep
  <2>9. Rest'
    BY <1>1, <2>1, <2>3 DEF Rest, CurOK, OwnLoop, KnownRestartFaults, Raw
  <2> QED
    BY <2>6, <2>8, <2>9
<1> QED
  BY <1>2, <1>3

\* No handle is active when no frame is left.
LEMMA EmptyClean ==
    ASSUME Kept, stack = <<>>
    PROVE  \A h \in Handles : ~Active(h)
<1>1. Depth = 0
  BY DEF Depth
<1> QED
  BY <1>1 DEF Kept, HandlesRun

LEMMA ScriptEndKeeps ==
    TypeOK /\ Kept /\ Rest /\ (Destroy \/ Catch) => TypeOK' /\ Kept' /\ Rest'
<1> SUFFICES ASSUME TypeOK, Kept, Rest, Destroy \/ Catch PROVE TypeOK' /\ Kept' /\ Rest'
  OBVIOUS
<1>1. CASE Destroy /\ Raw(cur)
  <2>1. fault' = "raw_loop" /\ UNCHANGED <<mem, cur, hand, stack, exc>>
    BY <1>1 DEF Destroy
  <2>2. TypeOK' /\ MemStep
    BY <2>1 DEF TypeOK, MemStep
  <2>3. Kept'
    BY <2>1, <2>2, SameStack DEF HandStep
  <2>4. Rest'
    BY <1>1, <2>1 DEF Rest, CurOK, OwnLoop, KnownRestartFaults, Raw, Destroy, Idle
  <2> QED
    BY <2>2, <2>3, <2>4
<1>2. CASE Destroy /\ ~Raw(cur)
  <2>1. /\ mem' = [l \in Loops |-> IF l = cur THEN "freed" ELSE mem[l]]
        /\ UNCHANGED <<cur, hand, stack, exc>> /\ stack = <<>>
    BY <1>2 DEF Destroy, Idle
  <2>2. \A h \in Handles : ~Active(h)
    BY <2>1, EmptyClean
  <2>3. fault' = "destroyed"
    BY <1>2, <2>2 DEF Destroy
  <2>4. TypeOK'
    BY <2>1, <2>3, TypeParts DEF TypeOK
  <2>5. Depth' = 0 /\ \A h \in Handles : ~Active(h)'
    BY <2>1, <2>2 DEF Depth, Active
  <2>6. Kept'
    BY <2>5 DEF Kept, HandlesRun, QueuesOK, SuspendedKept
  <2>7. Rest'
    BY <2>3 DEF Rest, CurOK, OwnLoop, KnownRestartFaults
  <2> QED
    BY <2>4, <2>6, <2>7
<1>3. CASE Catch
  <2>1. UNCHANGED <<mem, cur, hand, stack, fault>> /\ exc' = FALSE
    BY <1>3 DEF Catch
  <2>2. TypeOK' /\ MemStep
    BY <2>1 DEF TypeOK, MemStep
  <2>3. Kept'
    BY <2>1, <2>2, SameStack DEF HandStep
  <2>4. Rest'
    BY <2>1 DEF Rest, CurOK, OwnLoop, KnownRestartFaults, Raw, Active
  <2> QED
    BY <2>2, <2>3, <2>4
<1> QED
  BY <1>1, <1>2, <1>3

-----------------------------------------------------------------------------
(* The steps of the loop that runs. *)

\* Nothing about the server's handles and the pointer changes for the worse.
LEMMA SameRest ==
    ASSUME Rest, UNCHANGED <<mem, cur, fault>>, fault = "none",
           hand'[Srv].st = "open" => hand[Srv].st = "open" /\ hand'[Srv].on = hand[Srv].on
    PROVE  Rest'
  BY DEF Rest, CurOK, OwnLoop, KnownRestartFaults, Raw

\* The innermost uv_run.
LEMMA RunTop ==
    ASSUME TypeOK, Kept, Looping
    PROVE  /\ fault = "none" /\ stack # <<>> /\ Top.fn = "uv_run" /\ Top \in Frames
           /\ Depth \in 1..Depth /\ Depth \in Nat /\ stack[Depth] = Top
           /\ Top.on \in Loops /\ mem[Top.on] = "open" /\ Srv \in Handles
           /\ Top.q \subseteq Handles
<1>1. fault = "none" /\ stack # <<>> /\ Top.fn = "uv_run"
  BY DEF Looping
<1>2. Depth \in 1..Depth /\ Depth \in Nat /\ Top \in Frames
  BY <1>1, TypeParts
<1> QED
  BY <1>1, <1>2, FrameFields DEF Top, Kept, SuspendedKept, Handles

LEMMA AcceptKeeps ==
    ASSUME TypeOK, Kept, Rest, NEW c \in Conns, Accept(c)
    PROVE  TypeOK' /\ Kept' /\ Rest'
<1>0. Looping
  BY DEF Accept, Polling
<1>1. /\ UNCHANGED <<mem, cur, exc>> /\ hand[Srv].st = "open" /\ hand[Srv].on = Top.on
      /\ hand[c].st = "none" /\ c \in Handles /\ c # Srv
  BY DEF Accept, Handles
<1>2. CASE Raw(cur)
  <2>1. fault' = "raw_loop" /\ UNCHANGED <<hand, stack>>
    BY <1>2 DEF Accept
  <2>2. TypeOK' /\ MemStep
    BY <1>1, <2>1 DEF TypeOK, MemStep
  <2>3. Kept'
    BY <2>1, <2>2, SameStack DEF HandStep
  <2>4. Rest'
    BY <1>0, <1>1, <1>2, <2>1, RunTop DEF Rest, CurOK, OwnLoop, KnownRestartFaults, Raw
  <2> QED
    BY <2>2, <2>3, <2>4
<1>3. CASE ~Raw(cur)
  <2>1. /\ hand' = [hand EXCEPT ![c] = [st |-> "open", on |-> cur]] /\ fault' = fault
        /\ stack' \in {stack, Append(stack, Frame("callback", Top.on))}
    BY <1>3 DEF Accept
  <2>2. cur = Top.on
    BY <1>0, <1>1, <1>3, RunTop DEF Rest, OwnLoop
  <2>3. hand' \in [Handles -> HandRecs]
    <3>1. [st |-> "open", on |-> cur] \in HandRecs
      BY TypeParts DEF HandRecs
    <3> QED
      BY <2>1, <3>1, TypeParts
  <2>4. hand'[c].st = "open" /\ hand'[c].on = cur /\ \A h \in Handles : h # c => hand'[h] = hand[h]
    BY <1>1, <2>1, TypeParts
  <2>s. stack \in Seq(Frames) /\ Frame("callback", Top.on) \in Frames /\ Depth = Len(stack)
    BY <1>0, RunTop, TypeParts, FrameType DEF Depth
  <2>5. /\ stack' \in Seq(Frames) /\ Depth \in 1..Depth' /\ stack'[Depth] = Top
    BY <1>0, <2>1, <2>s, RunTop, Pushed DEF Depth
  <2>6. TypeOK' /\ MemStep
    BY <1>1, <2>1, <2>3, <2>5 DEF TypeOK, MemStep
  <2>7. HandStep
    BY <1>0, <1>1, <2>2, <2>4, <2>5, RunTop DEF HandStep
  <2>8. Kept'
    <3>1. CASE stack' = stack
      BY <2>6, <2>7, <3>1, SameStack
    <3>2. CASE stack' = Append(stack, Frame("callback", Top.on))
      BY <1>0, <1>1, <2>6, <2>7, <3>2, RunTop, PushStack
    <3> QED
      BY <2>1, <3>1, <3>2
  <2>9. Rest'
    BY <1>0, <1>1, <2>1, <2>4, RunTop, SameRest
  <2> QED
    BY <2>6, <2>8, <2>9
<1> QED
  BY <1>2, <1>3

LEMMA CallbackKeeps == TypeOK /\ Kept /\ Rest /\ Callback => TypeOK' /\ Kept' /\ Rest'
<1> SUFFICES ASSUME TypeOK, Kept, Rest, Callback PROVE TypeOK' /\ Kept' /\ Rest'
  OBVIOUS
<1>0. Looping
  BY DEF Callback, Polling
<1>1. UNCHANGED <<mem, cur, hand, exc, fault>> /\ stack' = Append(stack, Frame("callback", Top.on))
  BY DEF Callback
<1>2. stack \in Seq(Frames) /\ Frame("callback", Top.on) \in Frames
  BY <1>0, RunTop, TypeParts, FrameType
<1>3. stack' \in Seq(Frames)
  BY <1>1, <1>2, Pushed
<1>4. TypeOK' /\ MemStep
  BY <1>1, <1>3 DEF TypeOK, MemStep
<1>5. Kept'
  BY <1>0, <1>1, <1>4, RunTop, PushStack DEF HandStep
<1>6. Rest'
  BY <1>0, <1>1, RunTop, SameRest
<1> QED
  BY <1>4, <1>5, <1>6

LEMMA CloseKeeps ==
    ASSUME TypeOK, Kept, Rest, NEW c \in Conns, Close(c)
    PROVE  TypeOK' /\ Kept' /\ Rest'
<1>1. /\ UNCHANGED <<mem, cur, stack, exc, fault>> /\ hand[c].st = "open"
      /\ hand' = [hand EXCEPT ![c].st = "closing"] /\ fault = "none"
      /\ c \in Handles /\ c # Srv /\ Srv \in Handles
  BY DEF Close, InUser, Idle, InCallback, Polling, Looping, Handles
<1>2. hand[c] \in HandRecs /\ hand \in [Handles -> HandRecs]
  BY <1>1, TypeParts
<1> DEFINE r == [hand[c] EXCEPT !.st = "closing"]
<1>r. r \in HandRecs /\ r.st = "closing" /\ r.on = hand[c].on
  BY <1>2, HandFields
<1>e. hand' = [hand EXCEPT ![c] = r]
  BY <1>1
<1> HIDE DEF r
<1>3. hand'[c] = r /\ \A h \in Handles : h # c => hand'[h] = hand[h]
  BY <1>1, <1>2, <1>e
<1>4. hand' \in [Handles -> HandRecs] /\ hand'[c].on = hand[c].on /\ hand'[c].st = "closing"
  BY <1>1, <1>2, <1>3, <1>e, <1>r
<1>5. TypeOK' /\ MemStep
  BY <1>1, <1>4 DEF TypeOK, MemStep
<1>6. HandStep
  <2>1. /\ hand[c].on \in Loops /\ mem[hand[c].on] = "open"
        /\ \E i \in 1..Depth : stack[i].fn = "uv_run" /\ stack[i].on = hand[c].on
    BY <1>1 DEF Kept, HandlesRun, Active
  <2>2. Depth' = Depth
    BY <1>1 DEF Depth
  <2> QED
    BY <1>1, <1>3, <1>4, <2>1, <2>2 DEF HandStep
<1>7. Kept'
  BY <1>1, <1>5, <1>6, SameStack
<1>8. Rest'
  BY <1>1, <1>3, SameRest
<1> QED
  BY <1>5, <1>7, <1>8

LEMMA SignalKeeps == TypeOK /\ Kept /\ Rest /\ OnSignal => TypeOK' /\ Kept' /\ Rest'
<1> SUFFICES ASSUME TypeOK, Kept, Rest, OnSignal PROVE TypeOK' /\ Kept' /\ Rest'
  OBVIOUS
<1>0. Looping
  BY DEF OnSignal, Polling
<1>1. UNCHANGED <<mem, cur, stack, exc, fault>> /\ WalkCloseAll(Top.on)
  BY DEF OnSignal
<1>2. /\ hand' \in [Handles -> HandRecs]
      /\ \A h \in Handles : hand'[h].on = hand[h].on /\
            (\/ hand'[h] = hand[h]
             \/ hand[h].st = "open" /\ hand[h].on = Top.on /\ hand'[h].st = "closing")
  BY <1>0, <1>1, RunTop, Walked
<1>3. TypeOK' /\ MemStep
  BY <1>1, <1>2 DEF TypeOK, MemStep
<1>4. HandStep
  <2>1. Depth' = Depth /\ mem'[Top.on] = "open" /\ stack'[Depth] = Top
    BY <1>0, <1>1, RunTop DEF Depth
  <2> QED
    BY <1>0, <1>1, <1>2, <2>1, RunTop DEF HandStep
<1>5. Kept'
  BY <1>1, <1>3, <1>4, SameStack
<1>6. Rest'
  BY <1>0, <1>1, <1>2, RunTop, SameRest
<1> QED
  BY <1>3, <1>5, <1>6

LEMMA TakeKeeps == TypeOK /\ Kept /\ Rest /\ TakeClosing => TypeOK' /\ Kept' /\ Rest'
<1> SUFFICES ASSUME TypeOK, Kept, Rest, TakeClosing PROVE TypeOK' /\ Kept' /\ Rest'
  OBVIOUS
<1>0. Looping
  BY DEF TakeClosing, Polling
<1>1. UNCHANGED <<mem, cur, hand, exc, fault>>
  BY DEF TakeClosing
<1> DEFINE P == Pending(Top.on)
           f == [Top EXCEPT !.q = P]
<1>p. \A h \in P : /\ h \in Handles /\ hand[h].st = "closing" /\ hand[h].on = Top.on
                    /\ \A i \in 1..Depth : h \notin stack[i].q
  BY DEF Pending, Queued
<1>e. stack' = [stack EXCEPT ![Depth] = f]
  BY DEF TakeClosing, Top
<1>f. f \in Frames /\ f.fn = "uv_run" /\ f.on = Top.on /\ f.q = P
  <2>1. P \in SUBSET Handles
    BY <1>p
  <2> HIDE DEF P
  <2> QED
    BY <1>0, <2>1, RunTop, FrameFields
<1> HIDE DEF P, f
<1>t. stack \in Seq(Frames) /\ stack # <<>> /\ Depth = Len(stack)
  BY <1>0, RunTop, TypeParts DEF Depth
<1>s. /\ stack' \in Seq(Frames) /\ Depth' = Depth /\ stack'[Depth] = f
      /\ \A i \in 1..(Depth - 1) : stack'[i] = stack[i]
  BY <1>t, <1>e, <1>f, TopSet DEF Depth
<1>2. TypeOK'
  BY <1>1, <1>s DEF TypeOK
<1>3. \A i \in 1..Depth : /\ stack'[i].fn = stack[i].fn /\ stack'[i].on = stack[i].on
                          /\ stack'[i] = stack[i] \/ i = Depth
  BY <1>0, <1>s, <1>f, RunTop
<1>4. HandlesRun'
  BY <1>1, <1>s, <1>3 DEF Kept, HandlesRun, Active
<1>5. QueuesOK'
  <2> SUFFICES ASSUME NEW i \in 1..Depth, NEW h \in stack'[i].q
               PROVE  /\ hand[h].st = "closing" /\ hand[h].on = stack[i].on
                      /\ stack[i].fn = "uv_run"
                      /\ \A j \in 1..Depth : h \in stack'[j].q => i = j
    BY <1>1, <1>s, <1>3 DEF QueuesOK
  <2>1. CASE h \in P
    <3>1. \A j \in 1..Depth : h \in stack'[j].q => j = Depth
      BY <1>p, <1>3, <2>1
    <3> QED
      BY <1>0, <1>p, <2>1, <3>1, RunTop
  <2>2. CASE h \notin P
    <3>1. \A j \in 1..Depth : h \in stack'[j].q => j # Depth /\ h \in stack[j].q
      BY <1>s, <1>f, <1>3, <2>2
    <3> QED
      BY <3>1 DEF Kept, QueuesOK
  <2> QED
    BY <2>1, <2>2
<1>6. SuspendedKept'
  BY <1>1, <1>s, <1>3 DEF Kept, SuspendedKept
<1>7. Rest'
  BY <1>0, <1>1, RunTop, SameRest
<1> QED
  BY <1>2, <1>4, <1>5, <1>6, <1>7 DEF Kept

LEMMA FinishKeeps ==
    ASSUME TypeOK, Kept, Rest, NEW h \in Handles, Finish(h)
    PROVE  TypeOK' /\ Kept' /\ Rest'
<1> DEFINE s == [stack EXCEPT ![Depth].q = @ \ {h}]
           f == Frame("callback", Top.on)
<1>1. /\ Looping /\ h \in Top.q /\ UNCHANGED <<mem, cur, exc, fault>>
      /\ hand' = [hand EXCEPT ![h].st = "closed"]
      /\ stack' = s \/ stack' = Append(s, f)
  BY DEF Finish
<1>2. /\ hand' \in [Handles -> HandRecs] /\ s \in Seq(Frames) /\ Len(s) = Depth
      /\ hand'[h].st = "closed" /\ \A k \in Handles : k # h => hand'[k] = hand[k]
      /\ \A i \in 1..Depth : s[i].fn = stack[i].fn /\ s[i].on = stack[i].on
      /\ \A i \in 1..Depth : s[i].q = stack[i].q \ {h}
      /\ Rest'
  <2> DEFINE r == [hand[h] EXCEPT !.st = "closed"]
             t == [Top EXCEPT !.q = @ \ {h}]
  <2>1. r \in HandRecs /\ r.st = "closed"
    <3>1. hand[h] \in HandRecs
      BY TypeParts
    <3> QED
      BY <3>1, HandFields
  <2>2. t \in Frames /\ t.fn = Top.fn /\ t.on = Top.on /\ t.q = Top.q \ {h}
    <3>1. t = [Top EXCEPT !.q = Top.q \ {h}] /\ Top.q \ {h} \in SUBSET Handles
      BY <1>1, RunTop
    <3> QED
      BY <1>1, <3>1, RunTop, FrameFields
  <2>3. hand' = [hand EXCEPT ![h] = r] /\ s = [stack EXCEPT ![Len(stack)] = t]
    BY <1>1 DEF Top, Depth
  <2>4. /\ stack \in Seq(Frames) /\ stack # <<>> /\ Depth = Len(stack)
        /\ hand \in [Handles -> HandRecs]
    BY <1>1, RunTop, TypeParts DEF Depth
  <2> HIDE DEF r, t, s, f
  <2>5. /\ hand' \in [Handles -> HandRecs]
        /\ hand'[h] = r /\ \A k \in Handles : k # h => hand'[k] = hand[k]
    BY <2>1, <2>3, <2>4
  <2>6. /\ s \in Seq(Frames) /\ Len(s) = Depth /\ s[Depth] = t
        /\ \A i \in 1..(Depth - 1) : s[i] = stack[i]
    BY <2>2, <2>3, <2>4, TopSet
  <2>7. \A i \in 1..Depth : i # Depth => s[i] = stack[i] /\ h \notin stack[i].q
    BY <1>1, <2>6, RunTop DEF Kept, QueuesOK
  <2>8. \A i \in 1..Depth : /\ s[i].fn = stack[i].fn /\ s[i].on = stack[i].on
                            /\ s[i].q = stack[i].q \ {h}
    BY <1>1, <2>2, <2>6, <2>7, RunTop
  <2>9. Rest'
    <3>1. hand'[Srv].st = "open" => hand[Srv].st = "open" /\ hand'[Srv].on = hand[Srv].on
      BY <1>1, <2>1, <2>5, RunTop
    <3> QED
      BY <1>1, <3>1, RunTop, SameRest
  <2> QED
    BY <2>1, <2>5, <2>6, <2>8, <2>9
<1>f. f \in Frames /\ f.on = Top.on /\ f.q = {}
  BY <1>1, RunTop, FrameType
<1> HIDE DEF s, f
<1>3. /\ stack' \in Seq(Frames) /\ Depth \in Nat /\ Depth' \in {Depth, Depth + 1}
      /\ \A i \in 1..Depth : stack'[i] = s[i]
      /\ \A i \in 1..Depth' : i \in 1..Depth \/ stack'[i] = f
  <2>1. CASE stack' = s
    BY <1>1, <1>2, <2>1, RunTop DEF Depth
  <2>2. CASE stack' = Append(s, f)
    <3>1. Append(s, f) \in Seq(Frames) /\ Len(Append(s, f)) = Depth + 1
          /\ Append(s, f)[Depth + 1] = f /\ \A i \in 1..Depth : Append(s, f)[i] = s[i]
      BY <1>2, <1>f, Pushed
    <3>2. Depth' = Depth + 1
      BY <2>2, <3>1 DEF Depth
    <3> QED
      BY <1>1, <2>2, <3>1, <3>2, RunTop
  <2> QED
    BY <1>1, <2>1, <2>2
<1>4. TypeOK'
  BY <1>1, <1>2, <1>3 DEF TypeOK
<1>5. HandlesRun'
  <2> SUFFICES ASSUME NEW k \in Handles, Active(k)'
               PROVE  /\ hand'[k].on \in Loops /\ mem'[hand'[k].on] = "open"
                      /\ \E i \in 1..Depth' : stack'[i].fn = "uv_run" /\ stack'[i].on = hand'[k].on
    BY DEF HandlesRun
  <2>1. k # h /\ hand'[k] = hand[k] /\ Active(k)
    BY <1>2 DEF Active
  <2>2. PICK i \in 1..Depth : stack[i].fn = "uv_run" /\ stack[i].on = hand[k].on
    BY <2>1 DEF Kept, HandlesRun
  <2>3. i \in 1..Depth' /\ stack'[i].fn = "uv_run" /\ stack'[i].on = hand[k].on
    BY <1>2, <1>3, <2>2
  <2> QED
    BY <1>1, <2>1, <2>3 DEF Kept, HandlesRun
<1>6. QueuesOK'
  <2> SUFFICES ASSUME NEW i \in 1..Depth', NEW k \in stack'[i].q
               PROVE  /\ hand'[k].st = "closing" /\ hand'[k].on = stack'[i].on
                      /\ stack'[i].fn = "uv_run"
                      /\ \A j \in 1..Depth' : k \in stack'[j].q => i = j
    BY DEF QueuesOK
  <2>1. \A j \in 1..Depth' : k \in stack'[j].q => j \in 1..Depth /\ k \in stack[j].q \ {h}
    BY <1>2, <1>3, <1>f
  <2>2. i \in 1..Depth /\ k \in stack[i].q /\ k # h
    BY <2>1
  <2>3. k \in Handles
    BY <2>2, TypeParts, FrameFields
  <2>4. hand'[k] = hand[k]
    BY <1>2, <2>2, <2>3
  <2>5. hand[k].st = "closing" /\ hand[k].on = stack[i].on /\ stack[i].fn = "uv_run"
        /\ \A j \in 1..Depth : k \in stack[j].q => i = j
    BY <2>2 DEF Kept, QueuesOK
  <2> QED
    BY <1>2, <1>3, <2>1, <2>2, <2>4, <2>5
<1>7. SuspendedKept'
  <2>1. \A i \in 1..Depth' : \/ i \in 1..Depth /\ stack'[i].on = stack[i].on
                           \/ stack'[i].on = Top.on
    BY <1>2, <1>3, <1>f
  <2> QED
    BY <1>1, <2>1, RunTop DEF Kept, SuspendedKept
<1> QED
  BY <1>2, <1>4, <1>5, <1>6, <1>7 DEF Kept

LEMMA ReturnKeeps ==
    TypeOK /\ Kept /\ Rest /\ (ExitRun \/ Return) => TypeOK' /\ Kept' /\ Rest'
<1> SUFFICES ASSUME TypeOK, Kept, Rest, ExitRun \/ Return PROVE TypeOK' /\ Kept' /\ Rest'
  OBVIOUS
<1>1. /\ UNCHANGED <<mem, cur, hand, fault>> /\ exc' \in BOOLEAN /\ stack' = Pop
      /\ stack # <<>> /\ fault = "none"
  BY DEF ExitRun, Return, Polling, Looping, InCallback, TypeOK
<1>2. Top.q = {}
  <2>1. CASE ExitRun
    BY <2>1 DEF ExitRun, Polling
  <2>2. CASE Return
    <3>1. Top.fn = "callback" /\ Depth \in 1..Depth
      BY <1>1, <2>2, TypeParts DEF Return, InCallback
    <3> QED
      BY <3>1 DEF Top, Kept, QueuesOK
  <2> QED
    BY <2>1, <2>2
<1>3. Top.fn = "uv_run" => \A h \in Handles : Active(h) /\ hand[h].on = Top.on => Queued(h)
  BY DEF ExitRun, Return, InCallback, Pending, Active
<1>4. Kept'
  BY <1>1, <1>2, <1>3, PopStack
<1>5. TypeOK'
  <2>1. stack' = SubSeq(stack, 1, Len(stack) - 1) /\ stack \in Seq(Frames)
    BY <1>1, TypeParts DEF Pop, Depth
  <2>2. stack' \in Seq(Frames)
    BY <1>1, <2>1, Popped
  <2> QED
    BY <1>1, <2>2 DEF TypeOK
<1>6. Rest'
  BY <1>1, SameRest
<1> QED
  BY <1>4, <1>5, <1>6

-----------------------------------------------------------------------------
(* The theorems. *)

LEMMA StepKeeps == IInv /\ [Next]_vars => IInv'
<1> SUFFICES ASSUME TypeOK, Kept, Rest, [Next]_vars PROVE TypeOK' /\ Kept' /\ Rest'
  <2>1. IInv' <=> TypeOK' /\ Kept' /\ Rest'
    BY DEF IInv, Kept, Rest, CurOK
  <2> QED
    BY <2>1, Parts
<1>1. CASE Script
  BY <1>1, StartKeeps, StartFailsKeeps, StopKeeps, ScriptEndKeeps DEF Script
<1>2. CASE Run
  <2>1. CASE Callback \/ OnSignal \/ TakeClosing \/ ExitRun \/ Return
    BY <2>1, CallbackKeeps, SignalKeeps, TakeKeeps, ReturnKeeps
  <2>2. CASE \E c \in Conns : Accept(c) \/ Close(c)
    BY <2>2, AcceptKeeps, CloseKeeps
  <2>3. CASE \E h \in Handles : Finish(h)
    BY <2>3, FinishKeeps
  <2> QED
    BY <1>2, <2>1, <2>2, <2>3 DEF Run
<1>3. CASE UNCHANGED vars
  <2>1. UNCHANGED <<mem, cur, hand, stack, exc, fault>>
    BY <1>3 DEF vars
  <2>2. TypeOK' /\ MemStep
    BY <2>1 DEF TypeOK, MemStep
  <2>3. Kept'
    BY <2>1, <2>2, SameStack DEF HandStep
  <2>4. Rest'
    BY <2>1 DEF Rest, CurOK, OwnLoop, KnownRestartFaults, Raw, Active
  <2> QED
    BY <2>2, <2>3, <2>4
<1> QED
  BY <1>1, <1>2, <1>3 DEF Next

\* The inductive invariant holds of every behaviour, whatever starts, stops and
\* callbacks are nested.
THEOREM Invariant == Spec => []IInv
<1>1. Init => IInv
  BY InitAll, Parts
<1> QED
  BY <1>1, StepKeeps, PTL DEF Spec

\* No uv_run on the C stack ever runs on a loop that laure_server_start or the
\* destructor freed.
THEOREM SuspendedRuns == Spec => []SuspendedKept
<1>1. IInv => SuspendedKept
  BY DEF IInv
<1> QED
  BY <1>1, Invariant, PTL

\* laure_on_new_connection puts a connection on its listener's loop, but after a
\* start() that uv_loop_init refused.
THEOREM AcceptsOnOwnLoop == Spec => []OwnLoop
<1>1. IInv => OwnLoop
  BY DEF IInv
<1> QED
  BY <1>1, Invariant, PTL

\* The undefined behaviour is the two kinds that KnownRestartFaults names; the
\* destructor's uv_loop_close always finds its loop empty.
THEOREM FaultsKnown == Spec => []KnownRestartFaults
<1>1. IInv => KnownRestartFaults
  BY DEF IInv
<1> QED
  BY <1>1, Invariant, PTL

\* No handle outlives the outermost start() or stop().
THEOREM CleanAtRest == Spec => []IdleClean
<1>1. IInv => IdleClean
  BY Parts, EmptyClean DEF IdleClean, Idle
<1> QED
  BY <1>1, Invariant, PTL

\* start() leaks the loop it replaces: only the last is freed, by the destructor.
THEOREM LoopsLeak == Spec => OldLoopsLeak
<1> DEFINE A == \A g \in Loops : mem[g] = "open" =>
                  mem'[g] = "open" \/ (g = cur /\ fault' = "destroyed")
<1>1. IInv /\ [Next]_vars => [A]_vars
  <2> SUFFICES ASSUME IInv, Next PROVE A
    OBVIOUS
  <2>t. TypeOK /\ Kept /\ mem \in [Loops -> {"unused", "open", "raw", "freed"}]
    BY Parts, TypeParts
  <2>1. CASE Start
    BY <2>t, <2>1, Zenon, OnlyOneMade DEF Start
  <2>2. CASE StartFails
    BY <2>t, <2>2, Zenon, OnlyOneMade DEF StartFails
  <2>3. CASE LoopInitFails
    BY <2>t, <2>3, Zenon, OnlyOneMade DEF LoopInitFails
  <2>4. CASE Destroy
    <3>1. CASE Raw(cur)
      BY <2>4, <3>1 DEF Destroy
    <3>2. CASE ~Raw(cur)
      <4>1. stack = <<>> /\ mem' = [l \in Loops |-> IF l = cur THEN "freed" ELSE mem[l]]
        BY <2>4, <3>2 DEF Destroy, Idle
      <4>2. fault' = "destroyed"
        BY <2>t, <2>4, <3>2, <4>1, EmptyClean DEF Destroy
      <4> QED
        BY <4>1, <4>2
    <3> QED
      BY <3>1, <3>2
  <2>5. CASE UNCHANGED mem
    BY <2>5
  <2> QED
    BY <2>1, <2>2, <2>3, <2>4, <2>5
       DEF Next, Script, Run, Stop, Catch, Callback, OnSignal, TakeClosing, ExitRun,
           Return, Accept, Close, Finish, vars
<1>2. Spec => [][A]_vars
  BY <1>1, Invariant, PTL DEF Spec
<1> QED
  BY <1>2 DEF OldLoopsLeak

=============================================================================
