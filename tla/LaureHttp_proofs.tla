--------------------------- MODULE LaureHttp_proofs ---------------------------
(* Proofs about LaureHttp: types, that a closing handle is not written to, that *)
(* a request is answered once, and that what the script sees of a request is    *)
(* what that request was sent with, for any names, values, bounds and order of  *)
(* headers, trailers and requests.                                              *)
EXTENDS LaureHttp, SequenceTheorems, TLAPS

-----------------------------------------------------------------------------
(* The buffers keep their types. *)

LEMMA StoreHeaderType ==
    ASSUME NEW b \in Buffers
    PROVE  StoreHeader(b) \in Buffers
<1>1. StrmapSet(b.map, b.field, b.value) \in HeaderMaps
  BY DEF Buffers, HeaderMaps, StrmapSet
<1>2. <<>> \in Seq(Names) /\ <<>> \in Seq(Tagged)
  OBVIOUS
<1> QED
  BY <1>1, <1>2 DEF StoreHeader, Buffers

LEMMA AddFieldType ==
    ASSUME NEW b \in Buffers, NEW name \in Names
    PROVE  AddField(b, name) \in Buffers
<1> DEFINE stored == IF b.field # <<>> /\ b.value # <<>> THEN StoreHeader(b) ELSE b
<1>1. stored \in Buffers
  BY StoreHeaderType
<1>2. AddField(b, name) = [stored EXCEPT !.field = Append(@, name)]
  BY DEF AddField
<1> HIDE DEF stored
<1>3. stored.field \in Seq(Names)
  BY <1>1 DEF Buffers
<1>4. Append(stored.field, name) \in Seq(Names)
  BY <1>3
<1> QED
  BY <1>1, <1>2, <1>4 DEF Buffers

LEMMA AddValueType ==
    ASSUME NEW b \in Buffers, NEW v \in Values \cup {Empty}, n \in 1..MaxRequests
    PROVE  AddValue(b, v) \in Buffers
<1>1. CASE v = Empty
  BY <1>1 DEF AddValue
<1>2. CASE v # Empty
  <2>1. <<n, v>> \in Tagged /\ b.value \in Seq(Tagged)
    BY <1>2 DEF Tagged, Buffers
  <2>2. Append(b.value, <<n, v>>) \in Seq(Tagged)
    BY <2>1
  <2> QED
    BY <1>2, <2>2 DEF AddValue, Buffers
<1> QED
  BY <1>1, <1>2

LEMMA ClearRequestType ==
    ASSUME NEW b \in Buffers
    PROVE  ClearRequest(b) \in Buffers
<1>1. <<>> \in Seq(1..MaxRequests) /\ <<>> \in Bodies /\ {} \in HeaderMaps
  BY DEF HeaderMaps, Bodies
<1> QED
  BY <1>1 DEF ClearRequest, Buffers

LEMMA NewBuffersType == NewBuffers \in Buffers
BY DEF NewBuffers, Buffers, HeaderMaps, Bodies

LEMMA ExceptAny ==
    ASSUME NEW R, NEW s \in Seq(R), NEW k, NEW f, k \in 1..Len(s) => f \in R
    PROVE  [s EXCEPT ![k] = f] \in Seq(R)
<1>1. CASE k \in 1..Len(s)
  BY <1>1, ExceptSeq
<1>2. CASE k \notin 1..Len(s)
  <2>1. s = [i \in 1..Len(s) |-> s[i]]
    OBVIOUS
  <2>2. [s EXCEPT ![k] = f] = s
    BY <1>2, <2>1
  <2> QED
    BY <2>2
<1> QED
  BY <1>1, <1>2

LEMMA AppendType ==
    ASSUME NEW R, NEW s \in Seq(R), NEW f \in R
    PROVE  /\ Append(s, f) \in Seq(R) /\ Len(s) \in Nat /\ Len(Append(s, f)) = Len(s) + 1
           /\ Append(s, f)[Len(s) + 1] = f
           /\ \A i \in 1..Len(s) : Append(s, f)[i] = s[i]
OBVIOUS

\* One request's lines are replaced, if there is such a request.
LEMMA SentType ==
    ASSUME NEW s \in Seq(Requests), NEW k, NEW hs, NEW ts,
           k \in 1..Len(s) => hs \in Seq(Lines) /\ ts \in Seq(Lines)
    PROVE  /\ [s EXCEPT ![k].headers = hs] \in Seq(Requests)
           /\ [s EXCEPT ![k].trailers = ts] \in Seq(Requests)
<1>1. ASSUME k \in 1..Len(s)
      PROVE  /\ [s[k] EXCEPT !.headers = hs] \in Requests
             /\ [s[k] EXCEPT !.trailers = ts] \in Requests
  <2>1. s[k] \in Requests
    BY <1>1
  <2> QED
    BY <1>1, <2>1 DEF Requests
<1>2. /\ [s EXCEPT ![k] = [s[k] EXCEPT !.headers = hs]] \in Seq(Requests)
      /\ [s EXCEPT ![k] = [s[k] EXCEPT !.trailers = ts]] \in Seq(Requests)
  BY <1>1, ExceptAny
<1> QED
  BY <1>2

LEMMA LastValueType ==
    ASSUME NEW lines \in Seq(Lines), NEW v \in Values \cup {Empty}
    PROVE  LastValue(lines, v) \in Seq(Lines)
<1>1. ASSUME Len(lines) \in 1..Len(lines)
      PROVE  [lines[Len(lines)] EXCEPT !.val = v] \in Lines
  <2>1. lines[Len(lines)] \in Lines
    BY <1>1
  <2> QED
    BY <2>1 DEF Lines
<1>2. [lines EXCEPT ![Len(lines)] = [lines[Len(lines)] EXCEPT !.val = v]] \in Seq(Lines)
  BY <1>1, ExceptAny
<1> QED
  BY <1>2 DEF LastValue

LEMMA RequestParts ==
    ASSUME NEW s \in Seq(Requests), NEW k \in 1..Len(s)
    PROVE  s[k].headers \in Seq(Lines) /\ s[k].trailers \in Seq(Lines)
<1>1. s[k] \in Requests
  OBVIOUS
<1> QED
  BY <1>1 DEF Requests

-----------------------------------------------------------------------------
(* The parts of the invariant that a step which sends nothing and hands over  *)
(* no request keeps.                                                          *)

LEMMA Quiet ==
    ASSUME HttpInv, UNCHANGED <<n, seen, res, out>>,
           phase' \notin {"start", "ended"} => n > 0,
           \A i \in 1..Len(seen) : seen[i].n = n =>
               phase' \in {"callback", "start", "stopped", "ended"}
    PROVE  InOrder' /\ SentForSeen' /\ AnsweredOnce'
<1>1. InOrder'
  BY DEF HttpInv, InOrder
<1>2. SentForSeen' /\ AnsweredOnce'
  BY DEF HttpInv, SentForSeen, AnsweredOnce, SentFor
<1> QED
  BY <1>1, <1>2

\* The request that is being parsed has a number.
LEMMA Numbered ==
    ASSUME HttpInv, phase \notin {"start", "ended"}
    PROVE  n \in 1..MaxRequests
<1>1. n \in 0..MaxRequests
  BY Zenon DEF HttpInv, TypeOK
<1>2. n > 0
  BY DEF HttpInv, InOrder
<1> QED
  BY <1>1, <1>2, BoundAssumption

-----------------------------------------------------------------------------
(* One lemma per action. *)

LEMMA RequestLineInv == ASSUME HttpInv, RequestLine PROVE HttpInv'
<1>1. n' \in 1..MaxRequests /\ n' = n + 1 /\ n \in Nat
  <2>1. n \in 0..MaxRequests
    BY Zenon DEF HttpInv, TypeOK
  <2>2. n < MaxRequests /\ n' = n + 1
    BY DEF RequestLine
  <2> QED
    BY <2>1, <2>2, BoundAssumption
<1>2. TypeOK'
  <2>1. bufs' \in Buffers
    <3>1. bufs \in Buffers /\ bufs' = [bufs EXCEPT !.url = Append(@, n')]
      BY <1>1 DEF RequestLine, HttpInv, TypeOK
    <3>2. Append(bufs.url, n') \in Seq(1..MaxRequests)
      <4>1. bufs.url \in Seq(1..MaxRequests)
        BY <3>1 DEF Buffers
      <4> QED
        BY <1>1, <4>1
    <3> QED
      BY <3>1, <3>2 DEF Buffers
  <2>2. [headers |-> <<>>, trailers |-> <<>>] \in Requests
    BY DEF Requests
  <2>3. sent' \in Seq(Requests)
    BY <2>2, AppendType DEF RequestLine, HttpInv, TypeOK
  <2>4. n' \in 0..MaxRequests
    BY <1>1
  <2> QED
    BY <2>1, <2>3, <2>4, Zenon DEF RequestLine, HttpInv, TypeOK, connVars, Phases
<1>3. InOrder'
  <2>1. \A i \in 1..Len(seen) : seen[i].n < n' /\ seen[i].n <= n' /\ seen[i].n # n'
    <3> SUFFICES ASSUME NEW i \in 1..Len(seen)
                 PROVE  seen[i].n < n' /\ seen[i].n <= n' /\ seen[i].n # n'
      OBVIOUS
    <3>1. seen[i] \in SeenRequests
      BY DEF HttpInv, TypeOK
    <3>2. seen[i].n \in 1..MaxRequests
      BY <3>1 DEF SeenRequests
    <3>3. seen[i].n <= n
      BY DEF HttpInv, InOrder
    <3> QED
      BY <1>1, <3>2, <3>3
  <2>2. n' > 0 /\ phase' = "headers" /\ UNCHANGED <<seen, res>>
    BY <1>1 DEF RequestLine
  <2> QED
    BY <2>1, <2>2 DEF InOrder, HttpInv
<1>4. SentForSeen' /\ AnsweredOnce'
  <2>1. UNCHANGED <<seen, res, out>>
    BY DEF RequestLine
  <2> QED
    BY <2>1 DEF SentForSeen, AnsweredOnce, SentFor, HttpInv
<1>5. ClosedWhileClosing'
  <2>1. phase = "start" /\ UNCHANGED <<state, closing>>
    BY DEF RequestLine, connVars
  <2> QED
    BY <2>1 DEF ClosedWhileClosing, HttpInv
<1> QED
  BY <1>2, <1>3, <1>4, <1>5 DEF HttpInv

LEMMA HeaderFieldInv == ASSUME HttpInv, NEW name \in Names, HeaderField(name) PROVE HttpInv'
<1>1. phase \in {"headers", "trailers"} /\ phase' \in {"value", "trailer_value"}
  BY DEF HeaderField
<1>2. TypeOK'
  <2>1. bufs' \in Buffers
    BY AddFieldType DEF HeaderField, HttpInv, TypeOK
  <2>2. sent' \in Seq(Requests)
    <3>1. [name |-> name, val |-> Empty] \in Lines
      BY DEF Lines
    <3>2. sent \in Seq(Requests)
      BY DEF HttpInv, TypeOK
    <3> DEFINE hs == Append(sent[n].headers, [name |-> name, val |-> Empty])
               ts == Append(sent[n].trailers, [name |-> name, val |-> Empty])
    <3>3. n \in 1..Len(sent) => hs \in Seq(Lines) /\ ts \in Seq(Lines)
      BY <3>1, <3>2, RequestParts, AppendType
    <3>4. sent' = [sent EXCEPT ![n].headers = hs] \/ sent' = [sent EXCEPT ![n].trailers = ts]
      BY DEF HeaderField
    <3> HIDE DEF hs, ts
    <3>5. /\ [sent EXCEPT ![n].headers = hs] \in Seq(Requests)
          /\ [sent EXCEPT ![n].trailers = ts] \in Seq(Requests)
      BY <3>2, <3>3, SentType
    <3> QED
      BY <3>4, <3>5
  <2> QED
    BY <1>1, <2>1, <2>2 DEF HeaderField, HttpInv, TypeOK, connVars, Phases
<1>3. \A i \in 1..Len(seen) : seen[i].n # n
  BY <1>1 DEF HttpInv, InOrder
<1>4. InOrder' /\ SentForSeen' /\ AnsweredOnce'
  <2>1. n > 0
    BY <1>1 DEF HttpInv, InOrder
  <2> QED
    BY <1>3, <2>1, Quiet DEF HeaderField
<1>5. ClosedWhileClosing'
  BY <1>1 DEF HeaderField, connVars, ClosedWhileClosing, HttpInv
<1> QED
  BY <1>2, <1>4, <1>5 DEF HttpInv

LEMMA HeaderValueInv ==
    ASSUME HttpInv, NEW v \in Values \cup {Empty}, HeaderValue(v)
    PROVE  HttpInv'
<1>1. /\ phase \in {"value", "trailer_value"} /\ phase' \in {"headers", "trailers"}
      /\ UNCHANGED <<state, closing>>
  BY DEF HeaderValue, connVars
<1>2. TypeOK'
  <2>1. bufs' \in Buffers
    <3>1. n \in 1..MaxRequests
      BY <1>1, Numbered
    <3> QED
      BY <3>1, AddValueType DEF HeaderValue, HttpInv, TypeOK
  <2>2. sent' \in Seq(Requests)
    <3>1. sent \in Seq(Requests)
      BY DEF HttpInv, TypeOK
    <3> DEFINE hs == LastValue(sent[n].headers, v)
               ts == LastValue(sent[n].trailers, v)
    <3>2. n \in 1..Len(sent) => hs \in Seq(Lines) /\ ts \in Seq(Lines)
      BY <3>1, RequestParts, LastValueType
    <3>3. sent' = [sent EXCEPT ![n].headers = hs] \/ sent' = [sent EXCEPT ![n].trailers = ts]
      BY DEF HeaderValue
    <3> HIDE DEF hs, ts
    <3>4. /\ [sent EXCEPT ![n].headers = hs] \in Seq(Requests)
          /\ [sent EXCEPT ![n].trailers = ts] \in Seq(Requests)
      BY <3>1, <3>2, SentType
    <3> QED
      BY <3>3, <3>4
  <2> QED
    BY <1>1, <2>1, <2>2 DEF HeaderValue, HttpInv, TypeOK, Phases
<1>3. \A i \in 1..Len(seen) : seen[i].n # n
  BY <1>1 DEF HttpInv, InOrder
<1>4. InOrder' /\ SentForSeen' /\ AnsweredOnce'
  <2>1. n > 0
    BY <1>1 DEF HttpInv, InOrder
  <2> QED
    BY <1>3, <2>1, Quiet DEF HeaderValue
<1>5. ClosedWhileClosing'
  BY <1>1 DEF ClosedWhileClosing, HttpInv
<1> QED
  BY <1>2, <1>4, <1>5 DEF HttpInv

LEMMA HeadersCompleteInv == ASSUME HttpInv, HeadersComplete PROVE HttpInv'
<1>1. /\ phase = "headers" /\ phase' \in {"headers", "stopped", "body"}
      /\ phase' # "stopped" => state' = state
      /\ state' \in {state, "WS_HAND"} /\ UNCHANGED closing
  BY DEF HeadersComplete
<1>2. TypeOK'
  <2>1. bufs' \in Buffers
    BY StoreHeaderType DEF HeadersComplete, HttpInv, TypeOK
  <2>2. state' \in States /\ phase' \in Phases
    BY <1>1 DEF HttpInv, TypeOK, States, Phases
  <2>3. fault' \in Faults
    BY DEF HeadersComplete, HttpInv, TypeOK, Faults
  <2> QED
    BY <1>1, <2>1, <2>2, <2>3 DEF HeadersComplete, HttpInv, TypeOK
<1>3. \A i \in 1..Len(seen) : seen[i].n # n
  BY <1>1 DEF HttpInv, InOrder
<1>4. InOrder' /\ SentForSeen' /\ AnsweredOnce'
  <2>1. n > 0
    BY <1>1 DEF HttpInv, InOrder
  <2> QED
    BY <1>3, <2>1, Quiet DEF HeadersComplete
<1>5. ClosedWhileClosing'
  BY <1>1 DEF ClosedWhileClosing, HttpInv
<1> QED
  BY <1>2, <1>4, <1>5 DEF HttpInv

LEMMA BodyInv == ASSUME HttpInv, Body PROVE HttpInv'
<1>1. phase = "body" /\ UNCHANGED <<phase, state, closing>>
  BY DEF Body, connVars
<1>2. n \in 1..MaxRequests
  BY <1>1, Numbered
<1>3. TypeOK'
  <2>1. /\ bufs \in Buffers /\ bufs' = [bufs EXCEPT !.body = Append(@, <<n, pieces[n] + 1>>)]
        /\ pieces \in [1..MaxRequests -> Nat] /\ pieces' = [pieces EXCEPT ![n] = @ + 1]
    BY DEF Body, HttpInv, TypeOK
  <2>2. bufs.body \in Bodies
    BY <2>1 DEF Buffers
  <2>3. Append(bufs.body, <<n, pieces[n] + 1>>) \in Bodies
    <3>1. <<n, pieces[n] + 1>> \in (1..MaxRequests) \X Nat
      BY <1>2, <2>1
    <3> QED
      BY <2>2, <3>1, AppendType DEF Bodies
  <2>4. bufs' \in Buffers
    BY <2>1, <2>3 DEF Buffers
  <2>5. pieces' \in [1..MaxRequests -> Nat]
    BY <1>2, <2>1
  <2> QED
    BY <1>1, <2>4, <2>5 DEF Body, HttpInv, TypeOK
<1>4. InOrder' /\ SentForSeen' /\ AnsweredOnce'
  <2>1. n > 0 /\ \A i \in 1..Len(seen) : seen[i].n # n
    BY <1>1 DEF HttpInv, InOrder
  <2> QED
    BY <2>1, Quiet DEF Body
<1>5. ClosedWhileClosing'
  BY <1>1 DEF ClosedWhileClosing, HttpInv
<1> QED
  BY <1>3, <1>4, <1>5 DEF HttpInv

LEMMA LastChunkInv == ASSUME HttpInv, LastChunk PROVE HttpInv'
<1>1. phase = "body" /\ phase' = "trailers" /\ UNCHANGED <<state, closing, n, seen, res, out>>
  BY DEF LastChunk, connVars, parseVars
<1>2. TypeOK'
  BY <1>1 DEF LastChunk, HttpInv, TypeOK, parseVars, Phases
<1>3. InOrder' /\ SentForSeen' /\ AnsweredOnce'
  <2>1. n > 0 /\ \A i \in 1..Len(seen) : seen[i].n # n
    BY <1>1 DEF HttpInv, InOrder
  <2> QED
    BY <1>1, <2>1, Quiet
<1>4. ClosedWhileClosing'
  BY <1>1 DEF ClosedWhileClosing, HttpInv
<1> QED
  BY <1>2, <1>3, <1>4 DEF HttpInv

LEMMA DispatchedInv ==
    ASSUME HttpInv, phase \in {"body", "trailers", "callback"}, NEW kept,
           Dispatched(kept), calls' \in BOOLEAN,
           UNCHANGED <<n, keepAlive, sent, pieces, seen, res, out>>
    PROVE  HttpInv'
<1>1. /\ phase' \in {"start", "stopped"}
      /\ UNCHANGED <<state, closing>> \/ (state' = "CLOSE" /\ closing' = TRUE)
  BY DEF Dispatched, LaureConnClose, connVars
<1>2. TypeOK'
  <2>1. bufs' \in Buffers
    BY ClearRequestType DEF Dispatched, HttpInv, TypeOK
  <2>2. fault' \in Faults
    BY DEF Dispatched, HttpInv, TypeOK, Faults
  <2>3. state' \in States /\ closing' \in BOOLEAN /\ phase' \in Phases
    BY <1>1 DEF HttpInv, TypeOK, States, Phases
  <2> QED
    BY <2>1, <2>2, <2>3 DEF HttpInv, TypeOK
<1>3. InOrder' /\ SentForSeen' /\ AnsweredOnce'
  <2>1. n > 0
    BY DEF HttpInv, InOrder
  <2> QED
    BY <1>1, <2>1, Quiet
<1>4. ClosedWhileClosing'
  BY <1>1 DEF ClosedWhileClosing, HttpInv
<1> QED
  BY <1>2, <1>3, <1>4 DEF HttpInv

LEMMA MessageCompleteInv == ASSUME HttpInv, MessageComplete PROVE HttpInv'
<1>1. /\ phase \in {"body", "trailers"} /\ UNCHANGED <<calls, n, keepAlive, sent, pieces, out>>
      /\ calls \in BOOLEAN
  BY DEF MessageComplete, HttpInv, TypeOK
<1>2. CASE ~calls
  BY <1>1, <1>2, DispatchedInv DEF MessageComplete
<1>3. CASE calls
  <2> DEFINE req == [n |-> n, url |-> bufs.url, body |-> bufs.body, headers |-> bufs.map]
  <2>1. /\ phase' = "callback" /\ seen' = Append(seen, req) /\ res' = Append(res, NewResponse)
        /\ UNCHANGED <<state, closing, bufs, fault>>
    BY <1>3 DEF MessageComplete, connVars
  <2>2. n \in 1..MaxRequests
    BY <1>1, Numbered
  <2>3. req \in SeenRequests /\ req.n = n
    <3>1. bufs \in Buffers
      BY DEF HttpInv, TypeOK
    <3> QED
      BY <2>2, <3>1 DEF Buffers, SeenRequests
  <2> HIDE DEF req
  <2>4. seen \in Seq(SeenRequests) /\ res \in Seq(Responses) /\ Len(seen) = Len(res)
    BY DEF HttpInv, TypeOK, InOrder
  <2>5. NewResponse \in Responses /\ ~NewResponse.ended
    BY DEF NewResponse, Responses
  <2>6. /\ seen' \in Seq(SeenRequests) /\ Len(seen') = Len(seen) + 1
        /\ seen'[Len(seen) + 1] = req /\ \A i \in 1..Len(seen) : seen'[i] = seen[i]
    BY <2>1, <2>3, <2>4, AppendType
  <2>7. /\ res' \in Seq(Responses) /\ Len(res') = Len(seen) + 1
        /\ res'[Len(seen) + 1] = NewResponse /\ \A i \in 1..Len(seen) : res'[i] = res[i]
    BY <2>1, <2>4, <2>5, AppendType
  <2>8. Len(seen) \in Nat
    BY <2>4
  <2>9. \A i \in 1..Len(seen) : seen[i].n < n /\ seen[i].n # n
    <3> SUFFICES ASSUME NEW i \in 1..Len(seen) PROVE seen[i].n < n /\ seen[i].n # n
      OBVIOUS
    <3>1. seen[i] \in SeenRequests
      BY <2>4
    <3>2. seen[i].n \in 1..MaxRequests
      BY <3>1 DEF SeenRequests
    <3>3. seen[i].n <= n /\ seen[i].n # n
      BY <1>1 DEF HttpInv, InOrder
    <3> QED
      BY <2>2, <3>2, <3>3
  <2>10. TypeOK'
    BY <1>1, <2>1, <2>6, <2>7 DEF HttpInv, TypeOK, Phases
  <2>11. InOrder'
    <3>1. \A i, j \in 1..Len(seen') : i < j => seen'[i].n < seen'[j].n
      <4> SUFFICES ASSUME NEW i \in 1..Len(seen'), NEW j \in 1..Len(seen'), i < j
                   PROVE  seen'[i].n < seen'[j].n
        OBVIOUS
      <4>1. i \in 1..Len(seen) /\ (j \in 1..Len(seen) \/ j = Len(seen) + 1)
        BY <2>6, <2>8
      <4>2. CASE j \in 1..Len(seen)
        BY <2>6, <4>1, <4>2 DEF HttpInv, InOrder
      <4>3. CASE j = Len(seen) + 1
        BY <2>3, <2>6, <2>9, <4>1, <4>3
      <4> QED
        BY <4>1, <4>2, <4>3
    <3>2. \A i \in 1..Len(seen') : seen'[i].n <= n
      <4> SUFFICES ASSUME NEW i \in 1..Len(seen') PROVE seen'[i].n <= n
        OBVIOUS
      <4>1. CASE i \in 1..Len(seen)
        BY <2>6, <4>1 DEF HttpInv, InOrder
      <4>2. CASE i = Len(seen) + 1
        BY <2>2, <2>3, <2>6, <4>2
      <4> QED
        BY <2>6, <2>8, <4>1, <4>2
    <3>3. n > 0 /\ n' = n
      BY <1>1, <2>2
    <3> QED
      BY <2>1, <2>6, <2>7, <3>1, <3>2, <3>3 DEF InOrder
  <2>12. SentForSeen'
    <3> SUFFICES ASSUME NEW k \in 1..Len(out)
                 PROVE  \E i \in 1..Len(seen') : out[k].res = seen'[i].n
      BY <1>1 DEF SentForSeen
    <3>1. PICK i \in 1..Len(seen) : out[k].res = seen[i].n
      BY DEF HttpInv, SentForSeen
    <3>2. i \in 1..Len(seen') /\ seen'[i] = seen[i]
      BY <2>6, <2>8
    <3> QED
      BY <3>1, <3>2
  <2>13. AnsweredOnce'
    <3> SUFFICES ASSUME NEW i \in 1..Len(res'), ~res'[i].headerSent
                 PROVE  /\ \A j, k \in SentFor(i, out)' : j = k
                        /\ ~res'[i].ended => SentFor(i, out)' = {}
      BY DEF AnsweredOnce
    <3>1. CASE i \in 1..Len(seen)
      <4>1. res'[i] = res[i] /\ SentFor(i, out)' = SentFor(i, out)
        BY <1>1, <2>6, <2>7, <3>1 DEF SentFor
      <4> QED
        BY <2>4, <3>1, <4>1 DEF HttpInv, AnsweredOnce
    <3>2. CASE i = Len(seen) + 1
      <4>1. \A k \in 1..Len(out) : out[k].res # n
        BY <2>9 DEF HttpInv, SentForSeen
      <4>2. SentFor(i, out)' = {}
        BY <1>1, <2>3, <2>6, <3>2, <4>1 DEF SentFor
      <4> QED
        BY <4>2
    <3> QED
      BY <2>7, <2>8, <3>1, <3>2
  <2>14. ClosedWhileClosing'
    BY <1>1, <2>1 DEF HttpInv, ClosedWhileClosing
  <2> QED
    BY <2>10, <2>11, <2>12, <2>13, <2>14 DEF HttpInv
<1> QED
  BY <1>1, <1>2, <1>3

LEMMA ReturnRequestInv == ASSUME HttpInv, ReturnRequest PROVE HttpInv'
<1>1. phase = "callback" /\ UNCHANGED <<n, keepAlive, sent, pieces, seen, res, out>>
  BY DEF ReturnRequest
<1>2. calls' \in BOOLEAN
  BY DEF ReturnRequest, HttpInv, TypeOK
<1>3. PICK kept \in BOOLEAN : Dispatched(kept)
  BY DEF ReturnRequest
<1> QED
  BY <1>1, <1>2, <1>3, DispatchedInv

\* Steps that change neither the requests nor what was sent for them.
LEMMA OtherInv ==
    ASSUME HttpInv, RepeatedField \/ ReadEnds \/ Close \/ GetHeaders
    PROVE  HttpInv'
<1>1. UNCHANGED <<calls, n, bufs, keepAlive, sent, pieces, seen, res, out>>
  BY DEF RepeatedField, ReadEnds, Close, GetHeaders, parseVars
<1>2. /\ phase' \in {phase, "ended"} /\ fault' \in {fault, "bad_free", "null_array"}
      /\ UNCHANGED <<state, closing, phase>> \/ (state' = "CLOSE" /\ closing' = TRUE)
  BY DEF RepeatedField, ReadEnds, Close, GetHeaders, LaureConnClose, connVars
<1>3. TypeOK'
  <2>1. /\ state' \in States /\ phase' \in Phases /\ fault' \in Faults /\ closing' \in BOOLEAN
    BY <1>2 DEF HttpInv, TypeOK, States, Phases, Faults
  <2> QED
    BY <1>1, <2>1 DEF HttpInv, TypeOK
<1>4. InOrder' /\ SentForSeen' /\ AnsweredOnce'
  <2>1. phase' \notin {"start", "ended"} => n > 0
    BY <1>2 DEF HttpInv, InOrder
  <2>2. \A i \in 1..Len(seen) : seen[i].n = n =>
            phase' \in {"callback", "start", "stopped", "ended"}
    BY <1>2 DEF HttpInv, InOrder
  <2> QED
    BY <1>1, <2>1, <2>2, Quiet
<1>5. ClosedWhileClosing'
  BY <1>2 DEF HttpInv, ClosedWhileClosing
<1> QED
  BY <1>3, <1>4, <1>5 DEF HttpInv

-----------------------------------------------------------------------------
(* The script's calls. *)

LEMMA SeenNumber ==
    ASSUME HttpInv, NEW i \in 1..Len(seen)
    PROVE  seen[i].n \in 1..MaxRequests
<1>1. seen[i] \in SeenRequests
  BY DEF HttpInv, TypeOK
<1> QED
  BY <1>1 DEF SeenRequests

\* Sending for one response leaves what was sent for the others.
LEMMA Sent ==
    ASSUME HttpInv, NEW i \in 1..Len(seen), NEW item \in Items, item.res = seen[i].n,
           SendRaw(item), UNCHANGED seen
    PROVE  /\ out' \in Seq(Items)
           /\ SentForSeen'
           /\ \A j \in 1..Len(seen) : j # i => SentFor(j, out)' = SentFor(j, out)
           /\ SentFor(i, out) = {} => \A j, k \in SentFor(i, out)' : j = k
<1>1. CASE out' = out
  BY <1>1 DEF HttpInv, TypeOK, SentForSeen, SentFor
<1>2. CASE out' = Append(out, item)
  <2>1. out \in Seq(Items)
    BY DEF HttpInv, TypeOK
  <2>2. /\ out' \in Seq(Items) /\ Len(out) \in Nat /\ Len(out') = Len(out) + 1
        /\ out'[Len(out) + 1] = item /\ \A k \in 1..Len(out) : out'[k] = out[k]
    BY <1>2, <2>1, AppendType
  <2>3. SentForSeen'
    <3> SUFFICES ASSUME NEW k \in 1..Len(out')
                 PROVE  \E j \in 1..Len(seen) : out'[k].res = seen[j].n
      BY DEF SentForSeen
    <3>1. CASE k \in 1..Len(out)
      BY <2>2, <3>1 DEF HttpInv, SentForSeen
    <3>2. CASE k = Len(out) + 1
      BY <2>2, <3>2
    <3> QED
      BY <2>2, <3>1, <3>2
  <2>4. ASSUME NEW j \in 1..Len(seen), j # i
        PROVE  SentFor(j, out)' = SentFor(j, out)
    <3>1. seen[j].n # seen[i].n
      <4>1. seen[i].n \in 1..MaxRequests /\ seen[j].n \in 1..MaxRequests
        BY SeenNumber
      <4>2. CASE i < j
        <5>1. seen[i].n < seen[j].n
          BY <4>2 DEF HttpInv, InOrder
        <5> QED
          BY <4>1, <5>1
      <4>3. CASE j < i
        <5>1. seen[j].n < seen[i].n
          BY <4>3 DEF HttpInv, InOrder
        <5> QED
          BY <4>1, <5>1
      <4> QED
        BY <2>4, <4>2, <4>3
    <3>2. out'[Len(out) + 1].res # seen[j].n
      BY <2>2, <3>1
    <3> QED
      BY <2>2, <3>2 DEF SentFor
  <2>5. ASSUME SentFor(i, out) = {}, NEW j \in SentFor(i, out)', NEW k \in SentFor(i, out)'
        PROVE  j = k
    <3>1. \A l \in 1..Len(out) : out[l].res # seen[i].n
      BY <2>5 DEF SentFor
    <3>2. j = Len(out) + 1 /\ k = Len(out) + 1
      BY <2>2, <3>1 DEF SentFor
    <3> QED
      BY <3>2
  <2> QED
    BY <2>2, <2>3, <2>4, <2>5
<1> QED
  BY <1>1, <1>2 DEF SendRaw

\* A response in which one flag is set.
LEMMA FlagSet ==
    ASSUME HttpInv, NEW i \in 1..Len(res)
    PROVE  /\ [res EXCEPT ![i].ended = TRUE] \in Seq(Responses)
           /\ [res EXCEPT ![i].headerSent = TRUE] \in Seq(Responses)
           /\ Len([res EXCEPT ![i].ended = TRUE]) = Len(res)
           /\ Len([res EXCEPT ![i].headerSent = TRUE]) = Len(res)
           /\ [res EXCEPT ![i].ended = TRUE][i].ended
           /\ [res EXCEPT ![i].ended = TRUE][i].headerSent = res[i].headerSent
           /\ [res EXCEPT ![i].headerSent = TRUE][i].headerSent
           /\ \A j \in 1..Len(res) : j # i =>
                 /\ [res EXCEPT ![i].ended = TRUE][j] = res[j]
                 /\ [res EXCEPT ![i].headerSent = TRUE][j] = res[j]
<1>1. res \in Seq(Responses)
  BY DEF HttpInv, TypeOK
<1>2. res[i] \in Responses
  BY <1>1
<1>3. /\ [res[i] EXCEPT !.ended = TRUE] \in Responses
      /\ [res[i] EXCEPT !.ended = TRUE].ended
      /\ [res[i] EXCEPT !.ended = TRUE].headerSent = res[i].headerSent
      /\ [res[i] EXCEPT !.headerSent = TRUE] \in Responses
      /\ [res[i] EXCEPT !.headerSent = TRUE].headerSent
  BY <1>2 DEF Responses
<1>4. /\ [res EXCEPT ![i] = [res[i] EXCEPT !.ended = TRUE]] \in Seq(Responses)
      /\ [res EXCEPT ![i] = [res[i] EXCEPT !.headerSent = TRUE]] \in Seq(Responses)
  BY <1>1, <1>3, ExceptAny
<1> QED
  BY <1>1, <1>3, <1>4

\* What all the calls on a response leave as it is.
LEMMA ResponseCall ==
    ASSUME HttpInv, NEW i \in 1..Len(seen), NEW item \in Items, item.res = seen[i].n,
           SendRaw(item), UNCHANGED <<connVars, phase, calls, parseVars, seen, fault>>,
           res' \in Seq(Responses), Len(res') = Len(res),
           \A j \in 1..Len(res) : j # i => res'[j] = res[j],
           ~res'[i].headerSent => res'[i].ended /\ SentFor(i, out) = {}
    PROVE  HttpInv'
<1>1. UNCHANGED <<state, closing, phase, calls, n, bufs, keepAlive, sent, pieces, seen, fault>>
  BY DEF connVars, parseVars
<1>2. /\ out' \in Seq(Items)
      /\ SentForSeen'
      /\ \A j \in 1..Len(seen) : j # i => SentFor(j, out)' = SentFor(j, out)
      /\ SentFor(i, out) = {} => \A j, k \in SentFor(i, out)' : j = k
  BY <1>1, Sent
<1>3. TypeOK'
  BY <1>1, <1>2 DEF HttpInv, TypeOK
<1>4. InOrder' /\ ClosedWhileClosing'
  BY <1>1 DEF HttpInv, InOrder, ClosedWhileClosing
<1>5. AnsweredOnce'
  <2> SUFFICES ASSUME NEW l \in 1..Len(res), ~res'[l].headerSent
               PROVE  /\ \A j, k \in SentFor(l, out)' : j = k
                      /\ ~res'[l].ended => SentFor(l, out)' = {}
    BY DEF AnsweredOnce
  <2>1. CASE l = i
    BY <1>2, <2>1
  <2>2. CASE l # i
    <3>1. res'[l] = res[l] /\ SentFor(l, out)' = SentFor(l, out)
      BY <1>2, <2>2 DEF HttpInv, InOrder
    <3> QED
      BY <3>1 DEF HttpInv, AnsweredOnce
  <2> QED
    BY <2>1, <2>2
<1> QED
  BY <1>2, <1>3, <1>4, <1>5 DEF HttpInv

LEMMA ResponseType ==
    ASSUME HttpInv, NEW i \in 1..Len(seen), NEW len \in Nat
    PROVE  /\ Response(i, len) \in Items /\ Response(i, len).res = seen[i].n
           /\ [res |-> seen[i].n, kind |-> "raw", len |-> len] \in Items
BY SeenNumber DEF Response, Items

LEMMA Same ==
    ASSUME HttpInv,
           UNCHANGED <<state, closing, phase, calls, n, bufs, keepAlive, sent, pieces, seen, res, out, fault>>
    PROVE  HttpInv'
<1>1. TypeOK'
  BY Zenon DEF HttpInv, TypeOK
<1>2. InOrder' /\ SentForSeen' /\ ClosedWhileClosing'
  BY Zenon DEF HttpInv, InOrder, SentForSeen, ClosedWhileClosing
<1>3. AnsweredOnce'
  <2>1. \A i : SentFor(i, out)' = SentFor(i, out)
    BY DEF SentFor
  <2> QED
    BY <2>1 DEF HttpInv, AnsweredOnce
<1> QED
  BY <1>1, <1>2, <1>3 DEF HttpInv

LEMMA DoEndInv ==
    ASSUME HttpInv, NEW i \in 1..Len(res), NEW len \in Nat, DoEnd(i, len),
           UNCHANGED <<connVars, phase, calls, parseVars, seen, fault>>
    PROVE  HttpInv'
<1>1. i \in 1..Len(seen)
  BY DEF HttpInv, InOrder
<1>2. CASE res[i].ended
  <2>1. UNCHANGED <<state, closing, phase, calls, n, bufs, keepAlive, sent, pieces, seen, res, out, fault>>
    BY <1>2 DEF DoEnd, connVars, parseVars
  <2> QED
    BY <2>1, Same
<1>3. CASE ~res[i].ended
  <2>1. res' = [res EXCEPT ![i].ended = TRUE] /\ SendRaw(Response(i, len))
    BY <1>3 DEF DoEnd
  <2>2. /\ res' \in Seq(Responses) /\ Len(res') = Len(res)
        /\ res'[i].ended /\ res'[i].headerSent = res[i].headerSent
        /\ \A j \in 1..Len(res) : j # i => res'[j] = res[j]
    BY <2>1, FlagSet
  <2>3. ~res'[i].headerSent => res'[i].ended /\ SentFor(i, out) = {}
    BY <1>3, <2>2 DEF HttpInv, AnsweredOnce
  <2> QED
    BY <1>1, <2>1, <2>2, <2>3, ResponseType, ResponseCall
<1> QED
  BY <1>2, <1>3

LEMMA WriteInv ==
    ASSUME HttpInv, NEW i \in 1..Len(res), NEW len \in Nat, Write(i, len)
    PROVE  HttpInv'
<1>1. i \in 1..Len(seen)
  BY DEF HttpInv, InOrder
<1>2. UNCHANGED <<connVars, phase, calls, parseVars, seen, fault>>
  BY DEF Write
<1>3. CASE ~res[i].headerSent
  <2>1. res' = [res EXCEPT ![i].headerSent = TRUE] /\ SendRaw(Response(i, len))
    BY <1>3 DEF Write
  <2>2. /\ res' \in Seq(Responses) /\ Len(res') = Len(res) /\ res'[i].headerSent
        /\ \A j \in 1..Len(res) : j # i => res'[j] = res[j]
    BY <2>1, FlagSet
  <2> QED
    BY <1>1, <1>2, <2>1, <2>2, ResponseType, ResponseCall
<1>4. CASE res[i].headerSent
  <2> DEFINE item == [res |-> seen[i].n, kind |-> "raw", len |-> len]
  <2>1. res' = res /\ SendRaw(item)
    BY <1>4 DEF Write
  <2>2. item \in Items /\ item.res = seen[i].n
    BY <1>1, ResponseType
  <2>3. res' \in Seq(Responses)
    BY <2>1 DEF HttpInv, TypeOK
  <2> HIDE DEF item
  <2> QED
    BY <1>1, <1>2, <1>4, <2>1, <2>2, <2>3, ResponseCall
<1> QED
  BY <1>3, <1>4

-----------------------------------------------------------------------------
(* The theorems. *)

LEMMA InitInv == ASSUME Init PROVE HttpInv
<1>1. /\ seen = <<>> /\ res = <<>> /\ out = <<>> /\ sent = <<>> /\ n = 0
      /\ phase = "start" /\ closing = FALSE /\ bufs \in Buffers
  BY NewBuffersType DEF Init
<1>2. TypeOK
  <2>1. n \in 0..MaxRequests
    BY <1>1, BoundAssumption
  <2>2. sent = <<>> /\ calls \in BOOLEAN /\ keepAlive \in BOOLEAN /\ fault = "none"
        /\ state = "HTTP"
    BY DEF Init
  <2>3. sent \in Seq(Requests) /\ seen \in Seq(SeenRequests)
    BY <1>1, <2>2
  <2>4. res \in Seq(Responses) /\ out \in Seq(Items)
    BY <1>1
  <2>5. pieces \in [1..MaxRequests -> Nat]
    BY DEF Init
  <2>6. state \in States /\ phase \in Phases /\ fault \in Faults /\ closing \in BOOLEAN
    BY <1>1, <2>2 DEF States, Phases, Faults
  <2> QED
    BY <1>1, <2>1, <2>2, <2>3, <2>4, <2>5, <2>6 DEF TypeOK
<1>3. InOrder /\ SentForSeen /\ ClosedWhileClosing /\ AnsweredOnce
  BY <1>1 DEF InOrder, SentForSeen, ClosedWhileClosing, AnsweredOnce
<1> QED
  BY <1>2, <1>3 DEF HttpInv

LEMMA NextInv == ASSUME HttpInv, [Next]_vars PROVE HttpInv'
<1>1. CASE Parser
  BY <1>1, RequestLineInv, HeadersCompleteInv, BodyInv, LastChunkInv, MessageCompleteInv,
     HeaderFieldInv, HeaderValueInv, OtherInv DEF Parser
<1>2. ASSUME NEW i \in 1..Len(res), Redirect(i) PROVE HttpInv'
  BY <1>2, DoEndInv DEF Redirect
<1>3. ASSUME NEW i \in 1..Len(res), NEW len \in Lens, End(i, len) \/ Json(i, len)
      PROVE  HttpInv'
  <2>1. len \in Nat
    BY LenAssumption
  <2> QED
    BY <1>3, <2>1, DoEndInv DEF End, Json
<1>4. ASSUME NEW i \in 1..Len(res), NEW len \in Lens, Write(i, len)
      PROVE  HttpInv'
  BY <1>4, LenAssumption, WriteInv
<1>5. CASE ReturnRequest \/ Close \/ GetHeaders
  BY <1>5, ReturnRequestInv, OtherInv
<1>6. CASE UNCHANGED vars
  <2>1. UNCHANGED <<state, closing, phase, calls, n, bufs, keepAlive, sent, pieces, seen, res, out, fault>>
    BY <1>6 DEF vars, connVars, parseVars
  <2> QED
    BY <2>1, Same
<1> QED
  BY <1>1, <1>2, <1>3, <1>4, <1>5, <1>6 DEF Next, Script, Terminated

(* Whatever a client sends and whatever the script calls, in a callback or     *)
(* later: the types, the order of the requests, and who was answered.          *)
THEOREM Invariant == Spec => []HttpInv
<1>1. Init => HttpInv
  BY InitInv
<1>2. HttpInv /\ [Next]_vars => HttpInv'
  BY NextInv
<1> QED
  BY <1>1, <1>2, PTL DEF Spec

(* Type correctness. *)
THEOREM TypeCorrect == Spec => []TypeOK
BY Invariant, PTL DEF HttpInv

(* A request is answered by at most one complete response, and by none before  *)
(* the script ends it, unless it used write().                                 *)
THEOREM OneAnswer == Spec => []AnsweredOnce
BY Invariant, PTL DEF HttpInv

\* A step sends nothing, or it sends something for a response that is not ended.
LEMMA OneSend ==
    ASSUME HttpInv, Next, out' # out
    PROVE  \E i \in 1..Len(res) :
              /\ ~res[i].ended
              /\ \E item \in Items : item.res = seen[i].n /\ SendRaw(item)
              /\ seen' = seen
<1>1. ~Parser
  BY DEF Parser, RequestLine, HeadersComplete, Body, LastChunk, MessageComplete,
         RepeatedField, HeaderField, HeaderValue, ReadEnds
<1>2. ~(ReturnRequest \/ Close \/ GetHeaders \/ Terminated)
  BY DEF ReturnRequest, Close, GetHeaders, Terminated, vars
<1>3. PICK i \in 1..Len(res) :
          Redirect(i) \/ \E len \in Lens : End(i, len) \/ Json(i, len) \/ Write(i, len)
  BY <1>1, <1>2 DEF Next, Script
<1>4. i \in 1..Len(seen)
  BY DEF HttpInv, InOrder
<1>5. ASSUME NEW len \in Nat, DoEnd(i, len), seen' = seen
      PROVE  /\ ~res[i].ended
             /\ \E item \in Items : item.res = seen[i].n /\ SendRaw(item)
  BY <1>4, <1>5, ResponseType DEF DoEnd
<1>6. ASSUME NEW len \in Nat, Write(i, len)
      PROVE  /\ ~res[i].ended
             /\ \E item \in Items : item.res = seen[i].n /\ SendRaw(item)
  BY <1>4, <1>6, ResponseType DEF Write
<1>7. CASE Redirect(i)
  BY <1>5, <1>7 DEF Redirect
<1>8. ASSUME NEW len \in Lens, End(i, len) \/ Json(i, len) \/ Write(i, len)
      PROVE  /\ ~res[i].ended /\ seen' = seen
             /\ \E item \in Items : item.res = seen[i].n /\ SendRaw(item)
  <2>1. len \in Nat /\ seen' = seen
    BY <1>8, LenAssumption DEF End, Json, Write
  <2>2. DoEnd(i, len) \/ Write(i, len)
    BY <1>8 DEF End, Json
  <2> QED
    BY <2>1, <2>2, <1>5, <1>6
<1> QED
  BY <1>3, <1>7, <1>8 DEF Redirect

(* A response that has ended sends nothing more, whatever is called on it and  *)
(* on the other responses.                                                     *)
THEOREM EndedIsSilent == Spec => EndIsLast
<1>1. HttpInv /\ [Next]_vars =>
          [\A i \in 1..Len(res) : res[i].ended => SentFor(i, out') = SentFor(i, out)]_vars
  <2> SUFFICES ASSUME HttpInv, Next, NEW i \in 1..Len(res), res[i].ended
               PROVE  SentFor(i, out') = SentFor(i, out)
    OBVIOUS
  <2>1. CASE out' # out
    <3>1. PICK j \in 1..Len(res) :
              /\ ~res[j].ended
              /\ \E item \in Items : item.res = seen[j].n /\ SendRaw(item)
              /\ seen' = seen
      BY <2>1, OneSend
    <3>2. i # j /\ i \in 1..Len(seen) /\ j \in 1..Len(seen)
      BY <3>1 DEF HttpInv, InOrder
    <3>3. SentFor(i, out)' = SentFor(i, out)
      BY <3>1, <3>2, Sent
    <3> QED
      BY <3>1, <3>3 DEF SentFor
  <2> QED
    BY <2>1
<1> QED
  BY <1>1, Invariant, PTL DEF Spec, EndIsLast

(* Nothing is written to a handle that is being closed, although the state of  *)
(* its connection may leave CLOSE.                                             *)
THEOREM NeverSendsWhileClosing == Spec => NoSendWhileClosing
<1>1. HttpInv /\ [Next]_vars => [closing => out' = out]_vars
  <2> SUFFICES ASSUME HttpInv, Next, closing PROVE out' = out
    OBVIOUS
  <2>1. CASE Parser
    BY <2>1 DEF Parser, RequestLine, HeadersComplete, Body, LastChunk, MessageComplete,
                RepeatedField, HeaderField, HeaderValue, ReadEnds
  <2>2. CASE ReturnRequest \/ Close \/ GetHeaders \/ Terminated
    BY <2>2 DEF ReturnRequest, Close, GetHeaders, Terminated, vars
  <2>3. CASE \E i \in 1..Len(res) :
                 Redirect(i) \/ \E len \in Lens : End(i, len) \/ Json(i, len) \/ Write(i, len)
    <3>1. InUser
      BY <2>3 DEF Redirect, End, Json, Write, Uses
    <3>2. state = "CLOSE"
      BY <3>1 DEF HttpInv, ClosedWhileClosing, InUser
    <3>3. \A item : SendRaw(item) => out' = out
      BY <3>2 DEF SendRaw
    <3>4. \A i, len : DoEnd(i, len) => out' = out
      BY <3>3 DEF DoEnd
    <3> QED
      BY <2>3, <3>3, <3>4 DEF Redirect, End, Json, Write
  <2> QED
    BY <2>1, <2>2, <2>3 DEF Next, Script
<1> QED
  BY <1>1, Invariant, PTL DEF Spec, NoSendWhileClosing

-----------------------------------------------------------------------------
(* Lines, and the headers they are.                                           *)

LEMMA AppendLines ==
    ASSUME NEW lines \in Seq(Lines), NEW line \in Lines
    PROVE  /\ LinesIn(Append(lines, line)) = LinesIn(lines) \cup {line}
           /\ Front(Append(lines, line)) = lines
<1> DEFINE all == Append(lines, line)
<1>1. /\ all \in Seq(Lines) /\ Len(lines) \in Nat /\ Len(all) = Len(lines) + 1
      /\ all[Len(lines) + 1] = line /\ \A i \in 1..Len(lines) : all[i] = lines[i]
  OBVIOUS
<1> HIDE DEF all
<1>2. LinesIn(all) = LinesIn(lines) \cup {line}
  <2>1. \A x \in LinesIn(all) : x \in LinesIn(lines) \cup {line}
    BY <1>1 DEF LinesIn
  <2>2. \A x \in LinesIn(lines) : x \in LinesIn(all)
    <3> SUFFICES ASSUME NEW i \in 1..Len(lines) PROVE lines[i] \in LinesIn(all)
      BY DEF LinesIn
    <3>1. i \in 1..Len(all) /\ all[i] = lines[i]
      BY <1>1
    <3> QED
      BY <3>1 DEF LinesIn
  <2>3. line \in LinesIn(all)
    <3>1. Len(lines) + 1 \in 1..Len(all)
      BY <1>1
    <3> QED
      BY <1>1, <3>1 DEF LinesIn
  <2> QED
    BY <2>1, <2>2, <2>3
<1>3. Front(all) = lines
  <2>1. Front(all) \in Seq(Lines) /\ Len(Front(all)) = Len(lines)
    BY <1>1 DEF Front
  <2>2. \A i \in 1..Len(lines) : Front(all)[i] = lines[i]
    BY <1>1 DEF Front
  <2> QED
    BY <2>1, <2>2, SeqEqual
<1> QED
  BY <1>2, <1>3 DEF all

LEMMA FrontAndLast ==
    ASSUME NEW lines \in Seq(Lines), lines # <<>>
    PROVE  /\ Front(lines) \in Seq(Lines) /\ lines[Len(lines)] \in Lines
           /\ Len(lines) \in 1..Len(lines)
           /\ lines = Append(Front(lines), lines[Len(lines)])
<1>1. Len(lines) \in Nat \ {0} /\ lines[Len(lines)] \in Lines
  BY EmptySeq
<1>2. /\ Front(lines) \in Seq(Lines) /\ Len(Front(lines)) = Len(lines) - 1
      /\ \A i \in 1..(Len(lines) - 1) : Front(lines)[i] = lines[i]
  <2> DEFINE m == Len(lines) - 1
  <2>1. /\ m \in Nat /\ 1 \in Int /\ m \in Int /\ m - 1 + 1 = m
        /\ ~(1 <= m) => m = 0
        /\ \A i \in 1..m : i \in 1..Len(lines) /\ 1 + i - 1 = i
    <3> SUFFICES ASSUME NEW l \in Nat \ {0}, l = Len(lines)
                 PROVE  /\ l - 1 \in Nat /\ 1 \in Int /\ l - 1 \in Int /\ l - 1 - 1 + 1 = l - 1
                        /\ ~(1 <= l - 1) => l - 1 = 0
                        /\ \A i \in 1..(l - 1) : i \in 1..l /\ 1 + i - 1 = i
      BY <1>1
    <3> QED
      OBVIOUS
  <2> HIDE DEF m
  <2>2. \A i \in 1..m : lines[i] \in Lines
    BY <2>1
  <2>3. /\ SubSeq(lines, 1, m) \in Seq(Lines)
        /\ Len(SubSeq(lines, 1, m)) = IF 1 <= m THEN m - 1 + 1 ELSE 0
        /\ \A i \in 1..(m - 1 + 1) : SubSeq(lines, 1, m)[i] = lines[1 + i - 1]
    BY <2>1, <2>2, SubSeqProperties
  <2> QED
    BY <2>1, <2>3 DEF Front, m
<1> DEFINE all == Append(Front(lines), lines[Len(lines)])
<1>3. /\ all \in Seq(Lines) /\ Len(all) = Len(lines) /\ all[Len(lines)] = lines[Len(lines)]
      /\ \A i \in 1..(Len(lines) - 1) : all[i] = lines[i]
  BY <1>1, <1>2, AppendType
<1> HIDE DEF all
<1>4. \A i \in 1..Len(lines) : all[i] = lines[i]
  BY <1>1, <1>3
<1>5. all = lines
  BY <1>3, <1>4, SeqEqual
<1> QED
  BY <1>1, <1>2, <1>5 DEF all

\* The last line is the only one that a value changes.
LEMMA LastValueLines ==
    ASSUME NEW lines \in Seq(Lines), lines # <<>>, NEW v \in Values \cup {Empty}
    PROVE  LET last == [name |-> lines[Len(lines)].name, val |-> v]
           IN  last \in Lines /\ LastValue(lines, v) = Append(Front(lines), last)
<1> DEFINE last == [name |-> lines[Len(lines)].name, val |-> v]
           all == Append(Front(lines), last)
<1>1. /\ Front(lines) \in Seq(Lines) /\ lines[Len(lines)] \in Lines
      /\ Len(lines) \in 1..Len(lines)
      /\ lines = Append(Front(lines), lines[Len(lines)])
  BY FrontAndLast
<1>2. last \in Lines
  BY <1>1 DEF Lines
<1>3. Len(Front(lines)) = Len(lines) - 1 /\ \A i \in 1..(Len(lines) - 1) : lines[i] = Front(lines)[i]
  BY <1>1 DEF Front
<1> HIDE DEF last
<1>4. /\ all \in Seq(Lines) /\ Len(all) = Len(lines) /\ all[Len(lines)] = last
      /\ \A i \in 1..(Len(lines) - 1) : all[i] = lines[i]
  BY <1>1, <1>2, <1>3, AppendType
<1> HIDE DEF all
<1>5. [lines[Len(lines)] EXCEPT !.val = v] = last
  BY <1>1 DEF last, Lines
<1>6. /\ LastValue(lines, v) = [lines EXCEPT ![Len(lines)] = last]
      /\ LastValue(lines, v) \in Seq(Lines)
  BY <1>5, LastValueType DEF LastValue
<1>7. LastValue(lines, v) = all
  <2>1. Len(LastValue(lines, v)) = Len(all)
    BY <1>1, <1>4, <1>6, <1>2, ExceptSeq
  <2>2. \A i \in 1..Len(all) : LastValue(lines, v)[i] = all[i]
    BY <1>1, <1>4, <1>6, <1>2, ExceptSeq
  <2> QED
    BY <1>4, <1>6, <2>1, <2>2, SeqEqual
<1> QED
  BY <1>2, <1>7 DEF last, all

LEMMA NoLines ==
    ASSUME NEW k
    PROVE  /\ LinesIn(<<>>) = {} /\ HeadersOf(<<>>, k) = {} /\ Front(<<>>) = <<>>
BY DEF LinesIn, HeadersOf, Front

\* A header that comes after others replaces the one of its name.
LEMMA HeadersAppend ==
    ASSUME NEW hs \in Seq(Lines), NEW line \in Lines, NEW k
    PROVE  HeadersOf(Append(hs, line), k)
               = StrmapSet(HeadersOf(hs, k), <<line.name>>, <<<<k, line.val>>>>)
<1> DEFINE all == Append(hs, line)
           At(i) == <<<<all[i].name>>, <<<<k, all[i].val>>>>>>
           Of(i) == <<<<hs[i].name>>, <<<<k, hs[i].val>>>>>>
           last == Len(hs) + 1
           keep == {i \in 1..Len(hs) : \A m \in (i + 1)..Len(hs) : hs[m].name # hs[i].name}
           left == {i \in 1..last : \A m \in (i + 1)..last : all[m].name # all[i].name}
<1>1. /\ Len(hs) \in Nat /\ Len(all) = last /\ all[last] = line
      /\ \A i \in 1..Len(hs) : all[i] = hs[i]
  BY AppendType
<1>2. HeadersOf(all, k) = {At(i) : i \in left} /\ HeadersOf(hs, k) = {Of(i) : i \in keep}
  BY <1>1 DEF HeadersOf
<1>3. left = {i \in keep : hs[i].name # line.name} \cup {last}
  <2> HIDE DEF all
  <2>1. \A i \in 1..last : i \in left <=> i = last \/ (i \in keep /\ hs[i].name # line.name)
    <3> SUFFICES ASSUME NEW i \in 1..last
                 PROVE  i \in left <=> i = last \/ (i \in keep /\ hs[i].name # line.name)
      OBVIOUS
    <3>1. CASE i = last
      BY <1>1, <3>1
    <3>2. CASE i # last
      <4>1. i \in 1..Len(hs) /\ last \in (i + 1)..last
            /\ \A m : m \in (i + 1)..last <=> m \in (i + 1)..Len(hs) \/ m = last
        BY <1>1, <3>2
      <4>2. \A m \in (i + 1)..Len(hs) : m \in 1..Len(hs)
        BY <1>1, <4>1
      <4> QED
        BY <1>1, <3>2, <4>1, <4>2
    <3> QED
      BY <3>1, <3>2
  <2>2. keep \subseteq 1..last /\ last \in 1..last
    BY <1>1
  <2> QED
    BY <2>1, <2>2
<1>4. At(last) = <<<<line.name>>, <<<<k, line.val>>>>>> /\ \A i \in keep : At(i) = Of(i)
  BY <1>1
<1>5. \A i \in keep : Of(i)[1] # <<line.name>> <=> hs[i].name # line.name
  OBVIOUS
<1> HIDE DEF At, Of, keep, left, all, last
<1>6. \A h : h \in {At(i) : i \in left}
              <=> h = At(last) \/ (h \in {Of(i) : i \in keep} /\ h[1] # <<line.name>>)
  BY <1>3, <1>4, <1>5
<1> QED
  BY <1>2, <1>4, <1>6 DEF StrmapSet, all

-----------------------------------------------------------------------------
(* Lines are added, and the last one is given its value: a name stays, and a  *)
(* value that is not empty.                                                   *)

Kept(old, new) ==
    \A line \in LinesIn(old) : \E l \in LinesIn(new) :
        l.name = line.name /\ (line.val # Empty => l.val = line.val)

Grown ==
    /\ Len(sent') >= Len(sent)
    /\ \A k \in 1..Len(sent) : /\ Kept(sent[k].headers, sent'[k].headers)
                               /\ Kept(sent[k].trailers, sent'[k].trailers)

LEMMA KeptSame == ASSUME NEW lines PROVE Kept(lines, lines)
BY DEF Kept

LEMMA KeptAppend ==
    ASSUME NEW lines \in Seq(Lines), NEW line \in Lines
    PROVE  Kept(lines, Append(lines, line))
BY AppendLines DEF Kept

LEMMA KeptValue ==
    ASSUME NEW lines \in Seq(Lines), lines # <<>>, lines[Len(lines)].val = Empty,
           NEW v \in Values \cup {Empty}
    PROVE  Kept(lines, LastValue(lines, v))
<1> DEFINE front == Front(lines)
           old == lines[Len(lines)]
           last == [name |-> old.name, val |-> v]
<1>1. front \in Seq(Lines) /\ old \in Lines /\ lines = Append(front, old)
  BY FrontAndLast
<1>2. last \in Lines /\ LastValue(lines, v) = Append(front, last)
  BY LastValueLines
<1>3. last.name = old.name
  OBVIOUS
<1> HIDE DEF front, old, last
<1>4. /\ LinesIn(lines) = LinesIn(front) \cup {old}
      /\ LinesIn(LastValue(lines, v)) = LinesIn(front) \cup {last}
  BY <1>1, <1>2, AppendLines
<1>5. old.val = Empty
  BY DEF old
<1> QED
  BY <1>3, <1>4, <1>5 DEF Kept

LEMMA GrownOwn ==
    ASSUME Grown, NEW k \in 1..Len(sent), Len(sent) \in Nat
    PROVE  /\ \A x : OwnName(x, k) => OwnName(x, k)'
           /\ \A v : v[2] # Empty /\ OwnValue(v, k) => OwnValue(v, k)'
<1>1. /\ \A line \in LinesFrom(k) : \E l \in LinesFrom(k)' :
              l.name = line.name /\ (line.val # Empty => l.val = line.val)
  BY DEF Grown, Kept, LinesFrom
<1>2. \A line \in TrailersBefore(k) : \E l \in TrailersBefore(k)' :
              l.name = line.name /\ (line.val # Empty => l.val = line.val)
  <2>1. CASE k = 1
    BY <2>1 DEF TrailersBefore
  <2>2. CASE k # 1
    <3>1. k - 1 \in 1..Len(sent)
      BY <2>2
    <3> QED
      BY <2>2, <3>1 DEF Grown, Kept, TrailersBefore
  <2> QED
    BY <2>1, <2>2
<1>3. ASSUME NEW x, OwnName(x, k) PROVE OwnName(x, k)'
  BY <1>1, <1>2, <1>3 DEF OwnName
<1>4. ASSUME NEW v, v[2] # Empty, OwnValue(v, k) PROVE OwnValue(v, k)'
  BY <1>1, <1>2, <1>4 DEF OwnValue
<1> QED
  BY <1>3, <1>4

LEMMA NotEmpty == \A v \in Seq(Tagged) : \A j \in 1..Len(v) : v[j][2] # Empty
<1> SUFFICES ASSUME NEW v \in Seq(Tagged), NEW j \in 1..Len(v) PROVE v[j][2] # Empty
  OBVIOUS
<1>1. v[j] \in Tagged
  OBVIOUS
<1> QED
  BY <1>1, ValueAssumption DEF Tagged

LEMMA GrownLine ==
    ASSUME Grown, NEW k \in 1..Len(sent), Len(sent) \in Nat, NEW f, NEW v \in Seq(Tagged)
    PROVE  /\ OwnLine(f, v, k) => OwnLine(f, v, k)'
           /\ OfTrailers(f, v, k) => OfTrailers(f, v, k)'
<1>1. OwnLine(f, v, k) => OwnLine(f, v, k)'
  BY GrownOwn, NotEmpty DEF OwnLine
<1>2. OfTrailers(f, v, k) => OfTrailers(f, v, k)'
  <2>1. Kept(sent[k].trailers, sent'[k].trailers)
    BY DEF Grown
  <2> QED
    BY <2>1, NotEmpty DEF OfTrailers, Kept
<1> QED
  BY <1>1, <1>2

LEMMA GrownMap ==
    ASSUME Grown, NEW k \in 1..Len(sent), Len(sent) \in Nat, NEW m \in HeaderMaps,
           OwnMap(m, k)
    PROVE  OwnMap(m, k)'
<1> SUFFICES ASSUME NEW h \in m PROVE h[1] # <<>> /\ OwnLine(h[1], h[2], k)'
  BY DEF OwnMap
<1>1. h \in Seq(Names) \X Seq(Tagged)
  BY DEF HeaderMaps
<1>2. h[2] \in Seq(Tagged) /\ h[1] # <<>> /\ OwnLine(h[1], h[2], k)
  BY <1>1 DEF OwnMap
<1> QED
  BY <1>2, GrownLine

LEMMA GrownAll ==
    ASSUME Grown, n' = n, n \in 1..Len(sent), Len(sent) \in Nat
    PROVE  /\ \A m \in HeaderMaps : OwnMap(m, n) => OwnMap(m, n)'
           /\ \A f : \A v \in Seq(Tagged) : /\ OwnLine(f, v, n) => OwnLine(f, v, n)'
                                            /\ OfTrailers(f, v, n) => OfTrailers(f, v, n)'
BY GrownMap, GrownLine

\* One more name of a line, or of a line of the trailers.
LEMMA OwnAppend ==
    ASSUME NEW f \in Seq(Names), NEW name \in Names, NEW v, NEW k
    PROVE  /\ OwnLine(f, v, k)' /\ OwnName(name, k)' => OwnLine(Append(f, name), v, k)'
           /\ OfTrailers(f, v, k)' /\ (\E line \in LinesIn(sent[k].trailers)' : line.name = name)
                 => OfTrailers(Append(f, name), v, k)'
<1>1. /\ Len(f) \in Nat /\ Len(Append(f, name)) = Len(f) + 1
      /\ Append(f, name)[Len(f) + 1] = name
      /\ \A j \in 1..Len(f) : Append(f, name)[j] = f[j]
  BY AppendType
<1>2. \A j \in 1..(Len(f) + 1) : j = Len(f) + 1 \/ j \in 1..Len(f)
  BY <1>1
<1> QED
  BY <1>1, <1>2 DEF OwnLine, OfTrailers

\* A line of trailers is a line, of its request and left over for the next.
LEMMA TrailersOwn ==
    ASSUME NEW k \in Nat \ {0}, NEW f, NEW v, OfTrailers(f, v, k)
    PROVE  OwnLine(f, v, k) /\ OwnLine(f, v, k + 1)
<1>1. k + 1 # 1 /\ (k + 1) - 1 = k
  OBVIOUS
<1>2. TrailersBefore(k + 1) = LinesIn(sent[k].trailers)
  BY <1>1 DEF TrailersBefore
<1>3. LinesIn(sent[k].trailers) \subseteq LinesFrom(k)
  BY DEF LinesFrom
<1>4. OwnLine(f, v, k)
  BY <1>3 DEF OfTrailers, OwnLine, OwnName, OwnValue
<1>5. OwnLine(f, v, k + 1)
  BY <1>1, <1>2 DEF OfTrailers, OwnLine, OwnName, OwnValue
<1> QED
  BY <1>4, <1>5

LEMMA MapStore ==
    ASSUME NEW m, NEW f, NEW v, NEW k, OwnMap(m, k), OwnLine(f, v, k), f # <<>>
    PROVE  OwnMap(StrmapSet(m, f, v), k)
BY DEF OwnMap, StrmapSet

-----------------------------------------------------------------------------
(* What a state of the parser gives, and what a step leaves of it.            *)

LEMMA Parsed ==
    ASSUME HttpInv, ParseInv, fault = "none"
    PROVE  /\ LinesOK /\ BuffersOwn /\ BuffersExact
           /\ SeenOwn /\ HeadersExact /\ RequestsWhole
           /\ sent \in Seq(Requests) /\ Len(sent) = n /\ n \in 0..MaxRequests /\ n \in Nat
           /\ bufs \in Buffers /\ bufs.field \in Seq(Names) /\ bufs.value \in Seq(Tagged)
           /\ bufs.map \in HeaderMaps /\ bufs.url \in Seq(1..MaxRequests)
           /\ bufs.body \in Bodies
<1>1. /\ LinesOK /\ BuffersOwn /\ BuffersExact
      /\ SeenOwn /\ HeadersExact /\ RequestsWhole
  BY DEF ParseInv
<1>2. sent \in Seq(Requests) /\ n \in 0..MaxRequests /\ bufs \in Buffers
  BY DEF HttpInv, TypeOK
<1>3. n \in Nat
  BY <1>2, BoundAssumption
<1> QED
  BY <1>1, <1>2, <1>3 DEF LinesOK, Buffers

\* Nothing but the last request in the read changes, and none that was seen.
LEMMA SeenSame ==
    ASSUME HttpInv, ParseInv, fault = "none", seen' = seen, Grown,
           \A i \in 1..Len(seen) : \A k \in 1..seen[i].n : sent'[k] = sent[k],
           \A i \in 1..Len(seen) : pieces'[seen[i].n] = pieces[seen[i].n]
    PROVE  SeenOwn' /\ HeadersExact' /\ RequestsWhole'
<1>1. \A i \in 1..Len(seen) :
          /\ seen[i].headers \in HeaderMaps
          /\ seen[i].n \in 1..Len(sent) /\ seen[i].n \in Nat
  <2> SUFFICES ASSUME NEW i \in 1..Len(seen)
               PROVE  /\ seen[i].headers \in HeaderMaps
                      /\ seen[i].n \in 1..Len(sent) /\ seen[i].n \in Nat
    OBVIOUS
  <2>1. seen[i] \in SeenRequests
    BY DEF HttpInv, TypeOK
  <2>2. seen[i].n \in 1..MaxRequests /\ seen[i].headers \in HeaderMaps
    BY <2>1 DEF SeenRequests
  <2>3. seen[i].n <= n
    BY DEF HttpInv, InOrder
  <2> QED
    BY <2>2, <2>3, Parsed
<1>2. SeenOwn'
  <2> SUFFICES ASSUME NEW i \in 1..Len(seen) PROVE OwnMap(seen[i].headers, seen[i].n)'
    BY DEF SeenOwn
  <2>1. OwnMap(seen[i].headers, seen[i].n)
    BY Parsed DEF SeenOwn
  <2> QED
    BY <1>1, <2>1, Parsed, GrownMap
<1>3. HeadersExact'
  <2> SUFFICES ASSUME NEW i \in 1..Len(seen), Plain(seen[i].n)'
               PROVE  seen[i].headers = HeadersSent(seen[i].n)'
    BY DEF HeadersExact
  <2>1. seen[i].n \in 1..seen[i].n
    BY <1>1
  <2>2. seen[i].n # 1 => seen[i].n - 1 \in 1..seen[i].n
    BY <1>1
  <2>3. sent'[seen[i].n] = sent[seen[i].n]
    BY <2>1
  <2>4. TrailersBefore(seen[i].n)' = TrailersBefore(seen[i].n)
    BY <2>2 DEF TrailersBefore
  <2>5. Plain(seen[i].n) /\ HeadersSent(seen[i].n)' = HeadersSent(seen[i].n)
    BY <2>3, <2>4 DEF Plain, HeadersSent
  <2> QED
    BY <2>5, Parsed DEF HeadersExact
<1>4. RequestsWhole'
  <2>1. \A i \in 1..Len(seen) : BodySent(seen[i].n)' = BodySent(seen[i].n)
    BY DEF BodySent
  <2> QED
    BY <2>1, Parsed DEF RequestsWhole
<1> QED
  BY <1>2, <1>3, <1>4

LEMMA SameLines ==
    ASSUME sent \in Seq(Requests), sent' = sent
    PROVE  /\ Grown /\ \A k : /\ LinesFrom(k)' = LinesFrom(k)
                              /\ TrailersBefore(k)' = TrailersBefore(k)
                              /\ Plain(k)' = Plain(k) /\ HeadersSent(k)' = HeadersSent(k)
<1>1. Len(sent) \in Nat
  OBVIOUS
<1>2. Grown
  BY <1>1, KeptSame DEF Grown
<1> QED
  BY <1>2 DEF LinesFrom, TrailersBefore, Plain, HeadersSent

LEMMA SameOwn ==
    ASSUME sent' = sent
    PROVE  /\ \A f, v, k : /\ OwnLine(f, v, k)' <=> OwnLine(f, v, k)
                           /\ OfTrailers(f, v, k)' <=> OfTrailers(f, v, k)
           /\ \A m, k : OwnMap(m, k)' <=> OwnMap(m, k)
<1>1. \A f, v, k : /\ OwnLine(f, v, k)' <=> OwnLine(f, v, k)
                   /\ OfTrailers(f, v, k)' <=> OfTrailers(f, v, k)
  BY DEF OwnLine, OwnName, OwnValue, LinesFrom, TrailersBefore, OfTrailers
<1> QED
  BY <1>1 DEF OwnMap

\* What a body becomes with one more piece.
LEMMA PieceAppend ==
    ASSUME NEW k, NEW m \in Nat
    PROVE  [j \in 1..(m + 1) |-> <<k, j>>] = Append([j \in 1..m |-> <<k, j>>], <<k, m + 1>>)
<1> DEFINE s == [j \in 1..m |-> <<k, j>>]
           t == [j \in 1..(m + 1) |-> <<k, j>>]
           a == Append(s, <<k, m + 1>>)
<1>1. s \in Seq({k} \X Nat) /\ Len(s) = m /\ \A j \in 1..m : s[j] = <<k, j>>
  OBVIOUS
<1>2. t \in Seq({k} \X Nat) /\ Len(t) = m + 1 /\ \A j \in 1..(m + 1) : t[j] = <<k, j>>
  OBVIOUS
<1> HIDE DEF s, t
<1>3. <<k, m + 1>> \in {k} \X Nat
  OBVIOUS
<1>4. /\ a \in Seq({k} \X Nat) /\ Len(a) = m + 1 /\ a[m + 1] = <<k, m + 1>>
      /\ \A j \in 1..m : a[j] = s[j]
  BY <1>1, <1>3, AppendType
<1> HIDE DEF a
<1>5. \A j \in 1..(m + 1) : t[j] = a[j]
  <2>1. \A j \in 1..(m + 1) : j = m + 1 \/ j \in 1..m
    OBVIOUS
  <2> QED
    BY <1>1, <1>2, <1>4, <2>1
<1>6. t = a
  BY <1>2, <1>4, <1>5, SeqEqual
<1> QED
  BY <1>6 DEF s, t, a

LEMMA SameBody ==
    ASSUME pieces' = pieces
    PROVE  \A k : BodySent(k)' = BodySent(k)
BY DEF BodySent

\* A step of the script that makes no request, and takes none.
LEMMA ScriptParse ==
    ASSUME HttpInv, ParseInv, fault = "none", UNCHANGED <<phase, n, bufs, sent, pieces, seen>>,
           KnownHttpFaults'
    PROVE  ParseInv'
<1>1. sent \in Seq(Requests)
  BY Parsed
<1>2. SeenOwn' /\ HeadersExact' /\ RequestsWhole'
  BY <1>1, SeenSame, SameLines
<1>3. LinesOK' /\ BuffersOwn' /\ BuffersExact'
  <2>1. LinesOK /\ BuffersOwn /\ BuffersExact
    BY Parsed
  <2>2. LinesOK'
    BY <2>1 DEF LinesOK
  <2>3. BuffersOwn'
    BY <1>1, <2>1, SameOwn, SameLines, SameBody DEF BuffersOwn
  <2>4. BuffersExact'
    BY <1>1, <2>1, SameLines DEF BuffersExact
  <2> QED
    BY <2>2, <2>3, <2>4
<1> QED
  BY <1>2, <1>3 DEF ParseInv

-----------------------------------------------------------------------------
(* The request line, and the lines of a request.                              *)

\* The line that the trailers leave in the buffers is the next request's.
LEMMA TrailersNext ==
    ASSUME NEW f, NEW v, OfTrailers(f, v, n), n \in Nat, n > 0, n' = n + 1, sent'[n] = sent[n]
    PROVE  OwnLine(f, v, n)'
<1>1. TrailersBefore(n)' = LinesIn(sent[n].trailers)
  BY DEF TrailersBefore
<1>2. \A j \in 1..Len(f) : OwnName(f[j], n)'
  BY <1>1 DEF OfTrailers, OwnName
<1>3. \A j \in 1..Len(v) : OwnValue(v[j], n)'
  <2>1. n' - 1 = n
    OBVIOUS
  <2> QED
    BY <1>1, <2>1 DEF OfTrailers, OwnValue
<1> QED
  BY <1>2, <1>3 DEF OwnLine

LEMMA RequestLineParse == ASSUME HttpInv, ParseInv, RequestLine PROVE ParseInv'
<1> DEFINE none == [headers |-> <<>>, trailers |-> <<>>]
<1>1. /\ fault = "none" /\ phase = "start" /\ phase' = "headers" /\ n' = n + 1
      /\ bufs' = [bufs EXCEPT !.url = Append(@, n + 1)] /\ sent' = Append(sent, none)
      /\ UNCHANGED <<pieces, seen, fault>>
  BY DEF RequestLine, Parsing
<1>2. /\ sent' \in Seq(Requests) /\ Len(sent') = n' /\ sent'[n'] = none
      /\ \A k \in 1..n : sent'[k] = sent[k]
  <2>1. none \in Requests
    BY DEF Requests
  <2>2. sent \in Seq(Requests) /\ Len(sent) = n /\ n \in Nat
    BY <1>1, Parsed
  <2> HIDE DEF none
  <2> QED
    BY <1>1, <2>1, <2>2, AppendType
<1>3. /\ n \in Nat /\ n' \in Nat \ {0} /\ n' \in 1..n'
      /\ \A k \in 1..n' : k # n' => k \in 1..n
  BY <1>1, Parsed
<1>4. Grown
  <2>1. Len(sent') >= Len(sent)
    BY <1>1, <1>2, Parsed
  <2> QED
    BY <1>1, <1>2, <2>1, KeptSame, Parsed DEF Grown
<1>5. SeenOwn' /\ HeadersExact' /\ RequestsWhole'
  <2>1. \A i \in 1..Len(seen) : \A k \in 1..seen[i].n : k \in 1..n
    <3> SUFFICES ASSUME NEW i \in 1..Len(seen) PROVE \A k \in 1..seen[i].n : k \in 1..n
      OBVIOUS
    <3>1. seen[i] \in SeenRequests
      BY DEF HttpInv, TypeOK
    <3>2. seen[i].n \in 1..MaxRequests /\ seen[i].n <= n
      BY <3>1 DEF SeenRequests, HttpInv, InOrder
    <3> QED
      BY <1>3, <3>2
  <2> QED
    BY <1>1, <1>2, <1>4, <2>1, SeenSame
<1>6. /\ bufs'.url = <<n'>> /\ bufs'.body = <<>> /\ bufs'.map = {}
      /\ bufs'.field = bufs.field /\ bufs'.value = bufs.value /\ bufs'.data = bufs.data
  <2>1. bufs.url = <<>> /\ bufs.body = <<>> /\ bufs.map = {} /\ bufs \in Buffers
    BY <1>1, Parsed DEF BuffersOwn
  <2>2. Append(<<>>, n + 1) = <<n + 1>>
    OBVIOUS
  <2> QED
    BY <1>1, <2>1, <2>2 DEF Buffers
<1>7. sent'[n'].headers = <<>> /\ sent'[n'].trailers = <<>>
  BY <1>2
<1>8. LinesOK'
  BY <1>1, <1>2, <1>7 DEF LinesOK
<1>9. OwnLine(bufs.field, bufs.value, n)'
  <2>1. CASE n = 0
    <3>1. bufs.field = <<>> /\ bufs.value = <<>>
      BY <1>1, <2>1, Parsed DEF BuffersOwn
    <3> QED
      BY <1>6, <3>1 DEF OwnLine
  <2>2. CASE n # 0
    <3>1. n \in 1..Len(sent) /\ OfTrailers(bufs.field, bufs.value, n)
      BY <1>1, <2>2, Parsed DEF BuffersOwn
    <3>2. sent'[n] = sent[n] /\ n > 0
      BY <1>2, <1>3, <2>2
    <3> QED
      BY <1>1, <1>3, <1>6, <3>1, <3>2, TrailersNext
  <2> QED
    BY <2>1, <2>2
<1>10. BuffersOwn'
  <2>1. OwnMap(bufs.map, n)'
    BY <1>6 DEF OwnMap
  <2>2. bufs'.field = <<>> => bufs'.value = <<>>
    BY <1>1, <1>6, Parsed DEF BuffersOwn
  <2>3. /\ bufs'.body = BodySent(n)'
        /\ \A k \in (n' + 1)..MaxRequests : pieces'[k] = 0
    <3>1. n + 1 \in (n + 1)..MaxRequests
      BY <1>3, BoundAssumption DEF RequestLine
    <3>2. \A k \in (n + 1)..MaxRequests : pieces[k] = 0
      BY <1>1, Parsed DEF BuffersOwn
    <3>3. pieces'[n'] = 0
      BY <1>1, <3>1, <3>2
    <3>4. BodySent(n)' = <<>>
      BY <3>3 DEF BodySent
    <3>5. \A k \in (n' + 1)..MaxRequests : k \in (n + 1)..MaxRequests
      BY <1>1, <1>3, BoundAssumption
    <3> QED
      BY <1>1, <1>6, <3>2, <3>4, <3>5
  <2>4. ~bufs'.data => \A k \in 1..n' : \A line \in LinesFrom(k)' : line.val = Empty
    <3> SUFFICES ASSUME ~bufs'.data, NEW k \in 1..n', NEW line \in LinesFrom(k)'
                 PROVE  line.val = Empty
      OBVIOUS
    <3>1. CASE k = n'
      BY <1>2, <1>7, <3>1, NoLines DEF LinesFrom
    <3>2. CASE k # n'
      <4>1. k \in 1..n /\ sent'[k] = sent[k]
        BY <1>2, <1>3, <3>2
      <4>2. line \in LinesFrom(k)
        BY <4>1 DEF LinesFrom
      <4> QED
        BY <1>1, <1>6, <4>1, <4>2, Parsed DEF BuffersOwn
    <3> QED
      BY <3>1, <3>2
  <2> QED
    BY <1>1, <1>6, <1>9, <2>1, <2>2, <2>3, <2>4 DEF BuffersOwn
<1>11. BuffersExact'
  <2> SUFFICES ASSUME TrailersBefore(n)' = {}
               PROVE  bufs'.map = {} /\ bufs'.field = <<>> /\ bufs'.value = <<>>
    BY <1>1, <1>7, NoLines DEF BuffersExact
  <2>1. CASE n = 0
    BY <1>1, <1>6, <2>1, Parsed DEF BuffersOwn
  <2>2. CASE n # 0
    <3>1. LinesIn(sent[n].trailers) = {}
      <4>1. n' # 1 /\ n' - 1 = n /\ sent'[n] = sent[n]
        BY <1>1, <1>2, <1>3, <2>2
      <4> QED
        BY <4>1 DEF TrailersBefore
    <3>2. OfTrailers(bufs.field, bufs.value, n)
      BY <1>1, <2>2, Parsed DEF BuffersOwn
    <3>3. \A j \in 1..Len(bufs.field) : FALSE
      BY <3>1, <3>2 DEF OfTrailers
    <3>4. bufs.field = <<>> /\ bufs.value = <<>>
      <4>1. bufs.field \in Seq(Names)
        BY <1>1, Parsed
      <4>2. Len(bufs.field) = 0
        BY <3>3, <4>1
      <4>3. bufs.field = <<>>
        BY <4>1, <4>2, EmptySeq
      <4> QED
        BY <1>1, <4>3, Parsed DEF BuffersOwn
    <3> QED
      BY <1>6, <3>4
  <2> QED
    BY <2>1, <2>2
<1> QED
  BY <1>1, <1>5, <1>8, <1>10, <1>11 DEF ParseInv, KnownHttpFaults

\* The request whose lines are read is the last one.
LEMMA AtRequest ==
    ASSUME HttpInv, ParseInv, fault = "none", phase \notin {"start", "ended"}
    PROVE  /\ n \in Nat /\ n \in 1..n /\ Len(sent) = n /\ sent \in Seq(Requests)
           /\ sent[n] \in Requests
           /\ sent[n].headers \in Seq(Lines) /\ sent[n].trailers \in Seq(Lines)
<1>1. n \in 1..MaxRequests
  BY Numbered
<1>2. n \in Nat /\ Len(sent) = n /\ sent \in Seq(Requests)
  BY Parsed
<1>3. n \in 1..n
  BY <1>1, <1>2
<1> QED
  BY <1>2, <1>3, RequestParts

\* No request that was seen is the one whose lines are read.
LEMMA SeenBefore ==
    ASSUME HttpInv, phase \in {"headers", "value", "trailers", "trailer_value"},
           NEW i \in 1..Len(seen)
    PROVE  \A k \in 1..seen[i].n : k \in 1..n /\ k # n
<1>1. seen[i] \in SeenRequests /\ n \in 0..MaxRequests
  BY DEF HttpInv, TypeOK
<1>2. seen[i].n \in 1..MaxRequests
  BY <1>1 DEF SeenRequests
<1>3. seen[i].n <= n /\ seen[i].n # n
  BY DEF HttpInv, InOrder
<1> QED
  BY <1>1, <1>2, <1>3, BoundAssumption

\* A line of the last request is added or given its value.
LEMMA LastRequest ==
    ASSUME HttpInv, ParseInv, fault = "none",
           phase \in {"headers", "value", "trailers", "trailer_value"},
           UNCHANGED <<n, pieces, seen>>, Len(sent') = Len(sent),
           \A k \in 1..n : k # n => sent'[k] = sent[k],
           Kept(sent[n].headers, sent'[n].headers),
           Kept(sent[n].trailers, sent'[n].trailers)
    PROVE  /\ Grown /\ SeenOwn' /\ HeadersExact' /\ RequestsWhole'
           /\ TrailersBefore(n)' = TrailersBefore(n)
<1>1. n \in Nat /\ Len(sent) = n /\ sent \in Seq(Requests) /\ n \in 1..n
  BY AtRequest
<1>2. \A k \in 1..n : k = n \/ sent'[k] = sent[k]
  OBVIOUS
<1>3. Grown
  <2>1. \A k \in 1..n : /\ Kept(sent[k].headers, sent'[k].headers)
                        /\ Kept(sent[k].trailers, sent'[k].trailers)
    BY <1>2, KeptSame
  <2>2. Len(sent') >= Len(sent)
    BY <1>1
  <2> QED
    BY <1>1, <2>1, <2>2 DEF Grown
<1>4. \A i \in 1..Len(seen) : \A k \in 1..seen[i].n : sent'[k] = sent[k]
  BY <1>2, SeenBefore
<1>5. TrailersBefore(n)' = TrailersBefore(n)
  <2>1. n # 1 => n - 1 \in 1..n /\ n - 1 # n
    BY <1>1
  <2> QED
    BY <2>1 DEF TrailersBefore
<1> QED
  BY <1>3, <1>4, <1>5, SeenSame

LEMMA SentField ==
    ASSUME HttpInv, ParseInv, NEW name \in Names, HeaderField(name)
    PROVE  LET line == [name |-> name, val |-> Empty]
           IN  /\ line \in Lines /\ n \in 1..Len(sent) /\ Len(sent') = Len(sent)
               /\ sent[n].headers \in Seq(Lines) /\ sent[n].trailers \in Seq(Lines)
               /\ \A k \in 1..n : k # n => sent'[k] = sent[k]
               /\ IF phase = "headers"
                  THEN /\ sent'[n].headers = Append(sent[n].headers, line)
                       /\ sent'[n].trailers = sent[n].trailers
                  ELSE /\ sent'[n].headers = sent[n].headers
                       /\ sent'[n].trailers = Append(sent[n].trailers, line)
<1> DEFINE line == [name |-> name, val |-> Empty]
           hs == Append(sent[n].headers, line)
           ts == Append(sent[n].trailers, line)
<1>1. /\ fault = "none" /\ phase \in {"headers", "trailers"}
      /\ sent' = IF phase = "headers" THEN [sent EXCEPT ![n].headers = hs]
                 ELSE [sent EXCEPT ![n].trailers = ts]
  BY DEF HeaderField, Parsing
<1>2. line \in Lines
  BY DEF Lines
<1>3. sent \in Seq(Requests) /\ Len(sent) = n /\ n \in 1..Len(sent)
  BY <1>1, AtRequest
<1>4. sent[n].headers \in Seq(Lines) /\ sent[n].trailers \in Seq(Lines) /\ sent[n] \in Requests
  BY <1>3, RequestParts
<1> HIDE DEF line, hs, ts
<1>5. /\ [sent[n] EXCEPT !.headers = hs].headers = hs
      /\ [sent[n] EXCEPT !.headers = hs].trailers = sent[n].trailers
      /\ [sent[n] EXCEPT !.trailers = ts].headers = sent[n].headers
      /\ [sent[n] EXCEPT !.trailers = ts].trailers = ts
  BY <1>4 DEF Requests
<1>6. sent' = IF phase = "headers" THEN [sent EXCEPT ![n] = [sent[n] EXCEPT !.headers = hs]]
              ELSE [sent EXCEPT ![n] = [sent[n] EXCEPT !.trailers = ts]]
  BY <1>1
<1> DEFINE new == IF phase = "headers" THEN [sent[n] EXCEPT !.headers = hs]
                  ELSE [sent[n] EXCEPT !.trailers = ts]
<1>7. sent' = [sent EXCEPT ![n] = new]
  BY <1>6
<1>8. /\ IF phase = "headers" THEN new.headers = hs /\ new.trailers = sent[n].trailers
         ELSE new.headers = sent[n].headers /\ new.trailers = ts
  BY <1>5
<1> HIDE DEF new
<1>9. Len(sent') = Len(sent) /\ sent'[n] = new /\ \A k \in 1..n : k # n => sent'[k] = sent[k]
  BY <1>3, <1>7
<1> QED
  BY <1>2, <1>3, <1>4, <1>8, <1>9 DEF line, hs, ts

LEMMA SentValue ==
    ASSUME HttpInv, ParseInv, NEW v \in Values \cup {Empty}, HeaderValue(v)
    PROVE  /\ n \in 1..Len(sent) /\ Len(sent') = Len(sent)
           /\ sent[n].headers \in Seq(Lines) /\ sent[n].trailers \in Seq(Lines)
           /\ \A k \in 1..n : k # n => sent'[k] = sent[k]
           /\ IF phase = "value"
              THEN /\ sent'[n].headers = LastValue(sent[n].headers, v)
                   /\ sent'[n].trailers = sent[n].trailers
              ELSE /\ sent'[n].headers = sent[n].headers
                   /\ sent'[n].trailers = LastValue(sent[n].trailers, v)
<1> DEFINE hs == LastValue(sent[n].headers, v)
           ts == LastValue(sent[n].trailers, v)
<1>1. /\ fault = "none" /\ phase \in {"value", "trailer_value"}
      /\ sent' = IF phase = "value" THEN [sent EXCEPT ![n].headers = hs]
                 ELSE [sent EXCEPT ![n].trailers = ts]
  BY DEF HeaderValue, Parsing
<1>2. sent \in Seq(Requests) /\ Len(sent) = n /\ n \in 1..Len(sent)
  BY <1>1, AtRequest
<1>3. sent[n].headers \in Seq(Lines) /\ sent[n].trailers \in Seq(Lines) /\ sent[n] \in Requests
  BY <1>2, RequestParts
<1> HIDE DEF hs, ts
<1>4. /\ [sent[n] EXCEPT !.headers = hs].headers = hs
      /\ [sent[n] EXCEPT !.headers = hs].trailers = sent[n].trailers
      /\ [sent[n] EXCEPT !.trailers = ts].headers = sent[n].headers
      /\ [sent[n] EXCEPT !.trailers = ts].trailers = ts
  BY <1>3 DEF Requests
<1> DEFINE new == IF phase = "value" THEN [sent[n] EXCEPT !.headers = hs]
                  ELSE [sent[n] EXCEPT !.trailers = ts]
<1>5. sent' = [sent EXCEPT ![n] = new]
  BY <1>1
<1>6. /\ IF phase = "value" THEN new.headers = hs /\ new.trailers = sent[n].trailers
         ELSE new.headers = sent[n].headers /\ new.trailers = ts
  BY <1>4
<1> HIDE DEF new
<1>7. Len(sent') = Len(sent) /\ sent'[n] = new /\ \A k \in 1..n : k # n => sent'[k] = sent[k]
  BY <1>2, <1>5
<1> QED
  BY <1>2, <1>3, <1>6, <1>7 DEF hs, ts

\* A new name: the header before it goes into the map if it has a value.
LEMMA AddFieldParts ==
    ASSUME NEW b \in Buffers, NEW name \in Names
    PROVE  LET c == AddField(b, name)
               full == b.field # <<>> /\ b.value # <<>>
           IN  /\ c.url = b.url /\ c.body = b.body /\ c.data = b.data
               /\ c.map = IF full THEN StrmapSet(b.map, b.field, b.value) ELSE b.map
               /\ c.field = IF full THEN <<name>> ELSE Append(b.field, name)
               /\ c.value = IF full THEN <<>> ELSE b.value
               /\ c.field # <<>>
<1> DEFINE full == b.field # <<>> /\ b.value # <<>>
           c == AddField(b, name)
           map == StrmapSet(b.map, b.field, b.value)
           stored == [b EXCEPT !.map = map, !.field = <<>>, !.value = <<>>]
<1>1. b.field \in Seq(Names)
  BY DEF Buffers
<1>2. Append(b.field, name) # <<>> /\ <<name>> # <<>> /\ Append(<<>>, name) = <<name>>
  BY <1>1
<1> HIDE DEF map
<1>3. CASE full
  <2> HIDE DEF stored
  <2>0. StoreHeader(b) = stored
    BY DEF StoreHeader, map, stored
  <2>1. c = [stored EXCEPT !.field = Append(@, name)]
    BY <1>3, <2>0 DEF AddField
  <2>2. /\ stored.url = b.url /\ stored.body = b.body /\ stored.data = b.data
        /\ stored.map = map /\ stored.field = <<>> /\ stored.value = <<>>
        /\ stored \in Buffers
    BY <2>0, StoreHeaderType DEF Buffers, stored
  <2> HIDE DEF c
  <2>3. /\ c.url = b.url /\ c.body = b.body /\ c.data = b.data /\ c.map = map
        /\ c.field = Append(<<>>, name) /\ c.value = <<>>
    BY <2>1, <2>2 DEF Buffers
  <2> QED
    BY <1>2, <1>3, <2>3 DEF c, map
<1>4. CASE ~full
  <2>1. c = [b EXCEPT !.field = Append(@, name)]
    BY <1>4 DEF AddField
  <2>2. /\ c.url = b.url /\ c.body = b.body /\ c.data = b.data /\ c.map = b.map
        /\ c.field = Append(b.field, name) /\ c.value = b.value
    BY <2>1 DEF Buffers
  <2> QED
    BY <1>2, <1>4, <2>2
<1> QED
  BY <1>3, <1>4

\* A value: nothing else changes, and an empty one changes nothing.
LEMMA AddValueParts ==
    ASSUME NEW b \in Buffers, NEW v
    PROVE  LET c == AddValue(b, v)
           IN  /\ c.url = b.url /\ c.body = b.body /\ c.map = b.map /\ c.field = b.field
               /\ IF v = Empty THEN c.value = b.value /\ c.data = b.data
                  ELSE c.value = Append(b.value, <<n, v>>) /\ c.data
BY DEF AddValue, Buffers

\* The data clause: every line of a request that has not changed, and of the last.
LEMMA StillNoValue ==
    ASSUME HttpInv, ParseInv, fault = "none", phase \notin {"start", "ended"},
           n' = n, \A k \in 1..n : k # n => sent'[k] = sent[k],
           ~bufs.data, \A line \in LinesFrom(n)' : line.val = Empty
    PROVE  \A k \in 1..n' : \A line \in LinesFrom(k)' : line.val = Empty
<1> SUFFICES ASSUME NEW k \in 1..n, k # n, NEW line \in LinesFrom(k)'
             PROVE  line.val = Empty
  OBVIOUS
<1>1. line \in LinesFrom(k)
  BY DEF LinesFrom
<1> QED
  BY <1>1, Parsed DEF BuffersOwn

LEMMA AppendLast ==
    ASSUME NEW R, NEW s \in Seq(R), NEW f \in R
    PROVE  Append(s, f) # <<>> /\ Append(s, f)[Len(Append(s, f))] = f
BY AppendType

LEMMA LinesOfAppend ==
    ASSUME NEW k, NEW lines \in Seq(Lines), NEW line \in Lines,
           \/ sent'[k].headers = Append(lines, line)
           \/ sent'[k].trailers = Append(lines, line)
    PROVE  line \in LinesFrom(k)'
BY AppendLines DEF LinesFrom

LEMMA HeaderFieldParse ==
    ASSUME HttpInv, ParseInv, NEW name \in Names, HeaderField(name)
    PROVE  ParseInv'
<1> DEFINE line == [name |-> name, val |-> Empty]
           full == bufs.field # <<>> /\ bufs.value # <<>>
<1>1. /\ fault = "none" /\ phase \in {"headers", "trailers"} /\ bufs' = AddField(bufs, name)
      /\ phase' = IF phase = "headers" THEN "value" ELSE "trailer_value"
      /\ UNCHANGED <<n, pieces, seen, fault>>
  BY DEF HeaderField, Parsing
<1>2. /\ line \in Lines /\ n \in 1..Len(sent) /\ Len(sent') = Len(sent)
      /\ sent[n].headers \in Seq(Lines) /\ sent[n].trailers \in Seq(Lines)
      /\ \A k \in 1..n : k # n => sent'[k] = sent[k]
      /\ IF phase = "headers"
         THEN /\ sent'[n].headers = Append(sent[n].headers, line)
              /\ sent'[n].trailers = sent[n].trailers
         ELSE /\ sent'[n].headers = sent[n].headers
              /\ sent'[n].trailers = Append(sent[n].trailers, line)
  BY SentField
<1>3. line.name = name /\ line.val = Empty
  OBVIOUS
<1> HIDE DEF line
<1>4. \A lines \in Seq(Lines) :
          /\ LinesIn(Append(lines, line)) = LinesIn(lines) \cup {line}
          /\ Front(Append(lines, line)) = lines
          /\ Append(lines, line) # <<>>
          /\ Append(lines, line)[Len(Append(lines, line))] = line
  BY <1>2, AppendLines, AppendLast
<1>5. LET hs == sent[n].headers
           ts == sent[n].trailers
       IN  IF phase = "headers"
           THEN /\ LinesIn(sent'[n].headers) = LinesIn(hs) \cup {line}
                /\ LinesIn(sent'[n].trailers) = LinesIn(ts)
                /\ Front(sent'[n].headers) = hs /\ sent'[n].headers # <<>>
                /\ sent'[n].headers[Len(sent'[n].headers)] = line
           ELSE /\ LinesIn(sent'[n].trailers) = LinesIn(ts) \cup {line}
                /\ LinesIn(sent'[n].headers) = LinesIn(hs)
                /\ sent'[n].trailers # <<>>
                /\ sent'[n].trailers[Len(sent'[n].trailers)] = line
  BY <1>2, <1>4
<1>6. /\ n \in Nat /\ n \in 1..n /\ Len(sent) = n /\ n' = n
  BY <1>1, AtRequest
<1>7. /\ Kept(sent[n].headers, sent'[n].headers)
      /\ Kept(sent[n].trailers, sent'[n].trailers)
  BY <1>2, KeptSame, KeptAppend
<1>8. /\ Grown /\ SeenOwn' /\ HeadersExact' /\ RequestsWhole'
      /\ TrailersBefore(n)' = TrailersBefore(n)
  BY <1>1, <1>2, <1>7, LastRequest
<1>9. /\ bufs'.url = bufs.url /\ bufs'.body = bufs.body /\ bufs'.data = bufs.data
      /\ bufs'.map = IF full THEN StrmapSet(bufs.map, bufs.field, bufs.value) ELSE bufs.map
      /\ bufs'.field = IF full THEN <<name>> ELSE Append(bufs.field, name)
      /\ bufs'.value = IF full THEN <<>> ELSE bufs.value
      /\ bufs'.field # <<>>
  BY <1>1, AddFieldParts, Parsed
<1>10. line \in LinesFrom(n)'
  BY <1>1, <1>2, <1>6, LinesOfAppend
<1>11. LinesOK'
  <2>1. phase = "headers" => sent[n].trailers = <<>>
    BY <1>1, Parsed DEF LinesOK
  <2> QED
    BY <1>1, <1>2, <1>3, <1>6, <1>5, <2>1 DEF LinesOK
<1>12. BuffersOwn'
  <2>1. /\ bufs.url = <<n>> /\ bufs.body = BodySent(n) /\ OwnMap(bufs.map, n)
        /\ phase = "headers" => OwnLine(bufs.field, bufs.value, n)
        /\ phase = "trailers" => OfTrailers(bufs.field, bufs.value, n)
    BY <1>1, Parsed DEF BuffersOwn
  <2>2. OwnLine(bufs.field, bufs.value, n)
    BY <1>1, <1>6, <2>1, TrailersOwn
  <2>3. /\ \A m \in HeaderMaps : OwnMap(m, n) => OwnMap(m, n)'
        /\ \A f : \A v \in Seq(Tagged) : /\ OwnLine(f, v, n) => OwnLine(f, v, n)'
                                         /\ OfTrailers(f, v, n) => OfTrailers(f, v, n)'
    BY <1>6, <1>8, GrownAll
  <2>4. OwnMap(bufs.map, n)'
    <3>1. OwnMap(bufs'.map, n)
      BY <1>9, <2>1, <2>2, MapStore
    <3>2. bufs'.map \in HeaderMaps
      BY HeaderFieldInv DEF HttpInv, TypeOK, Buffers
    <3> QED
      BY <2>3, <3>1, <3>2
  <2>5. /\ bufs.field \in Seq(Names) /\ bufs.value \in Seq(Tagged)
    BY <1>1, Parsed
  <2>6. OwnLine(<<name>>, <<>>, n)' <=> OwnName(name, n)'
    BY DEF OwnLine
  <2>7. OwnName(name, n)'
    BY <1>3, <1>10 DEF OwnName
  <2>8. phase = "headers" => OwnLine(bufs.field, bufs.value, n)'
    BY <1>9, <2>1, <2>3, <2>5, <2>6, <2>7, OwnAppend
  <2>9. phase = "trailers" => OfTrailers(bufs.field, bufs.value, n)'
    <3> SUFFICES ASSUME phase = "trailers" PROVE OfTrailers(bufs.field, bufs.value, n)'
      OBVIOUS
    <3>1. line \in LinesIn(sent[n].trailers)'
      BY <1>6, <1>5
    <3>2. OfTrailers(<<name>>, <<>>, n)'
      BY <1>3, <3>1 DEF OfTrailers
    <3>3. \E l \in LinesIn(sent[n].trailers)' : l.name = name
      BY <1>3, <3>1
    <3> QED
      BY <1>9, <2>1, <2>3, <2>5, <3>2, <3>3, OwnAppend
  <2>10. ~bufs'.data => \A k \in 1..n' : \A l \in LinesFrom(k)' : l.val = Empty
    <3> SUFFICES ASSUME ~bufs.data PROVE \A k \in 1..n' : \A l \in LinesFrom(k)' : l.val = Empty
      BY <1>9
    <3>1. \A l \in LinesFrom(n) : l.val = Empty
      BY <1>1, <1>6, Parsed DEF BuffersOwn
    <3>2. \A l \in LinesFrom(n)' : l \in LinesFrom(n) \/ l = line
      BY <1>6, <1>5 DEF LinesFrom
    <3> QED
      BY <1>1, <1>2, <1>3, <1>6, <3>1, <3>2, StillNoValue
  <2> QED
    BY <1>1, <1>6, <1>9, <2>1, <2>4, <2>8, <2>9, <2>10, SameBody, Parsed DEF BuffersOwn
<1>13. BuffersExact'
  <2> SUFFICES ASSUME phase = "headers", TrailersBefore(n)' = {},
                      Valued(Front(sent'[n].headers))
               PROVE  LET hs == sent'[n].headers
                      IN  /\ bufs'.map = HeadersOf(Front(hs), n)
                          /\ bufs'.field = IF hs = <<>> THEN <<>> ELSE <<hs[Len(hs)].name>>
                          /\ bufs'.value = <<>>
    <3>1. phase = "trailers" => ~Plain(n)'
      BY <1>6, <1>5 DEF Plain
    <3> QED
      BY <1>1, <1>6, <3>1 DEF BuffersExact
  <2> DEFINE hs == sent[n].headers
  <2>1. /\ Front(sent'[n].headers) = hs /\ sent'[n].headers # <<>>
        /\ sent'[n].headers[Len(sent'[n].headers)] = line
    BY <1>5
  <2>2. TrailersBefore(n) = {} /\ Valued(hs)
    BY <1>8, <2>1
  <2>3. /\ bufs.map = HeadersOf(Front(hs), n)
        /\ bufs.field = IF hs = <<>> THEN <<>> ELSE <<hs[Len(hs)].name>>
        /\ bufs.value = IF hs = <<>> THEN <<>> ELSE <<<<n, hs[Len(hs)].val>>>>
    BY <1>1, <2>2, Parsed DEF BuffersExact
  <2>4. CASE hs = <<>>
    BY <1>3, <1>9, <2>1, <2>3, <2>4, NoLines
  <2>5. CASE hs # <<>>
    <3> DEFINE last == hs[Len(hs)]
    <3>1. Front(hs) \in Seq(Lines) /\ last \in Lines /\ hs = Append(Front(hs), last)
      BY <1>2, <2>5, FrontAndLast
    <3>2. HeadersOf(hs, n) = StrmapSet(HeadersOf(Front(hs), n), <<last.name>>, <<<<n, last.val>>>>)
      BY <3>1, HeadersAppend
    <3>3. bufs.field = <<last.name>> /\ bufs.value = <<<<n, last.val>>>> /\ full
      BY <2>3, <2>5
    <3> QED
      BY <1>3, <1>9, <2>1, <2>3, <3>2, <3>3
  <2> QED
    BY <2>4, <2>5
<1> QED
  BY <1>1, <1>8, <1>11, <1>12, <1>13 DEF ParseInv, KnownHttpFaults

\* One more value of a line, or of a line of the trailers.
LEMMA OwnValued ==
    ASSUME NEW f, NEW v \in Seq(Tagged), NEW x \in Tagged, NEW k
    PROVE  /\ OwnLine(f, v, k)' /\ OwnValue(x, k)' => OwnLine(f, Append(v, x), k)'
           /\ OfTrailers(f, v, k)' /\ x[1] = k
              /\ (\E line \in LinesIn(sent[k].trailers)' : line.val = x[2])
                 => OfTrailers(f, Append(v, x), k)'
<1>1. /\ Len(v) \in Nat /\ Len(Append(v, x)) = Len(v) + 1
      /\ Append(v, x)[Len(v) + 1] = x
      /\ \A j \in 1..Len(v) : Append(v, x)[j] = v[j]
  BY AppendType
<1>2. \A j \in 1..(Len(v) + 1) : j = Len(v) + 1 \/ j \in 1..Len(v)
  BY <1>1
<1> QED
  BY <1>1, <1>2 DEF OwnLine, OfTrailers

LEMMA HeaderValueParse ==
    ASSUME HttpInv, ParseInv, NEW v \in Values \cup {Empty}, HeaderValue(v)
    PROVE  ParseInv'
<1> DEFINE lines == IF phase = "value" THEN sent[n].headers ELSE sent[n].trailers
           new == IF phase = "value" THEN sent'[n].headers ELSE sent'[n].trailers
           old == lines[Len(lines)]
           last == [name |-> old.name, val |-> v]
<1>1. /\ fault = "none" /\ phase \in {"value", "trailer_value"} /\ bufs' = AddValue(bufs, v)
      /\ phase' = IF phase = "value" THEN "headers" ELSE "trailers"
      /\ UNCHANGED <<n, pieces, seen, fault>>
  BY DEF HeaderValue, Parsing
<1>2. /\ n \in Nat /\ n \in 1..n /\ Len(sent) = n /\ n' = n
  BY <1>1, AtRequest
<1>3. /\ sent[n].headers \in Seq(Lines) /\ sent[n].trailers \in Seq(Lines)
      /\ Len(sent') = Len(sent) /\ \A k \in 1..n : k # n => sent'[k] = sent[k]
      /\ lines \in Seq(Lines) /\ new = LastValue(lines, v)
      /\ IF phase = "value" THEN sent'[n].trailers = sent[n].trailers
         ELSE sent'[n].headers = sent[n].headers
  BY SentValue
<1>4. lines # <<>> /\ old.val = Empty
  BY <1>1, <1>2, Parsed DEF LinesOK
<1>5. /\ (phase = "value" => lines = sent[n].headers /\ new = sent'[n].headers)
      /\ (phase # "value" => lines = sent[n].trailers /\ new = sent'[n].trailers)
  OBVIOUS
<1> HIDE DEF lines, new
<1>6. /\ Front(lines) \in Seq(Lines) /\ old \in Lines /\ lines = Append(Front(lines), old)
  BY <1>3, <1>4, FrontAndLast
<1>7. last \in Lines /\ new = Append(Front(lines), last) /\ last.val = v /\ last.name = old.name
  BY <1>3, <1>4, LastValueLines
<1> HIDE DEF old, last
<1>8. /\ LinesIn(lines) = LinesIn(Front(lines)) \cup {old}
      /\ LinesIn(new) = LinesIn(Front(lines)) \cup {last}
      /\ Front(new) = Front(lines) /\ new # <<>> /\ new[Len(new)] = last
  BY <1>6, <1>7, AppendLines, AppendLast
<1>9. Kept(lines, new)
  BY <1>3, <1>4, KeptValue DEF old
<1>10. /\ Kept(sent[n].headers, sent'[n].headers)
       /\ Kept(sent[n].trailers, sent'[n].trailers)
  BY <1>3, <1>5, <1>9, KeptSame
<1>11. /\ Grown /\ SeenOwn' /\ HeadersExact' /\ RequestsWhole'
       /\ TrailersBefore(n)' = TrailersBefore(n)
  BY <1>1, <1>3, <1>10, LastRequest
<1>12. /\ bufs'.url = bufs.url /\ bufs'.body = bufs.body /\ bufs'.map = bufs.map
       /\ bufs'.field = bufs.field
       /\ IF v = Empty THEN bufs'.value = bufs.value /\ bufs'.data = bufs.data
          ELSE bufs'.value = Append(bufs.value, <<n, v>>) /\ bufs'.data
  BY <1>1, AddValueParts, Parsed
<1>13. LinesOK'
  BY <1>1, <1>2, <1>3, Parsed DEF LinesOK
<1>14. last \in LinesFrom(n)' /\ \A l \in LinesFrom(n)' : l \in LinesFrom(n) \/ l = last
  BY <1>1, <1>2, <1>3, <1>5, <1>8 DEF LinesFrom
<1>15. BuffersOwn'
  <2>1. /\ bufs.url = <<n>> /\ bufs.body = BodySent(n) /\ OwnMap(bufs.map, n)
        /\ phase = "value" => OwnLine(bufs.field, bufs.value, n)
        /\ phase # "value" => OfTrailers(bufs.field, bufs.value, n)
    BY <1>1, Parsed DEF BuffersOwn
  <2>2. /\ \A m \in HeaderMaps : OwnMap(m, n) => OwnMap(m, n)'
        /\ \A f : \A w \in Seq(Tagged) : /\ OwnLine(f, w, n) => OwnLine(f, w, n)'
                                         /\ OfTrailers(f, w, n) => OfTrailers(f, w, n)'
    BY <1>2, <1>11, GrownAll
  <2>3. bufs.map \in HeaderMaps /\ bufs.field \in Seq(Names) /\ bufs.value \in Seq(Tagged)
    BY <1>1, Parsed
  <2>4. OwnMap(bufs.map, n)'
    BY <1>2, <1>12, <2>1, <2>2, <2>3
  <2>5. v # Empty => <<n, v>> \in Tagged
    BY <1>1, Numbered DEF Tagged
  <2>6. v # Empty => OwnValue(<<n, v>>, n)'
    BY <1>2, <1>7, <1>14 DEF OwnValue
  <2>7. phase = "value" => OwnLine(bufs.field, bufs.value, n)'
    BY <1>2, <1>12, <2>1, <2>2, <2>3, <2>5, <2>6, OwnValued
  <2>8. phase # "value" => OfTrailers(bufs.field, bufs.value, n)'
    <3> SUFFICES ASSUME phase # "value" PROVE OfTrailers(bufs.field, bufs.value, n)'
      OBVIOUS
    <3>1. last \in LinesIn(sent[n].trailers)'
      BY <1>2, <1>5, <1>8
    <3>2. \E line \in LinesIn(sent[n].trailers)' : line.val = v
      BY <1>7, <3>1
    <3>3. OfTrailers(bufs.field, bufs.value, n)
      BY <2>1
    <3>4. CASE v = Empty
      BY <1>2, <1>12, <2>2, <2>3, <3>3, <3>4
    <3>5. CASE v # Empty
      BY <1>2, <1>12, <2>2, <2>3, <2>5, <3>2, <3>3, <3>5, OwnValued
    <3> QED
      BY <3>4, <3>5
  <2>9. ~bufs'.data => \A k \in 1..n' : \A l \in LinesFrom(k)' : l.val = Empty
    <3> SUFFICES ASSUME v = Empty, ~bufs.data
                 PROVE \A k \in 1..n' : \A l \in LinesFrom(k)' : l.val = Empty
      BY <1>12
    <3>1. \A l \in LinesFrom(n) : l.val = Empty
      BY <1>1, <1>2, Parsed DEF BuffersOwn
    <3> QED
      BY <1>1, <1>2, <1>3, <1>7, <1>14, <3>1, StillNoValue
  <2>10. bufs'.field # <<>>
    BY <1>1, <1>12, Parsed DEF BuffersOwn
  <2> QED
    BY <1>1, <1>2, <1>12, <2>1, <2>4, <2>7, <2>8, <2>9, <2>10, SameBody, Parsed DEF BuffersOwn
<1>16. BuffersExact'
  <2> SUFFICES ASSUME phase = "value", TrailersBefore(n)' = {}, Valued(sent'[n].headers)
               PROVE  LET hs == sent'[n].headers
                      IN  /\ bufs'.map = HeadersOf(Front(hs), n)
                          /\ bufs'.field = IF hs = <<>> THEN <<>> ELSE <<hs[Len(hs)].name>>
                          /\ bufs'.value = IF hs = <<>> THEN <<>> ELSE <<<<n, hs[Len(hs)].val>>>>
    <3>1. phase # "value" => ~Plain(n)'
      BY <1>2, <1>5, <1>8 DEF Plain
    <3> QED
      BY <1>1, <1>2, <3>1 DEF BuffersExact
  <2>1. /\ new = sent'[n].headers /\ lines = sent[n].headers /\ TrailersBefore(n) = {}
    BY <1>5, <1>11
  <2>2. v # Empty /\ Valued(Front(lines))
    BY <1>7, <1>8, <2>1 DEF Valued
  <2>3. /\ bufs.map = HeadersOf(Front(lines), n)
        /\ bufs.field = <<old.name>> /\ bufs.value = <<>>
    BY <1>1, <1>4, <2>1, <2>2, Parsed DEF BuffersExact, old
  <2>4. bufs'.value = <<<<n, v>>>>
    BY <1>12, <2>2, <2>3
  <2> QED
    BY <1>7, <1>8, <1>12, <2>1, <2>3, <2>4
<1> QED
  BY <1>1, <1>11, <1>13, <1>15, <1>16 DEF ParseInv, KnownHttpFaults

-----------------------------------------------------------------------------
(* The end of the headers, the body and the end of a request.                 *)

\* What a step that takes no request from the connection leaves.
LEMMA SeenKept ==
    ASSUME HttpInv, ParseInv, fault = "none", UNCHANGED <<n, sent, pieces, seen>>
    PROVE  SeenOwn' /\ HeadersExact' /\ RequestsWhole'
BY Parsed, SeenSame, SameLines

LEMMA StoreHeaderParts ==
    ASSUME NEW b \in Buffers
    PROVE  LET c == StoreHeader(b)
           IN  /\ c.url = b.url /\ c.body = b.body /\ c.data = b.data
               /\ c.map = StrmapSet(b.map, b.field, b.value)
               /\ c.field = <<>> /\ c.value = <<>>
BY DEF StoreHeader, Buffers

LEMMA HeadersCompleteParse ==
    ASSUME HttpInv, ParseInv, HeadersComplete
    PROVE  ParseInv'
<1>1. /\ fault = "none" /\ phase = "headers" /\ UNCHANGED <<n, sent, pieces, seen>>
      /\ bufs' = IF bufs.field # <<>> THEN StoreHeader(bufs) ELSE bufs
      /\ \/ fault' = "null_value" /\ ~bufs.data
         \/ fault' = "none" /\ phase' \in {"stopped", "body"}
  BY DEF HeadersComplete, Parsing
<1>2. /\ n \in Nat /\ n \in 1..n /\ Len(sent) = n /\ sent[n].headers \in Seq(Lines)
      /\ sent \in Seq(Requests) /\ bufs \in Buffers
  BY <1>1, AtRequest, Parsed
<1>3. SeenOwn' /\ HeadersExact' /\ RequestsWhole'
  BY <1>1, SeenKept
<1>4. /\ bufs'.url = bufs.url /\ bufs'.body = bufs.body /\ bufs'.data = bufs.data
      /\ IF bufs.field # <<>>
         THEN /\ bufs'.map = StrmapSet(bufs.map, bufs.field, bufs.value)
              /\ bufs'.field = <<>> /\ bufs'.value = <<>>
         ELSE bufs' = bufs
  BY <1>1, <1>2, StoreHeaderParts
<1>5. /\ sent[n].trailers = <<>>
      /\ bufs.url = <<n>> /\ bufs.body = BodySent(n) /\ OwnMap(bufs.map, n)
      /\ OwnLine(bufs.field, bufs.value, n)
      /\ bufs.field = <<>> => bufs.value = <<>>
      /\ ~bufs.data => \A k \in 1..n : \A line \in LinesFrom(k) : line.val = Empty
  BY <1>1, Parsed DEF LinesOK, BuffersOwn
<1>6. bufs'.field = <<>> /\ bufs'.value = <<>>
  BY <1>4, <1>5
<1>7. OwnMap(bufs'.map, n)
  BY <1>4, <1>5, MapStore
<1>8. \A k : LinesFrom(k)' = LinesFrom(k)
  BY <1>1, <1>2, SameLines
<1>9. LinesOK' \/ fault' # "none"
  BY <1>1, <1>2, <1>5 DEF LinesOK
<1>10. BuffersOwn' \/ fault' # "none"
  <2>1. OwnMap(bufs.map, n)'
    BY <1>1, <1>7, SameOwn
  <2>2. OfTrailers(bufs.field, bufs.value, n)'
    BY <1>6 DEF OfTrailers
  <2>3. ~bufs'.data => \A k \in 1..n' : \A line \in LinesFrom(k)' : line.val = Empty
    BY <1>1, <1>4, <1>5, <1>8
  <2> QED
    BY <1>1, <1>4, <1>5, <1>6, <2>1, <2>2, <2>3, SameBody, Parsed DEF BuffersOwn
<1>11. BuffersExact' \/ fault' # "none"
  <2> SUFFICES ASSUME Plain(n) PROVE bufs'.map = HeadersSent(n)
    BY <1>1, <1>2, SameLines DEF BuffersExact
  <2> DEFINE hs == sent[n].headers
             last == hs[Len(hs)]
  <2>1. TrailersBefore(n) = {} /\ Valued(hs)
    BY DEF Plain, Valued
  <2>2. /\ bufs.map = HeadersOf(Front(hs), n)
        /\ bufs.field = IF hs = <<>> THEN <<>> ELSE <<last.name>>
        /\ bufs.value = IF hs = <<>> THEN <<>> ELSE <<<<n, last.val>>>>
    BY <1>1, <2>1, Parsed DEF BuffersExact
  <2>3. CASE hs = <<>>
    BY <1>4, <2>2, <2>3, NoLines DEF HeadersSent
  <2>4. CASE hs # <<>>
    <3>1. Front(hs) \in Seq(Lines) /\ last \in Lines /\ hs = Append(Front(hs), last)
      BY <1>2, <2>4, FrontAndLast
    <3>2. HeadersOf(hs, n) = StrmapSet(HeadersOf(Front(hs), n), <<last.name>>, <<<<n, last.val>>>>)
      BY <3>1, HeadersAppend
    <3> QED
      BY <1>4, <2>2, <2>4, <3>2 DEF HeadersSent
  <2> QED
    BY <2>3, <2>4
<1>12. KnownHttpFaults'
  <2>1. fault' = "null_value" => \A k \in 1..n' : \A line \in LinesFrom(k)' : line.val = Empty
    BY <1>1, <1>5, <1>8
  <2> QED
    BY <1>1, <2>1 DEF KnownHttpFaults
<1> QED
  BY <1>3, <1>9, <1>10, <1>11, <1>12 DEF ParseInv

\* One more piece of the body, and none of a body that was seen.
LEMMA BodyParse == ASSUME HttpInv, ParseInv, Body PROVE ParseInv'
<1>1. /\ fault = "none" /\ phase = "body"
      /\ bufs' = [bufs EXCEPT !.body = Append(@, <<n, pieces[n] + 1>>)]
      /\ pieces' = [pieces EXCEPT ![n] = @ + 1]
      /\ UNCHANGED <<phase, n, sent, seen, fault>>
  BY DEF Body, Parsing
<1>2. /\ bufs \in Buffers /\ sent \in Seq(Requests) /\ BuffersOwn
      /\ n \in 1..MaxRequests /\ n \in Nat
  BY <1>1, Numbered, Parsed
<1>3. pieces \in [1..MaxRequests -> Nat]
  BY DEF HttpInv, TypeOK
<1>4. /\ pieces'[n] = pieces[n] + 1 /\ pieces[n] \in Nat
      /\ \A k \in 1..MaxRequests : k # n => pieces'[k] = pieces[k]
  BY <1>1, <1>2, <1>3
<1>5. /\ bufs'.url = bufs.url /\ bufs'.body = Append(bufs.body, <<n, pieces[n] + 1>>)
      /\ bufs'.map = bufs.map
      /\ bufs'.field = bufs.field /\ bufs'.value = bufs.value /\ bufs'.data = bufs.data
  BY <1>1, <1>2 DEF Buffers
<1>6. bufs'.body = BodySent(n)'
  <2>1. bufs.body = BodySent(n)
    BY <1>1, <1>2 DEF BuffersOwn
  <2>2. BodySent(n)' = Append(BodySent(n), <<n, pieces[n] + 1>>)
    BY <1>1, <1>4, PieceAppend DEF BodySent
  <2> QED
    BY <1>5, <2>1, <2>2
<1>7. SeenOwn' /\ HeadersExact' /\ RequestsWhole'
  <2>1. \A i \in 1..Len(seen) : pieces'[seen[i].n] = pieces[seen[i].n]
    <3> SUFFICES ASSUME NEW i \in 1..Len(seen) PROVE pieces'[seen[i].n] = pieces[seen[i].n]
      OBVIOUS
    <3>1. seen[i].n # n
      BY <1>1 DEF HttpInv, InOrder
    <3> QED
      BY <1>4, <3>1, SeenNumber
  <2>2. Grown
    BY <1>1, <1>2, SameLines
  <2> QED
    BY <1>1, <2>1, <2>2, SeenSame
<1>8. LinesOK'
  BY <1>1, Parsed DEF LinesOK
<1>9. BuffersOwn'
  <2>1. \A k \in (n' + 1)..MaxRequests : pieces'[k] = 0
    <3> SUFFICES ASSUME NEW k \in (n + 1)..MaxRequests PROVE pieces'[k] = 0
      BY <1>1
    <3>1. k \in 1..MaxRequests /\ k # n
      BY <1>2
    <3> QED
      BY <1>2, <1>4, <3>1 DEF BuffersOwn
  <2> QED
    BY <1>1, <1>2, <1>5, <1>6, <2>1, SameOwn, SameLines DEF BuffersOwn
<1>10. BuffersExact'
  BY <1>1, <1>2, <1>5, Parsed, SameLines DEF BuffersExact
<1> QED
  BY <1>1, <1>7, <1>8, <1>9, <1>10 DEF ParseInv, KnownHttpFaults

LEMMA LastChunkParse == ASSUME HttpInv, ParseInv, LastChunk PROVE ParseInv'
<1>1. /\ fault = "none" /\ phase = "body" /\ phase' = "trailers"
      /\ UNCHANGED <<bufs, n, sent, pieces, seen, fault>>
  BY DEF LastChunk, Parsing, parseVars
<1>2. sent \in Seq(Requests)
  BY <1>1, Parsed
<1>3. SeenOwn' /\ HeadersExact' /\ RequestsWhole'
  BY <1>1, SeenKept
<1>4. LinesOK'
  BY <1>1, Parsed DEF LinesOK
<1>5. BuffersOwn'
  BY <1>1, <1>2, Parsed, SameOwn, SameLines, SameBody DEF BuffersOwn
<1>6. BuffersExact'
  BY <1>1, <1>2, Parsed, SameLines DEF BuffersExact
<1> QED
  BY <1>1, <1>3, <1>4, <1>5, <1>6 DEF ParseInv, KnownHttpFaults

\* Only a request with a form has fields: a line of it, or a trailer left over,
\* says so.
LEMMA FormLine ==
    ASSUME OwnMap(bufs.map, n), HasFields
    PROVE  \E line \in LinesFrom(n) \cup TrailersBefore(n) : line.val \in Form
<1>1. PICK h \in bufs.map : \E i \in 1..Len(h[2]) : h[2][i][2] \in Form
  BY DEF HasFields, IsForm
<1>2. PICK i \in 1..Len(h[2]) : h[2][i][2] \in Form
  BY <1>1
<1>3. OwnValue(h[2][i], n)
  BY DEF OwnMap, OwnLine
<1> QED
  BY <1>2, <1>3 DEF OwnValue

LEMMA BadFreeKnown ==
    ASSUME HttpInv, ParseInv, fault = "none", phase \in {"body", "trailers", "callback"},
           fault' = "bad_free", HasFields, UNCHANGED <<n, sent, pieces>>
    PROVE  KnownHttpFaults'
<1>1. OwnMap(bufs.map, n)
  BY Parsed DEF BuffersOwn
<1>2. sent \in Seq(Requests)
  BY Parsed
<1>3. \E line \in LinesFrom(n)' \cup TrailersBefore(n)' : line.val \in Form
  BY <1>1, <1>2, FormLine, SameLines
<1> QED
  BY <1>3 DEF KnownHttpFaults

\* The buffers after a request: its trailers, and nothing else.
LEMMA DispatchedParse ==
    ASSUME HttpInv, ParseInv, fault = "none", phase \in {"body", "trailers", "callback"},
           NEW kept, Dispatched(kept), UNCHANGED <<n, sent, pieces, seen>>
    PROVE  ParseInv'
<1>1. /\ bufs' = ClearRequest(bufs) /\ phase' \in {"start", "stopped"}
      /\ fault' = "none" \/ (fault' = "bad_free" /\ HasFields)
  BY DEF Dispatched
<1>2. bufs \in Buffers /\ sent \in Seq(Requests) /\ n \in Nat /\ n \in 1..n
  BY Parsed, AtRequest
<1>3. /\ bufs'.url = <<>> /\ bufs'.body = <<>> /\ bufs'.map = {}
      /\ bufs'.field = bufs.field /\ bufs'.value = bufs.value /\ bufs'.data = bufs.data
  BY <1>1, <1>2 DEF ClearRequest, Buffers
<1>4. SeenOwn' /\ HeadersExact' /\ RequestsWhole'
  BY SeenKept
<1>5. KnownHttpFaults'
  BY <1>1, BadFreeKnown DEF KnownHttpFaults
<1>6. LinesOK'
  BY <1>1, Parsed DEF LinesOK
<1>7. BuffersOwn'
  <2>1. OfTrailers(bufs.field, bufs.value, n)
    BY Parsed DEF BuffersOwn
  <2>2. OfTrailers(bufs.field, bufs.value, n)'
    BY <1>3, <2>1, SameOwn
  <2>3. ~bufs'.data => \A k \in 1..n' : \A line \in LinesFrom(k)' : line.val = Empty
    BY <1>2, <1>3, Parsed, SameLines DEF BuffersOwn
  <2>4. bufs'.field = <<>> => bufs'.value = <<>>
    BY <1>3, Parsed DEF BuffersOwn
  <2> QED
    BY <1>1, <1>2, <1>3, <2>2, <2>3, <2>4, Parsed DEF BuffersOwn
<1>8. BuffersExact'
  BY <1>1 DEF BuffersExact
<1> QED
  BY <1>4, <1>5, <1>6, <1>7, <1>8 DEF ParseInv

LEMMA MessageCompleteParse == ASSUME HttpInv, ParseInv, MessageComplete PROVE ParseInv'
<1>1. /\ fault = "none" /\ phase \in {"body", "trailers"} /\ UNCHANGED <<n, sent, pieces>>
      /\ calls \in BOOLEAN
  BY DEF MessageComplete, Parsing, HttpInv, TypeOK
<1>2. CASE ~calls
  BY <1>1, <1>2, DispatchedParse DEF MessageComplete
<1>3. CASE calls
  <2> DEFINE req == [n |-> n, url |-> bufs.url, body |-> bufs.body, headers |-> bufs.map]
  <2>1. /\ phase' = "callback" /\ seen' = Append(seen, req) /\ UNCHANGED <<bufs, fault>>
    BY <1>3 DEF MessageComplete
  <2>2. /\ req.n = n /\ req.url = bufs.url /\ req.body = bufs.body /\ req.headers = bufs.map
    OBVIOUS
  <2>3. /\ n \in 1..MaxRequests /\ sent \in Seq(Requests) /\ bufs \in Buffers
        /\ seen \in Seq(SeenRequests)
    BY <1>1, Numbered, Parsed DEF HttpInv, TypeOK
  <2>4. req \in SeenRequests
    BY <2>3 DEF Buffers, SeenRequests
  <2> HIDE DEF req
  <2>5. /\ Len(seen') = Len(seen) + 1 /\ Len(seen) \in Nat
        /\ seen'[Len(seen) + 1] = req /\ \A i \in 1..Len(seen) : seen'[i] = seen[i]
    BY <2>1, <2>3, <2>4, AppendType
  <2>6. \A i \in 1..Len(seen') : i \in 1..Len(seen) \/ i = Len(seen) + 1
    BY <2>5
  <2>7. /\ bufs.url = <<n>> /\ bufs.body = BodySent(n) /\ OwnMap(bufs.map, n)
        /\ Plain(n) => bufs.map = HeadersSent(n)
    BY <1>1, Parsed DEF BuffersOwn, BuffersExact
  <2>8. SeenOwn'
    <3> SUFFICES ASSUME NEW i \in 1..Len(seen') PROVE OwnMap(seen[i].headers, seen[i].n)'
      BY DEF SeenOwn
    <3>1. OwnMap(seen'[i].headers, seen'[i].n)
      BY <1>1, <2>2, <2>5, <2>6, <2>7, Parsed DEF SeenOwn
    <3> QED
      BY <1>1, <3>1, SameOwn
  <2>9. HeadersExact'
    <3> SUFFICES ASSUME NEW i \in 1..Len(seen'), Plain(seen[i].n)'
                 PROVE  seen'[i].headers = HeadersSent(seen[i].n)'
      BY DEF HeadersExact
    <3>1. Plain(seen'[i].n) => seen'[i].headers = HeadersSent(seen'[i].n)
      BY <1>1, <2>2, <2>5, <2>6, <2>7, Parsed DEF HeadersExact
    <3> QED
      BY <1>1, <2>3, <3>1, SameLines
  <2>10. RequestsWhole'
    <3>1. \A i \in 1..Len(seen) : seen[i].n < n
      <4> SUFFICES ASSUME NEW i \in 1..Len(seen) PROVE seen[i].n < n
        OBVIOUS
      <4>1. seen[i].n \in 1..MaxRequests /\ seen[i].n <= n /\ seen[i].n # n
        BY <1>1, SeenNumber DEF HttpInv, InOrder
      <4> QED
        BY <2>3, <4>1, BoundAssumption
    <3> SUFFICES ASSUME NEW i \in 1..Len(seen')
                 PROVE  /\ seen'[i].url = <<seen'[i].n>>
                        /\ seen'[i].body = BodySent(seen[i].n)'
                        /\ i > 1 => seen'[i].n > seen'[i - 1].n
      BY DEF RequestsWhole
    <3>2. CASE i \in 1..Len(seen)
      <4>1. i > 1 => i - 1 \in 1..Len(seen)
        BY <2>5, <3>2
      <4> QED
        BY <1>1, <2>5, <3>2, <4>1, Parsed, SameBody DEF RequestsWhole
    <3>3. CASE i = Len(seen) + 1
      <4>1. i > 1 => i - 1 \in 1..Len(seen)
        BY <2>5, <3>3
      <4>2. i > 1 => seen'[i - 1].n < n /\ seen'[i - 1].n \in 1..MaxRequests
        BY <2>5, <3>1, <4>1, SeenNumber
      <4>3. i > 1 => n > seen'[i - 1].n
        BY <2>3, <4>2, BoundAssumption
      <4> QED
        BY <1>1, <2>2, <2>5, <2>7, <3>3, <4>3, SameBody
    <3> QED
      BY <2>6, <3>2, <3>3
  <2>11. LinesOK'
    BY <1>1, <2>1, Parsed DEF LinesOK
  <2>12. BuffersOwn'
    BY <1>1, <2>1, <2>3, Parsed, SameOwn, SameLines, SameBody DEF BuffersOwn
  <2>13. BuffersExact'
    BY <1>1, <2>1, <2>3, Parsed, SameLines DEF BuffersExact
  <2> QED
    BY <1>1, <2>1, <2>8, <2>9, <2>10, <2>11, <2>12, <2>13 DEF ParseInv, KnownHttpFaults
<1> QED
  BY <1>1, <1>2, <1>3

-----------------------------------------------------------------------------
(* Every step, and the theorems.                                              *)

\* Init reads nothing yet.
LEMMA InitParse == ASSUME Init PROVE ParseInv
<1>1. LinesOK
  BY DEF Init, LinesOK
<1>2. BuffersOwn
  BY BoundAssumption DEF Init, NewBuffers, BuffersOwn
<1>3. BuffersExact
  BY DEF Init, BuffersExact
<1>4. seen = <<>> /\ fault = "none"
  BY DEF Init
<1>5. SeenOwn /\ HeadersExact /\ RequestsWhole
  BY <1>4 DEF SeenOwn, HeadersExact, RequestsWhole
<1>6. KnownHttpFaults
  BY <1>4 DEF KnownHttpFaults
<1> QED
  BY <1>1, <1>2, <1>3, <1>5, <1>6 DEF ParseInv

\* getHeaders meets a header, and a header is of a line.
LEMMA GetHeadersParse == ASSUME HttpInv, ParseInv, GetHeaders PROVE ParseInv'
<1>1. /\ fault = "none" /\ fault' = "null_array"
      /\ UNCHANGED <<phase, n, bufs, sent, pieces, seen>>
  BY DEF GetHeaders, InUser, parseVars
<1>2. PICK i \in 1..Len(seen) : seen[i].headers # {}
  BY DEF GetHeaders
<1> DEFINE k == seen[i].n
<1>3. PICK h \in seen[i].headers : TRUE
  BY <1>2
<1>4. h[1] # <<>> /\ OwnLine(h[1], h[2], k)
  BY <1>1, Parsed DEF SeenOwn, OwnMap
<1>5. h[1] \in Seq(Names)
  <2>1. seen[i] \in SeenRequests
    BY DEF HttpInv, TypeOK
  <2> QED
    BY <2>1 DEF SeenRequests, HeaderMaps
<1>6. 1 \in 1..Len(h[1])
  BY <1>4, <1>5, EmptySeq
<1>7. LinesFrom(k) \cup TrailersBefore(k) # {}
  BY <1>4, <1>6 DEF OwnLine, OwnName
<1>8. k \in 1..n
  <2>1. k \in 1..MaxRequests /\ k <= n /\ n \in Nat
    BY <1>1, SeenNumber, Parsed DEF HttpInv, InOrder
  <2> QED
    BY <2>1, BoundAssumption
<1>9. KnownHttpFaults'
  <2>1. sent \in Seq(Requests)
    BY <1>1, Parsed
  <2> HIDE DEF k
  <2>2. \E j \in 1..n' : LinesFrom(j)' \cup TrailersBefore(j)' # {}
    BY <1>1, <1>7, <1>8, <2>1, SameLines
  <2> QED
    BY <1>1, <2>2 DEF KnownHttpFaults
<1> QED
  BY <1>1, <1>9, ScriptParse

LEMMA NextParse == ASSUME HttpInv, ParseInv, [Next]_vars PROVE ParseInv'
<1>1. CASE UNCHANGED vars
  <2>1. UNCHANGED <<phase, n, bufs, sent, pieces, seen, fault>>
    BY <1>1 DEF vars, parseVars
  <2>2. sent \in Seq(Requests)
    BY DEF HttpInv, TypeOK
  <2>3. SeenOwn' <=> SeenOwn
    BY <2>1, SameOwn DEF SeenOwn
  <2>4. /\ HeadersExact' <=> HeadersExact
        /\ RequestsWhole' <=> RequestsWhole
        /\ KnownHttpFaults' <=> KnownHttpFaults
    BY <2>1, <2>2, SameLines, SameBody DEF HeadersExact, RequestsWhole, KnownHttpFaults
  <2> QED
    BY <2>1, <2>3, <2>4, ScriptParse DEF ParseInv
<1>2. CASE RepeatedField
  <2>1. /\ fault = "none" /\ fault' = "bad_free" /\ HasFields
        /\ phase \in {"body", "trailers"} /\ UNCHANGED <<phase, n, bufs, sent, pieces, seen>>
    BY <1>2 DEF RepeatedField, Parsing, parseVars
  <2> QED
    BY <2>1, BadFreeKnown, ScriptParse
<1>3. CASE ReturnRequest
  <2>1. /\ fault = "none" /\ phase = "callback" /\ UNCHANGED <<n, sent, pieces, seen>>
        /\ \E kept \in BOOLEAN : Dispatched(kept)
    BY <1>3 DEF ReturnRequest
  <2> QED
    BY <2>1, DispatchedParse
<1>4. CASE ReadEnds
  <2>1. fault = "none" /\ fault' = "none" /\ phase' = "ended" /\ UNCHANGED <<n, bufs, sent, pieces, seen>>
    BY <1>4 DEF ReadEnds, Parsing, parseVars
  <2>2. SeenOwn' /\ HeadersExact' /\ RequestsWhole'
    BY <2>1, SeenKept
  <2>3. sent \in Seq(Requests)
    BY <2>1, Parsed
  <2>4. LinesOK' /\ BuffersExact'
    BY <2>1, Parsed DEF LinesOK, BuffersExact
  <2>5. BuffersOwn'
    BY <2>1, <2>3, Parsed, SameLines DEF BuffersOwn
  <2> QED
    BY <2>1, <2>2, <2>4, <2>5 DEF ParseInv, KnownHttpFaults
<1>5. ASSUME NEW i \in 1..Len(res), NEW len \in Lens,
             End(i, len) \/ Json(i, len) \/ Write(i, len)
      PROVE  ParseInv'
  <2>1. fault = "none" /\ fault' = "none" /\ UNCHANGED <<phase, n, bufs, sent, pieces, seen>>
    BY <1>5 DEF End, Json, Write, Uses, InUser, parseVars
  <2>2. KnownHttpFaults'
    BY <2>1 DEF KnownHttpFaults
  <2> QED
    BY <2>1, <2>2, ScriptParse
<1>6. CASE Close \/ \E i \in 1..Len(res) : Redirect(i)
  <2>1. fault = "none" /\ fault' = "none" /\ UNCHANGED <<phase, n, bufs, sent, pieces, seen>>
    BY <1>6 DEF Redirect, Close, Uses, InUser, parseVars
  <2>2. KnownHttpFaults'
    BY <2>1 DEF KnownHttpFaults
  <2> QED
    BY <2>1, <2>2, ScriptParse
<1>7. CASE Parser
  BY <1>2, <1>4, <1>7, RequestLineParse, HeaderFieldParse, HeaderValueParse,
     HeadersCompleteParse, BodyParse, LastChunkParse, MessageCompleteParse DEF Parser
<1>8. CASE Script
  BY <1>3, <1>5, <1>6, <1>8, GetHeadersParse DEF Script
<1>9. CASE Terminated
  BY <1>1, <1>9 DEF Terminated
<1> QED
  BY <1>1, <1>7, <1>8, <1>9 DEF Next

(* In every reachable state the buffers are those of the request being parsed,*)
(* and what the script was given is what was sent.                            *)
THEOREM ParseInvariant == Spec => []ParseInv
<1>1. Init => ParseInv
  BY InitParse
<1>2. HttpInv /\ ParseInv /\ [Next]_vars => ParseInv'
  BY NextParse
<1> QED
  BY <1>1, <1>2, Invariant, PTL DEF Spec

(* The script sees exactly the headers of a request with no empty value and no *)
(* trailers about it (http_server.c:43).                                       *)
THEOREM HeadersAsSent == Spec => []HeadersExact
<1>1. ParseInv => HeadersExact
  BY DEF ParseInv
<1> QED
  BY <1>1, ParseInvariant, PTL

(* ... and of any request no name or value of an earlier one, but for the      *)
(* trailers of the one just before it.                                         *)
THEOREM HeadersOfNoOther == Spec => []HeadersOwn
<1>1. ParseInv => HeadersOwn
  BY DEF ParseInv, SeenOwn, HeadersOwn, OwnMap, OwnLine, OwnName, OwnValue
<1> QED
  BY <1>1, ParseInvariant, PTL

(* Requests are handed over once, in order, each with its own URL and every    *)
(* piece of its own body (http_server.c:94).                                   *)
THEOREM WholeRequests == Spec => []RequestsWhole
<1>1. ParseInv => RequestsWhole
  BY DEF ParseInv
<1> QED
  BY <1>1, ParseInvariant, PTL

(* The undefined behaviour of this part of the code comes in the known cases   *)
(* only.                                                                       *)
THEOREM HttpFaultsKnown == Spec => []KnownHttpFaults
<1>1. ParseInv => KnownHttpFaults
  BY DEF ParseInv
<1> QED
  BY <1>1, ParseInvariant, PTL

=============================================================================
