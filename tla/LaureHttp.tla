------------------------------- MODULE LaureHttp -------------------------------
(***************************************************************************)
(* One HTTP connection of a laure server: the llhttp callbacks of          *)
(* http_server.c, the request and response objects it hands to the         *)
(* script's request callback, and what dispatch_plain does at the end of a *)
(* read.                                                                   *)
(*                                                                         *)
(* The client is whatever llhttp accepts: each step of the parser is one   *)
(* llhttp callback, with the names and values chosen there, and a read may *)
(* end anywhere.  stop() in a request callback and the freeing of the      *)
(* connection are LaureLoop's.                                             *)
(***************************************************************************)
EXTENDS Naturals, Sequences

CONSTANTS
    Names,        \* header names, up to case: they are stored in lower case
    Upgrade,      \* the name "upgrade"
    ContentType,  \* the name "content-type"
    Values,       \* header values, the empty one apart
    Empty,        \* the empty header value
    WebSocket,    \* the values that contain "websocket"
    Form,         \* ... "application/x-www-form-urlencoded"
    Lens,         \* lengths of what the script sends
    MaxRequests,  \* bound: requests in the read
    MaxHeaders,   \* bound: header and trailer lines of a request
    MaxPieces,    \* bound: pieces in which llhttp finds the body of a request
    MaxSends      \* bound: sends of the script

ASSUME NameAssumption  == Upgrade \in Names /\ ContentType \in Names
ASSUME ValueAssumption ==
    /\ Empty \notin Values
    /\ WebSocket \subseteq Values /\ Form \subseteq Values
ASSUME LenAssumption   == Lens \subseteq Nat
ASSUME BoundAssumption ==
    /\ MaxRequests \in Nat /\ MaxHeaders \in Nat
    /\ MaxPieces \in Nat /\ MaxSends \in Nat

VARIABLES
    state,      \* c->state
    phase,      \* where llhttp_execute is; "callback" while the script runs
    calls,      \* the request callback is registered and no exception pends
    n,          \* requests begun
    bufs,       \* the connection's buffers and header map
    keepAlive,  \* c->http_keep_alive
    sent,       \* history: header and trailer lines of each request
    pieces,     \* history: pieces of the body of each request
    seen,       \* the requests dispatched, as their request objects have them
    res,        \* their response objects
    out,        \* what was given to uv_write, in order
    closing,    \* uv_is_closing(&c->handle)
    fault       \* undefined behaviour met

parseVars == <<n, bufs, keepAlive, sent, pieces>>
connVars == <<state, closing>>
vars == <<connVars, phase, calls, parseVars, seen, res, out, fault>>

-----------------------------------------------------------------------------
(* Types.  A value carries the number of the request it came with. *)

Tagged == (1..MaxRequests) \X Values
Lines == [name : Names, val : Values \cup {Empty}]

\* laure_strmap_t: pairs of a key and a value, one pair per key.
HeaderMaps == SUBSET (Seq(Names) \X Seq(Tagged))

\* The number of a request, and of a piece of its body.
Bodies == Seq((1..MaxRequests) \X Nat)

Buffers ==
    [url   : Seq(1..MaxRequests),   \* http_method and http_url
     body  : Bodies,                \* http_body, piece by piece
     field : Seq(Names),            \* http_cur_field, name after name
     value : Seq(Tagged),           \* http_cur_value
     data  : BOOLEAN,               \* http_cur_value.data # NULL
     map   : HeaderMaps]            \* http_req_header

\* Of laure_res_obj_t; status line and headers are wording here.
Responses == [headerSent : BOOLEAN, ended : BOOLEAN]

\* A response built by laure_http_build_response, with its Content-Length, or
\* bytes sent as they are.
Items == [res : 1..MaxRequests, kind : {"response", "raw"}, len : Nat]

Requests == [headers : Seq(Lines), trailers : Seq(Lines)]

\* laure_req_obj_t, and the number of its request.
SeenRequests ==
    [n : 1..MaxRequests, url : Seq(1..MaxRequests), body : Bodies,
     headers : HeaderMaps]

States == {"HTTP", "WS_HAND", "CLOSE"}

Phases == {"start", "headers", "value", "body", "trailers", "trailer_value",
           "callback", "stopped", "ended"}

Faults == {"none",
           "null_value",  \* strdup of a value buffer never written
           "null_array",  \* an element added to an array never made
           "bad_free"}    \* free() of memory that emalloc returned

TypeOK ==
    /\ state \in States
    /\ phase \in Phases
    /\ calls \in BOOLEAN
    /\ n \in 0..MaxRequests
    /\ bufs \in Buffers
    /\ keepAlive \in BOOLEAN
    /\ sent \in Seq(Requests)
    /\ pieces \in [1..MaxRequests -> Nat]
    /\ seen \in Seq(SeenRequests)
    /\ res \in Seq(Responses)
    /\ out \in Seq(Items)
    /\ closing \in BOOLEAN
    /\ fault \in Faults

-----------------------------------------------------------------------------
(* laure_strmap_t and laure_buf_t. *)

\* laure_strmap_set.
StrmapSet(m, key, val) == {h \in m : h[1] # key} \cup {<<key, val>>}

\* laure_ws_is_upgrade.
IsUpgrade(m) ==
    \E h \in m : h[1] = <<Upgrade>> /\ \E i \in 1..Len(h[2]) : h[2][i][2] \in WebSocket

\* strstr(content-type, "application/x-www-form-urlencoded").
IsForm(m) ==
    \E h \in m : h[1] = <<ContentType>> /\ \E i \in 1..Len(h[2]) : h[2][i][2] \in Form

NewBuffers ==
    [url |-> <<>>, body |-> <<>>, field |-> <<>>, value |-> <<>>, data |-> FALSE,
     map |-> {}]

\* The value buffer is freed and not reset.
StoreHeader_Frees(b) ==
    [b EXCEPT !.map = StrmapSet(b.map, b.field, b.value), !.field = <<>>, !.value = <<>>,
              !.data = FALSE]

\* The body is reset as well, which a trailer comes too late for.
StoreHeader_DropsBody(b) ==
    [b EXCEPT !.map = StrmapSet(b.map, b.field, b.value), !.field = <<>>, !.value = <<>>,
              !.body = <<>>]

\* The current header goes into the map and its buffers are reset.
StoreHeader(b) ==
    [b EXCEPT !.map = StrmapSet(b.map, b.field, b.value), !.field = <<>>, !.value = <<>>]

\* cb_header_field on the buffers.
AddField(b, name) ==
    LET stored == IF b.field # <<>> /\ b.value # <<>> THEN StoreHeader(b) ELSE b
    IN  [stored EXCEPT !.field = Append(@, name)]

\* cb_header_value on the buffers: appending nothing does not allocate.
AddValue(b, v) ==
    IF v = Empty THEN b ELSE [b EXCEPT !.value = Append(@, <<n, v>>), !.data = TRUE]

\* Without clearing the header map.
ClearRequest_KeepsMap(b) == [b EXCEPT !.url = <<>>, !.body = <<>>]

\* cb_message_complete's resets.
ClearRequest(b) == [b EXCEPT !.url = <<>>, !.body = <<>>, !.map = {}]

-----------------------------------------------------------------------------
(* llhttp's callbacks. *)

Parsing == fault = "none" /\ phase \notin {"callback", "ended"}

\* cb_method and cb_url: the request line.
RequestLine ==
    /\ Parsing /\ phase = "start"
    /\ n < MaxRequests
    /\ n' = n + 1
    /\ bufs' = [bufs EXCEPT !.url = Append(@, n + 1)]
    /\ sent' = Append(sent, [headers |-> <<>>, trailers |-> <<>>])
    /\ phase' = "headers"
    /\ UNCHANGED <<connVars, calls, keepAlive, pieces, seen, res, out, fault>>

LinesOf(k) == Len(sent[k].headers) + Len(sent[k].trailers)

\* cb_header_field, for a header or, after a chunked body, for a trailer.
HeaderField(name) ==
    /\ Parsing /\ phase \in {"headers", "trailers"}
    /\ LinesOf(n) < MaxHeaders
    /\ bufs' = AddField(bufs, name)
    /\ IF phase = "headers"
       THEN /\ sent' = [sent EXCEPT ![n].headers = Append(@, [name |-> name, val |-> Empty])]
            /\ phase' = "value"
       ELSE /\ sent' = [sent EXCEPT ![n].trailers = Append(@, [name |-> name, val |-> Empty])]
            /\ phase' = "trailer_value"
    /\ UNCHANGED <<connVars, calls, n, keepAlive, pieces, seen, res, out, fault>>

\* The last line is given its value.
LastValue(lines, v) == [lines EXCEPT ![Len(lines)].val = v]

\* cb_header_value; an empty value is no call, or one with no bytes.
HeaderValue(v) ==
    /\ Parsing /\ phase \in {"value", "trailer_value"}
    /\ bufs' = AddValue(bufs, v)
    /\ IF phase = "value"
       THEN sent' = [sent EXCEPT ![n].headers = LastValue(@, v)] /\ phase' = "headers"
       ELSE sent' = [sent EXCEPT ![n].trailers = LastValue(@, v)] /\ phase' = "trailers"
    /\ UNCHANGED <<connVars, calls, n, keepAlive, pieces, seen, res, out, fault>>

\* cb_headers_complete stores no header that is still in the buffers.
HeadersComplete_DropsLast ==
    /\ Parsing /\ phase = "headers"
    /\ keepAlive' \in BOOLEAN
    /\ IF IsUpgrade(bufs.map)
       THEN state' = "WS_HAND" /\ phase' = "stopped"
       ELSE state' = state /\ phase' = "body"
    /\ UNCHANGED <<closing, calls, n, bufs, sent, pieces, seen, res, out, fault>>

\* cb_headers_complete.  strdup fails on a value buffer that no value has ever
\* been appended to.  For an upgrade it returns HPE_PAUSED_UPGRADE, which llhttp
\* takes for an error of the callback: it stops for good.
HeadersComplete ==
    /\ Parsing /\ phase = "headers"
    /\ keepAlive' \in BOOLEAN
    /\ bufs' = IF bufs.field # <<>> THEN StoreHeader(bufs) ELSE bufs
    /\ IF bufs.field # <<>> /\ ~bufs.data
       THEN /\ fault' = "null_value"
            /\ UNCHANGED <<state, phase>>
       ELSE /\ fault' = fault
            /\ IF IsUpgrade(bufs'.map)
               THEN state' = "WS_HAND" /\ phase' = "stopped"
               ELSE state' = state /\ phase' = "body"
    /\ UNCHANGED <<closing, calls, n, sent, pieces, seen, res, out>>

\* cb_body: a piece of the body.
Body ==
    /\ Parsing /\ phase = "body"
    /\ pieces[n] < MaxPieces
    /\ pieces' = [pieces EXCEPT ![n] = @ + 1]
    /\ bufs' = [bufs EXCEPT !.body = Append(@, <<n, pieces[n] + 1>>)]
    /\ UNCHANGED <<connVars, phase, calls, n, keepAlive, sent, seen, res, out, fault>>

\* The last chunk of a chunked body: trailers may follow.
LastChunk ==
    /\ Parsing /\ phase = "body"
    /\ phase' = "trailers"
    /\ UNCHANGED <<connVars, calls, parseVars, seen, res, out, fault>>

\* laure_conn_close.
LaureConnClose == state' = "CLOSE" /\ closing' = TRUE

\* The request has a form whose fields laure_parse_qs gives to a map.
HasFields == IsForm(bufs.map) /\ bufs.body # <<>>

\* What follows the callback for a request: its request object is freed, with
\* the form fields it may have, unless the script keeps it; the connection is
\* closed if it is not to be kept alive; the buffers are reset; llhttp goes on
\* only if the connection is to be kept alive.
Dispatched(kept) ==
    /\ \E fields \in BOOLEAN :
          fault' = IF fields /\ ~kept /\ HasFields THEN "bad_free" ELSE fault
    /\ bufs' = ClearRequest(bufs)
    /\ IF keepAlive THEN phase' = "start" /\ UNCHANGED connVars
       ELSE phase' = "stopped" /\ LaureConnClose

NewResponse == [headerSent |-> FALSE, ended |-> FALSE]

\* cb_message_complete, laure_http_dispatch: the request and response objects
\* are made, and given to the request callback if there is one to call.
MessageComplete ==
    /\ Parsing /\ phase \in {"body", "trailers"}
    /\ IF calls
       THEN /\ phase' = "callback"
            /\ seen' = Append(seen, [n |-> n, url |-> bufs.url, body |-> bufs.body,
                                     headers |-> bufs.map])
            /\ res' = Append(res, NewResponse)
            /\ UNCHANGED <<connVars, bufs, fault>>
       ELSE /\ Dispatched(FALSE)
            /\ UNCHANGED <<seen, res>>
    /\ UNCHANGED <<calls, n, keepAlive, sent, pieces, out>>

\* laure_http_dispatch of a form that has a field twice: the first value is
\* freed when the second takes its place.
RepeatedField ==
    /\ Parsing /\ phase \in {"body", "trailers"}
    /\ HasFields
    /\ fault' = "bad_free"
    /\ UNCHANGED <<connVars, phase, calls, parseVars, seen, res, out>>

\* The callback returns, or throws: then no other is called in this read.
ReturnRequest ==
    /\ fault = "none" /\ phase = "callback"
    /\ calls' \in {calls, FALSE}
    /\ \E kept \in BOOLEAN : Dispatched(kept)
    /\ UNCHANGED <<n, keepAlive, sent, pieces, seen, res, out>>

\* dispatch_plain when llhttp_execute is done, with or without an error, at the
\* end of the read: no pause for an upgrade comes with state WS_HAND, so it
\* closes the connection, and there is no second read.
ReadEnds ==
    /\ Parsing
    /\ phase' = "ended"
    /\ LaureConnClose
    /\ UNCHANGED <<calls, parseVars, seen, res, out, fault>>

-----------------------------------------------------------------------------
(* The script: in a request callback, or later with the objects it kept.    *)

\* PHP code can run: in a callback, or once the read is over.
InUser == fault = "none" /\ phase \in {"callback", "ended"}

\* laure_conn_send_raw that forgets to look at the state.
SendRaw_Unguarded(item) ==
    IF item.kind = "raw" /\ item.len = 0 THEN UNCHANGED out ELSE out' = Append(out, item)

\* laure_conn_send_raw.
SendRaw(item) ==
    IF state = "CLOSE" \/ (item.kind = "raw" /\ item.len = 0) THEN UNCHANGED out
    ELSE out' = Append(out, item)

\* The script uses the i-th response object it was handed.
Uses(i) == InUser /\ i \in 1..Len(res) /\ Len(out) < MaxSends

Response(i, len) == [res |-> seen[i].n, kind |-> "response", len |-> len]

\* do_end without its test of ended.
DoEnd_Again(i, len) ==
    /\ res' = [res EXCEPT ![i].ended = TRUE]
    /\ SendRaw(Response(i, len))

\* do_end.
DoEnd(i, len) ==
    IF res[i].ended THEN UNCHANGED <<res, out>>
    ELSE /\ res' = [res EXCEPT ![i].ended = TRUE]
         /\ SendRaw(Response(i, len))

\* HttpResponse::end.
End(i, len) ==
    /\ Uses(i)
    /\ DoEnd(i, len)
    /\ UNCHANGED <<connVars, phase, calls, parseVars, seen, fault>>

\* HttpResponse::json, unless the encoder throws.
Json(i, len) ==
    /\ Uses(i)
    /\ ~res[i].ended
    /\ DoEnd(i, len)
    /\ UNCHANGED <<connVars, phase, calls, parseVars, seen, fault>>

\* HttpResponse::redirect.
Redirect(i) ==
    /\ Uses(i)
    /\ DoEnd(i, 0)
    /\ UNCHANGED <<connVars, phase, calls, parseVars, seen, fault>>

\* write() that does not remember that it sent the headers.
Write_ForgetsHeaders(i, len) ==
    /\ Uses(i)
    /\ ~res[i].ended
    /\ SendRaw(Response(i, len))
    /\ UNCHANGED <<connVars, phase, calls, parseVars, seen, res, fault>>

\* HttpResponse::write: the first piece is the body of a complete response, the
\* others are sent as they are.
Write(i, len) ==
    /\ Uses(i)
    /\ ~res[i].ended
    /\ IF ~res[i].headerSent
       THEN /\ res' = [res EXCEPT ![i].headerSent = TRUE]
            /\ SendRaw(Response(i, len))
       ELSE /\ UNCHANGED res
            /\ SendRaw([res |-> seen[i].n, kind |-> "raw", len |-> len])
    /\ UNCHANGED <<connVars, phase, calls, parseVars, seen, fault>>

\* Connection::close, on the object the connect callback was handed.
Close ==
    /\ InUser
    /\ LaureConnClose
    /\ UNCHANGED <<phase, calls, parseVars, seen, res, out, fault>>

\* HttpRequest::getHeaders: laure_strmap_to_array adds each header to a return
\* value that is an array only if the request has no map at all.
GetHeaders ==
    /\ InUser
    /\ \E i \in 1..Len(seen) : seen[i].headers # {}
    /\ fault' = "null_array"
    /\ UNCHANGED <<connVars, phase, calls, parseVars, seen, res, out>>

-----------------------------------------------------------------------------
(* The specification. *)

Init ==
    /\ state = "HTTP" /\ phase = "start"
    /\ calls \in BOOLEAN
    /\ n = 0 /\ bufs = NewBuffers /\ keepAlive = FALSE /\ sent = <<>>
    /\ pieces = [k \in 1..MaxRequests |-> 0]
    /\ seen = <<>> /\ res = <<>>
    /\ out = <<>> /\ closing = FALSE
    /\ fault = "none"

Parser ==
    \/ RequestLine \/ HeadersComplete \/ Body \/ LastChunk \/ MessageComplete
    \/ RepeatedField
    \/ \E name \in Names : HeaderField(name)
    \/ \E v \in Values \cup {Empty} : HeaderValue(v)
    \/ ReadEnds

Script ==
    \/ ReturnRequest \/ Close \/ GetHeaders
    \/ \E i \in 1..Len(res) : \/ Redirect(i)
                              \/ \E len \in Lens : End(i, len) \/ Json(i, len) \/ Write(i, len)

\* The read is over, or the process crashed.
Terminated == (phase = "ended" \/ fault # "none") /\ UNCHANGED vars

Next == Parser \/ Script \/ Terminated

Spec == Init /\ [][Next]_vars

-----------------------------------------------------------------------------
(* Properties. *)

LinesIn(lines) == {lines[i] : i \in 1..Len(lines)}
TrailersBefore(k) == IF k = 1 THEN {} ELSE LinesIn(sent[k - 1].trailers)

\* Request k is free of what confuses cb_header_field: headers with no value,
\* and trailers, which go the way of headers, the last one to the next request.
Plain(k) ==
    /\ \A line \in LinesIn(sent[k].headers) : line.val # Empty
    /\ sent[k].trailers = <<>>
    /\ TrailersBefore(k) = {}

LinesFrom(k) == LinesIn(sent[k].headers) \cup LinesIn(sent[k].trailers)

\* The headers that the lines hs of request k are, the last line of each name.
HeadersOf(hs, k) ==
    {<<<<hs[i].name>>, <<<<k, hs[i].val>>>>>> :
        i \in {j \in 1..Len(hs) : \A m \in (j + 1)..Len(hs) : hs[m].name # hs[j].name}}

HeadersSent(k) == HeadersOf(sent[k].headers, k)

\* The script sees exactly the headers a request was sent with, however many
\* requests of the same connection came before, if none of its headers has an
\* empty value and neither it nor the request before had trailers
\* (http_server.c:43).
HeadersExact ==
    \A i \in 1..Len(seen) :
        Plain(seen[i].n) => seen[i].headers = HeadersSent(seen[i].n)

\* ... and in any case no name and no value of an earlier request, but for the
\* trailers of the one just before it.
HeadersOwn ==
    \A i \in 1..Len(seen) : LET k == seen[i].n IN
        \A h \in seen[i].headers :
            /\ \A j \in 1..Len(h[1]) : \E line \in LinesFrom(k) \cup TrailersBefore(k) :
                   line.name = h[1][j]
            /\ \A j \in 1..Len(h[2]) :
                   \/ h[2][j][1] = k
                   \/ /\ h[2][j][1] = k - 1
                      /\ \E line \in TrailersBefore(k) : line.val = h[2][j][2]

\* The body of request k, as it was sent.
BodySent(k) == [j \in 1..pieces[k] |-> <<k, j>>]

\* Each request is handed to the script once, in order, with its own URL and
\* its own body: every piece of it that cb_body was called for, in order, also
\* when trailers came behind it, and nothing left of another's.
RequestsWhole ==
    \A i \in 1..Len(seen) :
        /\ seen[i].url = <<seen[i].n>>
        /\ seen[i].body = BodySent(seen[i].n)
        /\ i > 1 => seen[i].n > seen[i - 1].n

\* strdup is given no value only while the connection has never received a
\* value (http_server.c:77), memory goes back to the wrong allocator only for a
\* request whose content type is a form's (map.h:85, util.c:91).  getHeaders may
\* be called for a request without a line only, and with no trailer before it.
KnownHttpFaults ==
    /\ fault = "null_value" =>
          \A k \in 1..n : \A line \in LinesFrom(k) :
              line.val = Empty
    /\ fault = "bad_free" =>
          \E line \in LinesFrom(n) \cup TrailersBefore(n) : line.val \in Form
    /\ fault = "null_array" =>
          \E k \in 1..n : LinesFrom(k) \cup TrailersBefore(k) # {}

\* Nothing is written to a handle that is being closed.  The state alone does
\* not say that: a request to upgrade that comes in the same read as one whose
\* callback closed the connection sets it to WS_HAND again (http_server.c:86).
NoSendWhileClosing == [][closing => out' = out]_vars

\* Where in what was sent stands what was sent for the i-th response.
SentFor(i, items) == {k \in 1..Len(items) : items[k].res = seen[i].n}

\* A response that has ended sends nothing more, whatever the script calls on it
\* and on the responses of other requests, of this read or kept.
EndIsLast ==
    [][\A i \in 1..Len(res) : res[i].ended => SentFor(i, out') = SentFor(i, out)]_vars

\* A request is answered by one complete response, and not before end(), json()
\* or redirect(), unless the script used write(), after which end() sends a
\* second one (http_server.c:424).
AnsweredOnce ==
    \A i \in 1..Len(res) : ~res[i].headerSent =>
        /\ \A j, k \in SentFor(i, out) : j = k
        /\ ~res[i].ended => SentFor(i, out) = {}

\* Responses belong to requests in the order they came, the last one to the
\* request that the parser is at only once it is complete.
InOrder ==
    /\ Len(seen) = Len(res)
    /\ phase \notin {"start", "ended"} => n > 0
    /\ \A i, j \in 1..Len(seen) : i < j => seen[i].n < seen[j].n
    /\ \A i \in 1..Len(seen) :
          /\ seen[i].n <= n
          /\ seen[i].n = n => phase \in {"callback", "start", "stopped", "ended"}

\* What was sent was sent for a request that the script has seen.
SentForSeen == \A k \in 1..Len(out) : \E i \in 1..Len(seen) : out[k].res = seen[i].n

\* No script runs between the upgrade of a closed connection and the end of the
\* read, which closes it again.
ClosedWhileClosing == closing => state = "CLOSE" \/ phase = "stopped"

\* The inductive invariant.
HttpInv == TypeOK /\ InOrder /\ SentForSeen /\ ClosedWhileClosing /\ AnsweredOnce

-----------------------------------------------------------------------------
(* The inductive invariant behind the properties of the requests.           *)

\* A line of request k, or a trailer left over, has this name; has this value.
OwnName(x, k) == \E line \in LinesFrom(k) \cup TrailersBefore(k) : line.name = x
OwnValue(v, k) ==
    \/ v[1] = k /\ \E line \in LinesFrom(k) : line.val = v[2]
    \/ v[1] = k - 1 /\ \E line \in TrailersBefore(k) : line.val = v[2]
OwnLine(f, v, k) ==
    /\ \A j \in 1..Len(f) : OwnName(f[j], k)
    /\ \A j \in 1..Len(v) : OwnValue(v[j], k)
OwnMap(m, k) == \A h \in m : h[1] # <<>> /\ OwnLine(h[1], h[2], k)

\* Name and value are of trailers of request k.
OfTrailers(f, v, k) ==
    /\ \A j \in 1..Len(f) : \E line \in LinesIn(sent[k].trailers) : line.name = f[j]
    /\ \A j \in 1..Len(v) :
          v[j][1] = k /\ \E line \in LinesIn(sent[k].trailers) : line.val = v[j][2]

Front(lines) == SubSeq(lines, 1, Len(lines) - 1)
Valued(lines) == \A line \in LinesIn(lines) : line.val # Empty

\* The line that llhttp is at has no value yet; trailers come after the body.
LinesOK ==
    /\ Len(sent) = n
    /\ phase = "value" => /\ sent[n].headers # <<>>
                          /\ sent[n].headers[Len(sent[n].headers)].val = Empty
    /\ phase = "trailer_value" => /\ sent[n].trailers # <<>>
                                  /\ sent[n].trailers[Len(sent[n].trailers)].val = Empty
    /\ phase \in {"headers", "value", "body"} => sent[n].trailers = <<>>

\* Whose the bytes in the buffers are: of the request being parsed, or, when its
\* headers are done, the line in the buffers is a trailer; between requests
\* nothing else is left.  A value never comes without a name.
BuffersOwn ==
    /\ phase \in {"headers", "value", "body", "trailers", "trailer_value", "callback"} =>
          /\ bufs.url = <<n>> /\ bufs.body = BodySent(n)
          /\ OwnMap(bufs.map, n)
    /\ phase \in {"headers", "value"} => OwnLine(bufs.field, bufs.value, n)
    /\ phase \in {"body", "trailers", "trailer_value", "callback"} =>
          OfTrailers(bufs.field, bufs.value, n)
    /\ phase = "start" =>
          /\ bufs.url = <<>> /\ bufs.body = <<>> /\ bufs.map = {}
          /\ IF n = 0 THEN bufs.field = <<>> /\ bufs.value = <<>>
             ELSE OfTrailers(bufs.field, bufs.value, n)
    /\ \A k \in (n + 1)..MaxRequests : pieces[k] = 0
    /\ bufs.field = <<>> => bufs.value = <<>> /\ phase \notin {"value", "trailer_value"}
    /\ ~bufs.data => \A k \in 1..n : \A line \in LinesFrom(k) : line.val = Empty

\* A request whose lines so far all have values, after one with no trailers: the
\* map has them all but the last, which is in the buffers.
BuffersExact ==
    /\ phase \in {"headers", "value"} /\ TrailersBefore(n) = {} =>
          LET hs == sent[n].headers IN
          Valued(IF phase = "value" THEN Front(hs) ELSE hs) =>
             /\ bufs.map = HeadersOf(Front(hs), n)
             /\ bufs.field = IF hs = <<>> THEN <<>> ELSE <<hs[Len(hs)].name>>
             /\ bufs.value = IF hs = <<>> \/ phase = "value" THEN <<>>
                             ELSE <<<<n, hs[Len(hs)].val>>>>
    /\ phase \in {"body", "trailers", "trailer_value", "callback"} /\ Plain(n) =>
          bufs.map = HeadersSent(n)

\* What the script was given is what the buffers held.
SeenOwn == \A i \in 1..Len(seen) : OwnMap(seen[i].headers, seen[i].n)

ParseInv ==
    /\ fault = "none" => LinesOK /\ BuffersOwn /\ BuffersExact
    /\ SeenOwn /\ HeadersExact /\ RequestsWhole /\ KnownHttpFaults

-----------------------------------------------------------------------------
(* What llhttp.h says, and the code does not do. *)

\* llhttp.h says that llhttp_execute returns HPE_PAUSED_UPGRADE when
\* on_headers_complete returns 2; dispatch_plain waits for that to do the
\* WebSocket handshake.  So a request to upgrade should not end in a close.
UpgradeKept == [][state = "WS_HAND" => state' # "CLOSE"]_vars

\* llhttp_should_keep_alive is 1 if other messages may follow, and every
\* response says "Connection: keep-alive" (http_server.c:147).  So the end of a
\* read with nothing but complete, keep-alive requests should not close.
KeepAliveKept ==
    [][phase = "start" /\ n > 0 /\ keepAlive /\ state = "HTTP" => state' # "CLOSE"]_vars

=============================================================================
