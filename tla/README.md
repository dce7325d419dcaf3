# A TLA+ model of laure

laure is a PHP extension: TCP and HTTP servers written in C over libuv and
llhttp, whose connections, requests and events a PHP script handles with
callbacks. This directory models what makes such an extension hard: one C
stack on which the libuv loop, the C handlers and the PHP callbacks call each
other, re-entrantly, while connections are being closed and freed.

## The system

| Part | Source (under `src/src`) | State | Operations |
|---|---|---|---|
| connection | `net/conn.c` | `laure_conn_t`: state, handle, read buffer, PHP object | accept, read, dispatch, send, close, free |
| server | `net/server.c`, `net/tcp_server.c` | `laure_server_t`: loop, listener, signals, tick timer, callbacks | construct, `on`, `start`, `stop`, signals, destroy |
| HTTP session | `net/http_server.c` | parser, header buffers, request and response objects | llhttp callbacks, dispatch, `status`, `header`, `write`, `end`, `json`, `redirect` |
| WebSocket frames | `net/websocket.c` | fragments, frame buffer | handshake, send, receive, close |
| heartbeat | `net/heartbeat.c` | one timer per connection | start, stop, timer, reset |
| callbacks | `utils/util.c` | none | `laure_zval_cb` |
| byte buffers | `utils/string.h` | length, capacity | append, reset, consume |
| string maps | `utils/map.h`, `khash.h` | key and value pairs | set, get, clear |
| form decoding | `utils/util.c` | none | `laure_url_decode`, `laure_parse_qs` |
| libuv | external, the submodule is empty | handles, closing list, writes | `uv_run`, `uv_close`, `uv_walk`, ... |
| llhttp | `deps/llhttp`, vendored and generated | parser state | `llhttp_execute` |
| TLS, app shell, module entry | `net/tls.c`, `app/app.c`, `laure.c` | none | empty, unbuilt, registration |

How they interact. `start()` makes a loop and runs it, each time a new one. The loop calls
`laure_on_new_connection`, `on_read`, `on_write_done`, `on_handle_closed`,
`on_tick` and `on_signal`. These call PHP through `laure_zval_cb`; a callback may call `send`, `close`, `write`,
`end` on any object it was ever handed, `on`, `stop()`, which runs the same loop again
inside the callback, or `start()`, which makes another one. When the callback returns,
the C function that called it goes on with the connection it had. After an upgrade
`dispatch_plain` passes what is read to `laure_ws_on_data`, and a second handle in the
connection's memory, the heartbeat's timer, has callbacks of its own.

What is hard: calls in an order nobody tested (close inside a close callback,
stop inside a callback of a closing connection); memory freed by an inner loop
while an outer C function uses it; a handle on two closing lists, or none;
results that the code ignores (`uv_write`, `uv_accept`, `uv_loop_close`,
`uv_loop_init`); exceptions that stay pending while the loop goes on; loops that
never end. The code has no threads and nothing persistent, so there are no data
races and no crash recovery to model.

What makes each part correct:

- connection: used only while allocated, its handle closed once and finished
  once, freed once and eventually, silent after close, every chunk delivered once;
- server: `stop()` and signals end every loop; nesting is bounded; what is lost
  on the way is known;
- HTTP session: one response per request, header names and values paired, upgrade
  and keep-alive as documented;
- WebSocket: frames parse as they are built, messages reassemble, close is final;
- heartbeat: a live peer is never closed, a dead one is, no timer outlives its
  connection;
- server started again: every handle on the loop that runs it, no loop freed that is
  suspended further down the stack, nothing left open when the outermost call returns;
- buffers and decoding: equal to their mathematical definitions within bounds.

## Modules

| Module | What it is |
|---|---|
| `LaureLoop` | connections and server over one loop and one C stack: the core |
| `ConnLife` | what a script is promised about a connection; abstract, no code |
| `MCLaureLoop` | the instance for TLC, with its two `.cfg` files |
| `LaureLoop_proofs` | the core's inductive invariant and the theorems about memory, lists and nesting; `LaureLoop_life` those about what a connection is given, and that the core implements `ConnLife` |
| `LaureHttp` | one HTTP connection: llhttp's callbacks, request and response objects; `LaureHttp_proofs` its theorems, about answers and about what is parsed |
| `FormDecode` | the fields of a form, byte by byte; `FormDecode_proofs` its theorems |
| `LaureWs` | one WebSocket connection with its heartbeat: frames, callbacks, the closing of its two handles; `LaureWs_proofs` its theorems |
| `WsChannel` | what a script is promised of a peer's messages; abstract, no code |
| `WsFrames` | the bytes of frames, as `laure_ws_on_data` reads them from pieces and `build_frame` makes them; `MCWsFrames` the instance for TLC, `WsFrames_proofs` its theorems |
| `LaureRestart` | the loops of one server that is started more than once; `LaureRestart_proofs` its theorems |
| `StrBuf` | `laure_buf_t`; `ByteQueue` what it promises, `MCStrBuf` the instance for TLC, `StrBuf_proofs` its theorems |

`LaureLoop` treats what a connection reads as opaque chunks and requests; the other
modules open them up, one connection, one body and one buffer at a time. They share
no variables with it, and the places where they meet are named: a request is
dispatched by `MessageComplete` here and `ReadHttp`/`ReturnRequest` there, and both
modules have the whole of `laure_conn_close`. `LaureWs` begins where `LaureHttp`'s
connection is in state `WS_HAND` with the parser paused, and takes from `WsFrames` that
frames arrive whole. `LaureRestart` has the several loops that `LaureLoop` leaves out
and reduces a connection to a handle: `Stop`, `Accept`, `TakeClosing` and `Finish` are
the actions of those names (or `PhpStop`, `FinishWalked`, `OnHandleClosed`) there.

### How LaureLoop corresponds to the code

The variable `stack` is the C stack, reduced to the frames that are suspended in
a PHP callback or are `uv_run` itself. A step is one handler up to the next
callback, or from a callback's return to the end of the handler (or to the next
callback). This is exact, not a choice of granularity: between those points the
process runs straight-line C. So `Accept` is `laure_conn_accept` up to the
connect callback and `ReturnConnect` is the rest, `uv_read_start`;
`ReadTcp`/`ReturnReceive` divide `dispatch_plain`; `ReadHttp`/`ReturnRequest` divide
`llhttp_execute` with `laure_http_dispatch` in it, once per pipelined request;
`OnHandleClosed`/`ReturnClose` divide `on_handle_closed`. A `Frame` remembers the
connection its function goes on to use, the requests still to parse (`n`), and
for `uv_run` the closing handles it has taken off the loop's list and not yet
finished (`q`).

`conn[c]` holds of `laure_conn_t` what control depends on. `mem` says whether the
structure is allocated; `handle` and `closeCb` are libuv's view of the handle;
`reading`, `pend`, `orphan` count reads and writes that libuv owns or refused;
`rcvd`, `held`, `dlvd` count chunks that `rbuf` had memory for, that are in it, and that
were handed to PHP: `laure_buf_append`, whose result conn.c:104 ignores, may fail at any
read, which loses that chunk and goes on, callback included. `closing`
is `loop->closing_handles`; `srvh` the server's own four handles, which are
opened and closed together; `cbs` the registered events; `exc` the pending PHP
exception; `objs` the PHP objects that the script was handed and may have kept.

`fault` records undefined behaviour of C, at which the model stops:

| fault | Cause |
|---|---|
| `resume` | `stop()` was called in a connect, receive or request callback after that connection was closed; the nested loop freed it; the C function goes on with it |
| `object` | the script uses an object whose connection was freed |
| `uv_closing` | `uv_accept` failed and `laure_conn_accept` freed the memory of a handle still being closed |
| `raw_loop` | `uv_loop_init` failed and `srv->loop` is used anyway |
| `double_free`, `loop_busy` | never reached; see `KnownFaults` |

The model keeps these as they are in the code and `KnownFaults` says when each of them
happens: the first and third in `MemoryFaults`, what the script does to its objects
and its server in `ScriptFaults`.

Two branches of the code are left out because nothing reaches them. The `else` of
`on_read` (conn.c:154-156), which would pass the address of a local variable to
`on_handle_closed`, needs a read on a closing handle, and libuv stops reading in
`uv_close`. The WebSocket states need `laure_ws_handshake`, which
`dispatch_plain` calls only when `llhttp_execute` answers `HPE_PAUSED_UPGRADE`;
`cb_headers_complete` asks for that with a return value that llhttp takes for an
error (it documents 0, 1 and 2), so the connection is closed instead. For the
same reason (conn.c:127) a read that parses without error closes its connection
too, and an HTTP connection never has a second read; `OneReadPerHttp` states it.

Environment of `LaureLoop`. `Accept`, `Read*`, `WriteDone`, `OnTick`, `OnSignal` may happen at any
poll. `uv__run_closing_handles` is modelled with its list taken first
(`TakeClosing`) and then finished handle by handle (`FinishWalked`,
`OnHandleClosed`), in any order: libuv's order is last closed first, and the
properties hold for every order. Finishing a stream cancels its writes. A loop is
alive while a handle is active, a write is under way or a handle is closing.

### How LaureHttp corresponds to the code

The parser is external: `phase` is where `llhttp_execute` is in its grammar, and each
step is one callback of `http_server.c` with the name or value that llhttp chose to
give it: any header, a trailer after a chunked body (llhttp calls the header
callbacks for trailers, too, and not `on_headers_complete`), a piece of a body. A
parse error may come anywhere, and is `ReadEnds` like the end of the bytes: in either
case `dispatch_plain` closes the connection. An append of these callbacks that finds no
memory makes them answer -1, which is such an error. `pieces` (a history) counts the pieces
of body that `cb_body` was called for.

`bufs` holds the `laure_buf_t`s and the header map of the connection. A value is
tagged with the request it came with, so that the properties can tell a header of
this request from one left over; `data` says whether the value buffer was ever
allocated, because a buffer that was is an empty C string after a reset and one that
was not is a NULL. `AddField` and `StoreHeader` keep the joining of names
that the code does when a value is empty. `MessageComplete` ends in the script's
callback (`phase = "callback"`), `ReturnRequest` is what follows it, `Dispatched` being
shared with the case that no callback is called. The script may use any response it
was ever handed (`Uses`), during a callback or after the read.

A response is `header_sent` and `ended`; what `status()` and `header()` set is wording
and left out. `out` is what was given to `uv_write`: a complete response built by
`laure_http_build_response`, or raw bytes. `seen` and `sent` are histories for the
properties: what the script was given, and what was sent.

| fault | Cause |
|---|---|
| `null_value` | the first value of the connection is empty, and `strdup` (http_server.c:78, map.h:30) is given the data of a buffer never written |
| `null_array` | `getHeaders` of a request with headers: `laure_strmap_to_array` adds them to a `return_value` that nobody made an array (http_server.c:315) |
| `bad_free` | a form value, allocated by `emalloc` (util.c:91), is freed by `free()` with its request or when the field comes again (map.h:45, map.h:85) |

`bad_free` is the freeing of a request object the script did not keep; the later
freeing of one it did keep is not a step of the model. Its allocation is a choice,
`fields`, as a body of type form may hold no field with a name.

### How FormDecode corresponds to the code

`body` is `http_body` with its length; `Copy` is what `estrdup` makes of it, up to the
first NUL. `ParseField` is one turn of the loop of `laure_parse_qs`, `p` its pointer.
`UrlDecode` is the loop of `laure_url_decode` as a function of the place in the input.
`Field` has the code's own expression for a value, decoded from `p` and not
from behind the `=` (util.c:91); no document of the repository says what `post()`
should return, so this is stated in `ValuesOwn` as it is and not listed as a finding.
`ParsePast` (fault `read_past`) is a `memchr` past the copy. `GetBody` is
`Request::getBody`, which reads the same copy with the same length (http_server.c:306),
and may be called of any body.

### How LaureWs corresponds to the code

No script reaches a WebSocket connection today (first finding), and no class makes a
server of type `LAURE_SERVER_WS`; the module says what the code does from the call of
`laure_ws_handshake` on, so that it holds when the way there is opened.

`conn` holds of `laure_conn_t` the state, the stream's handle (`tcp`), the heartbeat's
(`timer`: `idle` is a timer that expired and was not set again), `hb_waiting_pong`, the
fragments, and `first`, which of the two closing handles libuv finishes first: the one
closed last. `ctl` says which C function is suspended in a callback. `in` is every frame
that arrived, `done` how many were taken off `rbuf`; a payload is its frame's number.
`Read` is `dispatch_plain` up to the loop of `laure_ws_on_data`; `OnDataFrame`, ... are one
turn of that loop up to its callback, `ReturnFrame` what follows the callback. `EndWith`
is `laure_ws_close` and `laure_conn_close`, which the peer's close frame, the two protocol
errors and the heartbeat share. `HbTimerCb` is `hb_timer_cb`. `FinishTcp` and
`ReturnClose` divide `on_handle_closed`. `cause` (a history) is what closed the connection.

| fault | Cause |
|---|---|
| `hang` | bytes follow the request to upgrade: their length is computed as `data - len - rest` (conn.c:125), and the doubling in `laure_buf_append` never ends |
| `stale_rest` | a handshake without a key was refused, the connection left open, and the next read takes the parser's error position in a buffer that was freed (conn.c:122) |
| `freed_timer` | libuv meets the timer in the memory that `on_handle_closed` freed: `laure_conn_close` does not stop the heartbeat |

### How WsFrames corresponds to the code

`wire` is the peer's bytes, of frames in any form RFC 6455 has for a length; reads cut it
anywhere. `Plen`, `Hlen`, `KeyOf`, `Frame` are the local variables `plen`, `hlen`, `mk` and
`op`, `fin`, of which `Wait`, `Refuse` and `Take` are the three ways through one turn of the
loop. `BuildFrame` is `build_frame`, `CloseBody` what a close frame is answered with (code,
and reason as a C string). A byte other than the first of a frame is a digit of `Base`, 8 in
the run where the code has 256: the limits 126, 127 and 65536 become 2, 3 and 64, the mask
bit 4, and each comparison and shift is kept. `ByteXor` is the exclusive or of a byte and a byte of
the mask: a constant, so that the module can be proved about; TLC is given `^^` of `Bitwise`.
The length of eight bytes is written least significant byte first (websocket.c:91) and read
most significant first; laure itself builds such a frame only as a pong of 65536 bytes or
more, or as a close frame that repeats a reason of that length, and `AnswersExact` says
what the peer sees of it.

### How LaureRestart corresponds to the code

`mem` is the memory of each loop that a `start()` allocated, `cur` is `srv->loop`, `hand` says
of each handle where it is in its life and which loop it is on; the server's own four are
one, as they are opened and closed together. `stack` has the `uv_run`s, each with its loop,
and the callbacks between them. `Start`, `StartFails` and `LoopInitFails` are the three ways
out of `laure_server_start`. `Accept` is `laure_conn_accept`, which puts the handle on
`srv->loop` and not on the loop that called it. A callback may do anything a script may;
what it is a callback of is left to `LaureLoop`.

| fault | Cause |
|---|---|
| `reinit` | `start()` in a callback while the server's handles are open or closing: `uv_signal_init`, `uv_timer_init` and `uv_tcp_init` overwrite them |
| `raw_loop` | as in `LaureLoop` |
| `loop_busy` | never reached; see `KnownRestartFaults` |

### How StrBuf corresponds to the code

`cells` is the allocated memory, its length the capacity, its bytes whatever
`malloc` left there; `len` is `b->len`. Each operation of `string.h` is an action.
Capacity is doubled as the loop does it: `NewCap` names the result (the least double
of `FirstGuess` that is enough) in place of the loop. An append may fail for want of
memory (`AppendNothing`), at any time. Integers are not given a width: a length near
2^63 cannot be reached by a process.

## Runs

| Run | Instance | What it shows |
|---|---|---|
| `tcp` | 2 connections, 2 chunks each that found memory, 1 write under way, connect/receive/close events | `LifeInv`, `FrameSafe`, `LeaksOnlyByWalk`, `ChunksOnce`, `HangOnlyInClose`, `CloseIsFinal`; that the model implements `ConnLife` (`KeepsConnLife`) |
| `http` | 2 connections, 2 pipelined requests per read, connect/request/close/tick events, `FairSpec` | `KnownFaults` through `llhttp_execute`, `OneReadPerHttp`; liveness: `ClosedIsFreed`, `ShutdownCompletes` |
| `http_parse` | 2 pipelined requests, 2 header or trailer lines and 2 pieces of body each, 2 names, 2 values and the empty one | `HeadersExact`, `HeadersOwn`, `RequestsWhole`, `KnownHttpFaults` |
| `http_answer` | 2 requests, 1 header and 1 piece of body each, 3 sends of length 0 or 1 | `AnsweredOnce`, `EndIsLast`, `NoSendWhileClosing` |
| `upgrade` | 1 request | `UpgradeKept` is violated: first finding |
| `keepalive` | 1 request | `KeepAliveKept` is violated: second finding |
| `form` | all bodies of at most 5 bytes out of NUL, space, `%`, `&`, `+`, `0`, `=` | `DecodeExact`, `FieldsExact`, `BodyExact`, `KnownReadPast` |
| `strbuf` | 2 bytes, first capacity 2, pieces of up to 4 bytes, contents of up to 8 | `InBounds`, `NulTerminated`; that a buffer implements `ByteQueue` (`KeepsQueue`) |
| `ws_any` | any 3 frames of 7 kinds, 2 reads, all events | the safety properties of `LaureWs` |
| `ws_legal` | 4 frames of text, fragments, ping, close in legal order, 2 reads, `FairSpec` | that `LaureWs` implements `WsChannel` (`KeepsChannel`); liveness: `SilentPeerEnds` |
| `ws_frames` | 1 or 2 frames of 16, base 8, frames of up to 68 bytes and one of 88, reads of up to 16 bytes or all | `FramesExact`, `AnswersExact` |
| `restart` | 3 loops, 2 connections | `SuspendedKept`, `IdleClean`, `OwnLoop`, `KnownRestartFaults` |

A property that a theorem states for every instance is not run a second time where
another run or the theorem has it: `QueuedOnce`, `NestingBounded`, `CapBounded`,
`OldLoopsLeak` and the inductive invariants other than that of the core are proved only.

The runs of `LaureLoop` start from any subset of the events registered, and `on` may register the
others at any time, including inside callbacks.

Properties of the core:

- `LifeInv`: the inductive invariants `IInv` and `Untouched` together, see below;
  `TypeOK` is part of them.
- `KnownFaults`: each undefined behaviour has the cause named above. A frame resumes on
  freed memory only after a `stop()` that found its connection closing; the loop meets a
  dangling handle only after a failed `uv_accept`; PHP meets a freed connection only in an
  object of one that `on_handle_closed` freed, never of one that was refused; and a refused
  loop is used only after `start()` threw and returned to the script. (In `LaureRestart` a
  callback may do that too, which `KnownRestartFaults` is about.)
- `FrameSafe`: a suspended C function finds its connection allocated, unless
  `stop()` was called under it when the connection was closing already.
- `QueuedOnce` (proved): a closing handle is on exactly one list, of the loop or of one
  `uv_run`.
- `LeaksOnlyByWalk`: connections and writes are lost only when `walk_close_all`
  closed the connection (which it does with no callback, server.c:89).
- `ChunksOnce`: chunks that `rbuf` had memory for go to the receive callback once and in
  order, also when others between them found none; one is lost only to an uncaught
  exception. The chunks a callback was handed stay in `rbuf` until it
  returns.
- `HangOnlyInClose`: the loop can wait for ever only in a `stop()` called by a close
  callback, while another connection of the same list has a write under way.
- `NestingBounded` (proved): at most five frames, because the first nested `stop()` leaves
  nothing open that could call more than close callbacks.
- `OneReadPerHttp`: an HTTP connection never has a second read, see above.
- `CloseIsFinal` (action property): nothing is started for, or written to, a closed
  connection.
- `ClosedIsFreed`, `ShutdownCompletes`: liveness, up to a fault or the hang above.
- `KeepsConnLife`: refinement. `ConnLife` has only where each connection is in its
  life and what it was given; `LifeOf` maps the C state to it.

Properties of the HTTP session:

- `HeadersExact`: a request without empty values, with no trailers on it or on the
  request before, has exactly the headers it was sent with, the last one of a name.
- `HeadersOwn`: in any case no name and no value of an earlier request, but for the
  trailers of the one just before (the last trailer stays in the buffers when the
  map is cleared).
- `RequestsWhole`: each request comes once, in order, with its own URL and all of its own
  body: each piece that `cb_body` was called for, in order, and nothing of another's. A
  reset of the body too early (at a trailer, say) or too late breaks it.
- `KnownHttpFaults`: each undefined behaviour has the cause in the table above.
- `AnsweredOnce`: without `write()`, a request gets at most one complete response,
  and none before the script ends it. With `write()`, `end()` sends a second one.
- `EndIsLast` (action property): an ended response sends nothing more.
- `NoSendWhileClosing` (action property): nothing is written to a closing handle. The
  test of `laure_conn_send_raw` does not give this by itself: a request to upgrade in
  the same read takes the state from `CLOSE` back to `WS_HAND` while the handle is
  closing. What gives it is that no script runs from there to the end of the read
  (`ClosedWhileClosing`).
- `UpgradeKept`, `KeepAliveKept`: what `llhttp.h` says, and the code does not do.

Properties of forms: `DecodeExact` (the loop against a definition without one, also
for malformed escapes, and against an encoder), `FieldsExact` (the names of the form,
and for each bytes of its own last field), `BodyExact` (a body that getBody returned from
within its copy is the body as it came, and had no NUL inside: of one that has, the code
returns bytes from behind the copy, where the model stops), `KnownReadPast` (that
happens to no other body). Of buffers: `InBounds`, `NulTerminated`,
`CapBounded` (proved), and `KeepsQueue`, the refinement of `ByteQueue`.

Properties of a WebSocket connection:

- `PartsOnce`: each frame's payload goes into one message at most, in order, and none is
  lost, whatever the order of frames and whatever the callbacks do. This holds of an
  illegal peer too, whose messages are then not the ones it meant.
- `KeepsChannel`: refinement. A legal peer's messages come whole, once each and in order
  (of the parts of one message, `PartsOnce` has the order).
- `CloseFrameOnce`, `CloseAnswered`: one close frame at most, with only pongs behind it;
  and not none when the peer, an error or the heartbeat ends the connection.
- `PingsAnswered`: in order, once each, also between `wsClose` and the peer's answer.
- `LivePeerKept`: the heartbeat closes no connection that something was read from since
  its ping. `SilentPeerEnds` is the other half, liveness: a silent peer is found out, but
  for one refused by the handshake and one that `wsClose` was called for, whose timer
  stops at its next expiry (heartbeat.c:9).
- `TimerEnds`: where the timer is when the connection ends. After the heartbeat's own
  timeout it is left idle and never closed. After an end of file it is closed before the
  stream, so libuv finishes the stream first, whose callback frees the memory of both.
  It leaves nothing behind only when it had stopped itself before, after `wsClose`.
- `ClosedIsSilent` (action property): a closed connection stays closed, and nothing is read
  from it or written to it, though frames that were in `rbuf` are still handled. Its timer
  is started, though: `laure_ws_handshake` does that after the open callback
  without looking at the state (websocket.c:65), so a script that closes in that callback
  always leaves an armed timer in memory about to be freed. The property says that
  this is the one step that starts it, and that it always does.
- `FramesExact` (of `WsFrames`): wherever the reads cut, the frames handled are those sent
  in full, and one announced as too large is refused as soon as its length is read.
- `AnswersExact`: the peer reads the pongs and the close frame as they were meant, but for
  those of 65536 bytes or more, whose length is announced as larger than any it would take.

Properties of a server started again:

- `SuspendedKept`: every `uv_run` on the C stack has a loop that was not freed. What
  keeps it so is the leak that `OldLoopsLeak` (action property, proved) states: `start()` neither
  closes nor frees the loop it replaces, which may be running.
- `IdleClean`: when the outermost `start()` or `stop()` has returned, no handle is open or
  closing, on any loop.
- `OwnLoop`: a connection is put on its listener's loop although the code takes
  `srv->loop`, except after a `start()` that `uv_loop_init` refused.
- `KnownRestartFaults`: the causes in the table above, and no loop closed with handles.

Bounds. `Conns` (two: every property speaks of one connection, or of one that
disturbs another; the proofs remove the bound), `MaxReads` chunks (two: one
buffered, one delivered), `MaxPend` writes (one: what matters is none or some),
`MaxPipeline` requests (two: one dispatched, one to come), `MaxPieces` of a body (two in
`http_parse`, so that order and loss show; one where no property is about them). The depth of the stack
is not bounded by the model but by `NestingBounded`. Connections are
interchangeable and `tcp` uses symmetry; `http` does not, since symmetry
and liveness do not go together. For the HTTP session two requests are enough, since
every property speaks of a request and an earlier one, and two header lines are a
header that is stored by the next and one stored at the end. Five bytes of a form
hold two fields, one with a value, or an escape and two bytes around it. A buffer of
first capacity 2 grows twice on the way to 8 bytes, and a piece of 4 makes it double
more than once at a time. Three frames are a message in two
fragments and one frame between, before or behind; four, for a legal peer, a message and
a half more; two reads are one before and one after a ping of the heartbeat. Two frames
of bytes are enough to be cut between and joined. Three loops are one that runs, one
nested in it, and one more that fails or is made after. A run that is over (fault, hang, server
destroyed) stutters in `Terminated`, so deadlock is checked everywhere else.

Fairness. `WF` of `Finish` and `ExitRun`: `uv_run` finishes the list it took and ends
when nothing is alive. `SF` of `TakeClosing`: each iteration of `uv_run` runs the
closing handles, however many events its poll delivers between. `SF` of `Return`:
a PHP callback returns, though it may call into the extension many times first.
No fairness is assumed of clients, of completion of writes, or of the script.
In `LaureWs`: `WF` of `TakeFrame` (the loop over `rbuf` is straight C code) and of `Return`;
`SF` of `HbTimerCb` and of `Finish`, since every iteration of `uv_run` runs due timers and
closing handles, whatever else it polls. The timer of a peer that goes on sending
may be set back for ever; the bound on reads makes every peer fall silent, which is
the case `SilentPeerEnds` is about.

## Findings

Both are about what a comment of `llhttp.h` says, and both have the same effect, that a
connection never outlives its first read.

1. Upgrade. `cb_headers_complete` returns `HPE_PAUSED_UPGRADE` (http_server.c:87) for a
   request to upgrade. llhttp takes 0, 1, 2, -1 or `HPE_PAUSED` there, and 2 is what
   makes `llhttp_execute` return `HPE_PAUSED_UPGRADE`; the value 22 is an error to it. So
   the test at conn.c:121 fails and the connection is closed; `laure_ws_handshake` is
   never called. Run `upgrade`.
2. Keep-alive. `dispatch_plain` closes the connection on every result of
   `llhttp_execute` but that one (conn.c:128), `HPE_OK` included, although
   `http_keep_alive` was set and the response said `Connection: keep-alive`
   (http_server.c:147). Run `keepalive`.

## Proofs

`LaureLoop_proofs` proves, for any set of connections, any events, any bounds and
both server types, with the four named assumptions of `LaureLoop` on its constants:

| Theorem | Statement |
|---|---|
| `Invariant` | `Spec => []IInv` |
| `TypeCorrect` | `Spec => []TypeOK` |
| `OnlyKnownFaults` | `Spec => []KnownFaults` |
| `BoundedNesting` | `Spec => []NestingBounded` |
| `FramesAreSafe` | `Spec => []FrameSafe` |
| `QueuedOnlyOnce` | `Spec => []QueuedOnce` |
| `OnlyWalkLeaks` | `Spec => []LeaksOnlyByWalk` |
| `HangsOnlyInClose` | `Spec => []HangOnlyInClose` |
| `ClosedForGood` | `Spec => CloseIsFinal` |

The inductive invariant. None of these is inductive: whether a step keeps them
depends on which frames may lie under the running one. `IInv` says so directly.
`Shape`: the stack is a loop, a callback, a nested loop, a close callback, a last
loop, or a beginning of that. `Stopped`: once a loop is nested, nothing is open, and
once that loop has taken its list nothing is closing either, so it can only call
close callbacks and a third loop none. `Lists`: a handle is closing exactly when it
is on one of the three possible lists. `RecOK`: what the fields of one connection
say of each other. `Served`: which frames a connection in a given state has, and
that one freed under its frame is in `undercut`. `Ended`: a loop that returned left
nothing on the lists. It has `MemoryFaults` of `KnownFaults`; `ScriptFaults` comes on top of it
(`UseInv`) with what it rests on, `Given`: the connection of an object is allocated or was closed
by `laure_conn_close`, and a refused loop is in place only while nothing runs. The proof has a lemma per group of actions, one step per
action, one per conjunct the action can disturb; lemmas about `Append`, `SubSeq`
and `EXCEPT` on the stack carry the sequence reasoning. The theorems follow from
`IInv` (`OnlyKnownFaults` from `UseInv`); `ClosedForGood` checks each action under it.

`LaureLoop_life` goes on from there, under the same assumptions:

| Theorem | Statement |
|---|---|
| `LifeInvariant` | `Spec => []LifeInv` |
| `EachChunkOnce` | `Spec => []ChunksOnce` |
| `OneRead` | `Spec => []OneReadPerHttp` |
| `Refinement` | `Spec => KeepsConnLife` |

`ChunksOnce` says that what was received and kept is what was delivered and what is buffered, but for
chunks that are both while the receive callback of the connection is on the stack; `Served`
of `IInv` has there be at most one such frame. `Untouched` is what the
refinement needs besides: a connection never accepted was given nothing. The refinement has a
lemma per group of actions, which says to which one action of `ConnLife` the step maps,
or that it leaves `LifeOf` as it was; a step that finishes a connection while its frame
is suspended is the case that needs `Served`. Two alternatives of `LifeOf` overlapped
when it was a `CASE`, which TLC takes in order and the prover rightly refuses; it is
an `IF` chain now. Only model-checked: the two liveness properties (fairness and
`ENABLED` are beyond the prover).

`LaureHttp_proofs` proves, for any names, values, lengths and numbers of requests,
headers and sends, with the four named assumptions of `LaureHttp`:

| Theorem | Statement |
|---|---|
| `Invariant` | `Spec => []HttpInv` |
| `TypeCorrect` | `Spec => []TypeOK` |
| `OneAnswer` | `Spec => []AnsweredOnce` |
| `EndedIsSilent` | `Spec => EndIsLast` |
| `NeverSendsWhileClosing` | `Spec => NoSendWhileClosing` |

`AnsweredOnce` is about what was sent for the i-th response, and `out` names requests,
not responses. So `HttpInv` adds to it `InOrder` (responses belong to requests in
strictly rising order, so no two to the same, and a request the parser is still at
has none), `SentForSeen` (nothing was sent for a request not yet seen, so a new
response starts with nothing sent), and `ClosedWhileClosing`, from which the last
theorem follows. One lemma per action; `ResponseCall` is the common part of the
script's calls, and `OneSend` says that a step sends for one response that is not
ended, from which `EndedIsSilent` follows with `InOrder`.

What is parsed is the other half of the module, under the same assumptions:

| Theorem | Statement |
|---|---|
| `ParseInvariant` | `Spec => []ParseInv` |
| `HeadersAsSent` | `Spec => []HeadersExact` |
| `HeadersOfNoOther` | `Spec => []HeadersOwn` |
| `WholeRequests` | `Spec => []RequestsWhole` |
| `HttpFaultsKnown` | `Spec => []KnownHttpFaults` |

`ParseInv` says what the buffers and the map hold at each phase of the parser:
where a value that is not of this request can still be, and, of a request without empty
values or trailers, that the map has the lines that came but for the last one, which the
name and value buffers have; of the body, that its buffer has the pieces so far of the request
that is parsed, and nothing between requests (`PieceAppend`). That the next line or the end of the headers stores it is
the step on which a header would be lost or paired with another's name.

`StrBuf_proofs` proves, for any bytes, first capacity and pieces, with the four named
assumptions of `StrBuf`:

| Theorem | Statement |
|---|---|
| `Invariant` | `Spec => []IInv` |
| `AlwaysInBounds` | `Spec => []InBounds` |
| `AlwaysTerminated` | `Spec => []NulTerminated` |
| `AlwaysBounded` | `Spec => []CapBounded` |
| `Refinement` | `Spec => KeepsQueue` |

`IInv` is those and `len <= peak`. The refinement maps the queue to the first `len`
cells; each append in place, each one that grows, and each move is a lemma on
`SubSeq`.

`LaureWs_proofs` proves, for any kinds of frames, events and bounds, with the four named
assumptions of `LaureWs`:

| Theorem | Statement |
|---|---|
| `TypeCorrect` | `Spec => []TypeOK` |
| `Invariant` | `Spec => []IInv` |
| `OneCloseFrame` | `Spec => []CloseFrameOnce` |
| `EndSaid` | `Spec => []CloseAnswered` |
| `HeartbeatFair` | `Spec => []LivePeerKept` |
| `TimerLeft` | `Spec => []TimerEnds` |
| `ClosedStaysSilent` | `Spec => ClosedIsSilent` |
| `FrameInvariant` | `Spec => []FrameInv` |
| `PayloadsOnce` | `Spec => []PartsOnce` |
| `PongsInOrder` | `Spec => []PingsAnswered` |
| `BufferInvariant` | `Legal` implies `Spec => []BufferOK` |
| `Refinement` | `Legal` implies `Spec => KeepsChannel` |

`IInv` adds to the properties what they depend on. `HandlesOK`: the state is `CLOSE` exactly
when the stream is not open, the head of libuv's list is a handle that is closing, and the
memory is freed only after the stream was finished. `StagesOK`: what was written by each
stage (no close frame in `WS_OPEN`, one in `WS_CLOSING`), and that the timer starts with
the handshake. `TimerOK`: a timer that waits for a pong has sent its ping since the last
read, and how the timer comes to be idle, closing or closed. One lemma per group of
actions and conjunct.

What becomes of the frames has two more invariants, for any number of them. `FrameInv`
(`PartsOnce`, `PingsAnswered` and `FragsOK`) says, of any peer, where each frame that
was taken is: in a message, among the fragments, or dropped. `BufferOK`, of a legal peer,
says that the fragments are the parts so far of the message that is open, and none when
none is. The refinement maps a message to the place of its last frame and its parts to a
set, so that no induction over the frames is needed: `Ends`, `IsFirst` and `DataIn` say
with quantifiers which frames make one message, and the lemma `NextFrame` what one more
frame changes of that. Only model-checked: the liveness.

`LaureRestart_proofs` proves, for any loops and connections, and any depth of nested starts
and stops, with the two named assumptions of `LaureRestart`:

| Theorem | Statement |
|---|---|
| `Invariant` | `Spec => []IInv` |
| `SuspendedRuns` | `Spec => []SuspendedKept` |
| `AcceptsOnOwnLoop` | `Spec => []OwnLoop` |
| `FaultsKnown` | `Spec => []KnownRestartFaults` |
| `CleanAtRest` | `Spec => []IdleClean` |
| `LoopsLeak` | `Spec => OldLoopsLeak` |

`IInv` adds `HandlesRun` (a handle that libuv is not done with is on an open loop, and a
`uv_run` of that loop is on the stack: so none is left when the stack is empty, and the
destructor finds the last loop empty) and `QueuesOK` (what a `uv_run` took off its loop's
list is closing, on that loop, and on no other list). The lemma `HandStep` shares the
argument of the steps that change handles.

`FormDecode_proofs` proves, for any bytes and any length of the body, with the two named
assumptions of `FormDecode`:

| Theorem | Statement |
|---|---|
| `Invariant` | `Spec => []FormInv` |
| `DecodesExactly` | `Spec => []DecodeExact` |
| `FieldsOfTheForm` | `Spec => []FieldsExact` |
| `BodyAsItCame` | `Spec => []BodyExact` |
| `ReadsPastKnown` | `Spec => []KnownReadPast` |

The decoder's loop is a recursive function, whose value exists only if its equation has a
solution. `DecodedBehind` shows that the loop-free `Decoded` has the loop's recursion (by
counting the kept places before and behind the first byte or escape); so the meanings of
the rests of the string solve the equation, and by induction on what is left nothing else
does (`LoopIsDecoded`). The library's induction theorems take an operator, which the
provers cannot instantiate; `NatInduct` states induction for a set of numbers instead,
from `NatLessThanWellFounded` and `WFMin`. `FormInv` adds to the properties where the parser
stands: a turn begins where the body does, or behind an `&`. From this follows that a
turn adds just one field to those parsed (`OneFieldMore`), and that what it takes for the
name is that field's name, up to its first `=` (`FieldIs`).

`WsFrames_proofs` proves, for any frames and number of them, any cuts of the reads, any
limit of a frame and each base from 8 to 256, with the five named assumptions of `WsFrames`:

| Theorem | Statement |
|---|---|
| `ReadInvariant` | `Spec => []FramesInv` |
| `FramesArriveExact` | `Spec => []FramesExact` |
| `AnswersInvariant` | `Spec => []AnswersInv` |
| `AnswersReadBack` | `Spec => []AnswersExact` |

The assumptions. `XorAssumption` is all that unmasking needs: twice the same byte is none.
`MaxFrameAssumption` says that the limit is a number of at most four bytes, as
`LAURE_WS_MAX_FRAME` is, and room for a code: with a larger one, a long answer turned round
could be a length that the peer takes. `FramesAssumption` is `IsFrame`: any bits, any key, any
form that the length fits in. All hold of the code's own values.

The argument. `Parsed` is its middle: of any bytes that begin with the encoding of a frame,
or with a part of it, `Plen`, `Hlen`, `KeyOf` and `Payload` find that frame's parts as soon as
its header is there. For the length this means that reading digits undoes writing them
(`PlenOfDigits`), except that a number past the limit is only known to be past it
(`StandsFor`), because the code's shifts are abstracted there. `FramesInv` says that the frames
handled are a prefix of those sent, that `rbuf` is what arrived behind their bytes, and that a
connection back in libuv's loop waits only for a frame that is not all there, so nothing
that could be handled is left. `Turn` shows that of the three ways through the code's loop
the one that is open is the one that the next frame calls for. `FramesExact` follows, as
only one number of frames can have been seen (`SeenOnce`).

An answer is a frame of the same form, read by the same lemma (`ShortRead`); a long one has
its bytes turned round, so that its fourth byte, at the latest, is not zero and the four
behind it lift it past any number of four (`LongRead`). `AnswersInv` puts the pong of a ping at
the place that counts the pings up to it. The proof found a case that the property
had left out and the run did not have: a close frame of 65536 bytes or more is answered with
its whole reason, and that answer has the same turned length as a long pong. `LongClose`
states it, and the run has such a frame now.

The recursive functions of the module (`Stream`, `Shifted`, `Plen`) are handled like the
decoder's: `Iterated` shows once that a function given by its first value and its steps
exists, and each is then known by its equation.

In the project as a whole, only the three liveness properties (`ShutdownCompletes`,
`ClosedIsFreed`, `SilentPeerEnds`) are model-checked without a proof: fairness and `ENABLED`
are out of the prover's reach.

## Not modelled

The prefix comparison in `on()`; `setHeartbeat`, which is not in the table of methods;
what `status()`, `header()` and `redirect()` put into a response's head; the getters of the
request other than `getBody` and `getHeaders`, and of the connection, which copy or look
up (`getRemoteAddress` tests the result of `uv_tcp_getpeername` the wrong way round,
conn.c:290, and answers with an empty string when it succeeds); request and response
objects that a script constructs itself; the freeing of objects the script kept past the
read; `Connection::send` in the states `WS_OPEN` and `WS_CLOSING` (conn.c:247-261), which puts
the script's bytes between the frames as they are, so that what `LaureWs` says of frames
written is about those of laure; the text of the handshake's response and its key, and with
it the 512 bytes it is put together in: with a long `Sec-WebSocket-Protocol`, `rlen` grows
by what `snprintf` would have written (websocket.c:46-52), past the end of the buffer;
`laure_ws_send`, which has no callers; appends of `laure_ws_on_data` that find no memory
(websocket.c:129, 192, 207: their results are ignored like that of conn.c:104, which
`LaureLoop` has); TLS (empty functions); the application shell
(not in the build); class registration; llhttp's own states. What `uv_write` sends at once
is the kernel's: a write is taken as queued.

`LaureWs` and `LaureRestart` are not composed with `LaureLoop`. So `stop()` in a WebSocket
callback, whose nested loop would free the connection under `laure_ws_on_data` as it does
under `dispatch_plain` (fault `resume`), is not a step of any module, and neither is the
memory of connections under several loops.

## Plan

1. `LaureLoop`, `ConnLife`, `LaureLoop_proofs`: done, as above.
2. `LaureHttp`, `StrBuf`, `FormDecode` and the proofs of the first two: done.
3. `LaureWs` with `WsChannel` and the heartbeat, `WsFrames`, `LaureRestart`, the proofs of
   the first and the last: done.
4. The refinements `KeepsConnLife` and `KeepsChannel`, and the theorems about parsing,
   forms and frames in `LaureLoop_life`, `LaureHttp_proofs`, `FormDecode_proofs` and
   `LaureWs_proofs`: done.
5. `WsFrames` made provable, with the exclusive or as a constant, and `WsFrames_proofs`: done.
6. Left: a composition of `LaureWs` and `LaureRestart` with `LaureLoop`, as named under what
   is not modelled.
