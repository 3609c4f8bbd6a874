# A verification project for the ElastosHeadless server

ElastosHeadless is a fork of the Monkey HTTP server (`src/SuperExe/mk_core`,
`mk_server`, `plugins`) with a plugin, `plugins/ElastosSuperExe`, that loads
the Elastos component runtime into the server process.  This directory holds
TLA+ models of its core, the TLC configurations that check them, and proofs
checked by TLAPS.  Paths below are relative to `src/SuperExe/`.

## 1. Inventory

| component | state | operations | who it meets | what is hard |
|---|---|---|---|---|
| worker loop (`mk_server/mk_server.c`) | the batch of events epoll reported | `mk_server_worker_loop`, `mk_server_listen_handler` | scheduler, plugins | one handler of a batch closes what a later event of the batch points to |
| scheduler (`mk_server/mk_scheduler.c`) | `rb_queue`, `timeout_queue`, `event_free_queue`, accepted and closed counters | add, remove, read, write, close, check timeouts | every protocol and plugin | order of close and free; an idle worker must have an event or a timeout for all it owes |
| streams, channels (`mk_server/mk_stream.c`) | list of streams with bytes left | `mk_channel_write`, `mk_channel_flush` | HTTP, CGI | partial writes, EAGAIN, errors in the middle of an answer |
| HTTP sessions (`mk_server/mk_http.c`) | session status, requests, keep-alive counter | read, prepare, error, end, done, close | channel, scheduler, vhost, stage plugins | pipelining, keep-alive, error paths that answer or do not answer |
| HTTP parser (`mk_server/mk_http_parser.c`) | parser level, status and positions in the session's buffer | `mk_http_parser` | HTTP sessions | input in arbitrary pieces; pointers into a buffer that grows, is compacted and refilled |
| virtual hosts, FD table (`mk_server/mk_vhost.c`) | per thread hash tables of shared descriptors | open, close | HTTP requests | shared, counted and reused descriptors |
| response headers (`mk_server/mk_header.c`) | an iov per request, two text buffers per thread | `mk_header_prepare` | channel, clock | the iov points to buffers that later answers overwrite |
| plugins (`mk_server/mk_plugin.c`) | registered stages | stage runs, `mk_plugin_http_request_end` | HTTP sessions | a plugin outliving its request |
| CGI (`plugins/cgi`) | `requests_by_socket`, two pipes per child, a thread per body | stage 30, read event, hang-up | channel, scheduler, other workers | vfork, inherited descriptors, a child that outlives its client |
| FastCGI, logger, auth, dirlisting, mandril, liana, tls, cheetah (`plugins/*`) | each its own | stage hooks | the above | TLS renegotiation, log pipes |
| clock (`mk_server/mk_clock.c`) | two buffers per formatted time | a thread writing once a second | every worker | read while it is being switched |
| start and stop (`mk_server.c`, `mk_scheduler.c`, `monkey.c`) | worker start counter, signal channels | launch workers, balance, exit | main thread, workers | counting without a lock, signals before readiness |
| event loop (`mk_core/mk_event*.c`) | epoll set | add, del, wait, timeout | all | `mk_event_del` acts only on a status nobody sets |
| rb-tree, lists, iov, config reader (`mk_core/*`) | data structures | | all | |
| Elastos reference counts (`ElastosRuntime/.../elrefbase.cpp`, `elaatomics.cpp`) | strong and weak count, lifetime flag | inc, dec, attempt, create weak, extend | all Elastos objects, any thread | lock-free counts, promotion of weak to strong |
| Elastos runtime, linker (`plugins/ElastosSuperExe`) | loaded modules, class objects | load, resolve, unload | server plugin | mostly Android's linker and generated code |
| `deps/` (jemalloc, mbedTLS), `linker/bionic`, `htdocs`, `examples`, `qa` | | | | vendored or not code |

What makes them correct, in short: no event reaches freed memory; when the
worker sleeps, whatever it owes (bytes, an end of request, a timeout) has
something that will wake it; every request that is complete is answered, every
slow one is reaped; a descriptor is open exactly while somebody needs it and
answers from the right file; an object is alive exactly while it is strongly
referenced, and its counts while anybody looks at them; the requests the
server acts on are the ones the client sent; a client can tell where an answer
ends; a CGI program's output reaches its own client, and nothing of a program
stays when its request is over.

## 2. Modules

| module | models | state to code |
|---|---|---|
| `MkWorker` | one worker thread: loop, scheduler, channel, HTTP session, the CGI-like stage 30 plugin as the server sees it | `conn[c]` is `struct mk_sched_conn` with its session; `ready` the unvisited rest of the epoll batch; `cur` the program counter in the loop body; `accepted`, `closed` the counters |
| `MkWorker_proofs` | proofs about it | |
| `MkVhostFdt` | the File Descriptor Table of a worker and the requests that use it | `chain`, `av` are the hash tables; `file` the kernel's descriptors; `req` the fields of `struct mk_http_request` the table uses |
| `MkVhostFdt_proofs` | proofs about it | |
| `MkFileSharing` | what `MkVhostFdt` promises: a request has a descriptor of its file for as long as it lives, and the last user closes it | `open`, `uses`: instantiated with `file` and with what each live request is answered from |
| `MkServer` | the main thread and the workers: launch, green light, balancing, stop | `at[k]` where the worker with index k in `sched_list` is; `chan[k]` its eventfd; `accepted`, `closed` its counters; `main`, `i`, `scan` the main thread's place, loop variable and the locals of `_next_target` |
| `MkServer_proofs` | proofs about it | |
| `ElRefBase` | the counts of one Elastos object | `mStrong`, `mWeak`, `mFlags` as in the code; `pc[r]` where the owner of reference r is between two atomic operations |
| `ElRefBase_proofs` | proofs about it | |
| `ElObject` | what `ElRefBase` promises: an object is held, let go, destroyed once, never revived | instantiated with the sets of counted references and the two deletion counters |
| `MkHttpParser` | one session reading requests: receive buffer, parser, what the server is handed, what is left for the next request | `fixed`, `heap` are `body_fixed` and the block that replaces it; `p` is `struct mk_http_parser`, `sr` the request, `cs` the session; `pc` who called the parser |
| `MkHttpParser_proofs` | proofs about it | |
| `MkResponse` | the static answers of one worker: ranges, header, channel, and the clock's buffers | `cl`, `lm` are the thread's buffers, `clock` the two of `mk_clock.c`; `conn[c].streams` the channel; `cur` the place in `mk_sched_event_read` |
| `MkResponse_proofs` | proofs about it | |
| `MkCgi` | the CGI plugin in several workers, its children and threads | `run[r]` a call of `do_cgi` and its `struct cgi_request`; `held` the open pipe ends of every process; `table` is `requests_by_socket` |
| `MkCgi_proofs` | proofs about it | |
| `MkLemmas` | lemmas about numbers and sequences for the proofs | |
| `MC*` | constants and symmetry for TLC | |

**MkWorker.**  The state of a worker is thread local in REUSEPORT mode, so a
callback is one step, except that the two loops that retry `mk_channel_write`
(`mk_sched_event_read`, `mk_channel_flush`) take one step per turn: the client
moves while the worker spins.  `EventRead`, `ReadFlush`, `EventWrite`,
`PluginEvent`, `PluginFlush`, `CheckTimeouts`, `Accept`, `EventFreeAll` and
`EventWait` are the handlers of `mk_server_worker_loop`; `Tick` is the clock
thread and `ClientReads` the peer.  A system call may have any outcome the
code distinguishes: a write sends any part of a stream, meets EAGAIN, or fails
(with `errno` set or stale).  What a request asks for (a file, an error, a
plugin, a bad or an oversized request, more pipelined bytes) is chosen
nondeterministically; the constant `Env` says which of these choices a run
offers.  Bytes are units: a header is one unit, a file two.  A slot of `Conns`
is a block of memory together with a socket number; a new connection that takes
it over gets both.

`SessionRemove` hangs up a stage 30 plugin only through a request that is still
in `request_list` (`mk_http.c:1239-1250`).  A plugin whose request `cb_done`
ended under it (`early`) is not told, and its run outlives the session: when
the memory is freed or reused the run is `stray`, and its next event
(`PluginAstray`) uses a session that does not exist.  What happens then is
undefined, and the model stops (`Undefined`).

**MkVhostFdt.**  An action is the whole of `mk_vhost_open` with the rest of
`mk_http_init` that depends on its result, or the whole of `mk_vhost_close`.
`First` is the code's search from slot 0.  The kernel gives any free number to
an open, so numbers are reused as soon as they are closed.

**MkServer.**  A step ends where another thread may see what it did: between
two turns of a loop over the workers, between the registration of a
connection in a worker's event loop and `accepted_connections++`, between two
reads of counters in `_next_target`.  The counters are unsigned 64-bit
differences (`% WORD`).  An eventfd adds up what is written to it (the build
without eventfd uses a pipe, which keeps the values apart).  `pthread_create`
may fail, and its caller does not look.  `Accept` has the three ends of
`mk_server_listen_handler`: nothing registered, registered in the queues but
not in the event loop (`ghost`), or served.  `Signal` is
`mk_signal_handler`, which the kernel runs in the main thread as long as that
does not block the signal; from there the main thread only executes
`mk_exit_all`.  In the REUSEPORT mode connections are the workers' own
affair, and `MkWorker`'s.  `Flush` and `Flushed` are what the loop of
`mk_sched_event_read` does to the thread: a worker in it reads no channel until
its client reads or breaks off (`worker_busy`).  When a connection is given the
descriptor of a failed registration that has not timed out, `mk_bug`
(`mk_scheduler.c:217-219`) ends the process: `main = "aborted"`.

**ElRefBase.**  One step per atomic operation.  A reference is copied from
another that its owner keeps meanwhile (`src`); the creator works alone until
`Share`.  `AttemptIncWeak` on a reference that is held has the effect of
`IncWeak` and is the action `CreateWeak`.

**MkHttpParser.**  One turn of the parser's loop is a step, one action per
status; `Read` is `mk_http_handler_read` with any number of bytes the socket
may return, so a request is cut anywhere, also across the growth of the
buffer.  `ParserTurn` is the body of `mk_http_parser`, `Prepare` and `Abort`
what `mk_http_sched_read` does with its result, `NextPipelined`,
`NextKeepAlive` and `LastOne` the three ends of `mk_http_request_end`.  A field
of a request is a block, a position and a length, as in the code; what it means
is looked up when the server uses it.  `asked` and `served` are the history the
properties compare.  Names are two characters long and `PREFIX` stands for
"HTTP/1."; letter case, the width of ports and `ERANGE` are abstracted, and
`KeepAlive` is on.  With `BUFFER > CHUNK`, as for a TLS transport, the body
starts on the heap (`mk_http.c:1305-1307`).  `realloc` may move a block of the
heap or not (`Moved`); a field in a block that was moved away means nothing.

**MkResponse.**  A cell stands for a stretch of text.  `Answer` is
`mk_http_init` from the moment the file is known, with `RangeParse` and
`RangeSet`; `Entries` is `mk_header_prepare`, whose entries say which buffer
they point to; `Text` reads that buffer when `writev` is called.  `meant` is
what the client is to receive, computed when the answer is prepared and from
the request alone: the status (`DueStatus`), the lines of the header
(`DueHeader`) and the bytes of the file (`FirstByte`, `LastByte`), none of them
by way of `Answer` or `Entries`.  One case departs from what a reader of the
tests would expect and is named for it: `CutShort`, a range that ends behind
the file, is due the 206 the code sends (`response_range.cfg` is about it).
Format and Publish are the two
halves of `mk_clock_headers_preset`; a buffer that is being written is `Torn`.
A header of constant text, or whose text is the request's own memory, is left
out.

**MkCgi.**  A handler of a worker is one step, but `do_cgi` is one per stage
at which another worker's `vfork` finds different descriptors open: `Pipes`,
`Vfork`, `Feed`, `Register`.  A child inherits every pipe end the server has.
`Wait` is a round of `epoll_wait`, `CgiRead` and `CgiEnd` are `cb_cgi_read`,
`Hangup` is the end of a connection with `mk_cgi_stage30_hangup`, `Drained` is
`mk_http_sched_done`.  The thread that writes a body reads a `post_t` from a
stack frame that may be gone: `PostFinds` says what it may find.  A worker that
uses freed memory is `Undefined` and does nothing more.

**Abstract specifications.**  `ElRefBase!ImplementsObject` and
`MkVhostFdt!ImplementsSharing` instantiate `ElObject` and `MkFileSharing` with
refinement mappings; the runs `refbase` and `fdt` check them as properties, and
`CountsImplementObject` and `TableImplementsSharing` prove them.

## 3. Runs

| run | result | what it shows |
|---|---|---|
| `worker_batch` | pass | two connections, failing writes, plugins: no dangling event, live timeout queue, exact load counters |
| `worker_conn` | pass | one connection, everything in `Env`: released on close, plugins have a session until `cb_done` ends their request under them |
| `worker_plain` | pass | two connections, plain requests, fairness: nothing owed without a wake-up; the number of requests a session serves; `Answered`, `Reaped` |
| `refbase` | pass | four references: live, not leaked, deleted once; inductive invariant; implements `ElObject` |
| `fdt` | pass | four requests, four files: right content, no leak, exact accounting; inductive invariant; implements `MkFileSharing` |
| `server` | pass | the main thread and two workers in both modes: nobody serves early, load exact, capacity of each worker kept, the launch completes, a signal stops a running server unless a client holds a worker; inductive invariant |
| `cgi` | pass | two workers, two programs: the table names the right run, nothing is left behind, answers are intact, nobody waits for ever but for the reasons named, freed runs are not visited but for inherited pipes |
| `parser` | pass | 336 clients, good and bad, cut anywhere: indices stay inside, requests arrive as sent, no whole request waits, the parser returns |
| `response` | pass | every range of a small file, GET and HEAD, pipelined answers, two connections and the clock: answers are those the requests ask for and can be taken apart; when a header's length or date is not its own |
| `worker_busy` | violation | EAGAIN does not leave the retry loop of `mk_sched_event_read` |
| `cgi_hangup` | violation | a client that leaves after its request was ended early leaves a run with a freed session |
| `parser_stale` | violation | a request without a query string is handed on with the last one's |

The findings in `PROJECT.json` quote the comments and documents that the
violating runs contradict.

**Further configurations**, for the same MC modules, show where the code does
not do what one would expect and what the limits of the properties above are.
TLC finds each of these properties violated:

| configuration | property | what its counterexample shows |
|---|---|---|
| `worker_limit.cfg` | `ServedWithinLimit` | `MaxKeepAliveRequest` n lets n + 1 requests be served |
| `worker_done.cfg` | `DoneHasRequest` | `cb_done` takes the first entry of an empty `request_list` when a plugin has ended its request and its last piece drains |
| `refbase_revive.cfg` | `StrongIsLive` | two first attempts on an object that was shared before it was held: one revives what the other deleted |
| `fdt_page.cfg` | `NothingLeaks` | a customised error page after the file was opened leaves the file's descriptor open for ever |
| `parser_moved.cfg` | `RequestsAsSent` | `realloc` moves the block in which a request's fields were found |
| `response_range.cfg` | `RangesExist` | a range that ends behind the file is answered 206 and breaks off |
| `server_total.cfg` | `TotalWithinCapacity` | the capacity, announced for the server, is each worker's own |
| `server_bug.cfg` | `NoBugFound` | a failed registration and the reuse of its descriptor make `mk_bug` fire |
| `server_stop.cfg` | `StopsOnSignal` | a stop signal before a worker has read its start signal is lost |

`parser_tls.cfg` checks `IndicesInside` for a transport buffer larger than a
chunk, where the body starts on the heap; it holds.

Where a passing run's property, or a theorem, excludes a case that one of these
shows, its comment says so:
`PluginHasSession` and `ClosedIsReleased` speak of plugins whose request
`cb_done` has not ended (`cgi_hangup`); `KeepAliveBound` bounds what a session
serves by one more than the limit (`worker_limit.cfg`), or by twice the limit
and one more where clients pipeline and plugins answer (which no run has: the
theorem covers it); `IndicesInside` says that
no field dangles until `realloc` is first called, and nothing of a field in a
freed block from then on (`parser_moved.cfg`); `FramingKept` calls a range that
ends behind the file 206 (`response_range.cfg`); `WithinCapacity` is each worker's
(`server_total.cfg`); `StopsWhenServing` is about workers that have started
(`server_stop.cfg`) and that no client holds (`worker_busy`); the properties of
`ElRefBase` are checked with `FirstRefBeforeShare` (`refbase_revive.cfg`) and those
of `MkVhostFdt` without `"after"` in `ErrorPages` (`fdt_page.cfg`).

**Bounds.**  `worker_batch` has two connections and batches of two events:
that is enough for a handler to close a connection whose own event is still to
come, for a timer to close two at once, and for a slot of memory to be
reused by a second accept.  `worker_conn` has one connection with channels of
up to three streams: pipelined answers, error pages and plugin output queue
behind each other.  A page is one unit, so the retry loops end both by their
byte limit and by their result.  `MaxTime` lets the clock pass the timeout.
`refbase` has four references: an original, a strong and a weak copy, and an
attempt in flight; `INITIAL` only has to exceed any count.  In `fdt` three
files share a table of two slots, so the chain overflows, and a fourth has
the hash of the first under another host; four requests allow a descriptor
to be shared while another chain is full.
`server` has two workers of capacity two and five connections: both can be
full and refuse a fifth, and a failed registration can time out and make one
look emptier than it is; `WORD` = 16 wraps when a worker has closed more than was
counted.  `START` and `FREE` need only differ from each other and from their
sum.  `cgi` has two workers, two descriptors and two runs: a child inherits the
other's pipes, a descriptor number moves from one worker to the other, and one
program has more headers than `in_buf` has room for.  `parser` lets each client
send at most three requests; a buffer of 24 characters grows twice (by 20)
before `MAX_REQUEST` refuses it, `EXTRA` = 1 unknown header fits, and the
keep-alive limit is met; requests that the network may cut anywhere are 12 to
40 characters long, so every cut in every state of the parser happens.
`parser_tls.cfg` has the same clients, a first block of `BUFFER` = 24 on the heap,
and grows it by `realloc`; `parser_moved.cfg` has blocks of 8, so that a request
needs several.
`response` has a file of three bytes and range numbers up to four: missing,
equal, reversed, at and past the end; `RADIX` = 3 makes lengths of one and two
digits; a page of six cells ends the loop of `mk_sched_event_read` in a header,
after it and after the file; two ticks suffice for a buffer to be reused.

**Fairness.**  `worker_plain` assumes weak fairness of the worker's steps (it
never waits for anything but epoll), of the clock thread, and of a client that
reads; and strong fairness of a wait that reports the timer or a writable
connection, because epoll is level triggered and the timer periodic, so that
neither can be left out of every batch for ever.  Nothing is assumed of when
clients send.  `worker_busy` assumes fairness of the worker alone.  `server`
and `server_stop.cfg` assume weak fairness of the main thread's launching,
signalling and joining, and of each worker's start: threads the kernel
schedules, which wait for nothing else.  For a worker that serves they assume
only that one which comes back to `mk_event_wait` again and again reads its
channel (strong fairness of `Notified`: epoll reports the channel together with
the sockets).  That it does come back is not assumed, since a client that does
not read can keep it in the loop of `mk_sched_event_read`; the two properties
about stopping have it as their hypothesis (`NoneHeld`).  Nothing is assumed of
clients, closings, timeouts or signals.  `parser` assumes weak fairness of the
parser's own turns, which are a loop without a wait.

**Divergences.**  Met while modelling; each is visible in the model's
definitions.  Where a run or another configuration shows one, it is named.

*Worker.*
* An error page that `mk_http_error` writes itself (`mk_http.c:1218`) never
  ends its request: `mk_sched_event_read` finds the channel EMPTY and does not
  call `cb_done`, of which `include/monkey/mk_scheduler.h:137` says "callback
  triggered when the whole channel data have been written".  The session stays
  COMPLETED and untimed.  (`MkWorker` with one connection and
  `Env = {"error"}`: `CompletedIsPending` fails; `MkResponse` calls such a
  session `"stuck"`.)
* Once a channel has asked for `MK_EVENT_WRITE`, `mk_sched_event_write` calls
  `cb_done` each time it drains, though a stage 30 plugin goes on with its
  answer (`plugins/README:51`: "will continue in the next loop").  `cgi_hangup`
  shows one consequence, `early` and `stray` of `MkWorker` are the same seen
  from the server.
* When a plugin ends its request before its last piece has left the channel,
  `cb_done` finds `request_list` empty and takes its first entry all the same
  (`mk_http.c:1494`; `worker_done.cfg`).
* Leaving the loop of `mk_sched_event_read` on `MK_CHANNEL_BUSY`, as its
  comment says, would let another answer overwrite the buffers of a header that has not
  begun to leave: it is `Mut_Again` in `MkResponse`, under which
  `DamagedOnlyIfWaited` fails.  The two defects hide each other.
* `KeepAlive off` has no effect: `mk_http_keepalive_check` returns before it
  assigns `close_now` (`mk_http.c:947`), though `conf/monkey.conf.in:87` says
  "Allow persistent connections. (on/off)".
* `MaxKeepAliveRequest` n allows n + 1 requests (`mk_http.c:996`;
  `worker_limit.cfg`).
* `KeepAliveTimeout` is read by no timer; a persistent connection is timed
  against its arrival and `Timeout` (`mk_scheduler.c:542`).
* A stage 30 plugin's `MK_PLUGIN_RET_CLOSE_CONX` leaves the connection open,
  complete and untimed: the result of `mk_http_request_prepare` is dropped
  (`mk_http.c:1447`).
* A pipelined request that arrives in pieces is not in the timeout queue, and
  its session still says COMPLETED, so its last piece aborts the connection
  (`mk_http.c:1027`).
* When a stage 30 plugin ends its request and `mk_http_request_end` answers the
  next pipelined one, it returns 1: "we still have more data to send in a
  different scheduler round" (`mk_http.c:1022`).  `mk_plugin_http_request_end`
  (`mk_plugin.c:603`) does not ask for the write event then, so nothing makes
  that round happen.
  (`MkWorker` with `Env = {"pipeline", "async"}`: `QueuedIsWatched` fails;
  with either alone it holds.)

*Tables, counts and threads.*
* A customised error page sent after the file was opened
  (a 416) replaces the request's descriptor (`mk_http.c:1114`): the slot is
  given back, the shared descriptor stays open for ever.  (`fdt_page.cfg`.)
* An object held only weakly: `AttemptIncStrong` increments on the strength of
  a count it read earlier (`elrefbase.cpp:463`); two attempts, of which one has
  taken and dropped its reference meanwhile, revive a deleted object.
  (`refbase_revive.cfg`.)
* Without `_android` `atomic_add` is empty (`elaatomics.cpp:58`), and the last
  strong reference does not destroy the object.  (`Android = FALSE`:
  `GoneWithLastStrong` fails.)
* A path whose hash is 0 is "found" in an empty slot of the FD table and
  answered 403, and the slot's reader count goes wrong; two paths with equal
  hashes share a descriptor (`mk_vhost.c:176`).  `HashIdentifies` excludes
  both.
* A stop signal that reaches a worker before it has read its start signal is
  added to it in the eventfd, and the worker's first wait ignores what it read
  (`mk_server.c:376`): the worker goes on to serve, and `pthread_join` in
  `mk_exit_all` waits for it for ever, though `mk_signals.c:28` says of the
  exit "to do it gracefully".  (`server_stop.cfg`.)
* A client that does not read keeps its worker in the loop of
  `mk_sched_event_read` (run `worker_busy`), and a signal then waits for the
  client in `pthread_join`.
* `server_capacity` is compared with one worker's load at a time
  (`mk_scheduler.c:76`) and in the REUSEPORT mode with nothing, though
  `include/monkey/mk_config.h:60` calls it "total server capacity" and the
  banner (`monkey.c:40`) promises it for all threads: N workers take up to N
  times as much.  (`server_total.cfg`.)  Since the default is the process's
  limit of open descriptors, one notices only where `FDLimit` is set below it.
* When `pthread_create` fails its result is dropped (`mk_server.c:246`) and
  the main thread polls for ever; `LaunchCompletes` assumes all were created.
* A failed `mk_event_add` leaves the connection in the worker's queues
  (`mk_server.c:88`).  Its timeout is counted in `closed_connections` although
  it was never counted in `accepted_connections`: the load of an idle worker
  wraps to 2^64 - 1, so that `_next_target` never chooses it again, and a busy
  one takes one connection more than the capacity.  `LoadExact` and
  `WithinCapacity` say so in their terms `gone`.  Its descriptor is closed at
  once and closed again by the timeout (`mk_scheduler.c:470`), when it may be
  somebody else's; and if a new connection of the same worker gets the number
  before that, `mk_bug` aborts the server (`server_bug.cfg`).
* `mk_scheduler.c:146` says that `mk_sched_add_connection` "takes place inside
  the worker/thread context"; `mk_server_loop_balancer` calls it from the main
  thread, and it links the connection into lists the worker walks without a
  lock.

*Parser.*
* A field found in a heap block dangles when `realloc` moves the block
  (`mk_http.c:313`; `parser_moved.cfg`).
* A pipelined request that arrives in two pieces is taken for a second
  completion of the first, and dropped with the connection; this is `Abort`.
* A body swallows whatever follows it in the buffer: `mk_http_parser` takes
  all that has been received for the body, so nothing can be pipelined after a
  POST.
* A row without ':' is refused or joined with the next one, depending on how it
  was cut.
* Requests pipelined after one that says "Connection: close" are served
  (ChangeLog:18137 "Do not allow pipelining requets in non-keepalive
  connections").
* When `body_fixed` is full, `body[body_length] = '\0'` writes one past it;
  so it does past a first block of a TLS transport's size, which is allocated
  without room for the NUL (`mk_http.c:1306`).
* A row whose first letter starts no known header leaves `header_min` at -1,
  and `header_lookup` looks at `mk_headers_table[-1]`.
* The same known header twice links one list node twice.

*Answers.*
* A range whose last byte is past the end, but whose length is not larger than
  the file, is answered 206 with a Content-Length the file cannot fill
  (`mk_http.c:406`); the file ends early, the request is not ended, and the
  client waits.  `qa/ranges_test04.htt:3-5` calls the offset invalid and
  expects 416.  (`response_range.cfg`.)
* A header that waits in the channel is sent with the Content-Length and
  Last-Modified of whatever this worker prepared last (`mk_header.c:302`).
  `DamagedOnlyIfWaited` says when; drop its right hand side, and TLC shows a
  pipelined answer with another's length.
* `mk_clock.c:40` says the two buffers are "for avoid in half-way access"; a
  header that waits for two ticks is sent with a torn or a later date.  `DateHoldsOneTick`
  is the weaker promise that holds.
* `mk_header_response_reset` does not reset `etag_len`: an error page carries
  the ETag of the file served before it.
* An unknown method is answered with "Content-Length: 0" and a page
  (`mk_http.c:1179-1210`).
* `mk_iov_consume` takes from `total_len` only what it took from the last entry
  it touched (`mk_iov.c:201`); harmless, since `bytes_total` decides.

*CGI.*
* `process_cgi_data` does not move what is left in `in_buf` after a status line
  (`event.c:110`): headers written in several pieces are sent wrongly.
  (`cgi.cfg` with `"split"` for `"fail"` in `Env` and `Bodies = {}`:
  `AnswerIntact` fails.)  The same happens to headers in one piece, if they
  follow a status line and are longer than `in_buf`: this is why
  `ProperPrograms` bounds them (section 4).
* No pipe end is close-on-exec, and `mk_event_del` does nothing for events
  whose status nobody sets: the event of a finished run lives on while another child
  holds its read end, and reaches the freed request.  `SilentUnlessInherited`
  is what holds; `cgi.c:31-34` assumes more.
* Children that wait for the end of their stdin may hold each other's writing
  ends (`Entangled`) and wait for ever.
* The thread that writes a body is given a `post_t` on the stack of `do_cgi`
  (`cgi.c:290-298`), and may find another run's, or nothing (`"astray"`).
* `cgi_finish` kills a process id that may belong to somebody else by then.
* The failures in `do_cgi` close none of the pipes that were made.

## 4. Proofs

A theorem holds for every value of the constants that the named ASSUMEs of the
modules allow; further hypotheses stand in its statement.  Every inductive
invariant was checked by TLC on the run's instance before it was proved.

**`ElRefBase_proofs`**: for any finite set of references and any initial value
larger than it, if the build defines `_android` and the creator takes the
first strong reference before it shares the object, `CountsInvariant` (`IInv`
is invariant), and from it `StrongAlwaysLive`, `RefsAlwaysOutliveUse`,
`DeletedExactlyOnce` and `NeverLeaksObject`.  None of the properties is
inductive by itself, and none holds without the two hypotheses
(`refbase_revive.cfg`, and section 3 on `_android`).  `IInv` adds that the
counts are the cardinalities of the
sets of counted references (`CountsOK`), that a strong copy in progress has a
strong source (`SourcesOK`), what the creator may be doing (`CreatorOK`), and
who is responsible for each deletion (`BaseOK`, `ImplOK`).  Lemma `Moves`
says how these sets and cardinalities change when one reference moves; there
is one lemma per action.  `CountsImplementObject` is the refinement: an atomic
operation that counts a reference in or out is `Hold` or `LetGo` of `ElObject`,
the step that deletes is `Destroy` or `LeaveLast`, `Refer` and `Leave` are the
steps that begin and end the use of a reference, and all others leave it alone.

**`MkVhostFdt_proofs`**: for any sets of files, hosts, slots and requests, if
equal hashes in one table mean equal paths and no path hashes to an empty
slot's value (`HashIdentifies`), and no customised error page is sent after a
file was opened (where `fdt_page.cfg` shows the leak), `FdtInvariant` (`FdtInv` is
invariant) and from it `AlwaysRightContent`, `NeverLeaks` and
`AlwaysAccounted`.  `FdtInv` adds to these three what an action needs to know
of the table it finds: a used slot has an open descriptor of the file with its
hash (`SlotsOK`), a private descriptor is nobody else's (`PrivateOK`), and a
request that says it is in the table has exactly one slot there
(`EntriesOK`).  Without the last, `mk_vhost_fdt_close` could count down the
wrong slot.  The lemmas `Joins`, `Leaves` and `Fresh` say how the set of a
slot's readers changes; there is one lemma per action.
`TableImplementsSharing` is the refinement, under the same hypotheses.

**`MkServer_proofs`**: for any number of workers, any capacity smaller than the
word and any number of connections, `ServerInvariant` (`ServerInv` is
invariant), and from it `NeverOverCapacity`, `LoadAlwaysExact` and
`NoneServesEarly`.  The capacity proved is that of each worker by itself.
`WithinCapacity` is not inductive: the check of the
capacity and the connection it lets in are several steps apart.  `ScanOK`
bridges them (the load that was read bounds the load there is now, because
only the main thread makes it grow), `CountsOK` relates the counters to the
connections but for the one being counted, and `PhaseOK` says what the main
thread may conclude from its own progress.  `Unsigned` and `Loads` are the
facts about wrap-around arithmetic.

**`MkWorker_proofs`**: for any number of connections, any keep-alive limit,
page and timeout, `WorkerInvariant` (`WorkerInv` is invariant) and from it
`NeverDanglingEvent`, `AlwaysAccountedFor`, `TimeoutQueueAlwaysLive`,
`ClosedAlwaysReleased`, `PluginAlwaysHasSession` and `KeepAliveAlwaysBounded`,
for every `Env`.  The two about plugins hold with the exception `early`, which
`WorkerInv` must follow from `cb_done` to the freed memory: a plugin without a
session or without a linked request is an `early` one.  The bound on requests
is about `served`, a history of calls of `mk_http_request_prepare`, and needs
that a session whose request is not complete has served no more than it
counted (twice that with pipelining and plugins together).  `WorkerInv` has one condition for each connection, `Good`,
which depends on where the worker is on its behalf (`Place`): a worker between
two turns of a retry loop has not asked for the write event yet, and what it
holds of the connection must still be there after the turn.  The operators on
a connection (`ChannelWrite`, `SchedDone`, `HttpError`, ...) have lemmas that
say what they preserve of it, and each action is one application of them.
The three promises about wake-ups hold in fewer environments, which are the
hypotheses of their theorems:

| theorem | hypothesis | fails when |
|---|---|---|
| `QueuedAlwaysWatched` | `WatchEnv`: no write errors, no malformed or oversized request, not both pipelining and plugins | each of these (section 3 has the last) |
| `IncompleteAlwaysTimed` | `TimedEnv`: plain, malformed or oversized requests | write errors, pipelining, error pages, aborting or asynchronous plugins |
| `CompletedAlwaysPending` | `PendingEnv`: the same, and asynchronous plugins | write errors, pipelining, error pages, aborting plugins |

The right column is what TLC shows on one connection; the hypotheses leave out
nothing else.

**`MkCgi_proofs`**: for any workers, descriptors, runs and programs and for
every `Env`, `CgiInvariant` (`CgiInv` is invariant; its part `BufferOK` says
that `in_buf` never overflows), and from it `TableAlwaysRight`,
`NeverLeftBehind`, `SomebodyAlwaysMoves` and the action property
`SilentAlways`.  `RunHasConnection` is not inductive: a run is listed several
steps after its worker found the connection free, so `LaunchOK` says that a
worker in `do_cgi` has a run, a connection and an empty place in the table of
its own, and `OwnerOK` that only its worker's epoll reports a run.
`NothingLeftBehind` and `SomebodyMoves` need to know who may hold which end of
which pipe in each phase of a run: `ChildOK` and `EndsOK`.  A run that waits for its
child to close the output then finds a child that runs, and so can go on or is
held up by another's copy of its stdin.

`AnswerAlwaysIntact` has a hypothesis, `ProperPrograms`: a program writes its
headers in one piece (`"split"` is not in `Env`), which begins with a status
line, a header or content, not with the break or in the middle of a line; and
headers that begin with a status line fit in `in_buf`.  Section 3 says what
`event.c:110` does to headers that come in pieces or are longer.  The invariant
follows a program's output from place to place (`Flows`): its first cells are
used by the worker, the next ones are in the pipe, the last ones are still to
be written by the child.  The cells that are used are in `in_buf` for as long
as the break is not among them (`Gathers`), and have been sent from then on,
with a status line in place of the program's own (`Streams`).  Output without a
break is never sent (`Headless`).  The lemmas `Process...` say what
`process_cgi_data` does in each of these states.

**`MkHttpParser_proofs`**: for any clients, sizes of the buffer and limits,
`IndicesAlwaysInside`.  `IndicesInside` is not inductive: `ParserInv` adds what
the buffer's blocks have to do with `body_size` (`BufferOK`), from when on the
index of a key is good (`Place`), that no field is in a block younger than the
buffer, and none in a block that was freed before the buffer has outgrown its
first block (`FieldOK`), and that a body begins where the parser stands until it is
taken (`BodyOK`); without the last, `mk_http_parser` could take a body twice and
stand beyond the bytes received.  A turn of the parser is described by the context
it ends with (`TurnOK`), so that `TurnKeeps` is proved once and there is one
lemma per status.  `Least` and `Largest` (a least and a largest element of a
set of numbers, from the well-foundedness of the natural numbers) serve
`char_lookup` and the port of a host.

**`MkResponse_proofs`**: for any connections, clients, sizes of files, ranges,
page and number of ticks, `ResponseInvariant` (`ResponseInv` is invariant), and
from it `FramingAlwaysKept`, `DamageAlwaysWaited` and the action property
`DateAlwaysHolds`.  None of these is inductive.  `ResponseInv` says of each
connection (`ConnIs`):

* what is queued stands, cell by cell, for what is missing (`Pending`): the
  entries of the header that are left for the cells that follow those received,
  and after them the file's bytes from `bytes_offset` on.  A text in a buffer is
  described by its place alone; a date by the buffer's number, `t % 2`;
* what was received is what was meant, but for shared texts (`Received`);
* a first header that no write has begun has its own texts in the shared
  buffers, and the worker is still with it, with `count` and `total` 0
  (`Whole`).  Without the two zeros the loop of `mk_sched_event_read` could be
  left, and `DamagedOnlyIfWaited` would fail;
* a connection that waits for a request has nothing queued.

The argument has three parts.  `AnswerAgrees` compares the range arithmetic of
`mk_http_range_parse`, `mk_http_range_set` and `mk_header_prepare` with the
bytes a request names, for every size and every form of a range; `RangeStatus`
and `HeaderDue` do so for the status and the lines of the header, which
`DueStatus` and `DueHeader` read off the request.  With `MeaningIs` and
`StreamsPrepared` this says that a new answer is queued as it is
meant.  `CutEntered`, `IovConsumed` and `FileConsumed` say that whatever number
of cells a write takes, `mk_iov_consume` and the file's offset leave the rest;
the surplus in `total_len` (section 3) is harmless because `bytes_total` is
exact.  `MoveKeeps` then reduces a step of the worker to the connection it is
about, and there is one lemma per action.  `DateBufferHolds`, for any number of
ticks, is what dates rest on: the buffer published at tick t is number `t % 2`
and holds t, whole, until the clock has published one tick and begun another
(from `ClockInv`).  An induction over entries is written with a least
counterexample (`Least` and `NoException` of `MkLemmas`); `Flat` of `MkLemmas`
says where the cells of a concatenation are.

**Only model-checked.**  `RequestsAsSent` and `NeverStuck` of `MkHttpParser`
compare what the server is handed with what a text means.  The run has that
meaning client by client; for any client it would be a grammar of requests, and
the theorem that the parser accepts it an induction over texts.  `Answered`,
`Reaped`, `LaunchCompletes`, `StopsWhenServing` and `ParserReturns` need
fairness, which is beyond the prover.

## 5. Not modelled

TLS, FastCGI and the other plugins (each a program of its own behind the
interface CGI shows), the configuration reader, directories, redirects and
user directories of `mk_http_init`, the Elastos linker, class loader and
reflection (Android's or generated code, over ninety per cent of the
repository's lines with the vendored parts), and everything vendored.  In
`MkWorker`: refusals of `Accept` (no state remains, except after a failed
`mk_event_add`, which `MkServer` has), `MK_STREAM_EOF` (a stream that only FastCGI
queues; a file that ends early is a read of 0 bytes, which `ChannelWrite`
has as a broken stream), plugin stages 10 to 20 and 40 to 50, and
a session removed while a stale EAGAIN keeps its connection open and its
streams linked.  In `MkServer`: a signal before the workers are ready (it
writes to a channel that does not exist yet), listeners or loops that cannot be
created (the process exits), the data races on a worker's lists in the
balancing mode, and a signal handler that runs in a worker.  In `ElRefBase`:
`ForceIncStrong`, the debugging lists, `OBJECT_LIFETIME_FOREVER`, and the count
`Release` returns.  In `MkHttpParser`: letter case, port and length overflow, and the repeated
reads of a TLS transport within one call of `mk_http_handler_read`, in which
`mk_tls_read` may return more than the room it was given (`parser_tls.cfg` is about
the blocks of such a session, not about its reads).
In `MkResponse`: customised error pages (`MkVhostFdt` has them), constant
headers, extra rows, `ranges[]` wrapping at 2^31, and keep-alive limits (the
parser and the worker have them).  In `MkCgi`: the environment of a program,
chunk framing, and the reuse of process ids.

## 6. Plan

1. Done: worker, FD table, threads, reference counts; CGI; the parser; answers
   and the clock; two abstract specifications.
2. Done: proofs of every invariant of `ElRefBase`, `MkVhostFdt`, `MkServer`,
   `MkWorker`, `MkCgi` and `MkResponse`, of their action properties, of the
   parser's indices, and of both refinements.
3. A proof still worth having: `RequestsAsSent` for the texts of a grammar of
   requests.
4. An abstract specification of a connection implemented by `MkWorker`.
5. FastCGI's connections and locations; the logger's pipes.
