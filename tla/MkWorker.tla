------------------------------ MODULE MkWorker ------------------------------
(***************************************************************************)
(* One worker thread of the HTTP server: the epoll loop                    *)
(* (mk_server_worker_loop), the scheduler's connection events              *)
(* (mk_sched_event_read / _write / _close, mk_sched_check_timeouts), the   *)
(* output channel of a connection (mk_channel_write, mk_channel_flush) and *)
(* the HTTP session on top of it (mk_http_sched_read, mk_http_request_end, *)
(* mk_http_session_remove).                                                *)
(*                                                                         *)
(* In REUSEPORT mode all this state belongs to one thread, so a callback   *)
(* runs alone; what interleaves are the clients, the clock, the order of   *)
(* the events epoll reports in one batch, and every outcome a system call  *)
(* can have.  The two loops that retry a write are not atomic: the client  *)
(* moves while the worker spins in them.                                   *)
(*                                                                         *)
(* Bytes are counted in units: response headers are one unit, a file two.  *)
(***************************************************************************)
EXTENDS Integers, Sequences, FiniteSets

CONSTANTS
  Conns,             \* memory slots for struct mk_sched_conn
  MaxKeepAlive,      \* mk_config->max_keep_alive_request
  KeepAlive,         \* mk_config->keep_alive
  Timeout,           \* mk_config->timeout
  PageSize,          \* sched->mem_pagesize, in units
  Env,               \* what clients, plugins and sockets do beyond a plain GET
  MaxTime,           \* bound: the clock stops here
  MaxBatch,          \* bound: events epoll_wait reports at once
  MaxStreams,        \* bound: a channel this long hears nobody but its client reading
  MaxAccepts         \* bound: connections accepted in a behaviour

(***************************************************************************)
(* "eio"       a write fails with an error other than EAGAIN, or a file    *)
(*             ends before its stream does                                 *)
(* "malformed" the parser reports MK_HTTP_PARSER_ERROR                     *)
(* "oversize"  a request outgrows mk_config->max_request_size              *)
(* "pipeline"  clients pipeline requests                                   *)
(* "error"     requests that mk_http_error answers (404, 403, 400...)      *)
(* "abort"     requests that leave mk_http_request_prepare unanswered      *)
(* "async"     requests taken by a stage 30 plugin that continues later    *)
(***************************************************************************)
EnvKinds ==
  {"eio", "malformed", "oversize", "pipeline", "error", "abort", "async"}

ASSUME WorkerAssumption ==
  /\ IsFiniteSet(Conns)
  /\ Env \subseteq EnvKinds
  /\ KeepAlive \in BOOLEAN
  /\ MaxKeepAlive \in Nat
  /\ Timeout \in Nat \ {0}
  /\ {PageSize, MaxTime, MaxBatch, MaxStreams, MaxAccepts} \subseteq Nat

VARIABLES
  conn,      \* conn[c]: struct mk_sched_conn with its struct mk_http_session
  now,       \* log_current_utime, the seconds counter mk_clock maintains
  errno,     \* the thread's errno
  ready,     \* the events of this batch that mk_event_foreach has yet to visit
  cur,       \* where in the loop body the worker is, and its local variables
  accepted,  \* sched->accepted_connections
  closed     \* sched->closed_connections

vars == <<conn, now, errno, ready, cur, accepted, closed>>

HDR  == 1    \* units of a response header stream
FILE == 2    \* units of a static file stream
PIECE == 2   \* units a plugin writes at most at a time

Timer       == <<"timer">>
Listener    == <<"listener">>
ConnEv(c)   == <<"conn", c>>
PluginEv(c) == <<"plugin", c>>

(***************************************************************************)
(* A connection.  st: "free" no memory, "open" linked in rb_queue,         *)
(* "closed" MK_EVENT_IDLE and waiting in event_free_queue.  mask: the      *)
(* registered epoll mask.  room: the kernel send buffer takes bytes.       *)
(* timed: is_timeout_on.  chan: bytes_total of every stream in the         *)
(* channel.  sess: _sched_init.  req: request_list is not empty.  whole:   *)
(* the parser has seen all of the current request.  plug: a stage 30       *)
(* plugin is at work for the session (its run is the one                   *)
(* requests_by_socket names).  stray: such a run has outlived the          *)
(* connection it was started for, and still points into this memory.       *)
(* Two histories: early, cb_done has ended the request of the plugin under *)
(* it; served, requests the session handed to mk_http_request_prepare.     *)
(* A slot is a block of memory and a socket number: a new connection that  *)
(* takes it over gets both.                                                *)
(***************************************************************************)
FreeConn ==
  [st |-> "free", mask |-> "R", room |-> TRUE, timed |-> FALSE, arrive |-> 0,
   chan |-> <<>>, sess |-> FALSE, status |-> "INCOMPLETE", req |-> FALSE,
   whole |-> FALSE, plug |-> FALSE, early |-> FALSE, stray |-> FALSE,
   counter |-> 0, served |-> 0, close |-> FALSE]

(* Where the worker is, on whose behalf ({c}, or {} for nobody), and the   *)
(* local variables of the loop that writes.                                *)
At(where, who) ==
  [at |-> where, c |-> who, total |-> 0, count |-> 0, hangup |-> "no"]
Running(where, c) == At(where, {c})
Idle(where)       == At(where, {})

Init ==
  /\ conn = [c \in Conns |-> FreeConn]
  /\ now = 0
  /\ errno = "OK"
  /\ ready = {}
  /\ cur = Idle("wait")
  /\ accepted = 0
  /\ closed = 0

-----------------------------------------------------------------------------
(* The channel.  An outcome is the return value, the streams left, the     *)
(* bytes written (0: *count is not assigned), errno and the socket's room. *)

(* n units of the first stream are sent; a stream that is done leaves.     *)
Consume(chan, n) ==
  IF n = Head(chan) THEN Tail(chan) ELSE <<Head(chan) - n>> \o Tail(chan)

(* What writing the first stream can come to.  (Only the FastCGI plugin    *)
(* queues a stream of type MK_STREAM_EOF; that plugin is not modelled.)    *)
Sent(k, n, r) ==
  [ret   |-> IF Consume(k.chan, n) = <<>> THEN "DONE" ELSE "FLUSH",
   k     |-> [k EXCEPT !.chan = Consume(@, n), !.room = r],
   n     |-> n,
   errno |-> "OK"]
Blocked(k) == [ret |-> "BUSY", k |-> k, n |-> 0, errno |-> "EAGAIN"]
Broken(k, e) ==
  [ret |-> "ERROR", k |-> [k EXCEPT !.chan = Tail(@)], n |-> 0, errno |-> e]

ChannelWrite(k) ==
  IF k.chan = <<>>
  THEN {[ret |-> "EMPTY", k |-> k, n |-> 0, errno |-> "OK"]}
  ELSE (IF k.room THEN {Sent(k, n, r) : n \in 1..Head(k.chan), r \in BOOLEAN}
        ELSE {Blocked(k)})
       \cup (IF "eio" \in Env THEN {Broken(k, e) : e \in {"OK", "EIO"}} ELSE {})

-----------------------------------------------------------------------------
(* The HTTP session.                                                       *)

SessionInit(k) ==
  [k EXCEPT !.sess = TRUE, !.counter = 0, !.served = 0, !.close = FALSE,
            !.status = "INCOMPLETE", !.req = FALSE, !.whole = FALSE]

(* The stage 30 handler lets go: its run is over.                          *)
PluginDone(k) == [k EXCEPT !.plug = FALSE, !.early = FALSE]

Mut_Hangup(k) == k

(* stage30_hangup, for a request in request_list.  stage30_handler is      *)
(* never reset, so the entry that mk_http_request_end reuses still names   *)
(* it; the run it ends is the one requests_by_socket names, a stray one    *)
(* that stage 30 took for this request's included.                         *)
Hangup(k) ==
  IF k.req /\ k.plug THEN [PluginDone(k) EXCEPT !.stray = FALSE] ELSE k

(* mk_http_session_remove: hang up, free the requests and the session.     *)
SessionRemove(k) ==
  IF k.sess THEN [Hangup(k) EXCEPT !.sess = FALSE, !.req = FALSE] ELSE k

TimeoutAdd(k) == [k EXCEPT !.timed = TRUE]
TimeoutDel(k) == [k EXCEPT !.timed = FALSE]

(* The values mk_http_keepalive_check may leave in close_now: the protocol *)
(* version and the Connection header are the client's choice.              *)
KeepaliveCheck(k) ==
  IF ~KeepAlive THEN {k.close}
  ELSE IF k.counter >= MaxKeepAlive THEN {TRUE}
  ELSE BOOLEAN

(* mk_http_error: a customised page is left in the channel, the default    *)
(* one is written at once and the result of that write is dropped.         *)
HttpError(k, custom) ==
  {[k |-> o.k, errno |-> o.errno] :
     o \in ChannelWrite([k EXCEPT !.chan = @ \o <<HDR>>])}
  \cup {[k |-> [k EXCEPT !.chan = @ \o <<HDR, FILE>>], errno |-> "OK"] :
          x \in IF custom THEN {1} ELSE {}}

(* How a request with its keep-alive decision is answered: headers, a      *)
(* file, an error, nothing, or by a stage 30 plugin, which starts no       *)
(* second run for a socket.                                                *)
Answers(d) ==
  {[k |-> [d EXCEPT !.chan = @ \o <<HDR>>], errno |-> "OK"],
   [k |-> [d EXCEPT !.chan = @ \o <<HDR, FILE>>], errno |-> "OK"]}
  \cup (IF "error" \in Env THEN HttpError(d, TRUE) ELSE {})
  \cup (IF "abort" \in Env THEN {[k |-> d, errno |-> "OK"]} ELSE {})
  \cup (IF "async" \in Env
        THEN {[k |-> [d EXCEPT !.plug = TRUE], errno |-> "OK"]} ELSE {})

(* mk_http_request_prepare with mk_http_init: bad requests are refused     *)
(* before the keep-alive decision, all else is decided after it.           *)
RequestPrepare(k0) ==
  LET k == [k0 EXCEPT !.served = @ + 1] IN
  (IF "error" \in Env THEN HttpError(k, FALSE) ELSE {})
  \cup UNION {Answers([k EXCEPT !.close = b]) : b \in KeepaliveCheck(k)}

Mut_RequestKaNext(k) ==
  [k EXCEPT !.counter = @ + 1, !.whole = FALSE]

Mut_RequestKaNextCount(k) ==
  [k EXCEPT !.status = "INCOMPLETE", !.whole = FALSE]

RequestKaNext(k) ==
  [k EXCEPT !.counter = @ + 1, !.status = "INCOMPLETE", !.whole = FALSE]

Mut_Shutdown(k, e) ==
  IF k.close
  THEN [ret |-> "close", k |-> SessionRemove(k), errno |-> e]
  ELSE [ret |-> "open", errno |-> e,
        k |-> RequestKaNext([k EXCEPT !.req = FALSE])]

(* The end of mk_http_request_end, its label "shutdown".                   *)
Shutdown(k, e) ==
  IF k.close
  THEN [ret |-> "close", k |-> SessionRemove(k), errno |-> e]
  ELSE [ret |-> "open", errno |-> e,
        k |-> TimeoutAdd(RequestKaNext([k EXCEPT !.req = FALSE]))]

(* counter_connections counts the requests that were ended before.         *)
LimitReached(k) == MaxKeepAlive <= k.counter

RequestEnd(k, e) ==
  IF LimitReached(k)
  THEN {Shutdown([k EXCEPT !.close = TRUE], e)}
  ELSE {Shutdown(k, e)}
       \cup IF "pipeline" \notin Env \/ ~k.req THEN {} ELSE
         LET next == [k EXCEPT !.counter = @ + 1, !.req = TRUE, !.whole = FALSE]
         IN  {[ret |-> "more", k |-> o.k, errno |-> o.errno] :
                o \in RequestPrepare([next EXCEPT !.whole = TRUE])}
             \cup {[ret |-> "open", k |-> next, errno |-> e]}
             \cup (IF "malformed" \in Env
                   THEN {Shutdown([next EXCEPT !.close = TRUE], e)} ELSE {})

Mut_SchedDone(k, e) == {[ret |-> "open", k |-> k, errno |-> e]}

(* mk_http_sched_done, the protocol's cb_done.  It does not ask whether a  *)
(* plugin is still at work, nor whether request_list has an entry.         *)
SchedDone(k, e) == RequestEnd([k EXCEPT !.early = k.plug], e)

(* What the parser error path sends: an answer the parser may have queued  *)
(* with mk_http_error, then one more write if the channel is not empty.    *)
ParserError(k, e) ==
  UNION {IF o.k.chan = <<>> THEN {o}
         ELSE {[k |-> w.k, errno |-> w.errno] : w \in ChannelWrite(o.k)} :
           o \in {[k |-> k, errno |-> e]} \cup HttpError(k, FALSE)}

Failed(k, e)  == [ret |-> "fail", k |-> k, errno |-> e]
Dropped(k, e) == Failed(SessionRemove(k), e)
Goes(k, e)    == [ret |-> "ok", k |-> k, errno |-> e]

(* mk_http_sched_read with mk_http_handler_read, the protocol's cb_read:   *)
(* what it may come to for a session k whose request is in its list.       *)
HandlerRead(k, e) ==
  {Goes(k, e)}                                  \* MK_HTTP_PARSER_PENDING
  \cup (IF k.status = "COMPLETED" THEN {Dropped(k, e)}
        ELSE {Goes(o.k, o.errno) :              \* MK_HTTP_PARSER_OK
                o \in RequestPrepare(TimeoutDel(
                        [k EXCEPT !.status = "COMPLETED", !.whole = TRUE]))})
  \cup (IF "malformed" \in Env                  \* MK_HTTP_PARSER_ERROR
        THEN {Dropped(o.k, o.errno) : o \in ParserError(k, e)} ELSE {})
  \cup (IF "oversize" \in Env                   \* mk_request_premature_close
        THEN {Dropped(o.k, o.errno) : o \in HttpError(k, FALSE)} ELSE {})

(* The same with its beginning: the client closed, there was nothing to    *)
(* read after all, a read error, or there are bytes for the parser.        *)
SchedRead(conn0, e) ==
  LET k == IF conn0.sess THEN conn0 ELSE SessionInit(conn0) IN
  {Failed(k, x) : x \in {"OK", "EAGAIN", "EIO"}}
  \cup HandlerRead([k EXCEPT !.req = TRUE], e)

-----------------------------------------------------------------------------
(* The scheduler.                                                          *)

Mut_RemoveClient(k)      == FreeConn
Mut_RemoveClientTimed(k) == [k EXCEPT !.st = "closed", !.chan = <<>>]

RemoveClient(k) ==
  [TimeoutDel(k) EXCEPT !.st = "closed", !.chan = <<>>]

Mut_EventClose(k, by) == RemoveClient(k)

(* mk_sched_event_close; by = "done" skips the protocol's cb_close.        *)
EventClose(k, by) ==
  RemoveClient(IF by = "done" THEN k ELSE SessionRemove(k))

(* Store connection c, and leave the loop body for the next event.         *)
Finish(c, k, e) ==
  /\ conn' = [conn EXCEPT ![c] = k]
  /\ errno' = e
  /\ cur' = Idle("loop")
  /\ closed' = IF k.st = "closed" THEN closed + 1 ELSE closed
  /\ UNCHANGED <<now, accepted>>

(* Store connection c, and go on inside the handler.                       *)
Continue(c, k, e, where) ==
  /\ conn' = [conn EXCEPT ![c] = k]
  /\ errno' = e
  /\ cur' = where
  /\ UNCHANGED <<now, accepted, closed>>

Mut_Dispatchable(k) == k.st # "free"

(* The worker loop skips an event marked MK_EVENT_IDLE.                    *)
Dispatchable(k) == k.st = "open"

(* mk_sched_event_write, from the worker loop.                             *)
EventWrite(c) ==
  /\ cur.at = "loop" /\ ConnEv(c) \in ready
  /\ Dispatchable(conn[c]) /\ conn[c].mask = "W"
  /\ ready' = ready \ {ConnEv(c)}
  /\ \E o \in ChannelWrite(conn[c]) :
       \/ /\ o.ret \in {"FLUSH", "BUSY"}
          /\ Finish(c, o.k, o.errno)
       \/ /\ o.ret = "ERROR"
          /\ Finish(c, EventClose(o.k, "error"), o.errno)
       \/ /\ o.ret \in {"DONE", "EMPTY"}
          /\ \E d \in SchedDone(o.k, o.errno) :
               \/ d.ret = "close" /\ Finish(c, EventClose(d.k, "error"), d.errno)
               \/ d.ret = "more"  /\ Finish(c, d.k, d.errno)
               \/ /\ d.ret = "open"
                  /\ Continue(c, [d.k EXCEPT !.mask = "R"], d.errno,
                              Running("read", c))

(* The first half of mk_sched_event_read: cb_read.  It runs on a readable  *)
(* event, and right after a write event that switched the mask to READ.    *)
EventRead(c) ==
  /\ Dispatchable(conn[c]) /\ conn[c].mask = "R"
  /\ \/ cur.at = "loop" /\ ConnEv(c) \in ready
     \/ cur.at = "read" /\ cur.c = {c}
  /\ ready' = ready \ {ConnEv(c)}
  /\ \E o \in SchedRead(conn[c], errno) :
       \/ o.ret = "ok" /\ Continue(c, o.k, o.errno, Running("flush", c))
       \/ /\ o.ret = "fail" /\ o.errno = "EAGAIN"
          /\ Finish(c, o.k, o.errno)
       \/ /\ o.ret = "fail" /\ o.errno # "EAGAIN"
          /\ Finish(c, EventClose(o.k, "error"), o.errno)

Mut_AskWrite(k) == k

(* READ becomes WRITE in the epoll set.                                    *)
AskWrite(k) == [k EXCEPT !.mask = "W"]

Stop == {"DONE", "ERROR", "EMPTY"}

(* "do mk_channel_write while": the turn is not the last one; count keeps  *)
(* its value when the write assigned none.                                 *)
Count(o) == IF o.n > 0 THEN o.n ELSE cur.count
Again(o) == cur.total + Count(o) <= PageSize /\ o.ret \notin Stop

WriteTurn(c, o) ==
  /\ Again(o)
  /\ Continue(c, o.k, o.errno,
              [cur EXCEPT !.count = Count(o), !.total = @ + Count(o)])

(* The second half of mk_sched_event_read: flush what cb_read queued.      *)
ReadFlush(c) ==
  /\ cur.at = "flush" /\ cur.c = {c}
  /\ UNCHANGED ready
  /\ \E o \in ChannelWrite(conn[c]) :
       \/ WriteTurn(c, o)
       \/ /\ ~Again(o) /\ o.ret \in {"ERROR", "EMPTY"}
          /\ Finish(c, o.k, o.errno)
       \/ /\ ~Again(o) /\ o.ret \in {"FLUSH", "BUSY"}
          /\ Finish(c, AskWrite(o.k), o.errno)
       \/ /\ ~Again(o) /\ o.ret = "DONE"
          /\ \E d \in SchedDone(o.k, o.errno) :
               \/ d.ret = "open" /\ Finish(c, d.k, d.errno)
               \/ d.ret = "more" /\ Finish(c, AskWrite(d.k), d.errno)
               \/ /\ d.ret = "close"
                  /\ Finish(c, EventClose(d.k, "error"), d.errno)

(* mk_plugin_http_request_end, called once the plugin let go of c.         *)
PluginRequestEnd(c, k, e, hangup) ==
  LET ended == [PluginDone(k) EXCEPT !.status = "INCOMPLETE",
                                     !.close = @ \/ (k.req /\ hangup)]
  IN  IF ~k.req THEN Finish(c, ended, e)
      ELSE \E d \in RequestEnd(ended, e) :
             IF d.ret = "close"
             THEN Finish(c, EventClose(d.k, "done"), d.errno)
             ELSE Finish(c, d.k, d.errno)

(* A stage 30 plugin's event (cb_cgi_read, cgi_finish): a piece of its     *)
(* answer is queued and flushed; at the end of its input the last piece,   *)
(* if there is one, and the end of the request, which closes the           *)
(* connection or not.                                                      *)
PluginEvent(c) ==
  /\ cur.at = "loop" /\ PluginEv(c) \in ready
  /\ conn[c].plug /\ conn[c].sess /\ ~conn[c].stray
  /\ ready' = ready \ {PluginEv(c)}
  /\ \/ \E n \in 1..PIECE, h \in {"no", "end", "end_close"} :
          Continue(c, [conn[c] EXCEPT !.chan = @ \o <<n>>], errno,
                   [Running("pflush", c) EXCEPT !.hangup = h])
     \/ \E b \in BOOLEAN : PluginRequestEnd(c, conn[c], errno, b)

(* mk_channel_flush on behalf of the plugin.                               *)
PluginFlush(c) ==
  /\ cur.at = "pflush" /\ cur.c = {c}
  /\ UNCHANGED ready
  /\ \E o \in ChannelWrite(conn[c]) :
       LET k == IF o.ret \in {"FLUSH", "BUSY"} THEN AskWrite(o.k) ELSE o.k IN
       \/ WriteTurn(c, o)
       \/ ~Again(o) /\ cur.hangup = "no" /\ Finish(c, k, o.errno)
       \/ /\ ~Again(o) /\ cur.hangup # "no"
          /\ PluginRequestEnd(c, k, o.errno, cur.hangup = "end_close")

(* The event of a run whose session is gone: r->cs and r->sr point to a    *)
(* session that was removed, freed, or is another connection's by now.     *)
(* What cb_cgi_read does with it is undefined, and the model follows the   *)
(* worker no further.                                                      *)
Outlived(k) == k.stray \/ (k.plug /\ ~k.sess)

PluginAstray(c) ==
  /\ cur.at = "loop" /\ PluginEv(c) \in ready /\ Outlived(conn[c])
  /\ ready' = {}
  /\ cur' = Idle("undefined")
  /\ UNCHANGED <<conn, now, errno, accepted, closed>>

(* An event whose structure was closed earlier in the batch is skipped.    *)
SkipIdle(ev) ==
  /\ cur.at = "loop" /\ ev \in ready
  /\ \E c \in Conns : \/ ev = ConnEv(c) /\ ~Dispatchable(conn[c])
                      \/ ev = PluginEv(c) /\ ~conn[c].plug /\ ~conn[c].stray
  /\ ready' = ready \ {ev}
  /\ UNCHANGED <<conn, now, errno, cur, accepted, closed>>

(* mk_sched_check_timeouts, on the timer event.                            *)
Expired(k) == k.timed /\ k.st = "open" /\ k.arrive + Timeout <= now

CheckTimeouts ==
  LET late == {c \in Conns : Expired(conn[c])} IN
  /\ cur.at = "loop" /\ Timer \in ready
  /\ ready' = ready \ {Timer}
  /\ conn' = [c \in Conns |-> IF c \in late THEN EventClose(conn[c], "timeout")
                              ELSE conn[c]]
  /\ closed' = closed + Cardinality(late)
  /\ UNCHANGED <<now, errno, cur, accepted>>

(* mk_server_listen_handler, when accept(2) and epoll_ctl(2) succeed and   *)
(* no stage 10 plugin refuses; a refused connection leaves no trace here.  *)
Accept(c) ==
  /\ cur.at = "loop" /\ Listener \in ready
  /\ conn[c].st = "free" /\ accepted < MaxAccepts
  /\ ready' = ready \ {Listener}
  /\ conn' = [conn EXCEPT ![c] = TimeoutAdd([FreeConn EXCEPT
                     !.st = "open", !.arrive = now, !.stray = conn[c].stray])]
  /\ accepted' = accepted + 1
  /\ UNCHANGED <<now, errno, cur, closed>>

(* mk_sched_event_free_all, after the last event of the batch.             *)
Freed(k) == [FreeConn EXCEPT !.stray = Outlived(k)]

EventFreeAll ==
  /\ cur.at = "loop" /\ ready = {}
  /\ conn' = [c \in Conns |-> IF conn[c].st = "closed" THEN Freed(conn[c])
                              ELSE conn[c]]
  /\ cur' = Idle("wait")
  /\ UNCHANGED <<now, errno, ready, accepted, closed>>

(* What epoll can report: a readable or hung up socket, a writable or      *)
(* broken one that asked for it, a plugin's pipe, the timer, a client.     *)
Reportable ==
  LET slack == {c \in Conns : Len(conn[c].chan) < MaxStreams} IN
  {ConnEv(c) : c \in {d \in Conns :
      /\ conn[d].st = "open"
      /\ \/ conn[d].mask = "R" /\ d \in slack
         \/ conn[d].mask = "W" /\ (conn[d].room \/ "eio" \in Env)}}
  \cup {PluginEv(c) : c \in {d \in slack : conn[d].plug \/ conn[d].stray}}
  \cup {Timer}
  \cup {ev \in {Listener} : /\ accepted < MaxAccepts
                            /\ \E c \in Conns : conn[c].st = "free"}

(* mk_event_wait.                                                          *)
EventWait ==
  /\ cur.at = "wait"
  /\ ready' \in {S \in SUBSET Reportable : S # {} /\ Cardinality(S) <= MaxBatch}
  /\ cur' = Idle("loop")
  /\ UNCHANGED <<conn, now, errno, accepted, closed>>

(* The environment: the clock worker, and a client that reads its answer.  *)
Tick ==
  /\ now < MaxTime
  /\ now' = now + 1
  /\ UNCHANGED <<conn, errno, ready, cur, accepted, closed>>

ClientReads(c) ==
  /\ conn[c].st = "open" /\ ~conn[c].room
  /\ conn' = [conn EXCEPT ![c].room = TRUE]
  /\ UNCHANGED <<now, errno, ready, cur, accepted, closed>>

Handle(c) ==
  \/ EventWrite(c) \/ EventRead(c) \/ ReadFlush(c)
  \/ PluginEvent(c) \/ PluginFlush(c) \/ PluginAstray(c)
  \/ Accept(c)

Worker ==
  \/ \E c \in Conns : Handle(c)
  \/ \E c \in Conns : SkipIdle(ConnEv(c)) \/ SkipIdle(PluginEv(c))
  \/ CheckTimeouts
  \/ EventFreeAll
  \/ EventWait

(* Nothing is known of a worker after undefined behaviour.                 *)
Undefined == cur.at = "undefined" /\ UNCHANGED vars

Next == Worker \/ Tick \/ Undefined \/ \E c \in Conns : ClientReads(c)

Spec == Init /\ [][Next]_vars

(***************************************************************************)
(* Fairness.  The worker's own steps, the clock, and a client that keeps   *)
(* reading are weakly fair.  epoll is level triggered and the timer        *)
(* periodic: a connection that stays writable with a WRITE mask, and the   *)
(* timer, are reported again and again, hence strong fairness on a wait    *)
(* that reports them.                                                      *)
(***************************************************************************)
ReportsWritable(c) ==
  EventWait /\ conn[c].mask = "W" /\ ConnEv(c) \in ready'
ReportsTimer == EventWait /\ Timer \in ready'

FairSpec ==
  /\ Spec
  /\ WF_vars(Worker)
  /\ WF_vars(Tick)
  /\ SF_vars(ReportsTimer)
  /\ \A c \in Conns : WF_vars(ClientReads(c)) /\ SF_vars(ReportsWritable(c))

(* The same worker, with clients that may stop reading.                    *)
WorkerFairSpec == Spec /\ WF_vars(Worker)
-----------------------------------------------------------------------------
(* Properties.                                                             *)

Waiting == cur.at = "wait"
Open    == {c \in Conns : conn[c].st = "open"}

ConnType ==
  [st : {"free", "open", "closed"}, mask : {"R", "W"}, room : BOOLEAN,
   timed : BOOLEAN, arrive : Nat, chan : Seq(Nat \ {0}), sess : BOOLEAN,
   status : {"INCOMPLETE", "COMPLETED"}, req : BOOLEAN, whole : BOOLEAN,
   plug : BOOLEAN, early : BOOLEAN, stray : BOOLEAN,
   counter : Nat, served : Nat, close : BOOLEAN]

(* The state has its types: above all, no stream is left in a channel with *)
(* nothing to send, and only a handler in progress names a connection.     *)
TypeOK ==
  /\ conn \in [Conns -> ConnType]
  /\ now \in 0..MaxTime
  /\ errno \in {"OK", "EAGAIN", "EIO"}
  /\ ready \subseteq {Timer, Listener} \cup {ConnEv(c) : c \in Conns}
                     \cup {PluginEv(c) : c \in Conns}
  /\ cur \in [at : {"wait", "loop", "read", "flush", "pflush", "undefined"},
              c : SUBSET Conns, total : Nat, count : Nat,
              hangup : {"no", "end", "end_close"}]
  /\ cur.at \in {"wait", "loop", "undefined"} <=> cur.c = {}
  /\ accepted \in 0..MaxAccepts
  /\ closed \in Nat

(* Whatever closes a connection in the middle of a batch (an error, a      *)
(* timeout, a plugin), the events of that batch not yet visited still      *)
(* point to memory: mk_sched_event_free only queues the structure, and     *)
(* mk_sched_event_free_all runs after mk_event_foreach.                    *)
NoDanglingEvent ==
  \A c \in Conns : ConnEv(c) \in ready => conn[c].st # "free"

(* mk_sched_check_timeouts walks the timeout queue: what it finds there is *)
(* a live connection, however that connection met its end.                 *)
TimeoutQueueLive == \A c \in Conns : conn[c].timed => conn[c].st = "open"

(* accepted_connections - closed_connections, the load _next_target        *)
(* compares, is the number of connections the worker really holds.         *)
AccountedFor == accepted - closed = Cardinality(Open)

(* A closed connection has given back its session, its streams and its     *)
(* stage 30 handler before its memory is queued for release; but a plugin  *)
(* whose request cb_done ended while it was still at work may keep its     *)
(* event and its pointer to the session (see HangupReachesRun in MkCgi).   *)
ClosedIsReleased ==
  \A c \in Conns : conn[c].st = "closed" =>
    ~conn[c].sess /\ conn[c].chan = <<>> /\ (conn[c].plug => conn[c].early)

(* That is the only way to lose a plugin: as long as cb_done has not ended *)
(* its request under it, a plugin at work has its session, and a request   *)
(* in request_list through which mk_http_session_remove finds it, whatever *)
(* errors, timeouts and pipelined requests the connection goes through.    *)
PluginHasSession ==
  \A c \in Conns : conn[c].plug /\ ~conn[c].early =>
    conn[c].st = "open" /\ conn[c].sess /\ conn[c].req

(* Requests a session may have served when it has counted n of them.       *)
ServedMost(n) ==
  IF {"pipeline", "async"} \subseteq Env THEN 2 * n + 1 ELSE n + 1

(* However its requests end, a session serves at most one request more     *)
(* than MaxKeepAliveRequest.  Where clients pipeline and plugins answer, a *)
(* plugin's end that finds the next request in the buffer counts one and   *)
(* leaves the session INCOMPLETE, ready for yet another: two for each      *)
(* count.  (A session dropped under a stale EAGAIN leaves its connection   *)
(* to a second session, which counts from zero.)                           *)
KeepAliveBound ==
  \A c \in Conns : conn[c].served <= ServedMost(MaxKeepAlive)

(* conf/monkey.conf.in, MaxKeepAliveRequest: the maximum number of         *)
(* requests per connection.                                                *)
ServedWithinLimit == \A c \in Conns : conn[c].served <= MaxKeepAlive

(* mk_http_sched_done takes the first entry of request_list, and           *)
(* mk_list_entry_first is meant for a list with some node linked: a        *)
(* request is ended and counted only where there is one.                   *)
DoneHasRequest ==
  [][\A c \in Conns : conn'[c].counter = conn[c].counter + 1 =>
                         conn[c].req]_vars

(* When the worker goes back to epoll with something left to send, it has  *)
(* asked for the write event that will send it.                            *)
QueuedIsWatched ==
  Waiting => \A c \in Open : conn[c].chan # <<>> => conn[c].mask = "W"

(* The timeout queue holds every connection whose request is not complete  *)
(* (include/monkey/mk_scheduler.h, timeout_queue).                         *)
IncompleteIsTimed ==
  Waiting => \A c \in Open : ~conn[c].whole => conn[c].timed

(* cb_done runs once the whole channel data have been written: no request  *)
(* stays complete, its answer sent, with nobody to end it (on a socket     *)
(* number no stray run is registered for: stage 30 starts none there).     *)
CompletedIsPending ==
  Waiting => \A c \in Open :
    conn[c].sess /\ conn[c].status = "COMPLETED" /\ ~conn[c].stray =>
      conn[c].plug \/ (conn[c].mask = "W" /\ conn[c].chan # <<>>)

(* A complete request is answered: its connection goes on to the next      *)
(* request, or is closed.                                                  *)
Answered ==
  \A c \in Conns :
    conn[c].st = "open" /\ conn[c].status = "COMPLETED" ~>
      conn[c].st # "open" \/ conn[c].status = "INCOMPLETE"

(* No client can hold a connection by sending its request slowly: the      *)
(* request becomes complete, or mk_sched_check_timeouts closes it.  Only   *)
(* connections whose time is up before the bound on the clock count.       *)
Reaped ==
  \A c \in Conns :
    /\ conn[c].st = "open" /\ ~conn[c].whole
    /\ conn[c].arrive + Timeout <= MaxTime
    ~> conn[c].st # "open" \/ conn[c].whole

(* mk_sched_event_read leaves a socket that answers EAGAIN to epoll, and   *)
(* the worker turns to its other connections.                              *)
BusyIsLeftToEpoll == cur.at = "flush" /\ errno = "EAGAIN" ~> cur.at = "wait"
=============================================================================
