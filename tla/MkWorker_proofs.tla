--------------------------- MODULE MkWorker_proofs ---------------------------
(***************************************************************************)
(* Proofs about one worker thread, for any number of connections, any      *)
(* keep-alive limit and page size, any length of channels and batches.     *)
(***************************************************************************)
EXTENDS MkWorker, FiniteSetTheorems, SequenceTheorems, TLAPS

(***************************************************************************)
(* The inductive invariant.                                                *)
(***************************************************************************)

(* What a connection and its session keep wherever they are, also when     *)
(* the session is gone but the connection not yet closed: a plugin whose   *)
(* request cb_done did not end has a request in the list, and so has a     *)
(* session that says COMPLETED; the counts are within their limits.        *)
Sound(k) ==
  /\ k.plug /\ ~k.early => k.sess /\ k.req
  /\ k.sess /\ k.status = "COMPLETED" => k.req
  /\ k.counter <= MaxKeepAlive
  /\ k.served <= ServedMost(k.counter)

(* What holds of every connection, between any two steps: a connection     *)
(* that is not open holds nothing, and whoever asked for the write event   *)
(* has a session to end.                                                   *)
ConnOK(k) ==
  /\ Sound(k)
  /\ k.st # "open" => ~k.timed /\ ~k.sess /\ k.chan = <<>>
  /\ k.st = "open" /\ k.mask = "W" => k.sess

(* A session that may take its next request has room for it.               *)
Ready(k) ==
  k.sess /\ k.status = "INCOMPLETE" => k.served + 1 <= ServedMost(k.counter)

(* What the wake-ups of an open connection depend on, where its worker is  *)
(* on its behalf.  With something to send it has asked for the write       *)
(* event, or a handler is about to write.                                  *)
Watched(k, at) == k.chan # <<>> => k.mask = "W" \/ at \in {"flush", "pflush"}

(* Its timeout is on, unless a complete request has switched it off.       *)
Timed(k) ==
  /\ k.status = "COMPLETED" <=> k.whole
  /\ ~k.whole => k.timed
  /\ k.whole => k.sess

(* A complete request has an answer on its way.                            *)
Pending(k, at) ==
  k.sess /\ k.status = "COMPLETED" =>
    k.plug \/ (k.chan # <<>> /\ (k.mask = "W" \/ at = "flush"))

(* For which clients, plugins and sockets these hold.                      *)
WatchEnv ==
  /\ Env \cap {"eio", "malformed", "oversize"} = {}
  /\ "pipeline" \notin Env \/ "async" \notin Env
TimedEnv   == Env \subseteq {"malformed", "oversize"}
PendingEnv == Env \subseteq {"malformed", "oversize", "async"}

(* A connection in order, where the worker is on its behalf.               *)
Good(k, at) ==
  /\ ConnOK(k)
  /\ Ready(k)
  /\ k.plug => "async" \in Env
  /\ at \in {"read", "flush", "pflush"} => k.st = "open"
  /\ at \in {"flush", "pflush"} => k.sess
  /\ at = "pflush" => k.plug
  /\ k.st = "open" => /\ WatchEnv => Watched(k, at)
                      /\ TimedEnv => Timed(k)
                      /\ PendingEnv => Pending(k, at)

Place(c) == IF cur.c = {c} THEN cur.at ELSE "loop"

ConnsOK == \A c \in Conns : Good(conn[c], Place(c))

WorkerInv == TypeOK /\ ConnsOK /\ NoDanglingEvent /\ AccountedFor

-----------------------------------------------------------------------------
(***************************************************************************)
(* The operators on a connection.                                          *)
(***************************************************************************)
Errno == {"OK", "EAGAIN", "EIO"}

(* The most a session may have served grows with its count.                *)
LEMMA MostGrows ==
  ASSUME NEW n \in Nat
  PROVE  /\ ServedMost(n) \in Nat /\ ServedMost(n + 1) \in Nat
         /\ ServedMost(n) + 1 <= ServedMost(n + 1)
         /\ {"pipeline", "async"} \subseteq Env =>
              ServedMost(n) + 2 <= ServedMost(n + 1)
         /\ 1 <= ServedMost(n)
         /\ \A m \in Nat : n <= m => ServedMost(n) <= ServedMost(m)
BY DEF ServedMost

(* A connection that is open, between two calls.                           *)
Live(k) == k \in ConnType /\ k.st = "open" /\ ConnOK(k)

(* Streams may be sent, queued or dropped: nothing else depends on them.   *)
LEMMA ChanLive ==
  ASSUME NEW k, Live(k), NEW ch \in Seq(Nat \ {0}), NEW b \in BOOLEAN
  PROVE  /\ Live([k EXCEPT !.chan = ch])
         /\ Live([k EXCEPT !.chan = ch, !.room = b])
BY DEF Live, ConnType, ConnOK, Sound

(* Sending n units of the first stream leaves a channel of streams that    *)
(* all have something to send.                                             *)
LEMMA ConsumeType ==
  ASSUME NEW ch \in Seq(Nat \ {0}), ch # <<>>, NEW n \in 1..Head(ch)
  PROVE  /\ Consume(ch, n) \in Seq(Nat \ {0})
         /\ Tail(ch) \in Seq(Nat \ {0})
<1>1. Head(ch) \in Nat \ {0} /\ Tail(ch) \in Seq(Nat \ {0})
  BY HeadTailProperties
<1>2. CASE n = Head(ch) BY <1>1, <1>2 DEF Consume
<1>3. CASE n # Head(ch)
  <2>1. Head(ch) - n \in Nat \ {0} BY <1>1, <1>3
  <2>2. <<Head(ch) - n>> \in Seq(Nat \ {0}) BY <2>1
  <2>3. QED BY <1>1, <1>3, <2>2, ConcatProperties DEF Consume
<1>4. QED BY <1>1, <1>2, <1>3

(* The same connection but for its streams and its socket.                 *)
SameButChan(k, m) ==
  /\ m.st = k.st /\ m.mask = k.mask /\ m.timed = k.timed
  /\ m.sess = k.sess /\ m.status = k.status /\ m.req = k.req
  /\ m.whole = k.whole /\ m.plug = k.plug /\ m.counter = k.counter
  /\ m.close = k.close /\ m.early = k.early /\ m.stray = k.stray
  /\ m.served = k.served

(* mk_channel_write touches the channel only; what it reports is what it   *)
(* leaves behind.                                                          *)
LEMMA Writes ==
  ASSUME NEW k, Live(k), NEW o \in ChannelWrite(k)
  PROVE  /\ Live(o.k) /\ SameButChan(k, o.k)
         /\ o.errno \in Errno /\ o.n \in Nat
         /\ o.ret \in {"EMPTY", "DONE", "FLUSH", "BUSY", "ERROR"}
         /\ o.ret \in {"EMPTY", "DONE"} => o.k.chan = <<>>
         /\ o.ret \in {"FLUSH", "BUSY"} => o.k.chan # <<>>
         /\ o.ret = "EMPTY" <=> k.chan = <<>>
         /\ o.ret = "ERROR" => "eio" \in Env
<1>1. CASE k.chan = <<>>
  BY <1>1 DEF ChannelWrite, SameButChan, Errno
<1>2. CASE k.chan # <<>>
  <2>0. k.chan \in Seq(Nat \ {0}) /\ k.room \in BOOLEAN
    BY DEF Live, ConnType
  <2>t. Head(k.chan) \in Nat \ {0} /\ Tail(k.chan) \in Seq(Nat \ {0})
    BY <1>2, <2>0, HeadTailProperties
  <2>1. CASE \E n \in 1..Head(k.chan), r \in BOOLEAN : o = Sent(k, n, r)
    <3>1. PICK n \in 1..Head(k.chan), r \in BOOLEAN : o = Sent(k, n, r)
      BY <2>1
    <3>2. PICK ch \in Seq(Nat \ {0}) : ch = Consume(k.chan, n)
      BY <1>2, <2>0, ConsumeType
    <3>3. o.k = [k EXCEPT !.chan = ch, !.room = r] BY <3>1, <3>2 DEF Sent
    <3>4. Live([k EXCEPT !.chan = ch, !.room = r]) BY ChanLive
    <3>5. Live(o.k) BY <3>3, <3>4, Zenon
    <3>6. SameButChan(k, o.k) /\ o.k.chan = ch
      BY <3>3 DEF SameButChan, Live, ConnType
    <3>7. QED BY <1>2, <2>t, <3>1, <3>2, <3>5, <3>6 DEF Errno, Sent
  <2>2. CASE o = Blocked(k)
    BY <1>2, <2>2 DEF Blocked, SameButChan, Errno
  <2>3. CASE "eio" \in Env /\ \E e \in {"OK", "EIO"} : o = Broken(k, e)
    <3>1. PICK e \in {"OK", "EIO"} : o = Broken(k, e) BY <2>3
    <3>2. o.k = [k EXCEPT !.chan = Tail(k.chan)] BY <3>1 DEF Broken
    <3>3. Live([k EXCEPT !.chan = Tail(k.chan)]) BY <2>t, ChanLive
    <3>4. Live(o.k) BY <3>2, <3>3, Zenon
    <3>5. SameButChan(k, o.k) BY <3>2 DEF SameButChan, Live, ConnType
    <3>6. QED BY <1>2, <2>3, <3>1, <3>4, <3>5 DEF Errno, Broken
  <2>4. QED BY <1>2, <2>1, <2>2, <2>3 DEF ChannelWrite
<1>3. QED BY <1>1, <1>2

(* Streams queued behind a channel's own are streams of the channel.       *)
LEMMA Queues ==
  ASSUME NEW k, Live(k), NEW q \in Seq(Nat \ {0}), q # <<>>
  PROVE  /\ Live([k EXCEPT !.chan = @ \o q])
         /\ SameButChan(k, [k EXCEPT !.chan = @ \o q])
         /\ [k EXCEPT !.chan = @ \o q].chan # <<>>
<1>1. k.chan \in Seq(Nat \ {0}) BY DEF Live, ConnType
<1>2. k.chan \o q \in Seq(Nat \ {0}) /\ k.chan \o q # <<>>
  BY <1>1, ConcatProperties, ConcatEqualIffEmpty
<1>3. PICK ch \in Seq(Nat \ {0}) : ch = k.chan \o q /\ ch # <<>> BY <1>2
<1>4. Live([k EXCEPT !.chan = ch]) BY ChanLive
<1>5. SameButChan(k, [k EXCEPT !.chan = ch]) /\ [k EXCEPT !.chan = ch].chan = ch
  BY DEF SameButChan, Live, ConnType
<1>6. QED BY <1>3, <1>4, <1>5, Zenon

(* The streams this server queues are not empty.                           *)
LEMMA StreamType ==
  /\ <<HDR>> \in Seq(Nat \ {0}) /\ <<HDR>> # <<>>
  /\ <<HDR, FILE>> \in Seq(Nat \ {0}) /\ <<HDR, FILE>> # <<>>
BY DEF HDR, FILE

(* mk_http_error touches the channel only.                                 *)
LEMMA Refuses ==
  ASSUME NEW k, Live(k), NEW custom, NEW o \in HttpError(k, custom)
  PROVE  Live(o.k) /\ SameButChan(k, o.k) /\ o.errno \in Errno
<1>1. CASE \E w \in ChannelWrite([k EXCEPT !.chan = @ \o <<HDR>>]) :
             o = [k |-> w.k, errno |-> w.errno]
  <2>1. PICK m : m = [k EXCEPT !.chan = @ \o <<HDR>>] OBVIOUS
  <2>2. Live(m) /\ SameButChan(k, m) BY <2>1, Queues, StreamType, Zenon
  <2>3. PICK w \in ChannelWrite(m) : o = [k |-> w.k, errno |-> w.errno]
    BY <1>1, <2>1
  <2>4. Live(w.k) /\ SameButChan(m, w.k) /\ w.errno \in Errno
    BY <2>2, Writes
  <2>5. o.k = w.k /\ o.errno = w.errno BY <2>3
  <2>6. SameButChan(k, w.k) BY <2>2, <2>4 DEF SameButChan
  <2>7. QED BY <2>4, <2>5, <2>6, Zenon
<1>2. CASE o = [k |-> [k EXCEPT !.chan = @ \o <<HDR, FILE>>], errno |-> "OK"]
  <2>1. PICK m : m = [k EXCEPT !.chan = @ \o <<HDR, FILE>>] OBVIOUS
  <2>2. Live(m) /\ SameButChan(k, m) BY <2>1, Queues, StreamType, Zenon
  <2>3. o.k = m /\ o.errno = "OK" BY <1>2, <2>1
  <2>4. QED BY <2>2, <2>3 DEF Errno
<1>3. QED BY <1>1, <1>2 DEF HttpError

(* What a request that is being answered may change, and what it leaves    *)
(* behind: something to send, unless a plugin took it.                     *)
Prepared(k, m) ==
  /\ Live(m) /\ m.sess
  /\ m.mask = k.mask /\ m.timed = k.timed /\ m.status = k.status
  /\ m.whole = k.whole /\ m.req = k.req /\ m.counter = k.counter
  /\ m.served = k.served + 1
  /\ m.plug => k.plug \/ "async" \in Env
  /\ Env \cap {"error", "abort"} = {} => m.plug \/ m.chan # <<>>

(* mk_http_request_prepare, for a session with room for a request.         *)
LEMMA Prepares ==
  ASSUME NEW k0, Live(k0), k0.sess, k0.req,
         k0.served + 1 <= ServedMost(k0.counter),
         NEW o \in RequestPrepare(k0)
  PROVE  Prepared(k0, o.k) /\ o.errno \in Errno
<1>0. PICK k : k = [k0 EXCEPT !.served = @ + 1] OBVIOUS
<1>s. PICK n \in Nat : n = k0.served + 1 BY DEF Live, ConnType
<1>k. k = [k0 EXCEPT !.served = n] BY <1>0, <1>s, Zenon
<1>l. /\ Live(k) /\ k.sess /\ k.req /\ k.served = n
      /\ k.mask = k0.mask /\ k.timed = k0.timed /\ k.status = k0.status
      /\ k.whole = k0.whole /\ k.req = k0.req /\ k.plug = k0.plug
      /\ k.counter = k0.counter /\ k.close = k0.close
  BY <1>k, <1>s DEF Live, ConnType, ConnOK, Sound
<1>p. ASSUME NEW m, Live(m), m.sess,
             m.mask = k.mask, m.timed = k.timed, m.status = k.status,
             m.whole = k.whole, m.req = k.req, m.counter = k.counter,
             m.served = k.served, m.plug => k.plug \/ "async" \in Env,
             Env \cap {"error", "abort"} = {} => m.plug \/ m.chan # <<>>
      PROVE  Prepared(k0, m)
  BY <1>l, <1>p, <1>s DEF Prepared
<1>1. CASE "error" \in Env /\ o \in HttpError(k, FALSE)
  <2>1. Live(o.k) /\ SameButChan(k, o.k) /\ o.errno \in Errno
    BY <1>1, <1>l, Refuses
  <2>2. QED BY <1>1, <1>l, <1>p, <2>1 DEF SameButChan
<1>2. ASSUME NEW b \in KeepaliveCheck(k), o \in Answers([k EXCEPT !.close = b])
      PROVE  Prepared(k0, o.k) /\ o.errno \in Errno
  <2>1. b \in BOOLEAN BY <1>2, <1>l DEF KeepaliveCheck, Live, ConnType
  <2>2. PICK d : d = [k EXCEPT !.close = b] OBVIOUS
  <2>3. /\ Live(d) /\ d.sess
        /\ d.mask = k.mask /\ d.timed = k.timed /\ d.status = k.status
        /\ d.whole = k.whole /\ d.req = k.req /\ d.plug = k.plug
        /\ d.counter = k.counter /\ d.served = k.served
    BY <1>l, <2>1, <2>2 DEF Live, ConnType, ConnOK, Sound
  <2>4. ASSUME NEW q \in {<<HDR>>, <<HDR, FILE>>},
               o = [k |-> [d EXCEPT !.chan = @ \o q], errno |-> "OK"]
        PROVE  Prepared(k0, o.k) /\ o.errno \in Errno
    <3>1. q \in Seq(Nat \ {0}) /\ q # <<>> BY StreamType
    <3>2. o.k = [d EXCEPT !.chan = @ \o q] /\ o.errno = "OK" BY <2>4
    <3>3. /\ Live([d EXCEPT !.chan = @ \o q])
          /\ SameButChan(d, [d EXCEPT !.chan = @ \o q])
          /\ [d EXCEPT !.chan = @ \o q].chan # <<>>
      BY <2>3, <3>1, Queues
    <3>4. Live(o.k) /\ SameButChan(d, o.k) /\ o.k.chan # <<>>
      BY <3>2, <3>3, Zenon
    <3>5. /\ o.k.mask = d.mask /\ o.k.timed = d.timed /\ o.k.sess = d.sess
          /\ o.k.status = d.status /\ o.k.whole = d.whole /\ o.k.req = d.req
          /\ o.k.plug = d.plug /\ o.k.counter = d.counter
          /\ o.k.served = d.served
      BY <3>4, Zenon DEF SameButChan
    <3>6. /\ o.k.mask = k.mask /\ o.k.timed = k.timed /\ o.k.sess
          /\ o.k.status = k.status /\ o.k.whole = k.whole /\ o.k.req = k.req
          /\ o.k.counter = k.counter /\ o.k.served = k.served
      BY <2>3, <3>5
    <3>7. o.k.plug => k.plug \/ "async" \in Env BY <2>3, <3>5
    <3>8. Prepared(k0, o.k) BY <1>p, <3>4, <3>6, <3>7
    <3>9. QED BY <3>2, <3>8 DEF Errno
  <2>5. CASE "error" \in Env /\ o \in HttpError(d, TRUE)
    <3>1. Live(o.k) /\ SameButChan(d, o.k) /\ o.errno \in Errno
      BY <2>3, <2>5, Refuses
    <3>2. /\ o.k.mask = d.mask /\ o.k.timed = d.timed /\ o.k.sess = d.sess
          /\ o.k.status = d.status /\ o.k.whole = d.whole /\ o.k.req = d.req
          /\ o.k.plug = d.plug /\ o.k.counter = d.counter
          /\ o.k.served = d.served
      BY <3>1, Zenon DEF SameButChan
    <3>3. Env \cap {"error", "abort"} # {} BY <2>5
    <3>4. /\ o.k.mask = k.mask /\ o.k.timed = k.timed /\ o.k.sess
          /\ o.k.status = k.status /\ o.k.whole = k.whole /\ o.k.req = k.req
          /\ o.k.counter = k.counter /\ o.k.served = k.served
      BY <2>3, <3>2
    <3>5. o.k.plug => k.plug \/ "async" \in Env BY <2>3, <3>2
    <3>6. Prepared(k0, o.k) BY <1>p, <3>1, <3>3, <3>4, <3>5
    <3>7. QED BY <3>1, <3>6
  <2>6. CASE "abort" \in Env /\ o = [k |-> d, errno |-> "OK"]
    BY <1>p, <2>3, <2>6 DEF Errno
  <2>7. CASE "async" \in Env /\ o = [k |-> [d EXCEPT !.plug = TRUE], errno |-> "OK"]
    <3>1. PICK m : m = [d EXCEPT !.plug = TRUE] OBVIOUS
    <3>2. /\ Live(m) /\ m.sess /\ m.plug
          /\ m.mask = k.mask /\ m.timed = k.timed /\ m.status = k.status
          /\ m.whole = k.whole /\ m.req = k.req
          /\ m.counter = k.counter /\ m.served = k.served
      BY <1>l, <2>3, <3>1 DEF Live, ConnType, ConnOK, Sound
    <3>3. o.k = m /\ o.errno = "OK" BY <2>7, <3>1
    <3>4. QED BY <1>p, <2>7, <3>2, <3>3 DEF Errno
  <2>8. o \in Answers(d) BY <1>2, <2>2
  <2>9. QED BY <2>4, <2>5, <2>6, <2>7, <2>8 DEF Answers
<1>3. QED BY <1>0, <1>1, <1>2 DEF RequestPrepare

(* The outcomes of mk_http_request_end: the session is gone and the        *)
(* connection to be closed, or it waits for its next request, or it has    *)
(* one already, answered in the channel.                                   *)
Ended(k, d) ==
  /\ d.errno \in Errno /\ d.ret \in {"close", "open", "more"}
  /\ d.k \in ConnType /\ d.k.st = "open" /\ d.k.mask = k.mask
  /\ Sound(d.k) /\ Ready(d.k)
  /\ d.k.plug => k.plug \/ "async" \in Env
  /\ d.ret = "close" => ~d.k.sess
  /\ d.ret # "close" => Live(d.k) /\ d.k.sess
  /\ d.ret = "open" => d.k.chan = k.chan /\ d.k.plug = k.plug
  /\ d.ret = "open" /\ "pipeline" \notin Env =>
       d.k.status = "INCOMPLETE" /\ ~d.k.whole /\ d.k.timed
  /\ d.ret = "more" => "pipeline" \in Env

(* What mk_http_session_remove does: a plugin is left only if cb_done has  *)
(* ended its request.                                                      *)
LEMMA Removes ==
  ASSUME NEW k \in ConnType, Sound(k)
  PROVE  LET m == SessionRemove(k) IN
         /\ m \in ConnType /\ ~m.sess /\ Sound(m) /\ (m.plug => k.plug)
         /\ m.st = k.st /\ m.mask = k.mask /\ m.timed = k.timed
         /\ m.chan = k.chan /\ m.status = k.status /\ m.whole = k.whole
<1>1. PICK m : m = SessionRemove(k) OBVIOUS
<1>2. CASE ~k.sess
  <2>1. m = k BY <1>1, <1>2 DEF SessionRemove
  <2>2. QED BY <1>1, <1>2, <2>1, Zenon
<1>3. CASE k.sess /\ k.req /\ k.plug
  <2>1. m = [k EXCEPT !.plug = FALSE, !.early = FALSE, !.stray = FALSE,
                      !.sess = FALSE, !.req = FALSE]
    BY <1>1, <1>3 DEF SessionRemove, Hangup, PluginDone
  <2>2. /\ m \in ConnType /\ ~m.sess /\ Sound(m) /\ ~m.plug
        /\ m.st = k.st /\ m.mask = k.mask /\ m.timed = k.timed
        /\ m.chan = k.chan /\ m.status = k.status /\ m.whole = k.whole
    BY <2>1 DEF ConnType, Sound
  <2>3. QED BY <1>1, <2>2, Zenon
<1>4. CASE k.sess /\ ~(k.req /\ k.plug)
  <2>1. m = [k EXCEPT !.sess = FALSE, !.req = FALSE]
    BY <1>1, <1>4 DEF SessionRemove, Hangup
  <2>2. /\ m \in ConnType /\ ~m.sess /\ Sound(m) /\ (m.plug => k.plug)
        /\ m.st = k.st /\ m.mask = k.mask /\ m.timed = k.timed
        /\ m.chan = k.chan /\ m.status = k.status /\ m.whole = k.whole
    BY <1>4, <2>1 DEF ConnType, Sound
  <2>3. QED BY <1>1, <2>2, Zenon
<1>5. QED BY <1>2, <1>3, <1>4 DEF ConnType

(* Its last lines, for a connection that is to be closed or may go on, and *)
(* whose plugin, if it has one, knows that its request ends here.          *)
LEMMA ShutsDown ==
  ASSUME NEW k, Live(k), k.sess, k.plug => k.early, NEW e \in Errno,
         k.close \/ k.counter < MaxKeepAlive
  PROVE  Ended(k, Shutdown(k, e))
<1>0. k.counter \in Nat /\ k.served \in Nat /\ MaxKeepAlive \in Nat
  BY WorkerAssumption DEF Live, ConnType
<1>1. CASE k.close
  <2>1. PICK m : m = SessionRemove(k) OBVIOUS
  <2>2. k \in ConnType /\ Sound(k) /\ k.st = "open" BY DEF Live, ConnOK
  <2>3. /\ m \in ConnType /\ m.st = "open" /\ m.mask = k.mask
        /\ Sound(m) /\ (m.plug => k.plug) /\ ~m.sess
    BY <2>1, <2>2, Removes, Zenon
  <2>4. Shutdown(k, e) = [ret |-> "close", k |-> m, errno |-> e]
    BY <1>1, <2>1 DEF Shutdown
  <2>5. /\ Shutdown(k, e).ret = "close" /\ Shutdown(k, e).k = m
        /\ Shutdown(k, e).errno = e
    BY <2>4
  <2>6. QED BY <2>3, <2>5 DEF Ended, Ready
<1>2. CASE ~k.close
  <2>1. PICK m : m = TimeoutAdd(RequestKaNext([k EXCEPT !.req = FALSE]))
    OBVIOUS
  <2>2. /\ Live(m) /\ m \in ConnType /\ m.st = "open" /\ m.mask = k.mask
        /\ Ready(m) /\ m.plug = k.plug /\ m.sess
        /\ m.chan = k.chan /\ m.status = "INCOMPLETE" /\ ~m.whole /\ m.timed
    <3>1. PICK n \in Nat : n = k.counter + 1 /\ n <= MaxKeepAlive
      BY <1>0, <1>2
    <3>m. /\ k.served + 1 <= ServedMost(n) /\ k.served <= ServedMost(n)
      BY <1>0, <3>1, MostGrows DEF Live, ConnOK, Sound
    <3>2. PICK h : h = [k EXCEPT !.req = FALSE, !.counter = n,
                                 !.status = "INCOMPLETE", !.whole = FALSE,
                                 !.timed = TRUE]
      OBVIOUS
    <3>3. /\ h \in ConnType /\ h.st = "open" /\ h.mask = k.mask
          /\ h.plug = k.plug /\ h.early = k.early /\ h.sess
          /\ h.chan = k.chan /\ h.status = "INCOMPLETE" /\ ~h.whole
          /\ h.timed /\ h.counter = n /\ h.served = k.served
      BY <3>1, <3>2 DEF Live, ConnType
    <3>4. Live(h) /\ Ready(h)
      BY <3>1, <3>3, <3>m DEF Live, ConnOK, Sound, Ready
    <3>5. m = h
      <4>1. PICK g : g = [k EXCEPT !.req = FALSE] OBVIOUS
      <4>2. g.counter = k.counter /\ g \in ConnType
        BY <4>1 DEF Live, ConnType
      <4>3. PICK f : f = [g EXCEPT !.counter = n, !.status = "INCOMPLETE",
                                   !.whole = FALSE]
        OBVIOUS
      <4>4. f = RequestKaNext(g)
        BY <3>1, <4>2, <4>3, Zenon DEF RequestKaNext
      <4>5. m = [f EXCEPT !.timed = TRUE]
        BY <2>1, <4>1, <4>4, Zenon DEF TimeoutAdd
      <4>6. QED BY <3>2, <4>1, <4>3, <4>5 DEF Live, ConnType
    <3>6. QED BY <3>3, <3>4, <3>5
  <2>3. Shutdown(k, e) = [ret |-> "open", errno |-> e, k |-> m]
    BY <1>2, <2>1 DEF Shutdown
  <2>4. /\ Shutdown(k, e).ret = "open" /\ Shutdown(k, e).k = m
        /\ Shutdown(k, e).errno = e
    BY <2>3
  <2>5. QED BY <2>2, <2>4 DEF Ended, Live, ConnOK
<1>3. QED BY <1>1, <1>2

(* mk_http_request_end, with the limit on keep-alive requests checked      *)
(* before anything is counted.                                             *)
LEMMA Ends ==
  ASSUME NEW k, Live(k), k.sess, k.plug => k.early,
         "async" \notin Env => Ready(k),
         NEW e \in Errno, NEW d \in RequestEnd(k, e)
  PROVE  Ended(k, d)
<1>0. k.counter \in Nat /\ k.served \in Nat /\ MaxKeepAlive \in Nat
  BY WorkerAssumption DEF Live, ConnType
<1>1. CASE LimitReached(k)
  <2>1. PICK m : m = [k EXCEPT !.close = TRUE] OBVIOUS
  <2>2. /\ Live(m) /\ m.sess /\ m.close /\ m.mask = k.mask
        /\ m.plug = k.plug /\ m.chan = k.chan /\ m.early = k.early
    BY <2>1 DEF Live, ConnType, ConnOK, Sound
  <2>3. Ended(m, Shutdown(m, e)) BY <2>2, ShutsDown
  <2>4. d = Shutdown(m, e) BY <1>1, <2>1 DEF RequestEnd
  <2>5. QED BY <2>2, <2>3, <2>4 DEF Ended
<1>2. CASE ~LimitReached(k)
  <2>0. k.counter < MaxKeepAlive BY <1>0, <1>2 DEF LimitReached
  <2>1. CASE d = Shutdown(k, e) BY <2>0, <2>1, ShutsDown
  <2>2. PICK m : m = [k EXCEPT !.counter = @ + 1, !.req = TRUE, !.whole = FALSE]
    OBVIOUS
  <2>m. PICK n \in Nat : /\ n = k.counter + 1 /\ n <= MaxKeepAlive
                         /\ k.served + 1 <= ServedMost(n)
                         /\ k.served <= ServedMost(n)
                         /\ {"pipeline", "async"} \subseteq Env =>
                              k.served + 2 <= ServedMost(n)
    <3>1. PICK a \in Nat, b \in Nat : /\ a = ServedMost(k.counter)
                                      /\ b = ServedMost(k.counter + 1)
                                      /\ a + 1 <= b
                                      /\ {"pipeline", "async"} \subseteq Env =>
                                           a + 2 <= b
      BY <1>0, MostGrows
    <3>2. k.served <= a BY <3>1 DEF Live, ConnOK, Sound
    <3>3. PICK n \in Nat : n = k.counter + 1 BY <1>0
    <3>4. n <= MaxKeepAlive BY <1>0, <2>0, <3>3
    <3>5. k.served + 1 <= b /\ k.served <= b BY <1>0, <3>1, <3>2
    <3>6. {"pipeline", "async"} \subseteq Env => k.served + 2 <= b
      BY <1>0, <3>1, <3>2
    <3>7. QED BY <3>1, <3>3, <3>4, <3>5, <3>6
  <2>3. /\ Live(m) /\ m.sess /\ m.req /\ m.mask = k.mask /\ m.plug = k.plug
        /\ m.chan = k.chan /\ m.early = k.early /\ m.counter = n
        /\ m.served = k.served /\ m.status = k.status /\ Ready(m)
    <3>1. m = [k EXCEPT !.counter = n, !.req = TRUE, !.whole = FALSE]
      BY <2>2, <2>m, Zenon
    <3>2. QED BY <1>0, <2>m, <3>1 DEF Live, ConnType, ConnOK, Sound, Ready
  <2>4. ASSUME "pipeline" \in Env,
               NEW o \in RequestPrepare([m EXCEPT !.whole = TRUE]),
               d = [ret |-> "more", k |-> o.k, errno |-> o.errno]
        PROVE  Ended(k, d)
    <3>1. PICK w : w = [m EXCEPT !.whole = TRUE] OBVIOUS
    <3>2. /\ Live(w) /\ w.sess /\ w.req /\ w.mask = k.mask /\ w.plug = k.plug
          /\ w.counter = n /\ w.served = k.served /\ w.status = k.status
      BY <2>3, <3>1 DEF Live, ConnType, ConnOK, Sound
    <3>3. o \in RequestPrepare(w) BY <2>4, <3>1
    <3>4. Prepared(w, o.k) /\ o.errno \in Errno
      BY <2>m, <3>2, <3>3, Prepares
    <3>5. d.ret = "more" /\ d.k = o.k /\ d.errno = o.errno BY <2>4
    <3>6. Ready(o.k)
      <4>1. /\ o.k.served = k.served + 1 /\ o.k.counter = n
            /\ o.k.status = k.status
        BY <3>2, <3>4 DEF Prepared
      <4>2. SUFFICES ASSUME k.status = "INCOMPLETE"
                     PROVE  k.served + 1 + 1 <= ServedMost(n)
        BY <4>1 DEF Ready
      <4>3. CASE "async" \in Env
        <5>1. k.served + 2 <= ServedMost(n) BY <2>4, <2>m, <4>3
        <5>2. ServedMost(n) \in Nat BY MostGrows
        <5>3. QED BY <1>0, <5>1, <5>2
      <4>4. CASE "async" \notin Env
        <5>1. k.served + 1 <= ServedMost(k.counter)
          BY <4>2, <4>4 DEF Ready
        <5>2. /\ ServedMost(k.counter) \in Nat /\ ServedMost(n) \in Nat
              /\ ServedMost(k.counter) + 1 <= ServedMost(n)
          BY <1>0, <2>m, MostGrows
        <5>3. QED BY <1>0, <5>1, <5>2
      <4>5. QED BY <4>3, <4>4
    <3>7. QED
      BY <2>4, <3>2, <3>4, <3>5, <3>6 DEF Prepared, Ended, Live, ConnOK
  <2>5. CASE "pipeline" \in Env /\ d = [ret |-> "open", k |-> m, errno |-> e]
    BY <2>3, <2>5 DEF Ended, Live, ConnOK
  <2>6. CASE d = Shutdown([m EXCEPT !.close = TRUE], e)
    <3>1. PICK w : w = [m EXCEPT !.close = TRUE] OBVIOUS
    <3>2. /\ Live(w) /\ w.sess /\ w.close /\ w.mask = k.mask
          /\ w.plug = k.plug /\ w.chan = k.chan /\ w.early = k.early
      BY <2>3, <3>1 DEF Live, ConnType, ConnOK, Sound
    <3>3. Ended(w, Shutdown(w, e)) BY <3>2, ShutsDown
    <3>4. d = Shutdown(w, e) BY <2>6, <3>1
    <3>5. QED BY <3>2, <3>3, <3>4 DEF Ended
  <2>7. \/ d = Shutdown(k, e)
        \/ /\ "pipeline" \in Env
           /\ \/ \E o \in RequestPrepare([m EXCEPT !.whole = TRUE]) :
                   d = [ret |-> "more", k |-> o.k, errno |-> o.errno]
              \/ d = [ret |-> "open", k |-> m, errno |-> e]
              \/ d = Shutdown([m EXCEPT !.close = TRUE], e)
    BY <1>2, <2>2 DEF RequestEnd
  <2>8. QED BY <2>1, <2>4, <2>5, <2>6, <2>7
<1>3. QED BY <1>1, <1>2

(* mk_http_sched_done.                                                     *)
LEMMA Dones ==
  ASSUME NEW k, Live(k), k.sess, Ready(k), NEW e \in Errno,
         NEW d \in SchedDone(k, e)
  PROVE  Ended(k, d)
<1>1. PICK m : m = [k EXCEPT !.early = k.plug] OBVIOUS
<1>2. /\ Live(m) /\ m.sess /\ (m.plug => m.early) /\ Ready(m)
      /\ m.mask = k.mask /\ m.plug = k.plug /\ m.chan = k.chan
  BY <1>1 DEF Live, ConnType, ConnOK, Sound, Ready
<1>3. d \in RequestEnd(m, e) BY <1>1 DEF SchedDone
<1>4. Ended(m, d) BY <1>2, <1>3, Ends
<1>5. QED BY <1>2, <1>4 DEF Ended

(* The parser error path only writes.                                      *)
LEMMA ParserErrs ==
  ASSUME NEW k, Live(k), NEW e \in Errno, NEW o \in ParserError(k, e)
  PROVE  Live(o.k) /\ SameButChan(k, o.k) /\ o.errno \in Errno
<1>1. PICK p \in {[k |-> k, errno |-> e]} \cup HttpError(k, FALSE) :
        IF p.k.chan = <<>> THEN o = p
        ELSE \E w \in ChannelWrite(p.k) : o = [k |-> w.k, errno |-> w.errno]
  BY DEF ParserError
<1>2. Live(p.k) /\ SameButChan(k, p.k) /\ p.errno \in Errno
  <2>1. CASE p = [k |-> k, errno |-> e] BY <2>1 DEF SameButChan
  <2>2. CASE p \in HttpError(k, FALSE) BY <2>2, Refuses
  <2>3. QED BY <1>1, <2>1, <2>2
<1>3. CASE o = p BY <1>2, <1>3
<1>4. ASSUME NEW w \in ChannelWrite(p.k), o = [k |-> w.k, errno |-> w.errno]
      PROVE  Live(o.k) /\ SameButChan(k, o.k) /\ o.errno \in Errno
  <2>1. Live(w.k) /\ SameButChan(p.k, w.k) /\ w.errno \in Errno
    BY <1>2, Writes
  <2>2. o.k = w.k /\ o.errno = w.errno BY <1>4
  <2>3. SameButChan(k, w.k) BY <1>2, <2>1 DEF SameButChan
  <2>4. QED BY <2>1, <2>2, <2>3, Zenon
<1>5. QED BY <1>1, <1>3, <1>4

(* The outcomes of cb_read on an open connection.                          *)
ReadDone(k, o) ==
  /\ o.ret \in {"ok", "fail"} /\ o.errno \in Errno
  /\ Live(o.k) /\ Ready(o.k) /\ o.k.mask = k.mask
  /\ o.ret = "ok" => o.k.sess
  /\ o.k.plug => k.plug \/ "async" \in Env
  /\ o.ret = "fail" /\ Env \cap {"malformed", "oversize"} = {} =>
       o.k.chan = k.chan
  /\ ~k.whole /\ k.status = "INCOMPLETE" /\ k.timed =>
       /\ o.k.status = "COMPLETED" <=> o.k.whole
       /\ ~o.k.whole => o.k.timed
       /\ o.k.whole => o.ret = "ok" /\ o.k.sess
  /\ /\ Env \cap {"error", "abort"} = {}
     /\ k.sess /\ k.status = "COMPLETED" => k.plug
     => (o.k.sess /\ o.k.status = "COMPLETED" =>
           o.k.plug \/ (o.ret = "ok" /\ o.k.chan # <<>>))

(* mk_http_handler_read on a connection with a session.                    *)
LEMMA HandlerReads ==
  ASSUME NEW k, Live(k), k.mask = "R", k.sess, k.req, Ready(k),
         NEW e \in Errno, NEW o \in HandlerRead(k, e)
  PROVE  ReadDone(k, o)
<1>0. k \in ConnType BY DEF Live
<1>1. CASE o = Goes(k, e)
  <2>1. o.ret = "ok" /\ o.k = k /\ o.errno = e BY <1>1 DEF Goes
  <2>2. QED BY <1>0, <2>1 DEF ReadDone, ConnType
<1>2. ASSUME NEW m, Live(m), SameButChan(k, m), NEW x \in Errno,
             o = Dropped(m, x),
             Env \cap {"malformed", "oversize"} # {} \/ m.chan = k.chan
      PROVE  ReadDone(k, o)
  <2>1. PICK g : g = SessionRemove(m) OBVIOUS
  <2>2. o.ret = "fail" /\ o.k = g /\ o.errno = x
    BY <1>2, <2>1 DEF Dropped, Failed
  <2>3. m \in ConnType /\ Sound(m) BY <1>2 DEF Live, ConnOK
  <2>4. /\ g \in ConnType /\ ~g.sess /\ Sound(g) /\ (g.plug => m.plug)
        /\ g.st = m.st /\ g.mask = m.mask /\ g.timed = m.timed
        /\ g.chan = m.chan /\ g.status = m.status /\ g.whole = m.whole
    BY <2>1, <2>3, Removes, Zenon
  <2>5. Live(g) /\ Ready(g) /\ (g.plug => k.plug)
    BY <1>2, <2>4 DEF Live, ConnOK, SameButChan, Ready
  <2>6. /\ g.mask = k.mask /\ g.timed = k.timed /\ g.status = k.status
        /\ g.whole = k.whole
    BY <1>2, <2>4 DEF SameButChan
  <2>7. QED BY <1>0, <1>2, <2>2, <2>4, <2>5, <2>6 DEF ReadDone, ConnType
<1>3. CASE k.status = "COMPLETED" /\ o = Dropped(k, e)
  BY <1>2, <1>3 DEF SameButChan
<1>4. ASSUME k.status # "COMPLETED",
             NEW p \in RequestPrepare(TimeoutDel(
                         [k EXCEPT !.status = "COMPLETED", !.whole = TRUE])),
             o = Goes(p.k, p.errno)
      PROVE  ReadDone(k, o)
  <2>1. PICK m : m = TimeoutDel([k EXCEPT !.status = "COMPLETED",
                                          !.whole = TRUE])
    OBVIOUS
  <2>2. /\ Live(m) /\ m.sess /\ m.req /\ m.mask = k.mask /\ m.plug = k.plug
        /\ m.status = "COMPLETED" /\ m.whole /\ ~m.timed
        /\ m.served = k.served /\ m.counter = k.counter
    BY <2>1 DEF TimeoutDel, Live, ConnType, ConnOK, Sound
  <2>s. k.status = "INCOMPLETE" BY <1>0, <1>4 DEF ConnType
  <2>r. m.served + 1 <= ServedMost(m.counter) BY <2>2, <2>s DEF Ready
  <2>3. p \in RequestPrepare(m) BY <1>4, <2>1
  <2>4. Prepared(m, p.k) /\ p.errno \in Errno BY <2>2, <2>3, <2>r, Prepares
  <2>5. o.ret = "ok" /\ o.k = p.k /\ o.errno = p.errno BY <1>4 DEF Goes
  <2>6. QED BY <2>2, <2>4, <2>5 DEF Prepared, ReadDone, Ready
<1>5. ASSUME "malformed" \in Env, NEW p \in ParserError(k, e),
             o = Dropped(p.k, p.errno)
      PROVE  ReadDone(k, o)
  <2>1. Live(p.k) /\ SameButChan(k, p.k) /\ p.errno \in Errno BY ParserErrs
  <2>2. QED BY <1>2, <1>5, <2>1
<1>6. ASSUME "oversize" \in Env, NEW p \in HttpError(k, FALSE),
             o = Dropped(p.k, p.errno)
      PROVE  ReadDone(k, o)
  <2>1. Live(p.k) /\ SameButChan(k, p.k) /\ p.errno \in Errno BY Refuses
  <2>2. QED BY <1>2, <1>6, <2>1
<1>7. QED BY <1>1, <1>3, <1>4, <1>5, <1>6 DEF HandlerRead

(* mk_http_sched_read, which begins a session when there is none.          *)
LEMMA Reads ==
  ASSUME NEW k, Live(k), Ready(k), k.mask = "R", NEW e \in Errno,
         NEW o \in SchedRead(k, e)
  PROVE  ReadDone(k, o)
<1>1. PICK g : g = IF k.sess THEN k ELSE SessionInit(k) OBVIOUS
<1>2. /\ Live(g) /\ Ready(g) /\ g.sess /\ g.mask = k.mask /\ g.plug = k.plug
      /\ g.chan = k.chan /\ g.timed = k.timed
      /\ g = k \/ (g.status = "INCOMPLETE" /\ ~g.whole)
  <2>1. CASE k.sess BY <1>1, <2>1
  <2>2. CASE ~k.sess
    <3>1. g = SessionInit(k) BY <1>1, <2>2
    <3>2. 0 <= MaxKeepAlive BY WorkerAssumption
    <3>m. 0 <= ServedMost(0) /\ 0 + 1 <= ServedMost(0) BY DEF ServedMost
    <3>3. /\ g \in ConnType /\ g.st = "open" /\ g.sess /\ g.mask = k.mask
          /\ g.plug = k.plug /\ g.early = k.early /\ g.chan = k.chan
          /\ g.timed = k.timed /\ g.status = "INCOMPLETE" /\ ~g.whole
          /\ g.counter = 0 /\ g.served = 0
      BY <3>1 DEF SessionInit, Live, ConnType
    <3>4. k.plug => k.early BY <2>2 DEF Live, ConnOK, Sound
    <3>5. QED
      BY <2>2, <3>2, <3>3, <3>4, <3>m DEF Live, ConnOK, Sound, Ready
  <2>3. QED BY <2>1, <2>2
<1>3. PICK m : m = [g EXCEPT !.req = TRUE] OBVIOUS
<1>4. /\ Live(m) /\ Ready(m) /\ m.sess /\ m.req /\ m.mask = k.mask
      /\ m.plug = k.plug /\ m.chan = k.chan /\ m.timed = k.timed
      /\ m.status = g.status /\ m.whole = g.whole
  BY <1>2, <1>3 DEF Live, ConnType, ConnOK, Sound, Ready
<1>5. CASE \E x \in Errno : o = Failed(g, x)
  <2>1. PICK x \in Errno : o = Failed(g, x) BY <1>5
  <2>2. o.ret = "fail" /\ o.k = g /\ o.errno = x BY <2>1 DEF Failed
  <2>3. QED BY <1>2, <2>2 DEF ReadDone
<1>6. CASE o \in HandlerRead(m, e)
  <2>1. ReadDone(m, o) BY <1>4, <1>6, HandlerReads
  <2>2. QED BY <1>2, <1>4, <2>1 DEF ReadDone
<1>7. QED BY <1>1, <1>3, <1>5, <1>6 DEF SchedRead, Errno

(* mk_sched_event_close leaves a connection that holds nothing: cb_close   *)
(* removes the session unless it is gone already.                          *)
LEMMA Closes ==
  ASSUME NEW k \in ConnType, NEW by, Sound(k), by = "done" => ~k.sess
  PROVE  /\ EventClose(k, by) \in ConnType /\ EventClose(k, by).st = "closed"
         /\ ConnOK(EventClose(k, by)) /\ Ready(EventClose(k, by))
         /\ EventClose(k, by).plug => k.plug
<1>1. PICK m : m = IF by = "done" THEN k ELSE SessionRemove(k) OBVIOUS
<1>2. m \in ConnType /\ ~m.sess /\ Sound(m) /\ (m.plug => k.plug)
  <2>1. CASE by = "done" BY <1>1, <2>1
  <2>2. CASE by # "done"
    <3>1. m = SessionRemove(k) BY <1>1, <2>2
    <3>2. QED BY <3>1, Removes, Zenon
  <2>3. QED BY <2>1, <2>2
<1>3. PICK g : g = [TimeoutDel(m) EXCEPT !.st = "closed", !.chan = <<>>]
  OBVIOUS
<1>4. /\ g \in ConnType /\ g.st = "closed" /\ ~g.timed /\ ~g.sess
      /\ g.chan = <<>> /\ g.plug = m.plug /\ Sound(g)
  <2>1. PICK t : t = [m EXCEPT !.timed = FALSE] OBVIOUS
  <2>2. t \in ConnType /\ ~t.timed /\ ~t.sess /\ Sound(t) /\ t.plug = m.plug
    BY <1>2, <2>1 DEF ConnType, Sound
  <2>3. g = [t EXCEPT !.st = "closed", !.chan = <<>>]
    BY <1>3, <2>1, Zenon DEF TimeoutDel
  <2>4. <<>> \in Seq(Nat \ {0}) OBVIOUS
  <2>5. QED BY <2>2, <2>3, <2>4 DEF ConnType, Sound
<1>5. EventClose(k, by) = g BY <1>1, <1>3 DEF EventClose, RemoveClient
<1>6. ConnOK(g) /\ Ready(g) BY <1>4 DEF ConnOK, Ready
<1>7. QED BY <1>2, <1>4, <1>5, <1>6

-----------------------------------------------------------------------------
(***************************************************************************)
(* The steps.                                                              *)
(***************************************************************************)
CurType ==
  [at : {"wait", "loop", "read", "flush", "pflush", "undefined"},
   c : SUBSET Conns, total : Nat, count : Nat, hangup : {"no", "end", "end_close"}]

(* The connections that are open, when one of them changes.                *)
LEMMA Counts ==
  ASSUME WorkerInv, NEW c \in Conns, conn[c].st = "open",
         NEW k \in ConnType, k.st \in {"open", "closed"},
         conn' = [conn EXCEPT ![c] = k]
  PROVE  /\ IsFiniteSet(Open) /\ Cardinality(Open) \in Nat
         /\ Cardinality(Open') = IF k.st = "closed" THEN Cardinality(Open) - 1
                                 ELSE Cardinality(Open)
<1>0. conn \in [Conns -> ConnType] BY DEF WorkerInv, TypeOK
<1>1. Open \subseteq Conns BY DEF Open
<1>2. IsFiniteSet(Open) BY <1>1, WorkerAssumption, FS_Subset
<1>3. Cardinality(Open) \in Nat BY <1>2, FS_CardinalityType
<1>4. c \in Open BY DEF Open
<1>5. Open' = IF k.st = "closed" THEN Open \ {c} ELSE Open
  BY <1>0 DEF Open
<1>6. Cardinality(Open \ {c}) = Cardinality(Open) - 1
  BY <1>2, <1>4, FS_RemoveElement
<1>7. QED BY <1>2, <1>3, <1>5, <1>6

(* Whatever a handler stores in an open connection, as long as the         *)
(* connection is in order afterwards and a close is counted.               *)
LEMMA Stores ==
  ASSUME WorkerInv, NEW c \in Conns, conn[c].st = "open",
         cur.c \in {{}, {c}},
         NEW k \in ConnType, k.st \in {"open", "closed"},
         conn' = [conn EXCEPT ![c] = k], errno' \in Errno,
         closed' = IF k.st = "closed" THEN closed + 1 ELSE closed,
         ready' \subseteq ready, UNCHANGED <<now, accepted>>,
         cur' \in CurType, cur'.at \in {"wait", "loop", "undefined"} <=> cur'.c = {},
         cur'.c \in {{}, {c}}, Good(k, Place(c)')
  PROVE  WorkerInv'
<1>0. TypeOK /\ ConnsOK /\ NoDanglingEvent /\ AccountedFor BY DEF WorkerInv
<1>1. /\ conn'[c] = k /\ \A d \in Conns \ {c} : conn'[d] = conn[d]
      /\ conn' \in [Conns -> ConnType]
  BY <1>0 DEF TypeOK
<1>2. TypeOK'
  BY <1>0, <1>1 DEF TypeOK, CurType, Errno
<1>3. ConnsOK'
  <2> SUFFICES ASSUME NEW d \in Conns PROVE Good(conn'[d], Place(d)')
    BY DEF ConnsOK
  <2>1. CASE d = c BY <1>1, <2>1
  <2>2. CASE d # c
    <3>1. {d} # {c} /\ {d} # {} BY <2>2
    <3>2. Place(d) = "loop" /\ Place(d)' = "loop" BY <3>1 DEF Place
    <3>3. Good(conn[d], "loop") BY <1>0, <3>2 DEF ConnsOK
    <3>4. QED BY <1>1, <2>2, <3>2, <3>3
  <2>3. QED BY <2>1, <2>2
<1>4. NoDanglingEvent' BY <1>0, <1>1 DEF NoDanglingEvent
<1>5. AccountedFor'
  <2>1. /\ Cardinality(Open) \in Nat
        /\ Cardinality(Open') = IF k.st = "closed" THEN Cardinality(Open) - 1
                                ELSE Cardinality(Open)
    BY Counts
  <2>2. accepted \in Nat /\ closed \in Nat BY <1>0 DEF TypeOK
  <2>3. QED BY <1>0, <2>1, <2>2 DEF AccountedFor
<1>6. QED BY <1>2, <1>3, <1>4, <1>5 DEF WorkerInv

(* A handler that returns to the loop.                                     *)
LEMMA Finishes ==
  ASSUME WorkerInv, NEW c \in Conns, conn[c].st = "open",
         cur.c \in {{}, {c}},
         NEW k \in ConnType, Good(k, "loop"), k.st \in {"open", "closed"},
         NEW e \in Errno, Finish(c, k, e), ready' \subseteq ready
  PROVE  WorkerInv'
<1>1. cur' = [at |-> "loop", c |-> {}, total |-> 0, count |-> 0,
              hangup |-> "no"]
  BY DEF Finish, Idle, At
<1>2. cur' \in CurType /\ (cur'.at \in {"wait", "loop", "undefined"} <=> cur'.c = {})
  BY <1>1 DEF CurType
<1>3. Place(c)' = "loop" /\ cur'.c = {} BY <1>1 DEF Place
<1>4. Good(k, Place(c)') BY <1>3
<1>5. QED BY <1>2, <1>3, <1>4, Stores DEF Finish

(* A handler that closes the connection.                                   *)
LEMMA FinishesClosed ==
  ASSUME WorkerInv, NEW c \in Conns, conn[c].st = "open",
         cur.c \in {{}, {c}},
         NEW k \in ConnType, NEW by, Sound(k), by = "done" => ~k.sess,
         k.plug => "async" \in Env,
         NEW e \in Errno, Finish(c, EventClose(k, by), e),
         ready' \subseteq ready
  PROVE  WorkerInv'
<1>1. PICK m \in ConnType : /\ m = EventClose(k, by) /\ m.st = "closed"
                            /\ ConnOK(m) /\ Ready(m) /\ (m.plug => k.plug)
  BY Closes
<1>2. Good(m, "loop") BY <1>1 DEF Good
<1>3. Finish(c, m, e) BY <1>1
<1>4. QED BY <1>1, <1>2, <1>3, Finishes

(* A handler that goes on with an open connection.                         *)
LEMMA Continues ==
  ASSUME WorkerInv, NEW c \in Conns, conn[c].st = "open",
         cur.c \in {{}, {c}},
         NEW k, Live(k), NEW e \in Errno, NEW where \in CurType,
         where.c = {c}, where.at \in {"read", "flush", "pflush"},
         Good(k, where.at),
         Continue(c, k, e, where), ready' \subseteq ready
  PROVE  WorkerInv'
<1>1. cur' = where /\ conn' = [conn EXCEPT ![c] = k] /\ closed' = closed
  BY DEF Continue
<1>2. cur'.at \in {"wait", "loop", "undefined"} <=> cur'.c = {} BY <1>1
<1>3. Place(c)' = where.at BY <1>1 DEF Place
<1>4. Good(k, Place(c)') BY <1>3
<1>5. k \in ConnType /\ k.st = "open" BY DEF Live
<1>6. QED BY <1>1, <1>2, <1>4, <1>5, Stores DEF Continue

(* What a handler knows of the connection it works on.                     *)
LEMMA Here ==
  ASSUME WorkerInv, NEW c \in Conns
  PROVE  /\ conn[c] \in ConnType /\ ConnOK(conn[c])
         /\ Good(conn[c], Place(c)) /\ errno \in Errno
         /\ conn[c].st = "open" => Live(conn[c])
         /\ cur \in CurType /\ (cur.at \in {"wait", "loop", "undefined"} <=> cur.c = {})
         /\ cur.at = "loop" => Place(c) = "loop"
         /\ cur.c = {c} => Place(c) = cur.at
<1>1. TypeOK /\ ConnsOK BY DEF WorkerInv
<1>2. /\ conn[c] \in ConnType /\ errno \in Errno /\ cur \in CurType
      /\ cur.at \in {"wait", "loop", "undefined"} <=> cur.c = {}
  BY <1>1 DEF TypeOK, Errno, CurType
<1>3. Good(conn[c], Place(c)) BY <1>1 DEF ConnsOK
<1>4. ConnOK(conn[c]) BY <1>3 DEF Good
<1>5. QED BY <1>2, <1>3, <1>4 DEF Live, Place

(* The record Running(where, c).                                           *)
LEMMA RunningType ==
  ASSUME NEW c \in Conns, NEW where \in {"read", "flush", "pflush"}
  PROVE  /\ Running(where, c) \in CurType
         /\ Running(where, c).c = {c} /\ Running(where, c).at = where
BY DEF Running, At, CurType

(* mk_sched_event_write keeps the invariant.                               *)
LEMMA EventWriteKeeps ==
  ASSUME WorkerInv, NEW c \in Conns, EventWrite(c)
  PROVE  WorkerInv'
<1>0. /\ conn[c].st = "open" /\ conn[c].mask = "W" /\ cur.at = "loop"
      /\ ready' \subseteq ready
  BY DEF EventWrite, Dispatchable
<1>1. /\ Live(conn[c]) /\ Good(conn[c], "loop") /\ cur.c = {}
      /\ conn[c].sess
  <2>1. Live(conn[c]) /\ Good(conn[c], "loop") /\ cur.c = {} BY <1>0, Here
  <2>2. QED BY <1>0, <2>1 DEF Good, ConnOK, Sound
<1>2. PICK o \in ChannelWrite(conn[c]) :
        \/ o.ret \in {"FLUSH", "BUSY"} /\ Finish(c, o.k, o.errno)
        \/ o.ret = "ERROR" /\ Finish(c, EventClose(o.k, "error"), o.errno)
        \/ /\ o.ret \in {"DONE", "EMPTY"}
           /\ \E d \in SchedDone(o.k, o.errno) :
                \/ /\ d.ret = "close"
                   /\ Finish(c, EventClose(d.k, "error"), d.errno)
                \/ d.ret = "more"  /\ Finish(c, d.k, d.errno)
                \/ /\ d.ret = "open"
                   /\ Continue(c, [d.k EXCEPT !.mask = "R"], d.errno,
                               Running("read", c))
  BY DEF EventWrite
<1>3. /\ Live(o.k) /\ SameButChan(conn[c], o.k) /\ o.errno \in Errno
      /\ o.ret \in {"EMPTY", "DONE"} => o.k.chan = <<>>
      /\ o.ret \in {"FLUSH", "BUSY"} => o.k.chan # <<>>
  BY <1>1, Writes
<1>4. /\ o.k \in ConnType /\ o.k.st = "open" /\ o.k.mask = "W" /\ o.k.sess
      /\ Sound(o.k) /\ Ready(o.k) /\ (o.k.plug => "async" \in Env)
  BY <1>0, <1>1, <1>3 DEF Live, ConnOK, SameButChan, Good, Ready
<1>5. CASE o.ret \in {"FLUSH", "BUSY"} /\ Finish(c, o.k, o.errno)
  <2>1. Good(o.k, "loop")
    BY <1>1, <1>3, <1>4, <1>5
       DEF Good, Live, SameButChan, Watched, Timed, Pending
  <2>2. QED BY <1>0, <1>1, <1>3, <1>4, <1>5, <2>1, Finishes
<1>6. CASE o.ret = "ERROR" /\ Finish(c, EventClose(o.k, "error"), o.errno)
  BY <1>0, <1>1, <1>3, <1>4, <1>6, FinishesClosed
<1>7. CASE /\ o.ret \in {"DONE", "EMPTY"}
           /\ \E d \in SchedDone(o.k, o.errno) :
                \/ /\ d.ret = "close"
                   /\ Finish(c, EventClose(d.k, "error"), d.errno)
                \/ d.ret = "more"  /\ Finish(c, d.k, d.errno)
                \/ /\ d.ret = "open"
                   /\ Continue(c, [d.k EXCEPT !.mask = "R"], d.errno,
                               Running("read", c))
  <2>1. PICK d \in SchedDone(o.k, o.errno) :
          \/ d.ret = "close" /\ Finish(c, EventClose(d.k, "error"), d.errno)
          \/ d.ret = "more"  /\ Finish(c, d.k, d.errno)
          \/ /\ d.ret = "open"
             /\ Continue(c, [d.k EXCEPT !.mask = "R"], d.errno,
                         Running("read", c))
    BY <1>7
  <2>2. Ended(o.k, d) BY <1>3, <1>4, <2>1, Dones
  <2>3. d.k \in ConnType /\ d.errno \in Errno BY <2>2 DEF Ended
  <2>4. CASE d.ret = "close" /\ Finish(c, EventClose(d.k, "error"), d.errno)
    <3>1. Sound(d.k) /\ (d.k.plug => "async" \in Env)
      BY <1>4, <2>2, <2>4 DEF Ended
    <3>2. QED BY <1>0, <1>1, <2>3, <2>4, <3>1, FinishesClosed
  <2>5. CASE d.ret = "more" /\ Finish(c, d.k, d.errno)
    <3>1. /\ Live(d.k) /\ d.k.st = "open" /\ d.k.mask = "W" /\ Ready(d.k)
          /\ "pipeline" \in Env /\ (d.k.plug => "async" \in Env)
      BY <1>4, <2>2, <2>5 DEF Ended
    <3>2. Good(d.k, "loop")
      BY <3>1 DEF Good, Live, Watched, TimedEnv, PendingEnv
    <3>3. QED BY <1>0, <1>1, <2>3, <2>5, <3>1, <3>2, Finishes
  <2>6. CASE /\ d.ret = "open"
             /\ Continue(c, [d.k EXCEPT !.mask = "R"], d.errno,
                         Running("read", c))
    <3>1. /\ Live(d.k) /\ d.k.chan = <<>> /\ (d.k.plug => "async" \in Env)
          /\ Ready(d.k)
          /\ "pipeline" \notin Env =>
               d.k.status = "INCOMPLETE" /\ ~d.k.whole /\ d.k.timed
      BY <1>3, <1>4, <1>7, <2>2, <2>6 DEF Ended
    <3>2. PICK m : m = [d.k EXCEPT !.mask = "R"] OBVIOUS
    <3>3. /\ Live(m) /\ m.chan = <<>> /\ (m.plug => "async" \in Env)
          /\ Ready(m)
          /\ "pipeline" \notin Env =>
               m.status = "INCOMPLETE" /\ ~m.whole /\ m.timed
      BY <3>1, <3>2 DEF Live, ConnOK, Sound, ConnType, Ready
    <3>4. Good(m, "read")
      BY <3>3 DEF Good, Live, Watched, Timed, Pending, TimedEnv, PendingEnv
    <3>5. Continue(c, m, d.errno, Running("read", c)) BY <2>6, <3>2
    <3>6. QED
      BY <1>0, <1>1, <2>3, <3>3, <3>4, <3>5, RunningType, Continues
  <2>7. QED BY <2>1, <2>4, <2>5, <2>6
<1>8. QED BY <1>2, <1>5, <1>6, <1>7

(* mk_sched_event_read up to its writes keeps the invariant.               *)
LEMMA EventReadKeeps ==
  ASSUME WorkerInv, NEW c \in Conns, EventRead(c)
  PROVE  WorkerInv'
<1>0. /\ conn[c].st = "open" /\ conn[c].mask = "R" /\ ready' \subseteq ready
      /\ cur.at = "loop" \/ (cur.at = "read" /\ cur.c = {c})
  BY DEF EventRead, Dispatchable
<1>1. /\ Live(conn[c]) /\ Good(conn[c], Place(c)) /\ errno \in Errno
      /\ Place(c) \in {"loop", "read"} /\ cur.c \in {{}, {c}}
  BY <1>0, Here
<1>2. PICK o \in SchedRead(conn[c], errno) :
        \/ o.ret = "ok" /\ Continue(c, o.k, o.errno, Running("flush", c))
        \/ o.ret = "fail" /\ o.errno = "EAGAIN" /\ Finish(c, o.k, o.errno)
        \/ /\ o.ret = "fail" /\ o.errno # "EAGAIN"
           /\ Finish(c, EventClose(o.k, "error"), o.errno)
  BY DEF EventRead
<1>3. ReadDone(conn[c], o)
  <2>1. Ready(conn[c]) BY <1>1 DEF Good
  <2>2. QED BY <1>0, <1>1, <2>1, Reads
<1>4. /\ Live(o.k) /\ o.k \in ConnType /\ o.k.st = "open" /\ o.k.mask = "R"
      /\ o.errno \in Errno /\ Sound(o.k) /\ Ready(o.k)
      /\ o.ret \in {"ok", "fail"}
      /\ o.ret = "ok" => o.k.sess
      /\ o.k.plug => "async" \in Env
  BY <1>0, <1>1, <1>3 DEF ReadDone, Live, ConnOK, Good
<1>5. WatchEnv /\ o.ret = "fail" => o.k.chan = <<>>
  <2>1. WatchEnv => conn[c].chan = <<>>
    BY <1>0, <1>1 DEF Good, Watched
  <2>2. WatchEnv => Env \cap {"malformed", "oversize"} = {}
    BY DEF WatchEnv
  <2>3. QED BY <1>3, <2>1, <2>2 DEF ReadDone
<1>6. PendingEnv => /\ o.k.sess /\ o.k.status = "COMPLETED" =>
                         o.k.plug \/ (o.ret = "ok" /\ o.k.chan # <<>>)
                    /\ conn[c].sess /\ conn[c].status = "COMPLETED" =>
                         conn[c].plug
  <2>1. PendingEnv =>
          (conn[c].sess /\ conn[c].status = "COMPLETED" => conn[c].plug)
    BY <1>0, <1>1 DEF Good, Pending
  <2>2. PendingEnv => Env \cap {"error", "abort"} = {} BY DEF PendingEnv
  <2>3. QED BY <1>3, <2>1, <2>2 DEF ReadDone
<1>7. TimedEnv => /\ Timed(o.k)
                  /\ o.k.whole => o.ret = "ok"
  <2>1. SUFFICES ASSUME TimedEnv
                 PROVE  Timed(o.k) /\ (o.k.whole => o.ret = "ok")
    OBVIOUS
  <2>2. PendingEnv /\ "async" \notin Env BY <2>1 DEF TimedEnv, PendingEnv
  <2>3. Timed(conn[c]) /\ ~conn[c].plug
    BY <1>0, <1>1, <2>1, <2>2 DEF Good
  <2>4. ~conn[c].whole /\ conn[c].timed
    BY <1>6, <2>2, <2>3 DEF Timed
  <2>5. conn[c].status = "INCOMPLETE"
    BY <1>1, <2>3, <2>4 DEF Timed, Live, ConnType
  <2>6. QED BY <1>3, <2>4, <2>5 DEF ReadDone, Timed
<1>8. CASE o.ret = "ok" /\ Continue(c, o.k, o.errno, Running("flush", c))
  <2>1. Good(o.k, "flush")
    BY <1>4, <1>6, <1>7, <1>8 DEF Good, Live, Watched, Pending
  <2>2. QED BY <1>0, <1>1, <1>4, <1>8, <2>1, RunningType, Continues
<1>9. CASE o.ret = "fail" /\ o.errno = "EAGAIN" /\ Finish(c, o.k, o.errno)
  <2>1. Good(o.k, "loop")
    BY <1>4, <1>5, <1>6, <1>7, <1>9 DEF Good, Live, Watched, Pending
  <2>2. QED BY <1>0, <1>1, <1>4, <1>9, <2>1, Finishes
<1>10. CASE /\ o.ret = "fail" /\ o.errno # "EAGAIN"
            /\ Finish(c, EventClose(o.k, "error"), o.errno)
  BY <1>0, <1>1, <1>4, <1>10, FinishesClosed
<1>11. QED BY <1>2, <1>8, <1>9, <1>10

(* What one mk_channel_write of a writing loop leaves.                     *)
LEMMA Writing ==
  ASSUME WorkerInv, NEW c \in Conns, cur.c = {c},
         cur.at \in {"flush", "pflush"}, NEW o \in ChannelWrite(conn[c])
  PROVE  /\ conn[c].st = "open" /\ Live(conn[c]) /\ Good(conn[c], cur.at)
         /\ Live(o.k) /\ SameButChan(conn[c], o.k) /\ o.errno \in Errno
         /\ o.n \in Nat
         /\ o.ret \in {"EMPTY", "DONE", "FLUSH", "BUSY", "ERROR"}
         /\ o.ret \in {"EMPTY", "DONE"} => o.k.chan = <<>>
         /\ o.ret \in {"FLUSH", "BUSY"} => o.k.chan # <<>>
         /\ o.ret = "EMPTY" <=> conn[c].chan = <<>>
         /\ o.ret = "ERROR" => "eio" \in Env
         /\ o.k \in ConnType /\ o.k.st = "open" /\ o.k.sess /\ Ready(o.k)
         /\ o.k.plug => "async" \in Env
<1>1. Good(conn[c], cur.at) BY Here
<1>2. conn[c].st = "open" /\ conn[c].sess BY <1>1 DEF Good
<1>3. Live(conn[c]) BY <1>2, Here
<1>4. /\ Live(o.k) /\ SameButChan(conn[c], o.k) /\ o.errno \in Errno
      /\ o.n \in Nat
      /\ o.ret \in {"EMPTY", "DONE", "FLUSH", "BUSY", "ERROR"}
      /\ o.ret \in {"EMPTY", "DONE"} => o.k.chan = <<>>
      /\ o.ret \in {"FLUSH", "BUSY"} => o.k.chan # <<>>
      /\ o.ret = "EMPTY" <=> conn[c].chan = <<>>
      /\ o.ret = "ERROR" => "eio" \in Env
  BY <1>3, Writes
<1>5. /\ o.k \in ConnType /\ o.k.st = "open" /\ o.k.sess /\ Ready(o.k)
      /\ o.k.plug => "async" \in Env
  BY <1>1, <1>2, <1>4 DEF Live, SameButChan, Good, Ready
<1>6. QED BY <1>1, <1>2, <1>3, <1>4, <1>5

(* A turn of the loop that is not the last keeps the invariant.            *)
LEMMA WriteTurnKeeps ==
  ASSUME WorkerInv, NEW c \in Conns, cur.c = {c},
         cur.at \in {"flush", "pflush"}, NEW o \in ChannelWrite(conn[c]),
         WriteTurn(c, o), ready' \subseteq ready
  PROVE  WorkerInv'
<1>1. /\ conn[c].st = "open" /\ Good(conn[c], cur.at)
      /\ Live(o.k) /\ SameButChan(conn[c], o.k) /\ o.errno \in Errno
      /\ o.n \in Nat /\ o.k.chan # <<>> /\ o.k.st = "open"
  BY Writing DEF WriteTurn, Again, Stop
<1>2. PICK w : w = [cur EXCEPT !.count = Count(o), !.total = @ + Count(o)]
  OBVIOUS
<1>3. cur \in CurType BY Here
<1>4. Count(o) \in Nat BY <1>1, <1>3 DEF Count, CurType
<1>5. w \in CurType /\ w.c = {c} /\ w.at = cur.at
  <2>1. PICK n \in Nat : n = cur.total + Count(o) BY <1>3, <1>4 DEF CurType
  <2>2. w = [cur EXCEPT !.count = Count(o), !.total = n]
    BY <1>2, <2>1, Zenon
  <2>3. QED BY <1>3, <1>4, <2>2 DEF CurType
<1>6. Good(o.k, w.at)
  BY <1>1, <1>5 DEF Good, Live, SameButChan, Watched, Timed, Pending, Ready
<1>7. Continue(c, o.k, o.errno, w) BY <1>2 DEF WriteTurn
<1>8. QED BY <1>1, <1>5, <1>6, <1>7, Continues

(* READ becomes WRITE: harmless for a connection with a session.           *)
LEMMA Asks ==
  ASSUME NEW k, Live(k), k.sess
  PROVE  LET m == AskWrite(k) IN
         /\ Live(m) /\ m \in ConnType /\ m.st = "open" /\ m.mask = "W" /\ m.sess
         /\ m.chan = k.chan /\ m.plug = k.plug /\ m.timed = k.timed
         /\ m.status = k.status /\ m.whole = k.whole /\ m.req = k.req
         /\ Ready(k) => Ready(m)
BY DEF AskWrite, Live, ConnOK, Sound, ConnType, Ready

(* The writing half of mk_sched_event_read keeps the invariant.            *)
LEMMA ReadFlushKeeps ==
  ASSUME WorkerInv, NEW c \in Conns, ReadFlush(c)
  PROVE  WorkerInv'
<1>0. cur.at = "flush" /\ cur.c = {c} /\ ready' \subseteq ready
  BY DEF ReadFlush
<1>1. PICK o \in ChannelWrite(conn[c]) :
       \/ WriteTurn(c, o)
       \/ o.ret \in {"ERROR", "EMPTY"} /\ Finish(c, o.k, o.errno)
       \/ o.ret \in {"FLUSH", "BUSY"} /\ Finish(c, AskWrite(o.k), o.errno)
       \/ /\ o.ret = "DONE"
          /\ \E d \in SchedDone(o.k, o.errno) :
               \/ d.ret = "open" /\ Finish(c, d.k, d.errno)
               \/ d.ret = "more" /\ Finish(c, AskWrite(d.k), d.errno)
               \/ /\ d.ret = "close"
                  /\ Finish(c, EventClose(d.k, "error"), d.errno)
  BY DEF ReadFlush
<1>2. /\ conn[c].st = "open" /\ Good(conn[c], "flush")
      /\ Live(o.k) /\ SameButChan(conn[c], o.k) /\ o.errno \in Errno
      /\ o.ret \in {"EMPTY", "DONE"} => o.k.chan = <<>>
      /\ o.ret \in {"FLUSH", "BUSY"} => o.k.chan # <<>>
      /\ o.ret = "EMPTY" <=> conn[c].chan = <<>>
      /\ o.ret = "ERROR" => "eio" \in Env
      /\ o.k \in ConnType /\ o.k.st = "open" /\ o.k.sess /\ Ready(o.k)
      /\ o.k.plug => "async" \in Env
  BY <1>0, Writing
<1>t. TimedEnv => Timed(o.k)
  BY <1>2 DEF Good, SameButChan, Timed
<1>3. CASE WriteTurn(c, o) BY <1>0, <1>3, WriteTurnKeeps
<1>4. CASE o.ret \in {"ERROR", "EMPTY"} /\ Finish(c, o.k, o.errno)
  <2>1. WatchEnv => Watched(o.k, "loop")
    BY <1>2, <1>4 DEF WatchEnv, Watched
  <2>2. PendingEnv => Pending(o.k, "loop")
    BY <1>2, <1>4 DEF PendingEnv, Good, SameButChan, Pending
  <2>3. Good(o.k, "loop") BY <1>2, <1>t, <2>1, <2>2 DEF Good, Live
  <2>4. QED BY <1>0, <1>2, <1>4, <2>3, Finishes
<1>5. CASE o.ret \in {"FLUSH", "BUSY"} /\ Finish(c, AskWrite(o.k), o.errno)
  <2>1. PICK m : m = AskWrite(o.k) OBVIOUS
  <2>2. /\ Live(m) /\ m \in ConnType /\ m.st = "open" /\ m.mask = "W" /\ m.sess
        /\ m.chan = o.k.chan /\ m.plug = o.k.plug /\ m.timed = o.k.timed
        /\ m.status = o.k.status /\ m.whole = o.k.whole /\ Ready(m)
    BY <1>2, <2>1, Asks, Zenon
  <2>3. Good(m, "loop")
    BY <1>2, <1>5, <1>t, <2>2 DEF Good, Live, Watched, Timed, Pending
  <2>4. Finish(c, m, o.errno) BY <1>5, <2>1
  <2>5. QED BY <1>0, <1>2, <2>2, <2>3, <2>4, Finishes
<1>6. ASSUME o.ret = "DONE", NEW d \in SchedDone(o.k, o.errno),
             \/ d.ret = "open" /\ Finish(c, d.k, d.errno)
             \/ d.ret = "more" /\ Finish(c, AskWrite(d.k), d.errno)
             \/ d.ret = "close" /\ Finish(c, EventClose(d.k, "error"), d.errno)
      PROVE  WorkerInv'
  <2>1. Ended(o.k, d) BY <1>2, <1>6, Dones
  <2>2. d.k \in ConnType /\ d.errno \in Errno /\ d.k.st = "open"
    BY <2>1 DEF Ended
  <2>3. CASE d.ret = "open" /\ Finish(c, d.k, d.errno)
    <3>1. /\ Live(d.k) /\ d.k.chan = <<>> /\ (d.k.plug => "async" \in Env)
          /\ Ready(d.k)
          /\ "pipeline" \notin Env =>
               d.k.status = "INCOMPLETE" /\ ~d.k.whole /\ d.k.timed
      BY <1>2, <1>6, <2>1, <2>3 DEF Ended
    <3>2. Good(d.k, "loop")
      BY <3>1 DEF Good, Live, Watched, Timed, Pending, TimedEnv, PendingEnv
    <3>3. QED BY <1>0, <1>2, <2>2, <2>3, <3>2, Finishes
  <2>4. CASE d.ret = "more" /\ Finish(c, AskWrite(d.k), d.errno)
    <3>1. /\ Live(d.k) /\ d.k.sess /\ "pipeline" \in Env /\ Ready(d.k)
          /\ d.k.plug => "async" \in Env
      BY <1>2, <2>1, <2>4 DEF Ended
    <3>2. PICK m : m = AskWrite(d.k) OBVIOUS
    <3>3. /\ Live(m) /\ m \in ConnType /\ m.st = "open" /\ m.mask = "W"
          /\ m.plug = d.k.plug /\ Ready(m)
      BY <3>1, <3>2, Asks, Zenon
    <3>4. Good(m, "loop")
      BY <3>1, <3>3 DEF Good, Live, Watched, TimedEnv, PendingEnv
    <3>5. Finish(c, m, d.errno) BY <2>4, <3>2
    <3>6. QED BY <1>0, <1>2, <2>2, <3>3, <3>4, <3>5, Finishes
  <2>5. CASE d.ret = "close" /\ Finish(c, EventClose(d.k, "error"), d.errno)
    <3>1. Sound(d.k) /\ (d.k.plug => "async" \in Env)
      BY <1>2, <2>1, <2>5 DEF Ended
    <3>2. QED BY <1>0, <1>2, <2>2, <2>5, <3>1, FinishesClosed
  <2>6. QED BY <1>6, <2>3, <2>4, <2>5
<1>7. QED BY <1>1, <1>3, <1>4, <1>5, <1>6

(* mk_plugin_http_request_end keeps the invariant.                         *)
LEMMA PluginRequestEndKeeps ==
  ASSUME WorkerInv, NEW c \in Conns, conn[c].st = "open",
         cur.c \in {{}, {c}}, NEW k, Live(k), k.sess, Ready(k),
         "async" \in Env,
         WatchEnv => Watched(k, "loop"), NEW e \in Errno,
         NEW hangup \in BOOLEAN, PluginRequestEnd(c, k, e, hangup),
         ready' \subseteq ready
  PROVE  WorkerInv'
<1>1. PICK m : m = [PluginDone(k) EXCEPT !.status = "INCOMPLETE",
                                         !.close = @ \/ (k.req /\ hangup)]
  OBVIOUS
<1>2. k.close \in BOOLEAN /\ k.req \in BOOLEAN BY DEF Live, ConnType
<1>3. /\ Live(m) /\ m \in ConnType /\ m.st = "open" /\ m.sess /\ ~m.plug
      /\ m.status = "INCOMPLETE" /\ m.chan = k.chan /\ m.mask = k.mask
      /\ ~k.req => Ready(m)
  <2>1. PICK b \in BOOLEAN : b = (k.close \/ (k.req /\ hangup)) BY <1>2
  <2>2. PICK g : g = PluginDone(k) OBVIOUS
  <2>3. g.close = k.close BY <2>2 DEF PluginDone, Live, ConnType
  <2>4. m = [g EXCEPT !.status = "INCOMPLETE", !.close = b]
    BY <1>1, <2>1, <2>2, <2>3, Zenon
  <2>5. /\ Live(g) /\ g.sess /\ ~g.plug /\ g.chan = k.chan
        /\ g.mask = k.mask /\ g.status = k.status
        /\ g.served = k.served /\ g.counter = k.counter
    BY <2>2 DEF PluginDone, Live, ConnOK, Sound, ConnType
  <2>6. /\ Live(m) /\ m \in ConnType /\ m.st = "open" /\ m.sess /\ ~m.plug
        /\ m.status = "INCOMPLETE" /\ m.chan = k.chan /\ m.mask = k.mask
        /\ m.served = k.served /\ m.counter = k.counter
    BY <2>4, <2>5 DEF Live, ConnOK, Sound, ConnType
  <2>7. ~k.req => k.status = "INCOMPLETE"
    BY DEF Live, ConnOK, Sound, ConnType
  <2>8. QED BY <2>6, <2>7 DEF Ready
<1>4. ~TimedEnv BY DEF TimedEnv
<1>5. IF ~k.req THEN Finish(c, m, e)
      ELSE \E d \in RequestEnd(m, e) :
             IF d.ret = "close"
             THEN Finish(c, EventClose(d.k, "done"), d.errno)
             ELSE Finish(c, d.k, d.errno)
  BY <1>1, Zenon DEF PluginRequestEnd
<1>6. CASE ~k.req /\ Finish(c, m, e)
  <2>1. Good(m, "loop")
    BY <1>3, <1>4, <1>6 DEF Good, Live, Watched, Pending
  <2>2. QED BY <1>3, <1>6, <2>1, Finishes
<1>7. ASSUME NEW d \in RequestEnd(m, e),
             IF d.ret = "close"
             THEN Finish(c, EventClose(d.k, "done"), d.errno)
             ELSE Finish(c, d.k, d.errno)
      PROVE  WorkerInv'
  <2>1. Ended(m, d) BY <1>3, Ends
  <2>2. d.k \in ConnType /\ d.errno \in Errno /\ d.k.st = "open"
    BY <2>1 DEF Ended
  <2>3. CASE d.ret = "close"
    <3>1. Sound(d.k) /\ ~d.k.sess BY <2>1, <2>3 DEF Ended
    <3>2. Finish(c, EventClose(d.k, "done"), d.errno) BY <1>7, <2>3
    <3>3. QED BY <2>2, <3>1, <3>2, FinishesClosed
  <2>4. CASE d.ret # "close"
    <3>1. Live(d.k) /\ d.k.mask = k.mask /\ Ready(d.k)
      BY <1>3, <2>1, <2>4 DEF Ended
    <3>2. WatchEnv => d.k.chan = k.chan
      BY <1>3, <2>1, <2>4 DEF Ended, WatchEnv
    <3>3. PendingEnv => d.k.status = "INCOMPLETE"
      BY <2>1, <2>4 DEF Ended, PendingEnv
    <3>4. Good(d.k, "loop")
      BY <1>4, <3>1, <3>2, <3>3 DEF Good, Live, Watched, Pending
    <3>5. Finish(c, d.k, d.errno) BY <1>7, <2>4
    <3>6. QED BY <2>2, <3>4, <3>5, Finishes
  <2>5. QED BY <2>3, <2>4
<1>8. QED BY <1>5, <1>6, <1>7

(* A stage 30 plugin's event keeps the invariant.                          *)
LEMMA PluginEventKeeps ==
  ASSUME WorkerInv, NEW c \in Conns, PluginEvent(c)
  PROVE  WorkerInv'
<1>0. /\ cur.at = "loop" /\ conn[c].plug /\ conn[c].sess
      /\ ready' \subseteq ready
  BY DEF PluginEvent
<1>1. Good(conn[c], "loop") /\ cur.c = {} /\ errno \in Errno
  BY <1>0, Here
<1>2. /\ conn[c].st = "open" /\ conn[c].sess /\ "async" \in Env
      /\ Ready(conn[c])
  BY <1>0, <1>1 DEF Good, ConnOK
<1>3. Live(conn[c]) BY <1>2, Here
<1>4. ASSUME NEW n \in 1..PIECE, NEW h \in {"no", "end", "end_close"},
             Continue(c, [conn[c] EXCEPT !.chan = @ \o <<n>>], errno,
                      [Running("pflush", c) EXCEPT !.hangup = h])
      PROVE  WorkerInv'
  <2>1. <<n>> \in Seq(Nat \ {0}) /\ <<n>> # <<>> BY DEF PIECE
  <2>2. PICK m : m = [conn[c] EXCEPT !.chan = @ \o <<n>>] OBVIOUS
  <2>3. /\ Live([conn[c] EXCEPT !.chan = @ \o <<n>>])
        /\ SameButChan(conn[c], [conn[c] EXCEPT !.chan = @ \o <<n>>])
    BY <1>3, <2>1, Queues
  <2>4. Live(m) /\ SameButChan(conn[c], m) BY <2>2, <2>3, Zenon
  <2>5. PICK w : w = [Running("pflush", c) EXCEPT !.hangup = h] OBVIOUS
  <2>6. w \in CurType /\ w.c = {c} /\ w.at = "pflush"
    BY <2>5 DEF Running, At, CurType
  <2>7. Good(m, w.at)
    BY <1>0, <1>2, <2>4, <2>6
       DEF Good, Live, SameButChan, Watched, Pending, TimedEnv, Ready
  <2>8. Continue(c, m, errno, w) BY <1>4, <2>2, <2>5
  <2>9. QED BY <1>0, <1>1, <1>2, <2>4, <2>6, <2>7, <2>8, Continues
<1>5. ASSUME NEW b \in BOOLEAN, PluginRequestEnd(c, conn[c], errno, b)
      PROVE  WorkerInv'
  <2>1. WatchEnv => Watched(conn[c], "loop") BY <1>1, <1>2 DEF Good
  <2>2. QED
    BY <1>0, <1>1, <1>2, <1>3, <1>5, <2>1, PluginRequestEndKeeps
<1>6. QED BY <1>4, <1>5 DEF PluginEvent

(* mk_channel_flush on behalf of a plugin keeps the invariant.             *)
LEMMA PluginFlushKeeps ==
  ASSUME WorkerInv, NEW c \in Conns, PluginFlush(c)
  PROVE  WorkerInv'
<1>0. cur.at = "pflush" /\ cur.c = {c} /\ ready' \subseteq ready
  BY DEF PluginFlush
<1>1. PICK o \in ChannelWrite(conn[c]) :
        LET k == IF o.ret \in {"FLUSH", "BUSY"} THEN AskWrite(o.k) ELSE o.k IN
        \/ WriteTurn(c, o)
        \/ Finish(c, k, o.errno)
        \/ PluginRequestEnd(c, k, o.errno, cur.hangup = "end_close")
  BY DEF PluginFlush
<1>2. /\ conn[c].st = "open" /\ Good(conn[c], "pflush")
      /\ Live(o.k) /\ SameButChan(conn[c], o.k) /\ o.errno \in Errno
      /\ o.ret \in {"EMPTY", "DONE", "FLUSH", "BUSY", "ERROR"}
      /\ o.ret \in {"EMPTY", "DONE"} => o.k.chan = <<>>
      /\ o.ret = "ERROR" => "eio" \in Env
      /\ o.k \in ConnType /\ o.k.st = "open" /\ o.k.sess /\ Ready(o.k)
      /\ o.k.plug => "async" \in Env
  BY <1>0, Writing
<1>3. o.k.plug BY <1>2 DEF Good, SameButChan
<1>4. PICK m : m = IF o.ret \in {"FLUSH", "BUSY"} THEN AskWrite(o.k) ELSE o.k
  OBVIOUS
<1>5. /\ Live(m) /\ m \in ConnType /\ m.st = "open" /\ m.sess /\ m.plug
      /\ Ready(m)
      /\ o.ret \in {"FLUSH", "BUSY"} => m.mask = "W"
      /\ o.ret \in {"EMPTY", "DONE"} => m.chan = <<>>
  <2>1. CASE o.ret \in {"FLUSH", "BUSY"}
    <3>1. m = AskWrite(o.k) BY <1>4, <2>1
    <3>2. /\ Live(m) /\ m \in ConnType /\ m.st = "open" /\ m.mask = "W"
          /\ m.sess /\ m.plug = o.k.plug /\ Ready(m)
      BY <1>2, <3>1, Asks, Zenon
    <3>3. QED BY <1>3, <2>1, <3>2
  <2>2. CASE o.ret \notin {"FLUSH", "BUSY"}
    <3>1. m = o.k BY <1>4, <2>2
    <3>2. QED BY <1>2, <1>3, <2>2, <3>1
  <2>3. QED BY <2>1, <2>2
<1>6. WatchEnv => Watched(m, "loop")
  BY <1>2, <1>5 DEF WatchEnv, Watched
<1>7. CASE WriteTurn(c, o) BY <1>0, <1>7, WriteTurnKeeps
<1>8. CASE Finish(c, m, o.errno)
  <2>1. Good(m, "loop")
    BY <1>2, <1>3, <1>5, <1>6 DEF Good, Live, Pending, TimedEnv
  <2>2. QED BY <1>0, <1>2, <1>5, <1>8, <2>1, Finishes
<1>9. CASE PluginRequestEnd(c, m, o.errno, cur.hangup = "end_close")
  BY <1>0, <1>2, <1>3, <1>5, <1>6, <1>9, PluginRequestEndKeeps
<1>10. QED BY <1>1, <1>4, <1>7, <1>8, <1>9, Zenon

(* Accepting a connection keeps the invariant.                             *)
LEMMA AcceptKeeps ==
  ASSUME WorkerInv, NEW c \in Conns, Accept(c)
  PROVE  WorkerInv'
<1>0. /\ cur.at = "loop" /\ conn[c].st = "free" /\ accepted < MaxAccepts
      /\ ready' \subseteq ready /\ accepted' = accepted + 1
      /\ UNCHANGED <<now, errno, cur, closed>>
  BY DEF Accept
<1>1. TypeOK /\ ConnsOK /\ NoDanglingEvent /\ AccountedFor BY DEF WorkerInv
<1>2. PICK k : k = TimeoutAdd([FreeConn EXCEPT
                     !.st = "open", !.arrive = now, !.stray = conn[c].stray])
  OBVIOUS
<1>3. now \in Nat /\ conn[c].stray \in BOOLEAN
  BY <1>1, WorkerAssumption DEF TypeOK, ConnType
<1>4. /\ k \in ConnType /\ k.st = "open" /\ k.timed /\ ~k.sess /\ ~k.plug
      /\ k.mask = "R" /\ k.chan = <<>> /\ k.status = "INCOMPLETE" /\ ~k.whole
      /\ k.counter = 0 /\ k.served = 0
  <2>1. k = [st |-> "open", mask |-> "R", room |-> TRUE, timed |-> TRUE,
             arrive |-> now, chan |-> <<>>, sess |-> FALSE,
             status |-> "INCOMPLETE", req |-> FALSE, whole |-> FALSE,
             plug |-> FALSE, early |-> FALSE, stray |-> conn[c].stray,
             counter |-> 0, served |-> 0, close |-> FALSE]
    BY <1>2 DEF TimeoutAdd, FreeConn
  <2>2. <<>> \in Seq(Nat \ {0}) OBVIOUS
  <2>3. QED BY <1>3, <2>1, <2>2 DEF ConnType
<1>5. Good(k, "loop")
  <2>1. 0 <= MaxKeepAlive BY WorkerAssumption
  <2>2. 0 <= ServedMost(0) BY DEF ServedMost
  <2>3. QED
    BY <1>4, <2>1, <2>2
       DEF Good, ConnOK, Sound, Ready, Watched, Timed, Pending
<1>6. conn' = [conn EXCEPT ![c] = k] BY <1>2 DEF Accept
<1>7. /\ conn'[c] = k /\ \A d \in Conns \ {c} : conn'[d] = conn[d]
      /\ conn' \in [Conns -> ConnType]
  BY <1>1, <1>4, <1>6 DEF TypeOK
<1>8. TypeOK'
  BY <1>0, <1>1, <1>7, WorkerAssumption DEF TypeOK
<1>9. ConnsOK'
  <2> SUFFICES ASSUME NEW d \in Conns PROVE Good(conn'[d], Place(d)')
    BY DEF ConnsOK
  <2>1. Place(d) = "loop" /\ Place(d)' = Place(d)
    BY <1>0, Here DEF Place
  <2>2. Good(conn[d], "loop") BY <1>1, <2>1 DEF ConnsOK
  <2>3. QED BY <1>5, <1>7, <2>1, <2>2
<1>10. NoDanglingEvent' BY <1>0, <1>1, <1>4, <1>7 DEF NoDanglingEvent
<1>11. AccountedFor'
  <2>1. Open \subseteq Conns BY DEF Open
  <2>2. IsFiniteSet(Open) BY <2>1, WorkerAssumption, FS_Subset
  <2>3. Cardinality(Open) \in Nat BY <2>2, FS_CardinalityType
  <2>4. Open' = Open \cup {c} /\ c \notin Open BY <1>0, <1>4, <1>7 DEF Open
  <2>5. Cardinality(Open') = Cardinality(Open) + 1
    BY <2>2, <2>4, FS_AddElement
  <2>6. accepted \in Nat /\ closed \in Nat
    BY <1>1, WorkerAssumption DEF TypeOK
  <2>7. QED BY <1>0, <1>1, <2>3, <2>5, <2>6 DEF AccountedFor
<1>12. QED BY <1>8, <1>9, <1>10, <1>11 DEF WorkerInv

(* The open connections are finitely many.                                 *)
LEMMA OpenFinite == IsFiniteSet(Open) /\ Cardinality(Open) \in Nat
<1>1. Open \subseteq Conns BY DEF Open
<1>2. IsFiniteSet(Open) BY <1>1, WorkerAssumption, FS_Subset
<1>3. QED BY <1>2, FS_CardinalityType

(* mk_sched_check_timeouts keeps the invariant: whoever is late is open,   *)
(* so the count of the closed grows by the number of those that go.        *)
LEMMA CheckTimeoutsKeeps ==
  ASSUME WorkerInv, CheckTimeouts
  PROVE  WorkerInv'
<1>1. TypeOK /\ ConnsOK /\ NoDanglingEvent /\ AccountedFor BY DEF WorkerInv
<1>2. PICK late : late = {c \in Conns : Expired(conn[c])} OBVIOUS
<1>3. /\ cur.at = "loop" /\ ready' \subseteq ready
      /\ conn' = [c \in Conns |-> IF c \in late
                                  THEN EventClose(conn[c], "timeout")
                                  ELSE conn[c]]
      /\ closed' = closed + Cardinality(late)
      /\ UNCHANGED <<now, errno, cur, accepted>>
  BY <1>2 DEF CheckTimeouts
<1>4. late \subseteq Open BY <1>2 DEF Expired, Open
<1>5. IsFiniteSet(late) /\ Cardinality(late) \in Nat
  <2>1. IsFiniteSet(late) BY <1>4, OpenFinite, FS_Subset
  <2>2. QED BY <2>1, FS_CardinalityType
<1>6. \A c \in late : /\ EventClose(conn[c], "timeout") \in ConnType
                      /\ EventClose(conn[c], "timeout").st = "closed"
                      /\ Good(EventClose(conn[c], "timeout"), "loop")
  <2> SUFFICES ASSUME NEW c \in late
               PROVE  /\ EventClose(conn[c], "timeout") \in ConnType
                      /\ EventClose(conn[c], "timeout").st = "closed"
                      /\ Good(EventClose(conn[c], "timeout"), "loop")
    OBVIOUS
  <2>1. c \in Conns BY <1>2
  <2>2. conn[c] \in ConnType /\ Sound(conn[c]) /\ (conn[c].plug => "async" \in Env)
    BY <2>1, Here DEF ConnOK, Good
  <2>3. "timeout" # "done" OBVIOUS
  <2>4. PICK m : m = EventClose(conn[c], "timeout") OBVIOUS
  <2>5. /\ m \in ConnType /\ m.st = "closed" /\ ConnOK(m) /\ Ready(m)
        /\ m.plug => conn[c].plug
    BY <2>2, <2>3, <2>4, Closes
  <2>6. Good(m, "loop") BY <2>2, <2>5 DEF Good
  <2>7. QED BY <2>4, <2>5, <2>6
<1>7. \A c \in Conns : /\ c \in late => /\ conn'[c] \in ConnType
                                        /\ conn'[c].st = "closed"
                                        /\ Good(conn'[c], "loop")
                       /\ c \notin late => conn'[c] = conn[c]
  BY <1>3, <1>6
<1>8. TypeOK'
  <2>1. conn' \in [Conns -> ConnType] BY <1>1, <1>3, <1>7 DEF TypeOK
  <2>2. closed' \in Nat BY <1>1, <1>3, <1>5 DEF TypeOK
  <2>3. QED BY <1>1, <1>3, <2>1, <2>2 DEF TypeOK
<1>9. ConnsOK'
  <2> SUFFICES ASSUME NEW d \in Conns PROVE Good(conn'[d], Place(d)')
    BY DEF ConnsOK
  <2>1. Place(d) = "loop" /\ Place(d)' = Place(d)
    BY <1>3, Here DEF Place
  <2>2. CASE d \in late BY <1>7, <2>1, <2>2
  <2>3. CASE d \notin late BY <1>1, <1>7, <2>1, <2>3 DEF ConnsOK
  <2>4. QED BY <2>2, <2>3
<1>10. NoDanglingEvent' BY <1>1, <1>3, <1>7 DEF NoDanglingEvent
<1>11. AccountedFor'
  <2>1. Open' = Open \ late BY <1>7 DEF Open
  <2>2. Open \cap late = late BY <1>4
  <2>3. Cardinality(Open') = Cardinality(Open) - Cardinality(late)
    <3>1. Cardinality(Open \ late) = Cardinality(Open)
                                        - Cardinality(Open \cap late)
      BY OpenFinite, FS_Difference
    <3>2. QED BY <2>1, <2>2, <3>1
  <2>4. accepted \in Nat /\ closed \in Nat
    BY <1>1, WorkerAssumption DEF TypeOK
  <2>5. QED BY <1>1, <1>3, <1>5, <2>3, <2>4, OpenFinite DEF AccountedFor
<1>12. QED BY <1>8, <1>9, <1>10, <1>11 DEF WorkerInv

(* A slot nobody uses is in order, whether or not a stray run points there. *)
LEMMA FreeGood ==
  ASSUME NEW b \in BOOLEAN
  PROVE  /\ LET k == [FreeConn EXCEPT !.stray = b] IN
            k \in ConnType /\ k.st = "free" /\ Good(k, "loop")
         /\ ~b => [FreeConn EXCEPT !.stray = b] = FreeConn
<1>1. PICK k : k = [FreeConn EXCEPT !.stray = b] OBVIOUS
<1>2. k = [st |-> "free", mask |-> "R", room |-> TRUE, timed |-> FALSE,
           arrive |-> 0, chan |-> <<>>, sess |-> FALSE,
           status |-> "INCOMPLETE", req |-> FALSE, whole |-> FALSE,
           plug |-> FALSE, early |-> FALSE, stray |-> b,
           counter |-> 0, served |-> 0, close |-> FALSE]
  BY <1>1 DEF FreeConn
<1>3. <<>> \in Seq(Nat \ {0}) OBVIOUS
<1>4. 0 <= MaxKeepAlive BY WorkerAssumption
<1>5. 0 <= ServedMost(0) BY DEF ServedMost
<1>6. k \in ConnType BY <1>2, <1>3 DEF ConnType
<1>7. /\ k.st = "free" /\ ~k.timed /\ ~k.sess /\ ~k.plug /\ k.chan = <<>>
      /\ k.counter = 0 /\ k.served = 0
  BY <1>2
<1>8. Good(k, "loop") BY <1>4, <1>5, <1>7 DEF Good, ConnOK, Sound, Ready
<1>9. ~b => k = FreeConn BY <1>2 DEF FreeConn
<1>10. QED BY <1>1, <1>6, <1>7, <1>8, <1>9, Zenon

(* mk_sched_event_free_all keeps the invariant: no event is left to visit, *)
(* and what it frees is not open.                                          *)
LEMMA EventFreeAllKeeps ==
  ASSUME WorkerInv, EventFreeAll
  PROVE  WorkerInv'
<1>1. TypeOK /\ ConnsOK /\ AccountedFor BY DEF WorkerInv
<1>2. /\ cur.at = "loop" /\ ready' = {}
      /\ conn' = [c \in Conns |-> IF conn[c].st = "closed" THEN Freed(conn[c])
                                  ELSE conn[c]]
      /\ cur' = [at |-> "wait", c |-> {}, total |-> 0, count |-> 0,
                 hangup |-> "no"]
      /\ UNCHANGED <<now, errno, accepted, closed>>
  BY DEF EventFreeAll, Idle, At
<1>3. \A c \in Conns : /\ Freed(conn[c]) \in ConnType
                       /\ Freed(conn[c]).st = "free"
                       /\ Good(Freed(conn[c]), "loop")
  <2> SUFFICES ASSUME NEW c \in Conns
               PROVE  /\ Freed(conn[c]) \in ConnType
                      /\ Freed(conn[c]).st = "free"
                      /\ Good(Freed(conn[c]), "loop")
    OBVIOUS
  <2>1. conn[c] \in ConnType BY Here
  <2>2. PICK b \in BOOLEAN : b <=> Outlived(conn[c]) OBVIOUS
  <2>3. b = Outlived(conn[c]) BY <2>1, <2>2, Zenon DEF Outlived, ConnType
  <2>4. Freed(conn[c]) = [FreeConn EXCEPT !.stray = b]
    BY <2>3, Zenon DEF Freed
  <2>5. QED BY <2>4, FreeGood
<1>4. \A c \in Conns : conn'[c] = IF conn[c].st = "closed" THEN Freed(conn[c])
                                  ELSE conn[c]
  BY <1>2
<1>5. TypeOK'
  <2>1. conn' \in [Conns -> ConnType] BY <1>1, <1>2, <1>3 DEF TypeOK
  <2>2. QED BY <1>1, <1>2, <2>1 DEF TypeOK
<1>6. ConnsOK'
  <2> SUFFICES ASSUME NEW d \in Conns PROVE Good(conn'[d], Place(d)')
    BY DEF ConnsOK
  <2>1. Place(d) = "loop" /\ Place(d)' = "loop"
    BY <1>2, Here DEF Place
  <2>2. Good(conn[d], "loop") BY <1>1, <2>1 DEF ConnsOK
  <2>3. QED BY <1>3, <1>4, <2>1, <2>2
<1>7. NoDanglingEvent' BY <1>2 DEF NoDanglingEvent
<1>8. AccountedFor'
  <2>1. Open' = Open BY <1>3, <1>4 DEF Open
  <2>2. QED BY <1>1, <1>2, <2>1 DEF AccountedFor
<1>9. QED BY <1>5, <1>6, <1>7, <1>8 DEF WorkerInv

(* mk_event_wait keeps the invariant: epoll reports what is registered.    *)
LEMMA EventWaitKeeps ==
  ASSUME WorkerInv, EventWait
  PROVE  WorkerInv'
<1>1. TypeOK /\ ConnsOK /\ AccountedFor BY DEF WorkerInv
<1>2. /\ cur.at = "wait" /\ ready' \subseteq Reportable
      /\ cur' = [at |-> "loop", c |-> {}, total |-> 0, count |-> 0,
                 hangup |-> "no"]
      /\ UNCHANGED <<conn, now, errno, accepted, closed>>
  BY DEF EventWait, Idle, At
<1>3. cur.c = {} BY <1>1, <1>2 DEF TypeOK
<1>4. \A ev \in Reportable :
        \/ ev \in {Timer, Listener}
        \/ \E d \in Conns : ev = ConnEv(d) /\ conn[d].st = "open"
        \/ \E d \in Conns : ev = PluginEv(d)
  BY DEF Reportable
<1>5. TypeOK'
  <2>1. ready' \subseteq {Timer, Listener} \cup {ConnEv(c) : c \in Conns}
                         \cup {PluginEv(c) : c \in Conns}
    BY <1>2, <1>4
  <2>2. QED BY <1>1, <1>2, <2>1 DEF TypeOK
<1>6. ConnsOK'
  <2> SUFFICES ASSUME NEW d \in Conns PROVE Good(conn'[d], Place(d)')
    BY DEF ConnsOK
  <2>1. Place(d) = "loop" /\ Place(d)' = "loop" BY <1>2, <1>3 DEF Place
  <2>2. QED BY <1>1, <1>2, <2>1 DEF ConnsOK
<1>7. NoDanglingEvent'
  <2> SUFFICES ASSUME NEW c \in Conns, ConnEv(c) \in ready'
               PROVE  conn[c].st # "free"
    BY <1>2 DEF NoDanglingEvent
  <2>1. ConnEv(c) \in Reportable BY <1>2
  <2>2. \A d : ConnEv(c) # PluginEv(d) /\ (ConnEv(c) = ConnEv(d) => c = d)
    BY DEF ConnEv, PluginEv
  <2>3. ConnEv(c) # Timer /\ ConnEv(c) # Listener
    BY DEF ConnEv, Timer, Listener
  <2>4. QED BY <1>4, <2>1, <2>2, <2>3
<1>8. AccountedFor'
  <2>1. Open' = Open BY <1>2 DEF Open
  <2>2. QED BY <1>1, <1>2, <2>1 DEF AccountedFor
<1>9. QED BY <1>5, <1>6, <1>7, <1>8 DEF WorkerInv

(* Steps that leave the connections and the worker where they are.         *)
LEMMA SameConns ==
  ASSUME WorkerInv, UNCHANGED <<conn, errno, cur, accepted, closed>>,
         ready' \subseteq ready, now' \in 0..MaxTime
  PROVE  WorkerInv'
<1>1. TypeOK /\ ConnsOK /\ NoDanglingEvent /\ AccountedFor BY DEF WorkerInv
<1>2. TypeOK' BY <1>1 DEF TypeOK
<1>3. ConnsOK'
  <2> SUFFICES ASSUME NEW d \in Conns PROVE Good(conn'[d], Place(d)')
    BY DEF ConnsOK
  <2>1. Place(d)' = Place(d) BY DEF Place
  <2>2. QED BY <1>1, <2>1 DEF ConnsOK
<1>4. NoDanglingEvent' BY <1>1 DEF NoDanglingEvent
<1>5. AccountedFor'
  <2>1. Open' = Open BY DEF Open
  <2>2. QED BY <1>1, <2>1 DEF AccountedFor
<1>6. QED BY <1>2, <1>3, <1>4, <1>5 DEF WorkerInv

(* A client that reads makes room, at any moment of the worker's.          *)
LEMMA ClientReadsKeeps ==
  ASSUME WorkerInv, NEW c \in Conns, ClientReads(c)
  PROVE  WorkerInv'
<1>1. TypeOK /\ ConnsOK /\ NoDanglingEvent /\ AccountedFor BY DEF WorkerInv
<1>2. PICK k : k = [conn[c] EXCEPT !.room = TRUE] OBVIOUS
<1>3. conn[c] \in ConnType BY Here
<1>4. /\ k \in ConnType /\ SameButChan(conn[c], k) /\ k.chan = conn[c].chan
  BY <1>2, <1>3 DEF ConnType, SameButChan
<1>5. /\ conn' = [conn EXCEPT ![c] = k]
      /\ UNCHANGED <<now, errno, ready, cur, accepted, closed>>
  <2>1. conn' = [conn EXCEPT ![c] = [conn[c] EXCEPT !.room = TRUE]]
    BY DEF ClientReads
  <2>2. QED BY <1>2, <2>1 DEF ClientReads
<1>6. /\ conn'[c] = k /\ \A d \in Conns \ {c} : conn'[d] = conn[d]
      /\ conn' \in [Conns -> ConnType]
  BY <1>1, <1>4, <1>5 DEF TypeOK
<1>7. TypeOK' BY <1>1, <1>5, <1>6 DEF TypeOK
<1>8. ConnsOK'
  <2> SUFFICES ASSUME NEW d \in Conns PROVE Good(conn'[d], Place(d)')
    BY DEF ConnsOK
  <2>1. Place(d)' = Place(d) /\ Good(conn[d], Place(d))
    BY <1>1, <1>5 DEF Place, ConnsOK
  <2>2. CASE d = c
    <3>1. Good(k, Place(c))
      BY <1>4, <2>1, <2>2
         DEF Good, ConnOK, Sound, Ready, SameButChan, Watched, Timed, Pending
    <3>2. QED BY <1>6, <2>1, <2>2, <3>1
  <2>3. CASE d # c BY <1>6, <2>1, <2>3
  <2>4. QED BY <2>2, <2>3
<1>9. NoDanglingEvent'
  BY <1>1, <1>4, <1>5, <1>6 DEF NoDanglingEvent, SameButChan
<1>10. AccountedFor'
  <2>1. Open' = Open BY <1>4, <1>6 DEF Open, SameButChan
  <2>2. QED BY <1>1, <1>5, <2>1 DEF AccountedFor
<1>11. QED BY <1>7, <1>8, <1>9, <1>10 DEF WorkerInv

(* After undefined behaviour nothing more happens in the model.            *)
LEMMA PluginAstrayKeeps ==
  ASSUME WorkerInv, NEW c \in Conns, PluginAstray(c)
  PROVE  WorkerInv'
<1>1. TypeOK /\ ConnsOK /\ AccountedFor BY DEF WorkerInv
<1>2. /\ cur.at = "loop" /\ ready' = {}
      /\ cur' = [at |-> "undefined", c |-> {}, total |-> 0, count |-> 0,
                 hangup |-> "no"]
      /\ UNCHANGED <<conn, now, errno, accepted, closed>>
  BY DEF PluginAstray, Idle, At
<1>3. cur.c = {} BY <1>1, <1>2 DEF TypeOK
<1>4. TypeOK' BY <1>1, <1>2 DEF TypeOK
<1>5. ConnsOK'
  <2> SUFFICES ASSUME NEW d \in Conns PROVE Good(conn'[d], Place(d)')
    BY DEF ConnsOK
  <2>1. Place(d) = "loop" /\ Place(d)' = "loop" BY <1>2, <1>3 DEF Place
  <2>2. QED BY <1>1, <1>2, <2>1 DEF ConnsOK
<1>6. NoDanglingEvent' BY <1>2 DEF NoDanglingEvent
<1>7. AccountedFor'
  <2>1. Open' = Open BY <1>2 DEF Open
  <2>2. QED BY <1>1, <1>2, <2>1 DEF AccountedFor
<1>8. QED BY <1>4, <1>5, <1>6, <1>7 DEF WorkerInv

(* Every step of the worker, its clients and the clock keeps it.           *)
LEMMA NextKeeps ==
  ASSUME WorkerInv, [Next]_vars
  PROVE  WorkerInv'
<1>0. now \in 0..MaxTime BY DEF WorkerInv, TypeOK
<1>1. CASE UNCHANGED vars BY <1>0, <1>1, SameConns DEF vars
<1>2. ASSUME NEW c \in Conns, Handle(c) PROVE WorkerInv'
  BY <1>2, EventWriteKeeps, EventReadKeeps, ReadFlushKeeps, PluginEventKeeps,
     PluginFlushKeeps, PluginAstrayKeeps, AcceptKeeps DEF Handle
<1>3. ASSUME NEW ev, SkipIdle(ev) PROVE WorkerInv'
  BY <1>0, <1>3, SameConns DEF SkipIdle
<1>4. CASE Tick
  <2>1. now' \in 0..MaxTime BY <1>0, <1>4, WorkerAssumption DEF Tick
  <2>2. QED BY <1>4, <2>1, SameConns DEF Tick
<1>5. ASSUME NEW c \in Conns, ClientReads(c) PROVE WorkerInv'
  BY <1>5, ClientReadsKeeps
<1>6. QED
  BY <1>1, <1>2, <1>3, <1>4, <1>5, CheckTimeoutsKeeps, EventFreeAllKeeps,
     EventWaitKeeps DEF Next, Worker, Undefined

(* A worker that has just started satisfies it.                            *)
LEMMA InitInv ==
  ASSUME Init PROVE WorkerInv
<1>1. /\ FreeConn \in ConnType /\ FreeConn.st = "free" /\ Good(FreeConn, "loop")
  <2>1. PICK b \in BOOLEAN : ~b OBVIOUS
  <2>2. FreeConn = [FreeConn EXCEPT !.stray = b] BY <2>1, FreeGood
  <2>3. QED BY <2>2, FreeGood, Zenon
<1>2. cur = [at |-> "wait", c |-> {}, total |-> 0, count |-> 0, hangup |-> "no"]
  BY DEF Init, Idle, At
<1>3. TypeOK
  <2>1. 0 \in 0..MaxTime /\ 0 \in 0..MaxAccepts BY WorkerAssumption
  <2>2. QED BY <1>1, <1>2, <2>1 DEF Init, TypeOK
<1>4. ConnsOK
  <2> SUFFICES ASSUME NEW d \in Conns PROVE Good(conn[d], Place(d))
    BY DEF ConnsOK
  <2>1. Place(d) = "loop" BY <1>2 DEF Place
  <2>2. QED BY <1>1, <2>1 DEF Init
<1>5. NoDanglingEvent BY DEF Init, NoDanglingEvent
<1>6. AccountedFor
  <2>1. Open = {} BY <1>1 DEF Open, Init
  <2>2. Cardinality({}) = 0 BY FS_EmptySet
  <2>3. QED BY <2>1, <2>2 DEF Init, AccountedFor
<1>7. QED BY <1>3, <1>4, <1>5, <1>6 DEF WorkerInv

-----------------------------------------------------------------------------
(* Whatever clients, plugins and sockets do, the worker's connections stay *)
(* in order, and its state has its types.                                  *)
THEOREM WorkerInvariant == Spec => []WorkerInv
<1>1. Init => WorkerInv BY InitInv
<1>2. WorkerInv /\ [Next]_vars => WorkerInv' BY NextKeeps
<1>3. QED BY <1>1, <1>2, PTL DEF Spec

(* No event of a batch is ever visited after its memory was freed.         *)
THEOREM NeverDanglingEvent == Spec => []NoDanglingEvent
<1>1. WorkerInv => NoDanglingEvent BY DEF WorkerInv
<1>2. QED BY <1>1, WorkerInvariant, PTL

(* The load the balancer reads off a worker is its open connections.       *)
THEOREM AlwaysAccountedFor == Spec => []AccountedFor
<1>1. WorkerInv => AccountedFor BY DEF WorkerInv
<1>2. QED BY <1>1, WorkerInvariant, PTL

(* What the order of each connection says of all of them.                  *)
LEMMA ConnsSay ==
  ASSUME WorkerInv
  PROVE  /\ TimeoutQueueLive /\ ClosedIsReleased /\ PluginHasSession
         /\ KeepAliveBound
<1>1. \A c \in Conns : ConnOK(conn[c]) BY Here
<1>2. TimeoutQueueLive BY <1>1 DEF ConnOK, Sound, TimeoutQueueLive
<1>3. ClosedIsReleased BY <1>1 DEF ConnOK, Sound, ClosedIsReleased
<1>4. PluginHasSession BY <1>1 DEF ConnOK, Sound, PluginHasSession
<1>5. KeepAliveBound
  <2> SUFFICES ASSUME NEW c \in Conns
               PROVE  conn[c].served <= ServedMost(MaxKeepAlive)
    BY DEF KeepAliveBound
  <2>1. /\ conn[c].counter \in Nat /\ conn[c].served \in Nat
        /\ MaxKeepAlive \in Nat
    BY Here, WorkerAssumption DEF ConnType
  <2>2. /\ conn[c].counter <= MaxKeepAlive
        /\ conn[c].served <= ServedMost(conn[c].counter)
    BY <1>1 DEF ConnOK, Sound
  <2>3. /\ ServedMost(conn[c].counter) <= ServedMost(MaxKeepAlive)
        /\ ServedMost(conn[c].counter) \in Nat
        /\ ServedMost(MaxKeepAlive) \in Nat
    BY <2>1, <2>2, MostGrows
  <2>4. QED BY <2>1, <2>2, <2>3
<1>6. QED BY <1>2, <1>3, <1>4, <1>5

(* The timeout queue never holds a connection that was closed.             *)
THEOREM TimeoutQueueAlwaysLive == Spec => []TimeoutQueueLive
<1>1. WorkerInv => TimeoutQueueLive BY ConnsSay
<1>2. QED BY <1>1, WorkerInvariant, PTL

(* However a connection meets its end (an error, a timeout, a plugin, the  *)
(* keep-alive limit), nothing of it is left when its memory is queued, but *)
(* for a plugin whose request mk_http_sched_done had ended under it.       *)
THEOREM ClosedAlwaysReleased == Spec => []ClosedIsReleased
<1>1. WorkerInv => ClosedIsReleased BY ConnsSay
<1>2. QED BY <1>1, WorkerInvariant, PTL

(* A plugin loses its session in that way only: before cb_done ends its    *)
(* request, mk_http_session_remove would find and hang it up.              *)
THEOREM PluginAlwaysHasSession == Spec => []PluginHasSession
<1>1. WorkerInv => PluginHasSession BY ConnsSay
<1>2. QED BY <1>1, WorkerInvariant, PTL

(* No way of ending requests serves more of them in a session than         *)
(* ServedMost says of the configured limit: one more than that limit, or   *)
(* twice as many and one where pipelined requests and plugins meet.        *)
THEOREM KeepAliveAlwaysBounded == Spec => []KeepAliveBound
<1>1. WorkerInv => KeepAliveBound BY ConnsSay
<1>2. QED BY <1>1, WorkerInvariant, PTL

(* What the worker leaves behind when it goes back to epoll, for the       *)
(* environments in which it does.                                          *)
LEMMA WaitingSays ==
  ASSUME WorkerInv
  PROVE  /\ WatchEnv => QueuedIsWatched
         /\ TimedEnv => IncompleteIsTimed
         /\ PendingEnv => CompletedIsPending
<1>1. \A c \in Conns : Waiting => Good(conn[c], "loop")
  <2> SUFFICES ASSUME NEW c \in Conns, Waiting PROVE Good(conn[c], "loop")
    OBVIOUS
  <2>1. cur.c = {} BY Here DEF Waiting
  <2>2. Place(c) = "loop" BY <2>1 DEF Place
  <2>3. QED BY <2>2, Here
<1>2. WatchEnv => QueuedIsWatched
  BY <1>1 DEF Good, Watched, QueuedIsWatched, Open
<1>3. TimedEnv => IncompleteIsTimed
  BY <1>1 DEF Good, Timed, IncompleteIsTimed, Open
<1>4. PendingEnv => CompletedIsPending
  BY <1>1 DEF Good, Pending, CompletedIsPending, Open
<1>5. QED BY <1>2, <1>3, <1>4

(* As long as writes do not fail, the parser refuses nothing, and no       *)
(* plugin meets pipelined requests, the worker never waits with something  *)
(* to send that it has not asked to send.                                  *)
THEOREM QueuedAlwaysWatched ==
  ASSUME WatchEnv PROVE Spec => []QueuedIsWatched
<1>1. WorkerInv => QueuedIsWatched BY WaitingSays
<1>2. QED BY <1>1, WorkerInvariant, PTL

(* Requests that are answered with a header or a file, malformed or too    *)
(* long ones among them, never leave a connection without a timeout.       *)
THEOREM IncompleteAlwaysTimed ==
  ASSUME TimedEnv PROVE Spec => []IncompleteIsTimed
<1>1. WorkerInv => IncompleteIsTimed BY WaitingSays
<1>2. QED BY <1>1, WorkerInvariant, PTL

(* And, plugins included, no complete request is left with nobody to end   *)
(* it.                                                                     *)
THEOREM CompletedAlwaysPending ==
  ASSUME PendingEnv PROVE Spec => []CompletedIsPending
<1>1. WorkerInv => CompletedIsPending BY WaitingSays
<1>2. QED BY <1>1, WorkerInvariant, PTL
=============================================================================
