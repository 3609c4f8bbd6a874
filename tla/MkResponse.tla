------------------------------ MODULE MkResponse ------------------------------
(***************************************************************************)
(* The answers of one worker: how mk_http_init and mk_header_prepare make  *)
(* up a header and choose the bytes of a file, and how the header and the  *)
(* file leave through the channel in pieces of any size.                   *)
(*                                                                         *)
(* A header is an array of pointers (mk_iov).  Some point to constants or  *)
(* to memory of the request, but Content-Length and Last-Modified point to *)
(* one buffer per thread, and the date to one of two buffers the clock     *)
(* thread fills in turn.  What is sent is what these hold when writev is   *)
(* called, which may be long after the header was prepared.                *)
(*                                                                         *)
(* A cell <<kind, value>> stands for a stretch of text: <<"status", 200>>, *)
(* one digit of a length, one byte of a file.                              *)
(***************************************************************************)
EXTENDS Integers, Sequences, FiniteSets, SequencesExt

CONSTANTS
  Conns,     \* the connections of the worker
  Clients,   \* what they may ask: functions from Conns to flights, see Arrive
  RADIX,     \* of the numbers mk_string_itop writes
  PAGE,      \* sched->mem_pagesize, in cells
  MaxTicks   \* bound: the ticks of the clock

VARIABLES
  clock,     \* mk_clock.c: the two buffers, and which one is published
  cl,        \* the buffer of mk_tls_cache_header_cl
  lm,        \* the buffer of mk_tls_cache_header_lm
  conn,      \* conn[c]: session, request and channel
  cur,       \* the connection whose data the worker is writing, and how
  todo,      \* todo[c]: the flights the client has not sent
  got,       \* got[c]: what the client has received of this flight's answers
  meant      \* meant[c]: what it is to receive

vars == <<clock, cl, lm, conn, cur, todo, got, meant>>

Torn == -1      \* the content of a buffer that is being written
None == -1      \* an absent number
Crlf == -2      \* the end of a line, in a buffer of digits
Nul  == -3      \* a buffer's cell nothing was written to
Idle == [c |-> {}, at |-> "epoll", count |-> 0, total |-> 0]

(* A request: the method, the file with its size and time, whether the     *)
(* client's copy is as new, and the range, <<a, b>> for "bytes=a-b" with   *)
(* None for a number that is missing, or <<>> when there is no range.      *)
(* Size 0 stands for a file that is not there or empty.                    *)
Number == Nat \cup {None}
Request == [method : {"GET", "HEAD"}, size : Nat, time : Nat, fresh : BOOLEAN,
            range : {<<>>} \cup (Number \X Number)]

ASSUME ResponseAssumption ==
  /\ RADIX \in Nat \ {0, 1} /\ PAGE \in Nat /\ MaxTicks \in Nat
  /\ Clients \subseteq [Conns -> Seq(Seq(Request) \ {<<>>})]

-----------------------------------------------------------------------------
(* The clock thread: mk_clock_headers_preset.                              *)

Mut_NextBuffer == clock.pub

(* _next_buffer.                                                           *)
NextBuffer == 1 - clock.pub

Format ==
  /\ ~clock.busy /\ clock.now < MaxTicks
  /\ clock' = [clock EXCEPT !.busy = TRUE, !.buf[NextBuffer] = Torn]
  /\ UNCHANGED <<cl, lm, conn, cur, todo, got, meant>>

Publish ==
  /\ clock.busy
  /\ clock' = [clock EXCEPT !.busy = FALSE, !.now = @ + 1,
                            !.buf[NextBuffer] = clock.now + 1,
                            !.pub = NextBuffer]
  /\ UNCHANGED <<cl, lm, conn, cur, todo, got, meant>>

-----------------------------------------------------------------------------
(* What a request is answered with.                                        *)

(* mk_http_range_parse: ranges[] and content_length, or a failure.         *)
RangeParse(q) ==
  LET a == q.range[1]
      b == q.range[2]
      bad == [ok |-> FALSE, r |-> <<None, None>>, len |-> 0]
  IN  IF a = None                                               \* =-xxx
      THEN IF b <= 0 THEN bad
           ELSE [ok |-> TRUE, r |-> <<None, b>>, len |-> b]
      ELSE IF b # None                                          \* =yyy-xxx
      THEN IF a > b THEN bad
           ELSE [ok |-> TRUE, r |-> <<a, b>>, len |-> b - a + 1]
      ELSE [ok |-> TRUE, r |-> <<a, None>>, len |-> q.size - a] \* =yyy-

Mut_RangeSet(r, size) ==
  CASE r = <<None, None>>              -> [off |-> 0, total |-> size]
    [] r[1] # None /\ r[2] = None      -> [off |-> r[1], total |-> size - r[1]]
    [] r[1] # None /\ r[2] # None      -> [off |-> r[1], total |-> r[2] - r[1]]
    [] OTHER                           -> [off |-> size - r[2], total |-> r[2]]

(* mk_http_range_set: bytes_offset and bytes_total of the file stream.     *)
RangeSet(r, size) ==
  CASE r = <<None, None>>         -> [off |-> 0, total |-> size]
    [] r[1] # None /\ r[2] = None -> [off |-> r[1], total |-> size - r[1]]
    [] r[1] # None /\ r[2] # None -> [off |-> r[1],
                                      total |-> r[2] - r[1] + 1]
    [] OTHER                      -> [off |-> size - r[2], total |-> r[2]]

(* A negative offset is converted to size_t: it is past every end.         *)
Satisfiable(s, size) == s.off \in 0..(size - 1) /\ s.total <= size

(* struct response_headers, and the bytes of the file or page that follow: *)
(* len is content_length, lm last_modified, body "file", "page" or "none". *)
Error(status, page) ==
  [status |-> status, len |-> page, lm |-> None, r |-> <<None, None>>,
   real |-> 0, body |-> IF page > 0 THEN "page" ELSE "none",
   off |-> 0, total |-> page]

(* mk_http_init.                                                           *)
Answer(q) ==
  LET file == [status |-> 200, len |-> q.size, lm |-> q.time,
               r |-> <<None, None>>, real |-> q.size,
               body |-> IF q.method = "GET" THEN "file" ELSE "none",
               off |-> 0, total |-> q.size]
      p == RangeParse(q)
      s == RangeSet(p.r, q.size)
  IN  IF q.size = 0
      THEN Error(404, IF q.method = "GET" THEN 1 ELSE 0)
      ELSE IF q.fresh /\ q.method = "GET"
      THEN [file EXCEPT !.status = 304, !.len = None, !.body = "none"]
      ELSE IF q.range = <<>> THEN file
      ELSE IF ~p.ok THEN Error(400, 0)
      ELSE IF ~Satisfiable(s, q.size) THEN Error(416, 0)
      ELSE [file EXCEPT !.status = 206, !.len = p.len, !.r = p.r,
                        !.off = s.off, !.total = s.total]

-----------------------------------------------------------------------------
(* mk_header_prepare.                                                      *)

(* How many digits a number has.                                           *)
Digits10(n) == 1 + Cardinality({k \in 1..n : RADIX^k <= n})

(* mk_string_itop: the digits and the end of the line.                     *)
Itop(n) ==
  LET d == Digits10(n)
  IN  [j \in 1..(d + 1) |-> IF j > d THEN Crlf
                            ELSE (n \div RADIX^(d - j)) % RADIX]

(* The text s written over the beginning of a buffer.                      *)
Over(buf, s) ==
  [j \in DOMAIN buf \cup DOMAIN s |-> IF j \in DOMAIN s THEN s[j] ELSE buf[j]]

(* An entry of the iov: where it points, and how much of it is left.       *)
Entry(kind, val, n) == [kind |-> kind, val |-> val, at |-> 0, len |-> n]
When(cond, kind, val, n) == IF cond THEN <<Entry(kind, val, n)>> ELSE <<>>

ContentRange(h) ==
  CASE h.r[2] = None -> <<h.r[1], h.real - 1, h.real>>
    [] h.r[1] = None -> <<h.real - h.r[2], h.real - 1, h.real>>
    [] OTHER         -> <<h.r[1], h.r[2], h.real>>

Entries(h) ==
  <<Entry("status", h.status, 1), Entry("date", clock.pub, 1)>>
  \o When(h.lm > 0, "lm", 0, 1)
  \o When(h.len >= 0, "cl", 0, Len(Itop(h.len)))
  \o When(h.len # 0 /\ h.r # <<None, None>>, "range", ContentRange(h), 1)

(* Where each entry ends, and what they have together.                     *)
Ends(es) ==
  LET end[j \in 0..Len(es)] == IF j = 0 THEN 0 ELSE end[j - 1] + es[j].len
  IN  end
Sum(es) == Ends(es)[Len(es)]

(* The iov of an answer: the header, and an error page.                    *)
Header(h) == Entries(h) \o When(h.body = "page", "page", 0, h.total)

(* The streams of an answer: the header, then the file.                    *)
Streams(h) ==
  LET es == Header(h)
  IN  <<[type |-> "IOV", io |-> es, total_len |-> Sum(es),
         total |-> Sum(es), off |-> 0, size |-> 0]>>
      \o IF h.body # "file" THEN <<>>
         ELSE <<[type |-> "FILE", io |-> <<>>, total_len |-> 0,
                 total |-> h.total, off |-> h.off, size |-> h.real]>>

(* What a request is due, read off the request alone: the definition the   *)
(* code above is compared with.  The bytes it is about, first and last,    *)
(* whatever the form it has them in.                                       *)
FirstByte(q) == IF q.range = <<>> THEN 0
                ELSE IF q.range[1] = None THEN q.size - q.range[2]
                ELSE q.range[1]
LastByte(q) == IF q.range = <<>> \/ None \in Range(q.range) THEN q.size - 1
               ELSE q.range[2]

(* A range of two numbers the wrong way round, or the last 0 bytes.        *)
Backwards(q) ==
  LastByte(q) < FirstByte(q) /\ (q.range[2] # None \/ q.range[1] = None)

InFile(q) == {FirstByte(q), LastByte(q)} \subseteq 0..(q.size - 1)

(* A range that starts in the file and ends behind it, but asks for no     *)
(* more bytes than the file has: the code answers it with 206 and the      *)
(* range as it was asked for, sends what there is and breaks off.          *)
(* RangesExist is what the tests expect instead.                           *)
CutShort(q) ==
  /\ FirstByte(q) < q.size /\ LastByte(q) >= q.size
  /\ LastByte(q) - FirstByte(q) < q.size

DueStatus(q) ==
  CASE q.size = 0                                           -> 404
    [] q.size # 0 /\ q.fresh /\ q.method = "GET"            -> 304
    [] q.size # 0 /\ ~(q.fresh /\ q.method = "GET")         ->
         IF q.range = <<>> THEN 200
         ELSE IF Backwards(q) THEN 400
         ELSE IF InFile(q) \/ CutShort(q) THEN 206 ELSE 416

(* The text of the error page is one cell, and answers to HEAD have none.  *)
DuePage(q) == DueStatus(q) = 404 /\ q.method = "GET"
DueFile(q) == DueStatus(q) \in {200, 206} /\ q.method = "GET"

DueLength(q) == IF DuePage(q) THEN 1
                ELSE IF DueStatus(q) >= 400 THEN 0
                ELSE LastByte(q) - FirstByte(q) + 1

DueHeader(q) ==
  <<Entry("status", DueStatus(q), 1), Entry("date", clock.pub, 1)>>
  \o When(DueStatus(q) < 400 /\ q.time > 0, "lm", 0, 1)
  \o When(DueStatus(q) # 304, "cl", 0, Len(Itop(DueLength(q))))
  \o When(DueStatus(q) = 206, "range",
          <<FirstByte(q), LastByte(q), q.size>>, 1)
  \o When(DuePage(q), "page", 0, 1)

(* What the client is to receive: that header with every buffer's text as  *)
(* it is now, and the bytes the request names.  cell[3] is the answer's    *)
(* number in the flight.                                                   *)
CellsOf(e, q, i) ==
  CASE e.kind = "date" -> <<<<"date", clock.now, i>>>>
    [] e.kind = "lm"   -> <<<<"lm", q.time, i>>>>
    [] e.kind = "cl"   ->
         [j \in 1..e.len |-> <<"cl", Itop(DueLength(q))[j], i>>]
    [] OTHER           -> [j \in 1..e.len |-> <<e.kind, e.val, i>>]
Meaning(q, i) ==
  LET es == DueHeader(q)
  IN  FlattenSeq([j \in DOMAIN es |-> CellsOf(es[j], q, i)])
      \o IF ~DueFile(q) THEN <<>>
         ELSE [j \in 1..(LastByte(q) - FirstByte(q) + 1) |->
                 <<"byte", FirstByte(q) + j - 1, i>>]

(* mk_http_request_prepare for the next request of the flight, which is    *)
(* answer number i: the header is queued, the buffers are written.         *)
Prepare(c, k, q, i) ==
  LET h == Answer(q)
  IN  /\ conn' = [conn EXCEPT ![c] =
                    [k EXCEPT !.streams = Streams(h), !.n = i]]
      /\ cl' = IF h.len >= 0 THEN Over(cl, Itop(h.len)) ELSE cl
      /\ lm' = IF h.lm > 0 THEN h.lm ELSE lm
      /\ meant' = [meant EXCEPT ![c] =
                     IF i = 1 THEN Meaning(q, i) ELSE @ \o Meaning(q, i)]

(* mk_http_error tries to write at once.                                   *)
Nudged(q) == Answer(q).status >= 400

-----------------------------------------------------------------------------
(* mk_channel_write.                                                       *)

(* What an entry's buffer holds now.                                       *)
Text(e) ==
  CASE e.kind = "date" -> <<clock.buf[e.val]>>
    [] e.kind = "lm"   -> <<lm>>
    [] e.kind = "cl"   -> cl
    [] OTHER           -> [j \in 1..(e.at + e.len) |-> e.val]

Left(e) == [j \in 1..e.len |-> <<e.kind, Text(e)[e.at + j]>>]

Bytes(s) ==
  IF s.type = "IOV" THEN FlattenSeq([j \in DOMAIN s.io |-> Left(s.io[j])])
  ELSE [j \in 1..Min({s.total, s.size - s.off}) |-> <<"byte", s.off + j - 1>>]

(* mk_iov_consume.  What it takes off total_len is what it took off the    *)
(* last entry it touched: total_len is too large from then on.             *)
IovConsume(s, n) ==
  LET io  == s.io
      hit == Min({j \in DOMAIN io : Ends(io)[j] >= n})
      cut == n - Ends(io)[hit - 1]
  IN  IF s.total_len = n THEN [s EXCEPT !.total_len = 0, !.io = <<>>]
      ELSE [s EXCEPT !.total_len = @ - cut,
              !.io = [j \in DOMAIN io |->
                        IF j < hit THEN [io[j] EXCEPT !.len = 0]
                        ELSE IF j = hit
                        THEN [io[j] EXCEPT !.at = @ + cut, !.len = @ - cut]
                        ELSE io[j]]]

Consume(s, n) ==
  [IF s.type = "IOV" THEN IovConsume(s, n) ELSE [s EXCEPT !.off = @ + n]
     EXCEPT !.total = @ - n]

(* The outcomes of a call: the cells written, the streams left and the     *)
(* result.  The end of a file before bytes_total is an error, and so is a  *)
(* connection the client has broken, which stays dead.                     *)
ChannelWrite(k) ==
  LET ss == k.streams
      s  == Head(ss)
      b  == Bytes(s)
      After(n) == LET t == Consume(s, n)
                  IN  IF t.total = 0 THEN Tail(ss) ELSE <<t>> \o Tail(ss)
      Failed(dead) == [out |-> <<>>, ss |-> Tail(ss), ret |-> "ERROR",
                       dead |-> dead]
  IN  IF ss = <<>>
      THEN {[out |-> <<>>, ss |-> ss, ret |-> "EMPTY", dead |-> k.dead]}
      ELSE IF k.dead THEN {Failed(TRUE)}
      ELSE {[out |-> SubSeq(b, 1, n), ss |-> After(n), dead |-> FALSE,
             ret |-> IF After(n) = <<>> THEN "DONE" ELSE "FLUSH"] :
              n \in 1..Len(b)}
           \cup {[out |-> <<>>, ss |-> ss, ret |-> "BUSY", dead |-> FALSE],
                 Failed(TRUE)}
           \cup {x \in {Failed(FALSE)} : b = <<>>}

-----------------------------------------------------------------------------
(* The scheduler: mk_sched_event_read, mk_sched_event_write.               *)

NewConn == [st |-> "read", streams |-> <<>>, flight |-> <<>>, n |-> 0,
            split |-> {}, dead |-> FALSE]

Init ==
  /\ clock = [now |-> 0, pub |-> 0, busy |-> FALSE,
              buf |-> [b \in 0..1 |-> IF b = 0 THEN 0 ELSE Torn]]
  /\ cl = [j \in 1..3 |-> Nul] /\ lm = None
  /\ conn = [c \in Conns |-> NewConn]
  /\ cur = Idle
  /\ todo \in Clients
  /\ got = [c \in Conns |-> <<>>]
  /\ meant = [c \in Conns |-> <<>>]

(* A flight of pipelined requests arrives in one piece: mk_http_sched_read *)
(* answers the first.                                                      *)
Arrive(c) ==
  /\ cur = Idle /\ conn[c].st = "read" /\ ~conn[c].dead
  /\ todo[c] # <<>>
  /\ LET f == Head(todo[c])
         k == [conn[c] EXCEPT !.flight = Tail(f), !.split = {}]
     IN  /\ Prepare(c, k, Head(f), 1)
         /\ cur' = [Idle EXCEPT !.c = {c}, !.at = IF Nudged(Head(f))
                                                  THEN "error" ELSE "loop"]
  /\ todo' = [todo EXCEPT ![c] = Tail(@)]
  /\ got' = [got EXCEPT ![c] = <<>>]
  /\ UNCHANGED clock

(* What a write does to the connection and to its client.  A write that    *)
(* leaves a part of a header is remembered.                                *)
Written(k, o) ==
  [k EXCEPT !.streams = o.ss, !.dead = o.dead,
            !.split = IF /\ o.out # <<>> /\ o.ss # <<>>
                         /\ Head(o.ss).type = "IOV"
                      THEN @ \cup {k.n} ELSE @]

Receive(c, o) == got' = [got EXCEPT ![c] = @ \o o.out]

Closed(c) ==
  /\ conn' = [conn EXCEPT ![c] = [NewConn EXCEPT !.st = "closed"]]
  /\ meant' = [meant EXCEPT ![c] = <<>>]
  /\ todo' = [todo EXCEPT ![c] = <<>>]
  /\ got' = [got EXCEPT ![c] = <<>>]
  /\ cur' = Idle
  /\ UNCHANGED <<cl, lm>>

(* cb_done: mk_http_request_end answers the next request of the flight, or *)
(* waits for another one.                                                  *)
Done(c, k) ==
  IF k.flight = <<>>
  THEN /\ conn' = [conn EXCEPT ![c] = [k EXCEPT !.st = "read"]]
       /\ cur' = Idle
       /\ UNCHANGED <<cl, lm, meant>>
  ELSE /\ Prepare(c, [k EXCEPT !.st = "write", !.flight = Tail(@)],
                  Head(k.flight), k.n + 1)
       /\ cur' = IF Nudged(Head(k.flight))
                 THEN [Idle EXCEPT !.c = {c}, !.at = "error"] ELSE Idle

Keep(c, k, r) ==
  /\ conn' = [conn EXCEPT ![c] = k]
  /\ cur' = r
  /\ UNCHANGED <<cl, lm, meant>>

(* The write in mk_http_error, whose result nobody looks at.               *)
ErrorWrite(c) ==
  /\ cur.at = "error" /\ cur.c = {c}
  /\ \E o \in ChannelWrite(conn[c]) :
       /\ Receive(c, o)
       /\ Keep(c, Written(conn[c], o),
               IF conn[c].st = "read" THEN [cur EXCEPT !.at = "loop"]
               ELSE Idle)
  /\ UNCHANGED <<clock, todo>>

(* The loop of mk_sched_event_read.  A write that fails does not touch     *)
(* count, which is added to total again.                                   *)
Count(o) == IF o.out # <<>> THEN Len(o.out) ELSE cur.count

Mut_Again(o) == cur.total + Count(o) <= PAGE /\ o.ret = "FLUSH"

Again(o) == cur.total + Count(o) <= PAGE /\ o.ret \in {"FLUSH", "BUSY"}

(* An error, or an empty channel, which means that mk_http_error has sent  *)
(* everything: nobody ends the request, and the session is stuck.          *)
ReadFlush(c) ==
  /\ cur.at = "loop" /\ cur.c = {c}
  /\ \E o \in ChannelWrite(conn[c]) :
       LET k == Written(conn[c], o) IN
       /\ Receive(c, o)
       /\ \/ /\ Again(o)
             /\ Keep(c, k, [cur EXCEPT !.count = Count(o),
                                       !.total = @ + Count(o)])
          \/ /\ ~Again(o) /\ o.ret \in {"FLUSH", "BUSY"}
             /\ Keep(c, [k EXCEPT !.st = "write"], Idle)
          \/ o.ret = "DONE" /\ Done(c, k)
          \/ /\ o.ret \in {"EMPTY", "ERROR"}
             /\ Keep(c, [k EXCEPT !.st = "stuck"], Idle)
  /\ UNCHANGED <<clock, todo>>

EventWrite(c) ==
  /\ cur = Idle /\ conn[c].st = "write"
  /\ \E o \in ChannelWrite(conn[c]) :
       LET k == Written(conn[c], o) IN
       \/ /\ o.ret = "ERROR" /\ Closed(c)
       \/ /\ o.ret # "ERROR" /\ Receive(c, o) /\ UNCHANGED todo
          /\ \/ o.ret \in {"FLUSH", "BUSY"} /\ Keep(c, k, Idle)
             \/ o.ret \in {"DONE", "EMPTY"} /\ Done(c, k)
  /\ UNCHANGED clock

(* A read ends a session that is stuck, or whose client is gone.           *)
SchedClose(c) ==
  /\ cur = Idle
  /\ conn[c].st = "stuck" \/ (conn[c].st = "read" /\ conn[c].dead)
  /\ Closed(c)
  /\ UNCHANGED clock

Next ==
  \/ Format \/ Publish
  \/ \E c \in Conns : \/ Arrive(c) \/ ErrorWrite(c) \/ ReadFlush(c)
                      \/ EventWrite(c) \/ SchedClose(c)

Spec == Init /\ [][Next]_vars

-----------------------------------------------------------------------------
(* Properties.                                                             *)

Shared == {"cl", "lm"}

(* The client can take the answers apart: whatever pieces the channel      *)
(* writes them in, every cell has the place it is due to have; status,     *)
(* lines, range and bytes are those DueHeader reads off the request; and   *)
(* when the worker waits for the next flight of a living client every      *)
(* answer has been sent in full.  So bytes_total, content_length, ranges[] *)
(* and what mk_iov_consume leaves agree, and an answer cut short, a range  *)
(* that ends behind the file (CutShort) included, is the last of its       *)
(* connection.                                                             *)
FramingKept ==
  \A c \in Conns :
    /\ Len(got[c]) <= Len(meant[c])
    /\ \A j \in DOMAIN got[c] :
         /\ got[c][j][1] = meant[c][j][1]
         /\ got[c][j][1] \notin Shared \cup {"date"} =>
              got[c][j][2] = meant[c][j][2]
    /\ conn[c].st = "read" /\ ~conn[c].dead /\ cur = Idle =>
         Len(got[c]) = Len(meant[c])

(* A client is only told of bytes that exist: both offsets of every        *)
(* Content-Range lie in the file, as qa/ranges_test04.htt has it of an     *)
(* offset equal to the size.  mk_http_range_set compares the first offset  *)
(* and the number of bytes with the size, never the last offset.           *)
RangesExist ==
  \A c \in Conns : \A j \in DOMAIN got[c] :
    got[c][j][1] = "range" =>
      LET r == got[c][j][2] IN {r[1], r[2]} \subseteq 0..(r[3] - 1)

(* A Content-Length or Last-Modified that is not the answer's own belongs  *)
(* to a header that had to wait in the channel: one that cb_done queued    *)
(* for a pipelined request, or one of which the socket took a part.  A     *)
(* header mk_sched_event_read queued and the socket takes nothing of stays *)
(* with the worker, which answers nobody else meanwhile.                   *)
DamagedOnlyIfWaited ==
  \A c \in Conns : \A j \in DOMAIN got[c] :
    got[c][j][1] \in Shared /\ got[c][j][2] # meant[c][j][2] =>
      meant[c][j][3] > 1 \/ 1 \in conn[c].split

(* The date of a header is whole, and the date it was given, until the     *)
(* clock has published one tick and begun another: that is what the two    *)
(* buffers of mk_clock.c are for.                                          *)
DateHoldsOneTick ==
  [][\A c \in Conns : \A j \in DOMAIN got'[c] \ DOMAIN got[c] :
       LET t == meant'[c][j][2] IN
       got'[c][j][1] = "date" /\ got'[c][j][2] # t =>
         clock.now + (IF clock.busy THEN 1 ELSE 0) >= t + 2]_vars
=============================================================================
