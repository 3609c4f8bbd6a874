-------------------------- MODULE MkResponse_proofs --------------------------
(***************************************************************************)
(* Proofs about MkResponse, for any connections, clients, files, ranges    *)
(* and number of ticks: what the two buffers of mk_clock.c hold, that what *)
(* leaves a channel in pieces of any size is the answer, cell by cell, and *)
(* when a text in a shared buffer may be another answer's.                 *)
(***************************************************************************)
EXTENDS MkResponse, MkLemmas, FiniteSetTheorems, TLAPS

-----------------------------------------------------------------------------
(* The inductive invariant: the buffers take turns, the published one      *)
(* holds the time, and the other one the tick before until the clock       *)
(* thread begins to write to it.                                           *)
ClockInv ==
  /\ DOMAIN clock = {"now", "pub", "busy", "buf"}
  /\ clock.now \in Nat /\ clock.busy \in BOOLEAN
  /\ clock.pub \in 0..1 /\ clock.pub = clock.now % 2
  /\ DOMAIN clock.buf = 0..1
  /\ clock.buf[clock.pub] = clock.now
  /\ ~clock.busy /\ clock.now > 0 =>
       clock.buf[1 - clock.pub] = clock.now - 1

(* The ticks that were published and the writer has not reached again.     *)
Untouched(t) ==
  t + 2 > clock.now + (IF clock.busy THEN 1 ELSE 0)

(* A header prepared at tick t points to the buffer published at t, number *)
(* t % 2.  That buffer holds t, whole, until the clock has published one   *)
(* tick and begun another.                                                 *)
BufferHoldsTick ==
  /\ clock.pub = clock.now % 2
  /\ \A t \in 0..clock.now : Untouched(t) => clock.buf[t % 2] = t

-----------------------------------------------------------------------------
(* The numbers of the buffers alternate.                                   *)
LEMMA Alternate ==
  ASSUME NEW n \in Nat
  PROVE  /\ n % 2 \in 0..1 /\ (n + 1) % 2 = 1 - (n % 2)
         /\ 1 - (n % 2) # n % 2
OBVIOUS

(* mk_clock_worker_init.                                                   *)
LEMMA ClockInitInv == Init => ClockInv
BY DEF Init, ClockInv

(* The clock thread keeps the invariant, and nobody else writes.           *)
LEMMA ClockNextInv == ClockInv /\ [Next]_vars => ClockInv'
<1> SUFFICES ASSUME ClockInv, [Next]_vars PROVE ClockInv'
  OBVIOUS
<1>1. CASE Format
  <2>1. clock' = [clock EXCEPT !.busy = TRUE,
                               !.buf[1 - clock.pub] = Torn]
    BY <1>1 DEF Format, NextBuffer
  <2>2. /\ DOMAIN clock' = DOMAIN clock /\ clock'.now = clock.now
        /\ clock'.pub = clock.pub /\ clock'.busy = TRUE
        /\ clock'.buf = [clock.buf EXCEPT ![1 - clock.pub] = Torn]
    BY <2>1 DEF ClockInv
  <2>3. 1 - clock.pub # clock.pub
    BY DEF ClockInv
  <2>4. /\ DOMAIN clock'.buf = 0..1
        /\ clock'.buf[clock.pub] = clock.buf[clock.pub]
    BY <2>2, <2>3 DEF ClockInv
  <2>5. clock'.busy \in BOOLEAN /\ clock'.busy
    BY <2>2, Zenon
  <2> QED BY <2>2, <2>4, <2>5 DEF ClockInv
<1>2. CASE Publish
  <2>1. clock' = [clock EXCEPT !.busy = FALSE, !.now = clock.now + 1,
                               !.buf[1 - clock.pub] = clock.now + 1,
                               !.pub = 1 - clock.pub]
    BY <1>2 DEF Publish, NextBuffer
  <2>2. /\ DOMAIN clock' = DOMAIN clock /\ clock'.now = clock.now + 1
        /\ clock'.pub = 1 - clock.pub /\ clock'.busy = FALSE
        /\ clock'.buf = [clock.buf EXCEPT ![1 - clock.pub] = clock.now + 1]
    BY <2>1 DEF ClockInv
  <2>3. /\ 1 - clock.pub # clock.pub /\ 1 - clock.pub \in 0..1
        /\ 1 - (1 - clock.pub) = clock.pub
    BY DEF ClockInv
  <2>4. /\ DOMAIN clock'.buf = 0..1
        /\ clock'.buf[clock.pub] = clock.buf[clock.pub]
        /\ clock'.buf[1 - clock.pub] = clock.now + 1
    BY <2>2, <2>3 DEF ClockInv
  <2>5. clock'.busy \in BOOLEAN
    BY <2>2, Zenon
  <2>6. clock'.pub = clock'.now % 2 /\ clock'.now \in Nat
    BY <2>2, Alternate DEF ClockInv
  <2>7. clock'.buf[clock'.pub] = clock'.now
    BY <2>2, <2>4
  <2>8. clock'.buf[1 - clock'.pub] = clock'.now - 1
    BY <2>2, <2>3, <2>4 DEF ClockInv
  <2>9. clock'.pub \in 0..1 /\ DOMAIN clock' = DOMAIN clock
    BY <2>2, <2>3
  <2> QED BY <2>4, <2>5, <2>6, <2>7, <2>8, <2>9 DEF ClockInv
<1>3. CASE UNCHANGED clock
  BY <1>3 DEF ClockInv
<1>4. ASSUME NEW c \in Conns,
             Arrive(c) \/ ErrorWrite(c) \/ ReadFlush(c) \/ EventWrite(c)
               \/ SchedClose(c)
      PROVE  UNCHANGED clock
  BY <1>4 DEF Arrive, ErrorWrite, ReadFlush, EventWrite, SchedClose
<1> QED BY <1>1, <1>2, <1>3, <1>4, Zenon DEF Next, vars

(* What the invariant says of a tick that is still fresh: it is this one,  *)
(* or the one before and nobody writes.                                    *)
LEMMA ClockHolds == ClockInv => BufferHoldsTick
<1> SUFFICES ASSUME ClockInv PROVE BufferHoldsTick
  OBVIOUS
<1>1. clock.now \in Nat /\ clock.pub = clock.now % 2
  BY DEF ClockInv
<1>2. ASSUME NEW t \in 0..clock.now, Untouched(t)
      PROVE  clock.buf[t % 2] = t
  <2>1. t \in Nat /\ t <= clock.now
    BY <1>1
  <2>2. CASE t = clock.now
    BY <2>2 DEF ClockInv
  <2>3. CASE t # clock.now
    <3>1. t = clock.now - 1 /\ ~clock.busy
      BY <1>1, <1>2, <2>1, <2>3 DEF Untouched
    <3>2. clock.now = t + 1 /\ clock.now > 0
      BY <1>1, <2>1, <3>1
    <3>3. t % 2 \in 0..1 /\ clock.now % 2 = 1 - (t % 2)
      BY <2>1, <3>2, Alternate
    <3>4. t % 2 = 1 - clock.pub
      BY <1>1, <3>3
    <3> QED BY <3>1, <3>2, <3>4 DEF ClockInv
  <2> QED BY <2>2, <2>3
<1> QED BY <1>1, <1>2 DEF BufferHoldsTick

(* The date a header points to is whole, and is the one it was given,      *)
(* until the clock has published one tick and begun to write another: two  *)
(* buffers are enough for a header that waits less than that.              *)
THEOREM DateBufferHolds == Spec => []BufferHoldsTick
<1>1. Spec => []ClockInv
  BY ClockInitInv, ClockNextInv, PTL DEF Spec
<1> QED BY <1>1, ClockHolds, PTL

-----------------------------------------------------------------------------
(* The inductive invariant of the connections.                             *)

Vals == (Int \X Int \X Int) \cup Int
Kinds == {"status", "date", "lm", "cl", "range", "page"}
EntryType == [kind : Kinds, val : Vals, at : Nat, len : Nat]
StreamType == [type : {"IOV", "FILE"}, io : Seq(EntryType),
               total_len : Int, total : Nat, off : Nat, size : Nat]
ConnType == [st : {"read", "write", "stuck", "closed"},
             streams : Seq(StreamType), flight : Seq(Request), n : Nat,
             split : SUBSET Nat, dead : BOOLEAN]
CurType == [c : {{c} : c \in Conns}, at : {"error", "loop"},
            count : Nat, total : Nat]

TypeOK ==
  /\ conn \in [Conns -> ConnType]
  /\ todo \in [Conns -> Seq(Seq(Request) \ {<<>>})]
  /\ cur \in CurType \cup {Idle}
  /\ got = [c \in Conns |-> got[c]] /\ meant = [c \in Conns |-> meant[c]]
  /\ \A c \in Conns : IsSeq(got[c]) /\ IsSeq(meant[c])

(* A cell of the text an entry stands for is the cell m of the answer's    *)
(* meaning.  A shared buffer may hold anything.                            *)
Slot(e, m, n) ==
  /\ m[1] = e.kind /\ m[3] = n
  /\ e.kind = "date" => m[2] \in 0..clock.now /\ e.val = m[2] % 2
  /\ e.kind \notin Shared \cup {"date"} => m[2] = e.val

(* The entries of a header stand for the cells of m that follow place B.   *)
Entered(io, m, B, n) ==
  \A j \in 1..Len(io) : \A x \in 1..io[j].len :
    Slot(io[j], m[B + Ends(io)[j - 1] + x], n)

(* A date and a Last-Modified are one cell.                                *)
Single(io) ==
  \A j \in 1..Len(io) :
    io[j].kind \in {"date", "lm"} => io[j].at + io[j].len <= 1

IovOK(s, m, B, n) ==
  /\ s.type = "IOV" /\ s.total = Sum(s.io) /\ s.total > 0
  /\ s.total <= s.total_len
  /\ Entered(s.io, m, B, n) /\ Single(s.io)

FileOK(s, m, B, n) ==
  /\ s.type = "FILE" /\ s.off <= s.size
  /\ \A j \in 1..s.total : m[B + j] = <<"byte", s.off + j - 1, n>>

StreamOK(s, m, B, n) == IovOK(s, m, B, n) \/ FileOK(s, m, B, n)

(* The streams of a channel are what is left of m after place B.           *)
Pending(ss, m, B, n) ==
  \/ ss = <<>> /\ Len(m) = B
  \/ /\ ss = <<ss[1]>> /\ StreamOK(ss[1], m, B, n)
     /\ Len(m) = B + ss[1].total
  \/ /\ ss = <<ss[1], ss[2]>> /\ IovOK(ss[1], m, B, n)
     /\ FileOK(ss[2], m, B + ss[1].total, n)
     /\ Len(m) = B + ss[1].total + ss[2].total

(* What was received is what was meant, up to the shared buffers.          *)
Received(g, m, split) ==
  /\ Len(g) <= Len(m)
  /\ \A j \in 1..Len(g) :
       /\ g[j][1] = m[j][1]
       /\ g[j][1] \notin Shared \cup {"date"} => g[j][2] = m[j][2]
       /\ g[j][1] \in Shared =>
            g[j][2] = m[j][2] \/ m[j][3] > 1 \/ 1 \in split

Alive(k) == k.st \in {"read", "write"} /\ ~k.dead

(* The header of the first answer has not begun to leave.                  *)
Whole(k) ==
  /\ Alive(k) /\ k.n = 1 /\ 1 \notin k.split
  /\ k.streams # <<>> /\ k.streams[1].type = "IOV"

(* The shared buffers hold the texts of the header.                        *)
OwnSlot(e, x, m) ==
  /\ e.kind = "cl" => cl[e.at + x] = m[2]
  /\ e.kind = "lm" => lm = m[2]
Own(io, m, B) ==
  \A j \in 1..Len(io) : \A x \in 1..io[j].len :
    OwnSlot(io[j], x, m[B + Ends(io)[j - 1] + x])

(* A connection k whose client has received g and is to receive m, while   *)
(* the worker is at r: what is queued is what is missing; a connection     *)
(* that waits for a request has nothing queued; and the worker stays with  *)
(* the first header of a flight, whose texts the shared buffers hold,      *)
(* until the socket takes some of it.                                      *)
ConnIs(k, g, m, r, c) ==
  /\ Received(g, m, k.split)
  /\ Alive(k) => Pending(k.streams, m, Len(g), k.n)
  /\ k.st = "read" /\ ~k.dead /\ r.c # {c} => k.streams = <<>>
  /\ k.st = "write" \/ r.c = {c} => k.n >= 1
  /\ r.c = {c} => k.st \in {"read", "write"}
  /\ r.c = {c} /\ r.at = "loop" => k.st = "read"
  /\ r.c = {c} /\ r.at = "error" /\ ~k.dead =>
       k.streams = <<k.streams[1]>> /\ k.streams[1].type = "IOV"
  /\ Whole(k) =>
       /\ r.c = {c} /\ k.st = "read" /\ r.count = 0 /\ r.total = 0
       /\ Own(k.streams[1].io, m, Len(g))

ConnOK(c) == ConnIs(conn[c], got[c], meant[c], cur, c)

ResponseInv == ClockInv /\ TypeOK /\ \A c \in Conns : ConnOK(c)

-----------------------------------------------------------------------------
(* Where the entries of a header end.                                      *)

(* The recursive function Ends is made of exists.                          *)
LEMMA EndsExist ==
  ASSUME NEW n \in Nat, NEW es
  PROVE  \E g : g = [j \in 0..n |-> IF j = 0 THEN 0
                                    ELSE g[j - 1] + es[j].len]
<1> DEFINE Rec(g, m) ==
             /\ g = [j \in 0..m |-> g[j]]
             /\ \A j \in 0..m : g[j] = IF j = 0 THEN 0
                                       ELSE g[j - 1] + es[j].len
           T == {m \in 0..n : ~ \E g : Rec(g, m)}
<1>1. ASSUME NEW m \in T PROVE m # 0 /\ m - 1 \in T
  <2>1. m \in 0..n /\ ~ \E g : Rec(g, m)
    OBVIOUS
  <2>2. Rec([j \in 0..0 |-> 0], 0)
    OBVIOUS
  <2>3. m # 0
    BY <2>1, <2>2
  <2>4. m - 1 \in 0..n /\ m \in 1..n
    BY <2>1, <2>3
  <2>5. ASSUME NEW g, Rec(g, m - 1) PROVE FALSE
    <3> DEFINE h == [j \in 0..m |-> IF j = m THEN g[j - 1] + es[j].len
                                    ELSE g[j]]
    <3>1. \A j \in 0..m : j # m => j \in 0..(m - 1)
      BY <2>4
    <3>2. \A j \in 0..m : j # 0 => j - 1 \in 0..m /\ j - 1 # m
      BY <2>4
    <3>3. \A j \in 0..m : j # 0 => h[j - 1] = g[j - 1]
      BY <3>2
    <3>4. ASSUME NEW j \in 0..m
          PROVE  h[j] = IF j = 0 THEN 0 ELSE h[j - 1] + es[j].len
      <4>1. CASE j = m
        <5>1. h[j] = g[j - 1] + es[j].len /\ j # 0
          BY <2>3, <4>1
        <5> QED BY <3>3, <5>1
      <4>2. CASE j # m
        <5>1. h[j] = g[j] /\ j \in 0..(m - 1)
          BY <3>1, <4>2
        <5>2. g[j] = IF j = 0 THEN 0 ELSE g[j - 1] + es[j].len
          BY <2>5, <5>1
        <5> QED BY <3>3, <5>1, <5>2
      <4> QED BY <4>1, <4>2
    <3>5. h = [j \in 0..m |-> h[j]]
      OBVIOUS
    <3> HIDE DEF h
    <3>6. Rec(h, m)
      BY <3>4, <3>5
    <3> QED BY <2>1, <3>6
  <2> QED BY <2>3, <2>4, <2>5
<1>2. T \subseteq 0..n
  OBVIOUS
<1> HIDE DEF T
<1>3. T = {}
  BY <1>1, <1>2, NoException
<1>4. PICK g : Rec(g, n)
  BY <1>3 DEF T
<1>5. g = [j \in 0..n |-> IF j = 0 THEN 0 ELSE g[j - 1] + es[j].len]
  BY <1>4
<1> QED BY <1>5

(* P says where the entries es end.                                        *)
EndsOf(P, es) ==
  /\ Len(es) \in Nat /\ DOMAIN es = 1..Len(es) /\ Places(P, Len(es))
  /\ \A j \in 1..Len(es) : es[j].len \in Nat /\ P[j] = P[j - 1] + es[j].len

(* Ends does.                                                              *)
LEMMA EndsAre ==
  ASSUME NEW es \in Seq(EntryType), NEW P, P = Ends(es)
  PROVE  EndsOf(P, es)
<1>1. PICK n : n = Len(es)
  OBVIOUS
<1>2. n \in Nat /\ \A j \in 1..n : es[j].len \in Nat
  <2>1. n \in Nat /\ \A j \in 1..n : es[j] \in EntryType
    BY <1>1, ElementOfSeq
  <2> QED BY <2>1 DEF EntryType
<1> DEFINE F == CHOOSE g : g = [j \in 0..n |-> IF j = 0 THEN 0
                                  ELSE g[j - 1] + es[j].len]
<1>3. P = F
  BY <1>1, Zenon DEF Ends
<1>4. F = [j \in 0..n |-> IF j = 0 THEN 0 ELSE F[j - 1] + es[j].len]
  <2>1. \E g : g = [j \in 0..n |-> IF j = 0 THEN 0
                                   ELSE g[j - 1] + es[j].len]
    BY <1>2, EndsExist
  <2> QED BY <2>1, Zenon
<1> HIDE DEF F
<1>5. P = [j \in 0..n |-> IF j = 0 THEN 0 ELSE P[j - 1] + es[j].len]
  BY <1>3, <1>4, Zenon
<1>6. P[0] = 0 /\ \A j \in 1..n : P[j] = P[j - 1] + es[j].len
  <2>1. \A j \in 0..n : P[j] = IF j = 0 THEN 0 ELSE P[j - 1] + es[j].len
    BY <1>5, Zenon
  <2>2. 0 \in 0..n /\ \A j \in 1..n : j \in 0..n /\ j # 0
    BY <1>2
  <2> QED BY <2>1, <2>2, Zenon
<1> DEFINE T == {j \in 0..n : P[j] \notin Nat}
<1>7. ASSUME NEW m \in T PROVE m # 0 /\ m - 1 \in T
  <2>1. m # 0 /\ m \in 1..n /\ m - 1 \in 0..n
    BY <1>2, <1>6
  <2>2. P[m] = P[m - 1] + es[m].len /\ es[m].len \in Nat /\ P[m] \notin Nat
    BY <1>2, <1>6, <2>1
  <2>3. P[m - 1] \notin Nat
    BY <2>2
  <2> QED BY <2>1, <2>3
<1>8. T \subseteq 0..n
  OBVIOUS
<1> HIDE DEF T
<1>9. T = {}
  BY <1>2, <1>7, <1>8, NoException
<1>10. \A j \in 0..n : P[j] \in Nat
  BY <1>9 DEF T
<1>11. P \in [0..n -> Nat]
  BY <1>5, <1>10
<1>12. \A j \in 1..n : P[j - 1] <= P[j]
  <2> SUFFICES ASSUME NEW j \in 1..n PROVE P[j - 1] <= P[j]
    OBVIOUS
  <2>1. P[j - 1] \in Nat /\ es[j].len \in Nat /\ P[j] = P[j - 1] + es[j].len
    BY <1>2, <1>6, <1>10
  <2> QED BY <2>1
<1>13. Places(P, n)
  BY <1>6, <1>11, <1>12 DEF Places
<1> QED BY <1>1, <1>2, <1>6, <1>13 DEF EndsOf

-----------------------------------------------------------------------------
(* Numbers and buffers.                                                    *)

(* mk_string_itop writes a text that is not empty.                         *)
LEMMA ItopIs ==
  ASSUME NEW n \in Nat, NEW f, f = Itop(n)
  PROVE  IsSeq(f) /\ Len(f) \in Nat /\ DOMAIN f = 1..Len(f)
<1>1. IsFiniteSet(1..n)
  BY FS_Interval
<1>2. IsFiniteSet({k \in 1..n : RADIX^k <= n})
  BY <1>1, FS_Subset
<1>3. Cardinality({k \in 1..n : RADIX^k <= n}) \in Nat
  BY <1>2, FS_CardinalityType
<1>4. Digits10(n) + 1 \in Nat
  BY <1>3 DEF Digits10
<1>5. PICK d : d = Digits10(n)
  OBVIOUS
<1>6. f = [j \in 1..(d + 1) |-> f[j]]
  BY <1>5 DEF Itop
<1> QED BY <1>4, <1>5, <1>6, Built

(* A text written over a buffer is there.                                  *)
LEMMA OverIs ==
  ASSUME NEW buf, NEW s, NEW x \in DOMAIN s
  PROVE  Over(buf, s)[x] = s[x]
BY DEF Over

-----------------------------------------------------------------------------
(* What a request is answered with.                                        *)

(* Status, lines, length, range and bytes of an answer are those that the  *)
(* request is due.                                                         *)
AnswerOK(q, h) ==
  /\ h.status \in Int /\ h.lm \in Int /\ h.len \in Int
  /\ h.status = DueStatus(q)
  /\ h.lm > 0 <=> DueStatus(q) < 400 /\ q.time > 0
  /\ h.lm > 0 => h.lm = q.time
  /\ h.len >= 0 <=> DueStatus(q) # 304
  /\ h.len >= 0 => h.len = DueLength(q)
  /\ h.len # 0 /\ h.r # <<None, None>> <=> DueStatus(q) = 206
  /\ h.len # 0 /\ h.r # <<None, None>> =>
       /\ ContentRange(h) = <<FirstByte(q), LastByte(q), q.size>>
       /\ ContentRange(h) \in Int \X Int \X Int
  /\ h.body = "page" <=> DuePage(q)
  /\ h.body = "page" => h.total = 1
  /\ h.body = "file" <=> DueFile(q)
  /\ h.body = "file" =>
       /\ h.total \in Nat /\ h.total = LastByte(q) - FirstByte(q) + 1
       /\ h.off \in Nat /\ h.off = FirstByte(q)
       /\ h.real \in Nat /\ h.off <= h.real /\ h.status < 400

(* mk_http_error.                                                          *)
LEMMA ErrorOK ==
  ASSUME NEW q, NEW s \in Int, s >= 400, s = DueStatus(q), NEW p \in 0..1,
         p = 1 <=> DuePage(q), NEW h, h = Error(s, p)
  PROVE  AnswerOK(q, h)
<1>1. /\ h.status = s /\ h.len = p /\ h.lm = None /\ h.r = <<None, None>>
      /\ h.body = (IF p > 0 THEN "page" ELSE "none") /\ h.total = p
  BY DEF Error
<1>2. h.body # "file" /\ (h.body = "page" <=> p = 1)
  BY <1>1
<1>3. DueLength(q) = p
  BY DEF DueLength
<1>4. ~DueFile(q) /\ DueStatus(q) # 206 /\ DueStatus(q) # 304
      /\ ~(DueStatus(q) < 400)
  BY DEF DueFile
<1>5. ~(h.lm > 0) /\ h.len >= 0 /\ h.len \in Int /\ h.lm \in Int
  BY <1>1 DEF None
<1> QED BY <1>1, <1>2, <1>3, <1>4, <1>5 DEF AnswerOK

(* An answer with the bytes from a to b of a file, whatever it says of the *)
(* range.                                                                  *)
OfBytes(q, h, a, b) ==
  /\ a \in Nat /\ b \in Int /\ a <= b /\ a <= q.size
  /\ a = FirstByte(q) /\ b = LastByte(q)
  /\ h.status \in {200, 206} /\ h.status = DueStatus(q)
  /\ h.lm = q.time /\ h.len = b - a + 1
  /\ h.body = (IF q.method = "GET" THEN "file" ELSE "none")
  /\ h.off = a /\ h.total = b - a + 1 /\ h.real = q.size
  /\ h.r # <<None, None>> <=> h.status = 206
  /\ h.r # <<None, None>> => ContentRange(h) = <<a, b, q.size>>

(* Such an answer is what the request is due.                              *)
LEMMA BytesOK ==
  ASSUME NEW q \in Request, NEW h, NEW a, NEW b, OfBytes(q, h, a, b)
  PROVE  AnswerOK(q, h)
<1> USE DEF OfBytes
<1>1. q.size \in Nat /\ q.time \in Nat
  BY DEF Request
<1>2. h.body # "page" /\ h.status \in Int /\ ~(h.status >= 400)
      /\ h.status < 400 /\ h.status # 304
  OBVIOUS
<1>3. ~DuePage(q) /\ (DueFile(q) <=> h.body = "file")
  BY DEF DuePage, DueFile
<1>4. <<a, b, q.size>> \in Int \X Int \X Int
  BY <1>1
<1>5. h.len \in Int /\ h.lm \in Int /\ h.total \in Nat /\ h.len >= 0
      /\ h.len # 0
  BY <1>1
<1>6. h.len # 0 /\ h.r # <<None, None>> =>
       /\ ContentRange(h) = <<FirstByte(q), LastByte(q), q.size>>
       /\ ContentRange(h) \in Int \X Int \X Int
  BY <1>4
<1>7. h.body = "file" =>
       /\ h.total \in Nat /\ h.total = LastByte(q) - FirstByte(q) + 1
       /\ h.off \in Nat /\ h.off = FirstByte(q)
       /\ h.real \in Nat /\ h.off <= h.real /\ h.status < 400
  BY <1>1, <1>2, <1>5
<1>8. h.len = DueLength(q)
  BY <1>2, <1>3 DEF DueLength
<1>9. h.status = DueStatus(q) /\ h.lm = q.time
      /\ (h.r # <<None, None>> <=> h.status = 206)
  OBVIOUS
<1> HIDE DEF OfBytes
<1> QED BY <1>2, <1>3, <1>5, <1>6, <1>7, <1>8, <1>9 DEF AnswerOK

(* A request for a part of a file that is there and not known to the       *)
(* client.                                                                 *)
Asks(q) == /\ q.size # 0 /\ ~(q.fresh /\ q.method = "GET")
           /\ q.range # <<>>

(* The tests of mk_http_range_parse and mk_http_range_set choose the       *)
(* status the request is due.                                              *)
LEMMA RangeStatus ==
  ASSUME NEW q \in Request, Asks(q), NEW p, p = RangeParse(q),
         NEW s, s = RangeSet(p.r, q.size)
  PROVE  DueStatus(q) = IF ~p.ok THEN 400
                        ELSE IF ~Satisfiable(s, q.size) THEN 416 ELSE 206
<1>1. PICK a \in Number, b \in Number : q.range = <<a, b>>
  BY DEF Request, Asks
<1>2. PICK n \in Nat : n = q.size
  BY DEF Request
<1>3. n # 0 /\ q.range[1] = a /\ q.range[2] = b
  BY <1>1, <1>2 DEF Asks
<1>4. Range(q.range) = {a, b}
  <2>1. DOMAIN q.range = 1..2 /\ 1..2 = {1, 2}
    BY <1>1
  <2> QED BY <1>3, <2>1 DEF Range
<1>5. DueStatus(q) = IF Backwards(q) THEN 400
                     ELSE IF InFile(q) \/ CutShort(q) THEN 206 ELSE 416
  BY DEF DueStatus, Asks
<1>6. CASE a = None
  <2>1. FirstByte(q) = n - b /\ LastByte(q) = n - 1 /\ b \in Int
    BY <1>1, <1>2, <1>3, <1>4, <1>6 DEF FirstByte, LastByte, Number, None
  <2>2. p.ok <=> b > 0
    BY <1>3, <1>6, <2>1 DEF RangeParse
  <2>3. Backwards(q) <=> ~(b > 0)
    BY <1>3, <1>6, <2>1 DEF Backwards
  <2>4. ASSUME b > 0
        PROVE  /\ InFile(q) \/ CutShort(q) <=> Satisfiable(s, n)
    <3>1. p.r = <<None, b>>
      BY <1>3, <1>6, <2>1, <2>4 DEF RangeParse
    <3>2. p.r # <<None, None>> /\ p.r[1] = None /\ p.r[2] = b
      BY <2>1, <2>4, <3>1 DEF None
    <3>3. s = [off |-> n - b, total |-> b]
      BY <1>2, <3>2 DEF RangeSet
    <3>4. Satisfiable(s, n) <=> b <= n
      BY <2>1, <2>4, <3>3 DEF Satisfiable
    <3>5. InFile(q) <=> b <= n
      BY <1>2, <2>1, <2>4, <1>3 DEF InFile
    <3>6. ~CutShort(q)
      BY <1>2, <2>1 DEF CutShort
    <3> QED BY <3>4, <3>5, <3>6
  <2> QED BY <1>2, <1>5, <2>2, <2>3, <2>4
<1>7. CASE a # None /\ b # None
  <2>1. a \in Nat /\ b \in Nat
    BY <1>7 DEF Number
  <2>2. FirstByte(q) = a /\ LastByte(q) = b
    BY <1>1, <1>3, <1>4, <1>7 DEF FirstByte, LastByte
  <2>3. p.ok <=> ~(a > b)
    BY <1>3, <1>7 DEF RangeParse
  <2>4. Backwards(q) <=> a > b
    BY <1>3, <1>7, <2>1, <2>2 DEF Backwards
  <2>5. ASSUME ~(a > b)
        PROVE  /\ InFile(q) \/ CutShort(q) <=> Satisfiable(s, n)
    <3>1. p.r = <<a, b>>
      BY <1>3, <1>7, <2>5 DEF RangeParse
    <3>2. p.r # <<None, None>> /\ p.r[1] = a /\ p.r[2] = b
      BY <1>7, <3>1
    <3>3. s = [off |-> a, total |-> b - a + 1]
      BY <1>2, <1>7, <3>2 DEF RangeSet
    <3>4. Satisfiable(s, n) <=> a < n /\ b - a < n
      BY <2>1, <3>3 DEF Satisfiable
    <3>5. InFile(q) <=> a < n /\ b < n
      BY <1>2, <2>1, <2>2 DEF InFile
    <3>6. CutShort(q) <=> a < n /\ b >= n /\ b - a < n
      BY <1>2, <2>2 DEF CutShort
    <3> QED BY <2>1, <2>5, <3>4, <3>5, <3>6
  <2> QED BY <1>2, <1>5, <2>3, <2>4, <2>5
<1>8. CASE a # None /\ b = None
  <2>1. a \in Nat
    BY <1>8 DEF Number
  <2>2. FirstByte(q) = a /\ LastByte(q) = n - 1
    BY <1>1, <1>2, <1>3, <1>4, <1>8 DEF FirstByte, LastByte
  <2>3. p.ok /\ p.r = <<a, None>>
    BY <1>3, <1>8 DEF RangeParse
  <2>4. ~Backwards(q)
    BY <1>3, <1>8 DEF Backwards
  <2>5. p.r # <<None, None>> /\ p.r[1] = a /\ p.r[2] = None
    BY <1>8, <2>3
  <2>6. s = [off |-> a, total |-> n - a]
    BY <1>2, <1>8, <2>5 DEF RangeSet
  <2>7. Satisfiable(s, n) <=> a < n
    BY <2>1, <2>6 DEF Satisfiable
  <2>8. InFile(q) <=> a < n
    BY <1>2, <1>3, <2>1, <2>2 DEF InFile
  <2>9. ~CutShort(q)
    BY <1>2, <2>2 DEF CutShort
  <2> QED BY <1>2, <1>5, <2>3, <2>4, <2>7, <2>8, <2>9
<1> QED BY <1>6, <1>7, <1>8

(* The file, or a part of it: mk_http_init after it has found the file.    *)
FileAnswer(q) ==
  [status |-> 200, len |-> q.size, lm |-> q.time,
   r |-> <<None, None>>, real |-> q.size,
   body |-> IF q.method = "GET" THEN "file" ELSE "none",
   off |-> 0, total |-> q.size]

PartAnswer(q, p, s, h) ==
  /\ Asks(q) /\ p = RangeParse(q) /\ p.ok
  /\ s = RangeSet(p.r, q.size) /\ Satisfiable(s, q.size)
  /\ h = [FileAnswer(q) EXCEPT !.status = 206, !.len = p.len, !.r = p.r,
                               !.off = s.off, !.total = s.total]

(* mk_http_range_parse, mk_http_range_set and the header agree on a range  *)
(* that can be satisfied.                                                  *)
LEMMA PartOK ==
  ASSUME NEW q \in Request, NEW p, NEW s, NEW h, PartAnswer(q, p, s, h)
  PROVE  AnswerOK(q, h)
<1> USE DEF PartAnswer
<1>1. PICK a \in Number, b \in Number : q.range = <<a, b>>
  BY DEF Request, Asks
<1>2. q.size \in Nat /\ q.range[1] = a /\ q.range[2] = b
  BY <1>1 DEF Request
<1>3. Range(q.range) = {a, b}
  <2>1. DOMAIN q.range = 1..2 /\ 1..2 = {1, 2}
    BY <1>1
  <2> QED BY <1>2, <2>1 DEF Range
<1>4. /\ h.status = 206 /\ h.len = p.len /\ h.r = p.r /\ h.off = s.off
      /\ h.total = s.total /\ h.lm = q.time /\ h.real = q.size
      /\ h.body = (IF q.method = "GET" THEN "file" ELSE "none")
      /\ DueStatus(q) = 206
  <2>1. DueStatus(q) = 206
    BY RangeStatus
  <2> QED BY <2>1 DEF FileAnswer
<1>5. CASE a = None
  <2>1. b \in Nat /\ b > 0 /\ p = [ok |-> TRUE, r |-> <<None, b>>, len |-> b]
    <3>1. ~(b <= 0)
      BY <1>2, <1>5 DEF RangeParse
    <3>2. b \in Nat
      BY <3>1 DEF Number, None
    <3> QED BY <1>2, <1>5, <3>1, <3>2 DEF RangeParse
  <2>2. p.r = <<None, b>> /\ p.len = b /\ b # None /\ p.r # <<None, None>>
        /\ p.r[1] = None /\ p.r[2] = b
    BY <2>1 DEF None
  <2>3. s = [off |-> q.size - b, total |-> b]
    BY <2>2 DEF RangeSet
  <2>4. s.off = q.size - b /\ s.total = b /\ b <= q.size /\ q.size > 0
    BY <1>2, <2>1, <2>3 DEF Satisfiable
  <2>5. FirstByte(q) = q.size - b /\ LastByte(q) = q.size - 1
    BY <1>1, <1>2, <1>3, <1>5 DEF FirstByte, LastByte
  <2>6. ContentRange(h) = <<q.size - b, q.size - 1, q.size>>
    BY <1>4, <2>2 DEF ContentRange
  <2>7. PICK f, l : f = q.size - b /\ l = q.size - 1
    OBVIOUS
  <2>8. /\ f \in Nat /\ l \in Int /\ f <= l /\ f <= q.size
        /\ l - f + 1 = b
    BY <1>2, <2>1, <2>4, <2>7
  <2>9. OfBytes(q, h, f, l)
    BY <1>4, <2>2, <2>4, <2>5, <2>6, <2>7, <2>8 DEF OfBytes
  <2> QED BY <2>9, BytesOK
<1>6. CASE a # None /\ b # None
  <2>1. a \in Nat /\ b \in Nat
    BY <1>6 DEF Number
  <2>2. ~(a > b) /\ p = [ok |-> TRUE, r |-> <<a, b>>, len |-> b - a + 1]
    BY <1>2, <1>6 DEF RangeParse
  <2>3. p.r = <<a, b>> /\ p.len = b - a + 1 /\ p.r # <<None, None>>
        /\ p.r[1] = a /\ p.r[2] = b
    BY <1>6, <2>2
  <2>4. s = [off |-> a, total |-> b - a + 1]
    BY <1>6, <2>3 DEF RangeSet
  <2>5. s.off = a /\ s.total = b - a + 1 /\ a <= q.size
    BY <1>2, <2>1, <2>4 DEF Satisfiable
  <2>6. FirstByte(q) = a /\ LastByte(q) = b
    BY <1>1, <1>2, <1>3, <1>6 DEF FirstByte, LastByte
  <2>7. ContentRange(h) = <<a, b, q.size>>
    BY <1>4, <1>6, <2>3 DEF ContentRange
  <2>8. a <= b
    BY <2>1, <2>2
  <2>9. OfBytes(q, h, a, b)
    BY <1>4, <2>1, <2>3, <2>5, <2>6, <2>7, <2>8 DEF OfBytes
  <2> QED BY <2>9, BytesOK
<1>7. CASE a # None /\ b = None
  <2>1. a \in Nat
    BY <1>7 DEF Number
  <2>2. p = [ok |-> TRUE, r |-> <<a, None>>, len |-> q.size - a]
    BY <1>2, <1>7 DEF RangeParse
  <2>3. p.r = <<a, None>> /\ p.len = q.size - a /\ p.r # <<None, None>>
        /\ p.r[1] = a /\ p.r[2] = None
    BY <1>7, <2>2
  <2>4. s = [off |-> a, total |-> q.size - a]
    BY <1>7, <2>3 DEF RangeSet
  <2>5. s.off = a /\ s.total = q.size - a /\ a <= q.size - 1
    BY <1>2, <2>1, <2>4 DEF Satisfiable
  <2>6. FirstByte(q) = a /\ LastByte(q) = q.size - 1
    BY <1>1, <1>2, <1>3, <1>7 DEF FirstByte, LastByte
  <2>7. ContentRange(h) = <<a, q.size - 1, q.size>>
    BY <1>4, <1>7, <2>3 DEF ContentRange
  <2>8. PICK l : l = q.size - 1
    OBVIOUS
  <2>9. /\ l \in Int /\ a <= l /\ a <= q.size /\ l - a + 1 = q.size - a
    BY <1>2, <2>1, <2>5, <2>8
  <2>10. OfBytes(q, h, a, l)
    BY <1>4, <2>1, <2>3, <2>5, <2>6, <2>7, <2>8, <2>9 DEF OfBytes
  <2> QED BY <2>10, BytesOK
<1> QED BY <1>5, <1>6, <1>7

(* mk_http_init: whatever the request, the header and the bytes of its     *)
(* answer agree with it.                                                   *)
LEMMA AnswerAgrees ==
  ASSUME NEW q \in Request, NEW h, h = Answer(q)
  PROVE  AnswerOK(q, h)
<1>1. PICK p, s, f : /\ p = RangeParse(q) /\ s = RangeSet(p.r, q.size)
                     /\ f = FileAnswer(q)
  OBVIOUS
<1>2. h = IF q.size = 0
          THEN Error(404, IF q.method = "GET" THEN 1 ELSE 0)
          ELSE IF q.fresh /\ q.method = "GET"
          THEN [f EXCEPT !.status = 304, !.len = None, !.body = "none"]
          ELSE IF q.range = <<>> THEN f
          ELSE IF ~p.ok THEN Error(400, 0)
          ELSE IF ~Satisfiable(s, q.size) THEN Error(416, 0)
          ELSE [f EXCEPT !.status = 206, !.len = p.len, !.r = p.r,
                         !.off = s.off, !.total = s.total]
  BY <1>1 DEF Answer, FileAnswer
<1>3. q.size \in Nat /\ q.time \in Nat
  BY DEF Request
<1>4. CASE q.size = 0
  <2>1. PICK g : g = IF q.method = "GET" THEN 1 ELSE 0
    OBVIOUS
  <2>2. h = Error(404, g) /\ g \in 0..1
    BY <1>2, <1>4, <2>1
  <2>3. DueStatus(q) = 404 /\ (g = 1 <=> DuePage(q))
    BY <1>4, <2>1 DEF DueStatus, DuePage
  <2> QED BY <2>2, <2>3, ErrorOK
<1>5. CASE q.size # 0 /\ q.fresh /\ q.method = "GET"
  <2>1. h = [f EXCEPT !.status = 304, !.len = None, !.body = "none"]
    BY <1>2, <1>5
  <2>2. /\ h.status = 304 /\ h.len = None /\ h.body = "none"
        /\ h.lm = q.time /\ h.r = <<None, None>>
    BY <1>1, <2>1 DEF FileAnswer
  <2>3. DueStatus(q) = 304 /\ ~DuePage(q) /\ ~DueFile(q)
    BY <1>5 DEF DueStatus, DuePage, DueFile
  <2> QED BY <1>3, <2>2, <2>3 DEF AnswerOK, None
<1>6. CASE q.size # 0 /\ ~(q.fresh /\ q.method = "GET") /\ q.range = <<>>
  <2>1. h = FileAnswer(q)
    BY <1>1, <1>2, <1>6
  <2>2. /\ h.status = 200 /\ h.len = q.size /\ h.lm = q.time
        /\ h.r = <<None, None>> /\ h.real = q.size /\ h.off = 0
        /\ h.total = q.size
        /\ h.body = (IF q.method = "GET" THEN "file" ELSE "none")
        /\ DueStatus(q) = 200
    BY <1>6, <2>1 DEF FileAnswer, DueStatus
  <2>3. FirstByte(q) = 0 /\ LastByte(q) = q.size - 1
    BY <1>6 DEF FirstByte, LastByte
  <2>4. PICK l : l = q.size - 1
    OBVIOUS
  <2>5. l \in Int /\ 0 <= l /\ 0 <= q.size /\ l - 0 + 1 = q.size
    BY <1>3, <1>6, <2>4
  <2>6. OfBytes(q, h, 0, l)
    BY <2>2, <2>3, <2>4, <2>5 DEF OfBytes
  <2> QED BY <2>6, BytesOK
<1>7. CASE /\ q.size # 0 /\ ~(q.fresh /\ q.method = "GET")
           /\ q.range # <<>> /\ ~p.ok
  <2>1. h = Error(400, 0)
    BY <1>2, <1>7
  <2>2. DueStatus(q) = 400 /\ ~DuePage(q)
    BY <1>1, <1>7, RangeStatus DEF Asks, DuePage
  <2> QED BY <2>1, <2>2, ErrorOK
<1>8. CASE /\ q.size # 0 /\ ~(q.fresh /\ q.method = "GET")
           /\ q.range # <<>> /\ p.ok /\ ~Satisfiable(s, q.size)
  <2>1. h = Error(416, 0)
    BY <1>2, <1>8
  <2>2. DueStatus(q) = 416 /\ ~DuePage(q)
    BY <1>1, <1>8, RangeStatus DEF Asks, DuePage
  <2> QED BY <2>1, <2>2, ErrorOK
<1>9. CASE /\ q.size # 0 /\ ~(q.fresh /\ q.method = "GET")
           /\ q.range # <<>> /\ p.ok /\ Satisfiable(s, q.size)
  <2>1. h = [f EXCEPT !.status = 206, !.len = p.len, !.r = p.r,
                      !.off = s.off, !.total = s.total]
    BY <1>2, <1>9
  <2>2. PartAnswer(q, p, s, h)
    BY <1>1, <1>9, <2>1 DEF PartAnswer, Asks
  <2> QED BY <2>2, PartOK
<1> QED BY <1>4, <1>5, <1>6, <1>7, <1>8, <1>9

-----------------------------------------------------------------------------
(* What mk_header_prepare queues, and what it means.                       *)

GoodEntry(e, q, h) ==
  /\ e.at = 0
  /\ e.kind \in {"date", "lm", "range"} => e.len = 1
  /\ e.kind = "date" => e.val = clock.pub
  /\ e.kind = "lm" => h.lm > 0 /\ h.lm = q.time
  /\ e.kind = "cl" => /\ h.len \in Nat /\ h.len = DueLength(q)
                      /\ e.len = Len(Itop(h.len))

HeaderOK(es, q, h) ==
  /\ es \in Seq(EntryType) /\ Len(es) >= 1 /\ es[1].len = 1
  /\ \A j \in 1..Len(es) : GoodEntry(es[j], q, h)

(* An entry that is added on a condition.                                  *)
LEMMA WhenIn ==
  ASSUME NEW G, NEW cond, NEW kind, NEW val, NEW n,
         cond => Entry(kind, val, n) \in G
  PROVE  When(cond, kind, val, n) \in Seq(G)
BY DEF When

(* A new entry.                                                            *)
LEMMA EntryIn ==
  ASSUME NEW kind \in Kinds, NEW val \in Vals, NEW n \in Nat, NEW e,
         e = Entry(kind, val, n)
  PROVE  /\ e \in EntryType /\ e.kind = kind /\ e.val = val /\ e.at = 0
         /\ e.len = n
BY DEF Entry, EntryType

(* The entries of a header are what AnswerOK says of the answer.           *)
LEMMA HeaderIs ==
  ASSUME NEW q, NEW h, AnswerOK(q, h), clock.pub \in 0..1,
         NEW es, es = Header(h)
  PROVE  HeaderOK(es, q, h)
<1> DEFINE G == {e \in EntryType : GoodEntry(e, q, h)}
<1>1. PICK a : a = <<Entry("status", h.status, 1),
                     Entry("date", clock.pub, 1)>>
  OBVIOUS
<1>2. PICK b : b = When(h.lm > 0, "lm", 0, 1)
  OBVIOUS
<1>3. PICK d : d = When(h.len >= 0, "cl", 0, Len(Itop(h.len)))
  OBVIOUS
<1>4. PICK r : r = When(h.len # 0 /\ h.r # <<None, None>>, "range",
                        ContentRange(h), 1)
  OBVIOUS
<1>5. PICK p : p = When(h.body = "page", "page", 0, h.total)
  OBVIOUS
<1>6. es = (((a \o b) \o d) \o r) \o p
  BY <1>1, <1>2, <1>3, <1>4, <1>5 DEF Header, Entries
<1>7. a \in Seq(G) /\ a[1].len = 1 /\ Len(a) = 2
  <2>1. Entry("status", h.status, 1) \in G
    <3>1. PICK e : e = Entry("status", h.status, 1)
      OBVIOUS
    <3>2. h.status \in Vals /\ "status" \in Kinds
      BY DEF AnswerOK, Kinds, Vals
    <3>3. /\ e \in EntryType /\ e.kind = "status" /\ e.val = h.status
          /\ e.at = 0 /\ e.len = 1
      BY <3>1, <3>2, EntryIn
    <3> QED BY <3>1, <3>3 DEF GoodEntry
  <2>2. Entry("date", clock.pub, 1) \in G
    <3>1. PICK e : e = Entry("date", clock.pub, 1)
      OBVIOUS
    <3>2. clock.pub \in Vals /\ "date" \in Kinds
      BY DEF AnswerOK, Kinds, Vals
    <3>3. /\ e \in EntryType /\ e.kind = "date" /\ e.val = clock.pub
          /\ e.at = 0 /\ e.len = 1
      BY <3>1, <3>2, EntryIn
    <3> QED BY <3>1, <3>3 DEF GoodEntry
  <2>3. Entry("status", h.status, 1).len = 1
    BY DEF Entry
  <2> HIDE DEF G
  <2> QED BY <1>1, <2>1, <2>2, <2>3
<1>8. b \in Seq(G)
  <2>1. ASSUME h.lm > 0 PROVE Entry("lm", 0, 1) \in G
    <3>1. PICK e : e = Entry("lm", 0, 1)
      OBVIOUS
    <3>2. 0 \in Vals /\ 1 \in Nat /\ "lm" \in Kinds
      BY DEF Kinds, Vals
    <3>3. e \in EntryType /\ e.kind = "lm" /\ e.at = 0 /\ e.len = 1
      BY <3>1, <3>2, EntryIn
    <3> QED BY <2>1, <3>1, <3>3 DEF GoodEntry, AnswerOK
  <2> HIDE DEF G
  <2> QED BY <1>2, <2>1, WhenIn
<1>9. d \in Seq(G)
  <2>1. PICK n : n = Len(Itop(h.len))
    OBVIOUS
  <2>2. ASSUME h.len >= 0 PROVE Entry("cl", 0, n) \in G
    <3>1. h.len \in Nat /\ h.len = DueLength(q)
      BY <2>2 DEF AnswerOK
    <3>2. n \in Nat
      BY <2>1, <3>1, ItopIs
    <3>3. Entry("cl", 0, n) \in EntryType
      <4>1. 0 \in Vals /\ "cl" \in Kinds
        BY DEF Kinds, Vals
      <4> QED BY <3>2, <4>1, EntryIn
    <3>4. GoodEntry(Entry("cl", 0, n), q, h)
      BY <2>1, <3>1 DEF Entry, GoodEntry
    <3> QED BY <3>3, <3>4
  <2> HIDE DEF G
  <2> QED BY <1>3, <2>1, <2>2, WhenIn
<1>10. r \in Seq(G)
  <2>1. PICK v : v = ContentRange(h)
    OBVIOUS
  <2>2. ASSUME h.len # 0 /\ h.r # <<None, None>>
        PROVE  Entry("range", v, 1) \in G
    <3>1. /\ v = <<FirstByte(q), LastByte(q), q.size>>
          /\ v \in Int \X Int \X Int
      BY <2>1, <2>2 DEF AnswerOK
    <3>2. Entry("range", v, 1) \in EntryType
      <4>1. v \in Vals /\ "range" \in Kinds /\ 1 \in Nat
        BY <3>1 DEF Kinds, Vals
      <4> QED BY <4>1, EntryIn
    <3>3. GoodEntry(Entry("range", v, 1), q, h)
      BY <3>1 DEF Entry, GoodEntry
    <3> QED BY <3>2, <3>3
  <2> HIDE DEF G
  <2> QED BY <1>4, <2>1, <2>2, WhenIn
<1>11. p \in Seq(G)
  <2>1. ASSUME h.body = "page" PROVE Entry("page", 0, h.total) \in G
    <3>1. PICK e : e = Entry("page", 0, 1)
      OBVIOUS
    <3>2. 0 \in Vals /\ 1 \in Nat /\ "page" \in Kinds
      BY DEF Kinds, Vals
    <3>3. e \in EntryType /\ e.kind = "page" /\ e.at = 0 /\ e.len = 1
      BY <3>1, <3>2, EntryIn
    <3> QED BY <2>1, <3>1, <3>3 DEF GoodEntry, AnswerOK
  <2> HIDE DEF G
  <2> QED BY <1>5, <2>1, WhenIn
<1> HIDE DEF G
<1>12. es \in Seq(G) /\ Len(es) >= 1 /\ es[1] = a[1]
  <2>1. a \o b \in Seq(G) /\ Len(a \o b) >= 1 /\ (a \o b)[1] = a[1]
    <3>1. a \in Seq(G) /\ Len(a) >= 1
      BY <1>7
    <3> QED BY <1>8, <3>1
  <2>2. PICK u : u = a \o b
    OBVIOUS
  <2>3. u \o d \in Seq(G) /\ Len(u \o d) >= 1 /\ (u \o d)[1] = u[1]
    BY <1>9, <2>1, <2>2
  <2>4. PICK v : v = u \o d
    OBVIOUS
  <2>5. v \o r \in Seq(G) /\ Len(v \o r) >= 1 /\ (v \o r)[1] = v[1]
    BY <1>10, <2>3, <2>4
  <2>6. PICK w : w = v \o r
    OBVIOUS
  <2>7. w \o p \in Seq(G) /\ Len(w \o p) >= 1 /\ (w \o p)[1] = w[1]
    BY <1>11, <2>5, <2>6
  <2> QED BY <1>6, <2>1, <2>2, <2>3, <2>4, <2>5, <2>6, <2>7
<1>13. \A j \in 1..Len(es) : es[j] \in G
  BY <1>12, ElementOfSeq
<1>14. es \in Seq(EntryType)
  <2>1. G \subseteq EntryType
    BY DEF G
  <2> QED BY <1>12, <2>1, SeqMonotonic
<1> QED BY <1>7, <1>12, <1>13, <1>14 DEF HeaderOK, G

(* The header mk_header_prepare makes up is the one the request is due.    *)
LEMMA HeaderDue ==
  ASSUME NEW q, NEW h, AnswerOK(q, h)
  PROVE  Header(h) = DueHeader(q)
<1>1. h.status = DueStatus(q)
  BY DEF AnswerOK
<1>2. When(h.lm > 0, "lm", 0, 1)
        = When(DueStatus(q) < 400 /\ q.time > 0, "lm", 0, 1)
  BY DEF AnswerOK, When
<1>3. When(h.len >= 0, "cl", 0, Len(Itop(h.len)))
        = When(DueStatus(q) # 304, "cl", 0, Len(Itop(DueLength(q))))
  BY DEF AnswerOK, When
<1>4. When(h.len # 0 /\ h.r # <<None, None>>, "range", ContentRange(h), 1)
        = When(DueStatus(q) = 206, "range",
               <<FirstByte(q), LastByte(q), q.size>>, 1)
  BY DEF AnswerOK, When
<1>5. When(h.body = "page", "page", 0, h.total)
        = When(DuePage(q), "page", 0, 1)
  BY DEF AnswerOK, When
<1> QED BY <1>1, <1>2, <1>3, <1>4, <1>5 DEF Header, Entries, DueHeader

(* A cell of an answer's meaning is that of its entry, and has the text    *)
(* that mk_header_prepare writes to the shared buffers.                    *)
SlotOf(e, h, x, m, i) ==
  /\ Slot(e, m, i)
  /\ e.kind = "cl" => h.len \in Nat /\ m[2] = Itop(h.len)[x]
                      /\ x \in DOMAIN Itop(h.len)
  /\ e.kind = "lm" => h.lm > 0 /\ m[2] = h.lm

(* A sequence of one element.                                              *)
LEMMA One ==
  ASSUME NEW v, NEW s, s = <<v>>
  PROVE  IsSeq(s) /\ Len(s) = 1 /\ \A x \in 1..1 : x = 1
<1>1. PICK S : v \in S
  <2>1. v \in {v}
    OBVIOUS
  <2> QED BY <2>1, Zenon
<1>2. s \in Seq(S)
  BY <1>1
<1>3. IsSeq(s)
  BY <1>2, SeqIsSeq
<1>4. Len(s) = 1 /\ \A x \in 1..1 : x = 1
  OBVIOUS
<1> QED BY <1>3, <1>4

(* The cells of one entry.                                                 *)
LEMMA CellsAre ==
  ASSUME NEW e \in EntryType, NEW q, NEW h, GoodEntry(e, q, h), ClockInv,
         NEW i, NEW s, s = CellsOf(e, q, i)
  PROVE  /\ IsSeq(s) /\ Len(s) = e.len
         /\ \A x \in 1..e.len : SlotOf(e, h, x, s[x], i)
<1>1. e.len \in Nat /\ e.at = 0 /\ clock.now \in Nat
  BY DEF EntryType, GoodEntry, ClockInv
<1>2. CASE e.kind = "date"
  <2>1. s = <<<<"date", clock.now, i>>>> /\ e.len = 1
    BY <1>2 DEF CellsOf, GoodEntry
  <2>2. s[1] = <<"date", clock.now, i>>
    BY <2>1
  <2>3. Slot(e, s[1], i)
    BY <1>1, <1>2, <2>2 DEF Slot, GoodEntry, ClockInv
  <2>4. SlotOf(e, h, 1, s[1], i)
    BY <1>2, <2>3 DEF SlotOf
  <2> QED BY <2>1, <2>2, <2>4, One
<1>3. CASE e.kind = "lm"
  <2>1. s = <<<<"lm", q.time, i>>>> /\ e.len = 1
    BY <1>3 DEF CellsOf, GoodEntry
  <2>2. s[1] = <<"lm", q.time, i>>
    BY <2>1
  <2>3. Slot(e, s[1], i)
    BY <1>3, <2>2 DEF Slot, Shared
  <2>4. SlotOf(e, h, 1, s[1], i)
    BY <1>3, <2>2, <2>3 DEF SlotOf, GoodEntry
  <2> QED BY <2>1, <2>2, <2>4, One
<1>5. CASE e.kind = "cl"
  <2>1. PICK t : t = Itop(h.len)
    OBVIOUS
  <2>2. /\ h.len \in Nat /\ h.len = DueLength(q) /\ e.len = Len(t)
        /\ DOMAIN t = 1..Len(t)
    BY <1>5, <2>1, ItopIs DEF GoodEntry
  <2>3. s = [x \in 1..e.len |-> <<"cl", t[x], i>>]
    BY <1>5, <2>1, <2>2 DEF CellsOf
  <2>4. s = [x \in 1..e.len |-> s[x]]
    BY <2>3
  <2>5. ASSUME NEW x \in 1..e.len PROVE SlotOf(e, h, x, s[x], i)
    <3>1. s[x] = <<"cl", t[x], i>> /\ x \in DOMAIN t
      BY <2>2, <2>3
    <3>2. Slot(e, s[x], i)
      BY <1>5, <3>1 DEF Slot, Shared
    <3> QED BY <1>5, <2>1, <2>2, <3>1, <3>2 DEF SlotOf
  <2> QED BY <1>1, <2>4, <2>5, Built
<1>6. CASE e.kind \notin {"date", "lm", "cl"}
  <2>1. s = [x \in 1..e.len |-> <<e.kind, e.val, i>>]
    BY <1>6 DEF CellsOf
  <2>2. s = [x \in 1..e.len |-> s[x]]
    BY <2>1
  <2>3. ASSUME NEW x \in 1..e.len PROVE SlotOf(e, h, x, s[x], i)
    <3>1. s[x] = <<e.kind, e.val, i>>
      BY <2>1
    <3>2. Slot(e, s[x], i)
      BY <1>6, <3>1 DEF Slot
    <3> QED BY <1>6, <3>2 DEF SlotOf
  <2> QED BY <1>1, <2>2, <2>3, Built
<1> QED BY <1>2, <1>3, <1>5, <1>6

(* What the client is to receive, entry by entry and byte by byte.         *)
MeaningOK(h, i, es, P, M) ==
  /\ IsSeq(M) /\ P[Len(es)] \in Nat
  /\ Len(M) = P[Len(es)] + (IF h.body = "file" THEN h.total ELSE 0)
  /\ \A j \in 1..Len(es) : \A x \in 1..es[j].len :
       /\ P[j - 1] + x \in 1..P[Len(es)]
       /\ SlotOf(es[j], h, x, M[P[j - 1] + x], i)
  /\ h.body = "file" =>
       \A y \in 1..h.total :
         M[P[Len(es)] + y] = <<"byte", h.off + y - 1, i>>

(* The entries of a header lie one after the other.                        *)
LEMMA Inside ==
  ASSUME NEW es, NEW P, EndsOf(P, es), NEW j \in 1..Len(es),
         NEW x \in 1..es[j].len
  PROVE  P[j - 1] + x \in 1..P[Len(es)]
<1>1. PICK n : n = Len(es)
  OBVIOUS
<1>2. /\ n \in Nat /\ Places(P, n) /\ es[j].len \in Nat
      /\ P[j] = P[j - 1] + es[j].len
  BY <1>1 DEF EndsOf
<1>3. j \in 0..n /\ j - 1 \in 0..n /\ n \in 0..n /\ j <= n
  BY <1>1, <1>2
<1>4. P[j] <= P[n]
  BY <1>2, <1>3, PlacesGrow
<1>5. PICK a, b, c, l : /\ a = P[j - 1] /\ b = P[j] /\ c = P[n]
                        /\ l = es[j].len
  OBVIOUS
<1>6. a \in Nat /\ b \in Nat /\ c \in Nat
  BY <1>2, <1>3, <1>5 DEF Places
<1>7. b = a + l /\ l \in Nat /\ x \in 1..l /\ b <= c
  BY <1>2, <1>4, <1>5
<1>8. a + x \in 1..c
  BY <1>6, <1>7
<1> QED BY <1>1, <1>5, <1>8

(* Meaning is made of the cells of the header and the bytes of the file.   *)
LEMMA MeaningIs ==
  ASSUME NEW q, NEW h, AnswerOK(q, h), ClockInv, NEW i,
         NEW es, es = Header(h), NEW P, P = Ends(es),
         NEW M, M = Meaning(q, i)
  PROVE  HeaderOK(es, q, h) /\ EndsOf(P, es) /\ MeaningOK(h, i, es, P, M)
<1>1. HeaderOK(es, q, h)
  BY HeaderIs DEF ClockInv
<1>2. es \in Seq(EntryType)
  BY <1>1 DEF HeaderOK
<1>3. EndsOf(P, es)
  BY <1>2, EndsAre
<1>4. PICK n : n = Len(es)
  OBVIOUS
<1>5. /\ n \in Nat /\ DOMAIN es = 1..n /\ Places(P, n)
      /\ \A j \in 1..n : es[j].len \in Nat /\ P[j] = P[j - 1] + es[j].len
  BY <1>3, <1>4 DEF EndsOf
<1>6. PICK cs : cs = [j \in DOMAIN es |-> CellsOf(es[j], q, i)]
  OBVIOUS
<1>7. cs = [j \in 1..n |-> cs[j]]
  BY <1>5, <1>6
<1>8. ASSUME NEW j \in 1..n
      PROVE  /\ IsSeq(cs[j]) /\ Len(cs[j]) = es[j].len
             /\ \A x \in 1..es[j].len : SlotOf(es[j], h, x, cs[j][x], i)
  <2>1. cs[j] = CellsOf(es[j], q, i)
    BY <1>5, <1>6
  <2>2. es[j] \in EntryType /\ GoodEntry(es[j], q, h)
    BY <1>1, <1>2, <1>4, ElementOfSeq DEF HeaderOK
  <2> QED BY <2>1, <2>2, CellsAre
<1>9. Pieces(cs, n, P)
  BY <1>5, <1>7, <1>8 DEF Pieces
<1>10. PICK f : f = FlattenSeq(cs)
  OBVIOUS
<1>11. /\ IsSeq(f) /\ Len(f) = P[n]
       /\ \A j \in 1..n : \A x \in 1..Len(cs[j]) :
            f[P[j - 1] + x] = cs[j][x]
  <2>1. Flattened(f, cs, n, P)
    BY <1>5, <1>9, <1>10, Flat
  <2> QED BY <2>1 DEF Flattened
<1>12. PICK t : t = IF ~DueFile(q) THEN <<>>
                    ELSE [j \in 1..(LastByte(q) - FirstByte(q) + 1) |->
                            <<"byte", FirstByte(q) + j - 1, i>>]
  OBVIOUS
<1>13. M = f \o t
  <2>1. es = DueHeader(q)
    BY HeaderDue
  <2> QED BY <1>6, <1>10, <1>12, <2>1, Zenon DEF Meaning
<1>14. /\ IsSeq(t) /\ Len(t) = (IF h.body = "file" THEN h.total ELSE 0)
       /\ h.body = "file" =>
            \A y \in 1..h.total : t[y] = <<"byte", h.off + y - 1, i>>
  <2>1. CASE h.body # "file"
    <3>1. t = <<>>
      BY <1>12, <2>1 DEF AnswerOK
    <3>2. t \in Seq({}) /\ Len(t) = 0
      BY <3>1
    <3>3. IsSeq(t)
      BY <3>2, SeqIsSeq
    <3> QED BY <2>1, <3>2, <3>3
  <2>2. CASE h.body = "file"
    <3>1. /\ h.total \in Nat /\ h.total = LastByte(q) - FirstByte(q) + 1
          /\ h.off = FirstByte(q) /\ DueFile(q)
      BY <2>2 DEF AnswerOK
    <3>2. t = [j \in 1..h.total |-> <<"byte", h.off + j - 1, i>>]
      BY <1>12, <3>1
    <3>3. t = [j \in 1..h.total |-> t[j]]
      BY <3>2
    <3>4. IsSeq(t) /\ Len(t) = h.total
      BY <3>1, <3>3, Built
    <3> QED BY <2>2, <3>2, <3>4
  <2> QED BY <2>1, <2>2
<1>15. Joins(M, f, t)
  BY <1>11, <1>13, <1>14, Joined
<1>16. /\ IsSeq(M) /\ Len(M) = Len(f) + Len(t)
       /\ \A p \in 1..Len(f) : M[p] = f[p]
       /\ \A p \in 1..Len(t) : M[Len(f) + p] = t[p]
  BY <1>15 DEF Joins
<1>17. ASSUME NEW j \in 1..n, NEW x \in 1..es[j].len
       PROVE  /\ P[j - 1] + x \in 1..P[n]
              /\ SlotOf(es[j], h, x, M[P[j - 1] + x], i)
  <2>1. P[j - 1] + x \in 1..P[n]
    BY <1>3, <1>4, Inside
  <2>2. M[P[j - 1] + x] = f[P[j - 1] + x]
    BY <1>11, <1>16, <2>1
  <2>3. f[P[j - 1] + x] = cs[j][x]
    BY <1>8, <1>11
  <2> QED BY <1>8, <2>1, <2>2, <2>3
<1>18. P[n] \in Nat
  BY <1>5 DEF Places
<1>19. ASSUME h.body = "file", NEW y \in 1..h.total
       PROVE  M[P[n] + y] = <<"byte", h.off + y - 1, i>>
  BY <1>11, <1>14, <1>16, <1>19
<1>20. Len(M) = P[n] + (IF h.body = "file" THEN h.total ELSE 0)
  BY <1>11, <1>14, <1>16
<1>21. MeaningOK(h, i, es, P, M)
  <2> HIDE DEF EndsOf, SlotOf
  <2> QED BY <1>4, <1>16, <1>17, <1>18, <1>19, <1>20, Zenon DEF MeaningOK
<1> QED BY <1>1, <1>3, <1>21

(* An answer that is queued and of which nothing has left.                 *)
Prepared(h, ss, u, B, i) ==
  /\ ss \in Seq(StreamType) /\ Pending(ss, u, B, i)
  /\ ss # <<>> /\ ss[1].type = "IOV"
  /\ h.status >= 400 => ss = <<ss[1]>>
  /\ \A j \in 1..Len(ss[1].io) : \A x \in 1..ss[1].io[j].len :
       /\ ss[1].io[j].at = 0
       /\ SlotOf(ss[1].io[j], h, x, u[B + Ends(ss[1].io)[j - 1] + x], i)

(* u is what the client has been sent, B cells, and M.                     *)
Follows(u, B, M) ==
  /\ B \in Nat /\ Len(u) = B + Len(M)
  /\ \A p \in 1..Len(M) : u[B + p] = M[p]

(* mk_header_prepare queues what the client is to receive next.            *)
LEMMA StreamsPrepared ==
  ASSUME NEW q \in Request, NEW h, h = Answer(q), ClockInv, NEW i \in Nat,
         NEW M, M = Meaning(q, i), NEW u, NEW B, Follows(u, B, M)
  PROVE  Prepared(h, Streams(h), u, B, i)
<1>1. AnswerOK(q, h)
  BY AnswerAgrees
<1>2. PICK es : es = Header(h)
  OBVIOUS
<1>3. PICK P : P = Ends(es)
  OBVIOUS
<1>4. HeaderOK(es, q, h) /\ EndsOf(P, es) /\ MeaningOK(h, i, es, P, M)
  BY <1>1, <1>2, <1>3, MeaningIs
<1>5. PICK n, t : n = Len(es) /\ t = P[n]
  OBVIOUS
<1>6. /\ n \in Nat /\ n >= 1 /\ es \in Seq(EntryType) /\ es[1].len = 1
      /\ \A j \in 1..n : GoodEntry(es[j], q, h)
  BY <1>4, <1>5 DEF HeaderOK, EndsOf
<1>7. /\ t \in Nat
      /\ Len(M) = t + (IF h.body = "file" THEN h.total ELSE 0)
      /\ \A j \in 1..n : \A x \in 1..es[j].len :
           /\ P[j - 1] + x \in 1..t
           /\ SlotOf(es[j], h, x, M[P[j - 1] + x], i)
      /\ h.body = "file" =>
           \A y \in 1..h.total : M[t + y] = <<"byte", h.off + y - 1, i>>
  BY <1>4, <1>5 DEF MeaningOK
<1>8. t > 0
  <2>1. 1 \in 1..n /\ 1 \in 1..es[1].len /\ P[0] \in Nat
    BY <1>4, <1>5, <1>6 DEF EndsOf, Places
  <2>2. P[1 - 1] + 1 \in 1..t
    BY <1>7, <2>1
  <2> QED BY <1>7, <2>2
<1>9. Sum(es) = t
  BY <1>3, <1>5 DEF Sum
<1>10. PICK s : s = [type |-> "IOV", io |-> es, total_len |-> t,
                     total |-> t, off |-> 0, size |-> 0]
  OBVIOUS
<1>11. /\ s \in StreamType /\ s.type = "IOV" /\ s.io = es /\ s.total = t
       /\ s.total_len = t
  BY <1>6, <1>7, <1>10 DEF StreamType
<1>12. \A p \in 1..t : p \in 1..Len(M)
  <2>1. CASE h.body = "file"
    BY <1>1, <1>7, <2>1 DEF AnswerOK
  <2>2. CASE h.body # "file"
    BY <1>7, <2>2
  <2> QED BY <2>1, <2>2
<1>13. ASSUME NEW j \in 1..n, NEW x \in 1..es[j].len
       PROVE  SlotOf(es[j], h, x, u[B + P[j - 1] + x], i)
  <2>1. PICK p : p = P[j - 1] + x
    OBVIOUS
  <2>2. p \in 1..t /\ SlotOf(es[j], h, x, M[p], i)
    BY <1>7, <2>1
  <2>3. p \in 1..Len(M)
    BY <1>12, <2>2
  <2>4. u[B + p] = M[p]
    BY <2>3 DEF Follows
  <2>5. B + P[j - 1] + x = B + p
    <3>1. j - 1 \in 0..n /\ P[j - 1] \in Nat /\ x \in Nat /\ B \in Nat
      <4>1. j - 1 \in 0..n /\ es[j].len \in Nat
        BY <1>4, <1>5, <1>6 DEF EndsOf
      <4>2. P \in [0..n -> Nat]
        BY <1>4, <1>5 DEF EndsOf, Places
      <4>3. P[j - 1] \in Nat
        BY <4>1, <4>2
      <4>4. x \in Nat
        BY <4>1
      <4>5. B \in Nat
        BY DEF Follows
      <4> QED BY <4>1, <4>3, <4>4, <4>5
    <3> QED BY <2>1, <3>1
  <2> QED BY <2>2, <2>4, <2>5
<1>14. IovOK(s, u, B, i)
  <2>1. Entered(es, u, B, i)
    BY <1>3, <1>5, <1>13 DEF Entered, SlotOf
  <2>2. Single(es)
    BY <1>5, <1>6 DEF Single, GoodEntry
  <2> QED BY <1>7, <1>8, <1>9, <1>11, <2>1, <2>2 DEF IovOK
<1>15. \A j \in 1..Len(s.io) : \A x \in 1..s.io[j].len :
         /\ s.io[j].at = 0
         /\ SlotOf(s.io[j], h, x, u[B + Ends(s.io)[j - 1] + x], i)
  BY <1>3, <1>5, <1>6, <1>11, <1>13 DEF GoodEntry
<1>16. CASE h.body # "file"
  <2>1. Streams(h) = <<s>> \o <<>>
    BY <1>2, <1>9, <1>10, <1>16 DEF Streams
  <2>2. PICK ss : ss = Streams(h)
    OBVIOUS
  <2>3. ss = <<s>>
    BY <2>1, <2>2
  <2>4. ss[1] = s /\ ss = <<ss[1]>> /\ ss # <<>> /\ ss \in Seq(StreamType)
    BY <1>11, <2>3
  <2>5. Len(u) = B + s.total
    BY <1>7, <1>11, <1>16 DEF Follows
  <2>6. Pending(ss, u, B, i)
    BY <1>14, <2>4, <2>5 DEF Pending, StreamOK
  <2> QED BY <1>11, <1>15, <2>2, <2>4, <2>6 DEF Prepared
<1>17. CASE h.body = "file"
  <2>1. PICK f : f = [type |-> "FILE", io |-> <<>>, total_len |-> 0,
                      total |-> h.total, off |-> h.off, size |-> h.real]
    OBVIOUS
  <2>2. Streams(h) = <<s>> \o <<f>>
    BY <1>2, <1>9, <1>10, <1>17, <2>1 DEF Streams
  <2>3. PICK ss : ss = Streams(h)
    OBVIOUS
  <2>5. /\ h.total \in Nat /\ h.off \in Nat /\ h.real \in Nat
        /\ h.off <= h.real /\ h.status < 400 /\ h.status \in Int
    BY <1>1, <1>17 DEF AnswerOK
  <2>6. /\ f \in StreamType /\ f.type = "FILE" /\ f.total = h.total
        /\ f.off = h.off /\ f.size = h.real
    BY <2>1, <2>5 DEF StreamType
  <2>4. ss = <<s, f>>
    BY <1>11, <2>2, <2>3, <2>6, Pair
  <2>7. /\ ss[1] = s /\ ss[2] = f /\ ss = <<ss[1], ss[2]>> /\ ss # <<>>
        /\ ss \in Seq(StreamType)
    BY <1>11, <2>4, <2>6
  <2>8. Len(u) = B + s.total + f.total
    BY <1>7, <1>11, <1>17, <2>5, <2>6 DEF Follows
  <2>9. FileOK(f, u, B + s.total, i)
    <3>1. ASSUME NEW y \in 1..f.total
          PROVE  u[B + s.total + y] = <<"byte", f.off + y - 1, i>>
      <4>1. PICK p : p = t + y
        OBVIOUS
      <4>2. p \in 1..Len(M) /\ B + s.total + y = B + p
        <5>1. y \in Nat /\ y >= 1 /\ y <= h.total /\ h.total \in Nat
          BY <2>5, <2>6
        <5>2. /\ Len(M) = t + h.total /\ s.total = t /\ t \in Nat
              /\ B \in Nat
          BY <1>7, <1>11, <1>17 DEF Follows
        <5> QED BY <4>1, <5>1, <5>2
      <4>3. u[B + p] = M[p]
        BY <4>2 DEF Follows
      <4>4. M[p] = <<"byte", h.off + y - 1, i>>
        BY <1>7, <1>17, <2>6, <4>1
      <4> QED BY <2>6, <4>2, <4>3, <4>4
    <3> QED BY <2>5, <2>6, <3>1 DEF FileOK
  <2>10. Pending(ss, u, B, i)
    BY <1>14, <2>7, <2>8, <2>9 DEF Pending
  <2>11. ~(h.status >= 400)
    BY <2>5
  <2> QED BY <1>11, <1>15, <2>3, <2>7, <2>10, <2>11 DEF Prepared
<1> QED BY <1>16, <1>17

-----------------------------------------------------------------------------
(* What the channel writes.                                                *)

(* A cell that is written and the one that was meant.                      *)
CellOK(b, m, n) ==
  /\ b[1] = m[1] /\ m[3] = n
  /\ b[1] \notin Shared \cup {"date"} => b[2] = m[2]
  /\ b[1] = "date" =>
       m[2] \in 0..clock.now /\ (Untouched(m[2]) => b[2] = m[2])

(* One cell of an entry's text.                                            *)
LEMMA EntryCell ==
  ASSUME NEW e \in EntryType, NEW x \in 1..e.len, NEW m, NEW n,
         e.kind \in {"date", "lm"} => e.at + e.len <= 1,
         Slot(e, m, n), ClockInv, NEW b, b = <<e.kind, Text(e)[e.at + x]>>
  PROVE  /\ CellOK(b, m, n)
         /\ OwnSlot(e, x, m) => (b[1] \in Shared => b[2] = m[2])
<1>1. e.at \in Nat /\ e.len \in Nat /\ x \in Nat /\ x >= 1 /\ x <= e.len
  BY DEF EntryType
<1>2. b[1] = e.kind /\ b[2] = Text(e)[e.at + x]
  OBVIOUS
<1>3. CASE e.kind = "date"
  <2>1. e.at + x = 1
    BY <1>1, <1>3
  <2>2. b[2] = clock.buf[e.val]
    BY <1>2, <1>3, <2>1 DEF Text
  <2>3. m[2] \in 0..clock.now /\ e.val = m[2] % 2
    BY <1>3 DEF Slot
  <2>4. Untouched(m[2]) => clock.buf[m[2] % 2] = m[2]
    BY <2>3, ClockHolds DEF BufferHoldsTick
  <2> QED BY <1>2, <1>3, <2>2, <2>3, <2>4 DEF CellOK, Slot, Shared
<1>4. CASE e.kind = "lm"
  <2>1. e.at + x = 1
    BY <1>1, <1>4
  <2>2. b[2] = lm
    BY <1>2, <1>4, <2>1 DEF Text
  <2> QED BY <1>2, <1>4, <2>2 DEF CellOK, Slot, Shared, OwnSlot
<1>5. CASE e.kind = "cl"
  <2>1. b[2] = cl[e.at + x]
    BY <1>2, <1>5 DEF Text
  <2> QED BY <1>2, <1>5, <2>1 DEF CellOK, Slot, Shared, OwnSlot
<1>6. CASE e.kind \notin {"date", "lm", "cl"}
  <2>1. e.at + x \in 1..(e.at + e.len)
    BY <1>1
  <2>2. b[2] = e.val
    BY <1>2, <1>6, <2>1 DEF Text
  <2> QED BY <1>2, <1>6, <2>2 DEF CellOK, Slot, Shared
<1> QED BY <1>3, <1>4, <1>5, <1>6

(* The bytes b a stream has to send are the ones meant after place B.      *)
Sendable(b, s, m, B, n) ==
  /\ IsSeq(b) /\ Len(b) <= s.total
  /\ \A p \in 1..Len(b) : CellOK(b[p], m[B + p], n)

OwnBytes(b, m, B) ==
  \A p \in 1..Len(b) : b[p][1] \in Shared => b[p][2] = m[B + p][2]

(* The header.                                                             *)
LEMMA IovBytes ==
  ASSUME NEW s \in StreamType, NEW m, NEW B \in Nat, NEW n,
         IovOK(s, m, B, n), ClockInv, NEW b, b = Bytes(s)
  PROVE  /\ Sendable(b, s, m, B, n) /\ Len(b) = s.total
         /\ Own(s.io, m, B) => OwnBytes(b, m, B)
<1>1. PICK io : io = s.io
  OBVIOUS
<1>2. PICK P, N : P = Ends(io) /\ N = Len(io)
  OBVIOUS
<1>3. io \in Seq(EntryType)
  BY <1>1 DEF StreamType
<1>4. EndsOf(P, io)
  BY <1>2, <1>3, EndsAre
<1>5. /\ N \in Nat /\ DOMAIN io = 1..N /\ Places(P, N)
      /\ \A j \in 1..N : io[j].len \in Nat /\ P[j] = P[j - 1] + io[j].len
  BY <1>2, <1>4 DEF EndsOf
<1>6. PICK cs : cs = [j \in DOMAIN io |-> Left(io[j])]
  OBVIOUS
<1>7. cs = [j \in 1..N |-> cs[j]]
  BY <1>5, <1>6
<1>8. ASSUME NEW j \in 1..N
      PROVE  /\ IsSeq(cs[j]) /\ Len(cs[j]) = io[j].len
             /\ \A x \in 1..io[j].len :
                  cs[j][x] = <<io[j].kind, Text(io[j])[io[j].at + x]>>
  <2>1. cs[j] = Left(io[j])
    BY <1>5, <1>6
  <2>2. PICK e, c : e = io[j] /\ c = cs[j]
    OBVIOUS
  <2>3. c = [x \in 1..e.len |-> <<e.kind, Text(e)[e.at + x]>>]
    BY <2>1, <2>2 DEF Left
  <2>4. c = [x \in 1..e.len |-> c[x]] /\ e.len \in Nat
    BY <1>5, <2>2, <2>3
  <2>5. IsSeq(c) /\ Len(c) = e.len
    BY <2>4, Built
  <2> QED BY <2>2, <2>3, <2>5
<1>9. Pieces(cs, N, P)
  BY <1>5, <1>7, <1>8 DEF Pieces
<1>10. b = FlattenSeq(cs)
  BY <1>1, <1>6 DEF Bytes, IovOK
<1>11. Flattened(b, cs, N, P)
  BY <1>5, <1>9, <1>10, Flat
<1>12. IsSeq(b) /\ Len(b) = P[N] /\ P[N] = s.total
  BY <1>1, <1>2, <1>11 DEF Flattened, IovOK, Sum
<1>13. ASSUME NEW p \in 1..P[N]
       PROVE  /\ CellOK(b[p], m[B + p], n)
              /\ Own(io, m, B) =>
                   (b[p][1] \in Shared => b[p][2] = m[B + p][2])
  <2>1. PICK j \in 1..N : \E x \in 1..(P[j] - P[j - 1]) : p = P[j - 1] + x
    BY <1>5, Locate
  <2>2. PICK x \in 1..(P[j] - P[j - 1]) : p = P[j - 1] + x
    BY <2>1
  <2>3. /\ P[j - 1] \in Nat /\ P[j] \in Nat /\ io[j].len \in Nat
        /\ P[j] = P[j - 1] + io[j].len
    <3>1. j \in 0..N /\ j - 1 \in 0..N
      BY <1>5
    <3> QED BY <1>5, <3>1 DEF Places
  <2>4. x \in 1..io[j].len
    <3>1. P[j] - P[j - 1] = io[j].len
      BY <2>3
    <3> QED BY <2>2, <3>1
  <2>5. b[p] = cs[j][x] /\ cs[j][x] = <<io[j].kind, Text(io[j])[io[j].at + x]>>
    BY <1>8, <1>11, <2>2, <2>4 DEF Flattened
  <2>6. B + P[j - 1] + x = B + p
    BY <2>2, <2>3, <2>4
  <2>7. Slot(io[j], m[B + p], n)
    <3>1. Slot(io[j], m[B + P[j - 1] + x], n)
      BY <1>1, <1>2, <2>4 DEF IovOK, Entered
    <3> QED BY <2>6, <3>1
  <2>8. io[j] \in EntryType
    BY <1>2, <1>3, ElementOfSeq
  <2>9. io[j].kind \in {"date", "lm"} => io[j].at + io[j].len <= 1
    BY <1>1, <1>2 DEF IovOK, Single
  <2>10. Own(io, m, B) => OwnSlot(io[j], x, m[B + p])
    <3>1. Own(io, m, B) => OwnSlot(io[j], x, m[B + P[j - 1] + x])
      BY <1>2, <2>4 DEF Own
    <3> QED BY <2>6, <3>1
  <2>11. /\ CellOK(b[p], m[B + p], n)
         /\ OwnSlot(io[j], x, m[B + p]) =>
              (b[p][1] \in Shared => b[p][2] = m[B + p][2])
    BY <2>4, <2>5, <2>7, <2>8, <2>9, EntryCell
  <2> QED BY <2>10, <2>11
<1>14. s.total \in Nat
  BY DEF StreamType
<1>15. Sendable(b, s, m, B, n)
  BY <1>12, <1>13, <1>14 DEF Sendable
<1>16. Own(io, m, B) => OwnBytes(b, m, B)
  BY <1>12, <1>13 DEF OwnBytes
<1> QED BY <1>1, <1>12, <1>15, <1>16

(* The file.                                                               *)
LEMMA FileBytes ==
  ASSUME NEW s \in StreamType, NEW m, NEW B \in Nat, NEW n,
         FileOK(s, m, B, n), NEW b, b = Bytes(s)
  PROVE  /\ Sendable(b, s, m, B, n) /\ Len(b) <= s.size - s.off
         /\ OwnBytes(b, m, B)
<1>1. /\ s.total \in Nat /\ s.size \in Nat /\ s.off \in Nat
      /\ s.off <= s.size /\ s.type = "FILE"
  BY DEF StreamType, FileOK
<1>2. PICK k : k = Min({s.total, s.size - s.off})
  OBVIOUS
<1>3. k \in Nat /\ k <= s.total /\ k <= s.size - s.off
  <2>1. {s.total, s.size - s.off} \subseteq Nat
    BY <1>1
  <2>2. PICK T : T = {s.total, s.size - s.off}
    OBVIOUS
  <2>3. T \subseteq Nat /\ T # {}
    BY <2>1, <2>2
  <2>4. k \in T /\ \A y \in T : k <= y
    BY <1>2, <2>2, <2>3, Least
  <2> QED BY <2>2, <2>3, <2>4
<1>4. b = [j \in 1..k |-> <<"byte", s.off + j - 1>>]
  BY <1>1, <1>2 DEF Bytes
<1>5. b = [j \in 1..k |-> b[j]]
  BY <1>4
<1>6. IsSeq(b) /\ Len(b) = k
  BY <1>3, <1>5, Built
<1>7. ASSUME NEW p \in 1..k
      PROVE  CellOK(b[p], m[B + p], n) /\ b[p][1] \notin Shared
  <2>1. p \in 1..s.total
    BY <1>1, <1>3
  <2>2. m[B + p] = <<"byte", s.off + p - 1, n>>
    BY <2>1 DEF FileOK
  <2>3. b[p] = <<"byte", s.off + p - 1>>
    BY <1>4
  <2> QED BY <2>2, <2>3 DEF CellOK, Shared
<1> QED BY <1>3, <1>6, <1>7 DEF Sendable, OwnBytes

-----------------------------------------------------------------------------
(* What is left after a write.                                             *)

(* The entries io with k cells taken off: those before hit are empty, and  *)
(* hit has lost cut of its cells.                                          *)
Cut(io, hit, cut) ==
  [j \in DOMAIN io |->
     IF j < hit THEN [io[j] EXCEPT !.len = 0]
     ELSE IF j = hit THEN [io[j] EXCEPT !.at = @ + cut, !.len = @ - cut]
     ELSE io[j]]

(* The entry that the k-th cell is in.                                     *)
HitOf(P, io, k, hit) ==
  /\ EndsOf(P, io) /\ k \in 1..P[Len(io)] /\ hit \in 1..Len(io)
  /\ P[hit] >= k /\ P[hit - 1] <= k

(* mk_iov_consume finds it.                                                *)
LEMMA Hit ==
  ASSUME NEW io, NEW P, EndsOf(P, io), NEW k \in 1..P[Len(io)],
         NEW hit, hit = Min({j \in DOMAIN io : P[j] >= k})
  PROVE  HitOf(P, io, k, hit)
<1>1. PICK N : N = Len(io)
  OBVIOUS
<1>2. N \in Nat /\ DOMAIN io = 1..N /\ Places(P, N)
  BY <1>1 DEF EndsOf
<1>3. PICK T : T = {j \in DOMAIN io : P[j] >= k}
  OBVIOUS
<1>4. P[N] \in Nat /\ P[0] = 0 /\ k \in Nat /\ k >= 1 /\ P[N] >= k
  BY <1>1, <1>2 DEF Places
<1>5. N # 0
  BY <1>4
<1>6. N \in T /\ T \subseteq Nat
  BY <1>2, <1>3, <1>4, <1>5
<1>7. hit \in T /\ \A y \in T : hit <= y
  BY <1>3, <1>6, Least
<1>8. hit \in 1..N /\ P[hit] >= k
  BY <1>2, <1>3, <1>7
<1>9. P[hit - 1] <= k
  <2>1. CASE hit = 1
    BY <1>4, <2>1
  <2>2. CASE hit # 1
    <3>1. hit - 1 \in 1..N /\ hit - 1 \in 0..N /\ ~(hit <= hit - 1)
      BY <1>2, <1>8, <2>2
    <3>2. hit - 1 \notin T
      BY <1>7, <3>1
    <3>3. ~(P[hit - 1] >= k) /\ P[hit - 1] \in Nat
      BY <1>2, <1>3, <3>1, <3>2 DEF Places
    <3> QED BY <1>4, <3>3
  <2> QED BY <2>1, <2>2
<1> QED BY <1>1, <1>8, <1>9 DEF HitOf

(* The lengths of the entries that are left, and where they end: k cells   *)
(* earlier.                                                                *)
LEMMA CutEnds ==
  ASSUME NEW io \in Seq(EntryType), NEW P, NEW k, NEW hit,
         HitOf(P, io, k, hit), NEW io2,
         io2 = Cut(io, hit, k - P[hit - 1]), NEW Q, Q = Ends(io2)
  PROVE  /\ io2 \in Seq(EntryType) /\ Len(io2) = Len(io)
         /\ \A j \in 1..Len(io) : io2[j].kind = io[j].kind
                                  /\ io2[j].val = io[j].val
         /\ \A j \in 1..(hit - 1) : io2[j].len = 0 /\ io2[j].at = io[j].at
         /\ io2[hit].len = io[hit].len - (k - P[hit - 1])
         /\ io2[hit].at = io[hit].at + (k - P[hit - 1])
         /\ \A j \in (hit + 1)..Len(io) : io2[j] = io[j]
         /\ \A j \in 0..Len(io) :
              Q[j] = IF j < hit THEN 0 ELSE P[j] - k
<1>1. PICK N : N = Len(io)
  OBVIOUS
<1>2. PICK cut : cut = k - P[hit - 1]
  OBVIOUS
<1>3. /\ N \in Nat /\ DOMAIN io = 1..N /\ Places(P, N) /\ hit \in 1..N
      /\ k \in 1..P[N] /\ P[hit] >= k /\ P[hit - 1] <= k
      /\ \A j \in 1..N : io[j].len \in Nat /\ P[j] = P[j - 1] + io[j].len
  BY <1>1 DEF HitOf, EndsOf
<1>4. \A j \in 1..N : io[j] \in EntryType
  BY <1>1, ElementOfSeq
<1>5. \A j \in 0..N : P[j] \in Nat
  BY <1>3 DEF Places
<1>6. hit \in 0..N /\ hit - 1 \in 0..N /\ k \in Nat
  BY <1>3, <1>5
<1>7. cut \in Nat /\ io[hit].len - cut \in Nat
  <2>1. PICK a, b, l : a = P[hit - 1] /\ b = P[hit] /\ l = io[hit].len
    OBVIOUS
  <2>2. a \in Nat /\ b \in Nat /\ l \in Nat /\ b = a + l /\ b >= k /\ a <= k
    BY <1>3, <1>5, <1>6, <2>1
  <2>3. k - a \in Nat /\ l - (k - a) \in Nat
    BY <1>6, <2>2
  <2> QED BY <1>2, <2>1, <2>3
<1>8. io2 = [j \in 1..N |->
               IF j < hit THEN [io[j] EXCEPT !.len = 0]
               ELSE IF j = hit
               THEN [io[j] EXCEPT !.at = @ + cut, !.len = @ - cut]
               ELSE io[j]]
  BY <1>2, <1>3 DEF Cut
<1>9. ASSUME NEW j \in 1..N, j < hit
      PROVE  /\ io2[j] \in EntryType /\ io2[j].kind = io[j].kind
             /\ io2[j].val = io[j].val /\ io2[j].len = 0
             /\ io2[j].at = io[j].at
  <2>1. io2[j] = [io[j] EXCEPT !.len = 0]
    BY <1>8, <1>9
  <2> QED BY <1>4, <2>1 DEF EntryType
<1>10. /\ io2[hit] \in EntryType /\ io2[hit].kind = io[hit].kind
       /\ io2[hit].val = io[hit].val /\ io2[hit].len = io[hit].len - cut
       /\ io2[hit].at = io[hit].at + cut
  <2>1. PICK e, f : e = io[hit] /\ f = io2[hit]
    OBVIOUS
  <2>2. ~(hit < hit)
    BY <1>3
  <2>3. f = [e EXCEPT !.at = @ + cut, !.len = @ - cut]
    BY <1>3, <1>8, <2>1, <2>2
  <2>4. e \in EntryType /\ e.len - cut \in Nat
    BY <1>3, <1>4, <1>7, <2>1
  <2>5. /\ f.kind = e.kind /\ f.val = e.val /\ f.len = e.len - cut
        /\ f.at = e.at + cut
    <3>1. PICK a, l : a = e.at + cut /\ l = e.len - cut
      OBVIOUS
    <3>2. f = [e EXCEPT !.at = a, !.len = l]
      BY <2>3, <3>1
    <3>3. f.kind = e.kind /\ f.val = e.val /\ f.len = l /\ f.at = a
      BY <2>4, <3>2 DEF EntryType
    <3> QED BY <3>1, <3>3
  <2>6. e.at + cut \in Nat
    <3>1. e.at \in Nat
      BY <2>4 DEF EntryType
    <3>2. cut \in Nat
      BY <1>7
    <3> QED BY <3>1, <3>2
  <2>7. f \in EntryType
    BY <2>3, <2>4, <2>6 DEF EntryType
  <2> QED BY <2>1, <2>5, <2>7
<1>11. ASSUME NEW j \in 1..N, j > hit PROVE io2[j] = io[j]
  <2>1. ~(j < hit) /\ j # hit
    BY <1>3, <1>11
  <2> QED BY <1>8, <2>1
<1>12. \A j \in 1..N : io2[j] \in EntryType /\ io2[j].kind = io[j].kind
                       /\ io2[j].val = io[j].val
  <2> SUFFICES ASSUME NEW j \in 1..N
               PROVE  io2[j] \in EntryType /\ io2[j].kind = io[j].kind
                       /\ io2[j].val = io[j].val
    OBVIOUS
  <2>1. j < hit \/ j = hit \/ j > hit
    BY <1>3
  <2> QED BY <1>4, <1>9, <1>10, <1>11, <2>1
<1>13. io2 \in Seq(EntryType) /\ Len(io2) = N
  <2>1. io2 \in [1..N -> EntryType]
    BY <1>8, <1>12
  <2>2. io2 \in Seq(EntryType)
    BY <1>3, <2>1, SeqDef
  <2> QED BY <1>3, <2>1, <2>2, LenProperties
<1>14. EndsOf(Q, io2)
  BY <1>13, EndsAre
<1>15. /\ \A j \in 0..N : Q[j] \in Nat
       /\ Q[0] = 0 /\ \A j \in 1..N : Q[j] = Q[j - 1] + io2[j].len
  BY <1>13, <1>14 DEF EndsOf, Places
<1> DEFINE T == {j \in 0..N : ~(Q[j] = IF j < hit THEN 0 ELSE P[j] - k)}
<1>16. ASSUME NEW j \in T PROVE j # 0 /\ j - 1 \in T
  <2>1. j \in 0..N /\ ~(Q[j] = IF j < hit THEN 0 ELSE P[j] - k)
    OBVIOUS
  <2>2. j # 0
    BY <1>3, <1>15, <2>1
  <2>3. j \in 1..N /\ j - 1 \in 0..N
    BY <1>3, <2>1, <2>2
  <2>4. /\ Q[j] = Q[j - 1] + io2[j].len /\ P[j] = P[j - 1] + io[j].len
        /\ P[j] \in Nat /\ P[j - 1] \in Nat /\ Q[j] \in Nat
        /\ Q[j - 1] \in Nat /\ io[j].len \in Nat
    BY <1>3, <1>5, <1>15, <2>3
  <2>5. ASSUME Q[j - 1] = IF j - 1 < hit THEN 0 ELSE P[j - 1] - k
        PROVE  FALSE
    <3>1. CASE j < hit
      <4>1. io2[j].len = 0
        BY <1>9, <2>3, <3>1
      <4>2. j - 1 < hit
        BY <1>3, <2>3, <3>1
      <4>3. Q[j] # 0 /\ Q[j - 1] = 0
        BY <2>1, <2>5, <3>1, <4>2
      <4>4. Q[j] = Q[j - 1] + 0
        BY <2>4, <4>1
      <4> QED BY <4>3, <4>4
    <3>2. CASE j = hit
      <4>1. j - 1 < hit /\ ~(j < hit)
        BY <1>3, <3>2
      <4>2. Q[j - 1] = 0 /\ Q[j] # P[j] - k
        BY <2>1, <2>5, <4>1
      <4>3. io2[j].len = io[j].len - (k - P[j - 1])
        BY <1>2, <1>10, <3>2
      <4>4. PICK p, p0, q, l : /\ p = P[j] /\ p0 = P[j - 1] /\ q = Q[j]
                               /\ l = io[j].len
        OBVIOUS
      <4>5. /\ p \in Nat /\ p0 \in Nat /\ q \in Nat /\ l \in Nat
            /\ q = 0 + (l - (k - p0)) /\ p = p0 + l /\ q # p - k
        BY <2>4, <4>2, <4>3, <4>4
      <4> QED BY <1>6, <4>5
    <3>3. CASE j > hit
      <4>1. ~(j - 1 < hit) /\ ~(j < hit)
        BY <1>3, <2>3, <3>3
      <4>2. io2[j] = io[j]
        BY <1>11, <2>3, <3>3
      <4>3. Q[j - 1] = P[j - 1] - k /\ Q[j] # P[j] - k
        BY <2>1, <2>5, <4>1
      <4>4. PICK p, p0, q, q0, l : /\ p = P[j] /\ p0 = P[j - 1]
                                   /\ q = Q[j] /\ q0 = Q[j - 1]
                                   /\ l = io[j].len
        OBVIOUS
      <4>5. /\ p \in Nat /\ p0 \in Nat /\ q \in Nat /\ q0 \in Nat
            /\ l \in Nat
        BY <2>4, <4>4
      <4>6. q = q0 + l /\ p = p0 + l /\ q0 = p0 - k /\ q # p - k
        BY <2>4, <4>2, <4>3, <4>4
      <4> QED BY <1>6, <4>5, <4>6
    <3>4. j < hit \/ j = hit \/ j > hit
      BY <1>3, <2>3
    <3> QED BY <3>1, <3>2, <3>3, <3>4
  <2> QED BY <2>2, <2>3, <2>5
<1>17. T \subseteq 0..N
  OBVIOUS
<1> HIDE DEF T
<1>18. T = {}
  BY <1>3, <1>16, <1>17, NoException
<1>19. \A j \in 0..N : Q[j] = IF j < hit THEN 0 ELSE P[j] - k
  BY <1>18 DEF T
<1>20. \A j \in 1..(hit - 1) : j \in 1..N /\ j < hit
  BY <1>3
<1>21. \A j \in (hit + 1)..N : j \in 1..N /\ j > hit
  BY <1>3
<1> QED BY <1>1, <1>2, <1>9, <1>10, <1>11, <1>12, <1>13, <1>19, <1>20, <1>21

(* What is left of a header stands for the cells that follow.              *)
LEMMA CutEntered ==
  ASSUME NEW io \in Seq(EntryType), NEW P, P = Ends(io), NEW k, NEW hit,
         HitOf(P, io, k, hit), NEW io2,
         io2 = Cut(io, hit, k - P[hit - 1]),
         NEW m, NEW B \in Nat, NEW n, Entered(io, m, B, n), Single(io)
  PROVE  Entered(io2, m, B + k, n) /\ Single(io2)
<1>1. PICK N, Q : N = Len(io) /\ Q = Ends(io2)
  OBVIOUS
<1>2. /\ N \in Nat /\ Places(P, N) /\ hit \in 1..N
      /\ k \in 1..P[N] /\ P[hit] >= k /\ P[hit - 1] <= k
      /\ \A j \in 1..N : io[j].len \in Nat /\ P[j] = P[j - 1] + io[j].len
  BY <1>1 DEF HitOf, EndsOf
<1>3. /\ io2 \in Seq(EntryType) /\ Len(io2) = N
      /\ \A j \in 1..N : io2[j].kind = io[j].kind /\ io2[j].val = io[j].val
      /\ \A j \in 1..(hit - 1) : io2[j].len = 0 /\ io2[j].at = io[j].at
      /\ io2[hit].len = io[hit].len - (k - P[hit - 1])
      /\ io2[hit].at = io[hit].at + (k - P[hit - 1])
      /\ \A j \in (hit + 1)..N : io2[j] = io[j]
      /\ \A j \in 0..N : Q[j] = IF j < hit THEN 0 ELSE P[j] - k
  BY <1>1, CutEnds
<1>4. \A j \in 0..N : P[j] \in Nat
  BY <1>2 DEF Places
<1>5. hit - 1 \in 0..N /\ k \in Nat
  BY <1>2, <1>4
<1>6. \A j \in 1..N : io[j].at \in Nat /\ io[j].len \in Nat
  <2>1. \A j \in 1..N : io[j] \in EntryType
    BY <1>1, ElementOfSeq
  <2> QED BY <2>1 DEF EntryType
<1>7. ASSUME NEW j \in 1..N, NEW x \in 1..io2[j].len
      PROVE  Slot(io2[j], m[(B + k) + Q[j - 1] + x], n)
  <2>1. j - 1 \in 0..N /\ P[j - 1] \in Nat
    BY <1>2, <1>4
  <2>2. Q[j - 1] = IF j - 1 < hit THEN 0 ELSE P[j - 1] - k
    BY <1>3, <2>1
  <2>3. ~(j < hit)
    <3>1. SUFFICES ASSUME j < hit PROVE FALSE
      OBVIOUS
    <3>2. j \in 1..(hit - 1)
      BY <1>2, <3>1
    <3>3. io2[j].len = 0
      BY <1>3, <3>2
    <3> QED BY <3>3
  <2>4. CASE j = hit
    <3>1. PICK y, a, l : /\ a = P[j - 1] /\ l = io[j].len
                         /\ y = (k - a) + x
      OBVIOUS
    <3>2. Q[j - 1] = 0
      BY <1>2, <2>2, <2>4
    <3>3. /\ io2[j].len = l - (k - a) /\ a \in Nat /\ l \in Nat /\ a <= k
      BY <1>2, <1>3, <2>1, <2>4, <3>1
    <3>4. x \in Nat /\ x >= 1 /\ x <= l - (k - a)
      <4>1. l - (k - a) \in Int
        BY <1>5, <3>3
      <4> QED BY <3>3, <4>1
    <3>5. y \in 1..l
      <4>0. k - a \in Nat
        BY <1>5, <3>3
      <4>1. k - a \in Nat /\ y = (k - a) + x
        BY <3>1, <4>0, Zenon
      <4>2. PICK d : d = k - a
        OBVIOUS
      <4>3. d \in Nat /\ y = d + x /\ x <= l - d
        BY <3>4, <4>1, <4>2
      <4>4. y >= 1 /\ y <= l /\ y \in Nat
        BY <3>3, <3>4, <4>3
      <4> QED BY <3>3, <4>4
    <3>9. B + a + y = (B + k) + 0 + x
      <4>1. y = (k - a) + x
        BY <3>1, Zenon
      <4>2. B \in Nat /\ k \in Nat /\ a \in Nat /\ x \in Nat
        BY <1>5, <3>3, <3>4
      <4>3. \A b, u, v, z \in Nat : b + u + ((v - u) + z) = (b + v) + 0 + z
        OBVIOUS
      <4> QED BY <4>1, <4>2, <4>3
    <3>6. Slot(io[j], m[B + a + y], n)
      BY <1>1, <3>1, <3>5 DEF Entered
    <3>7. Slot(io[j], m[(B + k) + Q[j - 1] + x], n)
      BY <3>2, <3>9, <3>6
    <3>8. io2[j].kind = io[j].kind /\ io2[j].val = io[j].val
      BY <1>3
    <3> QED BY <3>7, <3>8 DEF Slot
  <2>5. CASE j # hit
    <3>1. j \in (hit + 1)..N /\ ~(j - 1 < hit)
      BY <1>2, <2>3, <2>5
    <3>2. io2[j] = io[j] /\ Q[j - 1] = P[j - 1] - k
      BY <1>3, <2>2, <3>1
    <3>3. Slot(io[j], m[B + P[j - 1] + x], n)
      BY <1>1, <3>2 DEF Entered
    <3>4. x \in Nat
      BY <1>6, <3>2
    <3>5. (B + k) + Q[j - 1] + x = B + P[j - 1] + x
      BY <1>5, <2>1, <3>2, <3>4
    <3> QED BY <3>2, <3>3, <3>5
  <2> QED BY <2>4, <2>5
<1>8. ASSUME NEW j \in 1..N, io2[j].kind \in {"date", "lm"}
      PROVE  io2[j].at + io2[j].len <= 1
  <2>1. io[j].kind = io2[j].kind /\ io[j].at + io[j].len <= 1
    BY <1>1, <1>3, <1>8 DEF Single
  <2>2. io[j].at \in Nat /\ io[j].len \in Nat
    BY <1>6
  <2>3. CASE j < hit
    <3>1. j \in 1..(hit - 1)
      BY <1>2, <2>3
    <3>2. io2[j].len = 0 /\ io2[j].at = io[j].at
      BY <1>3, <3>1
    <3> QED BY <2>1, <2>2, <3>2
  <2>4. CASE j = hit
    <3>1. PICK a : a = P[hit - 1]
      OBVIOUS
    <3>2. /\ io2[j].len = io[j].len - (k - a)
          /\ io2[j].at = io[j].at + (k - a) /\ a \in Nat
      BY <1>3, <1>4, <1>5, <2>4, <3>1
    <3> QED BY <1>5, <2>1, <2>2, <3>2
  <2>5. CASE j > hit
    <3>1. j \in (hit + 1)..N
      BY <1>2, <2>5
    <3> QED BY <1>3, <2>1, <3>1
  <2>6. j < hit \/ j = hit \/ j > hit
    BY <1>2
  <2> QED BY <2>3, <2>4, <2>5, <2>6
<1> QED BY <1>1, <1>3, <1>7, <1>8 DEF Entered, Single

(* mk_stream_bytes_consumed takes what was written off bytes_total.        *)
LEMMA ConsumedTotal ==
  ASSUME NEW s \in StreamType, NEW k, NEW t, t = Consume(s, k)
  PROVE  t.total = s.total - k /\ t.type = s.type
<1>1. PICK v : v = IF s.type = "IOV" THEN IovConsume(s, k)
                   ELSE [s EXCEPT !.off = @ + k]
  OBVIOUS
<1>2. t = [v EXCEPT !.total = @ - k]
  BY <1>1 DEF Consume
<1>3. /\ v.total = s.total /\ v.type = s.type
      /\ DOMAIN v = {"type", "io", "total_len", "total", "off", "size"}
  BY <1>1 DEF IovConsume, StreamType
<1> QED BY <1>2, <1>3

(* A header of which a part is left.                                       *)
LEMMA IovConsumed ==
  ASSUME NEW s \in StreamType, NEW m, NEW B \in Nat, NEW n,
         IovOK(s, m, B, n), NEW k \in 1..s.total, k # s.total,
         NEW t, t = Consume(s, k)
  PROVE  t \in StreamType /\ IovOK(t, m, B + k, n)
<1>1. PICK io, P : io = s.io /\ P = Ends(io)
  OBVIOUS
<1>2. /\ io \in Seq(EntryType) /\ s.total \in Nat /\ s.total_len \in Int
      /\ s.off \in Nat /\ s.size \in Nat
  BY <1>1 DEF StreamType
<1>3. EndsOf(P, io)
  BY <1>1, <1>2, EndsAre
<1>4. /\ s.type = "IOV" /\ s.total = P[Len(io)] /\ s.total <= s.total_len
      /\ Entered(io, m, B, n) /\ Single(io)
  BY <1>1 DEF IovOK, Sum
<1>5. s.total_len # k /\ k \in Nat /\ k < s.total
  BY <1>2, <1>4
<1>6. PICK hit : hit = Min({j \in DOMAIN io : P[j] >= k})
  OBVIOUS
<1>7. HitOf(P, io, k, hit)
  BY <1>3, <1>4, <1>6, Hit
<1>8. PICK cut, io2, Q : /\ cut = k - P[hit - 1] /\ io2 = Cut(io, hit, cut)
                         /\ Q = Ends(io2)
  OBVIOUS
<1>9. Entered(io2, m, B + k, n) /\ Single(io2)
  BY <1>1, <1>2, <1>4, <1>7, <1>8, CutEntered
<1>10. /\ io2 \in Seq(EntryType) /\ Len(io2) = Len(io)
       /\ \A j \in 0..Len(io) : Q[j] = IF j < hit THEN 0 ELSE P[j] - k
  BY <1>2, <1>7, <1>8, CutEnds
<1>11. /\ Len(io) \in Nat /\ hit \in 1..Len(io) /\ P[hit - 1] \in Nat
       /\ P[hit - 1] <= k
  <2>1. /\ Len(io) \in Nat /\ hit \in 1..Len(io) /\ P[hit - 1] <= k
        /\ Places(P, Len(io))
    BY <1>7 DEF HitOf, EndsOf
  <2>2. hit - 1 \in 0..Len(io)
    BY <2>1
  <2> QED BY <2>1, <2>2 DEF Places
<1>12. Sum(io2) = s.total - k
  <2>1. Len(io) \in 0..Len(io) /\ ~(Len(io) < hit)
    BY <1>11
  <2>2. Q[Len(io)] = P[Len(io)] - k
    BY <1>10, <2>1
  <2> QED BY <1>4, <1>8, <1>10, <2>2 DEF Sum
<1>13. cut \in Nat /\ cut <= k
  BY <1>5, <1>8, <1>11
<1>14. IovConsume(s, k) = [s EXCEPT !.total_len = @ - cut, !.io = io2]
  <2>1. /\ hit = Min({j \in DOMAIN s.io : Ends(s.io)[j] >= k})
        /\ cut = k - Ends(s.io)[hit - 1] /\ io2 = Cut(s.io, hit, cut)
    BY <1>1, <1>6, <1>8
  <2> QED BY <1>5, <2>1, Zenon DEF IovConsume, Cut
<1>15. t = [[s EXCEPT !.total_len = @ - cut, !.io = io2]
              EXCEPT !.total = @ - k]
  BY <1>4, <1>14 DEF Consume
<1>16. /\ t.type = "IOV" /\ t.io = io2 /\ t.total = s.total - k
       /\ t.total_len = s.total_len - cut
  BY <1>4, <1>15 DEF StreamType
<1>17. s.total - k \in Nat /\ s.total - k > 0 /\ s.total_len - cut \in Int
  BY <1>2, <1>5, <1>13
<1>18. t \in StreamType
  BY <1>10, <1>15, <1>17 DEF StreamType
<1>19. s.total - k <= s.total_len - cut
  BY <1>2, <1>4, <1>5, <1>13
<1> QED BY <1>9, <1>12, <1>16, <1>17, <1>18, <1>19 DEF IovOK

(* A file of which a part is left.                                         *)
LEMMA FileConsumed ==
  ASSUME NEW s \in StreamType, NEW m, NEW B \in Nat, NEW n,
         FileOK(s, m, B, n), NEW k \in 1..s.total, k <= s.size - s.off,
         NEW t, t = Consume(s, k)
  PROVE  t \in StreamType /\ FileOK(t, m, B + k, n)
<1>1. /\ s.total \in Nat /\ s.size \in Nat /\ s.off \in Nat /\ k \in Nat
      /\ s.off <= s.size /\ s.type = "FILE"
  BY DEF StreamType, FileOK
<1>2. t = [[s EXCEPT !.off = @ + k] EXCEPT !.total = @ - k]
  BY <1>1 DEF Consume
<1>3. /\ t.type = "FILE" /\ t.off = s.off + k /\ t.total = s.total - k
      /\ t.size = s.size
  BY <1>1, <1>2 DEF StreamType
<1>4. s.total - k \in Nat /\ s.off + k \in Nat /\ s.off + k <= s.size
  BY <1>1
<1>5. t \in StreamType
  BY <1>2, <1>4 DEF StreamType
<1>6. ASSUME NEW j \in 1..t.total
      PROVE  m[(B + k) + j] = <<"byte", t.off + j - 1, n>>
  <2>1. k + j \in 1..s.total /\ j \in Nat
    BY <1>1, <1>3, <1>4
  <2>2. m[B + (k + j)] = <<"byte", s.off + (k + j) - 1, n>>
    BY <2>1 DEF FileOK
  <2>3. /\ B + (k + j) = (B + k) + j
        /\ s.off + (k + j) - 1 = (s.off + k) + j - 1
    BY <1>1, <2>1
  <2> QED BY <1>3, <2>2, <2>3
<1> QED BY <1>3, <1>4, <1>5, <1>6 DEF FileOK

(* Either.                                                                 *)
LEMMA StreamConsumed ==
  ASSUME NEW s \in StreamType, NEW m, NEW B \in Nat, NEW n,
         StreamOK(s, m, B, n), ClockInv, NEW b, b = Bytes(s)
  PROVE  /\ Sendable(b, s, m, B, n)
         /\ s.type = "IOV" => Len(b) = s.total /\ s.total > 0
         /\ s.type # "IOV" \/ Own(s.io, m, B) => OwnBytes(b, m, B)
         /\ \A k \in 1..Len(b) :
              /\ Consume(s, k).total = s.total - k /\ k <= s.total
              /\ Consume(s, k).type = s.type
              /\ k # s.total => /\ Consume(s, k) \in StreamType
                                /\ StreamOK(Consume(s, k), m, B + k, n)
<1>1. s.total \in Nat
  BY DEF StreamType
<1>2. CASE IovOK(s, m, B, n)
  <2>1. /\ Sendable(b, s, m, B, n) /\ Len(b) = s.total
        /\ Own(s.io, m, B) => OwnBytes(b, m, B)
    BY <1>2, IovBytes
  <2>2. s.type = "IOV" /\ s.total > 0
    BY <1>2 DEF IovOK
  <2>3. ASSUME NEW k \in 1..Len(b)
        PROVE  /\ Consume(s, k).total = s.total - k /\ k <= s.total
               /\ Consume(s, k).type = s.type
               /\ k # s.total => /\ Consume(s, k) \in StreamType
                                 /\ StreamOK(Consume(s, k), m, B + k, n)
    <3>1. PICK t : t = Consume(s, k)
      OBVIOUS
    <3>2. t.total = s.total - k /\ t.type = s.type
      BY <3>1, ConsumedTotal
    <3>3. k \in 1..s.total
      BY <2>1
    <3>4. k # s.total => t \in StreamType /\ IovOK(t, m, B + k, n)
      BY <1>2, <3>1, <3>3, IovConsumed
    <3> QED BY <1>1, <3>1, <3>2, <3>3, <3>4 DEF StreamOK
  <2> QED BY <2>1, <2>2, <2>3
<1>3. CASE FileOK(s, m, B, n)
  <2>1. /\ Sendable(b, s, m, B, n) /\ Len(b) <= s.size - s.off
        /\ OwnBytes(b, m, B)
    BY <1>3, FileBytes
  <2>2. s.type = "FILE" /\ s.size \in Nat /\ s.off \in Nat
    BY <1>3 DEF FileOK, StreamType
  <2>3. Len(b) \in Nat /\ Len(b) <= s.total
    BY <2>1, SeqFacts DEF Sendable
  <2>4. ASSUME NEW k \in 1..Len(b)
        PROVE  /\ Consume(s, k).total = s.total - k /\ k <= s.total
               /\ Consume(s, k).type = s.type
               /\ k # s.total => /\ Consume(s, k) \in StreamType
                                 /\ StreamOK(Consume(s, k), m, B + k, n)
    <3>1. PICK t : t = Consume(s, k)
      OBVIOUS
    <3>2. t.total = s.total - k /\ t.type = s.type
      BY <3>1, ConsumedTotal
    <3>3. k \in 1..s.total /\ k <= s.size - s.off
      BY <1>1, <2>1, <2>2, <2>3
    <3>4. t \in StreamType /\ FileOK(t, m, B + k, n)
      BY <1>3, <3>1, <3>3, FileConsumed
    <3> QED BY <1>1, <3>1, <3>2, <3>3, <3>4 DEF StreamOK
  <2>5. s.type # "IOV"
    BY <2>2
  <2> QED BY <2>1, <2>4, <2>5
<1> QED BY <1>2, <1>3 DEF StreamOK

-----------------------------------------------------------------------------
(* The outcomes of mk_channel_write on a connection k whose client is to   *)
(* receive m and has received B cells of it.                               *)

WroteNothing(o, k) ==
  /\ o.out = <<>> /\ o.ss = k.streams /\ (o.dead <=> k.dead)
  /\ \/ o.ret = "EMPTY" /\ k.streams = <<>>
     \/ o.ret = "BUSY" /\ k.streams # <<>> /\ ~k.dead

(* Only the end of a file fails without the client being gone.             *)
WriteFailed(o, k) ==
  /\ o.out = <<>> /\ o.ret = "ERROR" /\ k.streams # <<>>
  /\ ~o.dead => ~k.dead /\ k.streams[1].type # "IOV"

WroteSome(o, k, m, B) ==
  /\ ~k.dead /\ ~o.dead /\ k.streams # <<>> /\ Len(o.out) >= 1
  /\ o.ret = IF o.ss = <<>> THEN "DONE" ELSE "FLUSH"
  /\ \A p \in 1..Len(o.out) : CellOK(o.out[p], m[B + p], k.n)
  /\ k.streams[1].type # "IOV" \/ Own(k.streams[1].io, m, B) =>
       OwnBytes(o.out, m, B)
  /\ Pending(o.ss, m, B + Len(o.out), k.n)

Wrote(o, k, m, B) ==
  /\ o.dead \in BOOLEAN /\ o.ss \in Seq(StreamType) /\ IsSeq(o.out)
  /\ WroteNothing(o, k) \/ WriteFailed(o, k) \/ WroteSome(o, k, m, B)

(* The empty sequence.                                                     *)
LEMMA EmptyIs == IsSeq(<<>>) /\ Len(<<>>) = 0
<1>1. <<>> \in Seq({}) /\ Len(<<>>) = 0
  OBVIOUS
<1> QED BY <1>1, SeqIsSeq

(* The streams that are left when the first has lost i of its cells.       *)
LeftAfter(ss, i) ==
  IF Consume(Head(ss), i).total = 0 THEN Tail(ss)
  ELSE <<Consume(Head(ss), i)>> \o Tail(ss)

(* They are what is left of the meaning.                                   *)
LEMMA PendingAfter ==
  ASSUME NEW ss \in Seq(StreamType), ss # <<>>, NEW m, NEW B \in Nat, NEW n,
         Pending(ss, m, B, n), ClockInv, NEW b, b = Bytes(Head(ss))
  PROVE  /\ IsSeq(b) /\ \A p \in 1..Len(b) : CellOK(b[p], m[B + p], n)
         /\ ss[1].type # "IOV" \/ Own(ss[1].io, m, B) => OwnBytes(b, m, B)
         /\ ss[1].type = "IOV" => b # <<>>
         /\ \A i \in 1..Len(b) :
              /\ LeftAfter(ss, i) \in Seq(StreamType)
              /\ Pending(LeftAfter(ss, i), m, B + i, n)
<1>1. PICK s : s = ss[1]
  OBVIOUS
<1>2. Len(ss) \in Nat /\ 1 \in 1..Len(ss)
  OBVIOUS
<1>3. s \in StreamType /\ Head(ss) = s
  BY <1>1, <1>2, ElementOfSeq
<1>4. StreamOK(s, m, B, n)
  BY <1>1 DEF Pending, StreamOK
<1>5. /\ Sendable(b, s, m, B, n)
      /\ s.type = "IOV" => Len(b) = s.total /\ s.total > 0
      /\ s.type # "IOV" \/ Own(s.io, m, B) => OwnBytes(b, m, B)
      /\ \A k \in 1..Len(b) :
           /\ Consume(s, k).total = s.total - k /\ k <= s.total
           /\ Consume(s, k).type = s.type
           /\ k # s.total => /\ Consume(s, k) \in StreamType
                             /\ StreamOK(Consume(s, k), m, B + k, n)
  BY <1>3, <1>4, StreamConsumed
<1>6. IsSeq(b) /\ \A p \in 1..Len(b) : CellOK(b[p], m[B + p], n)
  BY <1>5 DEF Sendable
<1>7. s.type = "IOV" => b # <<>>
  BY <1>5, EmptyIs
<1>8. ASSUME NEW i \in 1..Len(b)
      PROVE  /\ LeftAfter(ss, i) \in Seq(StreamType)
             /\ Pending(LeftAfter(ss, i), m, B + i, n)
  <2>1. PICK t, r : t = Consume(s, i) /\ r = LeftAfter(ss, i)
    OBVIOUS
  <2>2. s.total \in Nat /\ i \in Nat
    BY <1>3, <1>6, SeqFacts DEF StreamType
  <2>3. /\ t.total = s.total - i /\ i <= s.total /\ t.type = s.type
        /\ i # s.total => t \in StreamType /\ StreamOK(t, m, B + i, n)
    BY <1>5, <2>1
  <2>4. r = IF t.total = 0 THEN Tail(ss) ELSE <<t>> \o Tail(ss)
    BY <1>3, <2>1 DEF LeftAfter
  <2>5. CASE ss = <<s>>
    <3>1. Len(m) = B + s.total
      BY <1>1, <2>5 DEF Pending
    <3>2. Tail(ss) = <<>>
      BY <1>3, <2>5
    <3>3. CASE i = s.total
      <4>1. r = <<>> /\ Len(m) = B + i
        BY <2>2, <2>3, <2>4, <3>1, <3>2, <3>3
      <4>2. r \in Seq(StreamType)
        BY <4>1
      <4> QED BY <2>1, <4>1, <4>2 DEF Pending
    <3>4. CASE i # s.total
      <4>1. t \in StreamType /\ StreamOK(t, m, B + i, n)
        BY <2>3, <3>4
      <4>2. r = <<t>> \o <<>>
        <5>1. t.total # 0
          BY <2>2, <2>3, <3>4
        <5> QED BY <2>4, <3>2, <5>1, Zenon
      <4>3. r = <<t>>
        BY <4>1, <4>2
      <4>4. r[1] = t /\ r = <<r[1]>> /\ r \in Seq(StreamType)
        BY <4>1, <4>3
      <4>5. Len(m) = (B + i) + t.total
        BY <2>2, <2>3, <3>1
      <4> QED BY <2>1, <4>1, <4>4, <4>5 DEF Pending
    <3> QED BY <3>3, <3>4
  <2>6. CASE ss = <<s, ss[2]>>
    <3>1. PICK f : f = ss[2]
      OBVIOUS
    <3>2. f \in StreamType
      <4>1. 2 \in 1..Len(ss)
        BY <2>6
      <4> QED BY <3>1, <4>1, ElementOfSeq
    <3>3. ss = <<s, f>>
      BY <2>6, <3>1
    <3>4. /\ IovOK(s, m, B, n) /\ FileOK(f, m, B + s.total, n)
          /\ Len(m) = B + s.total + f.total
      BY <1>1, <2>6, <3>1 DEF Pending
    <3>5. Tail(ss) = <<f>>
      BY <1>3, <3>2, <3>3
    <3>6. s.type = "IOV" /\ f.total \in Nat
      BY <3>2, <3>4 DEF IovOK, StreamType
    <3>7. CASE i = s.total
      <4>1. r = <<f>> /\ B + s.total = B + i
        BY <2>2, <2>3, <2>4, <3>5, <3>7
      <4>2. r[1] = f /\ r = <<r[1]>> /\ r \in Seq(StreamType)
        BY <3>2, <4>1
      <4>3. FileOK(f, m, B + i, n) /\ Len(m) = (B + i) + f.total
        BY <3>4, <4>1
      <4> QED BY <2>1, <4>2, <4>3 DEF Pending, StreamOK
    <3>8. CASE i # s.total
      <4>1. t \in StreamType /\ StreamOK(t, m, B + i, n)
        BY <2>3, <3>8
      <4>2. IovOK(t, m, B + i, n)
        BY <2>3, <3>6, <4>1 DEF StreamOK, FileOK
      <4>3. r = <<t>> \o <<f>>
        <5>1. t.total # 0
          BY <2>2, <2>3, <3>8
        <5> QED BY <2>4, <3>5, <5>1, Zenon
      <4>4. r = <<t, f>>
        BY <3>2, <4>1, <4>3, Pair
      <4>5. /\ r[1] = t /\ r[2] = f /\ r = <<r[1], r[2]>>
            /\ r \in Seq(StreamType)
        BY <3>2, <4>1, <4>4
      <4>6. (B + i) + t.total = B + s.total
        BY <2>2, <2>3
      <4>7. /\ FileOK(f, m, (B + i) + t.total, n)
            /\ Len(m) = (B + i) + t.total + f.total
        BY <3>4, <4>6
      <4> QED BY <2>1, <4>2, <4>5, <4>7 DEF Pending
    <3> QED BY <3>7, <3>8
  <2> QED BY <1>1, <2>5, <2>6 DEF Pending
<1> QED BY <1>1, <1>5, <1>6, <1>7, <1>8

(* Every outcome is one of these.                                          *)
LEMMA Writes ==
  ASSUME NEW k \in ConnType, NEW m, NEW B \in Nat,
         ~k.dead => Pending(k.streams, m, B, k.n), ClockInv,
         NEW o \in ChannelWrite(k)
  PROVE  Wrote(o, k, m, B)
<1>1. PICK ss : ss = k.streams
  OBVIOUS
<1>2. ss \in Seq(StreamType) /\ k.dead \in BOOLEAN
  BY <1>1 DEF ConnType
<1>3. CASE ss = <<>>
  <2>1. o = [out |-> <<>>, ss |-> ss, ret |-> "EMPTY", dead |-> k.dead]
    BY <1>1, <1>3 DEF ChannelWrite
  <2>2. o.out = <<>> /\ o.ss = ss /\ o.ret = "EMPTY" /\ (o.dead <=> k.dead)
    BY <2>1
  <2>3. o.dead \in BOOLEAN
    BY <1>2, <2>1, Zenon
  <2> QED BY <1>1, <1>2, <1>3, <2>2, <2>3, EmptyIs DEF Wrote, WroteNothing
<1>4. ASSUME ss # <<>>,
             o.out = <<>>, o.ss = Tail(ss), o.ret = "ERROR",
             o.dead \in BOOLEAN,
             ~o.dead => ~k.dead /\ k.streams[1].type # "IOV"
      PROVE  Wrote(o, k, m, B)
  <2>1. Tail(ss) \in Seq(StreamType)
    BY <1>2, <1>4
  <2> QED BY <1>1, <1>4, <2>1, EmptyIs DEF Wrote, WriteFailed
<1>5. CASE ss # <<>> /\ k.dead
  <2>1. o = [out |-> <<>>, ss |-> Tail(ss), ret |-> "ERROR", dead |-> TRUE]
    BY <1>1, <1>5 DEF ChannelWrite
  <2>2. o.out = <<>> /\ o.ss = Tail(ss) /\ o.ret = "ERROR" /\ o.dead
    BY <2>1
  <2>3. o.dead \in BOOLEAN
    BY <2>1, Zenon
  <2> QED BY <1>4, <1>5, <2>2, <2>3
<1>6. CASE ss # <<>> /\ ~k.dead
  <2>1. PICK b : b = Bytes(Head(ss))
    OBVIOUS
  <2>2. Pending(ss, m, B, k.n)
    BY <1>1, <1>6
  <2>3. /\ IsSeq(b) /\ \A p \in 1..Len(b) : CellOK(b[p], m[B + p], k.n)
        /\ ss[1].type # "IOV" \/ Own(ss[1].io, m, B) => OwnBytes(b, m, B)
        /\ ss[1].type = "IOV" => b # <<>>
        /\ \A i \in 1..Len(b) :
             /\ LeftAfter(ss, i) \in Seq(StreamType)
             /\ Pending(LeftAfter(ss, i), m, B + i, k.n)
    BY <1>2, <1>6, <2>1, <2>2, PendingAfter
  <2>4. \/ \E i \in 1..Len(b) :
             o = [out |-> SubSeq(b, 1, i), ss |-> LeftAfter(ss, i),
                  dead |-> FALSE,
                  ret |-> IF LeftAfter(ss, i) = <<>> THEN "DONE"
                          ELSE "FLUSH"]
        \/ o = [out |-> <<>>, ss |-> ss, ret |-> "BUSY", dead |-> FALSE]
        \/ o = [out |-> <<>>, ss |-> Tail(ss), ret |-> "ERROR",
                dead |-> TRUE]
        \/ /\ b = <<>>
           /\ o = [out |-> <<>>, ss |-> Tail(ss), ret |-> "ERROR",
                   dead |-> FALSE]
    BY <1>1, <1>6, <2>1 DEF ChannelWrite, LeftAfter
  <2>5. ASSUME NEW i \in 1..Len(b),
               o = [out |-> SubSeq(b, 1, i), ss |-> LeftAfter(ss, i),
                    dead |-> FALSE,
                    ret |-> IF LeftAfter(ss, i) = <<>> THEN "DONE"
                            ELSE "FLUSH"]
        PROVE  Wrote(o, k, m, B)
    <3>1. PICK r, u : r = LeftAfter(ss, i) /\ u = SubSeq(b, 1, i)
      OBVIOUS
    <3>2. /\ o.out = u /\ o.ss = r /\ ~o.dead
          /\ o.ret = IF r = <<>> THEN "DONE" ELSE "FLUSH"
      BY <2>5, <3>1
    <3>3. o.dead \in BOOLEAN
      BY <2>5, Zenon
    <3>4. Len(b) \in Nat /\ i \in 0..Len(b) /\ i >= 1
      BY <2>3, SeqFacts
    <3>5. IsSeq(u) /\ Len(u) = i /\ \A p \in 1..i : u[p] = b[p]
      BY <2>3, <3>1, <3>4, Beginning
    <3>6. \A p \in 1..i : p \in 1..Len(b)
      BY <3>4
    <3>7. \A p \in 1..Len(u) : CellOK(u[p], m[B + p], k.n)
      BY <2>3, <3>5, <3>6
    <3>8. OwnBytes(b, m, B) => OwnBytes(u, m, B)
      BY <3>5, <3>6 DEF OwnBytes
    <3>9. r \in Seq(StreamType) /\ Pending(r, m, B + Len(u), k.n)
      BY <2>3, <3>1, <3>5
    <3>10. WroteSome(o, k, m, B)
      BY <1>1, <1>6, <2>3, <3>2, <3>4, <3>5, <3>7, <3>8, <3>9
      DEF WroteSome
    <3> QED BY <3>2, <3>3, <3>5, <3>9, <3>10 DEF Wrote
  <2>6. CASE o = [out |-> <<>>, ss |-> ss, ret |-> "BUSY", dead |-> FALSE]
    <3>1. o.out = <<>> /\ o.ss = ss /\ o.ret = "BUSY" /\ ~o.dead
      BY <2>6
    <3>2. o.dead \in BOOLEAN
      BY <2>6, Zenon
    <3> QED BY <1>1, <1>2, <1>6, <3>1, <3>2, EmptyIs DEF Wrote, WroteNothing
  <2>7. CASE o = [out |-> <<>>, ss |-> Tail(ss), ret |-> "ERROR",
                  dead |-> TRUE]
    <3>1. o.out = <<>> /\ o.ss = Tail(ss) /\ o.ret = "ERROR" /\ o.dead
      BY <2>7
    <3>2. o.dead \in BOOLEAN
      BY <2>7, Zenon
    <3> QED BY <1>4, <1>6, <3>1, <3>2
  <2>8. CASE /\ b = <<>>
             /\ o = [out |-> <<>>, ss |-> Tail(ss), ret |-> "ERROR",
                     dead |-> FALSE]
    <3>1. o.out = <<>> /\ o.ss = Tail(ss) /\ o.ret = "ERROR" /\ ~o.dead
      BY <2>8
    <3>2. o.dead \in BOOLEAN
      BY <2>8, Zenon
    <3>3. k.streams[1].type # "IOV"
      BY <1>1, <2>3, <2>8
    <3> QED BY <1>4, <1>6, <3>1, <3>2, <3>3
  <2> QED BY <2>4, <2>5, <2>6, <2>7, <2>8
<1> QED BY <1>3, <1>5, <1>6

-----------------------------------------------------------------------------
(* What the steps of others leave.                                         *)

(* The clock goes on.                                                      *)
Later == clock.now \in Nat /\ clock'.now \in Nat /\ clock.now <= clock'.now

(* What is queued stands for the same cells.                               *)
LEMMA PendingLater ==
  ASSUME Later, NEW ss, NEW m, NEW B, NEW n, Pending(ss, m, B, n)
  PROVE  Pending(ss, m, B, n)'
<1>1. ASSUME NEW e, NEW v, Slot(e, v, n) PROVE Slot(e, v, n)'
  <2>1. \A t \in 0..clock.now : t \in 0..clock'.now
    BY DEF Later
  <2> QED BY <1>1, <2>1 DEF Slot
<1>2. ASSUME NEW io, Entered(io, m, B, n) PROVE Entered(io, m, B, n)'
  BY <1>1, <1>2 DEF Entered
<1>3. ASSUME NEW s, IovOK(s, m, B, n) PROVE IovOK(s, m, B, n)'
  <2>1. Entered(s.io, m, B, n)'
    BY <1>2, <1>3 DEF IovOK
  <2> QED BY <1>3, <2>1 DEF IovOK
<1>4. ASSUME NEW s, NEW A, FileOK(s, m, A, n) PROVE FileOK(s, m, A, n)'
  BY <1>4 DEF FileOK
<1>5. ASSUME NEW s, StreamOK(s, m, B, n) PROVE StreamOK(s, m, B, n)'
  BY <1>3, <1>4, <1>5 DEF StreamOK
<1> QED BY <1>3, <1>4, <1>5 DEF Pending

(* A connection nobody touches, while the worker is not with it.           *)
LEMMA ConnLater ==
  ASSUME NEW k, NEW g, NEW m, NEW r, NEW r2, NEW c, ConnIs(k, g, m, r, c),
         Later, r.c # {c}, r2.c # {c}
  PROVE  ConnIs(k, g, m, r2, c)'
<1>1. Alive(k) => Pending(k.streams, m, Len(g), k.n)'
  <2>1. PICK ss, B, n : ss = k.streams /\ B = Len(g) /\ n = k.n
    OBVIOUS
  <2>2. Pending(ss, m, B, n) => Pending(ss, m, B, n)'
    BY PendingLater
  <2> QED BY <2>1, <2>2 DEF ConnIs
<1>2. ~Whole(k)
  BY DEF ConnIs
<1> QED BY <1>1, <1>2 DEF ConnIs

(* A connection while the clock ticks.                                     *)
LEMMA ConnTicks ==
  ASSUME NEW k, NEW g, NEW m, NEW r, NEW c, ConnIs(k, g, m, r, c),
         Later, UNCHANGED <<cl, lm>>
  PROVE  ConnIs(k, g, m, r, c)'
<1>1. Alive(k) => Pending(k.streams, m, Len(g), k.n)'
  <2>1. PICK ss, B, n : ss = k.streams /\ B = Len(g) /\ n = k.n
    OBVIOUS
  <2>2. Pending(ss, m, B, n) => Pending(ss, m, B, n)'
    BY PendingLater
  <2> QED BY <2>1, <2>2 DEF ConnIs
<1>2. Whole(k) => Own(k.streams[1].io, m, Len(g))'
  <2>1. Whole(k) => Own(k.streams[1].io, m, Len(g))
    BY DEF ConnIs
  <2> QED BY <2>1 DEF Own, OwnSlot
<1> QED BY <1>1, <1>2 DEF ConnIs

-----------------------------------------------------------------------------
(* What a write makes of a connection.                                     *)

(* What is queued is not behind what was received.                         *)
LEMMA PendingLen ==
  ASSUME NEW ss \in Seq(StreamType), NEW m, NEW B \in Nat, NEW n,
         Pending(ss, m, B, n)
  PROVE  B <= Len(m)
<1>1. CASE ss = <<>> /\ Len(m) = B
  BY <1>1
<1>2. CASE ss = <<ss[1]>> /\ Len(m) = B + ss[1].total
  <2>1. 1 \in 1..Len(ss)
    <3>1. PICK a : ss = <<a>>
      BY <1>2, Zenon
    <3>2. Len(ss) = 1
      BY <3>1
    <3> QED BY <3>2
  <2>2. ss[1] \in StreamType
    BY <2>1, ElementOfSeq
  <2> QED BY <1>2, <2>2 DEF StreamType
<1>3. CASE ss = <<ss[1], ss[2]>> /\ Len(m) = B + ss[1].total + ss[2].total
  <2>1. 1 \in 1..Len(ss) /\ 2 \in 1..Len(ss)
    <3>1. PICK a, b : ss = <<a, b>>
      BY <1>3, Zenon
    <3>2. Len(ss) = 2
      BY <3>1
    <3> QED BY <3>2
  <2>2. ss[1] \in StreamType /\ ss[2] \in StreamType
    BY <2>1, ElementOfSeq
  <2>3. ss[1].total \in Nat /\ ss[2].total \in Nat
    BY <2>2 DEF StreamType
  <2> QED BY <1>3, <2>3
<1> QED BY <1>1, <1>2, <1>3 DEF Pending

(* Nothing is added.                                                       *)
LEMMA AddNothing ==
  ASSUME NEW g, IsSeq(g)
  PROVE  g \o <<>> = g
<1>1. g \in Seq(Range(g))
  BY DEF IsSeq
<1> QED BY <1>1

CanWrite(k, g, m) ==
  /\ k \in ConnType /\ IsSeq(g) /\ IsSeq(m) /\ k.n >= 1
  /\ k.st \in {"read", "write"}
  /\ Received(g, m, k.split)
  /\ ~k.dead => Pending(k.streams, m, Len(g), k.n)
  /\ Whole(k) => Own(k.streams[1].io, m, Len(g))

(* A date that is not the one meant has been overtaken by the clock.       *)
DateOK(b, v) ==
  b[1] = "date" /\ b[2] # v[2] =>
    v[2] \in 0..clock.now /\ ~Untouched(v[2])

After(k, o, g, m, k2, g2) ==
  /\ k2 \in ConnType /\ IsSeq(g2) /\ k2.n = k.n /\ k2.st = k.st
  /\ k2.flight = k.flight /\ k2.streams = o.ss /\ IsSeq(o.out)
  /\ Received(g2, m, k2.split)
  /\ o.ret \in {"EMPTY", "BUSY", "ERROR", "DONE", "FLUSH"}
  /\ o.ret # "ERROR" /\ ~k2.dead => Pending(k2.streams, m, Len(g2), k2.n)
  /\ o.ret = "ERROR" /\ ~k2.dead => ~k.dead /\ k.streams[1].type # "IOV"
  /\ o.ret # "ERROR" /\ Whole(k2) =>
       /\ Whole(k) /\ o.ret = "BUSY" /\ o.out = <<>>
       /\ k2.streams = k.streams /\ g2 = g
  /\ o.ret \in {"DONE", "EMPTY"} => k2.streams = <<>>
  /\ \A j \in DOMAIN g2 \ DOMAIN g : j \in 1..Len(m) /\ DateOK(g2[j], m[j])

(* The connection after any outcome.                                       *)
LEMMA Wrote1 ==
  ASSUME NEW k, NEW o, NEW g, NEW m, CanWrite(k, g, m),
         Wrote(o, k, m, Len(g)), NEW k2, k2 = Written(k, o)
  PROVE  /\ k2 \in ConnType /\ k2.n = k.n /\ k2.st = k.st
         /\ k2.flight = k.flight /\ k2.streams = o.ss
         /\ (k2.dead <=> o.dead) /\ k.split \subseteq k2.split
         /\ o.out = <<>> => k2.split = k.split
         /\ o.out # <<>> /\ o.ss # <<>> /\ o.ss[1].type = "IOV" =>
              k.n \in k2.split
<1>1. PICK sp : sp = IF o.out # <<>> /\ o.ss # <<>> /\ Head(o.ss).type = "IOV"
                     THEN k.split \cup {k.n} ELSE k.split
  OBVIOUS
<1>2. k2 = [k EXCEPT !.streams = o.ss, !.dead = o.dead, !.split = sp]
  BY <1>1 DEF Written
<1>3. /\ k \in ConnType /\ o.ss \in Seq(StreamType) /\ o.dead \in BOOLEAN
      /\ k.n \in Nat /\ k.split \subseteq Nat
  BY DEF CanWrite, Wrote, ConnType
<1>4. sp \subseteq Nat /\ k.split \subseteq sp
  BY <1>1, <1>3
<1>5. k2 \in ConnType
  BY <1>2, <1>3, <1>4 DEF ConnType
<1>6. /\ k2.n = k.n /\ k2.st = k.st /\ k2.flight = k.flight
      /\ k2.streams = o.ss /\ k2.split = sp /\ k2.dead = o.dead
  BY <1>2, <1>3 DEF ConnType
<1>7. k2.dead <=> o.dead
  BY <1>6, Zenon
<1>8. o.ss # <<>> => Head(o.ss) = o.ss[1]
  BY <1>3
<1> QED BY <1>1, <1>4, <1>5, <1>6, <1>7, <1>8

(* What the client has received.                                           *)
LEMMA Wrote2 ==
  ASSUME NEW k, NEW o, NEW g, NEW m, CanWrite(k, g, m),
         Wrote(o, k, m, Len(g)), NEW k2, k2 = Written(k, o),
         NEW g2, g2 = g \o o.out
  PROVE  After(k, o, g, m, k2, g2)
<1>1. /\ k2 \in ConnType /\ k2.n = k.n /\ k2.st = k.st
      /\ k2.flight = k.flight /\ k2.streams = o.ss
      /\ (k2.dead <=> o.dead) /\ k.split \subseteq k2.split
      /\ o.out = <<>> => k2.split = k.split
      /\ o.out # <<>> /\ o.ss # <<>> /\ o.ss[1].type = "IOV" =>
           k.n \in k2.split
  BY Wrote1
<1>2. IsSeq(g) /\ IsSeq(o.out) /\ k.n \in Nat /\ k.n >= 1
  BY DEF CanWrite, Wrote, ConnType
<1>3. /\ Len(g) \in Nat /\ DOMAIN g = 1..Len(g) /\ Len(o.out) \in Nat
  BY <1>2, SeqFacts
<1>4. Joins(g2, g, o.out)
  BY <1>2, Joined
<1>5. /\ IsSeq(g2) /\ Len(g2) = Len(g) + Len(o.out)
      /\ \A i \in 1..Len(g) : g2[i] = g[i]
      /\ \A i \in 1..Len(o.out) : g2[Len(g) + i] = o.out[i]
  BY <1>4 DEF Joins
<1>6. DOMAIN g2 = 1..Len(g2)
  BY <1>5, SeqFacts
<1>7. ASSUME o.out = <<>>
      PROVE  /\ g2 = g /\ Received(g2, m, k2.split)
             /\ \A j \in DOMAIN g2 \ DOMAIN g :
                  j \in 1..Len(m) /\ DateOK(g2[j], m[j])
  <2>1. g2 = g
    BY <1>2, <1>7, AddNothing
  <2> QED BY <1>1, <1>7, <2>1 DEF CanWrite
<1>8. CASE WroteNothing(o, k)
  <2>1. /\ g2 = g /\ o.ss = k.streams /\ (k2.dead <=> k.dead)
        /\ k2.split = k.split /\ o.ret \in {"EMPTY", "BUSY"}
        /\ o.ret = "EMPTY" => k.streams = <<>>
        /\ o.ret = "BUSY" \/ k.streams = <<>>
    BY <1>1, <1>7, <1>8 DEF WroteNothing
  <2>2. o.out = <<>>
    BY <1>8 DEF WroteNothing
  <2>3. ~k2.dead => Pending(k2.streams, m, Len(g2), k2.n)
    BY <1>1, <2>1 DEF CanWrite
  <2>4. Whole(k2) => Whole(k) /\ o.ret = "BUSY" /\ k2.streams = k.streams
    BY <1>1, <2>1 DEF Whole, Alive
  <2> QED BY <1>1, <1>2, <1>5, <1>7, <2>1, <2>2, <2>3, <2>4 DEF After
<1>9. CASE WriteFailed(o, k)
  <2>1. /\ o.out = <<>> /\ o.ret = "ERROR"
        /\ ~k2.dead => ~k.dead /\ k.streams[1].type # "IOV"
    BY <1>1, <1>9 DEF WriteFailed
  <2> QED BY <1>1, <1>2, <1>5, <1>7, <2>1 DEF After
<1>10. CASE WroteSome(o, k, m, Len(g))
  <2>1. PICK B, L : B = Len(g) /\ L = Len(o.out)
    OBVIOUS
  <2>2. /\ ~k.dead /\ ~o.dead /\ k.streams # <<>> /\ L >= 1
        /\ o.ret = IF o.ss = <<>> THEN "DONE" ELSE "FLUSH"
        /\ \A p \in 1..L : CellOK(o.out[p], m[B + p], k.n)
        /\ k.streams[1].type # "IOV" \/ Own(k.streams[1].io, m, B) =>
             OwnBytes(o.out, m, B)
        /\ Pending(o.ss, m, B + L, k.n)
    BY <1>10, <2>1 DEF WroteSome
  <2>3. o.ss \in Seq(StreamType) /\ B + L \in Nat
    BY <1>3, <2>1 DEF Wrote
  <2>4. B + L <= Len(m) /\ Len(m) \in Nat
    BY <2>2, <2>3, PendingLen, SeqFacts DEF CanWrite
  <2>5. o.out # <<>>
    BY <2>1, <2>2, EmptyIs
  <2>6. Received(g, m, k.split) /\ k.st \in {"read", "write"}
    BY DEF CanWrite
  <2>7. ASSUME NEW p \in 1..L
        PROVE  /\ o.out[p][1] = m[B + p][1]
               /\ o.out[p][1] \notin Shared \cup {"date"} =>
                    o.out[p][2] = m[B + p][2]
               /\ o.out[p][1] \in Shared =>
                    \/ o.out[p][2] = m[B + p][2]
                    \/ m[B + p][3] > 1 \/ 1 \in k2.split
               /\ DateOK(o.out[p], m[B + p])
    <3>1. CellOK(o.out[p], m[B + p], k.n)
      BY <2>2
    <3>2. m[B + p][3] = k.n
      BY <3>1 DEF CellOK
    <3>3. CASE k.n > 1
      BY <3>1, <3>2, <3>3 DEF CellOK, DateOK
    <3>4. CASE 1 \in k.split
      BY <1>1, <3>1, <3>4 DEF CellOK, DateOK
    <3>5. CASE ~(k.n > 1) /\ 1 \notin k.split
      <4>1. k.n = 1
        BY <1>2, <3>5
      <4>2. k.streams[1].type = "IOV" => Whole(k)
        BY <2>2, <2>6, <3>5, <4>1 DEF Whole, Alive
      <4>3. k.streams[1].type # "IOV" \/ Own(k.streams[1].io, m, B)
        BY <2>1, <4>2 DEF CanWrite
      <4>4. OwnBytes(o.out, m, B)
        BY <2>2, <4>3
      <4> QED BY <2>1, <3>1, <4>4 DEF CellOK, DateOK, OwnBytes
    <3> QED BY <3>3, <3>4, <3>5
  <2>8. ASSUME NEW j \in 1..Len(g2), j > B
        PROVE  /\ j - B \in 1..L /\ j = B + (j - B)
               /\ g2[j] = o.out[j - B]
    <3>1. j - B \in 1..L /\ j = B + (j - B)
      BY <1>3, <1>5, <2>1, <2>8
    <3> QED BY <1>5, <2>1, <3>1
  <2>9. ASSUME NEW j \in 1..Len(g2)
        PROVE  /\ g2[j][1] = m[j][1]
               /\ g2[j][1] \notin Shared \cup {"date"} => g2[j][2] = m[j][2]
               /\ g2[j][1] \in Shared =>
                    g2[j][2] = m[j][2] \/ m[j][3] > 1 \/ 1 \in k2.split
    <3>1. CASE j > B
      <4>1. PICK p : p = j - B
        OBVIOUS
      <4>2. p \in 1..L /\ j = B + p /\ g2[j] = o.out[p]
        BY <2>8, <3>1, <4>1
      <4> QED BY <2>7, <4>2
    <3>2. CASE ~(j > B)
      <4>1. j \in 1..Len(g)
        BY <1>3, <1>5, <2>1, <3>2
      <4>2. g2[j] = g[j]
        BY <1>5, <4>1
      <4> QED BY <1>1, <2>6, <4>1, <4>2 DEF Received
    <3> QED BY <3>1, <3>2
  <2>10. Received(g2, m, k2.split)
    BY <1>5, <2>1, <2>4, <2>9 DEF Received
  <2>11. ASSUME NEW j \in DOMAIN g2 \ DOMAIN g
         PROVE  j \in 1..Len(m) /\ DateOK(g2[j], m[j])
    <3>1. j \in 1..Len(g2) /\ j > B
      BY <1>3, <1>5, <1>6, <2>1
    <3>2. PICK p : p = j - B
      OBVIOUS
    <3>3. p \in 1..L /\ j = B + p /\ g2[j] = o.out[p]
      BY <2>8, <3>1, <3>2
    <3>4. j \in 1..Len(m)
      BY <1>3, <2>1, <2>4, <3>3
    <3> QED BY <2>7, <3>3, <3>4
  <2>12. ~Whole(k2)
    <3>1. CASE o.ss = <<>>
      BY <1>1, <3>1 DEF Whole
    <3>2. CASE o.ss # <<>>
      BY <1>1, <2>5, <3>2 DEF Whole
    <3> QED BY <3>1, <3>2
  <2>13. Pending(k2.streams, m, Len(g2), k2.n)
    BY <1>1, <1>5, <2>1, <2>2
  <2>14. /\ o.ret \in {"DONE", "FLUSH"} /\ o.ret # "ERROR"
         /\ o.ret \in {"DONE", "EMPTY"} => o.ss = <<>>
    BY <2>2
  <2> QED BY <1>1, <1>2, <1>5, <2>10, <2>11, <2>12, <2>13, <2>14
      DEF After
<1> QED BY <1>8, <1>9, <1>10 DEF Wrote

-----------------------------------------------------------------------------
(* The next answer.                                                        *)

(* The request q is answered on connection k, as answer number i, when the *)
(* client has received g of m; the worker goes on to r.                    *)
Ready(k, q, i, g, m, r, c) ==
  /\ k \in ConnType /\ q \in Request /\ i \in Nat /\ i >= 1
  /\ IsSeq(g) /\ IsSeq(m) /\ k.st \in {"read", "write"}
  /\ i = 1 => g = <<>> /\ k.st = "read" /\ r.c = {c} /\ r.count = 0
                       /\ r.total = 0
  /\ i # 1 => /\ Received(g, m, k.split)
              /\ ~k.dead => Len(g) = Len(m)
  /\ k.st = "read" => r.c = {c}
  /\ r.c = {c} /\ r.at = "loop" => k.st = "read"
  /\ r.c = {c} /\ r.at = "error" => Nudged(q)

(* What Prepare sets.                                                      *)
Queued(k, q, i, m, k2, m2) ==
  /\ k2 = [k EXCEPT !.streams = Streams(Answer(q)), !.n = i]
  /\ m2 = IF i = 1 THEN Meaning(q, i)
          ELSE m \o Meaning(q, i)
  /\ cl' = IF Answer(q).len >= 0 THEN Over(cl, Itop(Answer(q).len)) ELSE cl
  /\ lm' = IF Answer(q).lm > 0 THEN Answer(q).lm ELSE lm

(* The connection with the answer in its queue.                            *)
LEMMA QueuedKeeps ==
  ASSUME NEW k, NEW q, NEW i, NEW g, NEW m, NEW r, NEW c, NEW k2, NEW m2,
         ClockInv, UNCHANGED clock,
         Ready(k, q, i, g, m, r, c), Queued(k, q, i, m, k2, m2)
  PROVE  /\ k2 \in ConnType /\ IsSeq(m2) /\ ConnIs(k2, g, m2, r, c)'
         /\ i # 1 => \A j \in 1..Len(m) : m2[j] = m[j]
<1>1. PICK h : h = Answer(q)
  OBVIOUS
<1>2. PICK M : M = Meaning(q, i)
  OBVIOUS
<1>3. q \in Request /\ i \in Nat /\ k \in ConnType /\ IsSeq(g) /\ IsSeq(m)
  BY DEF Ready
<1>4. AnswerOK(q, h)
  BY <1>1, <1>3, AnswerAgrees
<1>5. IsSeq(M)
  <2>1. PICK es : es = Header(h)
    OBVIOUS
  <2>2. PICK P : P = Ends(es)
    OBVIOUS
  <2>3. MeaningOK(h, i, es, P, M)
    BY <1>2, <1>4, <2>1, <2>2, MeaningIs
  <2> QED BY <2>3 DEF MeaningOK
<1>6. Len(M) \in Nat /\ Len(m) \in Nat /\ Len(g) \in Nat
  BY <1>3, <1>5, SeqFacts
<1>7. PICK B : B = IF i = 1 THEN 0 ELSE Len(m)
  OBVIOUS
<1>8. B \in Nat
  BY <1>6, <1>7
<1>9. i # 1 => Joins(m2, m, M)
  BY <1>1, <1>2, <1>3, <1>5, Joined DEF Queued
<1>10. i = 1 => m2 = M /\ B = 0 /\ g = <<>>
  BY <1>1, <1>2, <1>7 DEF Queued, Ready
<1>11. IsSeq(m2) /\ Follows(m2, B, M)
  <2>1. CASE i = 1
    <3>1. \A p \in 1..Len(M) : 0 + p = p
      BY <1>6
    <3> QED BY <1>5, <1>6, <1>8, <1>10, <2>1, <3>1 DEF Follows
  <2>2. CASE i # 1
    <3>1. Joins(m2, m, M) /\ B = Len(m)
      BY <1>7, <1>9, <2>2
    <3> QED BY <1>8, <3>1 DEF Joins, Follows
  <2> QED BY <2>1, <2>2
<1>12. Prepared(h, Streams(h), m2, B, i)
  BY <1>1, <1>2, <1>3, <1>11, StreamsPrepared
<1>13. PICK ss : ss = Streams(h)
  OBVIOUS
<1>14. /\ ss \in Seq(StreamType) /\ Pending(ss, m2, B, i) /\ ss # <<>>
       /\ ss[1].type = "IOV"
       /\ h.status >= 400 => ss = <<ss[1]>>
  BY <1>12, <1>13 DEF Prepared
<1>15. k2 = [k EXCEPT !.streams = ss, !.n = i]
  BY <1>1, <1>13 DEF Queued
<1>16. /\ k2 \in ConnType /\ k2.streams = ss /\ k2.n = i /\ k2.st = k.st
       /\ k2.split = k.split /\ k2.dead = k.dead
  BY <1>3, <1>14, <1>15 DEF ConnType
<1>17. i # 1 => \A j \in 1..Len(m) : m2[j] = m[j]
  BY <1>9 DEF Joins
<1>18. Received(g, m2, k2.split)
  <2>1. CASE i = 1
    <3>1. Len(g) = 0 /\ Len(m2) \in Nat
      BY <1>6, <1>10, <2>1, EmptyIs
    <3> QED BY <3>1 DEF Received
  <2>2. CASE i # 1
    <3>1. Received(g, m, k.split)
      BY <2>2 DEF Ready
    <3>2. Len(m2) = Len(m) + Len(M) /\ \A j \in 1..Len(m) : m2[j] = m[j]
      BY <1>9, <2>2 DEF Joins
    <3>3. Len(g) <= Len(m) /\ Len(g) <= Len(m2)
      BY <1>6, <3>1, <3>2 DEF Received
    <3>4. \A j \in 1..Len(g) : j \in 1..Len(m)
      BY <1>6, <3>3
    <3> QED BY <1>16, <3>1, <3>2, <3>3, <3>4 DEF Received
  <2> QED BY <2>1, <2>2
<1>19. ~k2.dead => Len(g) = B
  <2>1. CASE i = 1
    BY <1>10, <2>1, EmptyIs
  <2>2. CASE i # 1
    <3>1. ~k.dead => Len(g) = Len(m)
      BY <2>2 DEF Ready
    <3> QED BY <1>7, <1>16, <2>2, <3>1, Zenon
  <2> QED BY <2>1, <2>2
<1>20. Pending(ss, m2, B, i)'
  <2>1. Later
    BY DEF Later, ClockInv
  <2> QED BY <1>14, <2>1, PendingLater
<1>21. Alive(k2) => Pending(k2.streams, m2, Len(g), k2.n)'
  BY <1>16, <1>19, <1>20 DEF Alive
<1>22. i = 1 => Own(ss[1].io, m2, 0)'
  <2>1. SUFFICES ASSUME i = 1 PROVE Own(ss[1].io, m2, 0)'
    OBVIOUS
  <2>2. ASSUME NEW j \in 1..Len(ss[1].io), NEW x \in 1..ss[1].io[j].len
        PROVE  OwnSlot(ss[1].io[j], x,
                       m2[0 + Ends(ss[1].io)[j - 1] + x])'
    <3>1. PICK e, v : /\ e = ss[1].io[j]
                      /\ v = m2[0 + Ends(ss[1].io)[j - 1] + x]
      OBVIOUS
    <3>2. e.at = 0 /\ SlotOf(e, h, x, v, i)
      BY <1>10, <1>12, <1>13, <2>1, <2>2, <3>1 DEF Prepared
    <3>3. ss[1] \in StreamType
      <4>1. 1 \in 1..Len(ss)
        BY <1>14
      <4> QED BY <1>14, <4>1, ElementOfSeq
    <3>4. ss[1].io \in Seq(EntryType)
      BY <3>3 DEF StreamType
    <3>5. e \in EntryType
      BY <3>1, <3>4, ElementOfSeq
    <3>6. x \in Nat /\ e.at + x = x
      <4>1. e.len \in Nat /\ x \in 1..e.len
        BY <3>1, <3>5 DEF EntryType
      <4> QED BY <3>2, <4>1
    <3>7. e.kind = "cl" => cl'[e.at + x] = v[2]
      <4>1. SUFFICES ASSUME e.kind = "cl" PROVE cl'[e.at + x] = v[2]
        OBVIOUS
      <4>2. /\ h.len \in Nat /\ v[2] = Itop(h.len)[x]
            /\ x \in DOMAIN Itop(h.len)
        BY <3>2, <4>1 DEF SlotOf
      <4>3. h.len >= 0
        BY <4>2
      <4>4. cl' = Over(cl, Itop(h.len))
        BY <1>1, <4>3 DEF Queued
      <4>5. Over(cl, Itop(h.len))[x] = Itop(h.len)[x]
        BY <4>2, OverIs
      <4> QED BY <3>6, <4>2, <4>4, <4>5
    <3>8. e.kind = "lm" => lm' = v[2]
      BY <1>1, <3>2 DEF SlotOf, Queued
    <3> QED BY <3>1, <3>7, <3>8 DEF OwnSlot
  <2> QED BY <2>2 DEF Own
<1>23. Whole(k2) =>
         /\ r.c = {c} /\ k2.st = "read" /\ r.count = 0 /\ r.total = 0
         /\ Own(k2.streams[1].io, m2, Len(g))'
  <2>1. SUFFICES ASSUME Whole(k2)
                 PROVE  /\ r.c = {c} /\ k2.st = "read" /\ r.count = 0
                        /\ r.total = 0
                        /\ Own(k2.streams[1].io, m2, Len(g))'
    OBVIOUS
  <2>2. i = 1
    BY <1>16, <2>1 DEF Whole
  <2>3. Len(g) = 0
    BY <1>10, <2>2, EmptyIs
  <2> QED BY <1>16, <1>22, <2>2, <2>3 DEF Ready
<1>24. r.c = {c} /\ r.at = "error" => k2.streams = <<k2.streams[1]>>
                                      /\ k2.streams[1].type = "IOV"
  BY <1>1, <1>14, <1>16 DEF Ready, Nudged
<1>25. ConnIs(k2, g, m2, r, c)'
  <2>1. /\ k2.st = "read" => r.c = {c}
        /\ k2.n >= 1 /\ k2.st \in {"read", "write"}
        /\ r.c = {c} /\ r.at = "loop" => k2.st = "read"
    BY <1>16 DEF Ready
  <2> QED BY <1>18, <1>21, <1>23, <1>24, <2>1 DEF ConnIs
<1> QED BY <1>11, <1>16, <1>17, <1>25

-----------------------------------------------------------------------------
(* The steps.                                                              *)

(* The dates that are new in this step.                                    *)
Dates ==
  \A d \in Conns : \A j \in DOMAIN got'[d] \ DOMAIN got[d] :
    DateOK(got'[d][j], meant'[d][j])

(* A step of the worker sets connection c to k, and what its client has    *)
(* received and is to receive to g and m.                                  *)
Sets(c, k, g, m) ==
  /\ conn' = [conn EXCEPT ![c] = k] /\ got' = [got EXCEPT ![c] = g]
  /\ meant' = [meant EXCEPT ![c] = m]

Move(c, k, g, m, r) ==
  /\ k \in ConnType /\ IsSeq(g) /\ IsSeq(m) /\ Sets(c, k, g, m)
  /\ todo' \in [Conns -> Seq(Seq(Request) \ {<<>>})]
  /\ cur' = r /\ r \in CurType \cup {Idle}
  /\ cur.c \in {{}, {c}} /\ r.c \in {{}, {c}}
  /\ \A j \in DOMAIN g \ DOMAIN got[c] : DateOK(g[j], m[j])
  /\ UNCHANGED clock

(* Such a step keeps the invariant, if it does for c.                      *)
LEMMA MoveKeeps ==
  ASSUME ResponseInv, NEW c \in Conns, NEW k, NEW g, NEW m, NEW r,
         Move(c, k, g, m, r), ConnIs(k, g, m, r, c)'
  PROVE  ResponseInv' /\ Dates
<1>1. /\ conn \in [Conns -> ConnType]
      /\ got = [d \in Conns |-> got[d]] /\ meant = [d \in Conns |-> meant[d]]
      /\ \A d \in Conns : IsSeq(got[d]) /\ IsSeq(meant[d])
  BY DEF ResponseInv, TypeOK
<1>2. /\ conn' = [conn EXCEPT ![c] = k] /\ got' = [got EXCEPT ![c] = g]
      /\ meant' = [meant EXCEPT ![c] = m] /\ k \in ConnType
      /\ IsSeq(g) /\ IsSeq(m)
  BY DEF Move, Sets
<1>3. DOMAIN got = Conns /\ DOMAIN meant = Conns /\ DOMAIN conn = Conns
  BY <1>1
<1>4. conn'[c] = k /\ got'[c] = g /\ meant'[c] = m
  BY <1>2, <1>3
<1>5. \A d \in Conns : d # c => /\ conn'[d] = conn[d] /\ got'[d] = got[d]
                                /\ meant'[d] = meant[d]
  BY <1>2, <1>3
<1>6. TypeOK'
  <2>1. conn' \in [Conns -> ConnType]
    BY <1>1, <1>2
  <2>2. /\ got' = [d \in Conns |-> got'[d]]
        /\ meant' = [d \in Conns |-> meant'[d]]
    BY <1>2, <1>3
  <2>3. \A d \in Conns : IsSeq(got'[d]) /\ IsSeq(meant'[d])
    <3> SUFFICES ASSUME NEW d \in Conns
                 PROVE  IsSeq(got'[d]) /\ IsSeq(meant'[d])
      OBVIOUS
    <3>1. CASE d = c
      BY <1>2, <1>4, <3>1
    <3>2. CASE d # c
      BY <1>1, <1>5, <3>2
    <3> QED BY <3>1, <3>2
  <2>4. /\ todo' \in [Conns -> Seq(Seq(Request) \ {<<>>})]
        /\ cur' \in CurType \cup {Idle}
    BY DEF Move
  <2>5. \A d \in Conns : IsSeq(got[d])' /\ IsSeq(meant[d])'
    BY <2>3 DEF IsSeq
  <2> QED BY <2>1, <2>2, <2>4, <2>5 DEF TypeOK, CurType, Idle
<1>7. Later
  BY DEF Later, Move, ResponseInv, ClockInv
<1>8. ASSUME NEW d \in Conns PROVE ConnOK(d)'
  <2>1. CASE d = c
    BY <1>4, <2>1 DEF ConnOK, Move
  <2>2. CASE d # c
    <3>1. PICK k1, g1, m1, r1 : /\ k1 = conn[d] /\ g1 = got[d]
                                /\ m1 = meant[d] /\ r1 = cur
      OBVIOUS
    <3>2. ConnIs(k1, g1, m1, r1, d)
      BY <3>1 DEF ResponseInv, ConnOK
    <3>3. r1.c # {d} /\ r.c # {d}
      <4>1. cur.c \in {{}, {c}} /\ r.c \in {{}, {c}}
        BY DEF Move
      <4>2. d \notin {} /\ d \notin {c}
        BY <2>2
      <4>3. {d} # {} /\ {d} # {c}
        BY <4>2
      <4> QED BY <3>1, <4>1, <4>3
    <3>4. ConnIs(k1, g1, m1, r, d)'
      BY <1>7, <3>2, <3>3, ConnLater
    <3>5. k1 = conn'[d] /\ g1 = got'[d] /\ m1 = meant'[d] /\ r = cur'
      BY <1>5, <2>2, <3>1 DEF Move
    <3> QED BY <3>4, <3>5 DEF ConnOK
  <2> QED BY <2>1, <2>2
<1>9. ClockInv'
  BY DEF Move, ResponseInv, ClockInv
<1>10. Dates
  <2> SUFFICES ASSUME NEW d \in Conns,
                      NEW j \in DOMAIN got'[d] \ DOMAIN got[d]
               PROVE  DateOK(got'[d][j], meant'[d][j])
    BY DEF Dates
  <2>1. d = c
    BY <1>5
  <2> QED BY <1>4, <2>1 DEF Move
<1> QED BY <1>6, <1>8, <1>9, <1>10 DEF ResponseInv

(* Before and after a write.                                               *)
LEMMA InvWrites ==
  ASSUME ResponseInv, NEW c \in Conns, NEW k, NEW g, NEW m, k = conn[c],
         g = got[c], m = meant[c], k.st \in {"read", "write"},
         k.st = "write" \/ cur.c = {c}, NEW o \in ChannelWrite(k),
         NEW k2, k2 = Written(k, o), NEW g2, g2 = g \o o.out
  PROVE  CanWrite(k, g, m) /\ After(k, o, g, m, k2, g2)
<1>1. k \in ConnType /\ IsSeq(g) /\ IsSeq(m) /\ ClockInv
  BY DEF ResponseInv, TypeOK
<1>2. ConnIs(k, g, m, cur, c)
  BY DEF ResponseInv, ConnOK
<1>3. CanWrite(k, g, m)
  BY <1>1, <1>2 DEF CanWrite, ConnIs, Alive
<1>4. Len(g) \in Nat
  BY <1>1, SeqFacts
<1>5. ~k.dead => Pending(k.streams, m, Len(g), k.n)
  BY <1>3 DEF CanWrite
<1>6. Wrote(o, k, m, Len(g))
  BY <1>1, <1>4, <1>5, Writes
<1> QED BY <1>3, <1>6, Wrote2

(* What is not set is set to what it was.                                  *)
LEMMA SetSame ==
  ASSUME TypeOK, NEW c \in Conns
  PROVE  /\ meant = [meant EXCEPT ![c] = meant[c]]
         /\ got = [got EXCEPT ![c] = got[c]]
BY DEF TypeOK

(* A write after which the answer is not over.                             *)
LEMMA KeepMoves ==
  ASSUME ResponseInv, NEW c \in Conns, NEW o, NEW k2, NEW g2, NEW k3, NEW r,
         After(conn[c], o, got[c], meant[c], k2, g2),
         g2 = got[c] \o o.out, Receive(c, o), Keep(c, k3, r),
         k3 \in ConnType, r \in CurType \cup {Idle},
         cur.c \in {{}, {c}}, r.c \in {{}, {c}}, UNCHANGED <<clock, todo>>
  PROVE  Move(c, k3, g2, meant[c], r)
<1>1. /\ conn' = [conn EXCEPT ![c] = k3] /\ cur' = r /\ meant' = meant
      /\ got' = [got EXCEPT ![c] = got[c] \o o.out]
  BY DEF Keep, Receive, TypeOK, ResponseInv
<1>2. Sets(c, k3, g2, meant[c])
  BY <1>1, SetSame DEF Sets, ResponseInv
<1>3. IsSeq(g2) /\ IsSeq(meant[c])
  BY DEF After, ResponseInv, TypeOK
<1>4. todo' \in [Conns -> Seq(Seq(Request) \ {<<>>})]
  BY DEF ResponseInv, TypeOK
<1>5. \A j \in DOMAIN g2 \ DOMAIN got[c] : DateOK(g2[j], meant[c][j])
  BY DEF After
<1> QED BY <1>1, <1>2, <1>3, <1>4, <1>5 DEF Move

(* The invariant of a connection whose texts nobody wrote to.              *)
LEMMA ConnStays ==
  ASSUME NEW k, NEW g, NEW m, NEW r, NEW c, ConnIs(k, g, m, r, c),
         ClockInv, UNCHANGED clock, UNCHANGED <<cl, lm>>
  PROVE  ConnIs(k, g, m, r, c)'
<1>1. Later
  BY DEF Later, ClockInv
<1> QED BY <1>1, ConnTicks

-----------------------------------------------------------------------------
(* The actions.                                                            *)

(* mk_clock and the worker start.                                          *)
LEMMA InitInv == Init => ResponseInv
<1> SUFFICES ASSUME Init PROVE ResponseInv
  OBVIOUS
<1>1. ClockInv
  BY ClockInitInv
<1>2. NewConn \in ConnType
  <2>1. /\ <<>> \in Seq(StreamType) /\ <<>> \in Seq(Request) /\ 0 \in Nat
        /\ {} \in SUBSET Nat /\ FALSE \in BOOLEAN
    OBVIOUS
  <2> QED BY <2>1 DEF NewConn, ConnType
<1>3. /\ conn = [c \in Conns |-> NewConn] /\ cur = Idle
      /\ got = [c \in Conns |-> <<>>] /\ meant = [c \in Conns |-> <<>>]
      /\ todo \in Clients
  BY DEF Init
<1>4. TypeOK
  <2>1. conn \in [Conns -> ConnType]
    BY <1>2, <1>3
  <2>2. todo \in [Conns -> Seq(Seq(Request) \ {<<>>})]
    BY <1>3, ResponseAssumption
  <2>3. \A c \in Conns : got[c] = <<>> /\ meant[c] = <<>>
    BY <1>3
  <2>4. \A c \in Conns : IsSeq(got[c]) /\ IsSeq(meant[c])
    BY <2>3, EmptyIs
  <2>5. got = [c \in Conns |-> got[c]] /\ meant = [c \in Conns |-> meant[c]]
    BY <1>3
  <2> QED BY <1>3, <2>1, <2>2, <2>4, <2>5 DEF TypeOK
<1>5. ASSUME NEW c \in Conns PROVE ConnOK(c)
  <2>1. PICK k, g, m : k = conn[c] /\ g = got[c] /\ m = meant[c]
    OBVIOUS
  <2>2. k = NewConn /\ g = <<>> /\ m = <<>>
    BY <1>3, <2>1
  <2>3. Len(g) = 0 /\ Len(m) = 0
    BY <2>2, EmptyIs
  <2>4. /\ k.st = "read" /\ k.streams = <<>> /\ ~k.dead
    BY <2>2 DEF NewConn
  <2>5. cur.c # {c}
    BY <1>3 DEF Idle
  <2>6. Received(g, m, k.split)
    BY <2>3 DEF Received
  <2>7. Pending(k.streams, m, Len(g), k.n)
    BY <2>3, <2>4 DEF Pending
  <2>8. ~Whole(k)
    BY <2>4 DEF Whole
  <2>9. ConnIs(k, g, m, cur, c)
    BY <2>4, <2>5, <2>6, <2>7, <2>8 DEF ConnIs
  <2> QED BY <2>1, <2>9 DEF ConnOK
<1> QED BY <1>1, <1>4, <1>5 DEF ResponseInv

(* The clock thread, and a step that changes nothing.                      *)
LEMMA ClockStep ==
  ASSUME ResponseInv, [Next]_vars,
         UNCHANGED <<cl, lm, conn, cur, todo, got, meant>>,
         Format \/ Publish \/ UNCHANGED clock
  PROVE  ResponseInv' /\ Dates
<1>1. ClockInv'
  BY ClockNextInv DEF ResponseInv
<1>2. Later
  <2>1. clock.now \in Nat /\ clock'.now \in Nat
    BY <1>1 DEF ResponseInv, ClockInv
  <2>2. clock'.now = clock.now \/ clock'.now = clock.now + 1
    BY DEF Format, Publish, ResponseInv, ClockInv
  <2> QED BY <2>1, <2>2 DEF Later
<1>3. TypeOK'
  BY DEF ResponseInv, TypeOK, CurType, Idle
<1>4. ASSUME NEW c \in Conns PROVE ConnOK(c)'
  <2>1. PICK k, g, m, r : /\ k = conn[c] /\ g = got[c] /\ m = meant[c]
                          /\ r = cur
    OBVIOUS
  <2>2. ConnIs(k, g, m, r, c)
    BY <2>1 DEF ResponseInv, ConnOK
  <2>3. ConnIs(k, g, m, r, c)'
    BY <1>2, <2>2, ConnTicks
  <2>4. k = conn'[c] /\ g = got'[c] /\ m = meant'[c] /\ r = cur'
    BY <2>1
  <2> QED BY <2>3, <2>4 DEF ConnOK
<1>5. Dates
  BY DEF Dates
<1> QED BY <1>1, <1>3, <1>4, <1>5 DEF ResponseInv

(* The worker goes to a connection.                                        *)
LEMMA GoesTo ==
  ASSUME NEW c \in Conns, NEW a \in {"error", "loop"}, NEW r,
         r = [Idle EXCEPT !.c = {c}, !.at = a]
  PROVE  /\ r \in CurType /\ r.c = {c} /\ r.at = a
         /\ r.count = 0 /\ r.total = 0
BY DEF Idle, CurType

(* It goes back to epoll.                                                  *)
LEMMA IdleIs ==
  ASSUME NEW c
  PROVE  Idle.c = {} /\ Idle.c # {c} /\ Idle.at = "epoll"
BY DEF Idle

(* mk_http_sched_read.                                                     *)
LEMMA ArriveKeeps ==
  ASSUME ResponseInv, NEW c \in Conns, Arrive(c)
  PROVE  ResponseInv' /\ Dates
<1>1. PICK k0, f, q, fl, r, a, g, m :
        /\ k0 = conn[c] /\ f = Head(todo[c]) /\ q = Head(f) /\ fl = Tail(f)
        /\ r = [Idle EXCEPT !.c = {c}, !.at = a]
        /\ a = (IF Nudged(q) THEN "error" ELSE "loop")
        /\ g = <<>> /\ m = meant[c]
  OBVIOUS
<1>2. PICK k : k = [k0 EXCEPT !.flight = fl, !.split = {}]
  OBVIOUS
<1>3. PICK k2, m2 :
        /\ k2 = [k EXCEPT !.streams = Streams(Answer(q)), !.n = 1]
        /\ m2 = Meaning(q, 1)
  OBVIOUS
<1>4. /\ k0 \in ConnType /\ IsSeq(m)
      /\ todo \in [Conns -> Seq(Seq(Request) \ {<<>>})] /\ ClockInv
  BY <1>1 DEF ResponseInv, TypeOK
<1>5. /\ todo[c] # <<>> /\ cur = Idle /\ k0.st = "read" /\ ~k0.dead
      /\ Prepare(c, k, q, 1) /\ cur' = r
      /\ todo' = [todo EXCEPT ![c] = Tail(todo[c])]
      /\ got' = [got EXCEPT ![c] = <<>>] /\ UNCHANGED clock
  BY <1>1, <1>2, <1>4 DEF Arrive
<1>6. /\ f \in Seq(Request) /\ f # <<>>
      /\ Tail(todo[c]) \in Seq(Seq(Request) \ {<<>>})
  <2>1. PICK T, S : S = Seq(Request) \ {<<>>} /\ T = todo[c]
    OBVIOUS
  <2>2. T \in Seq(S) /\ T # <<>>
    BY <1>4, <1>5, <2>1
  <2>3. Head(T) \in S /\ Tail(T) \in Seq(S)
    BY <2>2
  <2> QED BY <1>1, <2>1, <2>3
<1>7. q \in Request /\ fl \in Seq(Request)
  BY <1>1, <1>6
<1>8. k \in ConnType /\ k.st = "read"
  BY <1>2, <1>4, <1>5, <1>7 DEF ConnType
<1>9. /\ r \in CurType /\ r.c = {c} /\ r.at = a
      /\ r.count = 0 /\ r.total = 0 /\ a \in {"error", "loop"}
  BY <1>1, GoesTo
<1>10. Ready(k, q, 1, g, m, r, c)
  <2>1. IsSeq(g)
    BY <1>1, EmptyIs
  <2>2. r.at = "error" => Nudged(q)
    BY <1>1, <1>9
  <2> QED BY <1>1, <1>4, <1>7, <1>8, <1>9, <2>1, <2>2 DEF Ready
<1>11. Queued(k, q, 1, m, k2, m2)
  BY <1>3, <1>5 DEF Queued, Prepare
<1>12. k2 \in ConnType /\ IsSeq(m2) /\ ConnIs(k2, g, m2, r, c)'
  BY <1>4, <1>5, <1>10, <1>11, QueuedKeeps
<1>13. Sets(c, k2, g, m2)
  BY <1>1, <1>3, <1>5 DEF Sets, Prepare
<1>14. todo' \in [Conns -> Seq(Seq(Request) \ {<<>>})]
  BY <1>4, <1>5, <1>6
<1>15. \A j \in DOMAIN g \ DOMAIN got[c] : DateOK(g[j], m2[j])
  <2>1. DOMAIN g = {}
    BY <1>1
  <2> QED BY <2>1
<1>16. cur.c \in {{}, {c}} /\ r.c \in {{}, {c}} /\ IsSeq(g)
  BY <1>1, <1>5, <1>9, IdleIs, EmptyIs
<1>17. Move(c, k2, g, m2, r)
  BY <1>5, <1>9, <1>12, <1>13, <1>14, <1>15, <1>16 DEF Move
<1> QED BY <1>12, <1>17, MoveKeeps

(* Nothing is queued.                                                      *)
LEMMA PendingNone ==
  ASSUME NEW ss, ss = <<>>, NEW m, NEW B, NEW n, Pending(ss, m, B, n)
  PROVE  Len(m) = B
<1>1. ss # <<ss[1]>> /\ ss # <<ss[1], ss[2]>>
  <2>1. \A a : ss # <<a>>
    OBVIOUS
  <2>2. \A a, b : ss # <<a, b>>
    OBVIOUS
  <2> QED BY <2>1, <2>2, Zenon
<1> QED BY <1>1 DEF Pending

(* cb_done.                                                                *)
LEMMA DoneKeeps ==
  ASSUME ResponseInv, NEW c \in Conns, NEW o, NEW k2, NEW g2,
         After(conn[c], o, got[c], meant[c], k2, g2),
         g2 = got[c] \o o.out, Receive(c, o), Done(c, k2),
         o.ret \in {"DONE", "EMPTY"}, conn[c].n >= 1,
         cur.c \in {{}, {c}}, UNCHANGED <<clock, todo>>
  PROVE  ResponseInv' /\ Dates
<1>1. PICK m : m = meant[c]
  OBVIOUS
<1>2. /\ k2 \in ConnType /\ IsSeq(g2) /\ k2.n >= 1 /\ k2.streams = <<>>
      /\ Received(g2, m, k2.split)
      /\ ~k2.dead => Pending(k2.streams, m, Len(g2), k2.n)
      /\ \A j \in DOMAIN g2 \ DOMAIN got[c] :
           j \in 1..Len(m) /\ DateOK(g2[j], m[j])
  BY <1>1 DEF After
<1>3. ClockInv /\ TypeOK /\ IsSeq(m) /\ UNCHANGED clock
  BY <1>1 DEF ResponseInv, TypeOK
<1>4. /\ Idle \in CurType \cup {Idle} /\ Idle.c \in {{}, {c}}
      /\ Idle.c # {c}
  BY IdleIs
<1>5. CASE k2.flight = <<>>
  <2>1. PICK k3 : k3 = [k2 EXCEPT !.st = "read"]
    OBVIOUS
  <2>2. Keep(c, k3, Idle)
    BY <1>5, <2>1 DEF Done, Keep
  <2>3. /\ k3 \in ConnType /\ k3.st = "read" /\ k3.streams = <<>>
        /\ k3.split = k2.split /\ k3.n = k2.n /\ k3.dead = k2.dead
    BY <1>2, <2>1 DEF ConnType
  <2>4. ~k3.dead => Pending(k3.streams, m, Len(g2), k3.n)
    BY <1>2, <2>3
  <2>5. ConnIs(k3, g2, m, Idle, c)
    BY <1>2, <1>4, <2>3, <2>4 DEF ConnIs, Alive, Whole
  <2>6. ConnIs(k3, g2, m, Idle, c)'
    BY <1>3, <2>2, <2>5, ConnStays DEF Keep
  <2>7. Move(c, k3, g2, m, Idle)
    BY <1>1, <1>4, <2>2, <2>3, KeepMoves
  <2> QED BY <2>6, <2>7, MoveKeeps
<1>6. CASE k2.flight # <<>>
  <2>1. PICK q, fl, i, r : /\ q = Head(k2.flight) /\ fl = Tail(k2.flight)
                           /\ i = k2.n + 1
                           /\ r = IF Nudged(q)
                                  THEN [Idle EXCEPT !.c = {c}, !.at = "error"]
                                  ELSE Idle
    OBVIOUS
  <2>2. PICK k : k = [k2 EXCEPT !.st = "write", !.flight = fl]
    OBVIOUS
  <2>3. PICK k3, m2 :
          /\ k3 = [k EXCEPT !.streams = Streams(Answer(q)), !.n = i]
          /\ m2 = m \o Meaning(q, i)
    OBVIOUS
  <2>4. q \in Request /\ fl \in Seq(Request) /\ k2.n \in Nat
    BY <1>2, <1>6, <2>1 DEF ConnType
  <2>5. i \in Nat /\ i # 1 /\ i >= 1
    BY <1>2, <2>1, <2>4
  <2>6. /\ k \in ConnType /\ k.st = "write" /\ k.split = k2.split
        /\ k.dead = k2.dead
    BY <1>2, <2>2, <2>4 DEF ConnType
  <2>7. Prepare(c, k, q, i) /\ cur' = r
    <3>1. k = [k2 EXCEPT !.st = "write", !.flight = Tail(@)]
      BY <2>1, <2>2
    <3> QED BY <1>6, <2>1, <3>1 DEF Done
  <2>8. ~k.dead => Len(g2) = Len(m)
    <3>1. ~k2.dead => Len(g2) = Len(m)
      BY <1>2, PendingNone
    <3> QED BY <2>6, <3>1, Zenon
  <2>9. /\ r \in CurType \cup {Idle} /\ r.c \in {{}, {c}}
        /\ r.c = {c} => Nudged(q) /\ r.at = "error"
    <3>1. CASE Nudged(q)
      BY <2>1, <3>1, GoesTo
    <3>2. CASE ~Nudged(q)
      BY <1>4, <2>1, <3>2
    <3> QED BY <3>1, <3>2
  <2>10. Ready(k, q, i, g2, m, r, c)
    BY <1>2, <1>3, <2>4, <2>5, <2>6, <2>8, <2>9 DEF Ready
  <2>11. Queued(k, q, i, m, k3, m2)
    BY <2>3, <2>5, <2>7 DEF Queued, Prepare
  <2>12. /\ k3 \in ConnType /\ IsSeq(m2) /\ ConnIs(k3, g2, m2, r, c)'
         /\ \A j \in 1..Len(m) : m2[j] = m[j]
    BY <1>3, <2>5, <2>10, <2>11, QueuedKeeps
  <2>13. Sets(c, k3, g2, m2)
    <3>1. conn' = [conn EXCEPT ![c] = k3]
      BY <2>3, <2>7 DEF Prepare
    <3>2. meant' = [meant EXCEPT ![c] = m2]
      BY <1>1, <1>3, <2>3, <2>5, <2>7 DEF Prepare, TypeOK
    <3>3. got' = [got EXCEPT ![c] = g2]
      BY <1>3 DEF Receive, TypeOK
    <3> QED BY <3>1, <3>2, <3>3 DEF Sets
  <2>14. todo' \in [Conns -> Seq(Seq(Request) \ {<<>>})]
    BY <1>3 DEF TypeOK
  <2>15. \A j \in DOMAIN g2 \ DOMAIN got[c] : DateOK(g2[j], m2[j])
    <3> SUFFICES ASSUME NEW j \in DOMAIN g2 \ DOMAIN got[c]
                 PROVE  DateOK(g2[j], m2[j])
      OBVIOUS
    <3>1. DateOK(g2[j], m[j]) /\ m2[j] = m[j]
      BY <1>2, <2>12
    <3> QED BY <3>1
  <2>16. Move(c, k3, g2, m2, r)
    BY <1>2, <2>7, <2>9, <2>12, <2>13, <2>14, <2>15 DEF Move
  <2> QED BY <2>12, <2>16, MoveKeeps
<1> QED BY <1>5, <1>6

(* The connection is closed.                                               *)
LEMMA ClosedKeeps ==
  ASSUME ResponseInv, NEW c \in Conns, cur = Idle, Closed(c), UNCHANGED clock
  PROVE  ResponseInv' /\ Dates
<1>1. PICK k, g : k = [NewConn EXCEPT !.st = "closed"] /\ g = <<>>
  OBVIOUS
<1>2. /\ k \in ConnType /\ k.st = "closed"
  <2>1. /\ <<>> \in Seq(StreamType) /\ <<>> \in Seq(Request) /\ 0 \in Nat
        /\ {} \in SUBSET Nat /\ FALSE \in BOOLEAN
    OBVIOUS
  <2> QED BY <1>1, <2>1 DEF NewConn, ConnType
<1>3. IsSeq(g) /\ Len(g) = 0
  BY <1>1, EmptyIs
<1>4. Idle.c = {} /\ Idle.c # {c}
  BY IdleIs
<1>5. Received(g, g, k.split)
  BY <1>3 DEF Received
<1>6. ConnIs(k, g, g, Idle, c)
  BY <1>2, <1>4, <1>5 DEF ConnIs, Alive, Whole
<1>7. ConnIs(k, g, g, Idle, c)'
  BY <1>6, ConnStays DEF ResponseInv, Closed
<1>8. todo' \in [Conns -> Seq(Seq(Request) \ {<<>>})]
  <2>1. todo \in [Conns -> Seq(Seq(Request) \ {<<>>})]
    BY DEF ResponseInv, TypeOK
  <2>2. <<>> \in Seq(Seq(Request) \ {<<>>})
    OBVIOUS
  <2> QED BY <2>1, <2>2 DEF Closed
<1>9. Sets(c, k, g, g) /\ cur' = Idle
  BY <1>1 DEF Closed, Sets
<1>10. \A j \in DOMAIN g \ DOMAIN got[c] : DateOK(g[j], g[j])
  <2>1. DOMAIN g = {}
    BY <1>1
  <2> QED BY <2>1
<1>11. Move(c, k, g, g, Idle)
  BY <1>2, <1>3, <1>4, <1>8, <1>9, <1>10 DEF Move
<1> QED BY <1>7, <1>11, MoveKeeps

(* What the worker may find at the connection it is with.                  *)
LEMMA WorkerAt ==
  ASSUME ResponseInv, NEW c \in Conns, cur.c = {c}, NEW k, k = conn[c]
  PROVE  /\ cur \in CurType /\ k \in ConnType /\ k.n >= 1
         /\ k.st \in {"read", "write"}
         /\ cur.at = "loop" => k.st = "read"
         /\ cur.at = "error" /\ ~k.dead => k.streams[1].type = "IOV"
         /\ Whole(k) =>
              /\ k.st = "read" /\ cur.count = 0 /\ cur.total = 0
              /\ Own(k.streams[1].io, meant[c], Len(got[c]))
<1>1. cur \in CurType /\ k \in ConnType
  BY IdleIs DEF ResponseInv, TypeOK
<1>2. ConnIs(k, got[c], meant[c], cur, c)
  BY DEF ResponseInv, ConnOK
<1> QED BY <1>1, <1>2 DEF ConnIs

(* The write in mk_http_error.                                             *)
LEMMA ErrorWriteKeeps ==
  ASSUME ResponseInv, NEW c \in Conns, ErrorWrite(c)
  PROVE  ResponseInv' /\ Dates
<1>1. PICK k, g, m : k = conn[c] /\ g = got[c] /\ m = meant[c]
  OBVIOUS
<1>2. PICK r : r = IF k.st = "read" THEN [cur EXCEPT !.at = "loop"] ELSE Idle
  OBVIOUS
<1>3. PICK o \in ChannelWrite(k) :
        Receive(c, o) /\ Keep(c, Written(k, o), r)
  BY <1>1, <1>2 DEF ErrorWrite
<1>4. PICK k2, g2 : k2 = Written(k, o) /\ g2 = g \o o.out
  OBVIOUS
<1>5. cur.at = "error" /\ cur.c = {c} /\ UNCHANGED <<clock, todo>>
  BY DEF ErrorWrite
<1>6. /\ cur \in CurType /\ k \in ConnType /\ k.n >= 1
      /\ k.st \in {"read", "write"}
      /\ ~k.dead => k.streams[1].type = "IOV"
      /\ Whole(k) =>
           /\ k.st = "read" /\ cur.count = 0 /\ cur.total = 0
           /\ Own(k.streams[1].io, m, Len(g))
  BY <1>1, <1>5, WorkerAt
<1>7. After(k, o, g, m, k2, g2)
  BY <1>1, <1>3, <1>4, <1>5, <1>6, InvWrites
<1>8. /\ k2 \in ConnType /\ k2.n = k.n /\ k2.st = k.st
      /\ Received(g2, m, k2.split)
      /\ o.ret # "ERROR" /\ ~k2.dead => Pending(k2.streams, m, Len(g2), k2.n)
      /\ o.ret # "ERROR" /\ Whole(k2) =>
           Whole(k) /\ k2.streams = k.streams /\ g2 = g
      /\ o.ret = "ERROR" /\ ~k2.dead => ~k.dead /\ k.streams[1].type # "IOV"
  BY <1>7 DEF After
<1>9. ~k2.dead => o.ret # "ERROR"
  BY <1>6, <1>8
<1>10. /\ k.st = "read" => /\ r \in CurType /\ r.c = {c} /\ r.at = "loop"
                           /\ r.count = cur.count /\ r.total = cur.total
       /\ k.st # "read" => r = Idle /\ r.c = {} /\ r.c # {c}
  <2>1. CASE k.st = "read"
    BY <1>2, <1>5, <1>6, <2>1 DEF CurType
  <2>2. CASE k.st # "read"
    BY <1>2, <2>2, IdleIs
  <2> QED BY <2>1, <2>2
<1>11. ConnIs(k2, g2, m, r, c)
  <2>1. Alive(k2) => Pending(k2.streams, m, Len(g2), k2.n)
    BY <1>8, <1>9 DEF Alive
  <2>2. Whole(k2) =>
          /\ r.c = {c} /\ k2.st = "read" /\ r.count = 0 /\ r.total = 0
          /\ Own(k2.streams[1].io, m, Len(g2))
    <3>1. SUFFICES ASSUME Whole(k2)
                   PROVE  /\ r.c = {c} /\ k2.st = "read" /\ r.count = 0
                          /\ r.total = 0
                          /\ Own(k2.streams[1].io, m, Len(g2))
      OBVIOUS
    <3>2. o.ret # "ERROR"
      BY <1>9, <3>1 DEF Whole, Alive
    <3>3. Whole(k) /\ k2.streams = k.streams /\ g2 = g
      BY <1>8, <3>1, <3>2
    <3> QED BY <1>6, <1>8, <1>10, <3>3
  <2> QED BY <1>6, <1>8, <1>10, <2>1, <2>2 DEF ConnIs
<1>12. Keep(c, k2, r)
  BY <1>3, <1>4
<1>13. ConnIs(k2, g2, m, r, c)'
  BY <1>5, <1>11, <1>12, ConnStays DEF Keep, ResponseInv
<1>14. /\ r \in CurType \cup {Idle} /\ r.c \in {{}, {c}}
       /\ cur.c \in {{}, {c}}
  BY <1>5, <1>10
<1>15. Move(c, k2, g2, m, r)
  BY <1>1, <1>3, <1>4, <1>5, <1>7, <1>8, <1>12, <1>14, KeepMoves
<1> QED BY <1>13, <1>15, MoveKeeps

(* The loop of mk_sched_event_read.                                        *)
LEMMA ReadFlushKeeps ==
  ASSUME ResponseInv, NEW c \in Conns, ReadFlush(c)
  PROVE  ResponseInv' /\ Dates
<1>1. PICK k, g, m : k = conn[c] /\ g = got[c] /\ m = meant[c]
  OBVIOUS
<1>2. PICK o, k2 :
        /\ o \in ChannelWrite(k) /\ k2 = Written(k, o) /\ Receive(c, o)
        /\ \/ /\ Again(o)
              /\ Keep(c, k2, [cur EXCEPT !.count = Count(o),
                                         !.total = @ + Count(o)])
           \/ /\ ~Again(o) /\ o.ret \in {"FLUSH", "BUSY"}
              /\ Keep(c, [k2 EXCEPT !.st = "write"], Idle)
           \/ o.ret = "DONE" /\ Done(c, k2)
           \/ /\ o.ret \in {"EMPTY", "ERROR"}
              /\ Keep(c, [k2 EXCEPT !.st = "stuck"], Idle)
  BY <1>1 DEF ReadFlush
<1>3. PICK g2 : g2 = g \o o.out
  OBVIOUS
<1>4. /\ cur.at = "loop" /\ cur.c = {c} /\ UNCHANGED <<clock, todo>>
      /\ cur.c \in {{}, {c}}
  BY DEF ReadFlush
<1>5. /\ cur \in CurType /\ k \in ConnType /\ k.n >= 1 /\ k.st = "read"
      /\ Whole(k) =>
           /\ cur.count = 0 /\ cur.total = 0
           /\ Own(k.streams[1].io, m, Len(g))
  BY <1>1, <1>4, WorkerAt
<1>6. After(k, o, g, m, k2, g2)
  BY <1>1, <1>2, <1>3, <1>4, <1>5, InvWrites
<1>7. /\ k2 \in ConnType /\ k2.n = k.n /\ k2.st = "read" /\ IsSeq(o.out)
      /\ Received(g2, m, k2.split)
      /\ o.ret # "ERROR" /\ ~k2.dead => Pending(k2.streams, m, Len(g2), k2.n)
      /\ o.ret # "ERROR" /\ Whole(k2) =>
           /\ Whole(k) /\ o.out = <<>> /\ o.ret = "BUSY"
           /\ k2.streams = k.streams /\ g2 = g
  BY <1>5, <1>6 DEF After
<1>8. PICK n : n = Count(o)
  OBVIOUS
<1>9. n \in Nat /\ cur.total \in Nat
  BY <1>5, <1>7, <1>8, SeqFacts DEF Count, CurType
<1>10. o.ret # "ERROR" /\ Whole(k2) => n = 0 /\ cur.total = 0
  BY <1>5, <1>7, <1>8 DEF Count
<1>11. ClockInv /\ UNCHANGED clock
  BY <1>4 DEF ResponseInv
<1>12. Idle \in CurType \cup {Idle} /\ Idle.c \in {{}, {c}} /\ Idle.c # {c}
  BY IdleIs
<1>13. ASSUME Again(o), Keep(c, k2, [cur EXCEPT !.count = Count(o),
                                                !.total = @ + Count(o)])
       PROVE  ResponseInv' /\ Dates
  <2>1. PICK r : r = [cur EXCEPT !.count = n, !.total = cur.total + n]
    OBVIOUS
  <2>2. Keep(c, k2, r)
    BY <1>5, <1>8, <1>13, <2>1
  <2>3. /\ r \in CurType /\ r.c = {c} /\ r.at = "loop" /\ r.count = n
        /\ r.total = cur.total + n
    <3>1. cur.total + n \in Nat
      BY <1>9
    <3>2. PICK t : t = cur.total + n
      OBVIOUS
    <3>3. r = [cur EXCEPT !.count = n, !.total = t] /\ t \in Nat
      BY <2>1, <3>1, <3>2
    <3>4. /\ r \in CurType /\ r.c = cur.c /\ r.at = cur.at /\ r.count = n
          /\ r.total = t
      BY <1>5, <1>9, <3>3 DEF CurType
    <3> QED BY <1>4, <3>2, <3>4
  <2>4. o.ret # "ERROR"
    BY <1>13 DEF Again
  <2>5. Whole(k2) =>
          /\ r.c = {c} /\ k2.st = "read" /\ r.count = 0 /\ r.total = 0
          /\ Own(k2.streams[1].io, m, Len(g2))
    <3>1. SUFFICES ASSUME Whole(k2)
                   PROVE  /\ r.count = 0 /\ r.total = 0
                          /\ Own(k2.streams[1].io, m, Len(g2))
      BY <1>7, <2>3
    <3>2. Whole(k) /\ k2.streams = k.streams /\ g2 = g
      BY <1>7, <2>4, <3>1
    <3>3. r.count = 0 /\ r.total = 0
      BY <1>10, <2>3, <2>4, <3>1
    <3> QED BY <1>5, <3>2, <3>3
  <2>6. ConnIs(k2, g2, m, r, c)
    BY <1>5, <1>7, <2>3, <2>4, <2>5 DEF ConnIs, Alive
  <2>7. ConnIs(k2, g2, m, r, c)'
    BY <1>11, <2>2, <2>6, ConnStays DEF Keep
  <2>8. r \in CurType \cup {Idle} /\ r.c \in {{}, {c}}
    BY <2>3
  <2>9. Move(c, k2, g2, m, r)
    BY <1>1, <1>2, <1>3, <1>4, <1>6, <1>7, <2>2, <2>8, KeepMoves
  <2> QED BY <2>7, <2>9, MoveKeeps
<1>14. ASSUME NEW s \in {"write", "stuck"}, NEW k3, k3 = [k2 EXCEPT !.st = s],
              Keep(c, k3, Idle), s = "write" => ~Again(o),
              s = "write" => o.ret \in {"FLUSH", "BUSY"}
       PROVE  ResponseInv' /\ Dates
  <2>1. /\ k3 \in ConnType /\ k3.st = s /\ k3.streams = k2.streams
        /\ k3.split = k2.split /\ k3.n = k2.n /\ (k3.dead <=> k2.dead)
    <3>1. /\ k3 \in ConnType /\ k3.st = s /\ k3.streams = k2.streams
          /\ k3.split = k2.split /\ k3.n = k2.n /\ k3.dead = k2.dead
      BY <1>7, <1>14 DEF ConnType
    <3> QED BY <3>1, Zenon
  <2>2. ~Whole(k3)
    <3>1. SUFFICES ASSUME Whole(k3) PROVE FALSE
      OBVIOUS
    <3>2. s = "write" /\ Whole(k2)
      BY <1>7, <2>1, <3>1 DEF Whole, Alive
    <3>3. o.ret = "BUSY" /\ n = 0 /\ cur.total = 0
      BY <1>7, <1>10, <1>14, <3>2
    <3>4. cur.total + Count(o) <= PAGE
      BY <1>8, <3>3, ResponseAssumption
    <3>5. Again(o)
      BY <3>3, <3>4 DEF Again
    <3> QED BY <1>14, <3>2, <3>5
  <2>3. Alive(k3) => Pending(k3.streams, m, Len(g2), k3.n)
    BY <1>7, <1>14, <2>1 DEF Alive
  <2>4. ConnIs(k3, g2, m, Idle, c)
    BY <1>5, <1>7, <1>12, <2>1, <2>2, <2>3 DEF ConnIs
  <2>5. ConnIs(k3, g2, m, Idle, c)'
    BY <1>11, <1>14, <2>4, ConnStays DEF Keep
  <2>6. Move(c, k3, g2, m, Idle)
    BY <1>1, <1>2, <1>3, <1>4, <1>6, <1>12, <1>14, <2>1, KeepMoves
  <2> QED BY <2>5, <2>6, MoveKeeps
<1>15. ASSUME o.ret = "DONE", Done(c, k2) PROVE ResponseInv' /\ Dates
  BY <1>1, <1>2, <1>3, <1>4, <1>5, <1>6, <1>15, DoneKeeps
<1> QED BY <1>2, <1>13, <1>14, <1>15

(* mk_sched_event_write.                                                   *)
LEMMA EventWriteKeeps ==
  ASSUME ResponseInv, NEW c \in Conns, EventWrite(c)
  PROVE  ResponseInv' /\ Dates
<1>1. PICK k, g, m : k = conn[c] /\ g = got[c] /\ m = meant[c]
  OBVIOUS
<1>2. PICK o, k2 :
        /\ o \in ChannelWrite(k) /\ k2 = Written(k, o)
        /\ \/ /\ o.ret = "ERROR" /\ Closed(c)
           \/ /\ o.ret # "ERROR" /\ Receive(c, o) /\ UNCHANGED todo
              /\ \/ o.ret \in {"FLUSH", "BUSY"} /\ Keep(c, k2, Idle)
                 \/ o.ret \in {"DONE", "EMPTY"} /\ Done(c, k2)
  BY <1>1 DEF EventWrite
<1>3. cur = Idle /\ k.st = "write" /\ UNCHANGED clock
  BY <1>1 DEF EventWrite
<1>4. CASE o.ret = "ERROR" /\ Closed(c)
  BY <1>3, <1>4, ClosedKeeps
<1>5. ASSUME o.ret # "ERROR", Receive(c, o), UNCHANGED todo,
             \/ o.ret \in {"FLUSH", "BUSY"} /\ Keep(c, k2, Idle)
             \/ o.ret \in {"DONE", "EMPTY"} /\ Done(c, k2)
      PROVE  ResponseInv' /\ Dates
  <2>1. PICK g2 : g2 = g \o o.out
    OBVIOUS
  <2>2. After(k, o, g, m, k2, g2)
    BY <1>1, <1>2, <1>3, <2>1, InvWrites
  <2>3. k.n >= 1 /\ ~Whole(k) /\ ClockInv
    <3>1. ConnIs(k, g, m, cur, c)
      BY <1>1 DEF ResponseInv, ConnOK
    <3> QED BY <1>3, <3>1 DEF ConnIs, ResponseInv
  <2>4. Idle \in CurType \cup {Idle} /\ Idle.c \in {{}, {c}} /\ Idle.c # {c}
    BY IdleIs
  <2>5. cur.c \in {{}, {c}} /\ UNCHANGED <<clock, todo>>
    BY <1>3, <1>5, <2>4
  <2>6. CASE o.ret \in {"DONE", "EMPTY"} /\ Done(c, k2)
    BY <1>1, <1>5, <2>1, <2>2, <2>3, <2>5, <2>6, DoneKeeps
  <2>7. CASE Keep(c, k2, Idle)
    <3>1. /\ k2 \in ConnType /\ k2.n = k.n /\ k2.st = "write"
          /\ Received(g2, m, k2.split) /\ ~Whole(k2)
          /\ ~k2.dead => Pending(k2.streams, m, Len(g2), k2.n)
      BY <1>3, <1>5, <2>2, <2>3 DEF After
    <3>2. ConnIs(k2, g2, m, Idle, c)
      BY <2>3, <2>4, <3>1 DEF ConnIs, Alive
    <3>3. ConnIs(k2, g2, m, Idle, c)'
      BY <1>3, <2>3, <2>7, <3>2, ConnStays DEF Keep
    <3>4. Move(c, k2, g2, m, Idle)
      BY <1>1, <1>5, <2>1, <2>2, <2>4, <2>5, <2>7, <3>1, KeepMoves
    <3> QED BY <3>3, <3>4, MoveKeeps
  <2> QED BY <1>5, <2>6, <2>7
<1> QED BY <1>2, <1>4, <1>5

(* Every step keeps the invariant, and the dates it sends are right.       *)
LEMMA NextInv == ResponseInv /\ [Next]_vars => ResponseInv' /\ Dates
<1> SUFFICES ASSUME ResponseInv, [Next]_vars PROVE ResponseInv' /\ Dates
  OBVIOUS
<1>1. CASE Format
  BY <1>1, ClockStep DEF Format
<1>2. CASE Publish
  BY <1>2, ClockStep DEF Publish
<1>3. ASSUME NEW c \in Conns, Arrive(c) PROVE ResponseInv' /\ Dates
  BY <1>3, ArriveKeeps
<1>4. ASSUME NEW c \in Conns, ErrorWrite(c) PROVE ResponseInv' /\ Dates
  BY <1>4, ErrorWriteKeeps
<1>5. ASSUME NEW c \in Conns, ReadFlush(c) PROVE ResponseInv' /\ Dates
  BY <1>5, ReadFlushKeeps
<1>6. ASSUME NEW c \in Conns, EventWrite(c) PROVE ResponseInv' /\ Dates
  BY <1>6, EventWriteKeeps
<1>7. ASSUME NEW c \in Conns, SchedClose(c) PROVE ResponseInv' /\ Dates
  BY <1>7, ClosedKeeps DEF SchedClose
<1>8. CASE UNCHANGED vars
  BY <1>8, ClockStep DEF vars
<1> QED BY <1>1, <1>2, <1>3, <1>4, <1>5, <1>6, <1>7, <1>8 DEF Next

(* The invariant holds in every state: what is queued in a channel is, at  *)
(* every moment, what the client has not received of the answers it is to  *)
(* receive, and the shared buffers hold the texts of a first header that   *)
(* no write has begun.                                                     *)
THEOREM ResponseInvariant == Spec => []ResponseInv
<1>1. Init => ResponseInv
  BY InitInv
<1>2. ResponseInv /\ [Next]_vars => ResponseInv'
  BY NextInv
<1> QED BY <1>1, <1>2, PTL DEF Spec

(* The client can take the answers apart, whatever pieces the channel      *)
(* writes them in: bytes_total, content_length, ranges[] and what          *)
(* mk_iov_consume leaves agree for every size of file and every range, and *)
(* every answer has been sent in full when the worker waits for the next   *)
(* flight of a living client.                                              *)
THEOREM FramingAlwaysKept == Spec => []FramingKept
<1>1. ResponseInv => FramingKept
  <2> SUFFICES ASSUME ResponseInv, NEW c \in Conns
               PROVE  /\ Len(got[c]) <= Len(meant[c])
                      /\ \A j \in DOMAIN got[c] :
                           /\ got[c][j][1] = meant[c][j][1]
                           /\ got[c][j][1] \notin Shared \cup {"date"} =>
                                got[c][j][2] = meant[c][j][2]
                      /\ conn[c].st = "read" /\ ~conn[c].dead /\ cur = Idle =>
                           Len(got[c]) = Len(meant[c])
    BY DEF FramingKept
  <2>1. PICK k, g, m : k = conn[c] /\ g = got[c] /\ m = meant[c]
    OBVIOUS
  <2>2. ConnIs(k, g, m, cur, c) /\ IsSeq(g)
    BY <2>1 DEF ResponseInv, ConnOK, TypeOK
  <2>3. DOMAIN g = 1..Len(g)
    BY <2>2, SeqFacts
  <2>4. Received(g, m, k.split)
    BY <2>2 DEF ConnIs
  <2>5. k.st = "read" /\ ~k.dead /\ cur = Idle => Len(g) = Len(m)
    <3> SUFFICES ASSUME k.st = "read", ~k.dead, cur = Idle
                 PROVE  Len(g) = Len(m)
      OBVIOUS
    <3>1. cur.c # {c}
      BY IdleIs
    <3>2. k.streams = <<>> /\ Pending(k.streams, m, Len(g), k.n)
      BY <2>2, <3>1 DEF ConnIs, Alive
    <3> QED BY <3>2, PendingNone
  <2>6. /\ Len(g) <= Len(m)
        /\ \A j \in DOMAIN g :
             /\ g[j][1] = m[j][1]
             /\ g[j][1] \notin Shared \cup {"date"} => g[j][2] = m[j][2]
    BY <2>3, <2>4 DEF Received
  <2> QED BY <2>1, <2>5, <2>6
<1> QED BY <1>1, ResponseInvariant, PTL

(* A Content-Length or Last-Modified that is not the answer's own belongs  *)
(* to a header that had to wait: the loop of mk_sched_event_read keeps the *)
(* worker with a first header the socket takes nothing of.                 *)
THEOREM DamageAlwaysWaited == Spec => []DamagedOnlyIfWaited
<1>1. ResponseInv => DamagedOnlyIfWaited
  <2> SUFFICES ASSUME ResponseInv, NEW c \in Conns, NEW j \in DOMAIN got[c],
                      got[c][j][1] \in Shared, got[c][j][2] # meant[c][j][2]
               PROVE  meant[c][j][3] > 1 \/ 1 \in conn[c].split
    BY DEF DamagedOnlyIfWaited
  <2>1. PICK k, g, m : k = conn[c] /\ g = got[c] /\ m = meant[c]
    OBVIOUS
  <2>2. Received(g, m, k.split) /\ IsSeq(g)
    BY <2>1 DEF ResponseInv, ConnOK, ConnIs, TypeOK
  <2>3. j \in 1..Len(g)
    BY <2>1, <2>2, SeqFacts
  <2> QED BY <2>1, <2>2, <2>3 DEF Received
<1> QED BY <1>1, ResponseInvariant, PTL

(* A date that a client receives is the one its header was given, unless   *)
(* the clock has published one tick since and begun another.               *)
THEOREM DateAlwaysHolds == Spec => DateHoldsOneTick
<1>1. ResponseInv /\ [Next]_vars =>
        [\A c \in Conns : \A j \in DOMAIN got'[c] \ DOMAIN got[c] :
           LET t == meant'[c][j][2] IN
           got'[c][j][1] = "date" /\ got'[c][j][2] # t =>
             clock.now + (IF clock.busy THEN 1 ELSE 0) >= t + 2]_vars
  <2> SUFFICES ASSUME ResponseInv, [Next]_vars,
                      NEW c \in Conns,
                      NEW j \in DOMAIN got'[c] \ DOMAIN got[c],
                      got'[c][j][1] = "date",
                      got'[c][j][2] # meant'[c][j][2]
               PROVE  clock.now + (IF clock.busy THEN 1 ELSE 0)
                        >= meant'[c][j][2] + 2
    OBVIOUS
  <2>1. DateOK(got'[c][j], meant'[c][j])
    BY NextInv DEF Dates
  <2>2. PICK t : t = meant'[c][j][2]
    OBVIOUS
  <2>3. t \in 0..clock.now /\ ~Untouched(t)
    BY <2>1, <2>2 DEF DateOK
  <2>4. clock.now \in Nat
    BY DEF ResponseInv, ClockInv
  <2>5. clock.now + (IF clock.busy THEN 1 ELSE 0) >= t + 2
    BY <2>3, <2>4 DEF Untouched
  <2> QED BY <2>2, <2>5
<1> QED BY <1>1, ResponseInvariant, PTL DEF Spec, DateHoldsOneTick
=============================================================================
