---------------------------- MODULE MkCgi_proofs ----------------------------
(***************************************************************************)
(* Proofs about MkCgi, for any number of workers, runs and descriptors,    *)
(* any programs and any Env: the table of requests names the right run,    *)
(* in_buf does not overflow, a run leaves nothing behind, a freed run is   *)
(* visited only by way of an inherited pipe end, somebody can always move, *)
(* and what a client receives is the program's answer, for programs that   *)
(* write their headers in one piece.                                       *)
(***************************************************************************)
EXTENDS MkCgi, SequenceTheorems, WellFoundedInduction, TLAPS

-----------------------------------------------------------------------------
(* The inductive invariant.                                                *)

RunType ==
  [st : {"none", "piped", "forked", "fed", "on", "queued", "freed", "lost"},
   w : SUBSET Workers, s : SUBSET Sockets,
   cs : {"answering", "ended", "gone"}, hangup : BOOLEAN,
   buf : Seq(Cells), len : Nat, hdr : BOOLEAN, all : BOOLEAN]

ChildType ==
  [st : {"none", "run", "gone"}, reads : BOOLEAN, todo : Seq(Cells)]

TypeOK ==
  /\ run \in [Runs -> RunType]
  /\ child \in [Runs -> ChildType]
  /\ pipe \in [Runs -> Seq(Cells)]
  /\ held \subseteq (Runs \cup {Server}) \X Runs \X Ends
  /\ post \in [Runs -> {"no", "spawned", "done", "astray"}]
  /\ table \in [Sockets -> SUBSET Runs]
  /\ sock \in [Sockets -> [by : SUBSET Workers, busy : BOOLEAN]]
  /\ at \in [Workers -> SUBSET (Runs \cup {Server})]
  /\ batch \in [Workers -> SUBSET Runs]

(* in_len counts cells that are there, and no more than in_buf has.        *)
Fits(k) == k.len <= Len(k.buf) /\ k.len <= BUFLEN
BufferOK == \A r \in Runs : Fits(run[r])

Launching == {"piped", "forked", "fed"}

(* A worker in do_cgi has a run of its own, on a connection of its own     *)
(* that no other run answers; and a run that is being launched has its     *)
(* worker, unless workers are Undefined.                                   *)
LaunchOK ==
  /\ \A w \in Workers, r \in Runs : at[w] = {r} =>
       /\ run[r].st \in Launching /\ run[r].w = {w}
       /\ \E s \in Sockets :
            run[r].s = {s} /\ sock[s].by = {w} /\ table[s] = {}
  /\ \A r \in Runs : run[r].st \in Launching =>
       \E w \in Workers : at[w] = {r} \/ at[w] = Undefined

(* A registered run belongs to one worker, whose epoll alone reports it.   *)
OwnerOK ==
  /\ \A r \in Runs : run[r].st = "on" => \E w \in Workers : run[r].w = {w}
  /\ \A w \in Workers : \A r \in batch[w] :
       run[r].st \in {"on", "queued", "freed"} /\ run[r].w = {w}

(* Only a child that runs holds descriptors.                               *)
ChildOK ==
  /\ \A r \in Runs : run[r].st \in {"none", "piped"} => child[r].st = "none"
  /\ \A r \in Runs : run[r].st \in {"forked", "fed", "on"} =>
       child[r].st # "none"
  /\ \A p, r \in Runs, e \in Ends :
       <<p, r, e>> \in held => child[p].st = "run"

(* What the server keeps open of a run once its child has its own ends.    *)
EndsOK ==
  /\ \A r \in Runs : run[r].st \in {"fed", "on"} =>
       <<Server, r, "outW">> \notin held /\ <<Server, r, "inR">> \notin held
  /\ \A r \in Runs : /\ child[r].st # "none" /\ run[r].st # "forked"
                     /\ <<Server, r, "inW">> \in held
                     => post[r] \in {"spawned", "astray"}

(* NothingLeftBehind, with the descriptors spelt out.                      *)
OverOK ==
  \A r \in Runs : Over(r) =>
    /\ child[r].st = "gone"
    /\ \A e \in Ends \ {"inW"} : <<Server, r, e>> \notin held

Listed ==
  /\ \A r \in Runs : run[r].st = "on" =>
       \E s \in Sockets :
         /\ run[r].s = {s} /\ table[s] = {r}
         /\ run[r].cs # "gone" => sock[s].by = run[r].w
  /\ \A s \in Sockets : \A r \in table[s] :
       run[r].st = "on" /\ run[r].s = {s}

CgiInv ==
  /\ TypeOK /\ BufferOK /\ LaunchOK /\ OwnerOK /\ ChildOK /\ EndsOK
  /\ OverOK /\ Listed

-----------------------------------------------------------------------------
(* Facts about runs and descriptors.                                       *)

(* No process has the server's number.                                     *)
LEMMA ServerNoRun == Server \notin Runs
BY CgiAssumption DEF Server, Runs

(* A set of numbers that is not empty has a least one.                     *)
LEMMA Least ==
  ASSUME NEW T, T \subseteq Nat, T # {}
  PROVE  Min(T) \in T /\ \A y \in T : Min(T) <= y
<1> DEFINE R == {ss \in Nat \X Nat : ss[1] < ss[2]}
<1>1. IsWellFoundedOn(R, Nat)
  BY NatLessThanWellFounded, Zenon DEF OpToRel
<1> HIDE DEF R
<1>2. PICK x \in T : \A y \in T : ~(<<y, x>> \in R)
  BY <1>1, WFMin
<1>3. \A y \in T : x <= y
  <2> SUFFICES ASSUME NEW y \in T, ~(x <= y) PROVE FALSE
    OBVIOUS
  <2>1. x \in Nat /\ y \in Nat
    OBVIOUS
  <2>2. y < x
    BY <2>1
  <2>3. <<y, x>> \in R
    BY <2>1, <2>2 DEF R
  <2> QED BY <1>2, <2>3
<1> QED BY <1>3 DEF Min

(* SelectInSeq returns a place in the sequence, or 0.                      *)
LEMMA FirstBound ==
  ASSUME NEW cells \in Seq(Cells), NEW S
  PROVE  First(cells, S) \in 0..Len(cells)
<1> DEFINE I == {i \in 1..Len(cells) : cells[i] \in S}
<1>1. Len(cells) \in Nat
  OBVIOUS
<1>2. First(cells, S) = IF I # {} THEN Min(I) ELSE 0
  BY DEF First, SelectInSeq
<1>3. I \subseteq Nat /\ I \subseteq 1..Len(cells)
  BY <1>1
<1> HIDE DEF I
<1>4. I # {} => Min(I) \in I
  BY <1>3, Least
<1>5. CASE I = {}
  BY <1>1, <1>2, <1>5
<1>6. CASE I # {}
  <2>1. Min(I) \in 1..Len(cells)
    BY <1>3, <1>4, <1>6
  <2> QED BY <1>1, <1>2, <1>6, <2>1
<1> QED BY <1>5, <1>6

(* A piece of a sequence of cells is one.                                  *)
LEMMA Piece ==
  ASSUME NEW cells \in Seq(Cells), NEW m \in Nat \ {0},
         NEW n \in 0..Len(cells)
  PROVE  /\ SubSeq(cells, m, n) \in Seq(Cells)
         /\ Len(SubSeq(cells, m, n)) <= n
         /\ m = 1 => Len(SubSeq(cells, m, n)) = n
<1>1. Len(cells) \in Nat /\ n \in Nat
  OBVIOUS
<1>2. CASE m <= n
  BY <1>1, <1>2, SubSeqProperties
<1>3. CASE m > n
  BY <1>1, <1>3, SubSeqProperties
<1> QED BY <1>1, <1>2, <1>3

(* process_cgi_data leaves a request whose in_buf fits, and touches        *)
(* nothing but in_buf and the two flags.                                   *)
LEMMA Processes ==
  ASSUME NEW q \in RunType, Fits(q)
  PROVE  LET k == Process(q).q IN
         /\ k \in RunType /\ Fits(k)
         /\ k.st = q.st /\ k.w = q.w /\ k.s = q.s /\ k.cs = q.cs
<1>1. BUFLEN \in Nat /\ q.len \in Nat /\ q.buf \in Seq(Cells)
  BY CgiAssumption DEF RunType
<1>2. q.len \in 0..Len(q.buf) /\ Len(q.buf) \in Nat
  BY <1>1 DEF Fits
<1> DEFINE data   == SubSeq(q.buf, 1, q.len)
           asks   == ~q.hdr /\ First(data, {"S", "H", "D"}) > 0
           status == asks /\ Head(data) = "S"
           endl   == First(Tail(data), {"n", "H", "B"})
           from   == IF status THEN endl + 1 ELSE 0
           rest   == SubSeq(data, from + 1, Len(data))
           end    == IF q.all THEN 0 ELSE First(rest, {"B"})
           head   == IF asks THEN <<"status">> ELSE <<>>
           next   == [q EXCEPT !.hdr = @ \/ asks]
           read   == [next EXCEPT !.len = Len(rest), !.buf = Kept(q, from)]
           done   == Emptied([next EXCEPT !.all = TRUE])
<1>3. Process(q).q \in {q, read, done}
  BY DEF Process
<1>4. data \in Seq(Cells) /\ Len(data) = q.len
  BY <1>1, <1>2, Piece
<1>5. next \in RunType /\ next.st = q.st /\ next.w = q.w /\ next.s = q.s
      /\ next.cs = q.cs
  BY DEF RunType
<1>6. /\ rest \in Seq(Cells) /\ Len(rest) \in Nat
      /\ Len(rest) <= q.len
  <2> HIDE DEF data
  <2>1. CASE status
    <3>1. First(data, {"S", "H", "D"}) \in 0..Len(data)
      BY <1>4, FirstBound
    <3>2. Len(data) > 0 /\ data # <<>>
      BY <1>4, <2>1, <3>1
    <3>3. Tail(data) \in Seq(Cells)
      BY <1>4, <3>2
    <3>4. endl \in Nat
      <4>1. First(Tail(data), {"n", "H", "B"}) \in 0..Len(Tail(data))
        BY <3>3, FirstBound, Zenon
      <4>2. Len(Tail(data)) \in Nat
        BY <3>3
      <4> QED BY <4>1, <4>2
    <3> HIDE DEF endl, status
    <3>5. from + 1 \in Nat \ {0}
      BY <3>4
    <3> HIDE DEF from
    <3>6. Len(data) \in 0..Len(data)
      BY <1>4
    <3> QED BY <1>4, <3>5, <3>6, Piece
  <2>2. CASE ~status
    <3>1. from + 1 = 1
      BY <2>2
    <3>2. Len(data) \in 0..Len(data)
      BY <1>4
    <3> HIDE DEF from
    <3> QED BY <1>4, <3>1, <3>2, Piece
  <2> QED BY <2>1, <2>2
<1> HIDE DEF next, rest, data, from
<1>7. /\ read \in RunType /\ read.len = Len(rest) /\ read.buf = q.buf
      /\ read.st = q.st /\ read.w = q.w /\ read.s = q.s /\ read.cs = q.cs
  BY <1>1, <1>5, <1>6 DEF RunType, Kept
<1>8. /\ done \in RunType /\ done.len = 0 /\ done.buf = <<>>
      /\ done.st = q.st /\ done.w = q.w /\ done.s = q.s /\ done.cs = q.cs
  <2>1. PICK m : m = [next EXCEPT !.all = TRUE]
    OBVIOUS
  <2>2. /\ m \in RunType /\ m.st = q.st /\ m.w = q.w /\ m.s = q.s
        /\ m.cs = q.cs
    BY <1>5, <2>1 DEF RunType
  <2>3. done = [m EXCEPT !.len = 0, !.buf = <<>>]
    BY <2>1 DEF Emptied
  <2> HIDE DEF done
  <2>4. <<>> \in Seq(Cells) /\ 0 \in Nat
    OBVIOUS
  <2> QED BY <2>2, <2>3, <2>4 DEF RunType
<1> HIDE DEF read, done
<1>9. Fits(read)
  BY <1>1, <1>2, <1>6, <1>7 DEF Fits
<1>10. Fits(done)
  BY <1>1, <1>8 DEF Fits
<1> QED BY <1>3, <1>7, <1>8, <1>9, <1>10

-----------------------------------------------------------------------------
(* What the steps have in common.                                          *)

(* The connection of a new request is the worker's own or nobody's.        *)
LEMMA AskedOwn ==
  ASSUME TypeOK, NEW w \in Workers, NEW s \in Sockets, Asked(w, s)
  PROVE  at[w] = {} /\ (sock[s].by = {w} \/ sock[s].by = {})
<1>1. s \in 1..s
  BY CgiAssumption DEF Sockets
<1> QED BY <1>1 DEF Asked, NoConn

(* The parts of struct cgi_request that say who is responsible for a run   *)
(* stay as they are.                                                       *)
Same(r) ==
  /\ run'[r].st = run[r].st /\ run'[r].w = run[r].w
  /\ run'[r].s = run[r].s

(* A step that changes no run, but for in_buf and cs, and no descriptor,   *)
(* keeps what the invariant says of children and descriptors.              *)
LEMMA QuietEnds ==
  ASSUME CgiInv, \A r \in Runs : Same(r),
         UNCHANGED <<child, held, post>>
  PROVE  (ChildOK /\ EndsOK /\ OverOK)'
BY DEF CgiInv, ChildOK, EndsOK, OverOK, Over, Same

(* A step that leaves the table and who is in do_cgi as they are keeps     *)
(* what the invariant says of them, if the connections of launched runs    *)
(* (the first condition) and of listed runs (the second) are still theirs. *)
LEMMA QuietTable ==
  ASSUME CgiInv, \A r \in Runs : Same(r), table' = table,
         at' = at \/ at' = [x \in Workers |-> Undefined],
         \A x \in Workers : batch'[x] \subseteq batch[x],
         \A x \in Workers, t \in Sockets :
           at[x] # {} /\ sock[t].by = {x} /\ table[t] = {} =>
             sock'[t].by = {x},
         \A t \in Sockets : \A q \in table[t] :
           /\ run'[q].cs # "gone"
           /\ run[q].cs # "gone" => sock[t].by = run[q].w
           => sock'[t].by = run[q].w
  PROVE  (LaunchOK /\ OwnerOK /\ Listed)'
<1>1. /\ \A r \in Runs : run'[r].st = run[r].st
      /\ \A r \in Runs : run'[r].w = run[r].w
      /\ \A r \in Runs : run'[r].s = run[r].s
  BY DEF Same
<1>2. LaunchOK /\ OwnerOK /\ Listed
  BY DEF CgiInv
<1>3. /\ \A x \in Workers : batch[x] \subseteq Runs
      /\ \A t \in Sockets : table[t] \subseteq Runs
  BY DEF CgiInv, TypeOK
<1>4. LaunchOK'
  <2>1. ASSUME NEW x \in Workers, NEW q \in Runs, at'[x] = {q}
        PROVE  /\ run'[q].st \in Launching /\ run'[q].w = {x}
               /\ \E t \in Sockets :
                    run'[q].s = {t} /\ sock'[t].by = {x} /\ table'[t] = {}
    <3>1. at[x] = {q}
      BY <2>1, ServerNoRun DEF Undefined
    <3>2. PICK t \in Sockets :
            run[q].s = {t} /\ sock[t].by = {x} /\ table[t] = {}
      BY <1>2, <3>1 DEF LaunchOK
    <3>3. sock'[t].by = {x}
      BY <3>1, <3>2
    <3> QED BY <1>1, <1>2, <3>1, <3>2, <3>3 DEF LaunchOK
  <2>2. ASSUME NEW q \in Runs, run'[q].st \in Launching
        PROVE  \E x \in Workers : at'[x] = {q} \/ at'[x] = Undefined
    <3>1. PICK x \in Workers : at[x] = {q} \/ at[x] = Undefined
      BY <1>1, <1>2, <2>2 DEF LaunchOK
    <3>2. at'[x] = at[x] \/ at'[x] = Undefined
      OBVIOUS
    <3> QED BY <3>1, <3>2
  <2> QED BY <2>1, <2>2 DEF LaunchOK
<1>5. OwnerOK'
  BY <1>1, <1>2, <1>3 DEF OwnerOK
<1>6. Listed'
  <2>1. ASSUME NEW q \in Runs, run'[q].st = "on"
        PROVE  \E t \in Sockets :
                 /\ run'[q].s = {t} /\ table'[t] = {q}
                 /\ run'[q].cs # "gone" => sock'[t].by = run'[q].w
    <3>1. PICK t \in Sockets :
            /\ run[q].s = {t} /\ table[t] = {q}
            /\ run[q].cs # "gone" => sock[t].by = run[q].w
      BY <1>1, <1>2, <2>1 DEF Listed
    <3>2. run'[q].cs # "gone" => sock'[t].by = run[q].w
      BY <3>1
    <3> QED BY <1>1, <3>1, <3>2
  <2>2. ASSUME NEW t \in Sockets, NEW q \in table'[t]
        PROVE  run'[q].st = "on" /\ run'[q].s = {t}
    <3>1. q \in table[t] /\ q \in Runs
      BY <1>3
    <3> QED BY <1>1, <1>2, <3>1 DEF Listed
  <2> QED BY <2>1, <2>2 DEF Listed
<1> QED BY <1>4, <1>5, <1>6

(* mk_cgi_stage30 on a socket that has a run.                              *)
LEMMA RetryKeeps ==
  ASSUME CgiInv, NEW w \in Workers, NEW s \in Sockets, Retry(w, s)
  PROVE  CgiInv'
<1>1. ASSUME NEW r \in Runs
      PROVE  /\ Same(r) /\ run'[r] \in RunType
             /\ run'[r].len = run[r].len /\ run'[r].buf = run[r].buf
             /\ run'[r].cs = "gone" <=> run[r].cs = "gone"
  <2>1. run[r] \in RunType
    BY DEF CgiInv, TypeOK
  <2>2. CASE run'[r] = run[r]
    BY <2>1, <2>2 DEF Same
  <2>3. CASE /\ run[r].cs = "ended"
             /\ run'[r] = [run[r] EXCEPT !.cs = "answering"]
    BY <2>1, <2>3 DEF Same, RunType
  <2> QED BY <2>2, <2>3 DEF Retry
<1>2. /\ sock' \in [Sockets -> [by : SUBSET Workers, busy : BOOLEAN]]
      /\ sock'[s].by = {w} /\ \A t \in Sockets \ {s} : sock'[t] = sock[t]
  BY DEF Retry, CgiInv, TypeOK
<1>3. sock[s].by = {w} \/ sock[s].by = {}
  BY AskedOwn DEF Retry, CgiInv
<1>4. UNCHANGED <<child, pipe, held, post, table, at, batch>> /\ table[s] # {}
  BY DEF Retry
<1>5. TypeOK'
  <2>1. run' = [r \in Runs |-> run'[r]]
    BY DEF Retry
  <2>2. run' \in [Runs -> RunType]
    BY <1>1, <2>1
  <2> QED BY <1>2, <1>4, <2>2 DEF CgiInv, TypeOK
<1>6. BufferOK'
  BY <1>1 DEF CgiInv, BufferOK, Fits
<1>7. (LaunchOK /\ OwnerOK /\ Listed)'
  <2>1. ASSUME NEW t \in Sockets, NEW q \in table[t],
               run'[q].cs # "gone",
               run[q].cs # "gone" => sock[t].by = run[q].w
        PROVE  sock'[t].by = run[q].w
    <3>1. q \in Runs
      BY DEF CgiInv, TypeOK
    <3>2. PICK x \in Workers : run[q].w = {x}
      BY <3>1 DEF CgiInv, OwnerOK, Listed
    <3>3. sock[t].by = run[q].w
      BY <1>1, <2>1, <3>1
    <3> QED BY <1>2, <1>3, <3>2, <3>3
  <2>2. \A r \in Runs : Same(r)
    BY <1>1
  <2>3. \A x \in Workers, t \in Sockets :
          at[x] # {} /\ sock[t].by = {x} /\ table[t] = {} =>
            sock'[t].by = {x}
    BY <1>2, <1>4
  <2> QED BY <1>4, <2>1, <2>2, <2>3, QuietTable
<1>8. (ChildOK /\ EndsOK /\ OverOK)'
  BY <1>1, <1>4, QuietEnds
<1> QED BY <1>5, <1>6, <1>7, <1>8 DEF CgiInv

(* do_cgi gives up on run r, whose connection no other run answers.        *)
LEMMA FailsKeeps ==
  ASSUME CgiInv, NEW w \in Workers, NEW r \in Runs, NEW s \in Sockets,
         Fails(w, r, s), table[s] = {},
         sock[s].by = {w} \/ sock[s].by = {},
         at[w] = {} \/ at[w] = {r},
         \A x \in Workers \ {w} : at[x] # {r},
         run[r].st \in {"none", "piped", "fed"},
         UNCHANGED <<child, pipe, post, table, batch>>,
         held' \subseteq (Runs \cup {Server}) \X Runs \X Ends,
         \A p \in Runs \cup {Server}, q \in Runs, e \in Ends :
           <<p, q, e>> \in held' =>
             <<p, q, e>> \in held \/ (p = Server /\ q = r),
         held' = held \/ run[r].st = "none"
  PROVE  CgiInv'
<1>0. TypeOK /\ BufferOK /\ LaunchOK /\ OwnerOK /\ Listed
  BY DEF CgiInv
<1>1. /\ run' \in [Runs -> RunType]
      /\ run'[r].st = "lost" /\ run'[r].w = {w}
      /\ run'[r].len = run[r].len /\ run'[r].buf = run[r].buf
      /\ \A q \in Runs \ {r} : run'[q] = run[q]
  <2>1. run[r] \in RunType
    BY <1>0 DEF TypeOK
  <2>2. PICK k : k = [run[r] EXCEPT !.st = "lost", !.w = {w}]
    OBVIOUS
  <2>3. run' = [run EXCEPT ![r] = k]
    BY <1>0, <2>1, <2>2 DEF Fails, TypeOK, RunType
  <2>4. /\ k \in RunType /\ k.st = "lost" /\ k.w = {w}
        /\ k.len = run[r].len /\ k.buf = run[r].buf
    BY <2>1, <2>2 DEF RunType
  <2> QED BY <1>0, <2>3, <2>4 DEF TypeOK
<1>2. /\ at' \in [Workers -> SUBSET (Runs \cup {Server})]
      /\ at'[w] = {} /\ \A x \in Workers \ {w} : at'[x] = at[x]
  BY <1>0 DEF Fails, TypeOK
<1>3. /\ sock' \in [Sockets -> [by : SUBSET Workers, busy : BOOLEAN]]
      /\ sock'[s].by = {w} /\ \A t \in Sockets \ {s} : sock'[t] = sock[t]
  BY <1>0 DEF Fails, TypeOK
<1>4. TypeOK'
  BY <1>0, <1>1, <1>2, <1>3 DEF TypeOK
<1>5. BufferOK'
  BY <1>0, <1>1 DEF BufferOK, Fits
<1>6. LaunchOK'
  <2>1. ASSUME NEW x \in Workers, NEW q \in Runs, at'[x] = {q}
        PROVE  /\ run'[q].st \in Launching /\ run'[q].w = {x}
               /\ \E t \in Sockets :
                    run'[q].s = {t} /\ sock'[t].by = {x} /\ table'[t] = {}
    <3>1. x # w /\ at[x] = {q} /\ q # r
      BY <1>2, <2>1
    <3>2. PICK t \in Sockets :
            run[q].s = {t} /\ sock[t].by = {x} /\ table[t] = {}
      BY <1>0, <3>1 DEF LaunchOK
    <3>3. t # s
      BY <3>1, <3>2
    <3> QED BY <1>0, <1>1, <1>3, <3>1, <3>2, <3>3 DEF LaunchOK
  <2>2. ASSUME NEW q \in Runs, run'[q].st \in Launching
        PROVE  \E x \in Workers : at'[x] = {q} \/ at'[x] = Undefined
    <3>1. q # r
      BY <1>1, <2>2 DEF Launching
    <3>2. PICK x \in Workers : at[x] = {q} \/ at[x] = Undefined
      BY <1>0, <1>1, <2>2, <3>1 DEF LaunchOK
    <3>3. x # w
      BY <3>1, <3>2, ServerNoRun DEF Undefined
    <3> QED BY <1>2, <3>2, <3>3
  <2> QED BY <2>1, <2>2 DEF LaunchOK
<1>7. OwnerOK'
  <2>1. \A x \in Workers : batch[x] \subseteq Runs /\ r \notin batch[x]
    BY <1>0 DEF TypeOK, OwnerOK
  <2> QED BY <1>0, <1>1, <2>1 DEF OwnerOK
<1>8. ChildOK'
  BY <1>1, ServerNoRun DEF CgiInv, ChildOK
<1>9. EndsOK'
  <2>1. ASSUME NEW q \in Runs, run'[q].st \in {"fed", "on"}
        PROVE  /\ <<Server, q, "outW">> \notin held'
               /\ <<Server, q, "inR">> \notin held'
    <3>1. q # r /\ run[q].st \in {"fed", "on"}
      BY <1>1, <2>1
    <3> QED BY <3>1 DEF CgiInv, EndsOK, Ends
  <2>2. ASSUME NEW q \in Runs, child'[q].st # "none",
               run'[q].st # "forked", <<Server, q, "inW">> \in held'
        PROVE  post'[q] \in {"spawned", "astray"}
    <3>1. CASE q = r
      <4>1. run[r].st = "fed" /\ held' = held
        BY <2>2, <3>1 DEF CgiInv, ChildOK
      <4> QED BY <2>2, <3>1, <4>1 DEF CgiInv, EndsOK
    <3>2. CASE q # r
      BY <1>1, <2>2, <3>2 DEF CgiInv, EndsOK, Ends
    <3> QED BY <3>1, <3>2
  <2> QED BY <2>1, <2>2 DEF EndsOK
<1>10. OverOK'
  <2>1. ASSUME NEW q \in Runs, Over(q)'
        PROVE  /\ child'[q].st = "gone"
               /\ \A e \in Ends \ {"inW"} : <<Server, q, e>> \notin held'
    <3>1. q # r /\ Over(q)
      BY <1>1, <2>1 DEF Over
    <3> QED BY <3>1 DEF CgiInv, OverOK
  <2> QED BY <2>1 DEF OverOK
<1>11. Listed'
  <2>1. ASSUME NEW q \in Runs, run'[q].st = "on"
        PROVE  \E t \in Sockets :
                 /\ run'[q].s = {t} /\ table'[t] = {q}
                 /\ run'[q].cs # "gone" => sock'[t].by = run'[q].w
    <3>1. q # r /\ run'[q] = run[q]
      BY <1>1, <2>1
    <3>2. PICK t \in Sockets :
            /\ run[q].s = {t} /\ table[t] = {q}
            /\ run[q].cs # "gone" => sock[t].by = run[q].w
      BY <1>0, <2>1, <3>1 DEF Listed
    <3>3. t # s
      BY <3>2
    <3> QED BY <1>3, <3>1, <3>2, <3>3
  <2>2. ASSUME NEW t \in Sockets, NEW q \in table'[t]
        PROVE  run'[q].st = "on" /\ run'[q].s = {t}
    <3>1. q \in Runs /\ q \in table[t]
      BY <1>0 DEF TypeOK
    <3>2. run[q].st = "on" /\ run[q].s = {t}
      BY <1>0, <3>1 DEF Listed
    <3> QED BY <1>1, <3>1, <3>2
  <2> QED BY <2>1, <2>2 DEF Listed
<1> QED BY <1>4, <1>5, <1>6, <1>7, <1>8, <1>9, <1>10, <1>11 DEF CgiInv

(* do_cgi begins: the two pipes.                                           *)
LEMMA PipesKeeps ==
  ASSUME CgiInv, NEW w \in Workers, NEW s \in Sockets, NEW r \in Runs,
         Pipes(w, s, r)
  PROVE  CgiInv'
<1>0. TypeOK /\ BufferOK /\ LaunchOK /\ OwnerOK /\ Listed
  BY DEF CgiInv
<1>1. /\ at[w] = {} /\ (sock[s].by = {w} \/ sock[s].by = {})
      /\ table[s] = {}
  BY <1>0, AskedOwn DEF Pipes
<1>2. run[r].st = "none"
  <2>1. r \in 1..r
    BY CgiAssumption DEF Runs
  <2> QED BY <2>1 DEF Pipes
<1>3. \A x \in Workers : at[x] # {r}
  BY <1>0, <1>2 DEF LaunchOK, Launching
<1>4. UNCHANGED <<child, pipe, post, table, batch>>
  BY DEF Pipes
<1>5. CASE Fails(w, r, s) /\ \E es \in {{}, {"inR", "inW"}} :
             held' = held \cup {<<Server, r, e>> : e \in es}
  <2>1. PICK es \in {{}, {"inR", "inW"}} :
          held' = held \cup {<<Server, r, e>> : e \in es}
    BY <1>5
  <2>2. es \subseteq Ends
    BY DEF Ends
  <2> HIDE DEF Ends
  <2>3. held' \subseteq (Runs \cup {Server}) \X Runs \X Ends
    BY <1>0, <2>1, <2>2 DEF TypeOK
  <2>4. \A p \in Runs \cup {Server}, q \in Runs, e \in Ends :
          <<p, q, e>> \in held' =>
            <<p, q, e>> \in held \/ (p = Server /\ q = r)
    BY <2>1
  <2> QED BY <1>1, <1>2, <1>3, <1>4, <1>5, <2>3, <2>4, FailsKeeps
<1>6. CASE /\ run' = [run EXCEPT ![r] =
                        [NoRun EXCEPT !.st = "piped", !.w = {w}, !.s = {s}]]
           /\ held' = held \cup {<<Server, r, e>> : e \in Ends}
           /\ at' = [at EXCEPT ![w] = {r}]
           /\ sock' = [sock EXCEPT ![s] = [by |-> {w}, busy |-> TRUE]]
  <2>1. /\ run' \in [Runs -> RunType]
        /\ run'[r].st = "piped" /\ run'[r].w = {w} /\ run'[r].s = {s}
        /\ run'[r].len = 0 /\ run'[r].buf = <<>>
        /\ \A q \in Runs \ {r} : run'[q] = run[q]
    <3>1. PICK k : k = [NoRun EXCEPT !.st = "piped", !.w = {w}, !.s = {s}]
      OBVIOUS
    <3>2. <<>> \in Seq(Cells)
      OBVIOUS
    <3>3. /\ k \in RunType /\ k.st = "piped" /\ k.w = {w} /\ k.s = {s}
          /\ k.len = 0 /\ k.buf = <<>>
      BY <3>1, <3>2 DEF NoRun, RunType
    <3> QED BY <1>0, <1>6, <3>1, <3>3 DEF TypeOK
  <2>2. /\ at' \in [Workers -> SUBSET (Runs \cup {Server})]
        /\ at'[w] = {r} /\ \A x \in Workers \ {w} : at'[x] = at[x]
    BY <1>0, <1>6 DEF TypeOK
  <2>3. /\ sock' \in [Sockets -> [by : SUBSET Workers, busy : BOOLEAN]]
        /\ sock'[s].by = {w} /\ \A t \in Sockets \ {s} : sock'[t] = sock[t]
    BY <1>0, <1>6 DEF TypeOK
  <2>4. /\ held' \subseteq (Runs \cup {Server}) \X Runs \X Ends
        /\ \A p \in Runs \cup {Server}, q \in Runs, e \in Ends :
             <<p, q, e>> \in held' =>
               <<p, q, e>> \in held \/ (p = Server /\ q = r)
    <3> HIDE DEF Ends
    <3> QED BY <1>0, <1>6 DEF TypeOK
  <2>5. TypeOK'
    BY <1>0, <1>4, <2>1, <2>2, <2>3, <2>4 DEF TypeOK
  <2>6. BufferOK'
    BY <1>0, <2>1, CgiAssumption DEF BufferOK, Fits
  <2>7. LaunchOK'
    <3>1. ASSUME NEW x \in Workers, NEW q \in Runs, at'[x] = {q}
          PROVE  /\ run'[q].st \in Launching /\ run'[q].w = {x}
                 /\ \E t \in Sockets :
                      run'[q].s = {t} /\ sock'[t].by = {x} /\ table'[t] = {}
      <4>1. CASE x = w
        <5>1. q = r
          BY <2>2, <3>1, <4>1
        <5> QED BY <1>1, <1>4, <2>1, <2>3, <4>1, <5>1 DEF Launching
      <4>2. CASE x # w
        <5>1. at[x] = {q} /\ q # r
          BY <1>3, <2>2, <3>1, <4>2
        <5>2. PICK t \in Sockets :
                run[q].s = {t} /\ sock[t].by = {x} /\ table[t] = {}
          BY <1>0, <5>1 DEF LaunchOK
        <5>3. t # s
          BY <1>1, <4>2, <5>2
        <5> QED BY <1>0, <1>4, <2>1, <2>3, <5>1, <5>2, <5>3 DEF LaunchOK
      <4> QED BY <4>1, <4>2
    <3>2. ASSUME NEW q \in Runs, run'[q].st \in Launching
          PROVE  \E x \in Workers : at'[x] = {q} \/ at'[x] = Undefined
      <4>1. CASE q = r
        BY <2>2, <4>1
      <4>2. CASE q # r
        <5>1. PICK x \in Workers : at[x] = {q} \/ at[x] = Undefined
          BY <1>0, <2>1, <3>2, <4>2 DEF LaunchOK
        <5>2. x # w
          BY <1>1, <5>1 DEF Undefined
        <5> QED BY <2>2, <5>1, <5>2
      <4> QED BY <4>1, <4>2
    <3> QED BY <3>1, <3>2 DEF LaunchOK
  <2>8. OwnerOK'
    <3>1. \A x \in Workers : batch[x] \subseteq Runs /\ r \notin batch[x]
      BY <1>0, <1>2 DEF TypeOK, OwnerOK
    <3> QED BY <1>0, <1>4, <2>1, <3>1 DEF OwnerOK
  <2>9. ChildOK'
    BY <1>2, <1>4, <2>1, <2>4, ServerNoRun DEF CgiInv, ChildOK
  <2>10. EndsOK'
    <3>1. child[r].st = "none"
      BY <1>2 DEF CgiInv, ChildOK
    <3>2. ASSUME NEW q \in Runs, run'[q].st \in {"fed", "on"}
          PROVE  /\ <<Server, q, "outW">> \notin held'
                 /\ <<Server, q, "inR">> \notin held'
      <4>1. q # r /\ run[q].st \in {"fed", "on"}
        BY <2>1, <3>2
      <4> QED BY <2>4, <4>1 DEF CgiInv, EndsOK, Ends
    <3>3. ASSUME NEW q \in Runs, child'[q].st # "none",
                 run'[q].st # "forked", <<Server, q, "inW">> \in held'
          PROVE  post'[q] \in {"spawned", "astray"}
      <4>1. q # r
        BY <1>4, <3>1, <3>3
      <4> QED BY <1>4, <2>1, <2>4, <3>3, <4>1 DEF CgiInv, EndsOK, Ends
    <3> QED BY <3>2, <3>3 DEF EndsOK
  <2>11. OverOK'
    <3>1. ASSUME NEW q \in Runs, Over(q)'
          PROVE  /\ child'[q].st = "gone"
                 /\ \A e \in Ends \ {"inW"} : <<Server, q, e>> \notin held'
      <4>1. q # r /\ Over(q)
        BY <2>1, <3>1 DEF Over
      <4> QED BY <1>4, <2>4, <4>1 DEF CgiInv, OverOK
    <3> QED BY <3>1 DEF OverOK
  <2>12. Listed'
    <3>1. ASSUME NEW q \in Runs, run'[q].st = "on"
          PROVE  \E t \in Sockets :
                   /\ run'[q].s = {t} /\ table'[t] = {q}
                   /\ run'[q].cs # "gone" => sock'[t].by = run'[q].w
      <4>1. q # r /\ run'[q] = run[q]
        BY <2>1, <3>1
      <4>2. PICK t \in Sockets :
              /\ run[q].s = {t} /\ table[t] = {q}
              /\ run[q].cs # "gone" => sock[t].by = run[q].w
        BY <1>0, <3>1, <4>1 DEF Listed
      <4>3. t # s
        BY <1>1, <4>2
      <4> QED BY <1>4, <2>3, <4>1, <4>2, <4>3
    <3>2. ASSUME NEW t \in Sockets, NEW q \in table'[t]
          PROVE  run'[q].st = "on" /\ run'[q].s = {t}
      <4>1. q \in Runs /\ q \in table[t]
        BY <1>0, <1>4 DEF TypeOK
      <4>2. run[q].st = "on" /\ run[q].s = {t}
        BY <1>0, <4>1 DEF Listed
      <4> QED BY <1>2, <2>1, <4>1, <4>2
    <3> QED BY <3>1, <3>2 DEF Listed
  <2> QED
    BY <2>5, <2>6, <2>7, <2>8, <2>9, <2>10, <2>11, <2>12 DEF CgiInv
<1> QED BY <1>5, <1>6 DEF Pipes

(* A worker in do_cgi is the only one with its run, whose connection is    *)
(* its own.                                                                *)
LEMMA Launched ==
  ASSUME CgiInv, NEW w \in Workers, NEW r \in Runs, at[w] = {r}
  PROVE  /\ run[r].st \in Launching /\ run[r].w = {w}
         /\ \A x \in Workers \ {w} : at[x] # {r}
         /\ \A x \in Workers : r \notin batch[x]
         /\ \A s \in run[r].s :
              s \in Sockets /\ sock[s].by = {w} /\ table[s] = {}
<1>1. run[r].st \in Launching /\ run[r].w = {w}
  BY DEF CgiInv, LaunchOK
<1>2. \A x \in Workers \ {w} : at[x] # {r}
  BY <1>1 DEF CgiInv, LaunchOK
<1>3. \A x \in Workers : r \notin batch[x]
  BY <1>1 DEF CgiInv, OwnerOK, Launching
<1>4. \A s \in run[r].s :
        s \in Sockets /\ sock[s].by = {w} /\ table[s] = {}
  BY DEF CgiInv, LaunchOK
<1> QED BY <1>1, <1>2, <1>3, <1>4

(* do_cgi goes on from one stage to the next.                              *)
LEMMA LaunchMoves ==
  ASSUME CgiInv, NEW w \in Workers, NEW r \in Runs, at[w] = {r},
         run'[r].st \in Launching,
         run'[r].w = run[r].w, run'[r].s = run[r].s,
         \A q \in Runs \ {r} : run'[q] = run[q],
         UNCHANGED <<table, sock, at, batch>>
  PROVE  (LaunchOK /\ OwnerOK /\ Listed)'
<1>0. LaunchOK /\ OwnerOK /\ Listed
  BY DEF CgiInv
<1>1. /\ \A q \in Runs : run'[q].w = run[q].w
      /\ \A q \in Runs : run'[q].s = run[q].s
  OBVIOUS
<1>2. run[r].st \in Launching /\ \A x \in Workers : r \notin batch[x]
  BY Launched
<1>3. /\ \A x \in Workers : batch[x] \subseteq Runs
      /\ \A t \in Sockets : table[t] \subseteq Runs
  BY DEF CgiInv, TypeOK
<1>4. \A q \in Runs : run'[q].st \in Launching <=> run[q].st \in Launching
  BY <1>2
<1>5. LaunchOK'
  <2>1. ASSUME NEW x \in Workers, NEW q \in Runs, at[x] = {q}
        PROVE  /\ run'[q].st \in Launching /\ run'[q].w = {x}
               /\ \E t \in Sockets :
                    run'[q].s = {t} /\ sock[t].by = {x} /\ table[t] = {}
    <3>1. /\ run[q].st \in Launching /\ run[q].w = {x}
          /\ \E t \in Sockets :
               run[q].s = {t} /\ sock[t].by = {x} /\ table[t] = {}
      BY <1>0, <2>1 DEF LaunchOK
    <3> QED BY <1>1, <1>4, <3>1
  <2>2. \A q \in Runs : run'[q].st \in Launching =>
          \E x \in Workers : at[x] = {q} \/ at[x] = Undefined
    BY <1>0, <1>4 DEF LaunchOK
  <2> QED BY <2>1, <2>2, SMTT(30) DEF LaunchOK
<1>6. OwnerOK'
  <2>1. \A q \in Runs : run'[q].st = "on" => q # r
    BY DEF Launching
  <2> QED BY <1>0, <1>1, <1>2, <1>3, <2>1 DEF OwnerOK
<1>7. Listed'
  <2>1. ASSUME NEW q \in Runs, run'[q].st = "on"
        PROVE  \E t \in Sockets :
                 /\ run'[q].s = {t} /\ table'[t] = {q}
                 /\ run'[q].cs # "gone" => sock'[t].by = run'[q].w
    <3>1. q # r
      BY <2>1 DEF Launching
    <3> QED BY <1>0, <2>1, <3>1 DEF Listed
  <2>2. ASSUME NEW t \in Sockets, NEW q \in table'[t]
        PROVE  run'[q].st = "on" /\ run'[q].s = {t}
    <3>1. q \in Runs /\ run[q].st = "on" /\ run[q].s = {t}
      BY <1>0, <1>3 DEF Listed
    <3>2. q # r
      BY <1>2, <3>1 DEF Launching
    <3> QED BY <3>1, <3>2
  <2> QED BY <2>1, <2>2 DEF Listed
<1> QED BY <1>5, <1>6, <1>7

(* vfork, or its failure.                                                  *)
LEMMA VforkKeeps ==
  ASSUME CgiInv, NEW w \in Workers, NEW r \in Runs, Vfork(w, r)
  PROVE  CgiInv'
<1>0. TypeOK /\ BufferOK /\ LaunchOK /\ OwnerOK /\ Listed
  BY DEF CgiInv
<1>1. at[w] = {r} /\ run[r].st = "piped" /\ child[r].st = "none"
  BY DEF Vfork, CgiInv, ChildOK
<1>2. UNCHANGED <<pipe, post, table, batch>>
  BY DEF Vfork
<1>3. ASSUME NEW s \in run[r].s, Fails(w, r, s), UNCHANGED <<child, held>>
      PROVE  CgiInv'
  <2>1. /\ s \in Sockets /\ sock[s].by = {w} /\ table[s] = {}
        /\ \A x \in Workers \ {w} : at[x] # {r}
    BY <1>1, Launched
  <2>2. held' \subseteq (Runs \cup {Server}) \X Runs \X Ends
    BY <1>0, <1>3 DEF TypeOK
  <2> QED BY <1>1, <1>2, <1>3, <2>1, <2>2, FailsKeeps
<1>4. ASSUME NEW reads \in {FALSE, "reader" \in Env},
             child' = [child EXCEPT ![r] =
                         [st |-> "run", reads |-> reads, todo |-> Script[r]]],
             held' = held \cup Inherited(r),
             run' = [run EXCEPT ![r].st = "forked"],
             UNCHANGED <<at, sock>>
      PROVE  CgiInv'
  <2>1. /\ run' \in [Runs -> RunType]
        /\ run'[r].st = "forked" /\ run'[r].w = run[r].w
        /\ run'[r].s = run[r].s
        /\ run'[r].len = run[r].len /\ run'[r].buf = run[r].buf
        /\ \A q \in Runs \ {r} : run'[q] = run[q]
    <3>1. run[r] \in RunType
      BY <1>0 DEF TypeOK
    <3>2. PICK k : k = [run[r] EXCEPT !.st = "forked"]
      OBVIOUS
    <3>3. /\ k \in RunType /\ k.st = "forked" /\ k.w = run[r].w
          /\ k.s = run[r].s /\ k.len = run[r].len /\ k.buf = run[r].buf
      BY <3>1, <3>2 DEF RunType
    <3>4. run' = [run EXCEPT ![r] = k]
      BY <1>0, <1>4, <3>2 DEF TypeOK
    <3> QED BY <1>0, <3>3, <3>4 DEF TypeOK
  <2>2. /\ child' \in [Runs -> ChildType]
        /\ child'[r].st = "run"
        /\ \A q \in Runs \ {r} : child'[q] = child[q]
    <3>1. Script[r] \in Seq(Cells)
      BY CgiAssumption DEF Runs
    <3>2. reads \in BOOLEAN
      <4>1. CASE "reader" \in Env
        <5>1. ("reader" \in Env) = TRUE
          BY <4>1
        <5> QED BY <5>1
      <4>2. CASE "reader" \notin Env
        <5>1. ("reader" \in Env) = FALSE
          BY <4>2
        <5> QED BY <5>1
      <4> QED BY <4>1, <4>2
    <3>3. PICK k : k = [st |-> "run", reads |-> reads, todo |-> Script[r]]
      OBVIOUS
    <3>4. k \in ChildType /\ k.st = "run"
      BY <3>1, <3>2, <3>3 DEF ChildType
    <3> QED BY <1>0, <1>4, <3>3, <3>4 DEF TypeOK
  <2>3. /\ held' \subseteq (Runs \cup {Server}) \X Runs \X Ends
        /\ \A p \in Runs \cup {Server}, q \in Runs, e \in Ends :
             <<p, q, e>> \in held' => <<p, q, e>> \in held \/ p = r
    <3> HIDE DEF Ends
    <3>1. ASSUME NEW x \in Inherited(r)
          PROVE  x \in (Runs \cup {Server}) \X Runs \X Ends /\ x[1] = r
      <4>1. PICK h \in held : x = <<r, h[2], h[3]>>
        BY DEF Inherited
      <4>2. h[2] \in Runs /\ h[3] \in Ends
        BY <1>0 DEF TypeOK
      <4> QED BY <4>1, <4>2
    <3> QED BY <1>0, <1>4, <3>1 DEF TypeOK
  <2>4. TypeOK'
    BY <1>0, <1>2, <1>4, <2>1, <2>2, <2>3 DEF TypeOK
  <2>5. BufferOK'
    BY <1>0, <2>1 DEF BufferOK, Fits
  <2>6. (LaunchOK /\ OwnerOK /\ Listed)'
    BY <1>1, <1>2, <1>4, <2>1, LaunchMoves DEF Launching
  <2>7. ChildOK'
    BY <2>1, <2>2, <2>3 DEF CgiInv, ChildOK
  <2>8. EndsOK'
    <3>1. ASSUME NEW q \in Runs, run'[q].st \in {"fed", "on"}
          PROVE  /\ <<Server, q, "outW">> \notin held'
                 /\ <<Server, q, "inR">> \notin held'
      <4>1. q # r /\ run[q].st \in {"fed", "on"}
        BY <2>1, <3>1
      <4> QED BY <2>3, <4>1, ServerNoRun DEF CgiInv, EndsOK, Ends
    <3>2. ASSUME NEW q \in Runs, child'[q].st # "none",
                 run'[q].st # "forked", <<Server, q, "inW">> \in held'
          PROVE  post'[q] \in {"spawned", "astray"}
      <4>1. q # r /\ <<Server, q, "inW">> \in held
        BY <2>1, <2>3, <3>2, ServerNoRun DEF Ends
      <4> QED BY <1>2, <2>1, <2>2, <3>2, <4>1 DEF CgiInv, EndsOK
    <3> QED BY <3>1, <3>2 DEF EndsOK
  <2>9. OverOK'
    <3>1. ASSUME NEW q \in Runs, Over(q)'
          PROVE  /\ child'[q].st = "gone"
                 /\ \A e \in Ends \ {"inW"} : <<Server, q, e>> \notin held'
      <4>1. q # r /\ Over(q)
        BY <2>1, <3>1 DEF Over
      <4> QED BY <2>2, <2>3, <4>1, ServerNoRun DEF CgiInv, OverOK
    <3> QED BY <3>1 DEF OverOK
  <2> QED BY <2>4, <2>5, <2>6, <2>7, <2>8, <2>9 DEF CgiInv
<1> QED BY <1>3, <1>4 DEF Vfork

(* The parent closes its copies of the child's ends, and feeds it.         *)
LEMMA FeedKeeps ==
  ASSUME CgiInv, NEW w \in Workers, NEW r \in Runs, Feed(w, r)
  PROVE  CgiInv'
<1>0. TypeOK /\ BufferOK /\ LaunchOK /\ OwnerOK /\ Listed
  BY DEF CgiInv
<1>1. at[w] = {r} /\ run[r].st = "forked"
  BY DEF Feed
<1>2. UNCHANGED <<child, pipe, table, sock, at, batch>>
  BY DEF Feed
<1>3. /\ held' \subseteq held
      /\ <<Server, r, "inR">> \notin held'
      /\ <<Server, r, "outW">> \notin held'
  BY DEF Feed, ParentEnds
<1>4. /\ <<Server, r, "inW">> \in held' => post'[r] = "spawned"
      /\ \A q \in Runs \ {r} : post'[q] = post[q]
      /\ post' \in [Runs -> {"no", "spawned", "done", "astray"}]
  BY <1>0 DEF Feed, TypeOK
<1>5. /\ run' \in [Runs -> RunType]
      /\ run'[r].st = "fed" /\ run'[r].w = run[r].w
      /\ run'[r].s = run[r].s
      /\ run'[r].len = run[r].len /\ run'[r].buf = run[r].buf
      /\ \A q \in Runs \ {r} : run'[q] = run[q]
  <2>1. run[r] \in RunType
    BY <1>0 DEF TypeOK
  <2>2. PICK k : k = [run[r] EXCEPT !.st = "fed"]
    OBVIOUS
  <2>3. /\ k \in RunType /\ k.st = "fed" /\ k.w = run[r].w
        /\ k.s = run[r].s /\ k.len = run[r].len /\ k.buf = run[r].buf
    BY <2>1, <2>2 DEF RunType
  <2>4. run' = [run EXCEPT ![r] = k]
    BY <1>0, <2>2 DEF TypeOK, Feed
  <2> QED BY <1>0, <2>3, <2>4 DEF TypeOK
<1>6. TypeOK'
  BY <1>0, <1>2, <1>3, <1>4, <1>5 DEF TypeOK
<1>7. BufferOK'
  BY <1>0, <1>5 DEF BufferOK, Fits
<1>8. (LaunchOK /\ OwnerOK /\ Listed)'
  BY <1>1, <1>2, <1>5, LaunchMoves DEF Launching
<1>9. ChildOK'
  BY <1>1, <1>2, <1>3, <1>5 DEF CgiInv, ChildOK
<1>10. EndsOK'
  BY <1>2, <1>3, <1>4, <1>5 DEF CgiInv, EndsOK
<1>11. OverOK'
  BY <1>2, <1>3, <1>5 DEF CgiInv, OverOK, Over
<1> QED BY <1>6, <1>7, <1>8, <1>9, <1>10, <1>11 DEF CgiInv

(* The run is given to the event loop and entered in requests_by_socket.   *)
LEMMA RegisterKeeps ==
  ASSUME CgiInv, NEW w \in Workers, NEW r \in Runs, Register(w, r)
  PROVE  CgiInv'
<1>0. TypeOK /\ BufferOK /\ LaunchOK /\ OwnerOK /\ Listed
  BY DEF CgiInv
<1>1. at[w] = {r} /\ run[r].st = "fed"
  BY DEF Register
<1>2. UNCHANGED <<child, pipe, held, post, batch>>
  BY DEF Register
<1>3. /\ \A x \in Workers \ {w} : at[x] # {r}
      /\ \A x \in Workers : r \notin batch[x]
      /\ run[r].w = {w}
      /\ \A s \in run[r].s :
           s \in Sockets /\ sock[s].by = {w} /\ table[s] = {}
  BY <1>1, Launched
<1>4. ASSUME NEW s \in run[r].s, Fails(w, r, s), UNCHANGED table
      PROVE  CgiInv'
  <2>1. held' \subseteq (Runs \cup {Server}) \X Runs \X Ends
    BY <1>0, <1>2 DEF TypeOK
  <2> QED BY <1>1, <1>2, <1>3, <1>4, <2>1, FailsKeeps
<1>5. ASSUME NEW s \in run[r].s, NEW http11 \in BOOLEAN,
             run' = [run EXCEPT ![r] =
                       [@ EXCEPT !.st = "on", !.hangup = ~http11]],
             table' = [table EXCEPT ![s] = {r}],
             at' = [at EXCEPT ![w] = {}],
             UNCHANGED sock
      PROVE  CgiInv'
  <2>1. /\ run' \in [Runs -> RunType]
        /\ run'[r].st = "on" /\ run'[r].w = run[r].w
        /\ run'[r].s = run[r].s
        /\ run'[r].len = run[r].len /\ run'[r].buf = run[r].buf
        /\ \A q \in Runs \ {r} : run'[q] = run[q]
    <3>1. run[r] \in RunType
      BY <1>0 DEF TypeOK
    <3>2. PICK k : k = [run[r] EXCEPT !.st = "on", !.hangup = ~http11]
      OBVIOUS
    <3>3. /\ k \in RunType /\ k.st = "on" /\ k.w = run[r].w
          /\ k.s = run[r].s /\ k.len = run[r].len /\ k.buf = run[r].buf
      BY <3>1, <3>2 DEF RunType
    <3>4. run' = [run EXCEPT ![r] = k]
      BY <1>0, <1>5, <3>2 DEF TypeOK
    <3> QED BY <1>0, <3>3, <3>4 DEF TypeOK
  <2>2. /\ s \in Sockets /\ sock[s].by = {w} /\ table[s] = {}
        /\ run[r].s = {s}
    BY <1>0, <1>1, <1>3 DEF LaunchOK
  <2>3. /\ table' \in [Sockets -> SUBSET Runs] /\ table'[s] = {r}
        /\ \A t \in Sockets \ {s} : table'[t] = table[t]
    BY <1>0, <1>5, <2>2 DEF TypeOK
  <2>4. /\ at' \in [Workers -> SUBSET (Runs \cup {Server})]
        /\ at'[w] = {} /\ \A x \in Workers \ {w} : at'[x] = at[x]
    BY <1>0, <1>5 DEF TypeOK
  <2>5. TypeOK'
    BY <1>0, <1>2, <1>5, <2>1, <2>3, <2>4 DEF TypeOK
  <2>6. BufferOK'
    BY <1>0, <2>1 DEF BufferOK, Fits
  <2>7. LaunchOK'
    <3>1. ASSUME NEW x \in Workers, NEW q \in Runs, at'[x] = {q}
          PROVE  /\ run'[q].st \in Launching /\ run'[q].w = {x}
                 /\ \E t \in Sockets :
                      run'[q].s = {t} /\ sock'[t].by = {x} /\ table'[t] = {}
      <4>1. x # w /\ at[x] = {q} /\ q # r
        BY <1>3, <2>4, <3>1
      <4>2. PICK t \in Sockets :
              run[q].s = {t} /\ sock[t].by = {x} /\ table[t] = {}
        BY <1>0, <4>1 DEF LaunchOK
      <4>3. t # s
        BY <2>2, <4>1, <4>2
      <4> QED BY <1>0, <1>5, <2>1, <2>3, <4>1, <4>2, <4>3 DEF LaunchOK
    <3>2. ASSUME NEW q \in Runs, run'[q].st \in Launching
          PROVE  \E x \in Workers : at'[x] = {q} \/ at'[x] = Undefined
      <4>1. q # r
        BY <2>1, <3>2 DEF Launching
      <4>2. PICK x \in Workers : at[x] = {q} \/ at[x] = Undefined
        BY <1>0, <2>1, <3>2, <4>1 DEF LaunchOK
      <4>3. x # w
        BY <1>1, <4>1, <4>2, ServerNoRun DEF Undefined
      <4> QED BY <2>4, <4>2, <4>3
    <3> QED BY <3>1, <3>2 DEF LaunchOK
  <2>8. OwnerOK'
    <3>1. \A x \in Workers : batch[x] \subseteq Runs
      BY <1>0 DEF TypeOK
    <3> QED BY <1>0, <1>2, <1>3, <2>1, <3>1 DEF OwnerOK
  <2>9. ChildOK'
    BY <1>1, <1>2, <2>1 DEF CgiInv, ChildOK
  <2>10. EndsOK'
    BY <1>1, <1>2, <2>1 DEF CgiInv, EndsOK
  <2>11. OverOK'
    BY <1>2, <2>1 DEF CgiInv, OverOK, Over
  <2>12. Listed'
    <3>1. ASSUME NEW q \in Runs, run'[q].st = "on"
          PROVE  \E t \in Sockets :
                   /\ run'[q].s = {t} /\ table'[t] = {q}
                   /\ run'[q].cs # "gone" => sock'[t].by = run'[q].w
      <4>1. CASE q = r
        BY <1>3, <1>5, <2>1, <2>2, <2>3, <4>1, ZenonT(60)
      <4>2. CASE q # r
        <5>1. PICK t \in Sockets :
                /\ run[q].s = {t} /\ table[t] = {q}
                /\ run[q].cs # "gone" => sock[t].by = run[q].w
          BY <1>0, <2>1, <3>1, <4>2 DEF Listed
        <5>2. t # s
          BY <2>2, <5>1
        <5> QED BY <1>5, <2>1, <2>3, <4>2, <5>1, <5>2
      <4> QED BY <4>1, <4>2
    <3>2. ASSUME NEW t \in Sockets, NEW q \in table'[t]
          PROVE  run'[q].st = "on" /\ run'[q].s = {t}
      <4>1. CASE t = s
        BY <2>1, <2>2, <2>3, <4>1
      <4>2. CASE t # s
        <5>1. q \in Runs /\ q \in table[t]
          BY <1>0, <2>3, <4>2 DEF TypeOK
        <5>2. run[q].st = "on" /\ run[q].s = {t}
          BY <1>0, <5>1 DEF Listed
        <5> QED BY <1>1, <2>1, <5>1, <5>2
      <4> QED BY <4>1, <4>2
    <3> QED BY <3>1, <3>2 DEF Listed
  <2> QED
    BY <2>5, <2>6, <2>7, <2>8, <2>9, <2>10, <2>11, <2>12 DEF CgiInv
<1> QED BY <1>4, <1>5 DEF Register

-----------------------------------------------------------------------------
(* Threads, children and the event loop.                                   *)

(* A step that closes descriptors of the server's, or of a child that is   *)
(* gone afterwards, and ends no other child, keeps what the invariant says *)
(* of them.                                                                *)
LEMMA FewerEnds ==
  ASSUME CgiInv, \A r \in Runs : Same(r), held' \subseteq held,
         \A r \in Runs : \/ child'[r].st = child[r].st
                         \/ /\ child[r].st = "run" /\ child'[r].st = "gone"
                            /\ \A q \in Runs, e \in Ends :
                                 <<r, q, e>> \notin held',
         \A r \in Runs : <<Server, r, "inW">> \in held' =>
           post'[r] = post[r] \/ post'[r] = "astray"
  PROVE  (ChildOK /\ EndsOK /\ OverOK)'
<1>0. ChildOK /\ EndsOK /\ OverOK
  BY DEF CgiInv
<1>1. \A r \in Runs : run'[r].st = run[r].st
  BY DEF Same
<1>2. ChildOK'
  <2>1. ASSUME NEW r \in Runs, run'[r].st \in {"none", "piped"}
        PROVE  child'[r].st = "none"
    <3>1. child[r].st = "none"
      BY <1>0, <1>1, <2>1 DEF ChildOK
    <3> QED BY <3>1
  <2>2. ASSUME NEW p \in Runs, NEW r \in Runs, NEW e \in Ends,
               <<p, r, e>> \in held'
        PROVE  child'[p].st = "run"
    <3>1. child[p].st = "run"
      BY <1>0, <2>2 DEF ChildOK
    <3> QED BY <2>2, <3>1
  <2>3. \A r \in Runs : run'[r].st \in {"forked", "fed", "on"} =>
          child'[r].st # "none"
    BY <1>0, <1>1 DEF ChildOK
  <2> QED BY <2>1, <2>2, <2>3 DEF ChildOK
<1>3. EndsOK'
  <2>1. ASSUME NEW r \in Runs, child'[r].st # "none",
               run'[r].st # "forked", <<Server, r, "inW">> \in held'
        PROVE  post'[r] \in {"spawned", "astray"}
    <3>1. child[r].st # "none" /\ run[r].st # "forked"
      BY <1>1, <2>1
    <3>2. post[r] \in {"spawned", "astray"}
      BY <1>0, <2>1, <3>1 DEF EndsOK
    <3> QED BY <2>1, <3>2
  <2>2. \A r \in Runs : run'[r].st \in {"fed", "on"} =>
          /\ <<Server, r, "outW">> \notin held'
          /\ <<Server, r, "inR">> \notin held'
    BY <1>0, <1>1 DEF EndsOK
  <2> QED BY <2>1, <2>2 DEF EndsOK
<1>4. OverOK'
  <2>1. ASSUME NEW r \in Runs, Over(r)'
        PROVE  /\ child'[r].st = "gone"
               /\ \A e \in Ends \ {"inW"} : <<Server, r, e>> \notin held'
    <3>1. Over(r)
      BY <1>1, <2>1 DEF Over
    <3> QED BY <1>0, <3>1 DEF OverOK
  <2> QED BY <2>1 DEF OverOK
<1> QED BY <1>2, <1>3, <1>4

(* A thread writes a body, its own or another's, or none.                  *)
LEMMA WritePostKeeps ==
  ASSUME CgiInv, NEW r \in Runs, WritePost(r)
  PROVE  CgiInv'
<1>1. PICK victim \in PostFinds(r) :
        /\ held' = held \ {<<Server, q, "inW">> : q \in victim}
        /\ post' = [post EXCEPT ![r] =
                      IF victim = {r} THEN "done" ELSE "astray"]
  BY DEF WritePost
<1>2. UNCHANGED <<run, child, pipe, table, sock, at, batch>>
  BY DEF WritePost
<1>3. /\ post' \in [Runs -> {"no", "spawned", "done", "astray"}]
      /\ post'[r] = "done" \/ post'[r] = "astray"
      /\ post'[r] = "done" => victim = {r}
      /\ \A q \in Runs \ {r} : post'[q] = post[q]
  BY <1>1 DEF CgiInv, TypeOK
<1>4. post'[r] = "done" => <<Server, r, "inW">> \notin held'
  BY <1>1, <1>3
<1>5. held' \subseteq held
  BY <1>1
<1>6. TypeOK'
  BY <1>2, <1>3, <1>5 DEF CgiInv, TypeOK
<1>7. BufferOK'
  BY <1>2 DEF CgiInv, BufferOK
<1>8. \A q \in Runs : Same(q)
  BY <1>2 DEF Same
<1>9. (LaunchOK /\ OwnerOK /\ Listed)'
  BY <1>2, <1>8, QuietTable
<1>10. \A q \in Runs : <<Server, q, "inW">> \in held' =>
         post'[q] = post[q] \/ post'[q] = "astray"
  BY <1>3, <1>4
<1>11. (ChildOK /\ EndsOK /\ OverOK)'
  BY <1>2, <1>5, <1>8, <1>10, FewerEnds
<1> QED BY <1>6, <1>7, <1>9, <1>11 DEF CgiInv

(* A child writes a part of its output.                                    *)
LEMMA ChildWritesKeeps ==
  ASSUME CgiInv, NEW r \in Runs, ChildWrites(r)
  PROVE  CgiInv'
<1>1. PICK n \in 1..Len(child[r].todo) :
        /\ pipe' = [pipe EXCEPT ![r] = @ \o SubSeq(child[r].todo, 1, n)]
        /\ child' = [child EXCEPT ![r].todo = SubSeq(@, n + 1, Len(@))]
  BY DEF ChildWrites
<1>2. UNCHANGED <<run, held, post, table, sock, at, batch>>
  BY DEF ChildWrites
<1>3. child[r] \in ChildType /\ pipe[r] \in Seq(Cells)
  BY DEF CgiInv, TypeOK
<1>4. PICK todo : todo = child[r].todo
  OBVIOUS
<1>5. /\ todo \in Seq(Cells) /\ Len(todo) \in Nat
      /\ n \in 0..Len(todo) /\ n + 1 \in Nat \ {0}
      /\ Len(todo) \in 0..Len(todo)
  BY <1>3, <1>4 DEF ChildType
<1>6. /\ SubSeq(todo, 1, n) \in Seq(Cells)
      /\ SubSeq(todo, n + 1, Len(todo)) \in Seq(Cells)
  BY <1>5, Piece
<1>7. pipe' \in [Runs -> Seq(Cells)]
  <2>1. pipe[r] \o SubSeq(todo, 1, n) \in Seq(Cells)
    BY <1>3, <1>6, ConcatProperties
  <2>2. pipe' = [pipe EXCEPT ![r] = pipe[r] \o SubSeq(todo, 1, n)]
    BY <1>1, <1>4
  <2> QED BY <2>1, <2>2 DEF CgiInv, TypeOK
<1>8. /\ child' \in [Runs -> ChildType]
      /\ \A q \in Runs : child'[q].st = child[q].st
  <2>1. PICK k :
          k = [child[r] EXCEPT !.todo = SubSeq(todo, n + 1, Len(todo))]
    OBVIOUS
  <2>2. k \in ChildType /\ k.st = child[r].st
    BY <1>3, <1>6, <2>1 DEF ChildType
  <2>3. child' = [child EXCEPT ![r] = k]
    BY <1>1, <1>4, <2>1 DEF CgiInv, TypeOK
  <2> QED BY <2>2, <2>3 DEF CgiInv, TypeOK
<1>9. TypeOK'
  BY <1>2, <1>7, <1>8 DEF CgiInv, TypeOK
<1>10. BufferOK'
  BY <1>2 DEF CgiInv, BufferOK
<1>11. \A q \in Runs : Same(q)
  BY <1>2 DEF Same
<1>12. (LaunchOK /\ OwnerOK /\ Listed)'
  BY <1>2, <1>11, QuietTable
<1>13. (ChildOK /\ EndsOK /\ OverOK)'
  BY <1>2, <1>8, <1>11, FewerEnds
<1> QED BY <1>9, <1>10, <1>12, <1>13 DEF CgiInv

(* No descriptor of process p is left among those without it.              *)
LEMMA WithoutIt ==
  ASSUME NEW p, NEW H
  PROVE  /\ Without(p, H) \subseteq H
         /\ \A q, e : <<p, q, e>> \notin Without(p, H)
BY DEF Without

(* A child exits.                                                          *)
LEMMA ChildExitsKeeps ==
  ASSUME CgiInv, NEW r \in Runs, ChildExits(r)
  PROVE  CgiInv'
<1>1. /\ child[r].st = "run"
      /\ held' = Without(r, held)
      /\ child' = [child EXCEPT ![r] = Gone]
      /\ UNCHANGED <<run, pipe, post, table, sock, at, batch>>
  BY DEF ChildExits, Ready
<1>2. Gone \in ChildType /\ Gone.st = "gone"
  <2>1. <<>> \in Seq(Cells)
    OBVIOUS
  <2> QED BY <2>1 DEF Gone, ChildType
<1>3. /\ child' \in [Runs -> ChildType] /\ child'[r].st = "gone"
      /\ \A q \in Runs \ {r} : child'[q] = child[q]
  BY <1>1, <1>2 DEF CgiInv, TypeOK
<1>4. held' \subseteq held /\ \A q, e : <<r, q, e>> \notin held'
  BY <1>1, WithoutIt
<1>5. TypeOK'
  BY <1>1, <1>3, <1>4 DEF CgiInv, TypeOK
<1>6. BufferOK'
  BY <1>1 DEF CgiInv, BufferOK
<1>7. \A q \in Runs : Same(q)
  BY <1>1 DEF Same
<1>8. (LaunchOK /\ OwnerOK /\ Listed)'
  BY <1>1, <1>7, QuietTable
<1>9. (ChildOK /\ EndsOK /\ OverOK)'
  <2>1. \A q \in Runs : \/ child'[q].st = child[q].st
                        \/ /\ child[q].st = "run" /\ child'[q].st = "gone"
                           /\ \A x \in Runs, e \in Ends :
                                <<q, x, e>> \notin held'
    BY <1>1, <1>3, <1>4
  <2> QED BY <1>1, <1>4, <1>7, <2>1, FewerEnds
<1> QED BY <1>5, <1>6, <1>8, <1>9 DEF CgiInv

(* A round of the event loop begins.                                       *)
LEMMA WaitKeeps ==
  ASSUME CgiInv, NEW w \in Workers, Wait(w)
  PROVE  CgiInv'
<1>0. TypeOK /\ BufferOK /\ LaunchOK /\ OwnerOK /\ Listed
  BY DEF CgiInv
<1>1. UNCHANGED <<child, pipe, held, post, table, sock, at>>
  BY DEF Wait
<1>2. ASSUME NEW r \in Runs
      PROVE  /\ run'[r] \in RunType
             /\ run'[r].w = run[r].w /\ run'[r].s = run[r].s
             /\ run'[r].cs = run[r].cs
             /\ run'[r].len = run[r].len /\ run'[r].buf = run[r].buf
             /\ run'[r].st = run[r].st
                  \/ (run[r].st = "queued" /\ run'[r].st = "freed")
  <2>1. run[r] \in RunType
    BY <1>0 DEF TypeOK
  <2>2. CASE run'[r] = run[r]
    BY <2>1, <2>2
  <2>3. CASE /\ run[r].st = "queued"
             /\ run'[r] = [run[r] EXCEPT !.st = "freed"]
    BY <2>1, <2>3 DEF RunType
  <2> QED BY <2>2, <2>3 DEF Wait
<1>3. /\ \A r \in Runs : run'[r].w = run[r].w
      /\ \A r \in Runs : run'[r].s = run[r].s
      /\ \A r \in Runs : run'[r].cs = run[r].cs
      /\ \A r \in Runs : run'[r].st = run[r].st
           \/ (run[r].st = "queued" /\ run'[r].st = "freed")
  BY <1>2
<1>4. PICK B \in SUBSET {r \in Registered(w) : Readable(r)} :
        batch' = [batch EXCEPT ![w] = B]
  BY DEF Wait
<1>5. ASSUME NEW r \in B
      PROVE  /\ r \in Runs /\ run[r].st \in {"on", "queued", "freed"}
             /\ run[r].w = {w}
  BY DEF Registered
<1>6. /\ batch' \in [Workers -> SUBSET Runs] /\ batch'[w] = B
      /\ \A x \in Workers \ {w} : batch'[x] = batch[x]
  BY <1>0, <1>4, <1>5 DEF TypeOK
<1>7. TypeOK'
  <2>1. run' = [r \in Runs |-> run'[r]]
    BY DEF Wait
  <2>2. run' \in [Runs -> RunType]
    BY <1>2, <2>1
  <2> QED BY <1>0, <1>1, <1>6, <2>2 DEF TypeOK
<1>8. BufferOK'
  BY <1>0, <1>2 DEF BufferOK, Fits
<1>9. LaunchOK'
  <2>1. \A r \in Runs : run'[r].st \in Launching <=> run[r].st \in Launching
    BY <1>3 DEF Launching
  <2>2. ASSUME NEW x \in Workers, NEW q \in Runs, at[x] = {q}
        PROVE  /\ run'[q].st \in Launching /\ run'[q].w = {x}
               /\ \E t \in Sockets :
                    run'[q].s = {t} /\ sock[t].by = {x} /\ table[t] = {}
    <3>1. /\ run[q].st \in Launching /\ run[q].w = {x}
          /\ \E t \in Sockets :
               run[q].s = {t} /\ sock[t].by = {x} /\ table[t] = {}
      BY <1>0, <2>2 DEF LaunchOK
    <3> QED BY <1>3, <2>1, <3>1
  <2>3. \A q \in Runs : run'[q].st \in Launching =>
          \E x \in Workers : at[x] = {q} \/ at[x] = Undefined
    BY <1>0, <2>1 DEF LaunchOK
  <2> QED BY <1>1, <2>2, <2>3, ZenonT(60) DEF LaunchOK
<1>10. OwnerOK'
  <2>1. \A r \in Runs : run'[r].st = "on" => \E x \in Workers : run'[r].w = {x}
    BY <1>0, <1>3 DEF OwnerOK
  <2>2. ASSUME NEW x \in Workers, NEW r \in batch'[x]
        PROVE  run'[r].st \in {"on", "queued", "freed"} /\ run'[r].w = {x}
    <3>1. /\ r \in Runs /\ run[r].st \in {"on", "queued", "freed"}
          /\ run[r].w = {x}
      BY <1>0, <1>5, <1>6 DEF OwnerOK, TypeOK
    <3> QED BY <1>3, <3>1
  <2> QED BY <2>1, <2>2 DEF OwnerOK
<1>11. ChildOK'
  <2>1. \A r \in Runs :
          /\ run'[r].st \in {"none", "piped"} => run[r].st \in {"none", "piped"}
          /\ run'[r].st \in {"forked", "fed", "on"} =>
               run[r].st \in {"forked", "fed", "on"}
    BY <1>3
  <2> QED BY <1>1, <2>1 DEF CgiInv, ChildOK
<1>12. EndsOK'
  <2>1. \A r \in Runs :
          /\ run'[r].st \in {"fed", "on"} => run[r].st \in {"fed", "on"}
          /\ run'[r].st # "forked" => run[r].st # "forked"
    BY <1>3
  <2> QED BY <1>1, <2>1 DEF CgiInv, EndsOK
<1>13. OverOK'
  <2>1. \A r \in Runs : Over(r)' => Over(r)
    BY <1>3 DEF Over
  <2> QED BY <1>1, <2>1 DEF CgiInv, OverOK
<1>14. Listed'
  <2>1. \A r \in Runs : run'[r].st = "on" <=> run[r].st = "on"
    BY <1>3
  <2>2. \A t \in Sockets : table[t] \subseteq Runs
    BY <1>0 DEF TypeOK
  <2>3. ASSUME NEW q \in Runs, run'[q].st = "on"
        PROVE  \E t \in Sockets :
                 /\ run'[q].s = {t} /\ table[t] = {q}
                 /\ run'[q].cs # "gone" => sock[t].by = run'[q].w
    <3>1. PICK t \in Sockets :
            /\ run[q].s = {t} /\ table[t] = {q}
            /\ run[q].cs # "gone" => sock[t].by = run[q].w
      BY <1>0, <2>1, <2>3 DEF Listed
    <3> QED BY <1>3, <3>1
  <2>4. \A t \in Sockets : \A q \in table[t] :
          run'[q].st = "on" /\ run'[q].s = {t}
    BY <1>0, <1>3, <2>1, <2>2 DEF Listed
  <2> QED BY <1>1, <2>3, <2>4 DEF Listed
<1> QED BY <1>7, <1>8, <1>9, <1>10, <1>11, <1>12, <1>13, <1>14 DEF CgiInv

(* A step of the loop that changes no run but for in_buf and cs, and       *)
(* leaves descriptors, children and connections alone.                     *)
LEMMA LoopQuiet ==
  ASSUME CgiInv, TypeOK', BufferOK', \A r \in Runs : Same(r),
         \A r \in Runs : run'[r].cs = run[r].cs,
         UNCHANGED <<child, held, post, table>>,
         \A t \in Sockets : sock'[t].by = sock[t].by,
         at' = at \/ at' = [x \in Workers |-> Undefined],
         \A x \in Workers : batch'[x] \subseteq batch[x]
  PROVE  CgiInv'
<1>1. \A t \in Sockets : \A q \in table[t] : q \in Runs
  BY DEF CgiInv, TypeOK
<1>2. \A t \in Sockets : \A q \in table[t] :
        /\ run'[q].cs # "gone"
        /\ run[q].cs # "gone" => sock[t].by = run[q].w
        => sock'[t].by = run[q].w
  BY <1>1
<1>3. (LaunchOK /\ OwnerOK /\ Listed)'
  BY <1>2, QuietTable
<1>4. (ChildOK /\ EndsOK /\ OverOK)'
  BY QuietEnds
<1> QED BY <1>3, <1>4 DEF CgiInv

(* A visit takes the run out of the worker's batch.                        *)
LEMMA Visits ==
  ASSUME TypeOK, NEW w \in Workers, NEW r \in Runs, Visit(w, r)
  PROVE  /\ batch' \in [Workers -> SUBSET Runs]
         /\ \A x \in Workers : batch'[x] \subseteq batch[x]
         /\ at[w] = {} /\ r \in batch[w] /\ post' = post
         /\ r \notin batch'[w]
BY DEF Visit, TypeOK

(* cb_cgi_read finds data.                                                 *)
LEMMA CgiReadKeeps ==
  ASSUME CgiInv, NEW w \in Workers, NEW r \in Runs, CgiRead(w, r)
  PROVE  CgiInv' /\ \A q \in Runs : Same(q)
<1>0. TypeOK /\ BufferOK
  BY DEF CgiInv
<1>1. /\ batch' \in [Workers -> SUBSET Runs]
      /\ \A x \in Workers : batch'[x] \subseteq batch[x]
      /\ post' = post
  BY <1>0, Visits DEF CgiRead
<1>2. UNCHANGED <<child, held, table, sock, at>>
  BY DEF CgiRead
<1>3. /\ run[r] \in RunType /\ pipe[r] \in Seq(Cells) /\ Fits(run[r])
      /\ Room(r) > 0 /\ pipe[r] # <<>>
  BY <1>0 DEF TypeOK, BufferOK, CgiRead
<1>4. PICK buf, len : buf = run[r].buf /\ len = run[r].len
  OBVIOUS
<1>5. /\ buf \in Seq(Cells) /\ len \in Nat /\ len \in 0..Len(buf)
      /\ Len(buf) \in Nat /\ Len(pipe[r]) \in Nat
      /\ BUFLEN \in Nat /\ len <= BUFLEN /\ Room(r) = BUFLEN - len
  BY <1>3, <1>4, CgiAssumption DEF RunType, Fits, Room
<1>6. PICK n : n = Min({Room(r), Len(pipe[r])})
  OBVIOUS
<1>7. n \in 0..Len(pipe[r]) /\ n \in Nat /\ n <= BUFLEN - len
  <2>1. PICK T : T = {Room(r), Len(pipe[r])}
    OBVIOUS
  <2>2. T \subseteq Nat /\ T # {}
    BY <1>5, <2>1
  <2>3. Min(T) \in T /\ \A y \in T : Min(T) <= y
    BY <2>2, Least
  <2>4. n \in Nat /\ n <= Len(pipe[r]) /\ n <= Room(r)
    BY <1>6, <2>1, <2>2, <2>3
  <2> QED BY <1>5, <2>4
<1>8. PICK more : more = ReadMore(r, n)
  OBVIOUS
<1>9. more \in Seq(Cells) /\ Len(more) = len + n
  <2>1. /\ SubSeq(buf, 1, len) \in Seq(Cells)
        /\ Len(SubSeq(buf, 1, len)) = len
    BY <1>5, Piece
  <2>2. /\ SubSeq(pipe[r], 1, n) \in Seq(Cells)
        /\ Len(SubSeq(pipe[r], 1, n)) = n
    BY <1>3, <1>7, Piece
  <2>3. more = SubSeq(buf, 1, len) \o SubSeq(pipe[r], 1, n)
    BY <1>4, <1>8 DEF ReadMore
  <2> QED BY <2>1, <2>2, <2>3, ConcatProperties
<1>10. PICK k : k = [run[r] EXCEPT !.buf = more, !.len = len + n]
  OBVIOUS
<1>11. /\ k \in RunType /\ Fits(k)
       /\ k.st = run[r].st /\ k.w = run[r].w /\ k.s = run[r].s
       /\ k.cs = run[r].cs
  <2>1. len + n \in Nat /\ len + n <= BUFLEN
    BY <1>5, <1>7
  <2>2. /\ k \in RunType /\ k.buf = more /\ k.len = len + n
        /\ k.st = run[r].st /\ k.w = run[r].w /\ k.s = run[r].s
        /\ k.cs = run[r].cs
    BY <1>3, <1>9, <1>10, <2>1 DEF RunType
  <2> QED BY <1>9, <2>1, <2>2 DEF Fits
<1>12. PICK o : o = Process(k)
  OBVIOUS
<1>13. /\ run' = [run EXCEPT ![r] = o.q]
       /\ pipe' = [pipe EXCEPT ![r] = SubSeq(@, n + 1, Len(@))]
  BY <1>4, <1>6, <1>8, <1>10, <1>12, Zenon DEF CgiRead
<1>14. /\ o.q \in RunType /\ Fits(o.q)
       /\ o.q.st = run[r].st /\ o.q.w = run[r].w /\ o.q.s = run[r].s
       /\ o.q.cs = run[r].cs
  BY <1>11, <1>12, Processes, Zenon
<1>15. /\ run' \in [Runs -> RunType] /\ run'[r] = o.q
       /\ \A q \in Runs \ {r} : run'[q] = run[q]
  BY <1>0, <1>13, <1>14 DEF TypeOK
<1>16. pipe' \in [Runs -> Seq(Cells)]
  <2>1. n + 1 \in Nat \ {0} /\ Len(pipe[r]) \in 0..Len(pipe[r])
    BY <1>5, <1>7
  <2>2. SubSeq(pipe[r], n + 1, Len(pipe[r])) \in Seq(Cells)
    BY <1>3, <2>1, Piece
  <2> QED BY <1>0, <1>13, <2>2 DEF TypeOK
<1>17. TypeOK'
  BY <1>0, <1>1, <1>2, <1>15, <1>16 DEF TypeOK
<1>18. BufferOK'
  BY <1>0, <1>14, <1>15 DEF BufferOK, Fits
<1>19. \A q \in Runs : Same(q) /\ run'[q].cs = run[q].cs
  BY <1>14, <1>15 DEF Same
<1> QED BY <1>1, <1>2, <1>17, <1>18, <1>19, LoopQuiet

(* cgi_finish of a registered run, in any context that calls it.           *)
LEMMA FinishKeeps ==
  ASSUME CgiInv, NEW r \in Runs, NEW s \in Sockets, NEW active \in BOOLEAN,
         NEW closes \in BOOLEAN, run[r].st = "on", run[r].s = {s},
         Finish(r, s, active, closes), pipe' = pipe, post' = post,
         at' = at \/ at' = [x \in Workers |-> Undefined],
         batch' \in [Workers -> SUBSET Runs],
         \A x \in Workers : batch'[x] \subseteq batch[x]
  PROVE  CgiInv'
<1>0. TypeOK /\ BufferOK /\ LaunchOK /\ OwnerOK /\ Listed
  BY DEF CgiInv
<1>1. table[s] = {r}
  BY <1>0 DEF Listed
<1>2. /\ run' \in [Runs -> RunType]
      /\ run'[r].st \in {"queued", "freed"} /\ run'[r].w = run[r].w
      /\ run'[r].len = 0 /\ run'[r].buf = <<>>
      /\ \A q \in Runs \ {r} : run'[q] = run[q]
  <2>1. PICK k :
          k = [NoRun EXCEPT !.st = Released(active), !.w = run[r].w]
    OBVIOUS
  <2>2. /\ Released(active) \in {"queued", "freed"}
        /\ run[r].w \in SUBSET Workers /\ <<>> \in Seq(Cells)
    BY <1>0 DEF Released, TypeOK, RunType
  <2>3. /\ k \in RunType /\ k.st \in {"queued", "freed"}
        /\ k.w = run[r].w /\ k.len = 0 /\ k.buf = <<>>
    BY <2>1, <2>2 DEF NoRun, RunType
  <2>4. run' = [run EXCEPT ![r] = k]
    BY <2>1 DEF Finish
  <2> QED BY <1>0, <2>3, <2>4 DEF TypeOK
<1>3. /\ held' \subseteq held /\ <<Server, r, "outR">> \notin held'
      /\ \A q, e : <<r, q, e>> \notin held'
  <2>1. held' = Without(r, held \ {<<Server, r, "outR">>})
    BY DEF Finish, Killed
  <2> QED BY <2>1, WithoutIt
<1>4. /\ child' \in [Runs -> ChildType] /\ child'[r].st = "gone"
      /\ \A q \in Runs \ {r} : child'[q] = child[q]
  <2>1. <<>> \in Seq(Cells)
    OBVIOUS
  <2>2. Gone \in ChildType /\ Gone.st = "gone"
    BY <2>1 DEF Gone, ChildType
  <2> QED BY <1>0, <2>2 DEF Finish, TypeOK
<1>5. /\ table' \in [Sockets -> SUBSET Runs] /\ table'[s] = {}
      /\ \A t \in Sockets \ {s} : table'[t] = table[t]
  BY <1>0 DEF Finish, Unlisted, TypeOK
<1>6. /\ sock' \in [Sockets -> [by : SUBSET Workers, busy : BOOLEAN]]
      /\ \A t \in Sockets \ {s} : sock'[t] = sock[t]
  <2>1. PICK k : k = IF closes THEN NoConn
                     ELSE [sock[s] EXCEPT !.busy = FALSE]
    OBVIOUS
  <2>2. k \in [by : SUBSET Workers, busy : BOOLEAN]
    <3>1. sock[s] \in [by : SUBSET Workers, busy : BOOLEAN]
      BY <1>0 DEF TypeOK
    <3>2. CASE closes
      BY <2>1, <3>2 DEF NoConn
    <3>3. CASE ~closes
      <4>1. k = [sock[s] EXCEPT !.busy = FALSE]
        BY <2>1, <3>3
      <4> QED BY <3>1, <4>1
    <3> QED BY <3>2, <3>3
  <2>3. sock' = [sock EXCEPT ![s] = k]
    BY <2>1 DEF Finish
  <2> QED BY <1>0, <2>2, <2>3 DEF TypeOK
<1>7. at' \in [Workers -> SUBSET (Runs \cup {Server})]
  BY <1>0 DEF TypeOK, Undefined
<1>8. TypeOK'
  BY <1>0, <1>2, <1>3, <1>4, <1>5, <1>6, <1>7 DEF TypeOK
<1>9. BufferOK'
  BY <1>0, <1>2, CgiAssumption DEF BufferOK, Fits
<1>10. LaunchOK'
  <2>1. ASSUME NEW x \in Workers, NEW q \in Runs, at'[x] = {q}
        PROVE  /\ run'[q].st \in Launching /\ run'[q].w = {x}
               /\ \E t \in Sockets :
                    run'[q].s = {t} /\ sock'[t].by = {x} /\ table'[t] = {}
    <3>1. at[x] = {q}
      BY <2>1, ServerNoRun DEF Undefined
    <3>2. run[q].st \in Launching /\ run[q].w = {x}
      BY <1>0, <3>1 DEF LaunchOK
    <3>3. q # r
      BY <3>2 DEF Launching
    <3>4. PICK t \in Sockets :
            run[q].s = {t} /\ sock[t].by = {x} /\ table[t] = {}
      BY <1>0, <3>1 DEF LaunchOK
    <3>5. t # s
      BY <1>1, <3>4
    <3>6. run'[q] = run[q]
      BY <1>2, <3>3
    <3>7. sock'[t] = sock[t] /\ table'[t] = table[t]
      BY <1>5, <1>6, <3>5
    <3> QED BY <3>2, <3>4, <3>6, <3>7
  <2>2. ASSUME NEW q \in Runs, run'[q].st \in Launching
        PROVE  \E x \in Workers : at'[x] = {q} \/ at'[x] = Undefined
    <3>1. q # r
      BY <1>2, <2>2 DEF Launching
    <3>2. PICK x \in Workers : at[x] = {q} \/ at[x] = Undefined
      BY <1>0, <1>2, <2>2, <3>1 DEF LaunchOK
    <3>3. at'[x] = at[x] \/ at'[x] = Undefined
      OBVIOUS
    <3> QED BY <3>2, <3>3
  <2> QED BY <2>1, <2>2 DEF LaunchOK
<1>11. OwnerOK'
  <2>1. \A q \in Runs : run'[q].st = "on" => \E x \in Workers : run'[q].w = {x}
    BY <1>0, <1>2 DEF OwnerOK
  <2>2. ASSUME NEW x \in Workers, NEW q \in batch'[x]
        PROVE  run'[q].st \in {"on", "queued", "freed"} /\ run'[q].w = {x}
    <3>1. /\ q \in Runs /\ run[q].st \in {"on", "queued", "freed"}
          /\ run[q].w = {x}
      BY <1>0 DEF OwnerOK, TypeOK
    <3> QED BY <1>2, <3>1
  <2> QED BY <2>1, <2>2 DEF OwnerOK
<1>12. ChildOK'
  <2>0. ChildOK
    BY DEF CgiInv
  <2>1. \A q \in Runs : run'[q].st \in {"none", "piped"} =>
          child'[q].st = "none"
    BY <1>2, <1>4, <2>0 DEF ChildOK
  <2>2. \A q \in Runs : run'[q].st \in {"forked", "fed", "on"} =>
          child'[q].st # "none"
    BY <1>2, <1>4, <2>0 DEF ChildOK
  <2>3. ASSUME NEW p \in Runs, NEW q \in Runs, NEW e \in Ends,
               <<p, q, e>> \in held'
        PROVE  child'[p].st = "run"
    <3>1. p # r /\ <<p, q, e>> \in held
      BY <1>3, <2>3
    <3> QED BY <1>4, <2>0, <3>1 DEF ChildOK
  <2> QED BY <2>1, <2>2, <2>3 DEF ChildOK
<1>13. EndsOK'
  <2>0. EndsOK /\ child[r].st # "none"
    BY DEF CgiInv, ChildOK
  <2>1. \A q \in Runs : run'[q].st \in {"fed", "on"} =>
          /\ <<Server, q, "outW">> \notin held'
          /\ <<Server, q, "inR">> \notin held'
    BY <1>2, <1>3, <2>0 DEF EndsOK
  <2>2. ASSUME NEW q \in Runs, child'[q].st # "none",
               run'[q].st # "forked", <<Server, q, "inW">> \in held'
        PROVE  post'[q] \in {"spawned", "astray"}
    <3>1. child[q].st # "none" /\ run[q].st # "forked"
      BY <1>2, <1>4, <2>0, <2>2
    <3> QED BY <1>3, <2>0, <2>2, <3>1 DEF EndsOK
  <2> QED BY <2>1, <2>2 DEF EndsOK
<1>14. OverOK'
  <2>0. EndsOK /\ OverOK
    BY DEF CgiInv
  <2>1. ASSUME NEW q \in Runs, Over(q)'
        PROVE  /\ child'[q].st = "gone"
               /\ \A e \in Ends \ {"inW"} : <<Server, q, e>> \notin held'
    <3>1. CASE q = r
      <4>1. /\ <<Server, r, "outW">> \notin held'
            /\ <<Server, r, "inR">> \notin held'
        BY <1>3, <2>0 DEF EndsOK
      <4> QED BY <1>3, <1>4, <3>1, <4>1 DEF Ends
    <3>2. CASE q # r
      <4>1. Over(q)
        BY <1>2, <2>1, <3>2 DEF Over
      <4> QED BY <1>3, <1>4, <2>0, <3>2, <4>1 DEF OverOK
    <3> QED BY <3>1, <3>2
  <2> QED BY <2>1 DEF OverOK
<1>15. Listed'
  <2>1. ASSUME NEW q \in Runs, run'[q].st = "on"
        PROVE  \E t \in Sockets :
                 /\ run'[q].s = {t} /\ table'[t] = {q}
                 /\ run'[q].cs # "gone" => sock'[t].by = run'[q].w
    <3>1. q # r /\ run'[q] = run[q]
      BY <1>2, <2>1
    <3>2. PICK t \in Sockets :
            /\ run[q].s = {t} /\ table[t] = {q}
            /\ run[q].cs # "gone" => sock[t].by = run[q].w
      BY <1>0, <2>1, <3>1 DEF Listed
    <3>3. t # s
      BY <1>1, <3>1, <3>2
    <3> QED BY <1>5, <1>6, <3>1, <3>2, <3>3
  <2>2. ASSUME NEW t \in Sockets, NEW q \in table'[t]
        PROVE  run'[q].st = "on" /\ run'[q].s = {t}
    <3>1. t # s /\ q \in Runs /\ q \in table[t]
      BY <1>0, <1>5 DEF TypeOK
    <3>2. run[q].st = "on" /\ run[q].s = {t}
      BY <1>0, <3>1 DEF Listed
    <3>3. q # r
      BY <3>1, <3>2
    <3> QED BY <1>2, <3>1, <3>2, <3>3
  <2> QED BY <2>1, <2>2 DEF Listed
<1> QED
  BY <1>8, <1>9, <1>10, <1>11, <1>12, <1>13, <1>14, <1>15 DEF CgiInv

(* cb_cgi_read finds the end, or has no room.                              *)
LEMMA CgiEndKeeps ==
  ASSUME CgiInv, NEW w \in Workers, NEW r \in Runs, CgiEnd(w, r)
  PROVE  CgiInv'
<1>1. PICK s \in run[r].s, closes \in BOOLEAN : Finish(r, s, TRUE, closes)
  BY DEF CgiEnd
<1>2. /\ run[r].st = "on" /\ pipe' = pipe /\ at' = at
      /\ Visit(w, r)
  BY DEF CgiEnd
<1>3. s \in Sockets /\ run[r].s = {s}
  BY <1>2 DEF CgiInv, Listed
<1>4. /\ batch' \in [Workers -> SUBSET Runs]
      /\ \A x \in Workers : batch'[x] \subseteq batch[x]
      /\ post' = post
  BY <1>2, Visits DEF CgiInv
<1> QED BY <1>1, <1>2, <1>3, <1>4, FinishKeeps

(* An idle event is skipped.                                               *)
LEMMA SkipIdleKeeps ==
  ASSUME CgiInv, NEW w \in Workers, NEW r \in Runs, SkipIdle(w, r)
  PROVE  CgiInv'
<1>1. UNCHANGED <<run, child, pipe, held, table, sock, at>>
  BY DEF SkipIdle
<1>2. /\ batch' \in [Workers -> SUBSET Runs]
      /\ \A x \in Workers : batch'[x] \subseteq batch[x]
      /\ post' = post
  BY Visits DEF CgiInv, SkipIdle
<1>3. TypeOK'
  BY <1>1, <1>2 DEF CgiInv, TypeOK
<1>4. BufferOK'
  BY <1>1 DEF CgiInv, BufferOK
<1>5. \A q \in Runs : Same(q)
  BY <1>1 DEF Same
<1> QED BY <1>1, <1>2, <1>3, <1>4, <1>5, LoopQuiet

(* A freed run is visited: no worker does anything afterwards.             *)
LEMMA VisitFreedKeeps ==
  ASSUME CgiInv, NEW w \in Workers, NEW r \in Runs, VisitFreed(w, r)
  PROVE  CgiInv'
<1>1. UNCHANGED <<run, child, pipe, held, table, sock>>
  BY DEF VisitFreed
<1>2. /\ batch' \in [Workers -> SUBSET Runs]
      /\ \A x \in Workers : batch'[x] \subseteq batch[x]
      /\ post' = post
  BY Visits DEF CgiInv, VisitFreed
<1>3. at' = [x \in Workers |-> Undefined]
  BY DEF VisitFreed
<1>4. TypeOK'
  <2>1. at' \in [Workers -> SUBSET (Runs \cup {Server})]
    BY <1>3 DEF Undefined
  <2> QED BY <1>1, <1>2, <2>1 DEF CgiInv, TypeOK
<1>5. BufferOK'
  BY <1>1 DEF CgiInv, BufferOK
<1>6. \A q \in Runs : Same(q)
  BY <1>1 DEF Same
<1> QED BY <1>1, <1>2, <1>3, <1>4, <1>5, <1>6, LoopQuiet

(* A connection is closed: without the plugin's knowing, or with           *)
(* mk_cgi_stage30_hangup.                                                  *)
LEMMA HangupKeeps ==
  ASSUME CgiInv, NEW w \in Workers, NEW s \in Sockets, Hangup(w, s)
  PROVE  CgiInv'
<1>0. TypeOK /\ BufferOK /\ LaunchOK /\ OwnerOK /\ Listed
  BY DEF CgiInv
<1>1. /\ sock[s].by = {w} /\ at[w] = {}
      /\ UNCHANGED <<pipe, post, batch>>
  BY DEF Hangup
<1>2. ASSUME NEW r \in table[s], Finish(r, s, FALSE, TRUE),
             at' = IF run[r].cs = "gone" THEN [x \in Workers |-> Undefined]
                   ELSE at
      PROVE  CgiInv'
  <2>1. r \in Runs /\ run[r].st = "on" /\ run[r].s = {s}
    BY <1>0 DEF TypeOK, Listed
  <2>2. at' = at \/ at' = [x \in Workers |-> Undefined]
    BY <1>2
  <2>3. /\ batch' \in [Workers -> SUBSET Runs]
        /\ \A x \in Workers : batch'[x] \subseteq batch[x]
    BY <1>0, <1>1 DEF TypeOK
  <2> QED BY <1>1, <1>2, <2>1, <2>2, <2>3, FinishKeeps
<1>3. ASSUME sock' = [sock EXCEPT ![s] = NoConn],
             run' = [r \in Runs |->
                       IF r \in table[s]
                       THEN [run[r] EXCEPT !.cs = "gone"] ELSE run[r]],
             UNCHANGED <<child, held, table, at>>
      PROVE  CgiInv'
  <2>1. ASSUME NEW r \in Runs
        PROVE  /\ run'[r] \in RunType /\ Same(r)
               /\ run'[r].len = run[r].len /\ run'[r].buf = run[r].buf
               /\ r \in table[s] => run'[r].cs = "gone"
               /\ r \notin table[s] => run'[r].cs = run[r].cs
    <3>1. run[r] \in RunType
      BY <1>0 DEF TypeOK
    <3>2. CASE r \notin table[s]
      BY <1>3, <3>1, <3>2 DEF Same
    <3>3. CASE r \in table[s]
      <4>1. run'[r] = [run[r] EXCEPT !.cs = "gone"]
        BY <1>3, <3>3
      <4> QED BY <3>1, <3>3, <4>1 DEF Same, RunType
    <3> QED BY <3>2, <3>3
  <2>2. /\ sock' \in [Sockets -> [by : SUBSET Workers, busy : BOOLEAN]]
        /\ \A t \in Sockets \ {s} : sock'[t] = sock[t]
    BY <1>0, <1>3 DEF NoConn, TypeOK
  <2>3. TypeOK'
    <3>1. run' \in [Runs -> RunType]
      BY <1>3, <2>1
    <3> QED BY <1>0, <1>1, <1>3, <2>2, <3>1 DEF TypeOK
  <2>4. BufferOK'
    BY <1>0, <2>1 DEF BufferOK, Fits
  <2>5. \A r \in Runs : Same(r)
    BY <2>1
  <2>6. ASSUME NEW t \in Sockets, NEW q \in table[t],
               run'[q].cs # "gone",
               run[q].cs # "gone" => sock[t].by = run[q].w
        PROVE  sock'[t].by = run[q].w
    <3>1. q \in Runs
      BY <1>0 DEF TypeOK
    <3>2. t # s /\ q \notin table[s]
      BY <2>1, <2>6, <3>1
    <3> QED BY <2>1, <2>2, <2>6, <3>1, <3>2
  <2>7. \A x \in Workers, t \in Sockets :
          at[x] # {} /\ sock[t].by = {x} /\ table[t] = {} =>
            sock'[t].by = {x}
    BY <1>1, <2>2
  <2>8. (LaunchOK /\ OwnerOK /\ Listed)'
    BY <1>1, <1>3, <2>5, <2>6, <2>7, QuietTable
  <2>9. (ChildOK /\ EndsOK /\ OverOK)'
    BY <1>1, <1>3, <2>5, QuietEnds
  <2> QED BY <2>3, <2>4, <2>8, <2>9 DEF CgiInv
<1> QED BY <1>2, <1>3 DEF Hangup

(* mk_http_sched_done ends the request early.                              *)
LEMMA DrainedKeeps ==
  ASSUME CgiInv, NEW w \in Workers, NEW s \in Sockets, Drained(w, s)
  PROVE  CgiInv'
<1>0. TypeOK /\ BufferOK /\ LaunchOK /\ OwnerOK /\ Listed
  BY DEF CgiInv
<1>1. UNCHANGED <<child, pipe, held, post, table, at, batch>>
  BY DEF Drained
<1>2. PICK r \in table[s] : /\ run[r].cs = "answering"
                            /\ run' = [run EXCEPT ![r].cs = "ended"]
  BY DEF Drained
<1>3. r \in Runs /\ run[r] \in RunType
  BY <1>0 DEF TypeOK
<1>4. PICK k : k = [run[r] EXCEPT !.cs = "ended"]
  OBVIOUS
<1>5. /\ k \in RunType /\ k.st = run[r].st /\ k.w = run[r].w
      /\ k.s = run[r].s /\ k.len = run[r].len /\ k.buf = run[r].buf
      /\ k.cs = "ended"
  BY <1>3, <1>4 DEF RunType
<1>6. run' = [run EXCEPT ![r] = k]
  BY <1>2, <1>4
<1>7. /\ run' \in [Runs -> RunType] /\ run'[r] = k
      /\ \A q \in Runs \ {r} : run'[q] = run[q]
  BY <1>0, <1>3, <1>5, <1>6 DEF TypeOK
<1>8. /\ sock' \in [Sockets -> [by : SUBSET Workers, busy : BOOLEAN]]
      /\ \A t \in Sockets : sock'[t].by = sock[t].by
  <2>1. sock' = [sock EXCEPT ![s].busy = FALSE]
    BY DEF Drained
  <2> QED BY <1>0, <2>1 DEF TypeOK
<1>9. TypeOK'
  BY <1>0, <1>1, <1>7, <1>8 DEF TypeOK
<1>10. BufferOK'
  BY <1>0, <1>3, <1>5, <1>7 DEF BufferOK, Fits
<1>11. \A q \in Runs : Same(q) /\ (run'[q].cs = "gone" <=> run[q].cs = "gone")
  BY <1>2, <1>3, <1>5, <1>7 DEF Same
<1>12. ASSUME NEW t \in Sockets, NEW q \in table[t],
              run'[q].cs # "gone",
              run[q].cs # "gone" => sock[t].by = run[q].w
       PROVE  sock'[t].by = run[q].w
  <2>1. q \in Runs
    BY <1>0 DEF TypeOK
  <2> QED BY <1>8, <1>11, <1>12, <2>1
<1>13. (LaunchOK /\ OwnerOK /\ Listed)'
  BY <1>1, <1>8, <1>11, <1>12, QuietTable
<1>14. (ChildOK /\ EndsOK /\ OverOK)'
  BY <1>1, <1>11, QuietEnds
<1> QED BY <1>9, <1>10, <1>13, <1>14 DEF CgiInv

-----------------------------------------------------------------------------
(* The theorems.                                                           *)

(* Nothing runs at first.                                                  *)
LEMMA InitInv == Init => CgiInv
<1> SUFFICES ASSUME Init PROVE CgiInv
  OBVIOUS
<1>1. <<>> \in Seq(Cells)
  OBVIOUS
<1>2. NoRun \in RunType /\ NoRun.st = "none" /\ Fits(NoRun)
  BY <1>1, CgiAssumption DEF NoRun, RunType, Fits
<1>3. [st |-> "none", reads |-> FALSE, todo |-> <<>>] \in ChildType
  BY <1>1 DEF ChildType
<1>4. \A r \in Runs : run[r] = NoRun /\ child[r].st = "none"
  BY DEF Init
<1>5. TypeOK
  BY <1>1, <1>2, <1>3 DEF Init, TypeOK, NoConn
<1>6. BufferOK
  BY <1>2, <1>4 DEF BufferOK
<1>7. LaunchOK /\ OwnerOK /\ Listed
  BY <1>2, <1>4 DEF Init, LaunchOK, Launching, OwnerOK, Listed
<1>8. ChildOK /\ EndsOK /\ OverOK
  BY <1>2, <1>4 DEF Init, ChildOK, EndsOK, OverOK, Over
<1> QED BY <1>5, <1>6, <1>7, <1>8 DEF CgiInv

(* Every step keeps the invariant.                                         *)
LEMMA NextKeeps == CgiInv /\ [Next]_vars => CgiInv'
<1> SUFFICES ASSUME CgiInv, [Next]_vars PROVE CgiInv'
  OBVIOUS
<1>1. ASSUME NEW w \in Workers, NEW s \in Sockets,
             \/ Retry(w, s) \/ Hangup(w, s) \/ Drained(w, s)
             \/ \E r \in Runs : Pipes(w, s, r)
      PROVE  CgiInv'
  BY <1>1, RetryKeeps, HangupKeeps, DrainedKeeps, PipesKeeps
<1>2. ASSUME NEW w \in Workers, Wait(w)
      PROVE  CgiInv'
  BY <1>2, WaitKeeps
<1>3. ASSUME NEW w \in Workers, Work(w)
      PROVE  CgiInv'
  BY <1>3, VforkKeeps, FeedKeeps, RegisterKeeps, CgiReadKeeps, CgiEndKeeps,
     SkipIdleKeeps, VisitFreedKeeps DEF Work
<1>4. ASSUME NEW r \in Runs,
             WritePost(r) \/ ChildWrites(r) \/ ChildExits(r)
      PROVE  CgiInv'
  BY <1>4, WritePostKeeps, ChildWritesKeeps, ChildExitsKeeps
<1>5. CASE UNCHANGED vars
  <2>1. UNCHANGED <<run, child, pipe, held, post, table, sock, at, batch>>
    BY <1>5 DEF vars
  <2>2. TypeOK'
    BY <2>1 DEF CgiInv, TypeOK
  <2>3. BufferOK'
    BY <2>1 DEF CgiInv, BufferOK
  <2>4. \A r \in Runs : Same(r)
    BY <2>1 DEF Same
  <2> QED BY <2>1, <2>2, <2>3, <2>4, LoopQuiet
<1> QED BY <1>1, <1>2, <1>3, <1>4, <1>5 DEF Next

(* The invariant on which the results below rest: a worker in do_cgi has a *)
(* run and a connection of its own, only running children hold             *)
(* descriptors, the server's copies of a child's ends are closed once it   *)
(* is fed, and in_buf (event.c) never holds more than it has room for,     *)
(* whatever a program writes.                                              *)
THEOREM CgiInvariant == Spec => []CgiInv
BY InitInv, NextKeeps, PTL DEF Spec

(* requests_by_socket names for every connection the run that answers it,  *)
(* though workers share the table without a lock and reuse each other's    *)
(* descriptors (do_cgi, cgi_finish, mk_cgi_stage30_hangup).                *)
THEOREM TableAlwaysRight == Spec => []RunHasConnection
<1>1. CgiInv => RunHasConnection
  BY DEF CgiInv, Listed, RunHasConnection
<1> QED BY <1>1, CgiInvariant, PTL

(* What is left of a run that is over, in the server and in other          *)
(* processes: no child and none of its descriptors, but for a body that a  *)
(* thread has yet to write (cgi_finish).                                   *)
THEOREM NeverLeftBehind == Spec => []NothingLeftBehind
<1>1. CgiInv => NothingLeftBehind
  <2> SUFFICES ASSUME CgiInv, NEW r \in Runs, Over(r)
               PROVE  /\ child[r].st = "gone" /\ \A h \in held : h[1] # r
                      /\ \A e \in Ends : <<Server, r, e>> \in held =>
                           e = "inW" /\ post[r] \in {"spawned", "astray"}
    BY DEF NothingLeftBehind
  <2>1. child[r].st = "gone"
    BY DEF CgiInv, OverOK
  <2>2. ASSUME NEW h \in held
        PROVE  h[1] # r
    <3>1. PICK p \in Runs \cup {Server}, q \in Runs, e \in Ends :
            h = <<p, q, e>>
      BY DEF CgiInv, TypeOK
    <3>2. p \in Runs => child[p].st = "run"
      BY <3>1 DEF CgiInv, ChildOK
    <3> QED BY <2>1, <3>1, <3>2, ServerNoRun
  <2>3. ASSUME NEW e \in Ends, <<Server, r, e>> \in held
        PROVE  e = "inW" /\ post[r] \in {"spawned", "astray"}
    <3>1. e = "inW"
      BY <2>3 DEF CgiInv, OverOK
    <3>2. run[r].st # "forked"
      BY DEF Over
    <3> QED BY <2>1, <2>3, <3>1, <3>2 DEF CgiInv, EndsOK
  <2> QED BY <2>1, <2>2, <2>3
<1> QED BY <1>1, CgiInvariant, PTL

(* When a registered run has nothing to read, somebody can go on, unless   *)
(* children wait for each other or a body was lost: the server keeps no    *)
(* end that hides the end of a child's output or input (do_cgi).           *)
THEOREM SomebodyAlwaysMoves == Spec => []SomebodyMoves
<1>1. CgiInv => SomebodyMoves
  <2> SUFFICES ASSUME CgiInv, NEW r \in Runs, run[r].st = "on", ~Readable(r),
                      \A q \in Runs : ~Ready(q),
                      \A q \in Runs : post[q] # "spawned",
                      \A q \in Runs : post[q] # "astray",
                      \A w \in Workers : at[w] = {}
               PROVE  Entangled
    BY DEF SomebodyMoves
  <2> DEFINE S == {q \in Runs : child[q].st = "run"}
  <2>1. S # {}
    <3>1. PICK p \in Runs \cup {Server} : <<p, r, "outW">> \in held
      BY DEF Readable, Open
    <3>2. p # Server
      BY <3>1 DEF CgiInv, EndsOK
    <3>3. child[p].st = "run"
      BY <3>1, <3>2 DEF CgiInv, ChildOK, Ends
    <3> QED BY <3>2, <3>3
  <2>2. ASSUME NEW q \in S
        PROVE  /\ child[q].st = "run" /\ child[q].reads
               /\ \E p \in S : <<p, q, "inW">> \in held
    <3>1. child[q].st = "run" /\ child[q].reads /\ Open(q, "inW")
      BY DEF Ready, StdinEnded
    <3>2. PICK p \in Runs \cup {Server} : <<p, q, "inW">> \in held
      BY <3>1 DEF Open
    <3>3. run[q].st # "forked"
      <4>1. run[q].st \in Launching => \E w \in Workers : at[w] # {}
        BY DEF CgiInv, LaunchOK, Undefined
      <4> QED BY <4>1 DEF Launching
    <3>4. p # Server
      BY <3>1, <3>2, <3>3 DEF CgiInv, EndsOK
    <3>5. child[p].st = "run"
      BY <3>2, <3>4 DEF CgiInv, ChildOK, Ends
    <3> QED BY <3>1, <3>2, <3>4, <3>5
  <2>3. S \in SUBSET Runs
    OBVIOUS
  <2> HIDE DEF S
  <2> QED BY <2>1, <2>2, <2>3 DEF Entangled
<1> QED BY <1>1, CgiInvariant, PTL

(* A step frees a run.                                                     *)
Frees(q) == run'[q].st = "freed" /\ run[q].st # "freed"

(* No step but Wait and CgiEnd does.                                       *)
LEMMA OthersFreeNone ==
  ASSUME CgiInv, NEW q \in Runs, Frees(q)
  PROVE  /\ \A w \in Workers, s \in Sockets :
              /\ ~Retry(w, s) /\ ~Hangup(w, s) /\ ~Drained(w, s)
              /\ \A r \in Runs : ~Pipes(w, s, r)
         /\ \A w \in Workers, r \in Runs :
              /\ ~Vfork(w, r) /\ ~Feed(w, r) /\ ~Register(w, r)
              /\ ~CgiRead(w, r) /\ ~SkipIdle(w, r) /\ ~VisitFreed(w, r)
              /\ CgiEnd(w, r) => q = r
         /\ \A r \in Runs :
              ~WritePost(r) /\ ~ChildWrites(r) /\ ~ChildExits(r)
<1>0. run \in [Runs -> RunType]
  BY DEF CgiInv, TypeOK
<1>1. run[q] \in RunType /\ run' # run
  BY <1>0 DEF Frees
<1>2. ASSUME NEW w, NEW r \in Runs, NEW s, Fails(w, r, s)
      PROVE  FALSE
  <2>1. run' = [run EXCEPT ![r].st = "lost", ![r].w = {w}]
    BY <1>2 DEF Fails
  <2> QED BY <1>0, <2>1 DEF Frees, RunType
<1>3. ASSUME NEW w \in Workers, NEW s \in Sockets
      PROVE  /\ ~Retry(w, s) /\ ~Hangup(w, s) /\ ~Drained(w, s)
             /\ \A r \in Runs : ~Pipes(w, s, r)
  <2>1. ~Retry(w, s)
    BY <1>1 DEF Retry, Frees, RunType
  <2>2. ~Drained(w, s)
    <3>1. ASSUME NEW r \in table[s],
                 run' = [run EXCEPT ![r].cs = "ended"]
          PROVE  FALSE
      BY <1>0, <3>1 DEF Frees, RunType
    <3> QED BY <3>1 DEF Drained
  <2>3. ~Hangup(w, s)
    <3>1. ASSUME NEW r \in table[s], Finish(r, s, FALSE, TRUE)
          PROVE  FALSE
      <4>1. PICK k :
              k = [NoRun EXCEPT !.st = Released(FALSE), !.w = run[r].w]
        OBVIOUS
      <4>2. k.st = "queued"
        BY <4>1 DEF NoRun, Released
      <4>3. run' = [run EXCEPT ![r] = k]
        BY <3>1, <4>1 DEF Finish
      <4> QED BY <1>0, <4>2, <4>3 DEF Frees
    <3>2. ASSUME run' = [r \in Runs |->
                           IF r \in table[s]
                           THEN [run[r] EXCEPT !.cs = "gone"] ELSE run[r]]
          PROVE  FALSE
      BY <1>1, <3>2 DEF Frees, RunType
    <3> QED BY <3>1, <3>2 DEF Hangup
  <2>4. ASSUME NEW r \in Runs, Pipes(w, s, r)
        PROVE  FALSE
    <3>1. CASE run' = [run EXCEPT ![r] =
                         [NoRun EXCEPT !.st = "piped", !.w = {w}, !.s = {s}]]
      BY <1>0, <3>1 DEF Frees, NoRun
    <3> QED BY <1>2, <2>4, <3>1 DEF Pipes
  <2> QED BY <2>1, <2>2, <2>3, <2>4
<1>4. ASSUME NEW w \in Workers, NEW r \in Runs
      PROVE  /\ ~Vfork(w, r) /\ ~Feed(w, r) /\ ~Register(w, r)
             /\ ~CgiRead(w, r) /\ ~SkipIdle(w, r) /\ ~VisitFreed(w, r)
             /\ CgiEnd(w, r) => q = r
  <2>1. ~Vfork(w, r)
    <3>1. ASSUME run' = [run EXCEPT ![r].st = "forked"]
          PROVE  FALSE
      BY <1>0, <3>1 DEF Frees, RunType
    <3> QED BY <1>2, <3>1 DEF Vfork
  <2>2. ~Feed(w, r)
    BY <1>0, SMTT(30) DEF Frees, RunType, Feed
  <2>3. ~Register(w, r)
    <3>1. ASSUME NEW http11 \in BOOLEAN,
                 run' = [run EXCEPT ![r] =
                           [@ EXCEPT !.st = "on", !.hangup = ~http11]]
          PROVE  FALSE
      BY <1>0, <3>1 DEF Frees, RunType
    <3> QED BY <1>2, <3>1 DEF Register
  <2>4. ~SkipIdle(w, r) /\ ~VisitFreed(w, r)
    BY <1>1 DEF SkipIdle, VisitFreed
  <2>5. CgiEnd(w, r) => q = r
    BY <1>0 DEF CgiEnd, Finish, Frees
  <2>6. ASSUME CgiRead(w, r)
        PROVE  FALSE
    <3>1. run[r].st = "on" /\ run'[r].st = run[r].st
      BY <2>6, CgiReadKeeps DEF CgiRead, Same
    <3>2. q # r => run'[q] = run[q]
      BY <1>0, <2>6 DEF CgiRead
    <3> QED BY <3>1, <3>2 DEF Frees
  <2> QED BY <2>1, <2>2, <2>3, <2>4, <2>5, <2>6
<1>5. ASSUME NEW r \in Runs
      PROVE  ~WritePost(r) /\ ~ChildWrites(r) /\ ~ChildExits(r)
  BY <1>1 DEF WritePost, ChildWrites, ChildExits
<1> QED BY <1>3, <1>4, <1>5

(* A freed run comes to be in a batch, or a run in a batch to be freed,    *)
(* only while another child has inherited the read end of its pipe         *)
(* (cgi_finish, cgi_req_del, and mk_event_del, which does nothing).        *)
THEOREM SilentAlways == Spec => SilentUnlessInherited
<1> DEFINE Silent ==
      \A w \in Workers : \A r \in batch'[w] :
        run'[r].st = "freed" =>
          \/ r \in batch[w] /\ run[r].st = "freed"
          \/ \E q \in Runs \ {r} : <<q, r, "outR">> \in held'
<1>1. CgiInv /\ [Next]_vars => [Silent]_vars
  <2> SUFFICES ASSUME CgiInv, Next, NEW w \in Workers, NEW r \in batch'[w],
                      run'[r].st = "freed",
                      ~(r \in batch[w] /\ run[r].st = "freed")
               PROVE  \E q \in Runs \ {r} : <<q, r, "outR">> \in held'
    OBVIOUS
  <2>0. TypeOK /\ OwnerOK
    BY DEF CgiInv
  <2>1. ASSUME NEW x \in Workers, Wait(x)
        PROVE  \E q \in Runs \ {r} : <<q, r, "outR">> \in held'
    <3>1. PICK B \in SUBSET {y \in Registered(x) : Readable(y)} :
            batch' = [batch EXCEPT ![x] = B]
      BY <2>1 DEF Wait
    <3>2. r \in Runs
      BY <2>0, <3>1 DEF Registered, TypeOK
    <3>3. \/ run'[r] = run[r]
          \/ run[r].st = "queued" /\ run[r].w = {x}
      BY <2>1, <3>2 DEF Wait
    <3>4. CASE w # x
      <4>1. r \in batch[w]
        BY <2>0, <3>1, <3>4 DEF TypeOK
      <4>2. run[r].w = {w}
        BY <2>0, <4>1 DEF OwnerOK
      <4> QED BY <3>3, <3>4, <4>1, <4>2
    <3>5. CASE w = x
      <4>1. r \in B
        BY <2>0, <3>1, <3>5 DEF TypeOK
      <4>2. PICK p \in Runs \cup {Server} : <<p, r, "outR">> \in held
        BY <4>1 DEF Registered, Open
      <4>3. Over(r)
        BY <3>3 DEF Over
      <4>4. p # Server
        BY <3>2, <4>2, <4>3 DEF CgiInv, OverOK, Ends
      <4>5. child[p].st = "run" /\ child[r].st = "gone"
        BY <3>2, <4>2, <4>3, <4>4 DEF CgiInv, OverOK, ChildOK, Ends
      <4>6. held' = held
        BY <2>1 DEF Wait
      <4> QED BY <4>2, <4>4, <4>5, <4>6
    <3> QED BY <3>4, <3>5
  <2>2. ASSUME \A x \in Workers : ~Wait(x)
        PROVE  FALSE
    <3>1. batch'[w] \subseteq batch[w] /\ batch[w] \subseteq Runs
      <4>1. CASE batch' = batch
        BY <2>0, <4>1 DEF TypeOK
      <4>2. ASSUME NEW x \in Workers, NEW y \in Runs, Visit(x, y)
            PROVE  batch'[w] \subseteq batch[w] /\ batch[w] \subseteq Runs
        BY <2>0, <4>2, Visits DEF TypeOK
      <4>3. batch' = batch \/ \E x \in Workers, y \in Runs : Visit(x, y)
        <5>1. ASSUME NEW x \in Workers, NEW s \in Sockets,
                     \/ Retry(x, s) \/ Hangup(x, s) \/ Drained(x, s)
                     \/ \E y \in Runs : Pipes(x, s, y)
              PROVE  batch' = batch
          BY <5>1 DEF Retry, Hangup, Drained, Pipes
        <5>2. ASSUME NEW x \in Workers, NEW y \in Runs,
                     Vfork(x, y) \/ Feed(x, y) \/ Register(x, y)
              PROVE  batch' = batch
          BY <5>2 DEF Vfork, Feed, Register
        <5>3. ASSUME NEW x \in Workers, NEW y \in Runs,
                     \/ CgiRead(x, y) \/ CgiEnd(x, y)
                     \/ SkipIdle(x, y) \/ VisitFreed(x, y)
              PROVE  Visit(x, y)
          BY <5>3 DEF CgiRead, CgiEnd, SkipIdle, VisitFreed
        <5>4. ASSUME NEW y \in Runs,
                     WritePost(y) \/ ChildWrites(y) \/ ChildExits(y)
              PROVE  batch' = batch
          BY <5>4 DEF WritePost, ChildWrites, ChildExits
        <5> QED BY <2>2, <5>1, <5>2, <5>3, <5>4 DEF Next, Work
      <4> QED BY <4>1, <4>2, <4>3
    <3>2. r \in Runs /\ r \in batch[w] /\ run[r].w = {w} /\ Frees(r)
      BY <2>0, <3>1 DEF OwnerOK, Frees
    <3>3. PICK x \in Workers : CgiEnd(x, r)
      BY <2>2, <3>2, OthersFreeNone DEF Next, Work
    <3>4. r \in batch[x] /\ r \notin batch'[x]
      BY <2>0, <3>2, <3>3, Visits DEF CgiEnd
    <3>5. x = w
      BY <2>0, <3>2, <3>4 DEF OwnerOK
    <3> QED BY <3>4, <3>5
  <2> QED BY <2>1, <2>2
<1> QED BY <1>1, CgiInvariant, PTL DEF Spec, SilentUnlessInherited

-----------------------------------------------------------------------------
(* The answer of a program that writes its headers in one piece.           *)

Sent == Cells \cup {"status"}

(* The programs the result is about: they write their headers in one       *)
(* piece, which begins with neither the break nor half a line; headers     *)
(* that begin with a status line fit in in_buf, whose contents             *)
(* process_cgi_data does not move when it has used that line up.           *)
ProperPrograms ==
  /\ "split" \notin Env
  /\ \A r \in Runs : LET s == Script[r] IN
       /\ s # <<>> => s[1] \in {"S", "H", "D"}
       /\ s # <<>> /\ s[1] = "S" /\ HeadLen(s) > 0 =>
            s[2] = "n" /\ HeadLen(s) <= BUFLEN

Alive == {"piped", "forked", "fed", "on"}

NoBreak(cells) == \A i \in 1..Len(cells) : cells[i] # "B"

(* Output without a break is never sent: o, what was sent, is at most a    *)
(* status line.                                                            *)
Headless(q, c, p, o) ==
  /\ NoBreak(p) /\ NoBreak(SubSeq(q.buf, 1, q.len))
  /\ c.st = "run" => NoBreak(c.todo)
  /\ ~q.all /\ o = IF q.hdr THEN <<"status">> ELSE <<>>

(* The first a cells of the output s are in in_buf, and the break is not   *)
(* among them.                                                             *)
Gathers(s, q, o, a) ==
  /\ ~q.all /\ (q.hdr <=> a > 0)
  /\ o = IF a > 0 THEN <<"status">> ELSE <<>>
  /\ q.len = a /\ SubSeq(q.buf, 1, a) = SubSeq(s, 1, a)
  /\ a < HeadLen(s) /\ (a > 0 => s[1] # "S")

(* The first a cells, headers and break included, have been sent.          *)
Streams(s, q, o, a) ==
  /\ q.all /\ q.hdr /\ q.len = 0 /\ HeadLen(s) <= a
  /\ o = <<"status">> \o SubSeq(s, StatusLen(s) + 1, a)

(* The child has written w cells, the headers at once, and the worker has  *)
(* read a of them.                                                         *)
Flows(s, q, c, p, o) ==
  \E a, w \in 0..Len(s) :
    /\ a <= w /\ (w = 0 \/ HeadLen(s) <= w)
    /\ p = SubSeq(s, a + 1, w)
    /\ c.st = "run" => c.todo = SubSeq(s, w + 1, Len(s))
    /\ c.st = "none" => w = 0
    /\ Gathers(s, q, o, a) \/ Streams(s, q, o, a)

FlowOK(r) ==
  /\ run[r].st # "on" => sent[r] = <<>>
  /\ run[r].st = "none" => pipe[r] = <<>>
  /\ run[r].st \in Alive =>
       IF HeadLen(Script[r]) = 0
       THEN Headless(run[r], child[r], pipe[r], sent[r])
       ELSE Flows(Script[r], run[r], child[r], pipe[r], sent[r])

AnswerInv ==
  /\ sent \in [Runs -> Seq(Sent)]
  /\ \A r \in Runs : FlowOK(r)

(* What SelectInSeq finds: the first place, or none.                       *)
LEMMA FirstIs ==
  ASSUME NEW cells \in Seq(Cells), NEW S, NEW f, f = First(cells, S)
  PROVE  \/ f = 0 /\ \A i \in 1..Len(cells) : cells[i] \notin S
         \/ /\ f \in 1..Len(cells) /\ cells[f] \in S
            /\ \A i \in 1..(f - 1) : cells[i] \notin S
<1> DEFINE I == {i \in 1..Len(cells) : cells[i] \in S}
<1>1. Len(cells) \in Nat
  OBVIOUS
<1>2. f = IF I # {} THEN Min(I) ELSE 0
  BY DEF First, SelectInSeq
<1>3. I \subseteq Nat /\ I \subseteq 1..Len(cells)
  BY <1>1
<1>4. CASE I = {}
  BY <1>2, <1>4
<1>5. CASE I # {}
  <2> HIDE DEF I
  <2>1. f \in I /\ \A y \in I : f <= y
    BY <1>2, <1>3, <1>5, Least
  <2>2. f \in 1..Len(cells) /\ cells[f] \in S
    BY <2>1 DEF I
  <2>3. ASSUME NEW i \in 1..(f - 1), cells[i] \in S PROVE FALSE
    <3>1. i \in 1..Len(cells) /\ ~(f <= i)
      BY <1>1, <2>2
    <3> QED BY <2>1, <2>3, <3>1 DEF I
  <2> QED BY <2>2, <2>3
<1> QED BY <1>4, <1>5

(* The same of the break, HeadLen.                                         *)
LEMMA BreakIs ==
  ASSUME NEW cells \in Seq(Cells), NEW b, b = HeadLen(cells)
  PROVE  \/ b = 0 /\ NoBreak(cells)
         \/ /\ b \in 1..Len(cells) /\ cells[b] = "B"
            /\ \A i \in 1..(b - 1) : cells[i] # "B"
<1>1. b = First(cells, {"B"})
  BY DEF HeadLen, First, SelectInSeq
<1> QED BY <1>1, FirstIs DEF NoBreak

(* What SubSeq returns.                                                    *)
LEMMA Part ==
  ASSUME NEW S, NEW s \in Seq(S), NEW a \in Nat, NEW b \in 0..Len(s)
  PROVE  /\ SubSeq(s, a + 1, b) \in Seq(S)
         /\ a <= b => Len(SubSeq(s, a + 1, b)) = b - a
         /\ b <= a => SubSeq(s, a + 1, b) = <<>>
         /\ \A i \in 1..(b - a) : SubSeq(s, a + 1, b)[i] = s[a + i]
<1>1. a + 1 \in Int /\ b \in Int /\ Len(s) \in Nat
  OBVIOUS
<1>2. \A i \in (a + 1)..b : s[i] \in S
  BY <1>1, ElementOfSeq
<1>3. /\ SubSeq(s, a + 1, b) \in Seq(S)
      /\ Len(SubSeq(s, a + 1, b)) = IF a + 1 <= b THEN b - (a + 1) + 1 ELSE 0
      /\ \A i \in 1..(b - (a + 1) + 1) :
           SubSeq(s, a + 1, b)[i] = s[(a + 1) + i - 1]
  BY <1>1, <1>2, SubSeqProperties
<1>4. b - (a + 1) + 1 = b - a /\ \A i \in Int : (a + 1) + i - 1 = a + i
  BY <1>1
<1>5. Len(SubSeq(s, a + 1, b)) = 0 => SubSeq(s, a + 1, b) = <<>>
  BY <1>3, EmptySeq
<1>6. /\ a <= b => Len(SubSeq(s, a + 1, b)) = b - a
      /\ b <= a => SubSeq(s, a + 1, b) = <<>>
  BY <1>1, <1>3, <1>5
<1>7. \A i \in 1..(b - a) : SubSeq(s, a + 1, b)[i] = s[a + i]
  BY <1>1, <1>3, <1>4
<1> QED BY <1>3, <1>6, <1>7

(* A part of a part is a part.                                             *)
LEMMA PartOfPart ==
  ASSUME NEW S, NEW s \in Seq(S), NEW a \in Nat, NEW b \in a..Len(s),
         NEW i \in Nat, NEW j \in i..(b - a)
  PROVE  SubSeq(SubSeq(s, a + 1, b), i + 1, j) = SubSeq(s, a + i + 1, a + j)
<1>1. /\ Len(s) \in Nat /\ a + i \in Nat /\ a + j \in 0..Len(s)
      /\ b \in 0..Len(s) /\ a <= b /\ i <= j
  OBVIOUS
<1>2. PICK t : t = SubSeq(s, a + 1, b)
  OBVIOUS
<1>3. /\ t \in Seq(S) /\ Len(t) = b - a
      /\ \A k \in 1..(b - a) : t[k] = s[a + k]
  BY <1>1, <1>2, Part
<1>4. PICK u : u = SubSeq(t, i + 1, j)
  OBVIOUS
<1>5. /\ u \in Seq(S) /\ Len(u) = j - i
      /\ \A k \in 1..(j - i) : u[k] = t[i + k]
  BY <1>1, <1>3, <1>4, Part
<1>6. PICK v : v = SubSeq(s, a + i + 1, a + j)
  OBVIOUS
<1>7. /\ v \in Seq(S) /\ Len(v) = (a + j) - (a + i)
      /\ \A k \in 1..((a + j) - (a + i)) : v[k] = s[a + i + k]
  <2>1. a + i <= a + j
    BY <1>1
  <2> QED BY <1>1, <1>6, <2>1, Part
<1>8. (a + j) - (a + i) = j - i
  BY <1>1
<1>9. \A k \in 1..Len(u) : u[k] = v[k]
  <2> SUFFICES ASSUME NEW k \in 1..Len(u) PROVE u[k] = v[k]
    OBVIOUS
  <2>1. i + k \in 1..(b - a) /\ k \in 1..(j - i)
    BY <1>1, <1>5
  <2>2. u[k] = s[a + (i + k)]
    BY <1>3, <1>5, <2>1
  <2>3. a + (i + k) = a + i + k
    BY <1>1, <2>1
  <2> QED BY <1>7, <1>8, <2>1, <2>2, <2>3
<1>10. u = v
  BY <1>5, <1>7, <1>8, <1>9, SeqEqual
<1> QED BY <1>2, <1>4, <1>6, <1>10

(* Two parts that adjoin are a part.                                       *)
LEMMA PartsAdjoin ==
  ASSUME NEW S, NEW s \in Seq(S), NEW a \in Nat, NEW b \in a..Len(s),
         NEW c \in b..Len(s)
  PROVE  SubSeq(s, a + 1, b) \o SubSeq(s, b + 1, c) = SubSeq(s, a + 1, c)
<1>1. /\ Len(s) \in Nat /\ a + 1 \in 1..(Len(s) + 1)
      /\ b \in ((a + 1) - 1)..Len(s)
  OBVIOUS
<1> QED BY <1>1, ConcatAdjacentSubSeq

(* process_cgi_data once the headers are out: everything goes on.          *)
LEMMA ProcessStreams ==
  ASSUME NEW q \in RunType, Fits(q), q.all, q.hdr,
         NEW o, o = Process(q)
  PROVE  /\ o.out = SubSeq(q.buf, 1, q.len)
         /\ o.q.all /\ o.q.hdr /\ o.q.len = 0
<1>1. q.len \in 0..Len(q.buf) /\ q.buf \in Seq(Cells)
  BY DEF RunType, Fits
<1>2. PICK data : data = SubSeq(q.buf, 1, q.len)
  OBVIOUS
<1>3. data \in Seq(Cells)
  BY <1>1, <1>2, Piece
<1> DEFINE asks   == ~q.hdr /\ First(data, {"S", "H", "D"}) > 0
           status == asks /\ Head(data) = "S"
           endl   == First(Tail(data), {"n", "H", "B"})
           from   == IF status THEN endl + 1 ELSE 0
           rest   == SubSeq(data, from + 1, Len(data))
           end    == IF q.all THEN 0 ELSE First(rest, {"B"})
           head   == IF asks THEN <<"status">> ELSE <<>>
           next   == [q EXCEPT !.hdr = @ \/ asks]
           read   == [next EXCEPT !.len = Len(rest), !.buf = Kept(q, from)]
           done   == Emptied([next EXCEPT !.all = TRUE])
<1>4. o = IF status /\ endl = 0 THEN [q |-> q, out |-> <<>>]
          ELSE IF ~q.all /\ end = 0 THEN [q |-> read, out |-> head]
          ELSE [q |-> done, out |-> head \o rest]
  BY <1>2 DEF Process
<1>5. o.out = data /\ o.q = done
  <2>1. ~asks /\ ~status /\ from + 1 = 1
    OBVIOUS
  <2> HIDE DEF asks, status, endl, from, read, done, end
  <2>2. rest = data /\ head = <<>> /\ <<>> \o data = data
    BY <1>3, <2>1, SubSeqFull, ConcatEmptySeq
  <2> HIDE DEF rest, head
  <2>3. o = [q |-> done, out |-> data]
    BY <1>4, <2>1, <2>2
  <2> QED BY <2>3
<1>6. PICK n : n = next
  OBVIOUS
<1>7. n \in RunType /\ n.hdr
  BY <1>6 DEF RunType
<1>8. PICK m : m = [n EXCEPT !.all = TRUE]
  OBVIOUS
<1>9. m \in RunType /\ m.hdr /\ m.all
  BY <1>7, <1>8 DEF RunType
<1>10. o.q = Emptied(m)
  BY <1>5, <1>6, <1>8
<1>11. o.q.all /\ o.q.hdr /\ o.q.len = 0
  BY <1>9, <1>10 DEF Emptied, RunType
<1> QED BY <1>2, <1>5, <1>11

(* process_cgi_data on output that has no break: it sends the status line  *)
(* at most, and that once.                                                 *)
LEMMA ProcessHeadless ==
  ASSUME NEW q \in RunType, Fits(q), ~q.all,
         NoBreak(SubSeq(q.buf, 1, q.len)), NEW o, o = Process(q)
  PROVE  /\ ~o.q.all /\ NoBreak(SubSeq(o.q.buf, 1, o.q.len))
         /\ \/ o.out = <<>> /\ o.q.hdr = q.hdr
            \/ o.out = <<"status">> /\ ~q.hdr /\ o.q.hdr
<1>1. /\ q.len \in Nat /\ q.len \in 0..Len(q.buf) /\ q.buf \in Seq(Cells)
      /\ q.hdr \in BOOLEAN
  BY DEF RunType, Fits
<1> DEFINE data   == SubSeq(q.buf, 1, q.len)
           asks   == ~q.hdr /\ First(data, {"S", "H", "D"}) > 0
           status == asks /\ Head(data) = "S"
           endl   == First(Tail(data), {"n", "H", "B"})
           from   == IF status THEN endl + 1 ELSE 0
           rest   == SubSeq(data, from + 1, Len(data))
           end    == IF q.all THEN 0 ELSE First(rest, {"B"})
           head   == IF asks THEN <<"status">> ELSE <<>>
           next   == [q EXCEPT !.hdr = @ \/ asks]
           read   == [next EXCEPT !.len = Len(rest), !.buf = Kept(q, from)]
           done   == Emptied([next EXCEPT !.all = TRUE])
<1>2. data \in Seq(Cells) /\ Len(data) = q.len
  BY <1>1, Piece
<1>3. o = IF status /\ endl = 0 THEN [q |-> q, out |-> <<>>]
          ELSE IF ~q.all /\ end = 0 THEN [q |-> read, out |-> head]
          ELSE [q |-> done, out |-> head \o rest]
  BY DEF Process
<1>4. from \in Nat
  <2> HIDE DEF data
  <2>1. CASE status
    <3>1. First(data, {"S", "H", "D"}) \in 0..Len(data)
      BY <1>2, FirstBound
    <3>2. data # <<>>
      BY <1>2, <2>1, <3>1
    <3>3. Tail(data) \in Seq(Cells)
      BY <1>2, <3>2
    <3>4. endl \in 0..Len(Tail(data))
      BY <3>3, FirstBound, Zenon
    <3>5. Len(Tail(data)) \in Nat
      BY <3>3
    <3> HIDE DEF endl
    <3> QED BY <3>4, <3>5
  <2> QED BY <2>1
<1>5. asks \in BOOLEAN
  OBVIOUS
<1> HIDE DEF from, status, endl
<1>6. PICK n : n = rest
  OBVIOUS
<1>7. /\ n \in Seq(Cells) /\ Len(n) \in 0..q.len
      /\ \A i \in 1..Len(n) : n[i] # "B"
  <2> HIDE DEF data, asks
  <2>0. Len(data) \in Nat /\ Len(data) \in 0..Len(data)
    BY <1>2
  <2>1. /\ n \in Seq(Cells)
        /\ from <= Len(data) => Len(n) = Len(data) - from
        /\ Len(data) <= from => n = <<>>
        /\ \A i \in 1..(Len(data) - from) : n[i] = data[from + i]
    BY <1>2, <1>4, <1>6, <2>0, Part
  <2>2. \A i \in 1..Len(data) : data[i] # "B"
    BY DEF NoBreak, data
  <2>3. CASE from <= Len(data)
    <3>1. Len(n) = Len(data) - from
      BY <2>1, <2>3
    <3>2. \A i \in 1..Len(n) : from + i \in 1..Len(data)
      BY <1>4, <2>0, <2>3, <3>1
    <3>3. Len(n) \in 0..q.len
      BY <1>2, <1>4, <2>0, <2>3, <3>1
    <3> QED BY <2>1, <2>2, <3>1, <3>2, <3>3
  <2>4. CASE Len(data) <= from
    <3>1. n = <<>>
      BY <2>1, <2>4
    <3> QED BY <1>1, <2>1, <3>1
  <2> QED BY <1>4, <2>0, <2>3, <2>4
<1>8. end = 0
  <2>1. First(n, {"B"}) = 0
    <3>1. PICK f : f = First(n, {"B"})
      OBVIOUS
    <3>2. f # 0 => f \in 1..Len(n) /\ n[f] \in {"B"}
      BY <1>7, <3>1, FirstIs
    <3> QED BY <1>7, <3>1, <3>2
  <2> QED BY <1>6, <2>1
<1> HIDE DEF end, rest, data, asks
<1>9. PICK m : m = next
  OBVIOUS
<1>10. m \in RunType /\ m.hdr = (q.hdr \/ asks) /\ ~m.all /\ m.buf = q.buf
  BY <1>5, <1>9 DEF RunType
<1>11. PICK k : k = [m EXCEPT !.len = Len(n), !.buf = q.buf]
  OBVIOUS
<1>12. k.len = Len(n) /\ k.buf = q.buf /\ ~k.all /\ k.hdr = (q.hdr \/ asks)
  BY <1>10, <1>11 DEF RunType
<1>13. NoBreak(SubSeq(k.buf, 1, k.len))
  <2>1. Len(n) \in 0..Len(q.buf) /\ Len(n) \in Nat /\ 0 \in Nat
    BY <1>1, <1>7
  <2>2. PICK u : u = SubSeq(q.buf, 0 + 1, Len(n))
    OBVIOUS
  <2>3. /\ Len(u) = Len(n) - 0
        /\ \A i \in 1..(Len(n) - 0) : u[i] = q.buf[0 + i]
    BY <1>1, <2>1, <2>2, Part
  <2>4. PICK v : v = SubSeq(q.buf, 0 + 1, q.len)
    OBVIOUS
  <2>5. /\ Len(v) = q.len - 0
        /\ \A i \in 1..(q.len - 0) : v[i] = q.buf[0 + i]
    BY <1>1, <2>4, Part
  <2>6. \A i \in 1..Len(v) : v[i] # "B"
    <3>1. v = SubSeq(q.buf, 1, q.len)
      BY <2>4
    <3> QED BY <3>1 DEF NoBreak
  <2>7. \A i \in 1..Len(u) : i \in 1..(Len(n) - 0) /\ i \in 1..(q.len - 0)
    BY <1>1, <1>7, <2>1, <2>3
  <2>8. \A i \in 1..Len(u) : u[i] # "B"
    BY <2>3, <2>5, <2>6, <2>7
  <2> QED BY <1>12, <2>2, <2>8 DEF NoBreak
<1>14. read = k
  BY <1>6, <1>9, <1>11 DEF Kept
<1> HIDE DEF read, done, next
<1>15. CASE status /\ endl = 0
  BY <1>3, <1>15
<1>16. CASE ~(status /\ endl = 0)
  <2>1. o = [q |-> k, out |-> head]
    BY <1>3, <1>8, <1>14, <1>16
  <2>2. o.q = k /\ o.out = head
    BY <2>1
  <2>3. CASE asks
    <3>1. ~q.hdr
      BY <2>3 DEF asks
    <3> QED BY <1>12, <1>13, <2>2, <2>3, <3>1
  <2>4. CASE ~asks
    BY <1>1, <1>12, <1>13, <2>2, <2>4
  <2> QED BY <2>3, <2>4
<1> QED BY <1>15, <1>16

(* How long the status line of an output is.                               *)
LEMMA StatusIs ==
  ASSUME NEW s \in Seq(Cells), Len(s) > 0
  PROVE  StatusLen(s) = IF s[1] = "S" THEN 2 ELSE 0
<1>1. PICK f : f = First(s, {"S"})
  OBVIOUS
<1>2. 1 \in 1..Len(s) /\ Len(s) \in Nat
  OBVIOUS
<1>3. \/ f = 0 /\ \A i \in 1..Len(s) : s[i] \notin {"S"}
      \/ /\ f \in 1..Len(s) /\ s[f] \in {"S"}
         /\ \A i \in 1..(f - 1) : s[i] \notin {"S"}
  BY <1>1, FirstIs
<1>4. f = 1 <=> s[1] = "S"
  <2>1. CASE f = 0
    BY <1>2, <1>3, <2>1
  <2>2. CASE f \in 1..Len(s) /\ s[f] \in {"S"} /\ f # 1
    <3>1. 1 \in 1..(f - 1)
      BY <1>2, <2>2
    <3> QED BY <1>3, <2>2, <3>1
  <2>3. CASE f = 1
    BY <1>2, <1>3, <2>3
  <2> QED BY <1>3, <2>1, <2>2, <2>3
<1> QED BY <1>1, <1>4 DEF StatusLen

(* While headers are gathered in_buf holds the first m cells of the        *)
(* output s, whose break is cell b.                                        *)
Gathered(q, s, m, b) ==
  /\ q \in RunType /\ Fits(q) /\ ~q.all /\ q.len = m
  /\ s \in Seq(Cells) /\ m \in 1..Len(s)
  /\ SubSeq(q.buf, 1, m) = SubSeq(s, 1, m)
  /\ b \in 1..Len(s) /\ b = HeadLen(s)
  /\ s[1] \in {"S", "H", "D"} /\ (q.hdr => s[1] # "S")
  /\ s[1] = "S" => s[2] = "n" /\ b <= m

(* When the break is among them they are sent behind a status line of our  *)
(* own, unless that is out already.                                        *)
Forwarded(q, s, m, b, o) ==
  LET h == IF q.hdr THEN <<>> ELSE <<"status">> IN
  IF m < b
  THEN /\ o.out = h /\ o.q.hdr /\ ~o.q.all /\ o.q.len = m
       /\ o.q.buf = q.buf
  ELSE /\ o.out = h \o SubSeq(s, StatusLen(s) + 1, m)
       /\ o.q.hdr /\ o.q.all /\ o.q.len = 0

(* That is what process_cgi_data does.                                     *)
LEMMA ProcessGathers ==
  ASSUME NEW q, NEW s, NEW m, NEW b, Gathered(q, s, m, b),
         NEW o, o = Process(q)
  PROVE  Forwarded(q, s, m, b, o)
<1>0. /\ q \in RunType /\ Fits(q) /\ ~q.all /\ q.len = m
      /\ s \in Seq(Cells) /\ m \in 1..Len(s)
      /\ SubSeq(q.buf, 1, m) = SubSeq(s, 1, m)
      /\ b \in 1..Len(s) /\ b = HeadLen(s)
      /\ s[1] \in {"S", "H", "D"} /\ (q.hdr => s[1] # "S")
      /\ s[1] = "S" => s[2] = "n" /\ b <= m
  BY DEF Gathered
<1>1. /\ m \in Nat /\ m \in 0..Len(q.buf) /\ q.buf \in Seq(Cells)
      /\ q.hdr \in BOOLEAN /\ Len(s) \in Nat /\ b \in Nat /\ m \in 0..Len(s)
      /\ m <= Len(s)
  BY <1>0 DEF RunType, Fits
<1>2. PICK data : data = SubSeq(q.buf, 1, q.len)
  OBVIOUS
<1> DEFINE asks   == ~q.hdr /\ First(data, {"S", "H", "D"}) > 0
           status == asks /\ Head(data) = "S"
           endl   == First(Tail(data), {"n", "H", "B"})
           from   == IF status THEN endl + 1 ELSE 0
           rest   == SubSeq(data, from + 1, Len(data))
           end    == IF q.all THEN 0 ELSE First(rest, {"B"})
           head   == IF asks THEN <<"status">> ELSE <<>>
           next   == [q EXCEPT !.hdr = @ \/ asks]
           read   == [next EXCEPT !.len = Len(rest), !.buf = Kept(q, from)]
           done   == Emptied([next EXCEPT !.all = TRUE])
<1>3. o = IF status /\ endl = 0 THEN [q |-> q, out |-> <<>>]
          ELSE IF ~q.all /\ end = 0 THEN [q |-> read, out |-> head]
          ELSE [q |-> done, out |-> head \o rest]
  BY <1>0, <1>2 DEF Process
<1>4. data = SubSeq(s, 1, m)
  BY <1>0, <1>2
<1>5. /\ data \in Seq(Cells) /\ Len(data) = m
      /\ \A i \in 1..m : data[i] = s[i]
  <2>1. data = SubSeq(s, 0 + 1, m) /\ 0 <= m /\ 0 \in Nat
    BY <1>0, <1>1, <1>4
  <2>2. /\ data \in Seq(Cells) /\ Len(data) = m - 0
        /\ \A i \in 1..(m - 0) : data[i] = s[0 + i]
    BY <1>0, <1>1, <2>1, Part
  <2> QED BY <1>0, <1>1, <2>2
<1>6. asks <=> ~q.hdr
  <2>1. PICK f : f = First(data, {"S", "H", "D"})
    OBVIOUS
  <2>2. 1 \in 1..Len(data) /\ data[1] \in {"S", "H", "D"}
    BY <1>0, <1>1, <1>5
  <2>3. f \in 1..Len(data)
    BY <1>0, <1>5, <2>1, <2>2, FirstIs
  <2>4. f > 0
    BY <1>0, <1>1, <1>5, <2>3
  <2> QED BY <1>0, <2>1, <2>4
<1> HIDE DEF asks
<1>7. Head(data) = s[1]
  BY <1>0, <1>1, <1>5
<1>8. status <=> s[1] = "S"
  BY <1>0, <1>6, <1>7
<1>9. /\ b \in 1..Len(s) /\ s[b] = "B" /\ \A i \in 1..(b - 1) : s[i] # "B"
  BY <1>0, <1>1, BreakIs
<1>10. StatusLen(s) = IF s[1] = "S" THEN 2 ELSE 0
  BY <1>0, <1>1, StatusIs
<1>11. from = StatusLen(s) /\ ~(status /\ endl = 0)
  <2>1. CASE s[1] = "S"
    <3>1. s[2] = "n" /\ b <= m /\ b # 1 /\ b # 2
      BY <1>0, <1>9, <2>1
    <3>2. 2 \in 1..m /\ data # <<>>
      BY <1>0, <1>1, <1>5, <3>1
    <3>3. PICK t : t = Tail(data)
      OBVIOUS
    <3>4. t \in Seq(Cells) /\ Len(t) = m - 1 /\ t[1] = "n"
      BY <1>0, <1>1, <1>5, <3>1, <3>2, <3>3, HeadTailProperties
    <3>5. PICK f : f = First(t, {"n", "H", "B"})
      OBVIOUS
    <3>6. 1 \in 1..Len(t) /\ Len(t) \in Nat
      BY <1>0, <1>1, <3>2, <3>4
    <3>7. f # 0
      BY <1>0, <3>4, <3>5, <3>6, FirstIs
    <3>8. /\ f \in 1..Len(t) /\ t[f] \in {"n", "H", "B"}
          /\ \A i \in 1..(f - 1) : t[i] \notin {"n", "H", "B"}
      BY <1>0, <3>4, <3>5, <3>7, FirstIs
    <3>9. f = 1
      <4>1. f # 1 => 1 \in 1..(f - 1)
        BY <1>0, <3>6, <3>8
      <4> QED BY <1>0, <3>4, <3>8, <4>1
    <3>10. endl = 1
      BY <1>0, <3>3, <3>5, <3>9
    <3> HIDE DEF endl, status
    <3> QED BY <1>0, <1>8, <1>10, <2>1, <3>10
  <2>2. CASE s[1] # "S"
    BY <1>0, <1>8, <1>10, <2>2
  <2> QED BY <1>0, <2>1, <2>2
<1>12. StatusLen(s) \in Nat /\ StatusLen(s) < b /\ StatusLen(s) <= m
  <2>1. CASE s[1] = "S"
    <3>1. b <= m /\ b # 1 /\ b # 2
      BY <1>0, <1>9, <2>1
    <3> QED BY <1>0, <1>1, <1>10, <2>1, <3>1
  <2>2. CASE s[1] # "S"
    BY <1>0, <1>1, <1>10, <2>2
  <2> QED BY <1>0, <2>1, <2>2
<1> HIDE DEF from, status, endl
<1>13. PICK k : k = StatusLen(s)
  OBVIOUS
<1>14. rest = SubSeq(s, k + 1, m)
  <2>0. data = SubSeq(s, 0 + 1, m) /\ Len(data) = m /\ from = k
    BY <1>0, <1>4, <1>5, <1>11, <1>13
  <2>1. rest = SubSeq(SubSeq(s, 0 + 1, m), k + 1, m)
    BY <1>0, <2>0, Zenon
  <2>2. /\ 0 \in Nat /\ m \in 0..Len(s) /\ k \in Nat /\ m \in k..(m - 0)
        /\ 0 + k + 1 = k + 1 /\ 0 + m = m
    BY <1>0, <1>1, <1>12, <1>13
  <2>3. SubSeq(SubSeq(s, 0 + 1, m), k + 1, m) = SubSeq(s, 0 + k + 1, 0 + m)
    BY <1>0, <2>2, PartOfPart
  <2> QED BY <1>0, <2>1, <2>2, <2>3
<1>15. PICK n : n = rest
  OBVIOUS
<1>16. /\ n \in Seq(Cells) /\ Len(n) = m - k
       /\ \A i \in 1..(m - k) : n[i] = s[k + i]
  <2>1. k \in Nat /\ m \in 0..Len(s) /\ k <= m
    BY <1>0, <1>1, <1>12, <1>13
  <2>2. n = SubSeq(s, k + 1, m)
    BY <1>0, <1>14, <1>15
  <2> HIDE DEF rest
  <2>3. s \in Seq(Cells)
    BY <1>0
  <2> QED BY <2>1, <2>2, <2>3, Part, SMTT(30)
<1>17. end = 0 <=> m < b
  <2>1. PICK f : f = First(n, {"B"})
    OBVIOUS
  <2>2. \/ f = 0 /\ \A i \in 1..Len(n) : n[i] \notin {"B"}
        \/ f \in 1..Len(n) /\ n[f] \in {"B"}
    BY <1>0, <1>16, <2>1, FirstIs
  <2>3. CASE m < b
    <3>1. ASSUME f \in 1..Len(n) /\ n[f] = "B" PROVE FALSE
      <4>1. f \in 1..(m - k) /\ k + f \in 1..(b - 1)
        BY <1>0, <1>1, <1>12, <1>13, <1>16, <2>3, <3>1
      <4>2. s[k + f] = "B"
        BY <1>0, <1>16, <3>1, <4>1
      <4> QED BY <1>0, <1>9, <4>1, <4>2
    <3>2. f = 0
      BY <1>0, <2>2, <3>1
    <3> QED BY <1>0, <1>15, <2>1, <2>3, <3>2
  <2>4. CASE ~(m < b)
    <3>1. b - k \in 1..(m - k) /\ k + (b - k) = b
      BY <1>0, <1>1, <1>12, <1>13, <2>4
    <3>2. n[b - k] = "B" /\ b - k \in 1..Len(n)
      BY <1>0, <1>9, <1>16, <3>1
    <3>3. f \in 1..Len(n)
      BY <1>0, <2>2, <3>2
    <3>4. f # 0
      BY <1>0, <3>3
    <3> QED BY <1>0, <1>15, <2>1, <2>4, <3>4
  <2> QED BY <1>0, <2>3, <2>4
<1> HIDE DEF rest, end
<1>18. PICK nx : nx = next
  OBVIOUS
<1>19. nx \in RunType /\ nx.hdr /\ ~nx.all
  <2>1. asks \in BOOLEAN
    BY <1>0, <1>6
  <2>2. nx \in RunType /\ nx.hdr = (q.hdr \/ asks) /\ ~nx.all
    BY <1>0, <1>18, <2>1 DEF RunType
  <2> QED BY <1>0, <1>6, <2>2
<1>20. head = IF q.hdr THEN <<>> ELSE <<"status">>
  BY <1>0, <1>6
<1>21. CASE m < b
  <2>1. s[1] # "S" /\ k = 0
    BY <1>0, <1>1, <1>10, <1>13, <1>21
  <2>2. Len(n) = m
    BY <1>0, <1>1, <1>16, <2>1
  <2>3. read = [nx EXCEPT !.len = m, !.buf = q.buf]
    BY <1>0, <1>15, <1>18, <2>2 DEF Kept
  <2> HIDE DEF read, done, head
  <2>4. o = [q |-> read, out |-> head]
    BY <1>0, <1>3, <1>11, <1>17, <1>21
  <2>5. o.q = read /\ o.out = head
    BY <1>0, <2>4
  <2>6. read.hdr /\ ~read.all /\ read.len = m /\ read.buf = q.buf
    BY <1>0, <1>19, <2>3 DEF RunType
  <2> QED BY <1>20, <1>21, <2>5, <2>6 DEF Forwarded
<1>22. CASE ~(m < b)
  <2>1. PICK mx : mx = [nx EXCEPT !.all = TRUE]
    OBVIOUS
  <2>2. mx \in RunType /\ mx.hdr /\ mx.all
    BY <1>0, <1>19, <2>1 DEF RunType
  <2>3. done = Emptied(mx)
    BY <1>0, <1>18, <2>1
  <2> HIDE DEF read, done, head
  <2>4. o = [q |-> done, out |-> head \o rest]
    BY <1>0, <1>3, <1>11, <1>17, <1>22
  <2>5. o.q = done /\ o.out = head \o SubSeq(s, StatusLen(s) + 1, m)
    <3>1. o.q = done /\ o.out = head \o rest
      BY <1>0, <2>4
    <3> QED BY <1>0, <1>13, <1>14, <3>1, Zenon
  <2>6. done.hdr /\ done.all /\ done.len = 0
    BY <1>0, <2>2, <2>3 DEF RunType, Emptied
  <2> QED BY <1>20, <1>22, <2>5, <2>6 DEF Forwarded
<1> QED BY <1>21, <1>22

(* A step that reads and writes nothing on behalf of r.                    *)
Calm(r) ==
  /\ pipe'[r] = pipe[r] /\ (child'[r] = child[r] \/ child'[r] = Gone)
  /\ run'[r].st = "none" => run[r].st = "none"
  /\ run'[r].st # "on" => sent'[r] = <<>>
  /\ run'[r].st \in Alive =>
       /\ run[r].st \in Alive /\ sent'[r] = sent[r]
       /\ run'[r].buf = run[r].buf /\ run'[r].len = run[r].len
       /\ run'[r].hdr = run[r].hdr /\ run'[r].all = run[r].all

(* Such a step keeps what is known of r.                                   *)
LEMMA CalmKeeps ==
  ASSUME NEW r \in Runs, FlowOK(r), Calm(r)
  PROVE  FlowOK(r)'
<1>1. /\ run'[r].st # "on" => sent'[r] = <<>>
      /\ run'[r].st = "none" => pipe'[r] = <<>>
  BY DEF FlowOK, Calm
<1>2. ASSUME run'[r].st \in Alive
      PROVE  IF HeadLen(Script[r]) = 0
             THEN Headless(run'[r], child'[r], pipe'[r], sent'[r])
             ELSE Flows(Script[r], run'[r], child'[r], pipe'[r], sent'[r])
  <2>1. /\ run[r].st \in Alive /\ sent'[r] = sent[r]
        /\ run'[r].buf = run[r].buf /\ run'[r].len = run[r].len
        /\ run'[r].hdr = run[r].hdr /\ run'[r].all = run[r].all
        /\ pipe'[r] = pipe[r]
    BY <1>2 DEF Calm
  <2>2. /\ child'[r].st = "run" => child'[r] = child[r]
        /\ child'[r].st = "none" => child'[r] = child[r]
    BY DEF Calm, Gone
  <2>3. CASE HeadLen(Script[r]) = 0
    <3>1. Headless(run[r], child[r], pipe[r], sent[r])
      BY <2>1, <2>3 DEF FlowOK
    <3> QED BY <2>1, <2>2, <2>3, <3>1 DEF Headless
  <2>4. CASE HeadLen(Script[r]) # 0
    <3>1. Flows(Script[r], run[r], child[r], pipe[r], sent[r])
      BY <2>1, <2>4 DEF FlowOK
    <3>2. PICK a, w \in 0..Len(Script[r]) :
            /\ a <= w /\ (w = 0 \/ HeadLen(Script[r]) <= w)
            /\ pipe[r] = SubSeq(Script[r], a + 1, w)
            /\ child[r].st = "run" =>
                 child[r].todo = SubSeq(Script[r], w + 1, Len(Script[r]))
            /\ child[r].st = "none" => w = 0
            /\ \/ Gathers(Script[r], run[r], sent[r], a)
               \/ Streams(Script[r], run[r], sent[r], a)
      BY <3>1 DEF Flows
    <3>3. \/ Gathers(Script[r], run'[r], sent'[r], a)
          \/ Streams(Script[r], run'[r], sent'[r], a)
      BY <2>1, <3>2 DEF Gathers, Streams
    <3>4. /\ pipe'[r] = SubSeq(Script[r], a + 1, w)
          /\ child'[r].st = "run" =>
               child'[r].todo = SubSeq(Script[r], w + 1, Len(Script[r]))
          /\ child'[r].st = "none" => w = 0
      BY <2>1, <2>2, <3>2
    <3>5. Flows(Script[r], run'[r], child'[r], pipe'[r], sent'[r])
      BY <3>2, <3>3, <3>4 DEF Flows
    <3> QED BY <2>4, <3>5
  <2> QED BY <2>3, <2>4
<1> QED BY <1>1, <1>2 DEF FlowOK

(* So does one that leaves r as it is.                                     *)
LEMMA StillCalm ==
  ASSUME NEW r \in Runs, FlowOK(r), run'[r] = run[r], child'[r] = child[r],
         pipe'[r] = pipe[r], sent'[r] = sent[r]
  PROVE  FlowOK(r)'
<1>1. Calm(r)
  BY DEF FlowOK, Calm
<1> QED BY <1>1, CalmKeeps

(* A step that leaves sent alone and is calm for every run.                *)
LEMMA AllCalm ==
  ASSUME AnswerInv, sent' = sent \/ sent' \in [Runs -> Seq(Sent)],
         \A r \in Runs : Calm(r)
  PROVE  AnswerInv'
<1>1. \A r \in Runs : FlowOK(r)'
  BY CalmKeeps DEF AnswerInv
<1> QED BY <1>1 DEF AnswerInv

(* A failure in do_cgi: nothing had been sent.                             *)
LEMMA FailsCalm ==
  ASSUME CgiInv, AnswerInv, NEW w \in Workers, NEW r \in Runs,
         NEW s \in Sockets, Fails(w, r, s), run[r].st # "on",
         UNCHANGED <<child, pipe, sent>>
  PROVE  AnswerInv'
<1>1. /\ run \in [Runs -> RunType]
      /\ run' = [run EXCEPT ![r].st = "lost", ![r].w = {w}]
  BY DEF CgiInv, TypeOK, Fails
<1>2. run'[r].st = "lost" /\ \A q \in Runs \ {r} : run'[q] = run[q]
  BY <1>1 DEF RunType
<1>3. \A q \in Runs : Calm(q)
  BY <1>2 DEF AnswerInv, FlowOK, Calm, Alive
<1> QED BY <1>3, AllCalm

(* do_cgi makes its pipes: a new run, of which nothing is known yet.       *)
LEMMA PipesFlow ==
  ASSUME CgiInv, AnswerInv, NEW w \in Workers, NEW s \in Sockets,
         NEW r \in Runs, Pipes(w, s, r)
  PROVE  AnswerInv'
<1>1. UNCHANGED <<child, pipe, sent>> /\ run[r].st = "none" /\ r \in Nat
  <2>1. r \in 1..r /\ r \in Nat
    BY CgiAssumption DEF Runs
  <2> QED BY <2>1 DEF Pipes
<1>2. CASE Fails(w, r, s)
  BY <1>1, <1>2, FailsCalm
<1>3. CASE run' = [run EXCEPT ![r] =
                     [NoRun EXCEPT !.st = "piped", !.w = {w}, !.s = {s}]]
  <2>1. PICK k : k = [NoRun EXCEPT !.st = "piped", !.w = {w}, !.s = {s}]
    OBVIOUS
  <2>2. /\ k.st = "piped" /\ k.buf = <<>> /\ k.len = 0 /\ k.hdr = FALSE
        /\ k.all = FALSE
    BY <2>1 DEF NoRun
  <2>3. run'[r] = k /\ \A q \in Runs \ {r} : run'[q] = run[q]
    BY <1>3, <2>1 DEF CgiInv, TypeOK
  <2>4. \A q \in Runs \ {r} : FlowOK(q)'
    BY <1>1, <2>3, StillCalm DEF AnswerInv
  <2>5. /\ pipe[r] = <<>> /\ sent[r] = <<>> /\ child[r].st = "none"
        /\ child[r] \in ChildType /\ Script[r] \in Seq(Cells)
    BY <1>1, CgiAssumption DEF AnswerInv, FlowOK, CgiInv, ChildOK, TypeOK,
       Runs
  <2>6. NoBreak(<<>>) /\ SubSeq(<<>>, 1, 0) = <<>>
    BY SubSeqEmpty DEF NoBreak
  <2>7. ASSUME HeadLen(Script[r]) # 0
        PROVE  Flows(Script[r], k, child[r], <<>>, <<>>)
    <3>1. PICK b : b = HeadLen(Script[r])
      OBVIOUS
    <3>2. b \in 1..Len(Script[r])
      BY <2>5, <2>7, <3>1, BreakIs
    <3>3. /\ 0 < b /\ ~(0 > 0) /\ 0 \in 0..Len(Script[r])
          /\ Len(Script[r]) \in Nat /\ 0 <= 0
      BY <2>5, <3>2
    <3>4. /\ SubSeq(Script[r], 1, 0) = <<>>
          /\ SubSeq(Script[r], 0 + 1, 0) = <<>>
      BY SubSeqEmpty
    <3>5. Gathers(Script[r], k, <<>>, 0)
      BY <2>2, <2>6, <3>1, <3>3, <3>4 DEF Gathers
    <3> QED BY <2>5, <3>3, <3>4, <3>5 DEF Flows
  <2>8. FlowOK(r)'
    <3>1. HeadLen(Script[r]) = 0 => Headless(k, child[r], <<>>, <<>>)
      BY <2>2, <2>5, <2>6 DEF Headless
    <3> QED BY <1>1, <2>2, <2>3, <2>5, <2>7, <3>1 DEF FlowOK
  <2> QED BY <1>1, <2>4, <2>8 DEF AnswerInv
<1> QED BY <1>2, <1>3 DEF Pipes

(* vfork: the child begins with all its output to write.                   *)
LEMMA VforkFlow ==
  ASSUME CgiInv, AnswerInv, NEW w \in Workers, NEW r \in Runs, Vfork(w, r)
  PROVE  AnswerInv'
<1>1. UNCHANGED <<pipe, sent>> /\ run[r].st = "piped"
  BY DEF Vfork
<1>2. ASSUME NEW s \in run[r].s, Fails(w, r, s), UNCHANGED child
      PROVE  AnswerInv'
  <2>1. s \in Sockets
    BY DEF CgiInv, TypeOK, RunType
  <2> QED BY <1>1, <1>2, <2>1, FailsCalm
<1>3. ASSUME NEW reads,
             child' = [child EXCEPT ![r] =
                        [st |-> "run", reads |-> reads, todo |-> Script[r]]],
             run' = [run EXCEPT ![r].st = "forked"]
      PROVE  AnswerInv'
  <2>1. /\ run[r] \in RunType /\ Script[r] \in Seq(Cells)
        /\ child[r].st = "none" /\ FlowOK(r)
    BY <1>1, CgiAssumption DEF CgiInv, TypeOK, ChildOK, Runs, AnswerInv
  <2>2. PICK k : k = [run[r] EXCEPT !.st = "forked"]
    OBVIOUS
  <2>3. /\ k.st = "forked" /\ k.buf = run[r].buf /\ k.len = run[r].len
        /\ k.hdr = run[r].hdr /\ k.all = run[r].all
    BY <2>1, <2>2 DEF RunType
  <2>4. PICK c : c = [st |-> "run", reads |-> reads, todo |-> Script[r]]
    OBVIOUS
  <2>5. /\ run'[r] = k /\ \A q \in Runs \ {r} : run'[q] = run[q]
        /\ child'[r] = c /\ \A q \in Runs \ {r} : child'[q] = child[q]
    BY <1>3, <2>2, <2>4 DEF CgiInv, TypeOK
  <2>6. \A q \in Runs \ {r} : FlowOK(q)'
    BY <1>1, <2>5, StillCalm DEF AnswerInv
  <2>7. c.st = "run" /\ c.todo = Script[r] /\ run[r].st \in Alive
    BY <1>1, <2>4 DEF Alive
  <2>8. HeadLen(Script[r]) = 0 => Headless(k, c, pipe[r], sent[r])
    <3>1. HeadLen(Script[r]) = 0 => NoBreak(Script[r])
      BY <2>1, BreakIs
    <3> QED BY <2>1, <2>3, <2>7, <3>1 DEF FlowOK, Headless
  <2>9. ASSUME HeadLen(Script[r]) # 0
        PROVE  Flows(Script[r], k, c, pipe[r], sent[r])
    <3>1. PICK a, v \in 0..Len(Script[r]) :
            /\ a <= v /\ pipe[r] = SubSeq(Script[r], a + 1, v) /\ v = 0
            /\ \/ Gathers(Script[r], run[r], sent[r], a)
               \/ Streams(Script[r], run[r], sent[r], a)
      BY <2>1, <2>7, <2>9 DEF FlowOK, Flows
    <3>2. \/ Gathers(Script[r], k, sent[r], a)
          \/ Streams(Script[r], k, sent[r], a)
      BY <2>3, <3>1 DEF Gathers, Streams
    <3>3. Script[r] = SubSeq(Script[r], 0 + 1, Len(Script[r]))
      <4>1. 0 + 1 = 1
        OBVIOUS
      <4> QED BY <2>1, <4>1, SubSeqFull
    <3>4. c.todo = SubSeq(Script[r], v + 1, Len(Script[r]))
      BY <2>7, <3>1, <3>3
    <3> QED BY <2>7, <3>1, <3>2, <3>4 DEF Flows
  <2>10. FlowOK(r)'
    BY <1>1, <2>1, <2>3, <2>5, <2>7, <2>8, <2>9 DEF FlowOK
  <2> QED BY <1>1, <2>6, <2>10 DEF AnswerInv
<1> QED BY <1>1, <1>2, <1>3 DEF Vfork

(* do_cgi goes on: neither closing ends nor registering the run touches    *)
(* what flows.                                                             *)
LEMMA LaunchFlow ==
  ASSUME CgiInv, AnswerInv, NEW w \in Workers, NEW r \in Runs,
         Feed(w, r) \/ Register(w, r)
  PROVE  AnswerInv'
<1>1. UNCHANGED <<child, pipe, sent>> /\ run[r].st \in {"forked", "fed"}
  BY DEF Feed, Register
<1>2. run \in [Runs -> RunType] /\ run[r] \in RunType
  BY DEF CgiInv, TypeOK
<1>3. ASSUME NEW s \in run[r].s, Fails(w, r, s)
      PROVE  AnswerInv'
  <2>1. s \in Sockets
    BY <1>2 DEF RunType
  <2> QED BY <1>1, <1>3, <2>1, FailsCalm
<1>4. ASSUME NEW k, run' = [run EXCEPT ![r] = k],
             k.st \in {"fed", "on"}, k.buf = run[r].buf, k.len = run[r].len,
             k.hdr = run[r].hdr, k.all = run[r].all
      PROVE  AnswerInv'
  <2>1. run'[r] = k /\ \A q \in Runs \ {r} : run'[q] = run[q]
    BY <1>2, <1>4
  <2>2. sent[r] = <<>>
    BY <1>1 DEF AnswerInv, FlowOK
  <2>3. Calm(r)
    BY <1>1, <1>4, <2>1, <2>2 DEF Calm, Alive
  <2>4. \A q \in Runs \ {r} : FlowOK(q)'
    BY <1>1, <2>1, StillCalm DEF AnswerInv
  <2>5. FlowOK(r)'
    BY <2>3, CalmKeeps DEF AnswerInv
  <2> QED BY <1>1, <2>4, <2>5 DEF AnswerInv
<1>5. CASE Feed(w, r)
  <2>1. PICK k : k = [run[r] EXCEPT !.st = "fed"]
    OBVIOUS
  <2>2. /\ k.st = "fed" /\ k.buf = run[r].buf /\ k.len = run[r].len
        /\ k.hdr = run[r].hdr /\ k.all = run[r].all
    BY <1>2, <2>1 DEF RunType
  <2>3. run' = [run EXCEPT ![r] = k]
    BY <1>5, <2>1 DEF Feed
  <2> QED BY <1>4, <2>2, <2>3
<1>6. ASSUME NEW http11 \in BOOLEAN,
             run' = [run EXCEPT ![r] =
                       [@ EXCEPT !.st = "on", !.hangup = ~http11]]
      PROVE  AnswerInv'
  <2>1. PICK k : k = [run[r] EXCEPT !.st = "on", !.hangup = ~http11]
    OBVIOUS
  <2>2. /\ k.st = "on" /\ k.buf = run[r].buf /\ k.len = run[r].len
        /\ k.hdr = run[r].hdr /\ k.all = run[r].all
    BY <1>2, <2>1 DEF RunType
  <2>3. run' = [run EXCEPT ![r] = k]
    BY <1>6, <2>1
  <2> QED BY <1>4, <2>2, <2>3
<1>7. CASE Register(w, r)
  BY <1>3, <1>6, <1>7 DEF Register
<1> QED BY <1>5, <1>7

(* A step that changes cs at most, or frees what was queued.               *)
LEMMA SessionFlow ==
  ASSUME CgiInv, AnswerInv, UNCHANGED <<child, pipe, sent>>,
         NEW f, run' = [r \in Runs |-> f[r]],
         \A r \in Runs :
           \/ \E cs : f[r] = [run[r] EXCEPT !.cs = cs]
           \/ f[r] = run[r]
           \/ /\ run[r].st = "queued"
              /\ f[r] = [run[r] EXCEPT !.st = "freed"]
  PROVE  AnswerInv'
<1> SUFFICES ASSUME NEW r \in Runs PROVE Calm(r)
  BY AllCalm
<1>1. run[r] \in RunType /\ run'[r] = f[r] /\ FlowOK(r)
  BY DEF CgiInv, TypeOK, AnswerInv
<1>2. \/ /\ f[r].st = run[r].st /\ f[r].buf = run[r].buf
         /\ f[r].len = run[r].len /\ f[r].hdr = run[r].hdr
         /\ f[r].all = run[r].all
      \/ run[r].st = "queued" /\ f[r].st = "freed"
  BY <1>1 DEF RunType
<1> QED BY <1>1, <1>2 DEF Calm, FlowOK, Alive

(* A retry, the end of an answer, a round of the loop.                     *)
LEMMA RetryFlow ==
  ASSUME CgiInv, AnswerInv, NEW w \in Workers, NEW s \in Sockets,
         Retry(w, s)
  PROVE  AnswerInv'
<1> DEFINE f == [r \in Runs |->
                   IF r \in table[s] /\ run[r].cs = "ended"
                   THEN [run[r] EXCEPT !.cs = "answering"] ELSE run[r]]
<1>1. UNCHANGED <<child, pipe, sent>> /\ run' = [r \in Runs |-> f[r]]
  BY DEF Retry
<1>2. \A r \in Runs : (\E cs : f[r] = [run[r] EXCEPT !.cs = cs])
                      \/ f[r] = run[r]
  OBVIOUS
<1> HIDE DEF f
<1> QED BY <1>1, <1>2, SessionFlow

(* mk_http_sched_done.                                                     *)
LEMMA DrainedFlow ==
  ASSUME CgiInv, AnswerInv, NEW w \in Workers, NEW s \in Sockets,
         Drained(w, s)
  PROVE  AnswerInv'
<1>1. PICK q \in table[s] : run' = [run EXCEPT ![q].cs = "ended"]
  BY DEF Drained
<1>2. q \in Runs /\ run \in [Runs -> RunType]
  BY DEF CgiInv, TypeOK
<1>3. UNCHANGED <<child, pipe, sent>>
  BY DEF Drained
<1>4. PICK f : f = run'
  OBVIOUS
<1>5. run' = [r \in Runs |-> f[r]]
  BY <1>1, <1>2, <1>4
<1>6. \A r \in Runs : (\E cs : f[r] = [run[r] EXCEPT !.cs = cs])
                      \/ f[r] = run[r]
  BY <1>1, <1>2, <1>4
<1> QED BY <1>3, <1>5, <1>6, SessionFlow

(* mk_sched_event_free_all and epoll_wait.                                 *)
LEMMA WaitFlow ==
  ASSUME CgiInv, AnswerInv, NEW w \in Workers, Wait(w)
  PROVE  AnswerInv'
<1> DEFINE f == [r \in Runs |-> IF run[r].st = "queued" /\ run[r].w = {w}
                          THEN [run[r] EXCEPT !.st = "freed"] ELSE run[r]]
<1>1. UNCHANGED <<child, pipe, sent>> /\ run' = [r \in Runs |-> f[r]]
  BY DEF Wait
<1>2. \A r \in Runs : \/ f[r] = run[r]
                      \/ /\ run[r].st = "queued"
                         /\ f[r] = [run[r] EXCEPT !.st = "freed"]
  OBVIOUS
<1> HIDE DEF f
<1> QED BY <1>1, <1>2, SessionFlow

(* cgi_finish.                                                             *)
LEMMA FinishFlow ==
  ASSUME CgiInv, AnswerInv, NEW r \in Runs, NEW s \in Sockets,
         NEW active \in BOOLEAN, NEW closes \in BOOLEAN,
         Finish(r, s, active, closes), pipe' = pipe
  PROVE  AnswerInv'
<1>1. PICK k : k = [NoRun EXCEPT !.st = Released(active), !.w = run[r].w]
  OBVIOUS
<1>2. k.st \in {"freed", "queued"}
  BY <1>1 DEF NoRun, Released
<1>3. /\ run'[r] = k /\ \A q \in Runs \ {r} : run'[q] = run[q]
      /\ child'[r] = Gone /\ \A q \in Runs \ {r} : child'[q] = child[q]
  BY <1>1 DEF CgiInv, TypeOK, Finish
<1>4. /\ sent'[r] = <<>> /\ \A q \in Runs \ {r} : sent'[q] = sent[q]
      /\ sent' \in [Runs -> Seq(Sent)]
  <2>1. <<>> \in Seq(Sent)
    OBVIOUS
  <2> QED BY <2>1 DEF AnswerInv, Finish
<1>5. Calm(r)
  BY <1>2, <1>3, <1>4 DEF Calm, Alive
<1>6. \A q \in Runs \ {r} : FlowOK(q)'
  BY <1>3, <1>4, StillCalm DEF AnswerInv
<1>7. FlowOK(r)'
  BY <1>5, CalmKeeps DEF AnswerInv
<1> QED BY <1>4, <1>6, <1>7 DEF AnswerInv

(* The end of a run, whoever finds it, and the end of a connection.        *)
LEMMA EndFlow ==
  ASSUME CgiInv, AnswerInv, NEW w \in Workers, NEW r \in Runs, CgiEnd(w, r)
  PROVE  AnswerInv'
<1>1. PICK s \in run[r].s, closes \in BOOLEAN : Finish(r, s, TRUE, closes)
  BY DEF CgiEnd
<1>2. s \in Sockets /\ pipe' = pipe
  BY DEF CgiInv, TypeOK, RunType, CgiEnd
<1> QED BY <1>1, <1>2, FinishFlow

(* mk_cgi_stage30_hangup, or a session that goes without it.               *)
LEMMA HangupFlow ==
  ASSUME CgiInv, AnswerInv, NEW w \in Workers, NEW s \in Sockets,
         Hangup(w, s)
  PROVE  AnswerInv'
<1>1. pipe' = pipe
  BY DEF Hangup
<1> DEFINE f == [r \in Runs |-> IF r \in table[s]
                          THEN [run[r] EXCEPT !.cs = "gone"] ELSE run[r]]
<1>2. CASE UNCHANGED <<child, sent>> /\ run' = f
  <2>1. \A r \in Runs : (\E cs : f[r] = [run[r] EXCEPT !.cs = cs])
                        \/ f[r] = run[r]
    OBVIOUS
  <2>2. run' = [r \in Runs |-> f[r]]
    BY <1>2
  <2> HIDE DEF f
  <2> QED BY <1>1, <1>2, <2>1, <2>2, SessionFlow
<1>3. ASSUME NEW r \in table[s], Finish(r, s, FALSE, TRUE)
      PROVE  AnswerInv'
  <2>1. r \in Runs
    BY DEF CgiInv, TypeOK
  <2> QED BY <1>1, <1>3, <2>1, FinishFlow
<1> QED BY <1>2, <1>3 DEF Hangup

(* The child exits.                                                        *)
LEMMA ExitFlow ==
  ASSUME CgiInv, AnswerInv, NEW r \in Runs, ChildExits(r)
  PROVE  AnswerInv'
<1>1. /\ UNCHANGED <<run, pipe, sent>> /\ child' = [child EXCEPT ![r] = Gone]
      /\ child \in [Runs -> ChildType]
  BY DEF ChildExits, CgiInv, TypeOK
<1>2. \A q \in Runs : child'[q] = child[q] \/ child'[q] = Gone
  BY <1>1
<1>3. \A q \in Runs : Calm(q)
  BY <1>1, <1>2 DEF Calm, AnswerInv, FlowOK
<1> QED BY <1>1, <1>3, AllCalm

(* Parts and unions of output without a break have none.                   *)
LEMMA NoBreakPart ==
  ASSUME NEW s \in Seq(Cells), NoBreak(s), NEW a \in Nat,
         NEW b \in a..Len(s)
  PROVE  NoBreak(SubSeq(s, a + 1, b))
<1>1. /\ Len(s) \in Nat /\ b \in 0..Len(s) /\ a <= b
  OBVIOUS
<1>2. PICK t : t = SubSeq(s, a + 1, b)
  OBVIOUS
<1>3. Len(t) = b - a /\ \A i \in 1..(b - a) : t[i] = s[a + i]
  BY <1>1, <1>2, Part
<1>4. \A i \in 1..(b - a) : a + i \in 1..Len(s)
  BY <1>1
<1>5. \A i \in 1..Len(t) : t[i] # "B"
  BY <1>3, <1>4 DEF NoBreak
<1> QED BY <1>2, <1>5 DEF NoBreak

(* The same for what is put together.                                      *)
LEMMA NoBreakConcat ==
  ASSUME NEW s \in Seq(Cells), NEW t \in Seq(Cells), NoBreak(s), NoBreak(t)
  PROVE  NoBreak(s \o t)
<1>1. Len(s) \in Nat /\ Len(t) \in Nat
  OBVIOUS
<1>2. PICK u : u = s \o t
  OBVIOUS
<1>3. /\ Len(u) = Len(s) + Len(t)
      /\ \A i \in 1..(Len(s) + Len(t)) :
           u[i] = IF i <= Len(s) THEN s[i] ELSE t[i - Len(s)]
  BY <1>2, ConcatProperties
<1>4. \A i \in 1..(Len(s) + Len(t)) :
        IF i <= Len(s) THEN i \in 1..Len(s) ELSE i - Len(s) \in 1..Len(t)
  BY <1>1
<1>5. \A i \in 1..Len(u) : u[i] # "B"
  BY <1>3, <1>4 DEF NoBreak
<1> QED BY <1>2, <1>5 DEF NoBreak

(* Concatenation is associative.                                           *)
LEMMA Regroup ==
  ASSUME NEW x \in Seq(Sent), NEW y \in Seq(Sent), NEW z \in Seq(Sent)
  PROVE  (x \o y) \o z = x \o (y \o z)
BY ConcatAssociative

(* The child writes: all its headers, if it has written nothing yet.       *)
LEMMA WriteFlow ==
  ASSUME ProperPrograms, CgiInv, AnswerInv, NEW r \in Runs, ChildWrites(r)
  PROVE  AnswerInv'
<1>1. /\ UNCHANGED <<run, sent>> /\ child[r].st = "run"
      /\ run[r].st # "none" /\ FlowOK(r)
  BY DEF ChildWrites, Ready, CgiInv, ChildOK, AnswerInv
<1>2. PICK todo : todo = child[r].todo
  OBVIOUS
<1>3. PICK n \in 1..Len(todo) :
        /\ n >= HeadLen(todo)
        /\ pipe' = [pipe EXCEPT ![r] = @ \o SubSeq(todo, 1, n)]
        /\ child' = [child EXCEPT ![r].todo = SubSeq(@, n + 1, Len(@))]
  BY <1>2 DEF ChildWrites, ProperPrograms
<1>4. /\ todo \in Seq(Cells) /\ Len(todo) \in Nat /\ child[r] \in ChildType
      /\ n \in Nat /\ n <= Len(todo) /\ pipe[r] \in Seq(Cells)
      /\ Script[r] \in Seq(Cells)
  <2>1. child[r] \in ChildType /\ pipe[r] \in Seq(Cells)
    BY DEF CgiInv, TypeOK
  <2>2. Script[r] \in Seq(Cells)
    BY CgiAssumption DEF Runs
  <2>3. todo \in Seq(Cells) /\ Len(todo) \in Nat
    BY <1>2, <2>1 DEF ChildType
  <2>4. n \in Nat /\ n <= Len(todo)
    BY <1>3, <2>3
  <2> QED BY <2>1, <2>2, <2>3, <2>4
<1>5. PICK c : c = [child[r] EXCEPT !.todo = SubSeq(todo, n + 1, Len(todo))]
  OBVIOUS
<1>6. c.st = "run" /\ c.todo = SubSeq(todo, n + 1, Len(todo))
  BY <1>1, <1>4, <1>5 DEF ChildType
<1>7. PICK p : p = pipe[r] \o SubSeq(todo, 1, n)
  OBVIOUS
<1>8. /\ child'[r] = c /\ \A q \in Runs \ {r} : child'[q] = child[q]
      /\ pipe'[r] = p /\ \A q \in Runs \ {r} : pipe'[q] = pipe[q]
  BY <1>2, <1>3, <1>5, <1>7 DEF CgiInv, TypeOK
<1>9. \A q \in Runs \ {r} : FlowOK(q)'
  BY <1>1, <1>8, StillCalm DEF AnswerInv
<1>10. ASSUME HeadLen(Script[r]) = 0, run[r].st \in Alive
       PROVE  Headless(run[r], c, p, sent[r])
  <2>1. Headless(run[r], child[r], pipe[r], sent[r])
    BY <1>1, <1>10 DEF FlowOK
  <2>2. NoBreak(pipe[r]) /\ NoBreak(todo)
    BY <1>1, <1>2, <2>1 DEF Headless
  <2>3. /\ n \in 0..Len(todo) /\ 0 \in Nat /\ Len(todo) \in n..Len(todo)
        /\ 0 + 1 = 1
    BY <1>4
  <2>4. NoBreak(SubSeq(todo, n + 1, Len(todo)))
    BY <1>4, <2>2, <2>3, NoBreakPart
  <2>5. /\ NoBreak(SubSeq(todo, 0 + 1, n))
        /\ SubSeq(todo, 0 + 1, n) \in Seq(Cells)
    BY <1>4, <2>2, <2>3, NoBreakPart, Part
  <2>6. NoBreak(p)
    BY <1>4, <1>7, <2>2, <2>3, <2>5, NoBreakConcat
  <2> QED BY <1>6, <2>1, <2>4, <2>6 DEF Headless
<1>11. ASSUME HeadLen(Script[r]) # 0, run[r].st \in Alive
       PROVE  Flows(Script[r], run[r], c, p, sent[r])
  <2>1. PICK s, b : s = Script[r] /\ b = HeadLen(s)
    OBVIOUS
  <2>2. s \in Seq(Cells) /\ Len(s) \in Nat /\ b \in 1..Len(s)
    BY <1>4, <1>11, <2>1, BreakIs
  <2>3. PICK a, w \in 0..Len(s) :
          /\ a <= w /\ (w = 0 \/ b <= w) /\ pipe[r] = SubSeq(s, a + 1, w)
          /\ todo = SubSeq(s, w + 1, Len(s))
          /\ Gathers(s, run[r], sent[r], a) \/ Streams(s, run[r], sent[r], a)
    BY <1>1, <1>2, <1>11, <2>1 DEF FlowOK, Flows
  <2>4. /\ a \in Nat /\ w \in Nat /\ Len(s) \in w..Len(s) /\ w <= Len(s)
        /\ Len(s) \in 0..Len(s)
    BY <2>2
  <2>5. Len(todo) = Len(s) - w
    BY <2>2, <2>3, <2>4, Part
  <2>6. /\ w + n \in 0..Len(s) /\ w + n \in w..Len(s) /\ a <= w + n
        /\ n \in 0..(Len(s) - w) /\ Len(s) - w \in n..(Len(s) - w)
        /\ w \in a..Len(s) /\ w + (Len(s) - w) = Len(s) /\ 0 \in Nat
        /\ 0 + 1 = 1 /\ w + 0 + 1 = w + 1
    BY <1>4, <2>2, <2>3, <2>4, <2>5
  <2>7. SubSeq(todo, 0 + 1, n) = SubSeq(s, w + 0 + 1, w + n)
    BY <2>2, <2>3, <2>4, <2>6, PartOfPart
  <2>8. SubSeq(todo, n + 1, Len(s) - w)
          = SubSeq(s, w + n + 1, w + (Len(s) - w))
    BY <1>4, <2>2, <2>3, <2>4, <2>6, PartOfPart
  <2>9. p = SubSeq(s, a + 1, w + n)
    <3>1. SubSeq(s, a + 1, w) \o SubSeq(s, w + 1, w + n)
            = SubSeq(s, a + 1, w + n)
      BY <2>2, <2>4, <2>6, PartsAdjoin
    <3> QED BY <1>7, <2>3, <2>6, <2>7, <3>1
  <2>10. c.todo = SubSeq(s, (w + n) + 1, Len(s))
    BY <1>6, <2>5, <2>6, <2>8
  <2>11. b <= w + n
    <3>1. CASE w = 0
      <4>1. 0 + 1 = 1
        OBVIOUS
      <4>2. todo = s
        BY <2>2, <2>3, <3>1, <4>1, SubSeqFull
      <4> QED BY <1>3, <1>4, <2>1, <2>2, <3>1, <4>2
    <3>2. CASE b <= w
      BY <1>4, <2>2, <2>4, <3>2
    <3> QED BY <2>3, <3>1, <3>2
  <2> QED BY <1>6, <2>1, <2>3, <2>6, <2>9, <2>10, <2>11 DEF Flows
<1>12. FlowOK(r)'
  BY <1>1, <1>8, <1>10, <1>11 DEF FlowOK
<1> QED BY <1>1, <1>9, <1>12 DEF AnswerInv

(* cb_cgi_read finds data: the three forms process_cgi_data has.           *)
LEMMA ReadFlow ==
  ASSUME ProperPrograms, CgiInv, AnswerInv, NEW w \in Workers,
         NEW r \in Runs, CgiRead(w, r)
  PROVE  AnswerInv'
<1>1. /\ run[r].st = "on" /\ Room(r) > 0 /\ pipe[r] # <<>>
      /\ child' = child /\ FlowOK(r) /\ run[r] \in RunType /\ Fits(run[r])
      /\ pipe[r] \in Seq(Cells) /\ sent[r] \in Seq(Sent)
      /\ Script[r] \in Seq(Cells)
  BY CgiAssumption DEF CgiRead, AnswerInv, CgiInv, TypeOK, BufferOK, Runs
<1>2. PICK buf, len, p : buf = run[r].buf /\ len = run[r].len /\ p = pipe[r]
  OBVIOUS
<1>3. /\ buf \in Seq(Cells) /\ len \in Nat /\ len \in 0..Len(buf)
      /\ Len(buf) \in Nat /\ Len(p) \in Nat \ {0} /\ p \in Seq(Cells)
      /\ BUFLEN \in Nat /\ len < BUFLEN /\ Room(r) = BUFLEN - len
  BY <1>1, <1>2, CgiAssumption DEF RunType, Fits, Room
<1>4. PICK n : n = Min({Room(r), Len(p)})
  OBVIOUS
<1>5. /\ n \in 1..Len(p) /\ n \in Nat /\ n \in {BUFLEN - len, Len(p)}
      /\ len + n <= BUFLEN
  <2>1. PICK T : T = {Room(r), Len(p)}
    OBVIOUS
  <2>2. T \subseteq Nat /\ T # {}
    BY <1>3, <2>1
  <2>3. Min(T) \in T /\ \A y \in T : Min(T) <= y
    BY <2>2, Least
  <2>4. n \in {BUFLEN - len, Len(p)} /\ n <= Len(p) /\ n <= BUFLEN - len
    BY <1>3, <1>4, <2>1, <2>3
  <2> QED BY <1>3, <2>4
<1>6. PICK data, more : data = SubSeq(buf, 1, len) /\ more = SubSeq(p, 1, n)
  OBVIOUS
<1>7. /\ data \in Seq(Cells) /\ Len(data) = len
      /\ more \in Seq(Cells) /\ Len(more) = n
  <2>1. n \in 0..Len(p)
    BY <1>3, <1>5
  <2> QED BY <1>3, <1>6, <2>1, Piece
<1>8. PICK k : k = [run[r] EXCEPT !.buf = data \o more, !.len = len + n]
  OBVIOUS
<1>9. /\ k \in RunType /\ Fits(k) /\ k.st = "on" /\ k.hdr = run[r].hdr
      /\ k.all = run[r].all /\ k.buf = data \o more /\ k.len = len + n
  <2>1. data \o more \in Seq(Cells) /\ Len(data \o more) = len + n
    BY <1>7, ConcatProperties
  <2>2. len + n \in Nat /\ len + n <= BUFLEN
    BY <1>3, <1>5
  <2>3. /\ k \in RunType /\ k.st = "on" /\ k.hdr = run[r].hdr
        /\ k.all = run[r].all /\ k.buf = data \o more /\ k.len = len + n
    BY <1>1, <1>8, <2>1, <2>2 DEF RunType
  <2> QED BY <2>1, <2>2, <2>3 DEF Fits
<1>10. SubSeq(k.buf, 1, k.len) = data \o more
  <2>1. k.buf \in Seq(Cells) /\ k.len = Len(k.buf)
    <3>1. data \o more \in Seq(Cells) /\ Len(data \o more) = len + n
      BY <1>7, ConcatProperties
    <3> QED BY <1>9, <3>1
  <2> QED BY <1>9, <2>1, SubSeqFull
<1>11. PICK o : o = Process(k)
  OBVIOUS
<1>12. ReadMore(r, n) = data \o more
  BY <1>2, <1>6 DEF ReadMore
<1>13. /\ run' = [run EXCEPT ![r] = o.q]
       /\ sent' = [sent EXCEPT ![r] = @ \o o.out]
       /\ pipe' = [pipe EXCEPT ![r] = SubSeq(@, n + 1, Len(@))]
  BY <1>2, <1>4, <1>8, <1>11, <1>12, Zenon DEF CgiRead
<1>14. PICK rest : rest = SubSeq(p, n + 1, Len(p))
  OBVIOUS
<1>15. /\ run'[r] = o.q /\ \A q \in Runs \ {r} : run'[q] = run[q]
       /\ pipe'[r] = rest /\ \A q \in Runs \ {r} : pipe'[q] = pipe[q]
       /\ sent'[r] = sent[r] \o o.out
       /\ \A q \in Runs \ {r} : sent'[q] = sent[q]
  BY <1>2, <1>13, <1>14 DEF CgiInv, TypeOK, AnswerInv
<1>16. \A q \in Runs \ {r} : FlowOK(q)'
  BY <1>1, <1>15, StillCalm DEF AnswerInv
<1>17. o.q.st = "on"
  BY <1>9, <1>11, Processes, Zenon
<1>18. ASSUME HeadLen(Script[r]) = 0
       PROVE  /\ o.out \in Seq(Sent)
              /\ Headless(o.q, child[r], rest, sent[r] \o o.out)
  <2>1. Headless(run[r], child[r], p, sent[r])
    BY <1>1, <1>2, <1>18 DEF FlowOK, Alive
  <2>2. NoBreak(p) /\ NoBreak(data) /\ ~run[r].all
    BY <1>2, <1>6, <2>1 DEF Headless
  <2>3. /\ n \in 0..Len(p) /\ Len(p) \in n..Len(p) /\ 0 \in Nat /\ 0 + 1 = 1
    BY <1>3, <1>5
  <2>4. NoBreak(rest)
    BY <1>3, <1>5, <1>14, <2>2, <2>3, NoBreakPart
  <2>5. NoBreak(SubSeq(p, 0 + 1, n))
    BY <1>3, <1>5, <2>2, <2>3, NoBreakPart
  <2>6. NoBreak(SubSeq(k.buf, 1, k.len))
    BY <1>6, <1>7, <1>10, <2>2, <2>3, <2>5, NoBreakConcat
  <2>7. /\ ~o.q.all /\ NoBreak(SubSeq(o.q.buf, 1, o.q.len))
        /\ \/ o.out = <<>> /\ o.q.hdr = run[r].hdr
           \/ o.out = <<"status">> /\ ~run[r].hdr /\ o.q.hdr
    BY <1>9, <1>11, <2>2, <2>6, ProcessHeadless
  <2>8. sent[r] = IF run[r].hdr THEN <<"status">> ELSE <<>>
    BY <2>1 DEF Headless
  <2>9. <<>> \in Seq(Sent) /\ <<"status">> \in Seq(Sent)
    BY DEF Sent
  <2>10. sent[r] \o o.out = IF o.q.hdr THEN <<"status">> ELSE <<>>
    <3>1. CASE o.out = <<>> /\ o.q.hdr = run[r].hdr
      BY <1>1, <2>8, <3>1, ConcatEmptySeq
    <3>2. CASE o.out = <<"status">> /\ ~run[r].hdr /\ o.q.hdr
      BY <2>8, <2>9, <3>2, ConcatEmptySeq
    <3> QED BY <2>7, <3>1, <3>2
  <2> QED BY <2>1, <2>4, <2>7, <2>9, <2>10 DEF Headless

<1>19. ASSUME HeadLen(Script[r]) # 0
       PROVE  /\ o.out \in Seq(Sent)
              /\ Flows(Script[r], o.q, child[r], rest, sent[r] \o o.out)
  <2>1. PICK s, b : s = Script[r] /\ b = HeadLen(s)
    OBVIOUS
  <2>2. /\ s \in Seq(Cells) /\ Len(s) \in Nat /\ b \in 1..Len(s) /\ b \in Nat
        /\ s # <<>>
    BY <1>1, <1>19, <2>1, BreakIs
  <2>3. PICK a, v \in 0..Len(s) :
          /\ a <= v /\ (v = 0 \/ b <= v) /\ p = SubSeq(s, a + 1, v)
          /\ child[r].st = "run" => child[r].todo = SubSeq(s, v + 1, Len(s))
          /\ child[r].st = "none" => v = 0
          /\ Gathers(s, run[r], sent[r], a) \/ Streams(s, run[r], sent[r], a)
    BY <1>1, <1>2, <1>19, <2>1 DEF FlowOK, Flows, Alive
  <2>4. PICK m : m = a + n
    OBVIOUS
  <2>5. a \in Nat /\ v \in Nat /\ v <= Len(s) /\ v \in a..Len(s)
    BY <2>2, <2>3
  <2>6. Len(p) = v - a
    BY <2>2, <2>3, <2>5, Part
  <2>7. /\ m \in 1..Len(s) /\ m \in Nat /\ m <= v /\ a <= m /\ b <= v
        /\ m \in a..Len(s) /\ n \in 0..(v - a) /\ 0 \in Nat
        /\ v - a \in n..(v - a) /\ a + (v - a) = v /\ a \in 0..Len(s)
        /\ a + 0 + 1 = a + 1 /\ 0 + 1 = 1
    <3>1. PICK L : L = Len(s)
      OBVIOUS
    <3>2. /\ L \in Nat /\ a \in Nat /\ v \in Nat /\ a <= v /\ v <= L
          /\ b \in Nat /\ b >= 1
      BY <2>2, <2>3, <2>5, <3>1
    <3>3. n \in Nat /\ n >= 1 /\ n <= v - a
      BY <1>5, <2>5, <2>6
    <3>4. m \in Nat /\ m >= 1 /\ m <= v /\ a <= m
      BY <2>4, <3>2, <3>3
    <3>5. v # 0
      BY <3>4
    <3>6. b <= v
      BY <2>3, <3>5
    <3>7. /\ m \in 1..L /\ m \in a..L /\ a \in 0..L
      BY <3>2, <3>4
    <3>8. v - a \in Nat /\ n \in 0..(v - a) /\ v - a \in n..(v - a)
      BY <3>2, <3>3
    <3>9. a + (v - a) = v /\ a + 0 + 1 = a + 1 /\ 0 + 1 = 1 /\ 0 \in Nat
      BY <3>2
    <3> QED BY <3>1, <3>4, <3>6, <3>7, <3>8, <3>9
  <2>8. more = SubSeq(s, a + 1, m)
    <3>1. SubSeq(SubSeq(s, a + 1, v), 0 + 1, n)
            = SubSeq(s, a + 0 + 1, a + n)
      BY <2>2, <2>5, <2>7, PartOfPart
    <3> QED BY <1>6, <2>3, <2>4, <2>7, <3>1
  <2>9. rest = SubSeq(s, m + 1, v)
    <3>1. SubSeq(p, n + 1, v - a) = SubSeq(s, a + n + 1, a + (v - a))
      BY <1>5, <2>2, <2>3, <2>5, <2>7, PartOfPart
    <3> QED BY <1>14, <2>4, <2>6, <2>7, <3>1
  <2>10. s[1] \in {"S", "H", "D"} /\ (s[1] = "S" => s[2] = "n" /\ b <= BUFLEN)
    <3>1. b > 0
      BY <2>2
    <3> QED BY <2>1, <2>2, <3>1 DEF ProperPrograms
  <2>11. PICK l : l = StatusLen(s)
    OBVIOUS
  <2>12. l \in Nat /\ l < b
    <3>1. s[b] = "B" /\ Len(s) > 0
      BY <2>1, <2>2, BreakIs
    <3>2. b # 1 /\ (s[1] = "S" => b # 2)
      BY <2>10, <3>1
    <3>3. l = IF s[1] = "S" THEN 2 ELSE 0
      BY <2>2, <2>11, <3>1, StatusIs
    <3> QED BY <2>2, <3>2, <3>3
  <2>13. SubSeq(s, l + 1, m) \in Seq(Sent)
    <3>1. SubSeq(s, l + 1, m) \in Seq(Cells)
      BY <2>2, <2>7, <2>12, Part
    <3> QED BY <3>1, SeqMonotonic DEF Sent
  <2>14. <<>> \in Seq(Sent) /\ <<"status">> \in Seq(Sent)
    BY DEF Sent
  <2>15. /\ o.out \in Seq(Sent)
         /\ \/ Gathers(s, o.q, sent[r] \o o.out, m)
            \/ Streams(s, o.q, sent[r] \o o.out, m)
    <3>1. CASE Streams(s, run[r], sent[r], a)
      <4>1. /\ run[r].all /\ run[r].hdr /\ len = 0 /\ b <= a
            /\ sent[r] = <<"status">> \o SubSeq(s, l + 1, a)
        BY <1>2, <2>1, <2>11, <3>1 DEF Streams
      <4>2. data \o more = more
        <5>1. data = <<>>
          BY <1>7, <4>1
        <5> QED BY <1>7, <5>1, ConcatEmptySeq
      <4>3. o.out = more /\ o.q.all /\ o.q.hdr /\ o.q.len = 0
        <5>1. k.all /\ k.hdr
          BY <1>9, <4>1
        <5> QED BY <1>9, <1>10, <1>11, <4>2, <5>1, ProcessStreams
      <4>4. a \in l..Len(s) /\ m \in a..Len(s) /\ l <= a
        BY <2>2, <2>5, <2>7, <2>12, <4>1
      <4>5. SubSeq(s, l + 1, a) \o SubSeq(s, a + 1, m) = SubSeq(s, l + 1, m)
        BY <2>2, <2>12, <4>4, PartsAdjoin
      <4>6. /\ SubSeq(s, l + 1, a) \in Seq(Sent) /\ more \in Seq(Sent)
        <5>1. SubSeq(s, l + 1, a) \in Seq(Cells)
          BY <2>2, <2>7, <2>12, Part
        <5> QED BY <1>7, <5>1, SeqMonotonic DEF Sent
      <4>7. sent[r] \o o.out = <<"status">> \o SubSeq(s, l + 1, m)
        <5>1. (<<"status">> \o SubSeq(s, l + 1, a)) \o more
                = <<"status">> \o (SubSeq(s, l + 1, a) \o more)
          BY <2>14, <4>6, Regroup
        <5> QED BY <2>8, <4>1, <4>3, <4>5, <5>1
      <4>8. b <= m
        BY <2>2, <2>5, <2>7, <4>1
      <4> QED BY <2>1, <2>11, <4>3, <4>6, <4>7, <4>8 DEF Streams
    <3>2. CASE Gathers(s, run[r], sent[r], a)
      <4>1. /\ ~run[r].all /\ (run[r].hdr <=> a > 0)
            /\ sent[r] = IF a > 0 THEN <<"status">> ELSE <<>>
            /\ len = a /\ data = SubSeq(s, 1, a)
            /\ a < b /\ (a > 0 => s[1] # "S")
        BY <1>2, <1>6, <2>1, <3>2 DEF Gathers
      <4>2. SubSeq(k.buf, 1, m) = SubSeq(s, 1, m) /\ k.len = m
        <5>1. SubSeq(s, 0 + 1, a) \o SubSeq(s, a + 1, m)
                = SubSeq(s, 0 + 1, m)
          BY <2>2, <2>7, PartsAdjoin
        <5>2. k.len = m
          BY <1>9, <2>4, <4>1
        <5> QED BY <1>10, <2>7, <2>8, <4>1, <5>1, <5>2
      <4>3. s[1] = "S" => s[2] = "n" /\ b <= m
        <5>1. ASSUME s[1] = "S" PROVE b <= m
          <6>1. a = 0
            BY <2>5, <4>1, <5>1
          <6>2. n \in {BUFLEN, v} /\ m = n
            BY <1>3, <1>5, <2>4, <2>5, <2>6, <4>1, <6>1
          <6> QED BY <2>7, <2>10, <5>1, <6>2
        <5> QED BY <2>10, <5>1
      <4>4. k.hdr => s[1] # "S"
        BY <1>9, <4>1
      <4>5. PICK h : h = IF k.hdr THEN <<>> ELSE <<"status">>
        OBVIOUS
      <4>6. IF m < b
            THEN /\ o.out = h /\ o.q.hdr /\ ~o.q.all /\ o.q.len = m
                 /\ o.q.buf = k.buf
            ELSE /\ o.out = h \o SubSeq(s, l + 1, m)
                 /\ o.q.hdr /\ o.q.all /\ o.q.len = 0
        <5>1. ~k.all
          BY <1>9, <4>1
        <5>2. Gathered(k, s, m, b)
          BY <1>9, <2>1, <2>2, <2>7, <2>10, <4>2, <4>3, <4>4, <5>1
             DEF Gathered
        <5>3. Forwarded(k, s, m, b, o)
          BY <1>11, <5>2, ProcessGathers
        <5> QED BY <2>11, <4>5, <5>3 DEF Forwarded
      <4>7. sent[r] \o h = <<"status">> /\ h \in Seq(Sent)
        BY <1>9, <2>14, <4>1, <4>5, ConcatEmptySeq
      <4>8. CASE m < b
        <5>1. m > 0 /\ s[1] # "S"
          BY <2>2, <2>7, <4>3, <4>8
        <5> QED BY <2>1, <4>2, <4>6, <4>7, <4>8, <5>1 DEF Gathers
      <4>9. CASE ~(m < b)
        <5>1. o.out = h \o SubSeq(s, l + 1, m) /\ b <= m
          <6>1. b <= m
            BY <2>2, <2>7, <4>9
          <6> QED BY <4>6, <4>9, <6>1, Zenon
        <5>2. sent[r] \o o.out = <<"status">> \o SubSeq(s, l + 1, m)
          <6>1. (sent[r] \o h) \o SubSeq(s, l + 1, m)
                  = sent[r] \o (h \o SubSeq(s, l + 1, m))
            BY <1>1, <2>13, <4>7, Regroup
          <6> QED BY <4>7, <5>1, <6>1
        <5>3. o.out \in Seq(Sent)
          BY <2>13, <4>7, <5>1, ConcatProperties
        <5> QED BY <2>1, <2>11, <4>6, <4>9, <5>1, <5>2, <5>3 DEF Streams
      <4> QED BY <4>8, <4>9
    <3> QED BY <2>3, <3>1, <3>2
  <2>16. m \in 0..Len(s) /\ m <= v /\ (v = 0 \/ b <= v)
    BY <2>2, <2>3, <2>7
  <2>17. Flows(s, o.q, child[r], rest, sent[r] \o o.out)
    BY <2>1, <2>3, <2>9, <2>15, <2>16 DEF Flows
  <2> QED BY <2>1, <2>15, <2>17
<1>20. FlowOK(r)'
  BY <1>1, <1>15, <1>17, <1>18, <1>19 DEF FlowOK
<1>21. sent' \in [Runs -> Seq(Sent)]
  <2>1. sent[r] \o o.out \in Seq(Sent)
    BY <1>1, <1>18, <1>19, ConcatProperties
  <2> QED BY <1>13, <2>1 DEF AnswerInv
<1> QED BY <1>16, <1>20, <1>21 DEF AnswerInv

(* Every step keeps AnswerInv.                                             *)
LEMMA FlowKeeps ==
  ASSUME ProperPrograms, CgiInv, AnswerInv, [Next]_vars
  PROVE  AnswerInv'
<1>1. ASSUME NEW w \in Workers, NEW s \in Sockets,
             \/ Retry(w, s) \/ Hangup(w, s) \/ Drained(w, s)
             \/ \E r \in Runs : Pipes(w, s, r)
      PROVE  AnswerInv'
  BY <1>1, RetryFlow, HangupFlow, DrainedFlow, PipesFlow
<1>2. ASSUME NEW w \in Workers, Wait(w)
      PROVE  AnswerInv'
  BY <1>2, WaitFlow
<1>3. ASSUME UNCHANGED <<run, child, pipe, sent>>
      PROVE  AnswerInv'
  <2>1. \A r \in Runs : FlowOK(r)'
    BY <1>3, StillCalm DEF AnswerInv
  <2> QED BY <1>3, <2>1 DEF AnswerInv
<1>4. ASSUME NEW w \in Workers, Work(w)
      PROVE  AnswerInv'
  <2>1. ASSUME NEW r \in Runs, SkipIdle(w, r) \/ VisitFreed(w, r)
        PROVE  AnswerInv'
    BY <1>3, <2>1 DEF SkipIdle, VisitFreed
  <2> QED BY <1>4, <2>1, VforkFlow, LaunchFlow, ReadFlow, EndFlow DEF Work
<1>5. ASSUME NEW r \in Runs,
             WritePost(r) \/ ChildWrites(r) \/ ChildExits(r)
      PROVE  AnswerInv'
  <2>1. WritePost(r) => AnswerInv'
    BY <1>3 DEF WritePost
  <2> QED BY <1>5, <2>1, WriteFlow, ExitFlow
<1>6. CASE UNCHANGED vars
  BY <1>3, <1>6 DEF vars
<1> QED BY <1>1, <1>2, <1>4, <1>5, <1>6 DEF Next

(* What flows is the beginning of the answer.                              *)
LEMMA FlowIsAnswer ==
  ASSUME CgiInv, AnswerInv
  PROVE  AnswerIntact
<1> SUFFICES ASSUME NEW r \in Runs
             PROVE  IsPrefix(sent[r], Answer(Script[r]))
  BY DEF AnswerIntact, CgiInv, BufferOK, Fits
<1>1. PICK s, l : s = Script[r] /\ l = StatusLen(s)
  OBVIOUS
<1>2. s \in Seq(Cells) /\ Len(s) \in Nat /\ l \in Nat
  BY <1>1, CgiAssumption DEF Runs, StatusLen
<1>3. PICK body : body = SubSeq(s, l + 1, Len(s))
  OBVIOUS
<1>4. /\ body \in Seq(Cells) /\ body \in Seq(Sent)
      /\ <<"status">> \in Seq(Sent) /\ Len(<<"status">>) = 1
  <2>1. Len(s) \in 0..Len(s)
    BY <1>2
  <2>2. body \in Seq(Cells)
    BY <1>2, <1>3, <2>1, Part
  <2> QED BY <2>2, SeqMonotonic DEF Sent
<1>5. PICK all : all = <<"status">> \o body
  OBVIOUS
<1>6. /\ all \in Seq(Sent) /\ Len(all) = 1 + Len(body) /\ Len(body) \in Nat
      /\ all[1] = "status"
      /\ \A i \in 1..Len(body) : all[1 + i] = body[i]
  <2>1. /\ all \in Seq(Sent) /\ Len(all) = 1 + Len(body)
        /\ \A i \in 1..(1 + Len(body)) :
             all[i] = IF i <= 1 THEN <<"status">>[i] ELSE body[i - 1]
    BY <1>4, <1>5, ConcatProperties
  <2>2. Len(body) \in Nat
    BY <1>4
  <2>3. \A i \in 1..Len(body) :
          1 + i \in 1..(1 + Len(body)) /\ ~(1 + i <= 1) /\ (1 + i) - 1 = i
    BY <2>2
  <2>4. 1 \in 1..(1 + Len(body)) /\ 1 <= 1
    BY <2>2
  <2> QED BY <2>1, <2>2, <2>3, <2>4
<1>7. ASSUME NEW o \in Seq(Sent), Len(o) <= Len(all),
             \A i \in 1..Len(o) : o[i] = all[i]
      PROVE  IsPrefix(o, all)
  <2>1. Len(o) \in Nat /\ Len(o) \in 0..Len(all) /\ Len(o) \in 0..Len(o)
    BY <1>6, <1>7
  <2>2. PICK u : u = SubSeq(all, 0 + 1, Len(o))
    OBVIOUS
  <2>3. /\ u \in Seq(Sent) /\ Len(u) = Len(o) - 0
        /\ \A i \in 1..(Len(o) - 0) : u[i] = all[0 + i]
    BY <1>6, <2>1, <2>2, Part
  <2>4. \A i \in 1..Len(o) : o[i] = u[i]
    BY <1>7, <2>1, <2>3
  <2>5. o = u
    BY <2>1, <2>3, <2>4, SeqEqual
  <2>6. SubSeq(o, 1, Len(o)) = o /\ 0 + 1 = 1
    BY SubSeqFull
  <2> QED BY <1>7, <2>2, <2>5, <2>6 DEF IsPrefix
<1>8. sent[r] \in Seq(Sent) /\ FlowOK(r)
  BY DEF AnswerInv
<1>9. CASE sent[r] \in {<<>>, <<"status">>}
  <2>1. PICK o : o = sent[r]
    OBVIOUS
  <2>2. /\ Len(o) <= Len(all) /\ \A i \in 1..Len(o) : o[i] = all[i]
    BY <1>6, <1>9, <2>1
  <2>3. IsPrefix(o, all)
    BY <1>7, <1>8, <2>1, <2>2
  <2> QED BY <1>1, <1>3, <1>5, <2>1, <2>3 DEF Answer
<1>10. ASSUME sent[r] \notin {<<>>, <<"status">>}
       PROVE  \E a \in 0..Len(s) :
                sent[r] = <<"status">> \o SubSeq(s, l + 1, a)
  <2>1. run[r].st = "on" /\ run[r].st \in Alive
    BY <1>8, <1>10 DEF FlowOK, Alive
  <2>2. HeadLen(s) # 0
    BY <1>1, <1>8, <1>10, <2>1 DEF FlowOK, Headless
  <2>3. PICK a \in 0..Len(s) : \/ Gathers(s, run[r], sent[r], a)
                               \/ Streams(s, run[r], sent[r], a)
    BY <1>1, <1>8, <2>1, <2>2 DEF FlowOK, Flows
  <2> QED BY <1>1, <1>10, <2>3 DEF Gathers, Streams
<1>11. ASSUME NEW a \in 0..Len(s),
              sent[r] = <<"status">> \o SubSeq(s, l + 1, a)
       PROVE  IsPrefix(sent[r], Answer(Script[r]))
  <2>1. PICK o, t : o = sent[r] /\ t = SubSeq(s, l + 1, a)
    OBVIOUS
  <2>2. CASE a <= l
    <3>1. t = <<>>
      BY <1>2, <2>1, <2>2, Part
    <3>2. sent[r] = <<"status">>
      BY <1>4, <1>11, <2>1, <3>1, ConcatEmptySeq
    <3> QED BY <1>9, <3>2
  <2>3. CASE l < a
    <3>1. /\ t \in Seq(Cells) /\ Len(t) = a - l
          /\ \A i \in 1..(a - l) : t[i] = s[l + i]
      BY <1>2, <2>1, <2>3, Part
    <3>2. l <= Len(s) /\ Len(s) \in 0..Len(s)
      BY <1>2, <2>3
    <3>3. /\ Len(body) = Len(s) - l
          /\ \A i \in 1..(Len(s) - l) : body[i] = s[l + i]
      BY <1>2, <1>3, <3>2, Part
    <3>4. t \in Seq(Sent)
      BY <3>1, SeqMonotonic DEF Sent
    <3>5. /\ Len(o) = 1 + Len(t)
          /\ \A i \in 1..(1 + Len(t)) :
               o[i] = IF i <= 1 THEN <<"status">>[i] ELSE t[i - 1]
      BY <1>4, <1>11, <2>1, <3>4, ConcatProperties
    <3>6. Len(o) <= Len(all)
      BY <1>2, <1>6, <2>3, <3>1, <3>3, <3>5
    <3>7. ASSUME NEW i \in 1..Len(o) PROVE o[i] = all[i]
      <4>1. CASE i = 1
        BY <1>2, <1>6, <3>1, <3>5, <4>1
      <4>2. CASE i # 1
        <5>1. /\ ~(i <= 1) /\ i \in 1..(1 + Len(t)) /\ i - 1 \in 1..(a - l)
              /\ i - 1 \in 1..(Len(s) - l) /\ i - 1 \in 1..Len(body)
              /\ 1 + (i - 1) = i
          BY <1>2, <2>3, <3>1, <3>2, <3>3, <3>5, <4>2
        <5>2. o[i] = t[i - 1] /\ all[i] = body[i - 1]
          BY <1>6, <3>5, <5>1
        <5> QED BY <3>1, <3>3, <5>1, <5>2
      <4> QED BY <4>1, <4>2
    <3>8. IsPrefix(o, all)
      BY <1>7, <1>8, <2>1, <3>6, <3>7
    <3> QED BY <1>1, <1>3, <1>5, <2>1, <3>8 DEF Answer
  <2> QED BY <1>2, <2>2, <2>3
<1> QED BY <1>9, <1>10, <1>11

(* Whatever the pieces in which a child's output comes, and whatever other *)
(* runs, workers and clients do, what a client has been sent is the        *)
(* beginning of the answer to the output (process_cgi_data, cb_cgi_read):  *)
(* for programs that write their headers in one piece, which fits in       *)
(* in_buf if it begins with a status line.                                 *)
THEOREM AnswerAlwaysIntact ==
  ASSUME ProperPrograms
  PROVE  Spec => []AnswerIntact
<1>1. Init => AnswerInv
  <2> SUFFICES ASSUME Init PROVE AnswerInv
    OBVIOUS
  <2>1. <<>> \in Seq(Sent)
    OBVIOUS
  <2>2. \A r \in Runs : FlowOK(r)
    BY DEF Init, FlowOK, NoRun, Alive
  <2> QED BY <2>1, <2>2 DEF Init, AnswerInv
<1>2. CgiInv /\ AnswerInv /\ [Next]_vars => AnswerInv'
  BY FlowKeeps
<1>3. CgiInv /\ AnswerInv => AnswerIntact
  BY FlowIsAnswer
<1> QED BY <1>1, <1>2, <1>3, CgiInvariant, PTL DEF Spec
=============================================================================
