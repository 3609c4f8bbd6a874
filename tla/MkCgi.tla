------------------------------- MODULE MkCgi -------------------------------
(***************************************************************************)
(* The CGI plugin: cgi.c, event.c and request.c of plugins/cgi.            *)
(*                                                                         *)
(* A run is one call of do_cgi with all it makes: a child process, a pipe  *)
(* to the child's stdin ("in"), one from its stdout ("out"), and the       *)
(* struct cgi_request the worker's event loop is given.  Workers, children *)
(* and the threads that write request bodies interleave; a handler of a    *)
(* worker is one step, do_cgi is one per stage at which another worker's   *)
(* vfork sees a different set of open descriptors: no pipe end is          *)
(* close-on-exec, so a child starts with every end the server has open,    *)
(* and closes only its own two.                                            *)
(*                                                                         *)
(* The output of a child is a sequence of cells: "S" the beginning of a    *)
(* status line ("Status: " or "HTTP", at least eight bytes), "n" the rest  *)
(* of that line, "H" a header line, "B" the break after the headers, "D"   *)
(* content.  A "B" or an "n" is shorter than eight bytes.                  *)
(***************************************************************************)
EXTENDS Integers, SequencesExt

CONSTANTS
  Workers,   \* the worker threads
  MaxSocket, \* bound: the descriptors connections may have
  MaxRuns,   \* bound: the calls of do_cgi in a behaviour
  Script,    \* Script[r]: the output of the program run r executes
  Bodies,    \* the runs whose request has a body
  BUFLEN,    \* the size of in_buf, in cells
  Env        \* what programs, clients and the system do beyond the plain case

(***************************************************************************)
(* "reader" programs that read their stdin to its end before they answer   *)
(* "split"  programs that write their headers in several pieces            *)
(* "fail"   pipe, vfork or epoll_ctl fails                                 *)
(* "drain"  the channel runs empty between two pieces of an answer after   *)
(*          it had to wait for the client: cb_done ends the request        *)
(***************************************************************************)
EnvKinds == {"reader", "split", "fail", "drain"}

Runs    == 1..MaxRuns
Sockets == 1..MaxSocket

(* The owner of a pipe end that is no child.                               *)
Server == 0

(* Where a worker is that has used freed memory.                           *)
Undefined == {Server}

Cells == {"S", "n", "H", "B", "D"}

ASSUME CgiAssumption ==
  /\ Script \in Seq(Seq(Cells)) /\ Len(Script) = MaxRuns
  /\ Bodies \subseteq Runs
  /\ BUFLEN \in Nat \ {0}
  /\ Env \subseteq EnvKinds
  /\ MaxRuns \in Nat /\ MaxSocket \in Nat

VARIABLES
  run,    \* run[r]: do_cgi's progress, then struct cgi_request
  child,  \* child[r]: the process, and what it has still to write
  pipe,   \* pipe[r]: what is in the pipe from it
  held,   \* the open pipe ends, as <<process, run, end>>
  post,   \* post[r]: the thread that writes the body of r's request
  table,  \* requests_by_socket
  sock,   \* sock[s]: the connection on descriptor s
  at,     \* at[w]: the run whose do_cgi w executes, as a set, or Undefined
  batch,  \* batch[w]: the runs reported to w's loop and not yet visited
  sent    \* sent[r]: what the client has been sent on behalf of r

vars ==
  <<run, child, pipe, held, post, table, sock, at, batch, sent>>

Ends == {"inR", "inW", "outR", "outW"}

(***************************************************************************)
(* st: "none"; "piped", "forked", "fed" in do_cgi; "on" registered;        *)
(* "queued" MK_EVENT_IDLE in event_free_queue; "freed"; "lost" do_cgi      *)
(* failed.  cs: the HTTP session it points to is "answering" its request,  *)
(* has "ended" it, or is "gone".  buf: in_buf, len: in_len, hdr:           *)
(* status_done, all: all_headers_done.                                     *)
(***************************************************************************)
NoRun ==
  [st |-> "none", w |-> {}, s |-> {}, cs |-> "answering", hangup |-> FALSE,
   buf |-> <<>>, len |-> 0, hdr |-> FALSE, all |-> FALSE]

(* A connection: the worker it belongs to, and whether its request_list    *)
(* has a request that is being answered.                                   *)
NoConn == [by |-> {}, busy |-> FALSE]

Gone == [st |-> "gone", reads |-> FALSE, todo |-> <<>>]

Init ==
  /\ run = [r \in Runs |-> NoRun]
  /\ child = [r \in Runs |-> [st |-> "none", reads |-> FALSE, todo |-> <<>>]]
  /\ pipe = [r \in Runs |-> <<>>]
  /\ held = {}
  /\ post = [r \in Runs |-> "no"]
  /\ table = [s \in Sockets |-> {}]
  /\ sock = [s \in Sockets |-> NoConn]
  /\ at = [w \in Workers |-> {}]
  /\ batch = [w \in Workers |-> {}]
  /\ sent = [r \in Runs |-> <<>>]

Open(r, e) == \E p \in Runs \cup {Server} : <<p, r, e>> \in held

-----------------------------------------------------------------------------
(* Connections, as the scheduler drives them.                              *)

(* A request is there for worker w on s: on a connection of its own that   *)
(* is idle, or on one it accepts just now; the kernel gives a new          *)
(* connection the lowest descriptor that is free.                          *)
Asked(w, s) ==
  /\ at[w] = {}
  /\ \/ sock[s] = [by |-> {w}, busy |-> FALSE]
     \/ \A t \in 1..s : sock[t] = NoConn <=> t = s

(* mk_cgi_stage30 on a socket that has a run: "someone tried to retry".    *)
Retry(w, s) ==
  /\ Asked(w, s) /\ table[s] # {}
  /\ sock' = [sock EXCEPT ![s] = [by |-> {w}, busy |-> TRUE]]
  /\ run' = [r \in Runs |->
               IF r \in table[s] /\ run[r].cs = "ended"
               THEN [run[r] EXCEPT !.cs = "answering"] ELSE run[r]]
  /\ UNCHANGED <<child, pipe, held, post, table, at, batch, sent>>

(* do_cgi gives up: mk_http_error answers, and leaves the request for ever *)
(* or until its page is sent.  Nothing that was made is undone.            *)
Fails(w, r, s) ==
  /\ "fail" \in Env
  /\ run' = [run EXCEPT ![r].st = "lost", ![r].w = {w}]
  /\ at' = [at EXCEPT ![w] = {}]
  /\ \E busy \in BOOLEAN :
       sock' = [sock EXCEPT ![s] = [by |-> {w}, busy |-> busy]]

(* mk_cgi_stage30 and the first half of do_cgi: the interpreter and the    *)
(* two pipes.  The second may fail when the first is made.                 *)
Pipes(w, s, r) ==
  /\ Asked(w, s) /\ table[s] = {}
  /\ \A q \in 1..r : run[q].st = "none" <=> q = r
  /\ \/ /\ run' = [run EXCEPT ![r] =
                     [NoRun EXCEPT !.st = "piped", !.w = {w}, !.s = {s}]]
        /\ held' = held \cup {<<Server, r, e>> : e \in Ends}
        /\ at' = [at EXCEPT ![w] = {r}]
        /\ sock' = [sock EXCEPT ![s] = [by |-> {w}, busy |-> TRUE]]
     \/ /\ Fails(w, r, s)
        /\ \E es \in {{}, {"inR", "inW"}} :
             held' = held \cup {<<Server, r, e>> : e \in es}
  /\ UNCHANGED <<child, pipe, post, table, batch, sent>>

(* What the child has open when it executes its program: all the server's  *)
(* ends, less writepipe[1] and readpipe[0] of its own.                     *)
Inherited(r) ==
  {<<r, h[2], h[3]>> : h \in {x \in held : x[1] = Server}}
    \ {<<r, r, "inW">>, <<r, r, "outR">>}

(* vfork: the parent goes on when the child has called execve.             *)
Vfork(w, r) ==
  /\ at[w] = {r} /\ run[r].st = "piped"
  /\ \/ /\ \E reads \in {FALSE, "reader" \in Env} :
             child' = [child EXCEPT ![r] =
                         [st |-> "run", reads |-> reads, todo |-> Script[r]]]
        /\ held' = held \cup Inherited(r)
        /\ run' = [run EXCEPT ![r].st = "forked"]
        /\ UNCHANGED <<at, sock>>
     \/ \E s \in run[r].s : Fails(w, r, s) /\ UNCHANGED <<child, held>>
  /\ UNCHANGED <<pipe, post, table, batch, sent>>

Mut_ParentEnds(r) == {<<Server, r, "inR">>}

(* The ends that are the child's alone.                                    *)
ParentEnds(r) == {<<Server, r, "inR">>, <<Server, r, "outW">>}

(* The parent closes them, and writes a body in a thread of its own; with  *)
(* no body it closes the child's stdin.                                    *)
Feed(w, r) ==
  /\ at[w] = {r} /\ run[r].st = "forked"
  /\ IF r \in Bodies
     THEN /\ post' = [post EXCEPT ![r] = "spawned"]
          /\ held' = held \ ParentEnds(r)
     ELSE /\ held' = held \ (ParentEnds(r) \cup {<<Server, r, "inW">>})
          /\ UNCHANGED post
  /\ run' = [run EXCEPT ![r].st = "fed"]
  /\ UNCHANGED <<child, pipe, table, sock, at, batch, sent>>

(* cgi_req_create, cgi_req_add, mk_event_add, requests_by_socket.          *)
Register(w, r) ==
  /\ at[w] = {r} /\ run[r].st = "fed"
  /\ \E s \in run[r].s :
       \/ /\ \E http11 \in BOOLEAN :
               run' = [run EXCEPT ![r] =
                         [@ EXCEPT !.st = "on", !.hangup = ~http11]]
          /\ table' = [table EXCEPT ![s] = {r}]
          /\ at' = [at EXCEPT ![w] = {}]
          /\ UNCHANGED sock
       \/ Fails(w, r, s) /\ UNCHANGED table
  /\ UNCHANGED <<child, pipe, held, post, batch, sent>>

-----------------------------------------------------------------------------
(* The thread that writes a body: it is given the address of a post_t on   *)
(* the stack of do_cgi.                                                    *)

(* What it may find there: its own, as long as do_cgi has not returned or  *)
(* nothing has overwritten it; the post_t of the run the worker has come   *)
(* to since; or anything.                                                  *)
PostFinds(r) ==
  IF \E w \in Workers : at[w] = {r} THEN {{r}}
  ELSE {{r}, {}} \cup {at[w] : w \in {x \in run[r].w :
                         \E q \in at[x] \cap Runs : post[q] = "spawned"}}

(* cgi_write_post: write the body, close the descriptor.                   *)
WritePost(r) ==
  /\ post[r] = "spawned"
  /\ \E victim \in PostFinds(r) :
       /\ held' = held \ {<<Server, q, "inW">> : q \in victim}
       /\ post' = [post EXCEPT ![r] =
                     IF victim = {r} THEN "done" ELSE "astray"]
  /\ UNCHANGED <<run, child, pipe, table, sock, at, batch, sent>>

-----------------------------------------------------------------------------
(* The child process, and the kernel's part in its death.                  *)

Without(p, H) == {h \in H : h[1] # p}

(* stdin is at its end: nobody can write to it any more.                   *)
StdinEnded(r) == ~Open(r, "inW")

Ready(r) == child[r].st = "run" /\ (child[r].reads => StdinEnded(r))

HeadLen(cells) == SelectInSeq(cells, LAMBDA c : c = "B")

ChildWrites(r) ==
  /\ Ready(r) /\ child[r].todo # <<>> /\ Open(r, "outR")
  /\ \E n \in 1..Len(child[r].todo) :
       /\ "split" \in Env \/ n >= HeadLen(child[r].todo)
       /\ pipe' = [pipe EXCEPT ![r] = @ \o SubSeq(child[r].todo, 1, n)]
       /\ child' = [child EXCEPT ![r].todo = SubSeq(@, n + 1, Len(@))]
  /\ UNCHANGED <<run, held, post, table, sock, at, batch, sent>>

(* It exits when it has written all, or before: execve fails, it crashes,  *)
(* or SIGPIPE kills it.  SIGCHLD is ignored, nobody waits for it.          *)
ChildExits(r) ==
  /\ Ready(r)
  /\ child' = [child EXCEPT ![r] = Gone]
  /\ held' = Without(r, held)
  /\ UNCHANGED <<run, pipe, post, table, sock, at, batch, sent>>

-----------------------------------------------------------------------------
(* The worker's event loop.                                                *)

(* mk_event_del acts on events whose status is MK_EVENT_REGISTERED only,   *)
(* which no code sets: what removes the event of a run is the kernel, when *)
(* the last copy of the read end is closed.                                *)
Registered(w) ==
  {r \in Runs : /\ run[r].st \in {"on", "queued", "freed"} /\ run[r].w = {w}
                /\ Open(r, "outR")}

Readable(r) == pipe[r] # <<>> \/ ~Open(r, "outW")

(* A round of the loop begins: mk_sched_event_free_all has freed what the  *)
(* last one queued, and epoll reports some of what is readable.            *)
Wait(w) ==
  /\ at[w] = {} /\ batch[w] = {}
  /\ run' = [r \in Runs |-> IF run[r].st = "queued" /\ run[r].w = {w}
                            THEN [run[r] EXCEPT !.st = "freed"] ELSE run[r]]
  /\ \E B \in SUBSET {r \in Registered(w) : Readable(r)} :
       batch' = [batch EXCEPT ![w] = B]
  /\ UNCHANGED <<child, pipe, held, post, table, sock, at, sent>>

Mut_Released(active) == "freed"

(* cgi_req_del: at once, or by way of event_free_queue.                    *)
Released(active) == IF active THEN "freed" ELSE "queued"

Mut_Killed(r, H) == H

(* kill(r->child, SIGKILL).                                                *)
Killed(r, H) == Without(r, H)

Mut_Unlisted(s) == table

Unlisted(s) == [table EXCEPT ![s] = {}]

(* cgi_finish; closes says whether the connection goes too.                *)
Finish(r, s, active, closes) ==
  /\ run' = [run EXCEPT ![r] =
               [NoRun EXCEPT !.st = Released(active), !.w = run[r].w]]
  /\ held' = Killed(r, held \ {<<Server, r, "outR">>})
  /\ child' = [child EXCEPT ![r] = Gone]
  /\ table' = Unlisted(s)
  /\ sock' = [sock EXCEPT ![s] = IF closes THEN NoConn
                                 ELSE [@ EXCEPT !.busy = FALSE]]
  /\ sent' = [sent EXCEPT ![r] = <<>>]

(* in_buf once "from" cells of it are used up: nothing moves.              *)
Kept(q, from) == q.buf

First(cells, S) == SelectInSeq(cells, LAMBDA c : c \in S)

Mut_Emptied(q) == q

(* r->in_len = 0.                                                          *)
Emptied(q) == [q EXCEPT !.len = 0, !.buf = <<>>]

(* process_cgi_data: the request afterwards, and what it sends.            *)
Process(q) ==
  LET data   == SubSeq(q.buf, 1, q.len)
      asks   == ~q.hdr /\ First(data, {"S", "H", "D"}) > 0   \* in_len >= 8
      status == asks /\ Head(data) = "S"
      endl   == First(Tail(data), {"n", "H", "B"})
      from   == IF status THEN endl + 1 ELSE 0
      rest   == SubSeq(data, from + 1, Len(data))
      end    == IF q.all THEN 0 ELSE First(rest, {"B"})
      head   == IF asks THEN <<"status">> ELSE <<>>
      next   == [q EXCEPT !.hdr = @ \/ asks]
  IN  IF status /\ endl = 0 THEN [q |-> q, out |-> <<>>]
      ELSE IF ~q.all /\ end = 0
      THEN [q |-> [next EXCEPT !.len = Len(rest), !.buf = Kept(q, from)],
            out |-> head]
      ELSE [q |-> Emptied([next EXCEPT !.all = TRUE]), out |-> head \o rest]

Room(r) == BUFLEN - run[r].len

(* in_buf after read(r->fd, in_buf + in_len, ...).                         *)
ReadMore(r, n) == SubSeq(run[r].buf, 1, run[r].len) \o SubSeq(pipe[r], 1, n)

Visit(w, r) ==
  /\ at[w] = {} /\ r \in batch[w]
  /\ batch' = [batch EXCEPT ![w] = @ \ {r}]
  /\ UNCHANGED post

(* cb_cgi_read finds data.                                                 *)
CgiRead(w, r) ==
  /\ Visit(w, r) /\ run[r].st = "on" /\ run[r].cs # "gone"
  /\ Room(r) > 0 /\ pipe[r] # <<>>
  /\ LET n == Min({Room(r), Len(pipe[r])})
         o == Process([run[r] EXCEPT !.buf = ReadMore(r, n), !.len = @ + n])
     IN  /\ run' = [run EXCEPT ![r] = o.q]
         /\ sent' = [sent EXCEPT ![r] = @ \o o.out]
         /\ pipe' = [pipe EXCEPT ![r] = SubSeq(@, n + 1, Len(@))]
  /\ UNCHANGED <<child, held, table, sock, at>>

(* cb_cgi_read finds the end, or has no room: cgi_finish of an active run. *)
(* mk_http_request_end closes the connection or keeps it, unless cb_done   *)
(* has ended the request already.                                          *)
CgiEnd(w, r) ==
  /\ Visit(w, r) /\ run[r].st = "on" /\ run[r].cs # "gone"
  /\ Room(r) <= 0 \/ pipe[r] = <<>>
  /\ \E s \in run[r].s, closes \in BOOLEAN :
       /\ IF run[r].cs = "ended" THEN ~closes ELSE run[r].hangup => closes
       /\ Finish(r, s, TRUE, closes)
  /\ UNCHANGED <<pipe, at>>

(* An event that is MK_EVENT_IDLE is skipped.                              *)
SkipIdle(w, r) ==
  /\ Visit(w, r) /\ run[r].st = "queued"
  /\ UNCHANGED <<run, child, pipe, held, table, sock, at, sent>>

(* A freed run is visited, or one whose session is gone: what follows is   *)
(* undefined, and the model follows no worker any further.                 *)
VisitFreed(w, r) ==
  /\ Visit(w, r)
  /\ run[r].st = "freed" \/ (run[r].st = "on" /\ run[r].cs = "gone")
  /\ at' = [x \in Workers |-> Undefined]
  /\ UNCHANGED <<run, child, pipe, held, table, sock, sent>>

(* The client hangs up, an error or a time-out closes the connection:      *)
(* mk_http_session_remove calls mk_cgi_stage30_hangup for a request that   *)
(* is still in request_list.                                               *)
Hangup(w, s) ==
  /\ sock[s].by = {w} /\ at[w] = {}
  /\ \/ /\ ~sock[s].busy \/ table[s] = {}
        /\ sock' = [sock EXCEPT ![s] = NoConn]
        /\ run' = [r \in Runs |->
                     IF r \in table[s]
                     THEN [run[r] EXCEPT !.cs = "gone"] ELSE run[r]]
        /\ UNCHANGED <<child, held, table, at, sent>>
     \/ /\ sock[s].busy
        /\ \E r \in table[s] :
             /\ Finish(r, s, FALSE, TRUE)
             /\ at' = IF run[r].cs = "gone" THEN [x \in Workers |-> Undefined]
                      ELSE at
  /\ UNCHANGED <<pipe, post, batch>>

(* mk_http_sched_done: the channel is empty, the request is over.          *)
Drained(w, s) ==
  /\ "drain" \in Env
  /\ sock[s] = [by |-> {w}, busy |-> TRUE] /\ at[w] = {}
  /\ \E r \in table[s] : /\ sent[r] # <<>> /\ run[r].cs = "answering"
                         /\ run' = [run EXCEPT ![r].cs = "ended"]
  /\ sock' = [sock EXCEPT ![s].busy = FALSE]
  /\ UNCHANGED <<child, pipe, held, post, table, at, batch, sent>>

(* One worker's steps that wait for nothing.                               *)
Work(w) ==
  \E r \in Runs : \/ Vfork(w, r) \/ Feed(w, r) \/ Register(w, r)
                  \/ CgiRead(w, r) \/ CgiEnd(w, r)
                  \/ SkipIdle(w, r) \/ VisitFreed(w, r)

Next ==
  \/ \E w \in Workers, s \in Sockets :
       \/ Retry(w, s) \/ Hangup(w, s) \/ Drained(w, s)
       \/ \E r \in Runs : Pipes(w, s, r)
  \/ \E w \in Workers : Wait(w) \/ Work(w)
  \/ \E r \in Runs : WritePost(r) \/ ChildWrites(r) \/ ChildExits(r)

Spec == Init /\ [][Next]_vars

-----------------------------------------------------------------------------
(* Properties.                                                             *)

Over(r) == run[r].st \in {"queued", "freed"}

(* requests_by_socket, which all workers share without a lock, names for   *)
(* every connection the run that answers it, though descriptors are reused *)
(* by other workers: a registered run whose session exists is listed under *)
(* its connection, which is open and its worker's, and nothing else is     *)
(* listed (do_cgi, cgi_finish, mk_cgi_stage30_hangup).                     *)
RunHasConnection ==
  /\ \A r \in Runs : run[r].st = "on" =>
       \E s \in run[r].s : /\ table[s] = {r}
                           /\ run[r].cs # "gone" => sock[s].by = run[r].w
  /\ \A s \in Sockets : \A r \in table[s] :
       run[r].st = "on" /\ run[r].s = {s}

(* "Invoked everytime a remote client drop the active connection" (cgi.c,  *)
(* mk_cgi_stage30_hangup): no run stays registered when its session goes.  *)
HangupReachesRun ==
  \A r \in Runs : run[r].st = "on" => run[r].cs # "gone"

(* A run is freed while its event is due, or reported after it was freed,  *)
(* only when another child that inherited the read end of its pipe is      *)
(* running: apart from that, closing the descriptor does what mk_event_del *)
(* fails to do (cgi_finish, cgi_req_del).                                  *)
SilentUnlessInherited ==
  [][\A w \in Workers : \A r \in batch'[w] :
       run'[r].st = "freed" =>
         \/ r \in batch[w] /\ run[r].st = "freed"
         \/ \E q \in Runs \ {r} : <<q, r, "outR">> \in held']_vars

(* What a run that is over leaves behind: no process, no descriptor, but   *)
(* for the body a thread has yet to write, or will never write.            *)
NothingLeftBehind ==
  \A r \in Runs : Over(r) =>
    /\ child[r].st = "gone" /\ \A h \in held : h[1] # r
    /\ \A e \in Ends : <<Server, r, e>> \in held =>
         e = "inW" /\ post[r] \in {"spawned", "astray"}

(* What the client gets for a program's output: a status line instead of   *)
(* the program's, then all its headers, the break and the content.         *)
StatusLen(cells) == IF First(cells, {"S"}) = 1 THEN 2 ELSE 0

Answer(cells) ==
  <<"status">> \o SubSeq(cells, StatusLen(cells) + 1, Len(cells))

(* However the output arrives in pieces, and however often in_buf fills    *)
(* up, what was sent is the beginning of the answer to the program's       *)
(* output, with nothing lost, repeated or out of order; and in_buf never   *)
(* holds more than it has room for.                                        *)
AnswerIntact ==
  \A r \in Runs : /\ IsPrefix(sent[r], Answer(Script[r]))
                  /\ run[r].len <= BUFLEN

(* Children that wait for the end of their stdin, of which each holds the  *)
(* writing end of another's.                                               *)
Entangled ==
  \E S \in SUBSET Runs : S # {} /\ \A r \in S :
    /\ child[r].st = "run" /\ child[r].reads
    /\ \E q \in S : <<q, r, "inW">> \in held

(* Nobody waits for ever: when a registered run has nothing to read, some  *)
(* worker, thread or child can go on and change that, unless children wait *)
(* for each other or a thread has lost the body it was to write.  In       *)
(* particular the server itself keeps no end open that hides the end of a  *)
(* child's output.                                                         *)
SomebodyMoves ==
  (\E r \in Runs : run[r].st = "on" /\ ~Readable(r)) =>
    \/ \E q \in Runs : Ready(q) \/ post[q] = "spawned"
    \/ \E w \in Workers : at[w] # {}
    \/ Entangled
    \/ \E q \in Runs : post[q] = "astray"
=============================================================================
