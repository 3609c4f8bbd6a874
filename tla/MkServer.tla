------------------------------ MODULE MkServer ------------------------------
(***************************************************************************)
(* The threads of the server: how the main thread launches the workers,    *)
(* lets them start, spreads connections over them in the balancing mode,   *)
(* and stops them on a signal.  A thread's step ends where another thread  *)
(* may see what it did.  Threads are named by their index in sched_list,   *)
(* which they take when they register.  The signal handler runs in the     *)
(* main thread, between two of its steps, and does not return.             *)
(***************************************************************************)
EXTENDS Integers, FiniteSets

CONSTANTS
  N,           \* mk_config->workers
  CAPACITY,    \* mk_config->server_capacity
  WORD,        \* 2 ^ 64: connection counters are unsigned long long
  START,       \* MK_SERVER_SIGNAL_START
  FREE,        \* MK_SCHED_SIGNAL_FREE_ALL
  Modes,       \* scheduler modes to consider
  MaxAccepts   \* bound: the connections that arrive in the balancing mode

ASSUME ServerAssumption ==
  /\ N \in Nat \ {0} /\ CAPACITY \in Nat \ {0} /\ MaxAccepts \in Nat
  /\ WORD \in Nat /\ WORD > CAPACITY
  /\ START \in Nat \ {0} /\ FREE \in Nat \ {0, START}
  /\ Modes \subseteq {"REUSEPORT", "FAIR_BALANCING"}

Workers == 0..(N - 1)

VARIABLES
  mode,      \* scheduler_mode
  main,      \* where the main thread is
  i,         \* its loop variable
  scan,      \* target and cur of _next_target
  threads,   \* the worker threads pthread_create has made
  at,        \* at[k]: where the worker k is
  chan,      \* chan[k]: the eventfd behind signal_channel_r and _w
  accepted, closed,   \* the counters of worker k
  live,      \* live[k]: connections its event loop serves
  ghost,     \* ghost[k]: connections in its queues that no event loop serves
  gone,      \* gone[k]: ghosts that timed out
  accepts    \* for MaxAccepts

thread == <<mode, threads>>
conns  == <<accepted, closed, live, ghost, gone, accepts>>
vars   == <<mode, main, i, scan, threads, at, chan, conns>>

Zero == [k \in Workers |-> 0]

Init ==
  /\ mode \in Modes
  /\ main = "launch" /\ i = 0 /\ scan = [target |-> 0, cur |-> 0]
  /\ threads = 0 /\ at = [k \in Workers |-> "none"]
  /\ chan = Zero /\ accepted = Zero /\ closed = Zero
  /\ live = Zero /\ ghost = Zero /\ gone = Zero /\ accepts = 0

-----------------------------------------------------------------------------
(* Launching.                                                              *)

Mut_Turn(next) ==
  IF i < N THEN i' = i + 1 /\ main' = main ELSE i' = 0 /\ main' = next

(* One turn of a loop over the workers; next follows the last one.         *)
Turn(next) ==
  IF i + 1 < N THEN i' = i + 1 /\ main' = main ELSE i' = 0 /\ main' = next

(* mk_sched_launch_thread; nobody looks at its result.                     *)
Launch ==
  /\ main = "launch"
  /\ threads' \in {threads, threads + 1}
  /\ Turn("poll")
  /\ UNCHANGED <<mode, scan, at, chan, conns>>

(* A new thread takes the next entry of sched_list.                        *)
Register(k) ==
  /\ at[k] = "none" /\ k < threads
  /\ \A j \in Workers : j < k => at[j] # "none"
  /\ at' = [at EXCEPT ![k] = "boot"]
  /\ UNCHANGED <<thread, main, i, scan, chan, conns>>

(* It creates its loop and its channel, and says so.                       *)
Initialized(k) ==
  /\ at[k] = "boot"
  /\ at' = [at EXCEPT ![k] = "green"]
  /\ UNCHANGED <<thread, main, i, scan, chan, conns>>

Mut_Ready == \E k \in Workers : at[k] \notin {"none", "boot"}

Ready == \A k \in Workers : at[k] \notin {"none", "boot"}

(* The main thread sees that all are.                                      *)
Poll ==
  /\ main = "poll" /\ Ready
  /\ main' = "start"
  /\ UNCHANGED <<thread, i, scan, at, chan, conns>>

Mut_SendStart ==
  /\ main = "start"
  /\ chan' = [chan EXCEPT ![0] = @ + START]
  /\ Turn(IF mode = "REUSEPORT" THEN "suspend" ELSE "balance")
  /\ UNCHANGED <<thread, scan, at, conns>>

(* mk_server_loop wakes up a worker: what is written to an eventfd is      *)
(* added to what it holds.                                                 *)
SendStart ==
  /\ main = "start"
  /\ chan' = [chan EXCEPT ![i] = @ + START]
  /\ Turn(IF mode = "REUSEPORT" THEN "suspend" ELSE "balance")
  /\ UNCHANGED <<thread, scan, at, conns>>

(* The worker's first wait: whatever it reads, it goes on.                 *)
GreenLight(k) ==
  /\ at[k] = "green" /\ chan[k] # 0
  /\ chan' = [chan EXCEPT ![k] = 0]
  /\ at' = [at EXCEPT ![k] = "serve"]
  /\ UNCHANGED <<thread, main, i, scan, conns>>

-----------------------------------------------------------------------------
(* Balancing, in the main thread.                                          *)

Load(k) == (accepted[k] - closed[k]) % WORD

(* A client has come: _next_target begins with the first worker.           *)
NextTarget ==
  /\ main = "balance" /\ accepts < MaxAccepts
  /\ scan' = [target |-> 0, cur |-> Load(0)]
  /\ main' = "scan" /\ i' = 1
  /\ UNCHANGED <<thread, at, chan, conns>>

(* A turn of its loop.                                                     *)
Compare ==
  /\ main = "scan" /\ scan.cur # 0 /\ i < N
  /\ scan' = IF Load(i) < scan.cur THEN [target |-> i, cur |-> Load(i)]
             ELSE scan
  /\ i' = i + 1
  /\ UNCHANGED <<thread, main, at, chan, conns>>

Mut_Full(cur) == cur > CAPACITY

Full(cur) == cur >= CAPACITY

(* Its end: a worker, or "Over capacity".                                  *)
Decide ==
  /\ main = "scan" /\ (scan.cur = 0 \/ i = N)
  /\ main' = IF Full(scan.cur) THEN "balance" ELSE "accept"
  /\ i' = 0
  /\ UNCHANGED <<thread, scan, at, chan, conns>>

(* mk_server_listen_handler for the target: the connection is refused, or  *)
(* in the worker's queues without an event and with its descriptor closed, *)
(* or served from now on.  A connection may be given the number of such a  *)
(* descriptor: when it is still in the target's rb_queue, mk_bug ends the  *)
(* process with all its threads.                                           *)
Accept ==
  /\ main = "accept"
  /\ accepts' = accepts + 1
  /\ \/ main' = "balance" /\ UNCHANGED <<at, live, ghost>>
     \/ /\ main' = "balance" /\ UNCHANGED <<at, live>>
        /\ ghost' = [ghost EXCEPT ![scan.target] = @ + 1]
     \/ /\ main' = "aborted" /\ ghost[scan.target] > 0
        /\ at' = [k \in Workers |-> "killed"] /\ UNCHANGED <<live, ghost>>
     \/ /\ main' = "count" /\ UNCHANGED <<at, ghost>>
        /\ live' = [live EXCEPT ![scan.target] = @ + 1]
  /\ UNCHANGED <<thread, i, scan, chan, accepted, closed, gone>>

(* accepted_connections++, which the worker does not wait for.             *)
Count ==
  /\ main = "count"
  /\ accepted' = [accepted EXCEPT ![scan.target] = @ + 1]
  /\ main' = "balance"
  /\ UNCHANGED <<thread, i, scan, at, chan, closed, live, ghost, gone,
                 accepts>>

Mut_Close(k) ==
  /\ at[k] = "serve" /\ live[k] > 0
  /\ live' = [live EXCEPT ![k] = @ - 1]
  /\ UNCHANGED <<thread, main, i, scan, at, chan, accepted, closed, ghost,
                 gone, accepts>>

(* mk_sched_remove_client, in the worker.                                  *)
Close(k) ==
  /\ at[k] = "serve" /\ live[k] > 0
  /\ live' = [live EXCEPT ![k] = @ - 1]
  /\ closed' = [closed EXCEPT ![k] = @ + 1]
  /\ UNCHANGED <<thread, main, i, scan, at, chan, accepted, ghost, gone,
                 accepts>>

(* The same, from mk_sched_check_timeouts, for one it never served.  Its   *)
(* descriptor number is closed again: that it may be another connection's  *)
(* by now touches none of the counters.                                    *)
Timeout(k) ==
  /\ at[k] = "serve" /\ ghost[k] > 0
  /\ ghost' = [ghost EXCEPT ![k] = @ - 1]
  /\ gone' = [gone EXCEPT ![k] = @ + 1]
  /\ closed' = [closed EXCEPT ![k] = @ + 1]
  /\ UNCHANGED <<thread, main, i, scan, at, chan, accepted, live, accepts>>

(* mk_sched_event_read writes to a client that does not read: the worker   *)
(* is in its loop until the client does, or the connection breaks.         *)
Flush(k) ==
  /\ at[k] = "serve" /\ (mode = "REUSEPORT" \/ live[k] > 0)
  /\ at' = [at EXCEPT ![k] = "flush"]
  /\ UNCHANGED <<thread, main, i, scan, chan, conns>>

Flushed(k) ==
  /\ at[k] = "flush"
  /\ at' = [at EXCEPT ![k] = "serve"]
  /\ UNCHANGED <<thread, main, i, scan, chan, conns>>

-----------------------------------------------------------------------------
(* Stopping.                                                               *)

(* SIGTERM, SIGINT or SIGHUP, once the workers are ready.                  *)
Signal ==
  /\ main \in {"start", "suspend", "balance", "scan", "accept", "count"}
  /\ main' = "exit" /\ i' = 0
  /\ UNCHANGED <<thread, scan, at, chan, conns>>

(* mk_exit_all writes to a worker's channel.                               *)
SendFree ==
  /\ main = "exit"
  /\ chan' = [chan EXCEPT ![i] = @ + FREE]
  /\ Turn("join")
  /\ UNCHANGED <<thread, scan, at, conns>>

Mut_Notified(k) ==
  /\ at[k] = "serve" /\ chan[k] # 0
  /\ chan' = [chan EXCEPT ![k] = 0]
  /\ at' = [at EXCEPT ![k] = IF chan[k] = START THEN "freed" ELSE "serve"]
  /\ UNCHANGED <<thread, main, i, scan, conns>>

(* The worker reads its channel in the loop.                               *)
Notified(k) ==
  /\ at[k] = "serve" /\ chan[k] # 0
  /\ chan' = [chan EXCEPT ![k] = 0]
  /\ at' = [at EXCEPT ![k] = IF chan[k] = FREE THEN "freed" ELSE "serve"]
  /\ UNCHANGED <<thread, main, i, scan, conns>>

(* pthread_join; after the last, everything is freed and _exit called.     *)
Join ==
  /\ main = "join" /\ at[i] = "freed"
  /\ Turn("ended")
  /\ UNCHANGED <<thread, scan, at, chan, conns>>

-----------------------------------------------------------------------------
Worker(k) == Register(k) \/ Initialized(k) \/ GreenLight(k) \/ Notified(k)

Serving(k) == Close(k) \/ Timeout(k) \/ Flush(k) \/ Flushed(k)

Main == Launch \/ Poll \/ SendStart \/ SendFree \/ Join

Balancer == NextTarget \/ Compare \/ Decide \/ Accept \/ Count

Next ==
  \/ Main \/ Balancer \/ Signal
  \/ \E k \in Workers : Worker(k) \/ Serving(k)

(* Threads run: the main thread loops without waiting, except for workers  *)
(* and, in the balancing mode, for clients.  A worker that comes back to   *)
(* mk_event_wait again and again reads its channel: epoll reports it with  *)
(* the sockets.  Nothing is assumed of when a client reads.                *)
Spec ==
  /\ Init /\ [][Next]_vars
  /\ WF_vars(Main)
  /\ \A k \in Workers : WF_vars(Worker(k)) /\ SF_vars(Notified(k))

-----------------------------------------------------------------------------
(* Properties.                                                             *)

(* The state has its types; a loop stays inside sched_list.                *)
TypeOK ==
  /\ mode \in Modes
  /\ main \in {"launch", "poll", "start", "suspend", "balance", "scan",
               "accept", "count", "exit", "join", "ended", "aborted"}
  /\ i \in 0..N /\ (main # "scan" => i < N) /\ threads \in 0..N
  /\ scan \in [target : Workers, cur : 0..(WORD - 1)]
  /\ at \in [Workers -> {"none", "boot", "green", "serve", "flush", "freed",
                      "killed"}]
  /\ chan \in [Workers -> Nat]
  /\ accepted \in [Workers -> Nat] /\ closed \in [Workers -> Nat]
  /\ live \in [Workers -> Nat] /\ ghost \in [Workers -> Nat]
  /\ gone \in [Workers -> Nat] /\ accepts \in 0..MaxAccepts

(* No worker serves before the main thread has seen all of them ready,     *)
(* whatever the order in which threads are created, register, initialize   *)
(* and are signalled.                                                      *)
NoneBeforeGreenLight ==
  (\E k \in Workers : at[k] \in {"serve", "flush", "freed"}) =>
    \A k \in Workers : at[k] \notin {"none", "boot"}

(* Whenever _next_target may read it, although workers close connections   *)
(* the main thread has not counted yet, the load of a worker is the number *)
(* of connections it serves, less the registrations that failed and timed  *)
(* out, in unsigned arithmetic.                                            *)
LoadExact ==
  main \in {"balance", "scan", "accept"} =>
    \A k \in Workers : Load(k) = (live[k] - gone[k]) % WORD

(* The check of the capacity is made long before the connection counts,    *)
(* and by another thread than the one that closes: each worker by itself   *)
(* still serves no more than the capacity, plus one for each failed        *)
(* registration that timed out.  Of all workers together it says nothing:  *)
(* that is TotalWithinCapacity.                                            *)
WithinCapacity ==
  \A k \in Workers : live[k] <= CAPACITY + gone[k]

(* The server as a whole serves no more than server_capacity, which        *)
(* mk_config.h calls the total and the banner promises for all threads.    *)
TotalWithinCapacity ==
  Cardinality({c \in Workers \X (1..MaxAccepts) : c[2] <= live[c[1]]})
    <= CAPACITY

(* The assertion of mk_sched_add_connection: no connection of the worker   *)
(* has the new one's descriptor.                                           *)
NoBugFound == main # "aborted"

(* If every thread could be created, every worker starts, unless the       *)
(* server aborts first.                                                    *)
LaunchCompletes ==
  main = "poll" /\ threads = N
    ~> \A k \in Workers : at[k] \in {"serve", "flush", "freed", "killed"}

(* No client holds a worker in the loop of mk_sched_event_read for ever.   *)
NoneHeld == \A k \in Workers : []<>(at[k] # "flush")

AllServing == \A k \in Workers : at[k] \in {"serve", "flush"} /\ chan[k] = 0

(* A signal that comes when every worker has had its green light stops     *)
(* them all, and the server, if none of them is held: a client that does   *)
(* not read keeps pthread_join waiting.                                    *)
StopsWhenServing ==
  NoneHeld => (main = "exit" /\ i = 0 /\ AllServing ~> main = "ended")

(* A signal stops the server, as man/monkey.1 says, if no worker is held.  *)
StopsOnSignal == NoneHeld => (main = "exit" ~> main = "ended")

(***************************************************************************)
(* The inductive invariant behind the safety properties.                   *)
(***************************************************************************)

(* What the main thread knows of the workers, and they of it.              *)
PhaseOK ==
  /\ main = "launch" => threads <= i
  /\ main \in {"launch", "poll"} =>
       \A k \in Workers : chan[k] = 0 /\ at[k] \in {"none", "boot", "green"}
  /\ main \notin {"launch", "poll"} =>
       \A k \in Workers : at[k] \notin {"none", "boot"}

(* The counters, but for the connection that is being counted.             *)
CountsOK ==
  main \notin {"exit", "join", "ended"} =>
    \A k \in Workers :
      accepted[k] - closed[k] =
        live[k] - gone[k]
          - (IF main = "count" /\ k = scan.target THEN 1 ELSE 0)

(* What _next_target read is no less than what it is now, and in the end   *)
(* less than the capacity.                                                 *)
ScanOK ==
  /\ main \in {"scan", "accept"} =>
       /\ accepted[scan.target] - closed[scan.target] <= scan.cur
       /\ accepts < MaxAccepts
  /\ main = "accept" => scan.cur < CAPACITY

ServerInv ==
  /\ TypeOK /\ PhaseOK /\ CountsOK /\ ScanOK
  /\ NoneBeforeGreenLight /\ WithinCapacity
=============================================================================
