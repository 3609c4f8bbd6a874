--------------------------- MODULE MkServer_proofs ---------------------------
(***************************************************************************)
(* Proofs about MkServer, for any number of workers, any capacity and any  *)
(* number of connections.                                                  *)
(***************************************************************************)
EXTENDS MkServer, TLAPS

(* Unsigned arithmetic gives a word, no less than a number that fits.      *)
LEMMA Unsigned ==
  ASSUME NEW x \in Int
  PROVE  x % WORD \in 0..(WORD - 1) /\ (x < WORD => x <= x % WORD)
BY ServerAssumption

(* A load that _next_target reads is a word, and no less than the          *)
(* difference of the counters it was computed from.                        *)
LEMMA Loads ==
  ASSUME ServerInv, NEW k \in Workers, main \in {"balance", "scan"}
  PROVE  /\ Load(k) \in 0..(WORD - 1)
         /\ accepted[k] - closed[k] <= Load(k)
<1>1. accepted[k] \in Nat /\ closed[k] \in Nat /\ live[k] \in Nat
      /\ gone[k] \in Nat
  BY DEF ServerInv, TypeOK
<1>2. accepted[k] - closed[k] = live[k] - gone[k]
  BY <1>1 DEF ServerInv, CountsOK
<1>3. accepted[k] - closed[k] < WORD
  BY <1>1, <1>2, ServerAssumption DEF ServerInv, WithinCapacity
<1>4. QED BY <1>1, <1>3, Unsigned DEF Load

-----------------------------------------------------------------------------
(* The main thread launches, polls, signals and joins.                     *)

(* mk_sched_launch_thread keeps the invariant.                             *)
LEMMA LaunchKeeps == ASSUME ServerInv, Launch PROVE ServerInv'
<1>1. TypeOK' BY ServerAssumption
  DEF ServerInv, TypeOK, PhaseOK, Launch, Turn, conns
<1>2. PhaseOK' BY ServerAssumption
  DEF ServerInv, TypeOK, PhaseOK, Launch, Turn, conns
<1>3. CountsOK' /\ ScanOK' /\ NoneBeforeGreenLight' /\ WithinCapacity'
  BY DEF ServerInv, CountsOK, ScanOK, NoneBeforeGreenLight, WithinCapacity,
         Launch, Turn, conns
<1>4. QED BY <1>1, <1>2, <1>3 DEF ServerInv

(* The main thread sees that every worker is ready.                        *)
LEMMA PollKeeps == ASSUME ServerInv, Poll PROVE ServerInv'
<1>1. TypeOK' BY DEF ServerInv, TypeOK, Poll, thread, conns
<1>2. PhaseOK' BY DEF ServerInv, PhaseOK, Poll, Ready, thread, conns
<1>3. CountsOK' /\ ScanOK' /\ NoneBeforeGreenLight' /\ WithinCapacity'
  BY DEF ServerInv, CountsOK, ScanOK, NoneBeforeGreenLight, WithinCapacity,
         Poll, thread, conns
<1>4. QED BY <1>1, <1>2, <1>3 DEF ServerInv

(* mk_server_loop wakes up a worker.                                       *)
LEMMA SendStartKeeps == ASSUME ServerInv, SendStart PROVE ServerInv'
<1>1. TypeOK'
  <2>1. i \in Workers
    BY ServerAssumption DEF ServerInv, TypeOK, SendStart, Workers
  <2>2. chan' \in [Workers -> Nat]
    BY <2>1, ServerAssumption DEF ServerInv, TypeOK, SendStart
  <2>3. i' \in 0..N /\ i' < N
    BY ServerAssumption DEF ServerInv, TypeOK, SendStart, Turn
  <2>4. QED BY <2>2, <2>3 DEF ServerInv, TypeOK, SendStart, Turn, thread, conns
<1>2. PhaseOK' BY DEF ServerInv, PhaseOK, SendStart, Turn, thread, conns
<1>3. CountsOK' /\ ScanOK' /\ NoneBeforeGreenLight' /\ WithinCapacity'
  BY DEF ServerInv, CountsOK, ScanOK, NoneBeforeGreenLight, WithinCapacity,
         SendStart, Turn, thread, conns
<1>4. QED BY <1>1, <1>2, <1>3 DEF ServerInv

(* mk_exit_all writes to a worker's channel.                               *)
LEMMA SendFreeKeeps == ASSUME ServerInv, SendFree PROVE ServerInv'
<1>1. TypeOK'
  <2>1. i \in Workers
    BY ServerAssumption DEF ServerInv, TypeOK, SendFree, Workers
  <2>2. chan' \in [Workers -> Nat]
    BY <2>1, ServerAssumption DEF ServerInv, TypeOK, SendFree
  <2>3. i' \in 0..N /\ i' < N
    BY ServerAssumption DEF ServerInv, TypeOK, SendFree, Turn
  <2>4. QED BY <2>2, <2>3 DEF ServerInv, TypeOK, SendFree, Turn, thread, conns
<1>2. PhaseOK' BY DEF ServerInv, PhaseOK, SendFree, Turn, thread, conns
<1>3. CountsOK' /\ ScanOK' /\ NoneBeforeGreenLight' /\ WithinCapacity'
  BY DEF ServerInv, CountsOK, ScanOK, NoneBeforeGreenLight, WithinCapacity,
         SendFree, Turn, thread, conns
<1>4. QED BY <1>1, <1>2, <1>3 DEF ServerInv

(* pthread_join returns.                                                   *)
LEMMA JoinKeeps == ASSUME ServerInv, Join PROVE ServerInv'
<1>1. TypeOK' BY ServerAssumption
  DEF ServerInv, TypeOK, Join, Turn, thread, conns
<1>2. PhaseOK' BY DEF ServerInv, PhaseOK, Join, Turn, thread, conns
<1>3. CountsOK' /\ ScanOK' /\ NoneBeforeGreenLight' /\ WithinCapacity'
  BY DEF ServerInv, CountsOK, ScanOK, NoneBeforeGreenLight, WithinCapacity,
         Join, Turn, thread, conns
<1>4. QED BY <1>1, <1>2, <1>3 DEF ServerInv

(* A signal arrives in the main thread.                                    *)
LEMMA SignalKeeps == ASSUME ServerInv, Signal PROVE ServerInv'
<1>1. TypeOK' BY ServerAssumption DEF ServerInv, TypeOK, Signal, thread, conns
<1>2. PhaseOK' BY DEF ServerInv, PhaseOK, Signal, thread, conns
<1>3. CountsOK' /\ ScanOK' /\ NoneBeforeGreenLight' /\ WithinCapacity'
  BY DEF ServerInv, CountsOK, ScanOK, NoneBeforeGreenLight, WithinCapacity,
         Signal, thread, conns
<1>4. QED BY <1>1, <1>2, <1>3 DEF ServerInv

-----------------------------------------------------------------------------
(* The workers start and stop.                                             *)

(* The steps of a worker's thread keep the invariant.                      *)
LEMMA WorkerKeeps ==
  ASSUME ServerInv, NEW k \in Workers, Worker(k) PROVE ServerInv'
<1>1. CountsOK' /\ ScanOK' /\ WithinCapacity'
  BY DEF ServerInv, CountsOK, ScanOK, WithinCapacity, Worker, Register,
         Initialized, GreenLight, Notified, thread, conns
<1>2. TypeOK'
  BY DEF ServerInv, TypeOK, Worker, Register, Initialized, GreenLight,
         Notified, thread, conns
<1>3. PhaseOK' /\ NoneBeforeGreenLight'
  <2>1. at \in [Workers -> {"none", "boot", "green", "serve", "flush",
                            "freed", "killed"}]
        /\ chan \in [Workers -> Nat]
    BY DEF ServerInv, TypeOK
  <2>2. CASE Register(k)
    BY <2>1, <2>2 DEF ServerInv, PhaseOK, NoneBeforeGreenLight, Register,
                      thread
  <2>3. CASE Initialized(k)
    BY <2>1, <2>3 DEF ServerInv, PhaseOK, NoneBeforeGreenLight, Initialized,
                      thread
  <2>4. CASE GreenLight(k)
    BY <2>1, <2>4 DEF ServerInv, PhaseOK, NoneBeforeGreenLight, GreenLight,
                      thread
  <2>5. CASE Notified(k)
    BY <2>1, <2>5 DEF ServerInv, PhaseOK, NoneBeforeGreenLight, Notified,
                      thread
  <2>6. QED BY <2>2, <2>3, <2>4, <2>5 DEF Worker
<1>4. QED BY <1>1, <1>2, <1>3 DEF ServerInv

-----------------------------------------------------------------------------
(* The main thread chooses a worker and gives it a connection.             *)

(* _next_target begins.                                                    *)
LEMMA NextTargetKeeps == ASSUME ServerInv, NextTarget PROVE ServerInv'
<1>1. 0 \in Workers BY ServerAssumption DEF Workers
<1>2. main = "balance" BY DEF NextTarget
<1>3. Load(0) \in 0..(WORD - 1) /\ accepted[0] - closed[0] <= Load(0)
  BY <1>1, <1>2, Loads
<1>4. scan' = [target |-> 0, cur |-> Load(0)] BY DEF NextTarget
<1>5. TypeOK'
  BY <1>1, <1>3, <1>4, ServerAssumption
  DEF ServerInv, TypeOK, NextTarget, thread, conns
<1>6. ScanOK' BY <1>3, <1>4 DEF ScanOK, NextTarget, thread, conns
<1>7. PhaseOK' /\ CountsOK' /\ NoneBeforeGreenLight' /\ WithinCapacity'
  BY DEF ServerInv, PhaseOK, CountsOK, NoneBeforeGreenLight, WithinCapacity,
         NextTarget, thread, conns
<1>8. QED BY <1>5, <1>6, <1>7 DEF ServerInv

(* A turn of its loop: the load it reads bounds the load from then on.     *)
LEMMA CompareKeeps == ASSUME ServerInv, Compare PROVE ServerInv'
<1>1. i \in Workers
  BY ServerAssumption DEF ServerInv, TypeOK, Compare, Workers
<1>2. main = "scan" BY DEF Compare
<1>3. Load(i) \in 0..(WORD - 1) /\ accepted[i] - closed[i] <= Load(i)
  BY <1>1, <1>2, Loads
<1>4. scan' = scan \/ scan' = [target |-> i, cur |-> Load(i)] BY DEF Compare
<1>5. TypeOK'
  BY <1>1, <1>3, <1>4, ServerAssumption
  DEF ServerInv, TypeOK, Compare, thread, conns
<1>6. ScanOK'
  BY <1>2, <1>3, <1>4 DEF ServerInv, ScanOK, Compare, thread, conns
<1>7. PhaseOK' /\ CountsOK' /\ NoneBeforeGreenLight' /\ WithinCapacity'
  BY DEF ServerInv, PhaseOK, CountsOK, NoneBeforeGreenLight, WithinCapacity,
         Compare, thread, conns
<1>8. QED BY <1>5, <1>6, <1>7 DEF ServerInv

(* Its end: a target has room, and nobody else can fill it.                *)
LEMMA DecideKeeps == ASSUME ServerInv, Decide PROVE ServerInv'
<1>1. TypeOK'
  BY ServerAssumption DEF ServerInv, TypeOK, Decide, thread, conns
<1>2. ScanOK'
  BY ServerAssumption
  DEF ServerInv, TypeOK, ScanOK, Decide, Full, thread, conns
<1>3. PhaseOK' /\ CountsOK' /\ NoneBeforeGreenLight' /\ WithinCapacity'
  BY DEF ServerInv, PhaseOK, CountsOK, NoneBeforeGreenLight, WithinCapacity,
         Decide, thread, conns
<1>4. QED BY <1>1, <1>2, <1>3 DEF ServerInv

(* mk_server_listen_handler takes the connection or not.                   *)
LEMMA AcceptKeeps == ASSUME ServerInv, Accept PROVE ServerInv'
<1>1. /\ main = "accept" /\ scan.target \in Workers /\ scan.cur \in Nat
      /\ accepts < MaxAccepts /\ scan.cur < CAPACITY
      /\ accepted[scan.target] - closed[scan.target] <= scan.cur
  BY ServerAssumption DEF ServerInv, TypeOK, ScanOK, Accept
<1>2. live[scan.target] + 1 <= CAPACITY + gone[scan.target]
  <2>1. accepted[scan.target] - closed[scan.target] =
          live[scan.target] - gone[scan.target]
    BY <1>1 DEF ServerInv, TypeOK, CountsOK
  <2>2. QED BY <1>1, <2>1, ServerAssumption DEF ServerInv, TypeOK
<1>3. TypeOK'
  BY <1>1, ServerAssumption DEF ServerInv, TypeOK, Accept, thread
<1>4. WithinCapacity'
  BY <1>1, <1>2 DEF ServerInv, TypeOK, WithinCapacity, Accept
<1>5. CountsOK'
  <2>1. SUFFICES ASSUME main' \notin {"exit", "join", "ended"},
                        NEW j \in Workers,
                        NEW d, d = IF main' = "count" /\ j = scan.target
                                   THEN 1 ELSE 0
                 PROVE  accepted'[j] - closed'[j] = live'[j] - gone'[j] - d
    BY DEF CountsOK, Accept
  <2>2. accepted[j] - closed[j] = live[j] - gone[j]
    BY <1>1 DEF ServerInv, TypeOK, CountsOK
  <2>3. /\ accepted[j] \in Nat /\ closed[j] \in Nat
        /\ live[j] \in Nat /\ gone[j] \in Nat
        /\ live \in [Workers -> Nat]
    BY DEF ServerInv, TypeOK
  <2>4. live'[j] = live[j] + d
    BY <1>1, <2>1, <2>3 DEF Accept
  <2>5. accepted' = accepted /\ closed' = closed /\ gone' = gone /\ d \in Nat
    BY <2>1 DEF Accept
  <2>6. QED BY <2>2, <2>3, <2>4, <2>5
<1>6. PhaseOK' /\ ScanOK' /\ NoneBeforeGreenLight'
  BY <1>1 DEF ServerInv, PhaseOK, ScanOK, NoneBeforeGreenLight, Accept, thread
<1>7. QED BY <1>3, <1>4, <1>5, <1>6 DEF ServerInv

(* accepted_connections++ catches up with the connection.                  *)
LEMMA CountKeeps == ASSUME ServerInv, Count PROVE ServerInv'
<1>1. TypeOK' BY DEF ServerInv, TypeOK, Count, thread
<1>2. CountsOK' BY DEF ServerInv, TypeOK, CountsOK, Count
<1>3. PhaseOK' /\ ScanOK' /\ NoneBeforeGreenLight' /\ WithinCapacity'
  BY DEF ServerInv, PhaseOK, ScanOK, NoneBeforeGreenLight, WithinCapacity,
         Count, thread
<1>4. QED BY <1>1, <1>2, <1>3 DEF ServerInv

-----------------------------------------------------------------------------
(* A worker closes a connection it serves, or one it never did.            *)

(* A connection that was served is closed.                                 *)
LEMMA CloseKeeps ==
  ASSUME ServerInv, NEW k \in Workers, Close(k) PROVE ServerInv'
<1>1. TypeOK' BY DEF ServerInv, TypeOK, Close, thread
<1>2. CountsOK'
  <2>1. SUFFICES ASSUME main \notin {"exit", "join", "ended"},
                        NEW j \in Workers,
                        NEW d, d = IF main = "count" /\ j = scan.target
                                   THEN 1 ELSE 0
                 PROVE  accepted'[j] - closed'[j] = live'[j] - gone'[j] - d
    BY DEF CountsOK, Close
  <2>2. accepted[j] - closed[j] = live[j] - gone[j] - d
    BY <2>1 DEF ServerInv, CountsOK
  <2>3. d \in Int BY <2>1
  <2>4. /\ accepted[j] \in Nat /\ closed[j] \in Nat
        /\ live[j] \in Nat /\ gone[j] \in Nat
        /\ accepted'[j] = accepted[j] /\ gone'[j] = gone[j]
        /\ \/ closed'[j] = closed[j] /\ live'[j] = live[j]
           \/ closed'[j] = closed[j] + 1 /\ live'[j] = live[j] - 1
    BY DEF ServerInv, TypeOK, Close
  <2>5. QED BY <2>2, <2>3, <2>4
<1>3. WithinCapacity'
  BY ServerAssumption DEF ServerInv, TypeOK, WithinCapacity, Close
<1>4. ScanOK'
  BY ServerAssumption DEF ServerInv, TypeOK, ScanOK, Close
<1>5. PhaseOK' /\ NoneBeforeGreenLight'
  BY DEF ServerInv, PhaseOK, NoneBeforeGreenLight, Close, thread
<1>6. QED BY <1>1, <1>2, <1>3, <1>4, <1>5 DEF ServerInv

(* One that was never served is closed and counted all the same.           *)
LEMMA TimeoutKeeps ==
  ASSUME ServerInv, NEW k \in Workers, Timeout(k) PROVE ServerInv'
<1>1. TypeOK' BY DEF ServerInv, TypeOK, Timeout, thread
<1>2. CountsOK'
  <2>1. SUFFICES ASSUME main \notin {"exit", "join", "ended"},
                        NEW j \in Workers,
                        NEW d, d = IF main = "count" /\ j = scan.target
                                   THEN 1 ELSE 0
                 PROVE  accepted'[j] - closed'[j] = live'[j] - gone'[j] - d
    BY DEF CountsOK, Timeout
  <2>2. accepted[j] - closed[j] = live[j] - gone[j] - d
    BY <2>1 DEF ServerInv, CountsOK
  <2>3. d \in Int BY <2>1
  <2>4. /\ accepted[j] \in Nat /\ closed[j] \in Nat
        /\ live[j] \in Nat /\ gone[j] \in Nat
        /\ accepted'[j] = accepted[j] /\ live'[j] = live[j]
        /\ \/ closed'[j] = closed[j] /\ gone'[j] = gone[j]
           \/ closed'[j] = closed[j] + 1 /\ gone'[j] = gone[j] + 1
    BY DEF ServerInv, TypeOK, Timeout
  <2>5. QED BY <2>2, <2>3, <2>4
<1>3. WithinCapacity'
  BY ServerAssumption DEF ServerInv, TypeOK, WithinCapacity, Timeout
<1>4. ScanOK'
  BY ServerAssumption DEF ServerInv, TypeOK, ScanOK, Timeout
<1>5. PhaseOK' /\ NoneBeforeGreenLight'
  BY DEF ServerInv, PhaseOK, NoneBeforeGreenLight, Timeout, thread
<1>6. QED BY <1>1, <1>2, <1>3, <1>4, <1>5 DEF ServerInv

(* A worker writes to a client that does not read, and comes back.         *)
LEMMA FlushKeeps ==
  ASSUME ServerInv, NEW k \in Workers, Flush(k) \/ Flushed(k)
  PROVE  ServerInv'
<1>1. TypeOK' BY DEF ServerInv, TypeOK, Flush, Flushed, thread, conns
<1>2. PhaseOK' /\ NoneBeforeGreenLight'
  BY DEF ServerInv, TypeOK, PhaseOK, NoneBeforeGreenLight, Flush, Flushed,
         thread
<1>3. CountsOK' /\ ScanOK' /\ WithinCapacity'
  BY DEF ServerInv, CountsOK, ScanOK, WithinCapacity, Flush, Flushed, conns
<1>4. QED BY <1>1, <1>2, <1>3 DEF ServerInv

-----------------------------------------------------------------------------
(* ServerInv is invariant: launching, balancing and stopping keep it, in   *)
(* any interleaving of the main thread with any number of workers.         *)
THEOREM ServerInvariant == Spec => []ServerInv
<1>1. Init => ServerInv
  <2>1. SUFFICES ASSUME Init PROVE ServerInv OBVIOUS
  <2>2. TypeOK BY <2>1, ServerAssumption DEF Init, TypeOK, Zero, Workers
  <2>3. PhaseOK /\ ScanOK /\ NoneBeforeGreenLight
    BY <2>1 DEF Init, PhaseOK, ScanOK, NoneBeforeGreenLight, Zero
  <2>4. CountsOK /\ WithinCapacity
    BY <2>1, ServerAssumption DEF Init, CountsOK, WithinCapacity, Zero
  <2>5. QED BY <2>2, <2>3, <2>4 DEF ServerInv
<1>2. ServerInv /\ [Next]_vars => ServerInv'
  <2>1. SUFFICES ASSUME ServerInv, [Next]_vars PROVE ServerInv' OBVIOUS
  <2>2. CASE Main
    BY <2>1, <2>2, LaunchKeeps, PollKeeps, SendStartKeeps, SendFreeKeeps,
       JoinKeeps DEF Main
  <2>3. CASE Balancer
    BY <2>1, <2>3, NextTargetKeeps, CompareKeeps, DecideKeeps, AcceptKeeps,
       CountKeeps DEF Balancer
  <2>4. CASE Signal BY <2>1, <2>4, SignalKeeps
  <2>5. CASE \E k \in Workers : Worker(k) \/ Serving(k)
    BY <2>1, <2>5, WorkerKeeps, CloseKeeps, TimeoutKeeps, FlushKeeps
    DEF Serving
  <2>6. CASE UNCHANGED vars
    BY <2>1, <2>6
    DEF vars, thread, conns, ServerInv, TypeOK, PhaseOK, CountsOK, ScanOK,
        NoneBeforeGreenLight, WithinCapacity
  <2>7. QED BY <2>1, <2>2, <2>3, <2>4, <2>5, <2>6 DEF Next
<1>3. QED BY <1>1, <1>2, PTL DEF Spec

(* Whatever the threads' speeds, each worker by itself serves no more      *)
(* connections than the capacity, plus one for each failed registration    *)
(* that timed out; N workers together may serve N times as many.           *)
THEOREM NeverOverCapacity == Spec => []WithinCapacity
<1>1. ServerInv => WithinCapacity BY DEF ServerInv
<1>2. QED BY <1>1, ServerInvariant, PTL

(* Whenever _next_target may read it, the load of a worker is what it      *)
(* serves, less the failed registrations that timed out.                   *)
THEOREM LoadAlwaysExact == Spec => []LoadExact
<1>1. ServerInv => LoadExact
  BY DEF ServerInv, TypeOK, CountsOK, LoadExact, Load
<1>2. QED BY <1>1, ServerInvariant, PTL

(* No worker serves before all of them are ready.                          *)
THEOREM NoneServesEarly == Spec => []NoneBeforeGreenLight
<1>1. ServerInv => NoneBeforeGreenLight BY DEF ServerInv
<1>2. QED BY <1>1, ServerInvariant, PTL
=============================================================================
