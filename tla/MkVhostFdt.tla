----------------------------- MODULE MkVhostFdt -----------------------------
(***************************************************************************)
(* The File Descriptor Table of one worker thread (mk_vhost.c): requests   *)
(* for the same file share one descriptor, kept under a hash of its path.  *)
(* The actions are what the life of a request does to the table:           *)
(* mk_vhost_open inside mk_http_init, with the errors that follow it, and  *)
(* mk_vhost_close inside mk_http_request_free.  Requests of different      *)
(* connections interleave; a call runs alone, the table being thread       *)
(* local.  Descriptor numbers are reused, as the kernel does.              *)
(***************************************************************************)
EXTENDS Integers, FiniteSets

CONSTANTS
  Reqs,       \* memory for struct mk_http_request
  Files,      \* the files requests name
  Host,       \* Host[f]: the virtual host f belongs to
  Hash,       \* Hash[f]: mk_utils_gen_hash of its path below the host's root
  SIZE,       \* VHOST_FDT_HASHTABLE_SIZE
  CHAINS,     \* VHOST_FDT_HASHTABLE_CHAINS
  FDs,        \* bound: the descriptors the process may have for files
  FDT,        \* mk_config->fdt
  Page,       \* the file of a customised error page
  ErrorPages  \* when mk_http_error finds one: before or after the file is open

ASSUME FdtAssumption ==
  /\ IsFiniteSet(Reqs)
  /\ SIZE \in Nat \ {0} /\ CHAINS \in Nat
  /\ Hash \in [Files -> Nat]
  /\ FDs \subseteq Nat \ {0}
  /\ FDT \in BOOLEAN
  /\ Page \notin Files
  /\ ErrorPages \subseteq {"before", "after"}

(* What a hash table needs of its hash to be a table of files: files of a  *)
(* host have different hashes, and none has the hash of an empty slot.     *)
HashIdentifies ==
  /\ \A f \in Files : Hash[f] # 0
  /\ \A f, g \in Files : Host[f] = Host[g] /\ Hash[f] = Hash[g] => f = g

VARIABLES
  chain,  \* chain[t][i]: slot i of hash table t
  av,     \* av[t]: its av_slots
  file,   \* file[d]: the file descriptor d is open on, as a set
  req     \* req[r]: what struct mk_http_request keeps of it

vars == <<chain, av, file, req>>

Slots  == 1..CHAINS
Hosts  == {Host[f] : f \in Files}
Tables == Hosts \X (0..(SIZE - 1))

(* The table mk_vhost_fdt_table_lookup finds for a file.                   *)
Table(f) == <<Host[f], Hash[f] % SIZE>>

Empty == [fd |-> -1, hash |-> 0, readers |-> 0]

(* A request: live, its file_stream.fd, its vhost_fdt_enabled with the     *)
(* table and hash it remembers ({} if disabled), and the file whose bytes  *)
(* are queued for the client.                                              *)
NoReq == [live |-> FALSE, fd |-> 0, entry |-> {}, sends |-> {}]

Init ==
  /\ chain = [t \in Tables |-> [i \in Slots |-> Empty]]
  /\ av = [t \in Tables |-> CHAINS]
  /\ file = [d \in FDs |-> {}]
  /\ req = [r \in Reqs |-> NoReq]

-----------------------------------------------------------------------------
Matches(t, h) == {i \in Slots : chain[t][i].hash = h}
Unused(t)     == {i \in Slots : chain[t][i].fd = -1}

First(i, S)   == i \in S /\ \A j \in S : i <= j

(* open(2): d is free among what is open, and then names f.                *)
Free(d, opened)    == d \in FDs /\ opened[d] = {}
Open(d, f, opened) == [opened EXCEPT ![d] = {f}]

(* Request r is live, with these values.                                   *)
Set(r, d, entry, sends) ==
  req' = [req EXCEPT ![r] = [live |-> TRUE, fd |-> d, entry |-> entry,
                             sends |-> sends]]

(* mk_http_error with a customised page: the page's own descriptor goes    *)
(* where the file's was.                                                   *)
SendPage(r, entry, opened) ==
  \E p \in FDs :
    /\ Free(p, opened)
    /\ file' = Open(p, Page, opened)
    /\ Set(r, p, entry, {Page})

(* The rest of mk_http_init once descriptor d is open on f: the file is    *)
(* sent, or nothing of it (HEAD, or a range error with the default page),  *)
(* or a customised error page.                                             *)
Answer(r, f, d, entry, opened) ==
  \/ file' = opened /\ \E sends \in {{f}, {}} : Set(r, d, entry, sends)
  \/ "after" \in ErrorPages /\ SendPage(r, entry, opened)

(* The same when there is no descriptor.                                   *)
Refuse(r, d, entry) ==
  \/ file' = file /\ Set(r, d, entry, {})
  \/ "before" \in ErrorPages /\ SendPage(r, entry, file)

Mut_OpenShared(r, f) ==
  LET t == Table(f) IN
  /\ ~req[r].live /\ FDT
  /\ \E i \in Slots :
       /\ First(i, Matches(t, Hash[f]))
       /\ Answer(r, f, chain[t][i].fd, {<<t, Hash[f]>>}, file)
  /\ UNCHANGED <<chain, av>>

(* mk_vhost_open finds the hash: the descriptor is shared.                 *)
OpenShared(r, f) ==
  LET t == Table(f) IN
  /\ ~req[r].live /\ FDT
  /\ \E i \in Slots :
       /\ First(i, Matches(t, Hash[f]))
       /\ chain' = [chain EXCEPT ![t][i].readers = @ + 1]
       /\ IF chain[t][i].fd = -1
          THEN Refuse(r, -1, {<<t, Hash[f]>>})
          ELSE Answer(r, f, chain[t][i].fd, {<<t, Hash[f]>>}, file)
  /\ UNCHANGED av

Mut_Taken(t) == av

(* av_slots--.                                                             *)
Taken(t) == [av EXCEPT ![t] = @ - 1]

(* It does not, and a slot is available: the new descriptor is registered. *)
OpenNew(r, f) ==
  LET t == Table(f) IN
  /\ ~req[r].live /\ FDT
  /\ Matches(t, Hash[f]) = {} /\ av[t] > 0
  /\ \E i \in Slots, d \in FDs :
       /\ First(i, Unused(t))
       /\ Free(d, file)
       /\ chain' = [chain EXCEPT ![t][i] =
                      [fd |-> d, hash |-> Hash[f], readers |-> @.readers + 1]]
       /\ Answer(r, f, d, {<<t, Hash[f]>>}, Open(d, f, file))
  /\ av' = Taken(t)

(* The table is off or its chain full: the request keeps the descriptor.   *)
OpenPrivate(r, f) ==
  LET t == Table(f) IN
  /\ ~req[r].live
  /\ FDT => Matches(t, Hash[f]) = {} /\ (av[t] <= 0 \/ Unused(t) = {})
  /\ \E d \in FDs : Free(d, file) /\ Answer(r, f, d, {}, Open(d, f, file))
  /\ UNCHANGED <<chain, av>>

(* open(2) fails, or the request met its error before the file was opened  *)
(* (file_stream.fd is then 0).                                             *)
OpenFails(r, f) ==
  /\ ~req[r].live
  /\ \E d \in {-1, 0} :
       /\ d = -1 /\ FDT => Matches(Table(f), Hash[f]) = {}
       /\ Refuse(r, d, {})
  /\ UNCHANGED <<chain, av>>

(* close(2); nobody else's descriptor must have this number.               *)
CloseFd(d) ==
  file' = IF d \in FDs THEN [file EXCEPT ![d] = {}] ELSE file

Mut_ClosePrivate(r) ==
  /\ req[r].live /\ (~FDT \/ req[r].entry = {})
  /\ req' = [req EXCEPT ![r] = NoReq]
  /\ UNCHANGED <<chain, av, file>>

(* mk_vhost_close of a request that holds no entry.                        *)
ClosePrivate(r) ==
  /\ req[r].live /\ (~FDT \/ req[r].entry = {})
  /\ CloseFd(req[r].fd)
  /\ req' = [req EXCEPT ![r] = NoReq]
  /\ UNCHANGED <<chain, av>>

Mut_LastReader(n) == n <= 1

(* readers-- reaches zero.                                                 *)
LastReader(n) == n = 0

Mut_Returned(t) == av

(* av_slots++.                                                             *)
Returned(t) == [av EXCEPT ![t] = @ + 1]

(* mk_vhost_close of one that does: the last reader closes the descriptor, *)
(* its own, and gives the slot back.                                       *)
CloseEntry(r, t, h) ==
  /\ req[r].live /\ FDT /\ req[r].entry = {<<t, h>>}
  /\ IF Matches(t, h) = {}
     THEN CloseFd(req[r].fd) /\ UNCHANGED <<chain, av>>
     ELSE \E i \in Slots :
            LET left == chain[t][i].readers - 1 IN
            /\ First(i, Matches(t, h))
            /\ IF LastReader(left)
               THEN /\ chain' = [chain EXCEPT ![t][i] = Empty]
                    /\ av' = Returned(t)
                    /\ CloseFd(req[r].fd)
               ELSE /\ chain' = [chain EXCEPT ![t][i].readers = left]
                    /\ UNCHANGED <<av, file>>
  /\ req' = [req EXCEPT ![r] = NoReq]

Next ==
  \E r \in Reqs :
    \/ \E f \in Files : \/ OpenShared(r, f) \/ OpenNew(r, f)
                        \/ OpenPrivate(r, f) \/ OpenFails(r, f)
    \/ ClosePrivate(r)
    \/ \E f \in Files : CloseEntry(r, Table(f), Hash[f])

Spec == Init /\ [][Next]_vars

-----------------------------------------------------------------------------
(* Properties.                                                             *)

Content  == Files \cup {Page}
Entries  == {{}} \cup {{<<Table(f), Hash[f]>>} : f \in Files}
SlotType == [fd : FDs \cup {-1}, hash : Nat, readers : Nat]
ReqType  == [live : BOOLEAN, fd : FDs \cup {-1, 0}, entry : Entries,
             sends : {{}} \cup {{x} : x \in Content}]

(* The state has its types; av_slots stays within the chain, readers is    *)
(* never negative.                                                         *)
TypeOK ==
  /\ chain \in [Tables -> [Slots -> SlotType]]
  /\ av \in [Tables -> 0..CHAINS]
  /\ file \in [FDs -> {{}} \cup {{x} : x \in Content}]
  /\ req \in [Reqs -> ReqType]

(* However opens, closes and reuses of descriptor numbers interleave, the  *)
(* descriptor a request is answered from is open, and on its own file.     *)
RightContent ==
  \A r \in Reqs, x \in Content :
    req[r].live /\ req[r].sends = {x} =>
      req[r].fd \in FDs /\ file[req[r].fd] = {x}

(* No descriptor stays open that neither a live request nor a slot of the  *)
(* table can close any more.                                               *)
NothingLeaks ==
  \A d \in FDs : file[d] # {} =>
    \/ \E r \in Reqs : req[r].live /\ req[r].fd = d
    \/ \E t \in Tables, i \in Slots : chain[t][i].fd = d

Holders(t, h) == {r \in Reqs : req[r].live /\ req[r].entry = {<<t, h>>}}

(* The readers of a slot are the live requests that hold its entry, and    *)
(* av_slots counts the slots that mk_vhost_fdt_open can fill.              *)
Accounted ==
  \A t \in Tables :
    /\ av[t] = Cardinality(Unused(t))
    /\ \A i \in Slots \ Unused(t) :
         chain[t][i].readers = Cardinality(Holders(t, chain[t][i].hash))

(***************************************************************************)
(* The inductive invariant behind them, for hashes that identify files and *)
(* no error page after the file is open.                                   *)
(***************************************************************************)

(* A slot in use holds an open file of its table, some request holds it,   *)
(* and no other slot of the table has its hash.                            *)
SlotsOK ==
  \A t \in Tables, i \in Slots :
    IF chain[t][i].fd = -1 THEN chain[t][i] = Empty
    ELSE /\ \E f \in Files : /\ t = Table(f) /\ chain[t][i].hash = Hash[f]
                             /\ file[chain[t][i].fd] = {f}
         /\ Holders(t, chain[t][i].hash) # {}
         /\ \A j \in Slots : chain[t][j].hash = chain[t][i].hash => j = i

(* A private descriptor is open and nobody else's.                         *)
PrivateOK ==
  \A r \in Reqs :
    req[r].live /\ req[r].entry = {} /\ req[r].fd \in FDs =>
      /\ file[req[r].fd] # {}
      /\ \A q \in Reqs \ {r} : req[q].fd # req[r].fd
      /\ \A t \in Tables, i \in Slots : chain[t][i].fd # req[r].fd

(* A request with an entry has the descriptor of that entry's slot.        *)
EntriesOK ==
  \A r \in Reqs :
    /\ ~req[r].live => req[r] = NoReq
    /\ req[r].entry # {} =>
         /\ FDT /\ req[r].fd \in FDs
         /\ \E t \in Tables, i \in Slots :
              /\ req[r].entry = {<<t, chain[t][i].hash>>}
              /\ chain[t][i].fd = req[r].fd

FdtInv ==
  /\ TypeOK /\ RightContent /\ NothingLeaks /\ Accounted
  /\ SlotsOK /\ PrivateOK /\ EntriesOK

-----------------------------------------------------------------------------
(* What a request may expect of its descriptor, without the table.         *)
Sharing == INSTANCE MkFileSharing WITH
  open <- file,
  uses <- [r \in Reqs |-> IF req[r].live THEN {req[r].fd} \cap FDs ELSE {}]

(* The table implements plain sharing: an open either shares a descriptor  *)
(* of the same file or opens a new one, and a close closes the descriptor  *)
(* exactly when its last user ends (mk_vhost_open, mk_vhost_close).        *)
ImplementsSharing == Sharing!Spec
=============================================================================
