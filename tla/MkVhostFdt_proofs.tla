-------------------------- MODULE MkVhostFdt_proofs --------------------------
(***************************************************************************)
(* Proofs about the File Descriptor Table, for any number of requests,     *)
(* files, hosts, slots and descriptors: as long as hashes identify files   *)
(* and no customised error page is sent once a file is open.               *)
(***************************************************************************)
EXTENDS MkVhostFdt, FiniteSetTheorems, TLAPS

(* A file's table is one of the tables.                                    *)
LEMMA TableIn ==
  ASSUME NEW f \in Files
  PROVE  /\ Table(f) \in Tables
         /\ Hash[f] \in Nat
BY FdtAssumption DEF Table, Tables, Hosts

(* An entry determines its table and its hash.                             *)
LEMMA SameEntry ==
  \A t, h, u, g : {<<t, h>>} = {<<u, g>>} => t = u /\ h = g
<1> SUFFICES ASSUME NEW t, NEW h, NEW u, NEW g, {<<t, h>>} = {<<u, g>>}
             PROVE  t = u /\ h = g
  OBVIOUS
<1>1. <<t, h>> \in {<<u, g>>} OBVIOUS
<1>2. <<t, h>> = <<u, g>> BY <1>1
<1>3. QED BY <1>2

(* The holders of an entry, and the unused slots of a table, are finite.   *)
LEMMA Finite ==
  ASSUME NEW t, NEW h
  PROVE  /\ IsFiniteSet(Holders(t, h)) /\ Cardinality(Holders(t, h)) \in Nat
         /\ IsFiniteSet(Unused(t)) /\ Cardinality(Unused(t)) \in 0..CHAINS
<1>1. Holders(t, h) \in SUBSET Reqs BY DEF Holders
<1>2. IsFiniteSet(Holders(t, h)) BY <1>1, FdtAssumption, FS_Subset
<1>3. CHAINS \in Nat BY FdtAssumption
<1>4. IsFiniteSet(Slots) /\ Cardinality(Slots) = CHAINS
  <2>1. IsFiniteSet(1..CHAINS)
        /\ Cardinality(1..CHAINS) = IF 1 > CHAINS THEN 0 ELSE CHAINS - 1 + 1
    BY <1>3, FS_Interval
  <2>2. QED BY <1>3, <2>1 DEF Slots
<1>5. Unused(t) \in SUBSET Slots BY DEF Unused
<1>6. IsFiniteSet(Unused(t)) /\ Cardinality(Unused(t)) <= CHAINS
  BY <1>4, <1>5, FS_Subset
<1>7. Cardinality(Unused(t)) \in Nat /\ Cardinality(Holders(t, h)) \in Nat
  BY <1>2, <1>6, FS_CardinalityType
<1>8. QED BY <1>2, <1>3, <1>6, <1>7

(* A request that takes an entry joins that entry's holders and no others. *)
LEMMA Joins ==
  ASSUME TypeOK, NEW r \in Reqs, ~req[r].live,
         NEW d, NEW e, NEW s, Set(r, d, e, s)
  PROVE  \A t, h :
           /\ e = {<<t, h>>} =>
                /\ r \notin Holders(t, h)
                /\ Holders(t, h)' = Holders(t, h) \cup {r}
                /\ Cardinality(Holders(t, h)') = Cardinality(Holders(t, h)) + 1
           /\ e # {<<t, h>>} => Holders(t, h)' = Holders(t, h)
<1> SUFFICES ASSUME NEW t, NEW h
             PROVE  /\ e = {<<t, h>>} =>
                         /\ r \notin Holders(t, h)
                         /\ Holders(t, h)' = Holders(t, h) \cup {r}
                         /\ Cardinality(Holders(t, h)') =
                              Cardinality(Holders(t, h)) + 1
                    /\ e # {<<t, h>>} => Holders(t, h)' = Holders(t, h)
  OBVIOUS
<1>1. r \notin Holders(t, h) BY DEF Holders
<1>2. /\ req'[r].live /\ req'[r].entry = e
      /\ \A q \in Reqs : q # r => req'[q] = req[q]
  BY DEF Set, TypeOK
<1>3. Holders(t, h)' = {q \in Reqs : req'[q].live /\ req'[q].entry = {<<t, h>>}}
  BY DEF Holders
<1>4. e = {<<t, h>>} => Holders(t, h)' = Holders(t, h) \cup {r}
  BY <1>2, <1>3 DEF Holders
<1>5. e # {<<t, h>>} => Holders(t, h)' = Holders(t, h)
  BY <1>1, <1>2, <1>3 DEF Holders
<1>6. Cardinality(Holders(t, h) \cup {r}) = Cardinality(Holders(t, h)) + 1
  BY <1>1, Finite, FS_AddElement
<1>7. QED BY <1>1, <1>4, <1>5, <1>6

(* A request that ends leaves the holders of its entry and no others.      *)
LEMMA Leaves ==
  ASSUME TypeOK, NEW r \in Reqs, req[r].live,
         req' = [req EXCEPT ![r] = NoReq]
  PROVE  \A t, h :
           /\ Holders(t, h)' = Holders(t, h) \ {r}
           /\ req[r].entry = {<<t, h>>} =>
                /\ r \in Holders(t, h)
                /\ Cardinality(Holders(t, h)') = Cardinality(Holders(t, h)) - 1
           /\ req[r].entry # {<<t, h>>} => Holders(t, h)' = Holders(t, h)
<1> SUFFICES ASSUME NEW t, NEW h
             PROVE  /\ Holders(t, h)' = Holders(t, h) \ {r}
                    /\ req[r].entry = {<<t, h>>} =>
                         /\ r \in Holders(t, h)
                         /\ Cardinality(Holders(t, h)') =
                              Cardinality(Holders(t, h)) - 1
                    /\ req[r].entry # {<<t, h>>} =>
                         Holders(t, h)' = Holders(t, h)
  OBVIOUS
<1>1. ~req'[r].live /\ \A q \in Reqs : q # r => req'[q] = req[q]
  BY DEF NoReq, TypeOK
<1>2. Holders(t, h)' = {q \in Reqs : req'[q].live /\ req'[q].entry = {<<t, h>>}}
  BY DEF Holders
<1>3. Holders(t, h)' = Holders(t, h) \ {r} BY <1>1, <1>2 DEF Holders
<1>4. r \in Holders(t, h) <=> req[r].entry = {<<t, h>>} BY DEF Holders
<1>5. Cardinality(Holders(t, h) \ {r}) =
        IF r \in Holders(t, h) THEN Cardinality(Holders(t, h)) - 1
        ELSE Cardinality(Holders(t, h))
  BY Finite, FS_RemoveElement
<1>6. QED BY <1>3, <1>4, <1>5

(* A number that is free belongs to no slot and no request.                *)
LEMMA Fresh ==
  ASSUME FdtInv, NEW p \in FDs, file[p] = {}
  PROVE  /\ \A q \in Reqs : req[q].fd # p
         /\ \A t \in Tables, i \in Slots : chain[t][i].fd # p
<1>1. p # -1 /\ p # 0 BY FdtAssumption
<1>2. ASSUME NEW t \in Tables, NEW i \in Slots, chain[t][i].fd = p
      PROVE  FALSE
  BY <1>1, <1>2 DEF FdtInv, SlotsOK
<1>3. ASSUME NEW q \in Reqs, req[q].fd = p
      PROVE  FALSE
  <2>1. CASE ~req[q].live BY <1>1, <1>3, <2>1 DEF FdtInv, EntriesOK, NoReq
  <2>2. CASE req[q].live /\ req[q].entry = {}
    BY <1>3, <2>2 DEF FdtInv, PrivateOK
  <2>3. CASE req[q].entry # {} BY <1>2, <1>3, <2>3 DEF FdtInv, EntriesOK
  <2>4. QED BY <2>1, <2>2, <2>3
<1>4. QED BY <1>2, <1>3

(* A request that opens p on x for itself keeps the invariant.             *)
LEMMA TakesPrivate ==
  ASSUME FdtInv, NEW r \in Reqs, ~req[r].live,
         NEW p \in FDs, NEW x \in Content, NEW s \in {{}, {x}},
         file[p] = {}, file' = [file EXCEPT ![p] = {x}],
         Set(r, p, {}, s), UNCHANGED <<chain, av>>
  PROVE  FdtInv'
<1> USE DEF FdtInv
<1>1. /\ req'[r] = [live |-> TRUE, fd |-> p, entry |-> {}, sends |-> s]
      /\ \A q \in Reqs : q # r => req'[q] = req[q]
  BY DEF TypeOK, Set
<1>2. file'[p] = {x} /\ \A d \in FDs : d # p => file'[d] = file[d]
  BY DEF TypeOK
<1>3. /\ \A q \in Reqs : req[q].fd # p
      /\ \A t \in Tables, i \in Slots : chain[t][i].fd # p
  BY Fresh
<1>4. \A t, h : Holders(t, h)' = Holders(t, h)
  <2>1. TypeOK OBVIOUS
  <2>2. \A t, h : {} # {<<t, h>>} => Holders(t, h)' = Holders(t, h)
    BY <2>1, Joins, ZenonT(60)
  <2>3. QED BY <2>2
<1>5. \A t : Unused(t)' = Unused(t) BY DEF Unused
<1>6. p # -1 BY FdtAssumption
<1>7. TypeOK'
  <2>1. req' \in [Reqs -> ReqType] BY <1>1 DEF TypeOK, ReqType, Entries, Set
  <2>2. file' \in [FDs -> {{}} \cup {{y} : y \in Content}] BY DEF TypeOK
  <2>3. QED BY <2>1, <2>2 DEF TypeOK
<1>8. RightContent'
  <2> SUFFICES ASSUME NEW q \in Reqs, NEW y \in Content,
                      req'[q].live, req'[q].sends = {y}
               PROVE  req'[q].fd \in FDs /\ file'[req'[q].fd] = {y}
    BY DEF RightContent
  <2>1. CASE q = r BY <1>1, <1>2, <2>1
  <2>2. CASE q # r BY <1>1, <1>2, <1>3, <2>2 DEF RightContent
  <2>3. QED BY <2>1, <2>2
<1>9. NothingLeaks'
  <2> SUFFICES ASSUME NEW d \in FDs, file'[d] # {}
               PROVE  \/ \E q \in Reqs : req'[q].live /\ req'[q].fd = d
                      \/ \E t \in Tables, i \in Slots : chain'[t][i].fd = d
    BY DEF NothingLeaks
  <2>1. CASE d = p BY <1>1, <2>1
  <2>2. CASE d # p BY <1>1, <1>2, <2>2 DEF NothingLeaks
  <2>3. QED BY <2>1, <2>2
<1>10. Accounted' BY <1>4, <1>5 DEF Accounted
<1>11. SlotsOK'
  <2> SUFFICES ASSUME NEW t \in Tables, NEW i \in Slots, chain[t][i].fd # -1
               PROVE  /\ \E f \in Files : /\ t = Table(f)
                                          /\ chain[t][i].hash = Hash[f]
                                          /\ file'[chain[t][i].fd] = {f}
                      /\ Holders(t, chain[t][i].hash)' # {}
                      /\ \A j \in Slots :
                           chain[t][j].hash = chain[t][i].hash => j = i
    BY DEF SlotsOK
  <2>1. chain[t][i].fd \in FDs /\ chain[t][i].fd # p
    BY <1>3 DEF TypeOK, SlotType
  <2>2. QED BY <1>2, <1>4, <2>1 DEF SlotsOK
<1>12. PrivateOK'
  <2> SUFFICES ASSUME NEW q \in Reqs, req'[q].live, req'[q].entry = {},
                      req'[q].fd \in FDs
               PROVE  /\ file'[req'[q].fd] # {}
                      /\ \A o \in Reqs \ {q} : req'[o].fd # req'[q].fd
                      /\ \A t \in Tables, i \in Slots :
                           chain'[t][i].fd # req'[q].fd
    BY DEF PrivateOK
  <2>1. CASE q = r BY <1>1, <1>2, <1>3, <2>1
  <2>2. CASE q # r BY <1>1, <1>2, <1>3, <2>2 DEF PrivateOK
  <2>3. QED BY <2>1, <2>2
<1>13. EntriesOK'
  <2> SUFFICES ASSUME NEW q \in Reqs
               PROVE  /\ ~req'[q].live => req'[q] = NoReq
                      /\ req'[q].entry # {} =>
                           /\ FDT /\ req'[q].fd \in FDs
                           /\ \E t \in Tables, i \in Slots :
                                /\ req'[q].entry = {<<t, chain'[t][i].hash>>}
                                /\ chain'[t][i].fd = req'[q].fd
    BY DEF EntriesOK
  <2>1. CASE q = r BY <1>1, <2>1
  <2>2. CASE q # r BY <1>1, <2>2 DEF EntriesOK
  <2>3. QED BY <2>1, <2>2
<1>14. QED BY <1>7, <1>8, <1>9, <1>10, <1>11, <1>12, <1>13

(* A request that has no descriptor keeps the invariant.                   *)
LEMMA TakesNothing ==
  ASSUME FdtInv, NEW r \in Reqs, ~req[r].live, NEW d \in {-1, 0},
         file' = file, Set(r, d, {}, {}), UNCHANGED <<chain, av>>
  PROVE  FdtInv'
<1> USE DEF FdtInv
<1>1. /\ req'[r] = [live |-> TRUE, fd |-> d, entry |-> {}, sends |-> {}]
      /\ \A q \in Reqs : q # r => req'[q] = req[q]
  BY DEF TypeOK, Set
<1>2. d \notin FDs BY FdtAssumption
<1>3. ~req[r].live /\ req[r] = NoReq BY DEF EntriesOK
<1>4. \A t, h : Holders(t, h)' = Holders(t, h)
  <2> SUFFICES ASSUME NEW t, NEW h
               PROVE  Holders(t, h)' = Holders(t, h)
    OBVIOUS
  <2>1. req'[r].entry = {} BY <1>1
  <2>2. {} # {<<t, h>>} OBVIOUS
  <2>3. Holders(t, h)' =
          {q \in Reqs : req'[q].live /\ req'[q].entry = {<<t, h>>}}
    BY DEF Holders
  <2>4. QED BY <1>1, <1>3, <2>1, <2>2, <2>3 DEF Holders
<1>5. \A t : Unused(t)' = Unused(t) BY DEF Unused
<1>6. TypeOK'
  <2>1. req' \in [Reqs -> ReqType] BY <1>1 DEF TypeOK, ReqType, Entries, Set
  <2>2. QED BY <2>1 DEF TypeOK
<1>7. RightContent' BY <1>1 DEF RightContent
<1>8. NothingLeaks'
  <2> SUFFICES ASSUME NEW g \in FDs, file[g] # {}
               PROVE  \/ \E q \in Reqs : req'[q].live /\ req'[q].fd = g
                      \/ \E t \in Tables, i \in Slots : chain[t][i].fd = g
    BY DEF NothingLeaks
  <2>1. QED BY <1>1 DEF NothingLeaks
<1>9. Accounted' BY <1>4, <1>5 DEF Accounted
<1>10. SlotsOK' BY <1>4 DEF SlotsOK
<1>11. PrivateOK'
  <2> SUFFICES ASSUME NEW q \in Reqs, req'[q].live, req'[q].entry = {},
                      req'[q].fd \in FDs
               PROVE  /\ file[req'[q].fd] # {}
                      /\ \A o \in Reqs \ {q} : req'[o].fd # req'[q].fd
                      /\ \A t \in Tables, i \in Slots :
                           chain[t][i].fd # req'[q].fd
    BY DEF PrivateOK
  <2>1. q # r BY <1>1, <1>2
  <2>2. QED BY <1>1, <1>2, <2>1 DEF PrivateOK
<1>12. EntriesOK' BY <1>1 DEF EntriesOK
<1>13. QED BY <1>6, <1>7, <1>8, <1>9, <1>10, <1>11, <1>12

(* A customised error page in place of a file that is not open keeps the   *)
(* invariant.                                                              *)
LEMMA RefuseKeeps ==
  ASSUME FdtInv, NEW r \in Reqs, ~req[r].live, NEW d \in {-1, 0},
         Refuse(r, d, {}), UNCHANGED <<chain, av>>
  PROVE  FdtInv'
<1>1. CASE file' = file /\ Set(r, d, {}, {}) BY <1>1, TakesNothing
<1>2. CASE SendPage(r, {}, file)
  <2>1. PICK p \in FDs : /\ Free(p, file) /\ file' = Open(p, Page, file)
                         /\ Set(r, p, {}, {Page})
    BY <1>2 DEF SendPage
  <2>2. Page \in Content BY DEF Content
  <2>3. file[p] = {} /\ file' = [file EXCEPT ![p] = {Page}]
    BY <2>1 DEF Free, Open
  <2>4. QED BY <2>1, <2>2, <2>3, TakesPrivate
<1>3. QED BY <1>1, <1>2 DEF Refuse

(* mk_vhost_open that fails, or is not reached, keeps the invariant.       *)
LEMMA OpenFailsKeeps ==
  ASSUME FdtInv, NEW r \in Reqs, NEW f \in Files, OpenFails(r, f)
  PROVE  FdtInv'
BY RefuseKeeps DEF OpenFails

(* mk_vhost_open without a slot keeps the invariant.                       *)
LEMMA OpenPrivateKeeps ==
  ASSUME FdtInv, "after" \notin ErrorPages,
         NEW r \in Reqs, NEW f \in Files, OpenPrivate(r, f)
  PROVE  FdtInv'
<1>1. PICK d \in FDs : Free(d, file) /\ Answer(r, f, d, {}, Open(d, f, file))
  BY DEF OpenPrivate
<1>2. PICK s \in {{f}, {}} : file' = Open(d, f, file) /\ Set(r, d, {}, s)
  BY <1>1 DEF Answer
<1>3. f \in Content BY DEF Content
<1>4. file[d] = {} /\ file' = [file EXCEPT ![d] = {f}]
  BY <1>1, <1>2 DEF Free, Open
<1>5. ~req[r].live /\ UNCHANGED <<chain, av>> BY DEF OpenPrivate
<1>6. QED BY <1>2, <1>3, <1>4, <1>5, TakesPrivate

(* mk_vhost_open on a registered hash keeps the invariant: the slot counts *)
(* one reader more, and its descriptor is open on the file asked for.      *)
LEMMA OpenSharedKeeps ==
  ASSUME FdtInv, HashIdentifies, "after" \notin ErrorPages,
         NEW r \in Reqs, NEW f \in Files, OpenShared(r, f)
  PROVE  FdtInv'
<1> DEFINE t == Table(f)
           h == Hash[f]
<1> USE DEF FdtInv
<1>1. t \in Tables /\ h \in Nat /\ h # 0 BY TableIn DEF HashIdentifies
<1>2. ~req[r].live /\ FDT /\ av' = av BY DEF OpenShared
<1>3. PICK i \in Slots :
        /\ First(i, Matches(t, h))
        /\ chain' = [chain EXCEPT ![t][i].readers = @ + 1]
        /\ IF chain[t][i].fd = -1 THEN Refuse(r, -1, {<<t, h>>})
           ELSE Answer(r, f, chain[t][i].fd, {<<t, h>>}, file)
  BY DEF OpenShared
<1>4. chain[t][i].hash = h BY <1>3 DEF First, Matches
<1>5. chain[t][i] \in SlotType BY <1>1 DEF TypeOK
<1>6. chain[t][i].fd # -1 /\ chain[t][i].fd \in FDs
  <2>1. chain[t][i] # Empty BY <1>1, <1>4 DEF Empty
  <2>2. QED BY <1>1, <1>5, <2>1 DEF SlotsOK, SlotType
<1> DEFINE d == chain[t][i].fd
<1>7. PICK s \in {{f}, {}} : file' = file /\ Set(r, d, {<<t, h>>}, s)
  BY <1>3, <1>6 DEF Answer
<1>8. file[d] = {f}
  <2>1. PICK g \in Files : t = Table(g) /\ h = Hash[g] /\ file[d] = {g}
    BY <1>1, <1>4, <1>6 DEF SlotsOK
  <2>2. Host[g] = Host[f] BY <2>1 DEF Table
  <2>3. g = f BY <2>1, <2>2 DEF HashIdentifies
  <2>4. QED BY <2>1, <2>3
<1>9. /\ req'[r] = [live |-> TRUE, fd |-> d, entry |-> {<<t, h>>}, sends |-> s]
      /\ \A q \in Reqs : q # r => req'[q] = req[q]
  BY <1>7 DEF TypeOK, Set
<1>10. /\ chain'[t][i] = [fd |-> d, hash |-> h, readers |-> chain[t][i].readers + 1]
      /\ \A u \in Tables, j \in Slots :
           u # t \/ j # i => chain'[u][j] = chain[u][j]
  BY <1>1, <1>3, <1>4, <1>5 DEF TypeOK, SlotType
<1>11. \A u \in Tables, j \in Slots : /\ chain'[u][j].fd = chain[u][j].fd
                                     /\ chain'[u][j].hash = chain[u][j].hash
  BY <1>4, <1>10
<1>12. \A u \in Tables : Unused(u)' = Unused(u) BY <1>11 DEF Unused
<1>13. \A u, g :
         /\ {<<t, h>>} = {<<u, g>>} =>
              /\ r \notin Holders(u, g)
              /\ Holders(u, g)' = Holders(u, g) \cup {r}
              /\ Cardinality(Holders(u, g)') = Cardinality(Holders(u, g)) + 1
         /\ {<<t, h>>} # {<<u, g>>} => Holders(u, g)' = Holders(u, g)
  <2>1. TypeOK OBVIOUS
  <2>2. QED BY <1>2, <1>7, <2>1, Joins
<1>14. TypeOK'
  <2>1. req' \in [Reqs -> ReqType]
    <3>1. {<<t, h>>} \in Entries BY DEF Entries
    <3>2. s \in {{}} \cup {{x} : x \in Content} BY DEF Content
    <3>3. QED BY <1>6, <1>7, <3>1, <3>2 DEF TypeOK, ReqType, Set
  <2>2. chain' \in [Tables -> [Slots -> SlotType]]
    <3>1. [chain[t][i] EXCEPT !.readers = @ + 1] \in SlotType
      BY <1>5 DEF SlotType
    <3>2. [chain[t] EXCEPT ![i] = [chain[t][i] EXCEPT !.readers = @ + 1]]
            \in [Slots -> SlotType]
      BY <1>1, <3>1 DEF TypeOK
    <3>3. chain' = [chain EXCEPT ![t] = [chain[t] EXCEPT ![i] =
                      [chain[t][i] EXCEPT !.readers = @ + 1]]]
      BY <1>3
    <3>4. QED BY <1>1, <3>2, <3>3 DEF TypeOK
  <2>3. QED BY <1>7, <1>2, <2>1, <2>2 DEF TypeOK
<1>15. RightContent'
  <2> SUFFICES ASSUME NEW q \in Reqs, NEW y \in Content,
                      req'[q].live, req'[q].sends = {y}
               PROVE  req'[q].fd \in FDs /\ file'[req'[q].fd] = {y}
    BY DEF RightContent
  <2>1. CASE q = r BY <1>6, <1>7, <1>8, <1>9, <2>1
  <2>2. CASE q # r BY <1>7, <1>9, <2>2 DEF RightContent
  <2>3. QED BY <2>1, <2>2
<1>16. NothingLeaks'
  <2> SUFFICES ASSUME NEW g \in FDs, file[g] # {}
               PROVE  \/ \E q \in Reqs : req'[q].live /\ req'[q].fd = g
                      \/ \E u \in Tables, j \in Slots : chain'[u][j].fd = g
    BY <1>7 DEF NothingLeaks
  <2>1. QED BY <1>9, <1>11, <1>2 DEF NothingLeaks
<1>17. Accounted'
  <2> SUFFICES ASSUME NEW u \in Tables
               PROVE  /\ av[u] = Cardinality(Unused(u))
                      /\ \A j \in Slots \ Unused(u) :
                           chain'[u][j].readers =
                             Cardinality(Holders(u, chain[u][j].hash)')
    BY <1>2, <1>11, <1>12 DEF Accounted
  <2>1. ASSUME NEW j \in Slots \ Unused(u), u = t, j = i
        PROVE  chain'[u][j].readers = Cardinality(Holders(u, chain[u][j].hash)')
    BY <1>4, <1>10, <1>13, <2>1 DEF Accounted
  <2>2. ASSUME NEW j \in Slots \ Unused(u), u # t \/ j # i
        PROVE  chain'[u][j].readers = Cardinality(Holders(u, chain[u][j].hash)')
    <3>1. {<<t, h>>} # {<<u, chain[u][j].hash>>}
      <4>1. SUFFICES ASSUME {<<t, h>>} = {<<u, chain[u][j].hash>>} PROVE FALSE
        OBVIOUS
      <4>2. <<u, chain[u][j].hash>> \in {<<t, h>>} BY <4>1
      <4>3. u = t /\ chain[u][j].hash = h BY <4>2
      <4>4. j = i BY <1>1, <1>4, <1>6, <4>3 DEF SlotsOK
      <4>5. QED BY <2>2, <4>3, <4>4
    <3>2. QED BY <1>10, <1>13, <2>2, <3>1 DEF Accounted
  <2>3. QED BY <2>1, <2>2 DEF Accounted
<1>18. SlotsOK'
  <2> SUFFICES ASSUME NEW u \in Tables, NEW j \in Slots, NEW g,
                      g = chain[u][j].hash, g = chain'[u][j].hash
               PROVE  IF chain'[u][j].fd = -1 THEN chain'[u][j] = Empty
                      ELSE /\ \E x \in Files : /\ u = Table(x) /\ g = Hash[x]
                                               /\ file'[chain'[u][j].fd] = {x}
                           /\ Holders(u, g)' # {}
                           /\ \A k \in Slots : chain'[u][k].hash = g => k = j
    BY <1>11 DEF SlotsOK
  <2>1. CASE chain[u][j].fd = -1
    <3>1. u # t \/ j # i BY <1>6, <2>1
    <3>2. QED BY <1>10, <2>1, <3>1 DEF SlotsOK
  <2>2. CASE chain[u][j].fd # -1
    <3>1. Holders(u, g) # {} BY <2>2 DEF SlotsOK
    <3>2. Holders(u, g)' = Holders(u, g) \/ Holders(u, g)' = Holders(u, g) \cup {r}
      BY <1>13
    <3>3. Holders(u, g)' # {} BY <3>1, <3>2
    <3>4. QED BY <1>7, <1>11, <2>2, <3>3 DEF SlotsOK
  <2>3. QED BY <2>1, <2>2
<1>19. PrivateOK'
  <2> SUFFICES ASSUME NEW q \in Reqs, req'[q].live, req'[q].entry = {},
                      req'[q].fd \in FDs
               PROVE  /\ file'[req'[q].fd] # {}
                      /\ \A o \in Reqs \ {q} : req'[o].fd # req'[q].fd
                      /\ \A u \in Tables, j \in Slots :
                           chain'[u][j].fd # req'[q].fd
    BY DEF PrivateOK
  <2>1. req'[r].entry = {<<t, h>>} BY <1>9
  <2>2. <<t, h>> \in req'[r].entry BY <2>1
  <2>3. q # r BY <2>2
  <2>4. QED BY <1>1, <1>7, <1>9, <1>11, <2>3 DEF PrivateOK
<1>20. EntriesOK'
  <2> SUFFICES ASSUME NEW q \in Reqs
               PROVE  /\ ~req'[q].live => req'[q] = NoReq
                      /\ req'[q].entry # {} =>
                           /\ FDT /\ req'[q].fd \in FDs
                           /\ \E u \in Tables, j \in Slots :
                                /\ req'[q].entry = {<<u, chain[u][j].hash>>}
                                /\ chain[u][j].fd = req'[q].fd
    BY <1>11 DEF EntriesOK
  <2>1. CASE q = r BY <1>1, <1>4, <1>6, <1>9, <1>2, <2>1
  <2>2. CASE q # r BY <1>9, <2>2 DEF EntriesOK
  <2>3. QED BY <2>1, <2>2
<1>21. QED BY <1>14, <1>15, <1>16, <1>17, <1>18, <1>19, <1>20

(* The slot of a registered hash holds a descriptor of that file, which no *)
(* other slot holds, and no request that does not hold the entry.          *)
LEMMA SlotFd ==
  ASSUME FdtInv, HashIdentifies, NEW f \in Files, NEW t \in Tables, NEW h,
         t = Table(f), h = Hash[f],
         NEW i \in Slots, chain[t][i].hash = h,
         NEW d \in FDs, chain[t][i].fd = d
  PROVE  /\ file[d] = {f}
         /\ \A u \in Tables, k \in Slots :
              chain[u][k].fd = d => u = t /\ k = i
         /\ \A q \in Reqs : req[q].fd = d => q \in Holders(t, h)
<1> USE DEF FdtInv
<1>1. d # -1 /\ d # 0 BY FdtAssumption
<1>2. ASSUME NEW u \in Tables, NEW k \in Slots, chain[u][k].fd = d
      PROVE  \E g \in Files : /\ u = Table(g) /\ chain[u][k].hash = Hash[g]
                              /\ file[d] = {g}
  BY <1>1, <1>2, SMTT(30) DEF SlotsOK
<1>3. file[d] = {f}
  <2>1. PICK g \in Files : t = Table(g) /\ h = Hash[g] /\ file[d] = {g}
    BY <1>2
  <2>2. Host[g] = Host[f] BY <2>1 DEF Table
  <2>3. g = f BY <2>1, <2>2 DEF HashIdentifies
  <2>4. QED BY <2>1, <2>3
<1>4. ASSUME NEW u \in Tables, NEW k \in Slots, chain[u][k].fd = d
      PROVE  u = t /\ k = i
  <2>1. PICK g \in Files : u = Table(g) /\ chain[u][k].hash = Hash[g]
                           /\ file[d] = {g}
    BY <1>2, <1>4
  <2>2. g = f BY <1>3, <2>1
  <2>3. u = t /\ chain[u][k].hash = h BY <2>1, <2>2
  <2>4. QED BY <1>1, <2>3 DEF SlotsOK
<1>5. ASSUME NEW q \in Reqs, req[q].fd = d
      PROVE  q \in Holders(t, h)
  <2>1. req[q].live BY <1>1, <1>5 DEF EntriesOK, NoReq
  <2>2. req[q].entry # {} BY <1>5, <2>1 DEF PrivateOK
  <2>3. PICK u \in Tables, k \in Slots :
          /\ req[q].entry = {<<u, chain[u][k].hash>>}
          /\ chain[u][k].fd = d
    BY <1>5, <2>2 DEF EntriesOK
  <2>4. u = t /\ k = i BY <1>4, <2>3
  <2>5. QED BY <2>1, <2>3, <2>4 DEF Holders
<1>6. QED BY <1>3, <1>4, <1>5

(* A request that holds the entry of a file finds that file's slot, the    *)
(* only match, and its own descriptor in it.                               *)
LEMMA EntrySlot ==
  ASSUME FdtInv, NEW t \in Tables, NEW h,
         NEW r \in Reqs, req[r].entry = {<<t, h>>}
  PROVE  /\ req[r].fd \in FDs
         /\ \E i \in Slots : /\ chain[t][i].hash = h
                             /\ chain[t][i].fd = req[r].fd
                             /\ \A j \in Slots : chain[t][j].hash = h => j = i
<1> USE DEF FdtInv
<1>1. <<t, h>> \in req[r].entry OBVIOUS
<1>2. req[r].entry # {} BY <1>1
<1>3. PICK u \in Tables, i \in Slots :
        /\ req[r].entry = {<<u, chain[u][i].hash>>}
        /\ chain[u][i].fd = req[r].fd
  BY <1>2 DEF EntriesOK
<1>4. req[r].fd \in FDs BY <1>2 DEF EntriesOK
<1>5. u = t /\ chain[u][i].hash = h
  <2>1. <<t, h>> \in {<<u, chain[u][i].hash>>} BY <1>1, <1>3
  <2>2. QED BY <2>1
<1>6. chain[t][i].fd # -1 BY <1>3, <1>4, <1>5, FdtAssumption
<1>7. \A j \in Slots : chain[t][j].hash = h => j = i
  BY <1>5, <1>6 DEF SlotsOK
<1>8. QED BY <1>3, <1>4, <1>5, <1>7

(* mk_vhost_close of a private descriptor keeps the invariant.             *)
LEMMA ClosePrivateKeeps ==
  ASSUME FdtInv, NEW r \in Reqs, ClosePrivate(r)
  PROVE  FdtInv'
<1> USE DEF FdtInv
<1>1. /\ req[r].live /\ req' = [req EXCEPT ![r] = NoReq]
      /\ chain' = chain /\ av' = av /\ CloseFd(req[r].fd)
  BY DEF ClosePrivate
<1>2. req[r].entry = {} BY DEF ClosePrivate, EntriesOK
<1>3. req'[r] = NoReq /\ \A q \in Reqs : q # r => req'[q] = req[q]
  BY <1>1 DEF TypeOK
<1>4. \A d \in FDs : file'[d] = IF d = req[r].fd THEN {} ELSE file[d]
  BY <1>1 DEF CloseFd, TypeOK
<1>5. \A t, h : Holders(t, h)' = Holders(t, h)
  <2>1. TypeOK OBVIOUS
  <2>2. \A t, h : req[r].entry # {<<t, h>>} => Holders(t, h)' = Holders(t, h)
    BY <1>1, <2>1, Leaves
  <2>3. QED BY <1>2, <2>2
<1>6. \A t : Unused(t)' = Unused(t) BY <1>1 DEF Unused
<1>7. /\ \A q \in Reqs : q # r /\ req[q].fd \in FDs => req[q].fd # req[r].fd
      /\ \A t \in Tables, i \in Slots :
           chain[t][i].fd \in FDs => chain[t][i].fd # req[r].fd
  BY <1>1, <1>2 DEF PrivateOK
<1>8. TypeOK'
  <2>1. NoReq \in ReqType BY DEF NoReq, ReqType, Entries
  <2>2. req' \in [Reqs -> ReqType] BY <1>1, <2>1 DEF TypeOK
  <2>3. file' \in [FDs -> {{}} \cup {{y} : y \in Content}]
    BY <1>1 DEF CloseFd, TypeOK
  <2>4. QED BY <1>1, <2>2, <2>3 DEF TypeOK
<1>9. RightContent'
  <2> SUFFICES ASSUME NEW q \in Reqs, NEW y \in Content,
                      req'[q].live, req'[q].sends = {y}
               PROVE  req'[q].fd \in FDs /\ file'[req'[q].fd] = {y}
    BY DEF RightContent
  <2>1. q # r BY <1>3 DEF NoReq
  <2>2. req[q].fd \in FDs /\ file[req[q].fd] = {y}
    BY <1>3, <2>1 DEF RightContent
  <2>3. QED BY <1>3, <1>4, <1>7, <2>1, <2>2
<1>10. NothingLeaks'
  <2> SUFFICES ASSUME NEW d \in FDs, file'[d] # {}
               PROVE  \/ \E q \in Reqs : req'[q].live /\ req'[q].fd = d
                      \/ \E t \in Tables, i \in Slots : chain[t][i].fd = d
    BY <1>1 DEF NothingLeaks
  <2>1. d # req[r].fd /\ file[d] # {} BY <1>4
  <2>2. QED BY <1>3, <2>1 DEF NothingLeaks
<1>11. Accounted' BY <1>1, <1>5, <1>6 DEF Accounted
<1>12. SlotsOK'
  <2> SUFFICES ASSUME NEW t \in Tables, NEW i \in Slots, chain[t][i].fd # -1
               PROVE  /\ \E f \in Files : /\ t = Table(f)
                                          /\ chain[t][i].hash = Hash[f]
                                          /\ file'[chain[t][i].fd] = {f}
                      /\ Holders(t, chain[t][i].hash) # {}
                      /\ \A j \in Slots :
                           chain[t][j].hash = chain[t][i].hash => j = i
    BY <1>1, <1>5 DEF SlotsOK
  <2>1. chain[t][i].fd \in FDs BY DEF TypeOK, SlotType
  <2>2. file'[chain[t][i].fd] = file[chain[t][i].fd] BY <1>4, <1>7, <2>1
  <2>3. QED BY <2>2 DEF SlotsOK
<1>13. PrivateOK'
  <2> SUFFICES ASSUME NEW q \in Reqs, req'[q].live, req'[q].entry = {},
                      req'[q].fd \in FDs
               PROVE  /\ file'[req'[q].fd] # {}
                      /\ \A o \in Reqs \ {q} : req'[o].fd # req'[q].fd
                      /\ \A t \in Tables, i \in Slots :
                           chain[t][i].fd # req'[q].fd
    BY <1>1 DEF PrivateOK
  <2>1. q # r BY <1>3 DEF NoReq
  <2>2. 0 \notin FDs BY FdtAssumption
  <2>3. \A o \in Reqs : o # r \/ req'[o].fd = 0 BY <1>3 DEF NoReq
  <2>4. QED BY <1>3, <1>4, <1>7, <2>1, <2>2, <2>3 DEF PrivateOK
<1>14. EntriesOK'
  <2> SUFFICES ASSUME NEW q \in Reqs
               PROVE  /\ ~req'[q].live => req'[q] = NoReq
                      /\ req'[q].entry # {} =>
                           /\ FDT /\ req'[q].fd \in FDs
                           /\ \E t \in Tables, i \in Slots :
                                /\ req'[q].entry = {<<t, chain[t][i].hash>>}
                                /\ chain[t][i].fd = req'[q].fd
    BY <1>1 DEF EntriesOK
  <2>1. CASE q = r BY <1>3, <2>1 DEF NoReq
  <2>2. CASE q # r BY <1>3, <2>2 DEF EntriesOK
  <2>3. QED BY <2>1, <2>2
<1>15. QED BY <1>8, <1>9, <1>10, <1>11, <1>12, <1>13, <1>14

(* mk_vhost_open that registers a descriptor keeps the invariant: the slot *)
(* was empty, the number free, and nobody held this entry.                 *)
LEMMA OpenNewKeeps ==
  ASSUME FdtInv, HashIdentifies, "after" \notin ErrorPages,
         NEW r \in Reqs, NEW f \in Files, OpenNew(r, f),
         NEW t \in Tables, NEW h \in Nat, t = Table(f), h = Hash[f]
  PROVE  FdtInv'
<1> USE DEF FdtInv
<1>1. /\ ~req[r].live /\ FDT /\ av[t] > 0 /\ av' = [av EXCEPT ![t] = @ - 1]
      /\ \A j \in Slots : chain[t][j].hash # h
  BY DEF OpenNew, Taken, Matches
<1>2. PICK i \in Slots, d \in FDs :
        /\ First(i, Unused(t)) /\ Free(d, file)
        /\ chain' = [chain EXCEPT ![t][i] =
                       [fd |-> d, hash |-> h, readers |-> @.readers + 1]]
        /\ Answer(r, f, d, {<<t, h>>}, Open(d, f, file))
  BY DEF OpenNew
<1>3. chain[t][i].fd = -1 /\ i \in Unused(t) BY <1>2 DEF First, Unused
<1>4. chain[t][i] = Empty BY <1>3 DEF SlotsOK
<1>5. PICK s \in {{f}, {}} : file' = Open(d, f, file) /\ Set(r, d, {<<t, h>>}, s)
  BY <1>2 DEF Answer
<1>6. /\ file[d] = {} /\ file' = [file EXCEPT ![d] = {f}]
      /\ file'[d] = {f} /\ \A g \in FDs : g # d => file'[g] = file[g]
  BY <1>2, <1>5 DEF Free, Open, TypeOK
<1>7. /\ \A q \in Reqs : req[q].fd # d
      /\ \A u \in Tables, j \in Slots : chain[u][j].fd # d
  BY <1>6, Fresh
<1>8. /\ req'[r] = [live |-> TRUE, fd |-> d, entry |-> {<<t, h>>}, sends |-> s]
      /\ \A q \in Reqs : q # r => req'[q] = req[q]
  BY <1>5 DEF TypeOK, Set
<1>9. /\ chain'[t][i] = [fd |-> d, hash |-> h, readers |-> 1]
      /\ \A u \in Tables, j \in Slots :
           u # t \/ j # i => chain'[u][j] = chain[u][j]
  BY <1>2, <1>4 DEF TypeOK, Empty
<1>10. d # -1 /\ f \in Content BY FdtAssumption DEF Content
<1>11. \A u, g :
         /\ {<<t, h>>} = {<<u, g>>} =>
              /\ Holders(u, g)' = Holders(u, g) \cup {r}
              /\ Cardinality(Holders(u, g)') = Cardinality(Holders(u, g)) + 1
         /\ {<<t, h>>} # {<<u, g>>} => Holders(u, g)' = Holders(u, g)
  <2>1. TypeOK OBVIOUS
  <2>2. QED BY <1>1, <1>5, <2>1, Joins
<1>12. Holders(t, h) = {}
  <2> SUFFICES ASSUME NEW q \in Holders(t, h) PROVE FALSE
    OBVIOUS
  <2>1. q \in Reqs /\ req[q].entry = {<<t, h>>} BY DEF Holders
  <2>2. \E j \in Slots : chain[t][j].hash = h BY <2>1, EntrySlot
  <2>3. QED BY <1>1, <2>2
<1>13. /\ Holders(t, h)' = {r} /\ Cardinality(Holders(t, h)') = 1
       /\ \A u, g : u # t \/ g # h => Holders(u, g)' = Holders(u, g)
  <2>1. Holders(t, h)' = {r} /\ Cardinality(Holders(t, h)') = 0 + 1
    BY <1>11, <1>12, FS_EmptySet
  <2>2. ASSUME NEW u, NEW g, u # t \/ g # h
        PROVE  Holders(u, g)' = Holders(u, g)
    <3>1. <<u, g>> \notin {<<t, h>>} BY <2>2
    <3>2. {<<t, h>>} # {<<u, g>>} BY <3>1
    <3>3. QED BY <1>11, <3>2
  <2>3. QED BY <2>1, <2>2
<1>14. /\ Unused(t)' = Unused(t) \ {i}
       /\ \A u \in Tables : u # t => Unused(u)' = Unused(u)
  <2>1. \A u : Unused(u)' = {j \in Slots : chain'[u][j].fd = -1}
    BY DEF Unused
  <2>2. QED BY <1>9, <1>10, <2>1 DEF Unused
<1>15. TypeOK'
  <2>1. req' \in [Reqs -> ReqType]
    <3>1. {<<t, h>>} \in Entries BY DEF Entries
    <3>2. s \in {{}} \cup {{x} : x \in Content} BY <1>10
    <3>3. QED BY <1>5, <3>1, <3>2 DEF TypeOK, ReqType, Set
  <2>2. chain' \in [Tables -> [Slots -> SlotType]]
    <3>1. [fd |-> d, hash |-> h, readers |-> chain[t][i].readers + 1] \in SlotType
      BY <1>4 DEF SlotType, Empty
    <3>2. [chain[t] EXCEPT ![i] =
             [fd |-> d, hash |-> h, readers |-> chain[t][i].readers + 1]]
            \in [Slots -> SlotType]
      BY <3>1 DEF TypeOK
    <3>3. chain' = [chain EXCEPT ![t] = [chain[t] EXCEPT ![i] =
             [fd |-> d, hash |-> h, readers |-> chain[t][i].readers + 1]]]
      BY <1>2
    <3>4. QED BY <3>2, <3>3 DEF TypeOK
  <2>3. file' \in [FDs -> {{}} \cup {{x} : x \in Content}]
    BY <1>6, <1>10 DEF TypeOK
  <2>4. av' \in [Tables -> 0..CHAINS]
    <3>1. av[t] - 1 \in 0..CHAINS BY <1>1, FdtAssumption DEF TypeOK
    <3>2. QED BY <1>1, <3>1 DEF TypeOK
  <2>5. QED BY <2>1, <2>2, <2>3, <2>4 DEF TypeOK
<1>16. RightContent'
  <2> SUFFICES ASSUME NEW q \in Reqs, NEW y \in Content,
                      req'[q].live, req'[q].sends = {y}
               PROVE  req'[q].fd \in FDs /\ file'[req'[q].fd] = {y}
    BY DEF RightContent
  <2>1. CASE q = r BY <1>6, <1>8, <2>1
  <2>2. CASE q # r BY <1>6, <1>7, <1>8, <2>2 DEF RightContent
  <2>3. QED BY <2>1, <2>2
<1>17. NothingLeaks'
  <2> SUFFICES ASSUME NEW g \in FDs, file'[g] # {}
               PROVE  \/ \E q \in Reqs : req'[q].live /\ req'[q].fd = g
                      \/ \E u \in Tables, j \in Slots : chain'[u][j].fd = g
    BY DEF NothingLeaks
  <2>1. CASE g = d BY <1>8, <2>1
  <2>2. CASE g # d
    <3>1. file[g] # {} BY <1>6, <2>2
    <3>2. g # -1 BY FdtAssumption
    <3>3. CASE \E q \in Reqs : req[q].live /\ req[q].fd = g
      BY <1>1, <1>8, <3>3
    <3>4. CASE \E u \in Tables, j \in Slots : chain[u][j].fd = g
      <4>1. PICK u \in Tables, j \in Slots : chain[u][j].fd = g BY <3>4
      <4>2. u # t \/ j # i BY <1>3, <3>2, <4>1
      <4>3. QED BY <1>9, <4>1, <4>2
    <3>5. QED BY <3>1, <3>3, <3>4 DEF NothingLeaks
  <2>3. QED BY <2>1, <2>2
<1>18. Accounted'
  <2> SUFFICES ASSUME NEW u \in Tables
               PROVE  /\ av'[u] = Cardinality(Unused(u)')
                      /\ \A j \in Slots : j \notin Unused(u)' =>
                           \A g : g = chain'[u][j].hash =>
                             chain'[u][j].readers = Cardinality(Holders(u, g)')
    BY DEF Accounted
  <2>1. av'[u] = Cardinality(Unused(u)')
    <3>1. CASE u = t
      <4>1. Cardinality(Unused(t) \ {i}) = Cardinality(Unused(t)) - 1
        BY <1>3, Finite, FS_RemoveElement
      <4>2. av'[t] = av[t] - 1 BY <1>1 DEF TypeOK
      <4>3. QED BY <1>14, <3>1, <4>1, <4>2 DEF Accounted
    <3>2. CASE u # t
      <4>1. av'[u] = av[u] BY <1>1, <3>2 DEF TypeOK
      <4>2. QED BY <1>14, <3>2, <4>1 DEF Accounted
    <3>3. QED BY <3>1, <3>2
  <2>2. ASSUME NEW j \in Slots, j \notin Unused(u)', NEW g, g = chain'[u][j].hash
        PROVE  chain'[u][j].readers = Cardinality(Holders(u, g)')
    <3>1. CASE u = t /\ j = i
      <4>1. g = h /\ chain'[u][j].readers = 1 BY <1>9, <2>2, <3>1
      <4>2. QED BY <1>13, <3>1, <4>1
    <3>2. CASE u # t \/ j # i
      <4>1. chain'[u][j] = chain[u][j] BY <1>9, <3>2
      <4>2. u # t \/ g # h BY <1>1, <2>2, <4>1
      <4>3. j \notin Unused(u) BY <2>2, <4>1 DEF Unused
      <4>4. QED BY <1>13, <2>2, <4>1, <4>2, <4>3 DEF Accounted
    <3>3. QED BY <3>1, <3>2
  <2>3. QED BY <2>1, <2>2
<1>19. SlotsOK'
  <2> SUFFICES ASSUME NEW u \in Tables, NEW j \in Slots
               PROVE  IF chain'[u][j].fd = -1 THEN chain'[u][j] = Empty
                      ELSE /\ \E x \in Files : /\ u = Table(x)
                                               /\ chain'[u][j].hash = Hash[x]
                                               /\ file'[chain'[u][j].fd] = {x}
                           /\ Holders(u, chain[u][j].hash)' # {}
                           /\ \A k \in Slots :
                                chain'[u][k].hash = chain'[u][j].hash => k = j
    BY SMTT(30) DEF SlotsOK
  <2> PICK g : g = chain'[u][j].hash OBVIOUS
  <2>1. CASE u = t /\ j = i
    <3>1. g = h /\ chain'[u][j].fd = d BY <1>9, <2>1
    <3>2. Holders(u, g)' # {} BY <1>13, <2>1, <3>1
    <3>3. \A k \in Slots : chain'[u][k].hash = g => k = j
      BY <1>1, <1>9, <2>1, <3>1
    <3>4. QED BY <1>6, <1>10, <2>1, <3>1, <3>2, <3>3
  <2>2. CASE u # t \/ j # i
    <3>1. chain'[u][j] = chain[u][j] BY <1>9, <2>2
    <3>2. u # t \/ g # h BY <1>1, <3>1
    <3>3. Holders(u, g)' = Holders(u, g) BY <1>13, <3>2
    <3>4. \A k \in Slots : chain'[u][k].hash = g => chain[u][k].hash = g
      BY <1>9, <3>2
    <3>5. CASE chain[u][j].fd = -1 BY <3>1, <3>5 DEF SlotsOK
    <3>6. CASE chain[u][j].fd # -1
      <4>1. chain[u][j].fd \in FDs BY <3>6 DEF TypeOK, SlotType
      <4>2. file'[chain[u][j].fd] = file[chain[u][j].fd] BY <1>6, <1>7, <4>1
      <4>3. QED BY <3>1, <3>3, <3>4, <3>6, <4>2 DEF SlotsOK
    <3>7. QED BY <3>5, <3>6
  <2>3. QED BY <2>1, <2>2
<1>20. PrivateOK'
  <2> SUFFICES ASSUME NEW q \in Reqs, req'[q].live, req'[q].entry = {},
                      req'[q].fd \in FDs
               PROVE  /\ file'[req'[q].fd] # {}
                      /\ \A o \in Reqs \ {q} : req'[o].fd # req'[q].fd
                      /\ \A u \in Tables, j \in Slots :
                           chain'[u][j].fd # req'[q].fd
    BY DEF PrivateOK
  <2>1. req'[r].entry = {<<t, h>>} BY <1>8
  <2>2. <<t, h>> \in req'[r].entry BY <2>1
  <2>3. q # r BY <2>2
  <2>4. req[q].fd # d BY <1>7
  <2>5. \A o \in Reqs \ {q} : req'[o].fd # req'[q].fd
    BY <1>8, <2>3, <2>4 DEF PrivateOK
  <2>6. \A u \in Tables, j \in Slots : chain'[u][j].fd # req'[q].fd
    BY <1>8, <1>9, <2>3, <2>4 DEF PrivateOK
  <2>7. QED BY <1>6, <1>8, <2>3, <2>4, <2>5, <2>6 DEF PrivateOK
<1>21. EntriesOK'
  <2> SUFFICES ASSUME NEW q \in Reqs
               PROVE  /\ ~req'[q].live => req'[q] = NoReq
                      /\ req'[q].entry # {} =>
                           /\ FDT /\ req'[q].fd \in FDs
                           /\ \E u \in Tables, j \in Slots :
                                /\ req'[q].entry = {<<u, chain'[u][j].hash>>}
                                /\ chain'[u][j].fd = req'[q].fd
    BY DEF EntriesOK
  <2>1. CASE q = r BY <1>1, <1>8, <1>9, <2>1
  <2>2. CASE q # r
    <3>1. req'[q] = req[q] BY <1>8, <2>2
    <3>2. CASE req[q].entry = {} BY <3>1, <3>2 DEF EntriesOK
    <3>3. CASE req[q].entry # {}
      <4>1. PICK u \in Tables, j \in Slots :
              /\ req[q].entry = {<<u, chain[u][j].hash>>}
              /\ chain[u][j].fd = req[q].fd
        BY <3>3 DEF EntriesOK
      <4>2. req[q].fd # -1 BY <3>3, FdtAssumption DEF EntriesOK
      <4>3. u # t \/ j # i BY <1>3, <4>1, <4>2
      <4>4. chain'[u][j] = chain[u][j] BY <1>9, <4>3
      <4>5. /\ req'[q].entry = {<<u, chain'[u][j].hash>>}
            /\ chain'[u][j].fd = req'[q].fd
        BY <3>1, <4>1, <4>4
      <4>6. FDT /\ req'[q].fd \in FDs /\ (~req'[q].live => req'[q] = NoReq)
        BY <3>1, <3>3 DEF EntriesOK
      <4>7. QED BY <4>5, <4>6
    <3>4. QED BY <3>2, <3>3
  <2>3. QED BY <2>1, <2>2
<1>22. QED BY <1>15, <1>16, <1>17, <1>18, <1>19, <1>20, <1>21

(* What every mk_vhost_close of an entry does to the requests: only the    *)
(* entry's own holders change.                                             *)
LEMMA LeavesEntry ==
  ASSUME FdtInv, NEW r \in Reqs, NEW t, NEW h, CloseEntry(r, t, h)
  PROVE  /\ req'[r] = NoReq /\ \A q \in Reqs : q # r => req'[q] = req[q]
         /\ req' \in [Reqs -> ReqType]
         /\ r \in Holders(t, h) /\ Holders(t, h)' = Holders(t, h) \ {r}
         /\ Cardinality(Holders(t, h)') = Cardinality(Holders(t, h)) - 1
         /\ \A u, g : u # t \/ g # h => Holders(u, g)' = Holders(u, g)
<1>1. req[r].live /\ req' = [req EXCEPT ![r] = NoReq] BY DEF CloseEntry
<1>2. req[r].entry = {<<t, h>>} BY DEF CloseEntry
<1>3. TypeOK BY DEF FdtInv
<1>4. req'[r] = NoReq /\ \A q \in Reqs : q # r => req'[q] = req[q]
  BY <1>1, <1>3 DEF TypeOK
<1>5. req' \in [Reqs -> ReqType]
  <2>1. NoReq \in ReqType BY DEF NoReq, ReqType, Entries
  <2>2. QED BY <1>1, <1>3, <2>1 DEF TypeOK
<1>6. /\ r \in Holders(t, h) /\ Holders(t, h)' = Holders(t, h) \ {r}
      /\ Cardinality(Holders(t, h)') = Cardinality(Holders(t, h)) - 1
  BY <1>1, <1>2, <1>3, Leaves
<1>7. ASSUME NEW u, NEW g, u # t \/ g # h
      PROVE  Holders(u, g)' = Holders(u, g)
  <2>1. <<u, g>> \notin {<<t, h>>} BY <1>7
  <2>2. req[r].entry # {<<u, g>>} BY <1>2, <2>1
  <2>3. QED BY <1>1, <1>3, <2>2, Leaves
<1>8. QED BY <1>4, <1>5, <1>6, <1>7

(* The two outcomes of mk_vhost_close for the slot of an entry.            *)
ReaderOut(t, i) ==
  /\ chain[t][i].readers - 1 # 0
  /\ chain' = [chain EXCEPT ![t][i].readers = chain[t][i].readers - 1]
  /\ UNCHANGED <<av, file>>

LastReaderOut(r, t, i) ==
  /\ chain[t][i].readers - 1 = 0
  /\ chain' = [chain EXCEPT ![t][i] = Empty]
  /\ av' = [av EXCEPT ![t] = @ + 1]
  /\ file' = [file EXCEPT ![req[r].fd] = {}]

(* Which slot mk_vhost_close works on, and what it does there.             *)
LEMMA ClosesSlot ==
  ASSUME FdtInv, NEW r \in Reqs, NEW t \in Tables, NEW h, CloseEntry(r, t, h)
  PROVE  /\ req[r].live /\ req[r].entry = {<<t, h>>} /\ req[r].fd \in FDs
         /\ req' = [req EXCEPT ![r] = NoReq]
         /\ \E i \in Slots :
              /\ chain[t][i].hash = h /\ chain[t][i].fd = req[r].fd
              /\ ReaderOut(t, i) \/ LastReaderOut(r, t, i)
<1>1. req[r].live /\ req' = [req EXCEPT ![r] = NoReq] BY DEF CloseEntry
<1>2. req[r].entry = {<<t, h>>} BY DEF CloseEntry
<1>3. /\ req[r].fd \in FDs
      /\ \E i \in Slots : /\ chain[t][i].hash = h
                          /\ chain[t][i].fd = req[r].fd
                          /\ \A j \in Slots : chain[t][j].hash = h => j = i
  BY <1>2, EntrySlot
<1>4. PICK i \in Slots : /\ chain[t][i].hash = h /\ chain[t][i].fd = req[r].fd
                         /\ \A j \in Slots : chain[t][j].hash = h => j = i
  BY <1>3
<1>5. Matches(t, h) = {i} BY <1>4 DEF Matches
<1>6. \A j \in Slots : First(j, Matches(t, h)) => j = i BY <1>5 DEF First
<1>7. ReaderOut(t, i) \/ LastReaderOut(r, t, i)
  BY <1>3, <1>5, <1>6 DEF CloseEntry, LastReader, Returned, CloseFd,
     ReaderOut, LastReaderOut
<1>8. QED BY <1>1, <1>2, <1>3, <1>4, <1>7

(* mk_vhost_close of an entry that has readers left keeps the invariant.   *)
LEMMA ReaderLeaves ==
  ASSUME FdtInv, NEW r \in Reqs, NEW t \in Tables, NEW h, CloseEntry(r, t, h),
         NEW i \in Slots, chain[t][i].hash = h, chain[t][i].fd = req[r].fd,
         ReaderOut(t, i)
  PROVE  FdtInv'
<1>1. /\ req[r].live /\ req[r].entry = {<<t, h>>} /\ req[r].fd \in FDs
      /\ req' = [req EXCEPT ![r] = NoReq]
  BY ClosesSlot
<1>2. /\ req'[r] = NoReq /\ \A q \in Reqs : q # r => req'[q] = req[q]
      /\ req' \in [Reqs -> ReqType]
      /\ r \in Holders(t, h) /\ Holders(t, h)' = Holders(t, h) \ {r}
      /\ Cardinality(Holders(t, h)') = Cardinality(Holders(t, h)) - 1
      /\ \A u, g : u # t \/ g # h => Holders(u, g)' = Holders(u, g)
  BY LeavesEntry
<1> USE DEF FdtInv
<1>3. chain[t][i] \in SlotType /\ chain[t][i].fd # -1
  BY <1>1, FdtAssumption DEF TypeOK
<1>4. chain[t][i].readers = Cardinality(Holders(t, h))
  BY <1>3 DEF Accounted, Unused
<1>5. /\ chain[t][i].readers - 1 = Cardinality(Holders(t, h)')
      /\ chain[t][i].readers - 1 \in Nat /\ Holders(t, h)' # {}
  <2>1. Cardinality(Holders(t, h) \ {r}) = Cardinality(Holders(t, h)) - 1
        /\ IsFiniteSet(Holders(t, h) \ {r})
    BY <1>2, Finite, FS_RemoveElement
  <2>2. Cardinality(Holders(t, h) \ {r}) \in Nat BY <2>1, FS_CardinalityType
  <2>3. chain[t][i].readers - 1 # 0 BY DEF ReaderOut
  <2>4. Holders(t, h) \ {r} # {} BY <1>4, <2>1, <2>3, FS_EmptySet
  <2>5. QED BY <1>2, <1>4, <2>1, <2>2, <2>4
<1>6. /\ chain'[t][i] = [fd |-> chain[t][i].fd, hash |-> h,
                         readers |-> chain[t][i].readers - 1]
      /\ \A u \in Tables, j \in Slots :
           u # t \/ j # i => chain'[u][j] = chain[u][j]
  BY <1>3 DEF TypeOK, SlotType, ReaderOut
<1>7. av' = av /\ file' = file BY DEF ReaderOut
<1>8. \A u \in Tables, j \in Slots : /\ chain'[u][j].fd = chain[u][j].fd
                                     /\ chain'[u][j].hash = chain[u][j].hash
  BY <1>6
<1>9. \A u \in Tables : Unused(u)' = Unused(u) BY <1>8, <1>7 DEF Unused
<1>10. \A u \in Tables, j \in Slots :
        u # t \/ j # i => u # t \/ chain[u][j].hash # h
  BY <1>3 DEF SlotsOK
<1>11. TypeOK'
  <2>1. [chain[t][i] EXCEPT !.readers = chain[t][i].readers - 1] \in SlotType
    BY <1>3, <1>5 DEF SlotType
  <2>2. [chain[t] EXCEPT ![i] = [chain[t][i] EXCEPT
           !.readers = chain[t][i].readers - 1]] \in [Slots -> SlotType]
    BY <2>1 DEF TypeOK
  <2>3. chain' = [chain EXCEPT ![t] = [chain[t] EXCEPT ![i] =
           [chain[t][i] EXCEPT !.readers = chain[t][i].readers - 1]]]
    BY DEF ReaderOut
  <2>4. chain' \in [Tables -> [Slots -> SlotType]] BY <2>2, <2>3 DEF TypeOK
  <2>5. QED BY <1>7, <1>2, <2>4 DEF TypeOK
<1>12. RightContent'
  <2> SUFFICES ASSUME NEW q \in Reqs, NEW y \in Content,
                      req'[q].live, req'[q].sends = {y}
               PROVE  req'[q].fd \in FDs /\ file[req'[q].fd] = {y}
    BY <1>7 DEF RightContent
  <2>1. q # r BY <1>2 DEF NoReq
  <2>2. QED BY <1>2, <2>1 DEF RightContent
<1>13. NothingLeaks'
  <2> SUFFICES ASSUME NEW d \in FDs, file[d] # {}
               PROVE  \/ \E q \in Reqs : req'[q].live /\ req'[q].fd = d
                      \/ \E u \in Tables, j \in Slots : chain[u][j].fd = d
    BY <1>8, <1>7 DEF NothingLeaks
  <2>1. CASE d = req[r].fd BY <2>1
  <2>2. CASE d # req[r].fd BY <1>2, <2>2 DEF NothingLeaks
  <2>3. QED BY <2>1, <2>2
<1>14. Accounted'
  <2> SUFFICES ASSUME NEW u \in Tables
               PROVE  /\ av[u] = Cardinality(Unused(u))
                      /\ \A j \in Slots : j \notin Unused(u) =>
                           \A g : g = chain[u][j].hash =>
                             chain'[u][j].readers = Cardinality(Holders(u, g)')
    BY <1>8, <1>9, <1>7 DEF Accounted
  <2>1. ASSUME NEW j \in Slots, j \notin Unused(u), NEW g, g = chain[u][j].hash
        PROVE  chain'[u][j].readers = Cardinality(Holders(u, g)')
    <3>1. CASE u = t /\ j = i BY <1>5, <1>6, <2>1, <3>1
    <3>2. CASE u # t \/ j # i
      BY <1>2, <1>6, <1>10, <2>1, <3>2 DEF Accounted
    <3>3. QED BY <3>1, <3>2
  <2>2. QED BY <2>1 DEF Accounted
<1>15. SlotsOK'
  <2> SUFFICES ASSUME NEW u \in Tables, NEW j \in Slots, NEW g,
                      g = chain[u][j].hash
               PROVE  IF chain[u][j].fd = -1 THEN chain'[u][j] = Empty
                      ELSE /\ \E x \in Files : /\ u = Table(x) /\ g = Hash[x]
                                               /\ file[chain[u][j].fd] = {x}
                           /\ Holders(u, g)' # {}
                           /\ \A k \in Slots : chain[u][k].hash = g => k = j
    BY <1>8, <1>7 DEF SlotsOK
  <2>1. CASE chain[u][j].fd = -1
    <3>1. u # t \/ j # i BY <1>3, <2>1
    <3>2. QED BY <1>6, <2>1, <3>1 DEF SlotsOK
  <2>2. CASE chain[u][j].fd # -1
    <3>1. Holders(u, g) # {} BY <2>2 DEF SlotsOK
    <3>2. Holders(u, g)' # {} BY <1>2, <1>5, <3>1
    <3>3. QED BY <2>2, <3>2 DEF SlotsOK
  <2>3. QED BY <2>1, <2>2
<1>16. PrivateOK'
  <2> SUFFICES ASSUME NEW q \in Reqs, req'[q].live, req'[q].entry = {},
                      req'[q].fd \in FDs
               PROVE  /\ file[req'[q].fd] # {}
                      /\ \A o \in Reqs \ {q} : req'[o].fd # req'[q].fd
                      /\ \A u \in Tables, j \in Slots :
                           chain[u][j].fd # req'[q].fd
    BY <1>8, <1>7 DEF PrivateOK
  <2>1. q # r BY <1>2 DEF NoReq
  <2>2. 0 \notin FDs BY FdtAssumption
  <2>3. \A o \in Reqs : o # r \/ req'[o].fd = 0 BY <1>2 DEF NoReq
  <2>4. QED BY <1>2, <2>1, <2>2, <2>3 DEF PrivateOK
<1>17. EntriesOK'
  <2> SUFFICES ASSUME NEW q \in Reqs
               PROVE  /\ ~req'[q].live => req'[q] = NoReq
                      /\ req'[q].entry # {} =>
                           /\ FDT /\ req'[q].fd \in FDs
                           /\ \E u \in Tables, j \in Slots :
                                /\ req'[q].entry = {<<u, chain[u][j].hash>>}
                                /\ chain[u][j].fd = req'[q].fd
    BY <1>8, <1>7 DEF EntriesOK
  <2>1. CASE q = r BY <1>2, <2>1 DEF NoReq
  <2>2. CASE q # r BY <1>2, <2>2 DEF EntriesOK
  <2>3. QED BY <2>1, <2>2
<1>18. QED BY <1>11, <1>12, <1>13, <1>14, <1>15, <1>16, <1>17

(* mk_vhost_close by the last reader keeps the invariant: its descriptor   *)
(* is in no other slot and in no other request's hands.                    *)
LEMMA LastReaderLeaves ==
  ASSUME FdtInv, HashIdentifies, NEW r \in Reqs,
         NEW f \in Files, NEW t \in Tables, NEW h, t = Table(f), h = Hash[f],
         CloseEntry(r, t, h),
         NEW i \in Slots, chain[t][i].hash = h, chain[t][i].fd = req[r].fd,
         LastReaderOut(r, t, i)
  PROVE  FdtInv'
<1>1. /\ req[r].live /\ req[r].entry = {<<t, h>>} /\ req[r].fd \in FDs
      /\ req' = [req EXCEPT ![r] = NoReq]
  BY ClosesSlot
<1>2. /\ req'[r] = NoReq /\ \A q \in Reqs : q # r => req'[q] = req[q]
      /\ req' \in [Reqs -> ReqType]
      /\ r \in Holders(t, h) /\ Holders(t, h)' = Holders(t, h) \ {r}
      /\ \A u, g : u # t \/ g # h => Holders(u, g)' = Holders(u, g)
  BY LeavesEntry
<1> USE DEF FdtInv
<1>3. chain[t][i] \in SlotType /\ chain[t][i].fd # -1
  BY <1>1, FdtAssumption DEF TypeOK
<1>4. Holders(t, h) = {r}
  <2>1. chain[t][i].readers = Cardinality(Holders(t, h))
    BY <1>3 DEF Accounted, Unused
  <2>2. Cardinality(Holders(t, h) \ {r}) = Cardinality(Holders(t, h)) - 1
        /\ IsFiniteSet(Holders(t, h) \ {r})
    BY <1>2, Finite, FS_RemoveElement
  <2>3. chain[t][i].readers - 1 = 0 BY DEF LastReaderOut
  <2>4. Holders(t, h) \ {r} = {} BY <2>1, <2>2, <2>3, FS_EmptySet
  <2>5. QED BY <1>2, <2>4
<1>5. PICK d \in FDs : d = req[r].fd BY <1>1
<1>6. /\ \A u \in Tables, k \in Slots : chain[u][k].fd = d => u = t /\ k = i
      /\ \A q \in Reqs : req[q].fd = d => q = r
  <2>1. /\ \A u \in Tables, k \in Slots : chain[u][k].fd = d => u = t /\ k = i
        /\ \A q \in Reqs : req[q].fd = d => q \in Holders(t, h)
    BY <1>5, SlotFd
  <2>2. QED BY <1>4, <2>1
<1>7. file'[d] = {} /\ \A g \in FDs : g # d => file'[g] = file[g]
  BY <1>5 DEF TypeOK, LastReaderOut
<1>8. /\ chain'[t][i] = Empty
      /\ \A u \in Tables, j \in Slots :
           u # t \/ j # i => chain'[u][j] = chain[u][j]
  BY DEF TypeOK, LastReaderOut
<1>9. \A u \in Tables, j \in Slots :
        u # t \/ j # i => u # t \/ chain[u][j].hash # h
  BY <1>3 DEF SlotsOK
<1>10. /\ Unused(t)' = Unused(t) \cup {i} /\ i \notin Unused(t)
      /\ \A u \in Tables : u # t => Unused(u)' = Unused(u)
  <2>1. \A u : Unused(u)' = {j \in Slots : chain'[u][j].fd = -1}
    BY DEF Unused
  <2>2. chain'[t][i].fd = -1 BY <1>8 DEF Empty
  <2>3. QED BY <1>3, <1>8, <2>1, <2>2 DEF Unused
<1>11. Cardinality(Unused(t)') = Cardinality(Unused(t)) + 1
  <2>1. Cardinality(Unused(t) \cup {i}) = Cardinality(Unused(t)) + 1
    BY <1>10, Finite, FS_AddElement
  <2>2. QED BY <1>10, <2>1
<1>12. TypeOK'
  <2>1. chain' \in [Tables -> [Slots -> SlotType]]
    <3>1. Empty \in SlotType BY DEF Empty, SlotType
    <3>2. [chain[t] EXCEPT ![i] = Empty] \in [Slots -> SlotType]
      BY <3>1 DEF TypeOK
    <3>3. QED BY <3>2 DEF TypeOK, LastReaderOut
  <2>2. file' \in [FDs -> {{}} \cup {{x} : x \in Content}]
    BY DEF TypeOK, LastReaderOut
  <2>3. av' \in [Tables -> 0..CHAINS]
    <3>1. IsFiniteSet(Unused(t) \cup {i})
      BY Finite, FS_AddElement
    <3>2. Cardinality(Unused(t) \cup {i}) <= CHAINS
      <4>1. CHAINS \in Nat BY FdtAssumption
      <4>2. IsFiniteSet(1..CHAINS)
            /\ Cardinality(1..CHAINS) = IF 1 > CHAINS THEN 0
                                        ELSE CHAINS - 1 + 1
        BY <4>1, FS_Interval
      <4>3. Unused(t) \cup {i} \in SUBSET Slots BY DEF Unused
      <4>4. IsFiniteSet(Slots) /\ Cardinality(Slots) = CHAINS
        BY <4>1, <4>2 DEF Slots
      <4>5. QED BY <4>3, <4>4, FS_Subset
    <3>3. av[t] + 1 = Cardinality(Unused(t) \cup {i})
      BY <1>10, <1>11 DEF Accounted
    <3>4. av[t] + 1 \in 0..CHAINS
      BY <3>2, <3>3, FdtAssumption DEF TypeOK
    <3>5. QED BY <3>4 DEF TypeOK, LastReaderOut
  <2>4. QED BY <1>2, <2>1, <2>2, <2>3 DEF TypeOK
<1>13. RightContent'
  <2> SUFFICES ASSUME NEW q \in Reqs, NEW y \in Content,
                      req'[q].live, req'[q].sends = {y}
               PROVE  req'[q].fd \in FDs /\ file'[req'[q].fd] = {y}
    BY DEF RightContent
  <2>1. q # r BY <1>2 DEF NoReq
  <2>2. QED BY <1>2, <1>6, <1>7, <2>1 DEF RightContent
<1>14. NothingLeaks'
  <2> SUFFICES ASSUME NEW g \in FDs, file'[g] # {}
               PROVE  \/ \E q \in Reqs : req'[q].live /\ req'[q].fd = g
                      \/ \E u \in Tables, j \in Slots : chain'[u][j].fd = g
    BY DEF NothingLeaks
  <2>1. g # d /\ file[g] # {} BY <1>7
  <2>2. CASE \E q \in Reqs : req[q].live /\ req[q].fd = g
    BY <1>2, <1>5, <2>1, <2>2
  <2>3. CASE \E u \in Tables, j \in Slots : chain[u][j].fd = g
    <3>1. PICK u \in Tables, j \in Slots : chain[u][j].fd = g BY <2>3
    <3>2. u # t \/ j # i BY <1>5, <2>1, <3>1
    <3>3. QED BY <1>8, <3>1, <3>2
  <2>4. QED BY <2>1, <2>2, <2>3 DEF NothingLeaks
<1>15. Accounted'
  <2> SUFFICES ASSUME NEW u \in Tables
               PROVE  /\ av'[u] = Cardinality(Unused(u)')
                      /\ \A j \in Slots : j \notin Unused(u)' =>
                           \A g : g = chain'[u][j].hash =>
                             chain'[u][j].readers = Cardinality(Holders(u, g)')
    BY DEF Accounted
  <2>1. av'[u] = Cardinality(Unused(u)')
    <3>1. CASE u = t
      <4>1. av'[t] = av[t] + 1 BY DEF TypeOK, LastReaderOut
      <4>2. QED BY <1>11, <3>1, <4>1 DEF Accounted
    <3>2. CASE u # t
      <4>1. av'[u] = av[u] BY <3>2 DEF TypeOK, LastReaderOut
      <4>2. QED BY <1>10, <3>2, <4>1 DEF Accounted
    <3>3. QED BY <3>1, <3>2
  <2>2. ASSUME NEW j \in Slots, j \notin Unused(u)', NEW g, g = chain'[u][j].hash
        PROVE  chain'[u][j].readers = Cardinality(Holders(u, g)')
    <3>1. u # t \/ j # i BY <1>10, <2>2
    <3>2. chain'[u][j] = chain[u][j] BY <1>8, <3>1
    <3>3. u # t \/ g # h BY <1>9, <2>2, <3>1, <3>2
    <3>4. j \notin Unused(u) BY <2>2, <3>2 DEF Unused
    <3>5. QED BY <1>2, <2>2, <3>2, <3>3, <3>4 DEF Accounted
  <2>3. QED BY <2>1, <2>2
<1>16. SlotsOK'
  <2> SUFFICES ASSUME NEW u \in Tables, NEW j \in Slots, NEW g,
                      g = chain'[u][j].hash
               PROVE  IF chain'[u][j].fd = -1 THEN chain'[u][j] = Empty
                      ELSE /\ \E x \in Files : /\ u = Table(x) /\ g = Hash[x]
                                               /\ file'[chain'[u][j].fd] = {x}
                           /\ Holders(u, g)' # {}
                           /\ \A k \in Slots : chain'[u][k].hash = g => k = j
    <3>1. ASSUME NEW u \in Tables, NEW j \in Slots
          PROVE  \E g : g = chain'[u][j].hash
      OBVIOUS
    <3>2. QED BY <3>1 DEF SlotsOK
  <2>1. CASE u = t /\ j = i BY <1>8, <2>1 DEF Empty
  <2>2. CASE u # t \/ j # i
    <3>1. chain'[u][j] = chain[u][j] BY <1>8, <2>2
    <3>2. u # t \/ g # h BY <1>9, <2>2, <3>1
    <3>3. Holders(u, g)' = Holders(u, g) BY <1>2, <3>2
    <3>4. CASE chain[u][j].fd = -1 BY <3>1, <3>4 DEF SlotsOK
    <3>5. CASE chain[u][j].fd # -1
      <4>1. PICK x \in Files : /\ u = Table(x) /\ g = Hash[x]
                               /\ file[chain[u][j].fd] = {x}
        BY <3>1, <3>5 DEF SlotsOK
      <4>2. chain[u][j].fd \in FDs BY <3>5 DEF TypeOK, SlotType
      <4>3. file'[chain[u][j].fd] = {x} BY <1>6, <1>7, <2>2, <4>1, <4>2
      <4>4. g # 0 BY <4>1 DEF HashIdentifies
      <4>5. \A k \in Slots : chain'[u][k].hash = g => chain[u][k].hash = g
        BY <1>8, <4>4 DEF Empty
      <4>6. /\ Holders(u, g) # {}
            /\ \A k \in Slots : chain[u][k].hash = g => k = j
        BY <3>1, <3>5 DEF SlotsOK
      <4>7. QED BY <3>1, <3>3, <3>5, <4>1, <4>3, <4>5, <4>6
    <3>6. QED BY <3>4, <3>5
  <2>3. QED BY <2>1, <2>2
<1>17. PrivateOK'
  <2> SUFFICES ASSUME NEW q \in Reqs, req'[q].live, req'[q].entry = {},
                      req'[q].fd \in FDs
               PROVE  /\ file'[req'[q].fd] # {}
                      /\ \A o \in Reqs \ {q} : req'[o].fd # req'[q].fd
                      /\ \A u \in Tables, j \in Slots :
                           chain'[u][j].fd # req'[q].fd
    BY DEF PrivateOK
  <2>1. q # r /\ req'[q] = req[q] BY <1>2 DEF NoReq
  <2>2. 0 \notin FDs /\ -1 \notin FDs BY FdtAssumption
  <2>3. \A o \in Reqs : o # r \/ req'[o].fd = 0 BY <1>2 DEF NoReq
  <2>4. file'[req'[q].fd] # {} BY <1>6, <1>7, <2>1 DEF PrivateOK
  <2>5. \A o \in Reqs \ {q} : req'[o].fd # req'[q].fd
    BY <1>2, <2>1, <2>2, <2>3 DEF PrivateOK
  <2>6. \A u \in Tables, j \in Slots : chain'[u][j].fd # req'[q].fd
    BY <1>8, <2>1, <2>2 DEF PrivateOK, Empty
  <2>7. QED BY <2>4, <2>5, <2>6
<1>18. EntriesOK'
  <2> SUFFICES ASSUME NEW q \in Reqs
               PROVE  /\ ~req'[q].live => req'[q] = NoReq
                      /\ req'[q].entry # {} =>
                           /\ FDT /\ req'[q].fd \in FDs
                           /\ \E u \in Tables, j \in Slots :
                                /\ req'[q].entry = {<<u, chain'[u][j].hash>>}
                                /\ chain'[u][j].fd = req'[q].fd
    BY DEF EntriesOK
  <2>1. CASE q = r BY <1>2, <2>1 DEF NoReq
  <2>2. CASE q # r
    <3>1. req'[q] = req[q] BY <1>2, <2>2
    <3>2. CASE req[q].entry = {} BY <3>1, <3>2 DEF EntriesOK
    <3>3. CASE req[q].entry # {}
      <4>1. PICK u \in Tables, j \in Slots :
              /\ req[q].entry = {<<u, chain[u][j].hash>>}
              /\ chain[u][j].fd = req[q].fd
        BY <3>3 DEF EntriesOK
      <4>2. req[q].fd # d BY <1>6, <2>2
      <4>3. u # t \/ j # i BY <1>5, <4>1, <4>2
      <4>4. chain'[u][j] = chain[u][j] BY <1>8, <4>3
      <4>5. /\ req'[q].entry = {<<u, chain'[u][j].hash>>}
            /\ chain'[u][j].fd = req'[q].fd
        BY <3>1, <4>1, <4>4
      <4>6. FDT /\ req'[q].fd \in FDs /\ (~req'[q].live => req'[q] = NoReq)
        BY <3>1, <3>3 DEF EntriesOK
      <4>7. QED BY <4>5, <4>6
    <3>4. QED BY <3>2, <3>3
  <2>3. QED BY <2>1, <2>2
<1>19. QED BY <1>12, <1>13, <1>14, <1>15, <1>16, <1>17, <1>18

(* mk_vhost_close of a request that holds an entry keeps the invariant.    *)
LEMMA CloseEntryKeeps ==
  ASSUME FdtInv, HashIdentifies, NEW r \in Reqs,
         NEW f \in Files, NEW t \in Tables, NEW h, t = Table(f), h = Hash[f],
         CloseEntry(r, t, h)
  PROVE  FdtInv'
<1>1. PICK i \in Slots :
        /\ chain[t][i].hash = h /\ chain[t][i].fd = req[r].fd
        /\ ReaderOut(t, i) \/ LastReaderOut(r, t, i)
  BY ClosesSlot
<1>2. CASE LastReaderOut(r, t, i) BY <1>1, <1>2, LastReaderLeaves
<1>3. CASE ReaderOut(t, i) BY <1>1, <1>3, ReaderLeaves
<1>4. QED BY <1>1, <1>2, <1>3

(* The tables that mk_vhost_fdt_worker_init builds satisfy the invariant.  *)
LEMMA InitKeeps ==
  ASSUME Init
  PROVE  FdtInv
<1> USE DEF Init
<1>1. TypeOK
  <2>1. Empty \in SlotType BY DEF Empty, SlotType
  <2>2. NoReq \in ReqType BY DEF NoReq, ReqType, Entries
  <2>3. CHAINS \in 0..CHAINS BY FdtAssumption
  <2>4. QED BY <2>1, <2>2, <2>3 DEF TypeOK
<1>2. RightContent BY DEF RightContent, NoReq
<1>3. NothingLeaks BY DEF NothingLeaks
<1>4. Accounted
  <2> SUFFICES ASSUME NEW t \in Tables
               PROVE  /\ av[t] = Cardinality(Unused(t)) /\ Slots \ Unused(t) = {}
    BY DEF Accounted
  <2>1. Unused(t) = Slots BY DEF Unused, Empty
  <2>2. CHAINS \in Nat BY FdtAssumption
  <2>3. Cardinality(1..CHAINS) = IF 1 > CHAINS THEN 0 ELSE CHAINS - 1 + 1
    BY <2>2, FS_Interval
  <2>4. Cardinality(Slots) = CHAINS BY <2>2, <2>3 DEF Slots
  <2>5. QED BY <2>1, <2>4
<1>5. SlotsOK BY DEF SlotsOK, Empty
<1>6. PrivateOK BY DEF PrivateOK, NoReq
<1>7. EntriesOK BY DEF EntriesOK, NoReq
<1>8. QED BY <1>1, <1>2, <1>3, <1>4, <1>5, <1>6, <1>7 DEF FdtInv

(* Every step of the table keeps the invariant.                            *)
LEMMA NextKeeps ==
  ASSUME FdtInv, HashIdentifies, "after" \notin ErrorPages, [Next]_vars
  PROVE  FdtInv'
<1>1. CASE Next
  <2>1. PICK r \in Reqs :
          \/ \E f \in Files : \/ OpenShared(r, f) \/ OpenNew(r, f)
                              \/ OpenPrivate(r, f) \/ OpenFails(r, f)
          \/ ClosePrivate(r)
          \/ \E f \in Files : CloseEntry(r, Table(f), Hash[f])
    BY <1>1 DEF Next
  <2>2. ASSUME NEW f \in Files, OpenShared(r, f) PROVE FdtInv'
    BY <2>2, OpenSharedKeeps
  <2>3. ASSUME NEW f \in Files, OpenNew(r, f) PROVE FdtInv'
    BY <2>3, TableIn, OpenNewKeeps
  <2>4. ASSUME NEW f \in Files, OpenPrivate(r, f) PROVE FdtInv'
    BY <2>4, OpenPrivateKeeps
  <2>5. ASSUME NEW f \in Files, OpenFails(r, f) PROVE FdtInv'
    BY <2>5, OpenFailsKeeps
  <2>6. CASE ClosePrivate(r) BY <2>6, ClosePrivateKeeps
  <2>7. ASSUME NEW f \in Files, CloseEntry(r, Table(f), Hash[f]) PROVE FdtInv'
    BY <2>7, TableIn, CloseEntryKeeps
  <2>8. QED BY <2>1, <2>2, <2>3, <2>4, <2>5, <2>6, <2>7
<1>2. CASE UNCHANGED vars
  <2> USE <1>2 DEF vars, FdtInv
  <2>1. \A t, h : Holders(t, h)' = Holders(t, h) BY DEF Holders
  <2>2. \A t : Unused(t)' = Unused(t) BY DEF Unused
  <2>3. TypeOK' BY DEF TypeOK
  <2>4. RightContent' BY DEF RightContent
  <2>5. NothingLeaks' BY DEF NothingLeaks
  <2>6. Accounted' BY <2>1, <2>2 DEF Accounted
  <2>7. SlotsOK' BY <2>1 DEF SlotsOK
  <2>8. PrivateOK' BY DEF PrivateOK
  <2>9. EntriesOK' BY DEF EntriesOK
  <2>10. QED BY <2>3, <2>4, <2>5, <2>6, <2>7, <2>8, <2>9
<1>3. QED BY <1>1, <1>2

(* While the hashes of a host's files tell them apart and no customised    *)
(* error page replaces an open file, the File Descriptor Table keeps its   *)
(* books for any number of requests, files, slots and descriptors.         *)
THEOREM FdtInvariant ==
  ASSUME HashIdentifies, "after" \notin ErrorPages
  PROVE  Spec => []FdtInv
<1>1. Init => FdtInv BY InitKeeps
<1>2. FdtInv /\ [Next]_vars => FdtInv' BY NextKeeps
<1>3. QED BY <1>1, <1>2, PTL DEF Spec

(* Under the same assumptions no request is ever answered from a           *)
(* descriptor that was closed, or closed and reopened on another file.     *)
THEOREM AlwaysRightContent ==
  ASSUME HashIdentifies, "after" \notin ErrorPages
  PROVE  Spec => []RightContent
<1>1. FdtInv => RightContent BY DEF FdtInv
<1>2. QED BY <1>1, FdtInvariant, PTL

(* Nor, under the same assumptions, does a descriptor ever stay open with  *)
(* nobody to close it.  A customised page for an error that is met after   *)
(* the file was opened (mk_http.c:1114) does leak it, and is outside.      *)
THEOREM NeverLeaks ==
  ASSUME HashIdentifies, "after" \notin ErrorPages
  PROVE  Spec => []NothingLeaks
<1>1. FdtInv => NothingLeaks BY DEF FdtInv
<1>2. QED BY <1>1, FdtInvariant, PTL

(* The readers of a slot are, under the same assumptions, always the       *)
(* requests that hold its entry, and av_slots the slots that are free to   *)
(* be filled.                                                              *)
THEOREM AlwaysAccounted ==
  ASSUME HashIdentifies, "after" \notin ErrorPages
  PROVE  Spec => []Accounted
<1>1. FdtInv => Accounted BY DEF FdtInv
<1>2. QED BY <1>1, FdtInvariant, PTL

-----------------------------------------------------------------------------
(***************************************************************************)
(* The table implements MkFileSharing: what a request uses is the          *)
(* descriptor it remembers, while it lives.                                *)
(***************************************************************************)
Uses == [r \in Reqs |-> IF req[r].live THEN {req[r].fd} \cap FDs ELSE {}]

(* mk_vhost_open gives its request a descriptor that was free, or is open  *)
(* on the same file: MkFileSharing's Begin.                                *)
LEMMA Begins ==
  ASSUME FdtInv, NEW r \in Reqs, ~req[r].live, NEW d \in FDs, NEW e, NEW s,
         Set(r, d, e, s), NEW x \in Content, file[d] \in {{}, {x}},
         file' = [file EXCEPT ![d] = {x}]
  PROVE  Sharing!Next
<1>1. /\ req'[r] = [live |-> TRUE, fd |-> d, entry |-> e, sends |-> s]
      /\ \A q \in Reqs : q # r => req'[q] = req[q]
  BY DEF FdtInv, TypeOK, Set
<1>2. Uses[r] = {} BY DEF Uses
<1>3. Uses' = [Uses EXCEPT ![r] = {d}]
  <2>1. Uses' = [q \in Reqs |->
                   IF req'[q].live THEN {req'[q].fd} \cap FDs ELSE {}]
    BY DEF Uses
  <2>2. \A q \in Reqs : Uses'[q] = IF q = r THEN {d} ELSE Uses[q]
    BY <1>1, <2>1 DEF Uses
  <2>3. QED BY <2>1, <2>2 DEF Uses
<1>4. Sharing!Begin(r, x, d) BY <1>2, <1>3 DEF Sharing!Begin, Uses
<1>5. QED BY <1>4 DEF Sharing!Next

(* A request that gets no descriptor is no concern of MkFileSharing's.     *)
LEMMA BeginsWithout ==
  ASSUME FdtInv, NEW r \in Reqs, ~req[r].live, NEW d \in {-1, 0}, NEW e,
         NEW s, Set(r, d, e, s), file' = file
  PROVE  UNCHANGED Sharing!vars
<1>1. /\ req'[r] = [live |-> TRUE, fd |-> d, entry |-> e, sends |-> s]
      /\ \A q \in Reqs : q # r => req'[q] = req[q]
  BY DEF FdtInv, TypeOK, Set
<1>2. d \notin FDs BY FdtAssumption
<1>3. Uses' = Uses
  <2>1. Uses' = [q \in Reqs |->
                   IF req'[q].live THEN {req'[q].fd} \cap FDs ELSE {}]
    BY DEF Uses
  <2>2. \A q \in Reqs : Uses'[q] = Uses[q] BY <1>1, <1>2, <2>1 DEF Uses
  <2>3. QED BY <2>1, <2>2 DEF Uses
<1>4. QED BY <1>3 DEF Sharing!vars, Uses

(* What a request uses once another has ended.                             *)
LEMMA EndsUse ==
  ASSUME FdtInv, NEW r \in Reqs, req[r].live,
         req' = [req EXCEPT ![r] = NoReq]
  PROVE  /\ Uses' = [Uses EXCEPT ![r] = {}]
         /\ Uses[r] = {req[r].fd} \cap FDs
         /\ \A q \in Reqs : req[q].live => Uses[q] = {req[q].fd} \cap FDs
         /\ \A q \in Reqs : ~req[q].live => Uses[q] = {}
<1>1. ~req'[r].live /\ \A q \in Reqs : q # r => req'[q] = req[q]
  BY DEF FdtInv, TypeOK, NoReq
<1>2. Uses' = [q \in Reqs |->
                 IF req'[q].live THEN {req'[q].fd} \cap FDs ELSE {}]
  BY DEF Uses
<1>3. \A q \in Reqs : Uses'[q] = IF q = r THEN {} ELSE Uses[q]
  BY <1>1, <1>2 DEF Uses
<1>4. QED BY <1>2, <1>3 DEF Uses

(* mk_vhost_close of a private descriptor closes it: nobody else uses it.  *)
LEMMA ClosePrivateEnds ==
  ASSUME FdtInv, NEW r \in Reqs, ClosePrivate(r)
  PROVE  [Sharing!Next]_(Sharing!vars)
<1>1. /\ req[r].live /\ req' = [req EXCEPT ![r] = NoReq]
      /\ CloseFd(req[r].fd)
  BY DEF ClosePrivate
<1>2. req[r].entry = {} BY DEF ClosePrivate, FdtInv, EntriesOK
<1>3. /\ Uses' = [Uses EXCEPT ![r] = {}]
      /\ Uses[r] = {req[r].fd} \cap FDs
      /\ \A q \in Reqs : req[q].live => Uses[q] = {req[q].fd} \cap FDs
      /\ \A q \in Reqs : ~req[q].live => Uses[q] = {}
  BY <1>1, EndsUse
<1>4. CASE req[r].fd \in FDs
  <2>1. PICK d \in FDs : d = req[r].fd BY <1>4
  <2>2. Uses[r] = {d} BY <1>3, <2>1
  <2>3. \A q \in Reqs \ {r} : Uses[q] # {d}
    <3>1. \A q \in Reqs \ {r} : req[q].fd # d
      BY <1>1, <1>2, <2>1 DEF FdtInv, PrivateOK
    <3>2. QED BY <1>3, <3>1
  <2>4. file' = [file EXCEPT ![d] = {}] BY <1>1, <2>1 DEF CloseFd
  <2>5. Sharing!End(r, d)
    BY <1>3, <2>2, <2>3, <2>4 DEF Sharing!End, Uses
  <2>6. QED BY <2>5 DEF Sharing!Next
<1>5. CASE req[r].fd \notin FDs
  <2>1. Uses[r] = {} BY <1>3, <1>5
  <2>2. Uses' = Uses BY <1>3, <2>1 DEF Uses
  <2>3. file' = file BY <1>1, <1>5 DEF CloseFd
  <2>4. QED BY <2>2, <2>3 DEF Sharing!vars, Uses
<1>6. QED BY <1>4, <1>5

(* mk_vhost_close of an entry closes its descriptor exactly when no other  *)
(* request uses it: that is what counting the readers is for.              *)
LEMMA CloseEntryEnds ==
  ASSUME FdtInv, HashIdentifies, NEW r \in Reqs,
         NEW f \in Files, NEW t \in Tables, NEW h, t = Table(f), h = Hash[f],
         CloseEntry(r, t, h)
  PROVE  Sharing!Next
<1>1. /\ req[r].live /\ req[r].entry = {<<t, h>>} /\ req[r].fd \in FDs
      /\ req' = [req EXCEPT ![r] = NoReq]
  BY ClosesSlot
<1>2. PICK i \in Slots :
        /\ chain[t][i].hash = h /\ chain[t][i].fd = req[r].fd
        /\ ReaderOut(t, i) \/ LastReaderOut(r, t, i)
  BY ClosesSlot
<1>3. PICK d \in FDs : d = req[r].fd BY <1>1
<1>4. /\ Uses' = [Uses EXCEPT ![r] = {}]
      /\ Uses[r] = {d}
      /\ \A q \in Reqs : req[q].live => Uses[q] = {req[q].fd} \cap FDs
      /\ \A q \in Reqs : ~req[q].live => Uses[q] = {}
  <2>1. Uses[r] = {req[r].fd} \cap FDs BY <1>1, EndsUse
  <2>2. QED BY <1>1, <1>3, <2>1, EndsUse, ZenonT(60)
<1>5. r \in Holders(t, h) BY LeavesEntry
<1>6. chain[t][i].readers = Cardinality(Holders(t, h))
  <2>1. i \notin Unused(t) BY <1>2, <1>3, FdtAssumption DEF Unused
  <2>2. QED BY <1>2, <2>1 DEF FdtInv, Accounted
<1>7. /\ IsFiniteSet(Holders(t, h) \ {r})
      /\ Cardinality(Holders(t, h) \ {r}) = chain[t][i].readers - 1
  BY <1>5, <1>6, Finite, FS_RemoveElement
<1>8. Holders(t, h) \ {r} = {} <=> chain[t][i].readers - 1 = 0
  BY <1>7, FS_EmptySet
<1>9. \A q \in Reqs : Uses[q] = {d} <=> q \in Holders(t, h)
  <2>1. ASSUME NEW q \in Reqs, Uses[q] = {d} PROVE q \in Holders(t, h)
    <3>1. req[q].fd = d BY <1>4, <2>1
    <3>2. QED BY <1>2, <1>3, <3>1, SlotFd
  <2>2. ASSUME NEW q \in Reqs, q \in Holders(t, h) PROVE Uses[q] = {d}
    <3>1. req[q].live /\ req[q].entry = {<<t, h>>} BY <2>2 DEF Holders
    <3>2. \E j \in Slots : /\ chain[t][j].hash = h
                           /\ chain[t][j].fd = req[q].fd
                           /\ \A k \in Slots : chain[t][k].hash = h => k = j
      BY <3>1, EntrySlot
    <3>3. req[q].fd = d BY <1>2, <1>3, <3>2
    <3>4. QED BY <1>4, <3>1, <3>3
  <2>3. QED BY <2>1, <2>2
<1>10. file' = IF \E q \in Reqs \ {r} : Uses[q] = {d} THEN file
               ELSE [file EXCEPT ![d] = {}]
  <2>1. (\E q \in Reqs \ {r} : Uses[q] = {d}) <=> Holders(t, h) \ {r} # {}
    BY <1>9 DEF Holders
  <2>2. CASE ReaderOut(t, i) BY <1>8, <2>1, <2>2 DEF ReaderOut
  <2>3. CASE LastReaderOut(r, t, i)
    BY <1>3, <1>8, <2>1, <2>3 DEF LastReaderOut
  <2>4. QED BY <1>2, <2>2, <2>3
<1>11. Sharing!End(r, d) BY <1>4, <1>10 DEF Sharing!End, Uses
<1>12. QED BY <1>11 DEF Sharing!Next

(* mk_vhost_open that shares, registers or keeps a descriptor begins a     *)
(* use of it.                                                              *)
LEMMA OpenBegins ==
  ASSUME FdtInv, HashIdentifies, "after" \notin ErrorPages,
         NEW r \in Reqs, NEW f \in Files,
         OpenShared(r, f) \/ OpenNew(r, f) \/ OpenPrivate(r, f)
  PROVE  Sharing!Next
<1>0. f \in Content /\ Table(f) \in Tables /\ Hash[f] # 0
  BY TableIn DEF Content, HashIdentifies
<1>1. CASE OpenShared(r, f)
  <2>1. PICK i \in Slots :
          /\ First(i, Matches(Table(f), Hash[f]))
          /\ IF chain[Table(f)][i].fd = -1
             THEN Refuse(r, -1, {<<Table(f), Hash[f]>>})
             ELSE Answer(r, f, chain[Table(f)][i].fd,
                         {<<Table(f), Hash[f]>>}, file)
    BY <1>1 DEF OpenShared
  <2>2. chain[Table(f)][i].hash = Hash[f] BY <2>1 DEF First, Matches
  <2>3. chain[Table(f)][i].fd # -1 /\ chain[Table(f)][i].fd \in FDs
    <3>1. chain[Table(f)][i] # Empty BY <1>0, <2>2 DEF Empty
    <3>2. chain[Table(f)][i] \in SlotType BY <1>0 DEF FdtInv, TypeOK
    <3>3. QED BY <1>0, <3>1, <3>2 DEF FdtInv, SlotsOK, SlotType
  <2>4. PICK d \in FDs : d = chain[Table(f)][i].fd BY <2>3
  <2>5. file[d] = {f} BY <1>0, <2>2, <2>4, SlotFd, SMTT(30)
  <2>6. PICK s \in {{f}, {}} :
          file' = file /\ Set(r, d, {<<Table(f), Hash[f]>>}, s)
    BY <2>1, <2>3, <2>4 DEF Answer
  <2>7. file' = [file EXCEPT ![d] = {f}]
    BY <2>5, <2>6 DEF FdtInv, TypeOK
  <2>8. ~req[r].live BY <1>1 DEF OpenShared
  <2>9. QED BY <1>0, <2>5, <2>6, <2>7, <2>8, Begins
<1>2. CASE OpenNew(r, f)
  <2>1. PICK d \in FDs : /\ Free(d, file)
                         /\ Answer(r, f, d, {<<Table(f), Hash[f]>>},
                                   Open(d, f, file))
    BY <1>2 DEF OpenNew
  <2>2. PICK s \in {{f}, {}} : /\ file' = Open(d, f, file)
                               /\ Set(r, d, {<<Table(f), Hash[f]>>}, s)
    BY <2>1 DEF Answer
  <2>3. file[d] = {} /\ file' = [file EXCEPT ![d] = {f}]
    BY <2>1, <2>2 DEF Free, Open
  <2>4. ~req[r].live BY <1>2 DEF OpenNew
  <2>5. QED BY <1>0, <2>2, <2>3, <2>4, Begins
<1>3. CASE OpenPrivate(r, f)
  <2>1. PICK d \in FDs : /\ Free(d, file)
                         /\ Answer(r, f, d, {}, Open(d, f, file))
    BY <1>3 DEF OpenPrivate
  <2>2. PICK s \in {{f}, {}} : file' = Open(d, f, file) /\ Set(r, d, {}, s)
    BY <2>1 DEF Answer
  <2>3. file[d] = {} /\ file' = [file EXCEPT ![d] = {f}]
    BY <2>1, <2>2 DEF Free, Open
  <2>4. ~req[r].live BY <1>3 DEF OpenPrivate
  <2>5. QED BY <1>0, <2>2, <2>3, <2>4, Begins
<1>4. QED BY <1>1, <1>2, <1>3

(* mk_vhost_open that fails or is not reached: a customised error page may *)
(* be opened instead.                                                      *)
LEMMA OpenFailsBegins ==
  ASSUME FdtInv, NEW r \in Reqs, NEW f \in Files, OpenFails(r, f)
  PROVE  [Sharing!Next]_(Sharing!vars)
<1>1. ~req[r].live BY DEF OpenFails
<1>2. PICK d \in {-1, 0} : Refuse(r, d, {}) BY DEF OpenFails
<1>3. CASE file' = file /\ Set(r, d, {}, {}) BY <1>1, <1>3, BeginsWithout
<1>4. CASE SendPage(r, {}, file)
  <2>1. PICK p \in FDs : /\ Free(p, file) /\ file' = Open(p, Page, file)
                         /\ Set(r, p, {}, {Page})
    BY <1>4 DEF SendPage
  <2>2. Page \in Content BY DEF Content
  <2>3. file[p] = {} /\ file' = [file EXCEPT ![p] = {Page}]
    BY <2>1 DEF Free, Open
  <2>4. QED BY <1>1, <2>1, <2>2, <2>3, Begins
<1>5. QED BY <1>2, <1>3, <1>4 DEF Refuse

(* Under the assumptions of FdtInvariant the table implements plain        *)
(* sharing, for any number of requests, files, slots and descriptors: a    *)
(* request gets a descriptor of its own file, nobody closes it under the   *)
(* request, and the end of its last user closes it.                        *)
THEOREM TableImplementsSharing ==
  ASSUME HashIdentifies, "after" \notin ErrorPages
  PROVE  Spec => ImplementsSharing
<1>1. Init => Sharing!Init BY DEF Init, Sharing!Init, NoReq
<1>2. FdtInv /\ [Next]_vars => [Sharing!Next]_(Sharing!vars)
  <2> SUFFICES ASSUME FdtInv, [Next]_vars
               PROVE  [Sharing!Next]_(Sharing!vars)
    OBVIOUS
  <2>1. CASE UNCHANGED vars BY <2>1 DEF vars, Sharing!vars
  <2>2. ASSUME NEW r \in Reqs, NEW f \in Files,
               OpenShared(r, f) \/ OpenNew(r, f) \/ OpenPrivate(r, f)
        PROVE  Sharing!Next
    BY <2>2, OpenBegins
  <2>3. ASSUME NEW r \in Reqs, NEW f \in Files, OpenFails(r, f)
        PROVE  [Sharing!Next]_(Sharing!vars)
    BY <2>3, OpenFailsBegins
  <2>4. ASSUME NEW r \in Reqs, ClosePrivate(r)
        PROVE  [Sharing!Next]_(Sharing!vars)
    BY <2>4, ClosePrivateEnds
  <2>5. ASSUME NEW r \in Reqs, NEW f \in Files,
               CloseEntry(r, Table(f), Hash[f])
        PROVE  Sharing!Next
    BY <2>5, TableIn, CloseEntryEnds
  <2>6. QED BY <2>1, <2>2, <2>3, <2>4, <2>5 DEF Next
<1>3. QED
  BY <1>1, <1>2, FdtInvariant, PTL DEF Spec, ImplementsSharing, Sharing!Spec
=============================================================================
