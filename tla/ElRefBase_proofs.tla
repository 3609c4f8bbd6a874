--------------------------- MODULE ElRefBase_proofs ---------------------------
(***************************************************************************)
(* Proofs about ElRefBase, for any number of references.                   *)
(***************************************************************************)
EXTENDS ElRefBase, FiniteSetTheorems, TLAPS

(* What becomes of the references in states S when one of them moves.      *)
Moved(r, where, S) ==
  /\ IsFiniteSet(In(S)) /\ Cardinality(In(S)) \in Nat
  /\ Cardinality(In(S)) <= Cardinality(Refs)
  /\ Cardinality(In(S)) = 0 <=> In(S) = {}
  /\ pc[r] \in S => (Cardinality(In(S)) = 1 <=> In(S) = {r})
  /\ In(S)' = IF where \in S THEN In(S) \cup {r} ELSE In(S) \ {r}
  /\ where \in S /\ pc[r] \notin S =>
       Cardinality(In(S)') = Cardinality(In(S)) + 1
  /\ where \notin S /\ pc[r] \in S =>
       Cardinality(In(S)') = Cardinality(In(S)) - 1
  /\ (where \in S <=> pc[r] \in S) => In(S)' = In(S)

(* When a step changes the state of one reference only, each set of        *)
(* references in given states gains it, loses it or stays, and its         *)
(* cardinality follows.                                                    *)
LEMMA Moves ==
  ASSUME pc \in [Refs -> PC], NEW r \in Refs, NEW where \in PC, Go(r, where),
         NEW S
  PROVE  Moved(r, where, S)
<1>1. In(S) \subseteq Refs BY DEF In
<1>2. IsFiniteSet(In(S)) /\ Cardinality(In(S)) <= Cardinality(Refs)
  BY <1>1, RefsAssumption, FS_Subset
<1>3. Cardinality(In(S)) \in Nat BY <1>2, FS_CardinalityType
<1>4. Cardinality(In(S)) = 0 <=> In(S) = {} BY <1>2, FS_EmptySet
<1>5. In(S)' = IF where \in S THEN In(S) \cup {r} ELSE In(S) \ {r}
  BY DEF In, Go
<1>6. r \in In(S) <=> pc[r] \in S BY DEF In
<1>7. where \in S /\ pc[r] \notin S =>
        Cardinality(In(S)') = Cardinality(In(S)) + 1
  <2>1. Cardinality(In(S) \cup {r}) =
          IF r \in In(S) THEN Cardinality(In(S)) ELSE Cardinality(In(S)) + 1
    BY <1>2, FS_AddElement
  <2>2. QED BY <1>5, <1>6, <2>1
<1>8. where \notin S /\ pc[r] \in S =>
        Cardinality(In(S)') = Cardinality(In(S)) - 1
  <2>1. Cardinality(In(S) \ {r}) =
          IF r \in In(S) THEN Cardinality(In(S)) - 1 ELSE Cardinality(In(S))
    BY <1>2, FS_RemoveElement
  <2>2. QED BY <1>5, <1>6, <2>1
<1>9. (where \in S <=> pc[r] \in S) => In(S)' = In(S)
  BY <1>5, <1>6
<1>10. pc[r] \in S => (Cardinality(In(S)) = 1 <=> In(S) = {r})
  <2>1. Cardinality(In(S)) = 1 <=> \E x : In(S) = {x}
    BY <1>2, FS_Singleton
  <2>2. QED BY <1>6, <2>1
<1>11. QED BY <1>2, <1>3, <1>4, <1>5, <1>7, <1>8, <1>9, <1>10 DEF Moved

(* The facts a step on reference r gives about every set the invariant     *)
(* speaks of.                                                              *)
LEMMA MovesAll ==
  ASSUME pc \in [Refs -> PC], NEW r \in Refs, NEW where \in PC, Go(r, where)
  PROVE  /\ Moved(r, where, StrongPC)
         /\ Moved(r, where, WeakPC)
         /\ Moved(r, where, {"strong"})
         /\ Moved(r, where, {"first"})
         /\ Moved(r, where, {"last"})
         /\ Moved(r, where, {"lastw"})
BY Moves

(* What the counts say about the references.                               *)
CountsSay ==
  /\ Cardinality(CountedStrong) \in Nat
  /\ Cardinality(CountedStrong) < INITIAL
  /\ Cardinality(CountedStrong) = 0 <=> CountedStrong = {}
  /\ Cardinality(CountedWeak) \in Nat
  /\ Cardinality(CountedWeak) = 0 <=> CountedWeak = {}
  /\ CountedStrong \subseteq CountedWeak
  /\ In({"strong"}) \subseteq CountedStrong
  /\ shared => mStrong = Cardinality(CountedStrong)
  /\ mStrong = INITIAL <=> ~shared /\ CountedStrong = {}
  /\ INITIAL \in Nat
  /\ ~shared => In({"lastw"}) = {}

(* The invariant makes it so: there are never as many references as        *)
(* INITIAL_STRONG_VALUE, so the count tells the two phases apart.          *)
LEMMA Bounds ==
  ASSUME IInv PROVE CountsSay
<1>1. /\ CountedStrong \subseteq Refs /\ CountedWeak \subseteq Refs
      /\ CountedStrong \subseteq CountedWeak
      /\ In({"strong"}) \subseteq CountedStrong
  BY DEF CountedStrong, CountedWeak, In, StrongPC, WeakPC, PC
<1>2. /\ IsFiniteSet(CountedStrong) /\ IsFiniteSet(CountedWeak)
      /\ Cardinality(CountedStrong) <= Cardinality(Refs)
  BY <1>1, RefsAssumption, FS_Subset
<1>3. /\ Cardinality(CountedStrong) \in Nat /\ Cardinality(CountedWeak) \in Nat
      /\ Cardinality(Refs) \in Nat
  BY <1>2, RefsAssumption, FS_CardinalityType
<1>4. /\ Cardinality(CountedStrong) = 0 <=> CountedStrong = {}
      /\ Cardinality(CountedWeak) = 0 <=> CountedWeak = {}
  BY <1>2, FS_EmptySet
<1>5. Cardinality(CountedStrong) < INITIAL
  BY <1>2, <1>3, RefsAssumption
<1>6. mStrong = Cardinality(CountedStrong) + Offset
  BY DEF IInv, CountsOK
<1>7. shared => mStrong = Cardinality(CountedStrong)
  BY <1>3, <1>6 DEF Offset
<1>8. mStrong = INITIAL <=> ~shared /\ CountedStrong = {}
  <2>1. INITIAL \in Nat BY RefsAssumption
  <2>2. CASE shared \/ In({"strong"}) # {}
    BY <1>1, <1>3, <1>5, <1>6, <2>1, <2>2 DEF Offset
  <2>3. CASE ~shared /\ In({"strong"}) = {}
    BY <1>3, <1>4, <1>6, <2>1, <2>3 DEF Offset
  <2>4. QED BY <2>2, <2>3
<1>9. ~shared => In({"lastw"}) = {}
  BY DEF IInv, CreatorOK, Settled, In
<1>10. QED
  BY <1>1, <1>3, <1>4, <1>5, <1>7, <1>8, <1>9, RefsAssumption DEF CountsSay

(* The weak half of RefBase::IncStrong, which comes first, keeps the       *)
(* invariant: whoever starts it already stands on a counted reference.     *)
LEMMA IncStrongWeakKeeps ==
  ASSUME Android, FirstRefBeforeShare, IInv, NEW r \in Refs, IncStrongWeak(r)
  PROVE  IInv'
<1> DEFINE where == "inc"
<1>1. CountsSay
  BY Bounds
<1>2. /\ where \in PC /\ Go(r, where) /\ pc[r] = "none"
      /\ pc \in [Refs -> PC]
  BY <1>1 DEF IncStrongWeak, From, Alone, Settled, PC, IInv, TypeOK, CreatorOK,
     Settled, CountsSay
<1>3. /\ Moved(r, where, StrongPC) /\ Moved(r, where, WeakPC)
      /\ Moved(r, where, {"strong"}) /\ Moved(r, where, {"first"})
      /\ Moved(r, where, {"last"}) /\ Moved(r, where, {"lastw"})
  BY <1>2, MovesAll
<1>4. /\ CountedStrong' = CountedStrong
      /\ Cardinality(CountedStrong') = Cardinality(CountedStrong)
      /\ r \notin CountedStrong
      /\ CountedWeak' = CountedWeak \cup {r}
      /\ Cardinality(CountedWeak') = Cardinality(CountedWeak) + 1
      /\ r \notin CountedWeak
      /\ In({"strong"})' = In({"strong"})
      /\ r \notin In({"strong"})
      /\ In({"first"})' = In({"first"})
      /\ r \notin In({"first"})
      /\ In({"last"})' = In({"last"})
      /\ r \notin In({"last"})
      /\ In({"lastw"})' = In({"lastw"})
      /\ r \notin In({"lastw"})
  BY <1>2, <1>3 DEF Moved, CountedStrong, CountedWeak, StrongPC, WeakPC, PC, In
<1>5. shared => CountedStrong # {}
  BY <1>2 DEF IncStrongWeak, From, Alone, Settled, IInv, SourcesOK, CreatorOK,
     Offset, CountedStrong, CountedWeak, In, StrongPC, WeakPC, PC
<1>6. TypeOK'
  BY <1>1, <1>2, <1>4, <1>5 DEF IncStrongWeak, From, Alone, Settled, Go, IInv,
     TypeOK, CountsOK, CountsSay
<1>7. CountsOK'
  BY <1>1, <1>2, <1>4, <1>5 DEF IncStrongWeak, From, Alone, Settled, IInv,
     TypeOK, CountsOK, CreatorOK, Offset, CountsSay
<1>8. CreatorOK'
  BY <1>1, <1>2, <1>4, <1>5 DEF IncStrongWeak, From, Alone, Settled, Go, IInv,
     TypeOK, CreatorOK, Settled, CountsSay
<1>9. SourcesOK'
  BY <1>1, <1>2, <1>4, <1>5 DEF IncStrongWeak, From, Alone, Settled, Go, IInv,
     TypeOK, CreatorOK, SourcesOK, CountsSay
<1>10. BaseOK'
  BY <1>1, <1>2, <1>4, <1>5 DEF IncStrongWeak, From, Alone, Settled, IInv,
     TypeOK, CountsOK, BaseOK, ImplOK, SourcesOK, CountsSay
<1>11. ImplOK'
  BY <1>1, <1>2, <1>4, <1>5 DEF IncStrongWeak, From, Alone, Settled, IInv,
     TypeOK, CountsOK, ImplOK, CountsSay
<1>12. QED BY <1>6, <1>7, <1>8, <1>9, <1>10, <1>11 DEF IInv

(* The strong half keeps it: only the first strong reference meets         *)
(* INITIAL.                                                                *)
LEMMA IncStrongKeeps ==
  ASSUME Android, FirstRefBeforeShare, IInv, NEW r \in Refs, IncStrong(r)
  PROVE  IInv'
<1> DEFINE where == IF mStrong = INITIAL THEN "first" ELSE "strong"
<1>1. CountsSay
  BY Bounds
<1>2. /\ where \in PC /\ Go(r, where) /\ pc[r] = "inc"
      /\ pc \in [Refs -> PC]
  BY <1>1 DEF IncStrong, PC, IInv, TypeOK, CreatorOK, Settled, CountsSay
<1>3. /\ Moved(r, where, StrongPC) /\ Moved(r, where, WeakPC)
      /\ Moved(r, where, {"strong"}) /\ Moved(r, where, {"first"})
      /\ Moved(r, where, {"last"}) /\ Moved(r, where, {"lastw"})
  BY <1>2, MovesAll
<1>4. /\ CountedStrong' = CountedStrong \cup {r}
      /\ Cardinality(CountedStrong') = Cardinality(CountedStrong) + 1
      /\ r \notin CountedStrong
      /\ CountedWeak' = CountedWeak
      /\ Cardinality(CountedWeak') = Cardinality(CountedWeak)
      /\ r \in CountedWeak
      /\ Cardinality(CountedWeak) = 1 <=> CountedWeak = {r}
      /\ In({"strong"})' = IF mStrong = INITIAL THEN In({"strong"})
                           ELSE In({"strong"}) \cup {r}
      /\ r \notin In({"strong"})
      /\ In({"first"})' = IF mStrong = INITIAL THEN In({"first"}) \cup {r}
                          ELSE In({"first"})
      /\ r \notin In({"first"})
      /\ In({"last"})' = In({"last"})
      /\ r \notin In({"last"})
      /\ In({"lastw"})' = In({"lastw"})
      /\ r \notin In({"lastw"})
  BY <1>2, <1>3 DEF Moved, CountedStrong, CountedWeak, StrongPC, WeakPC, PC, In
<1>5. /\ shared => CountedStrong # {}
      /\ ~shared => In({"first"}) = {} /\ CountedStrong = In({"strong"})
  BY <1>2 DEF IncStrong, IInv, SourcesOK, CreatorOK, Offset, CountedStrong,
     CountedWeak, In, StrongPC, WeakPC, PC
<1>6. TypeOK'
  BY <1>1, <1>2, <1>4, <1>5 DEF IncStrong, Go, IInv, TypeOK, CountsOK,
     CountsSay
<1>7. CountsOK'
  BY <1>1, <1>2, <1>4, <1>5 DEF IncStrong, IInv, TypeOK, CountsOK, CreatorOK,
     Offset, CountsSay
<1>8. CreatorOK'
  BY <1>1, <1>2, <1>4, <1>5 DEF IncStrong, Go, IInv, TypeOK, CreatorOK,
     Settled, CountsSay
<1>9. SourcesOK'
  BY <1>1, <1>2, <1>4, <1>5 DEF IncStrong, Go, IInv, TypeOK, CreatorOK,
     SourcesOK, CountsSay
<1>10. BaseOK'
  BY <1>1, <1>2, <1>4, <1>5 DEF IncStrong, IInv, TypeOK, CountsOK, BaseOK,
     ImplOK, SourcesOK, CountsSay
<1>11. ImplOK'
  BY <1>1, <1>2, <1>4, <1>5 DEF IncStrong, IInv, TypeOK, CountsOK, ImplOK,
     CountsSay
<1>12. QED BY <1>6, <1>7, <1>8, <1>9, <1>10, <1>11 DEF IInv

(* Taking INITIAL back out, before OnFirstRef, keeps it: the caller is the *)
(* only strong reference.                                                  *)
LEMMA FirstRefKeeps ==
  ASSUME Android, FirstRefBeforeShare, IInv, NEW r \in Refs, FirstRef(r)
  PROVE  IInv'
<1> DEFINE where == "strong"
<1>1. CountsSay
  BY Bounds
<1>2. /\ where \in PC /\ Go(r, where) /\ pc[r] = "first"
      /\ pc \in [Refs -> PC]
  BY <1>1 DEF FirstRef, Add, PC, IInv, TypeOK, CreatorOK, Settled, CountsSay
<1>3. /\ Moved(r, where, StrongPC) /\ Moved(r, where, WeakPC)
      /\ Moved(r, where, {"strong"}) /\ Moved(r, where, {"first"})
      /\ Moved(r, where, {"last"}) /\ Moved(r, where, {"lastw"})
  BY <1>2, MovesAll
<1>4. /\ CountedStrong' = CountedStrong
      /\ Cardinality(CountedStrong') = Cardinality(CountedStrong)
      /\ r \in CountedStrong
      /\ Cardinality(CountedStrong) = 1 <=> CountedStrong = {r}
      /\ CountedWeak' = CountedWeak
      /\ Cardinality(CountedWeak') = Cardinality(CountedWeak)
      /\ r \in CountedWeak
      /\ Cardinality(CountedWeak) = 1 <=> CountedWeak = {r}
      /\ In({"strong"})' = In({"strong"}) \cup {r}
      /\ r \notin In({"strong"})
      /\ In({"first"})' = In({"first"}) \ {r}
      /\ r \in In({"first"})
      /\ In({"last"})' = In({"last"})
      /\ r \notin In({"last"})
      /\ In({"lastw"})' = In({"lastw"})
      /\ r \notin In({"lastw"})
  BY <1>2, <1>3 DEF Moved, CountedStrong, CountedWeak, StrongPC, WeakPC, PC, In
<1>5. /\ ~shared /\ In({"first"}) = {r} /\ In({"strong"}) = {}
      /\ CountedStrong = {r} /\ Offset = INITIAL
  BY <1>2 DEF FirstRef, Add, IInv, SourcesOK, CreatorOK, Offset, CountedStrong,
     CountedWeak, In, StrongPC, WeakPC, PC
<1>6. TypeOK'
  BY <1>1, <1>2, <1>4, <1>5 DEF FirstRef, Add, Go, IInv, TypeOK, CountsOK,
     CountsSay
<1>7. CountsOK'
  BY <1>1, <1>2, <1>4, <1>5 DEF FirstRef, Add, IInv, TypeOK, CountsOK,
     CreatorOK, Offset, CountsSay
<1>8. CreatorOK'
  BY <1>1, <1>2, <1>4, <1>5 DEF FirstRef, Add, Go, IInv, TypeOK, CreatorOK,
     Settled, CountsSay
<1>9. SourcesOK'
  BY <1>1, <1>2, <1>4, <1>5 DEF FirstRef, Add, Go, IInv, TypeOK, CreatorOK,
     SourcesOK, CountsSay
<1>10. BaseOK'
  BY <1>1, <1>2, <1>4, <1>5 DEF FirstRef, Add, IInv, TypeOK, CountsOK, BaseOK,
     ImplOK, SourcesOK, CountsSay
<1>11. ImplOK'
  BY <1>1, <1>2, <1>4, <1>5 DEF FirstRef, Add, IInv, TypeOK, CountsOK, ImplOK,
     CountsSay
<1>12. QED BY <1>6, <1>7, <1>8, <1>9, <1>10, <1>11 DEF IInv

(* The strong half of DecStrong keeps it: one caller alone sees the 1.     *)
LEMMA DecStrongKeeps ==
  ASSUME Android, FirstRefBeforeShare, IInv, NEW r \in Refs, DecStrong(r)
  PROVE  IInv'
<1> DEFINE where == IF mStrong = 1 THEN "last" ELSE "drop"
<1>1. CountsSay
  BY Bounds
<1>2. /\ where \in PC /\ Go(r, where) /\ pc[r] = "strong"
      /\ pc \in [Refs -> PC]
      /\ shared
  BY <1>1 DEF DecStrong, Idle, PC, IInv, TypeOK, CreatorOK, Settled, CountsSay
<1>3. /\ Moved(r, where, StrongPC) /\ Moved(r, where, WeakPC)
      /\ Moved(r, where, {"strong"}) /\ Moved(r, where, {"first"})
      /\ Moved(r, where, {"last"}) /\ Moved(r, where, {"lastw"})
  BY <1>2, MovesAll
<1>4. /\ CountedStrong' = CountedStrong \ {r}
      /\ Cardinality(CountedStrong') = Cardinality(CountedStrong) - 1
      /\ r \in CountedStrong
      /\ Cardinality(CountedStrong) = 1 <=> CountedStrong = {r}
      /\ CountedWeak' = CountedWeak
      /\ Cardinality(CountedWeak') = Cardinality(CountedWeak)
      /\ r \in CountedWeak
      /\ Cardinality(CountedWeak) = 1 <=> CountedWeak = {r}
      /\ In({"strong"})' = In({"strong"}) \ {r}
      /\ r \in In({"strong"})
      /\ In({"first"})' = In({"first"})
      /\ r \notin In({"first"})
      /\ In({"last"})' = IF mStrong = 1 THEN In({"last"}) \cup {r}
                         ELSE In({"last"})
      /\ r \notin In({"last"})
      /\ In({"lastw"})' = In({"lastw"})
      /\ r \notin In({"lastw"})
  BY <1>2, <1>3, ZenonT(60)
     DEF Moved, CountedStrong, CountedWeak, StrongPC, WeakPC, PC, In
<1>5. TypeOK'
  BY <1>1, <1>2, <1>4 DEF DecStrong, Idle, Go, IInv, TypeOK, CountsOK,
     CountsSay
<1>6. CountsOK'
  BY <1>1, <1>2, <1>4 DEF DecStrong, Idle, IInv, TypeOK, CountsOK, CreatorOK,
     Offset, CountsSay
<1>7. CreatorOK'
  BY <1>1, <1>2, <1>4 DEF DecStrong, Idle, Go, IInv, TypeOK, CreatorOK,
     Settled, CountsSay
<1>8. SourcesOK'
  BY <1>1, <1>2, <1>4 DEF DecStrong, Idle, Go, IInv, TypeOK, CreatorOK,
     SourcesOK, CountsSay
<1>9. BaseOK'
  BY <1>1, <1>2, <1>4 DEF DecStrong, Idle, IInv, TypeOK, CountsOK, BaseOK,
     ImplOK, SourcesOK, CountsSay
<1>10. ImplOK'
  BY <1>1, <1>2, <1>4 DEF DecStrong, Idle, IInv, TypeOK, CountsOK, ImplOK,
     CountsSay
<1>11. QED BY <1>5, <1>6, <1>7, <1>8, <1>9, <1>10 DEF IInv

(* OnLastStrongRef and the deletion it may make keep it: nobody is left to *)
(* touch the object.                                                       *)
LEMMA LastStrongKeeps ==
  ASSUME Android, FirstRefBeforeShare, IInv, NEW r \in Refs, LastStrong(r)
  PROVE  IInv'
<1> DEFINE where == "drop"
<1>1. CountsSay
  BY Bounds
<1>2. /\ where \in PC /\ Go(r, where) /\ pc[r] = "last"
      /\ pc \in [Refs -> PC]
      /\ shared
  BY <1>1 DEF LastStrong, DeleteBase, PC, IInv, TypeOK, CreatorOK, Settled,
     CountsSay
<1>3. /\ Moved(r, where, StrongPC) /\ Moved(r, where, WeakPC)
      /\ Moved(r, where, {"strong"}) /\ Moved(r, where, {"first"})
      /\ Moved(r, where, {"last"}) /\ Moved(r, where, {"lastw"})
  BY <1>2, MovesAll
<1>4. /\ CountedStrong' = CountedStrong
      /\ Cardinality(CountedStrong') = Cardinality(CountedStrong)
      /\ r \notin CountedStrong
      /\ CountedWeak' = CountedWeak
      /\ Cardinality(CountedWeak') = Cardinality(CountedWeak)
      /\ r \in CountedWeak
      /\ Cardinality(CountedWeak) = 1 <=> CountedWeak = {r}
      /\ In({"strong"})' = In({"strong"})
      /\ r \notin In({"strong"})
      /\ In({"first"})' = In({"first"})
      /\ r \notin In({"first"})
      /\ In({"last"})' = In({"last"}) \ {r}
      /\ r \in In({"last"})
      /\ In({"lastw"})' = In({"lastw"})
      /\ r \notin In({"lastw"})
  BY <1>2, <1>3 DEF Moved, CountedStrong, CountedWeak, StrongPC, WeakPC, PC, In
<1>5. TypeOK'
  BY <1>1, <1>2, <1>4 DEF LastStrong, DeleteBase, Go, IInv, TypeOK, CountsOK,
     CountsSay
<1>6. CountsOK'
  BY <1>1, <1>2, <1>4 DEF LastStrong, DeleteBase, IInv, TypeOK, CountsOK,
     CreatorOK, Offset, CountsSay
<1>7. CreatorOK'
  BY <1>1, <1>2, <1>4 DEF LastStrong, DeleteBase, Go, IInv, TypeOK, CreatorOK,
     Settled, CountsSay
<1>8. SourcesOK'
  BY <1>1, <1>2, <1>4 DEF LastStrong, DeleteBase, Go, IInv, TypeOK, CreatorOK,
     SourcesOK, CountsSay
<1>9. BaseOK'
  BY <1>1, <1>2, <1>4 DEF LastStrong, DeleteBase, IInv, TypeOK, CountsOK,
     BaseOK, ImplOK, SourcesOK, CountsSay
<1>10. ImplOK'
  BY <1>1, <1>2, <1>4 DEF LastStrong, DeleteBase, IInv, TypeOK, CountsOK,
     ImplOK, CountsSay
<1>11. QED BY <1>5, <1>6, <1>7, <1>8, <1>9, <1>10 DEF IInv

(* WeakRefType::IncWeak through CreateWeak keeps it.                       *)
LEMMA CreateWeakKeeps ==
  ASSUME Android, FirstRefBeforeShare, IInv, NEW r \in Refs, CreateWeak(r)
  PROVE  IInv'
<1> DEFINE where == "weak"
<1>1. CountsSay
  BY Bounds
<1>2. /\ where \in PC /\ Go(r, where) /\ pc[r] = "none"
      /\ pc \in [Refs -> PC]
  BY <1>1 DEF CreateWeak, From, Alone, Settled, PC, IInv, TypeOK, CreatorOK,
     Settled, CountsSay
<1>3. /\ Moved(r, where, StrongPC) /\ Moved(r, where, WeakPC)
      /\ Moved(r, where, {"strong"}) /\ Moved(r, where, {"first"})
      /\ Moved(r, where, {"last"}) /\ Moved(r, where, {"lastw"})
  BY <1>2, MovesAll
<1>4. /\ CountedStrong' = CountedStrong
      /\ Cardinality(CountedStrong') = Cardinality(CountedStrong)
      /\ r \notin CountedStrong
      /\ CountedWeak' = CountedWeak \cup {r}
      /\ Cardinality(CountedWeak') = Cardinality(CountedWeak) + 1
      /\ r \notin CountedWeak
      /\ In({"strong"})' = In({"strong"})
      /\ r \notin In({"strong"})
      /\ In({"first"})' = In({"first"})
      /\ r \notin In({"first"})
      /\ In({"last"})' = In({"last"})
      /\ r \notin In({"last"})
      /\ In({"lastw"})' = In({"lastw"})
      /\ r \notin In({"lastw"})
  BY <1>2, <1>3 DEF Moved, CountedStrong, CountedWeak, StrongPC, WeakPC, PC, In
<1>5. shared => CountedWeak # {}
  BY <1>2 DEF CreateWeak, From, Alone, Settled, IInv, SourcesOK, CreatorOK,
     Offset, CountedStrong, CountedWeak, In, StrongPC, WeakPC, PC
<1>6. TypeOK'
  BY <1>1, <1>2, <1>4, <1>5 DEF CreateWeak, From, Alone, Settled, Go, IInv,
     TypeOK, CountsOK, CountsSay
<1>7. CountsOK'
  BY <1>1, <1>2, <1>4, <1>5 DEF CreateWeak, From, Alone, Settled, IInv, TypeOK,
     CountsOK, CreatorOK, Offset, CountsSay
<1>8. CreatorOK'
  BY <1>1, <1>2, <1>4, <1>5 DEF CreateWeak, From, Alone, Settled, Go, IInv,
     TypeOK, CreatorOK, Settled, CountsSay
<1>9. SourcesOK'
  BY <1>1, <1>2, <1>4, <1>5 DEF CreateWeak, From, Alone, Settled, Go, IInv,
     TypeOK, CreatorOK, SourcesOK, CountsSay
<1>10. BaseOK'
  BY <1>1, <1>2, <1>4, <1>5 DEF CreateWeak, From, Alone, Settled, IInv, TypeOK,
     CountsOK, BaseOK, ImplOK, SourcesOK, CountsSay
<1>11. ImplOK'
  BY <1>1, <1>2, <1>4, <1>5 DEF CreateWeak, From, Alone, Settled, IInv, TypeOK,
     CountsOK, ImplOK, CountsSay
<1>12. QED BY <1>6, <1>7, <1>8, <1>9, <1>10, <1>11 DEF IInv

(* The decrement of mWeak keeps it: one caller alone sees the 1.           *)
LEMMA DecWeakKeeps ==
  ASSUME Android, FirstRefBeforeShare, IInv, NEW r \in Refs, DecWeak(r)
  PROVE  IInv'
<1> DEFINE where == IF mWeak = 1 THEN "lastw" ELSE "none"
<1>1. CountsSay
  BY Bounds
<1>2. /\ where \in PC /\ Go(r, where) /\ pc[r] \in {"weak", "drop"}
      /\ pc \in [Refs -> PC]
      /\ shared
  BY <1>1 DEF DecWeak, Idle, PC, IInv, TypeOK, CreatorOK, Settled, CountsSay
<1>3. /\ Moved(r, where, StrongPC) /\ Moved(r, where, WeakPC)
      /\ Moved(r, where, {"strong"}) /\ Moved(r, where, {"first"})
      /\ Moved(r, where, {"last"}) /\ Moved(r, where, {"lastw"})
  BY <1>2, MovesAll
<1>4. /\ CountedStrong' = CountedStrong
      /\ Cardinality(CountedStrong') = Cardinality(CountedStrong)
      /\ r \notin CountedStrong
      /\ CountedWeak' = CountedWeak \ {r}
      /\ Cardinality(CountedWeak') = Cardinality(CountedWeak) - 1
      /\ r \in CountedWeak
      /\ Cardinality(CountedWeak) = 1 <=> CountedWeak = {r}
      /\ In({"strong"})' = In({"strong"})
      /\ r \notin In({"strong"})
      /\ In({"first"})' = In({"first"})
      /\ r \notin In({"first"})
      /\ In({"last"})' = In({"last"})
      /\ r \notin In({"last"})
      /\ In({"lastw"})' = IF mWeak = 1 THEN In({"lastw"}) \cup {r}
                          ELSE In({"lastw"})
      /\ r \notin In({"lastw"})
  BY <1>2, <1>3, ZenonT(60)
     DEF Moved, CountedStrong, CountedWeak, StrongPC, WeakPC, PC, In
<1>5. TypeOK'
  BY <1>1, <1>2, <1>4 DEF DecWeak, Idle, Go, IInv, TypeOK, CountsOK, CountsSay
<1>6. CountsOK'
  BY <1>1, <1>2, <1>4 DEF DecWeak, Idle, IInv, TypeOK, CountsOK, CreatorOK,
     Offset, CountsSay
<1>7. CreatorOK'
  BY <1>1, <1>2, <1>4 DEF DecWeak, Idle, Go, IInv, TypeOK, CreatorOK, Settled,
     CountsSay
<1>8. SourcesOK'
  BY <1>1, <1>2, <1>4 DEF DecWeak, Idle, Go, IInv, TypeOK, CreatorOK,
     SourcesOK, CountsSay
<1>9. BaseOK'
  <2>1. CASE mFlags = "STRONG"
    BY <1>2, <1>4, <2>1 DEF DecWeak, IInv, BaseOK
  <2>2. CASE mFlags # "STRONG"
    <3>1. mWeak = 1 <=> CountedWeak = {r}
      BY <1>4 DEF IInv, CountsOK
    <3>2. QED BY <1>2, <1>4, <2>2, <3>1 DEF DecWeak, IInv, BaseOK
  <2>3. QED BY <2>1, <2>2
<1>10. ImplOK'
  BY <1>1, <1>2, <1>4 DEF DecWeak, Idle, IInv, TypeOK, CountsOK, ImplOK,
     CountsSay
<1>11. QED BY <1>5, <1>6, <1>7, <1>8, <1>9, <1>10 DEF IInv

(* What the last weak reference deletes keeps it: the counters go with it. *)
LEMMA LastWeakKeeps ==
  ASSUME Android, FirstRefBeforeShare, IInv, NEW r \in Refs, LastWeak(r)
  PROVE  IInv'
<1> DEFINE where == "none"
<1>1. CountsSay
  BY Bounds
<1>2. /\ where \in PC /\ Go(r, where) /\ pc[r] = "lastw"
      /\ pc \in [Refs -> PC]
      /\ shared
  BY <1>1 DEF LastWeak, DeleteBase, PC, IInv, TypeOK, CreatorOK, Settled,
     CountsSay
<1>3. /\ Moved(r, where, StrongPC) /\ Moved(r, where, WeakPC)
      /\ Moved(r, where, {"strong"}) /\ Moved(r, where, {"first"})
      /\ Moved(r, where, {"last"}) /\ Moved(r, where, {"lastw"})
  BY <1>2, MovesAll
<1>4. /\ CountedStrong' = CountedStrong
      /\ Cardinality(CountedStrong') = Cardinality(CountedStrong)
      /\ r \notin CountedStrong
      /\ CountedWeak' = CountedWeak
      /\ Cardinality(CountedWeak') = Cardinality(CountedWeak)
      /\ r \notin CountedWeak
      /\ In({"strong"})' = In({"strong"})
      /\ r \notin In({"strong"})
      /\ In({"first"})' = In({"first"})
      /\ r \notin In({"first"})
      /\ In({"last"})' = In({"last"})
      /\ r \notin In({"last"})
      /\ In({"lastw"})' = In({"lastw"}) \ {r}
      /\ r \in In({"lastw"})
  BY <1>2, <1>3 DEF Moved, CountedStrong, CountedWeak, StrongPC, WeakPC, PC, In
<1>5. TypeOK'
  BY <1>1, <1>2, <1>4 DEF LastWeak, DeleteBase, Go, IInv, TypeOK, CountsOK,
     CountsSay
<1>6. CountsOK'
  BY <1>1, <1>2, <1>4 DEF LastWeak, DeleteBase, IInv, TypeOK, CountsOK,
     CreatorOK, Offset, CountsSay
<1>7. CreatorOK'
  BY <1>1, <1>2, <1>4 DEF LastWeak, DeleteBase, Go, IInv, TypeOK, CreatorOK,
     Settled, CountsSay
<1>8. SourcesOK'
  BY <1>1, <1>2, <1>4 DEF LastWeak, DeleteBase, Go, IInv, TypeOK, CreatorOK,
     SourcesOK, CountsSay
<1>9. BaseOK'
  BY <1>1, <1>2, <1>4 DEF LastWeak, DeleteBase, IInv, TypeOK, CountsOK, BaseOK,
     ImplOK, SourcesOK, CountsSay
<1>10. ImplOK'
  BY <1>1, <1>2, <1>4 DEF LastWeak, DeleteBase, IInv, TypeOK, CountsOK, ImplOK,
     CountsSay
<1>11. QED BY <1>5, <1>6, <1>7, <1>8, <1>9, <1>10 DEF IInv

(* The start of AttemptIncStrong, which takes a weak reference, keeps it.  *)
LEMMA AttemptIncStrongKeeps ==
  ASSUME Android, FirstRefBeforeShare, IInv, NEW r \in Refs, AttemptIncStrong(r)
  PROVE  IInv'
<1> DEFINE where == "try"
<1>1. CountsSay
  BY Bounds
<1>2. /\ where \in PC /\ Go(r, where) /\ pc[r] = "none"
      /\ pc \in [Refs -> PC]
      /\ shared
  BY <1>1 DEF AttemptIncStrong, From, Alone, Settled, PC, IInv, TypeOK,
     CreatorOK, Settled, CountsSay
<1>3. /\ Moved(r, where, StrongPC) /\ Moved(r, where, WeakPC)
      /\ Moved(r, where, {"strong"}) /\ Moved(r, where, {"first"})
      /\ Moved(r, where, {"last"}) /\ Moved(r, where, {"lastw"})
  BY <1>2, MovesAll
<1>4. /\ CountedStrong' = CountedStrong
      /\ Cardinality(CountedStrong') = Cardinality(CountedStrong)
      /\ r \notin CountedStrong
      /\ CountedWeak' = CountedWeak \cup {r}
      /\ Cardinality(CountedWeak') = Cardinality(CountedWeak) + 1
      /\ r \notin CountedWeak
      /\ In({"strong"})' = In({"strong"})
      /\ r \notin In({"strong"})
      /\ In({"first"})' = In({"first"})
      /\ r \notin In({"first"})
      /\ In({"last"})' = In({"last"})
      /\ r \notin In({"last"})
      /\ In({"lastw"})' = In({"lastw"})
      /\ r \notin In({"lastw"})
  BY <1>2, <1>3 DEF Moved, CountedStrong, CountedWeak, StrongPC, WeakPC, PC, In
<1>5. CountedWeak # {}
  BY <1>2 DEF AttemptIncStrong, From, Alone, Settled, IInv, SourcesOK,
     CreatorOK, Offset, CountedStrong, CountedWeak, In, StrongPC, WeakPC, PC
<1>6. TypeOK'
  BY <1>1, <1>2, <1>4, <1>5 DEF AttemptIncStrong, From, Alone, Settled, Go,
     IInv, TypeOK, CountsOK, CountsSay
<1>7. CountsOK'
  BY <1>1, <1>2, <1>4, <1>5 DEF AttemptIncStrong, From, Alone, Settled, IInv,
     TypeOK, CountsOK, CreatorOK, Offset, CountsSay
<1>8. CreatorOK'
  BY <1>1, <1>2, <1>4, <1>5 DEF AttemptIncStrong, From, Alone, Settled, Go,
     IInv, TypeOK, CreatorOK, Settled, CountsSay
<1>9. SourcesOK'
  BY <1>1, <1>2, <1>4, <1>5 DEF AttemptIncStrong, From, Alone, Settled, Go,
     IInv, TypeOK, CreatorOK, SourcesOK, CountsSay
<1>10. BaseOK'
  BY <1>1, <1>2, <1>4, <1>5 DEF AttemptIncStrong, From, Alone, Settled, IInv,
     TypeOK, CountsOK, BaseOK, ImplOK, SourcesOK, CountsSay
<1>11. ImplOK'
  BY <1>1, <1>2, <1>4, <1>5 DEF AttemptIncStrong, From, Alone, Settled, IInv,
     TypeOK, CountsOK, ImplOK, CountsSay
<1>12. QED BY <1>6, <1>7, <1>8, <1>9, <1>10, <1>11 DEF IInv

(* The read of mStrong that a compare-and-swap is built on keeps it.       *)
LEMMA ReadStrongKeeps ==
  ASSUME Android, FirstRefBeforeShare, IInv, NEW r \in Refs, ReadStrong(r)
  PROVE  IInv'
<1> DEFINE where == IF mStrong > 0 /\ mStrong # INITIAL THEN "cas" ELSE "ask"
<1>1. CountsSay
  BY Bounds
<1>2. /\ where \in PC /\ Go(r, where) /\ pc[r] = "try"
      /\ pc \in [Refs -> PC]
      /\ shared
  BY <1>1 DEF ReadStrong, PC, IInv, TypeOK, CreatorOK, Settled, CountsSay
<1>3. /\ Moved(r, where, StrongPC) /\ Moved(r, where, WeakPC)
      /\ Moved(r, where, {"strong"}) /\ Moved(r, where, {"first"})
      /\ Moved(r, where, {"last"}) /\ Moved(r, where, {"lastw"})
  BY <1>2, MovesAll
<1>4. /\ CountedStrong' = CountedStrong
      /\ Cardinality(CountedStrong') = Cardinality(CountedStrong)
      /\ r \notin CountedStrong
      /\ CountedWeak' = CountedWeak
      /\ Cardinality(CountedWeak') = Cardinality(CountedWeak)
      /\ r \in CountedWeak
      /\ Cardinality(CountedWeak) = 1 <=> CountedWeak = {r}
      /\ In({"strong"})' = In({"strong"})
      /\ r \notin In({"strong"})
      /\ In({"first"})' = In({"first"})
      /\ r \notin In({"first"})
      /\ In({"last"})' = In({"last"})
      /\ r \notin In({"last"})
      /\ In({"lastw"})' = In({"lastw"})
      /\ r \notin In({"lastw"})
  BY <1>2, <1>3 DEF Moved, CountedStrong, CountedWeak, StrongPC, WeakPC, PC, In
<1>5. TypeOK'
  BY <1>1, <1>2, <1>4 DEF ReadStrong, Go, IInv, TypeOK, CountsOK, CountsSay
<1>6. CountsOK'
  BY <1>1, <1>2, <1>4 DEF ReadStrong, IInv, TypeOK, CountsOK, CreatorOK,
     Offset, CountsSay
<1>7. CreatorOK'
  BY <1>1, <1>2, <1>4 DEF ReadStrong, Go, IInv, TypeOK, CreatorOK, Settled,
     CountsSay
<1>8. SourcesOK'
  BY <1>1, <1>2, <1>4 DEF ReadStrong, Go, IInv, TypeOK, CreatorOK, SourcesOK,
     CountsSay
<1>9. BaseOK'
  BY <1>1, <1>2, <1>4 DEF ReadStrong, IInv, TypeOK, CountsOK, BaseOK, ImplOK,
     SourcesOK, CountsSay
<1>10. ImplOK'
  BY <1>1, <1>2, <1>4 DEF ReadStrong, IInv, TypeOK, CountsOK, ImplOK, CountsSay
<1>11. QED BY <1>5, <1>6, <1>7, <1>8, <1>9, <1>10 DEF IInv

(* The compare-and-swap of AttemptIncStrong keeps it, whether it succeeds  *)
(* or finds that mStrong has moved.                                        *)
LEMMA CasKeeps ==
  ASSUME Android, FirstRefBeforeShare, IInv, NEW r \in Refs, Cas(r)
  PROVE  IInv'
<1> DEFINE where == IF mStrong = cur[r] THEN "strong" ELSE "try"
<1>1. CountsSay
  BY Bounds
<1>2. /\ where \in PC /\ Go(r, where) /\ pc[r] = "cas"
      /\ pc \in [Refs -> PC]
      /\ shared
  BY <1>1 DEF Cas, PC, IInv, TypeOK, CreatorOK, Settled, CountsSay, Go
<1>3. /\ Moved(r, where, StrongPC) /\ Moved(r, where, WeakPC)
      /\ Moved(r, where, {"strong"}) /\ Moved(r, where, {"first"})
      /\ Moved(r, where, {"last"}) /\ Moved(r, where, {"lastw"})
  BY <1>2, MovesAll
<1>4. /\ CountedStrong' = IF mStrong = cur[r] THEN CountedStrong \cup {r}
                          ELSE CountedStrong
      /\ Cardinality(CountedStrong') = IF mStrong = cur[r]
                                       THEN Cardinality(CountedStrong) + 1
                                       ELSE Cardinality(CountedStrong)
      /\ r \notin CountedStrong
      /\ CountedWeak' = CountedWeak
      /\ Cardinality(CountedWeak') = Cardinality(CountedWeak)
      /\ r \in CountedWeak
      /\ Cardinality(CountedWeak) = 1 <=> CountedWeak = {r}
      /\ In({"strong"})' = IF mStrong = cur[r] THEN In({"strong"}) \cup {r}
                           ELSE In({"strong"})
      /\ r \notin In({"strong"})
      /\ In({"first"})' = In({"first"})
      /\ r \notin In({"first"})
      /\ In({"last"})' = In({"last"})
      /\ r \notin In({"last"})
      /\ In({"lastw"})' = In({"lastw"})
      /\ r \notin In({"lastw"})
  BY <1>2, <1>3, SMTT(30)
     DEF Moved, CountedStrong, CountedWeak, StrongPC, WeakPC, PC, In
<1>5. TypeOK'
  BY <1>1, <1>2, <1>4 DEF Cas, Go, IInv, TypeOK, CountsOK, CountsSay
<1>6. CountsOK'
  BY <1>1, <1>2, <1>4 DEF Cas, IInv, TypeOK, CountsOK, CreatorOK, Offset,
     CountsSay
<1>7. CreatorOK'
  BY <1>1, <1>2, <1>4 DEF Cas, Go, IInv, TypeOK, CreatorOK, Settled, CountsSay
<1>8. SourcesOK'
  BY <1>1, <1>2, <1>4 DEF Cas, Go, IInv, TypeOK, CreatorOK, SourcesOK,
     CountsSay
<1>9. BaseOK'
  BY <1>1, <1>2, <1>4 DEF Cas, IInv, TypeOK, CountsOK, BaseOK, ImplOK,
     SourcesOK, CountsSay
<1>10. ImplOK'
  BY <1>1, <1>2, <1>4 DEF Cas, IInv, TypeOK, CountsOK, ImplOK, CountsSay
<1>11. QED BY <1>5, <1>6, <1>7, <1>8, <1>9, <1>10 DEF IInv

(* AttemptIncStrong's decision whether to take or revive a reference keeps *)
(* it.                                                                     *)
LEMMA AskKeeps ==
  ASSUME Android, FirstRefBeforeShare, IInv, NEW r \in Refs, Ask(r)
  PROVE  IInv'
<1> DEFINE where == IF mFlags = "WEAK" /\ pc'[r] = "grab" THEN "grab"
                    ELSE "drop"
<1>1. CountsSay
  BY Bounds
<1>2. /\ where \in PC /\ Go(r, where) /\ pc[r] = "ask"
      /\ pc \in [Refs -> PC]
      /\ shared
  BY <1>1 DEF Ask, PC, IInv, TypeOK, CreatorOK, Settled, CountsSay, SourcesOK,
     Go
<1>3. /\ Moved(r, where, StrongPC) /\ Moved(r, where, WeakPC)
      /\ Moved(r, where, {"strong"}) /\ Moved(r, where, {"first"})
      /\ Moved(r, where, {"last"}) /\ Moved(r, where, {"lastw"})
  BY <1>2, MovesAll
<1>4. /\ CountedStrong' = CountedStrong
      /\ Cardinality(CountedStrong') = Cardinality(CountedStrong)
      /\ r \notin CountedStrong
      /\ CountedWeak' = CountedWeak
      /\ Cardinality(CountedWeak') = Cardinality(CountedWeak)
      /\ r \in CountedWeak
      /\ Cardinality(CountedWeak) = 1 <=> CountedWeak = {r}
      /\ In({"strong"})' = In({"strong"})
      /\ r \notin In({"strong"})
      /\ In({"first"})' = In({"first"})
      /\ r \notin In({"first"})
      /\ In({"last"})' = In({"last"})
      /\ r \notin In({"last"})
      /\ In({"lastw"})' = In({"lastw"})
      /\ r \notin In({"lastw"})
  BY <1>2, <1>3 DEF Moved, CountedStrong, CountedWeak, StrongPC, WeakPC, PC, In
<1>5. TypeOK'
  BY <1>1, <1>2, <1>4 DEF Ask, Go, IInv, TypeOK, CountsOK, CountsSay
<1>6. CountsOK'
  BY <1>1, <1>2, <1>4 DEF Ask, IInv, TypeOK, CountsOK, CreatorOK, Offset,
     CountsSay
<1>7. CreatorOK'
  BY <1>1, <1>2, <1>4 DEF Ask, Go, IInv, TypeOK, CreatorOK, Settled, CountsSay
<1>8. SourcesOK'
  BY <1>1, <1>2, <1>4 DEF Ask, Go, IInv, TypeOK, CreatorOK, SourcesOK,
     CountsSay
<1>9. BaseOK'
  BY <1>1, <1>2, <1>4 DEF Ask, IInv, TypeOK, CountsOK, BaseOK, ImplOK,
     SourcesOK, CountsSay
<1>10. ImplOK'
  BY <1>1, <1>2, <1>4 DEF Ask, IInv, TypeOK, CountsOK, ImplOK, CountsSay
<1>11. QED BY <1>5, <1>6, <1>7, <1>8, <1>9, <1>10 DEF IInv

(* Its atomic_inc, once it has decided to, keeps it.                       *)
LEMMA GrabKeeps ==
  ASSUME Android, FirstRefBeforeShare, IInv, NEW r \in Refs, Grab(r)
  PROVE  IInv'
<1> DEFINE where == "strong"
<1>1. CountsSay
  BY Bounds
<1>2. /\ where \in PC /\ Go(r, where) /\ pc[r] = "grab"
      /\ pc \in [Refs -> PC]
      /\ shared
  BY <1>1 DEF Grab, PC, IInv, TypeOK, CreatorOK, Settled, CountsSay
<1>3. /\ Moved(r, where, StrongPC) /\ Moved(r, where, WeakPC)
      /\ Moved(r, where, {"strong"}) /\ Moved(r, where, {"first"})
      /\ Moved(r, where, {"last"}) /\ Moved(r, where, {"lastw"})
  BY <1>2, MovesAll
<1>4. /\ CountedStrong' = CountedStrong \cup {r}
      /\ Cardinality(CountedStrong') = Cardinality(CountedStrong) + 1
      /\ r \notin CountedStrong
      /\ CountedWeak' = CountedWeak
      /\ Cardinality(CountedWeak') = Cardinality(CountedWeak)
      /\ r \in CountedWeak
      /\ Cardinality(CountedWeak) = 1 <=> CountedWeak = {r}
      /\ In({"strong"})' = In({"strong"}) \cup {r}
      /\ r \notin In({"strong"})
      /\ In({"first"})' = In({"first"})
      /\ r \notin In({"first"})
      /\ In({"last"})' = In({"last"})
      /\ r \notin In({"last"})
      /\ In({"lastw"})' = In({"lastw"})
      /\ r \notin In({"lastw"})
  BY <1>2, <1>3 DEF Moved, CountedStrong, CountedWeak, StrongPC, WeakPC, PC, In
<1>5. TypeOK'
  BY <1>1, <1>2, <1>4 DEF Grab, Go, IInv, TypeOK, CountsOK, CountsSay
<1>6. CountsOK'
  BY <1>1, <1>2, <1>4 DEF Grab, IInv, TypeOK, CountsOK, CreatorOK, Offset,
     CountsSay
<1>7. CreatorOK'
  BY <1>1, <1>2, <1>4 DEF Grab, Go, IInv, TypeOK, CreatorOK, Settled, CountsSay
<1>8. SourcesOK'
  BY <1>1, <1>2, <1>4 DEF Grab, Go, IInv, TypeOK, CreatorOK, SourcesOK,
     CountsSay
<1>9. BaseOK'
  BY <1>1, <1>2, <1>4 DEF Grab, IInv, TypeOK, CountsOK, BaseOK, ImplOK,
     SourcesOK, CountsSay
<1>10. ImplOK'
  BY <1>1, <1>2, <1>4 DEF Grab, IInv, TypeOK, CountsOK, ImplOK, CountsSay
<1>11. QED BY <1>5, <1>6, <1>7, <1>8, <1>9, <1>10 DEF IInv

(* Every step of any reference, and of the creator, keeps the invariant.   *)
LEMMA NextKeeps ==
  ASSUME Android, FirstRefBeforeShare, IInv, [Next]_vars
  PROVE  IInv'
<1>1. ASSUME NEW r \in Refs, Step(r) PROVE IInv'
  BY <1>1, IncStrongWeakKeeps, IncStrongKeeps, FirstRefKeeps, DecStrongKeeps,
     LastStrongKeeps, CreateWeakKeeps, DecWeakKeeps, LastWeakKeeps,
     AttemptIncStrongKeeps, ReadStrongKeeps, CasKeeps, AskKeeps, GrabKeeps
     DEF Step
<1>2. ASSUME ExtendObjectLifetime PROVE IInv'
  <2>1. /\ TypeOK' /\ CountsOK' /\ CreatorOK' /\ SourcesOK'
    BY <1>2 DEF ExtendObjectLifetime, Alone, IInv, TypeOK, CountsOK, CreatorOK,
       SourcesOK, Settled, In, CountedStrong, CountedWeak, Offset
  <2>2. BaseOK' /\ ImplOK'
    BY <1>2 DEF ExtendObjectLifetime, Alone, IInv, BaseOK, ImplOK, In,
       CountedStrong, CountedWeak
  <2>3. QED BY <2>1, <2>2 DEF IInv
<1>3. ASSUME Share PROVE IInv'
  <2>1. In({"strong"}) # {} /\ CountedStrong # {} /\ CountedWeak # {}
    BY <1>3 DEF Share, In, CountedStrong, CountedWeak, StrongPC, WeakPC, PC
  <2>2. /\ ~shared /\ base = 0 /\ impl = 0
        /\ In({"first"}) = {} /\ In({"last"}) = {} /\ In({"lastw"}) = {}
        /\ \A r \in Refs : pc[r] \in Settled
    BY <1>3 DEF Share, Alone, IInv, CreatorOK, Settled, In
  <2>3. /\ UNCHANGED <<mStrong, mWeak, mFlags, base, impl, pc, cur>> /\ shared'
        /\ CountedStrong' = CountedStrong /\ CountedWeak' = CountedWeak
        /\ \A S : In(S)' = In(S)
    BY <1>3 DEF Share, In, CountedStrong, CountedWeak
  <2>4. TypeOK' /\ CreatorOK' /\ SourcesOK'
    BY <1>3, <2>2, <2>3 DEF Share, IInv, TypeOK, CreatorOK, SourcesOK, Settled
  <2>5. CountsOK'
    BY <2>1, <2>3 DEF IInv, CountsOK, Offset
  <2>6. BaseOK' /\ ImplOK'
    BY <2>1, <2>2, <2>3 DEF IInv, TypeOK, BaseOK, ImplOK
  <2>7. QED BY <2>4, <2>5, <2>6 DEF IInv
<1>4. ASSUME UNCHANGED vars PROVE IInv'
  BY <1>4 DEF vars, IInv, TypeOK, CountsOK, CreatorOK, SourcesOK, BaseOK,
     ImplOK,
     In, CountedStrong, CountedWeak, Offset
<1>5. QED BY <1>1, <1>2, <1>3, <1>4 DEF Next, Over

(* A new object satisfies the invariant.                                   *)
LEMMA InitIInv == Init => IInv
<1>1. SUFFICES ASSUME Init PROVE IInv
  OBVIOUS
<1>2. \A S : "none" \notin S => In(S) = {}
  BY <1>1 DEF Init, In
<1>3. /\ CountedStrong = {} /\ CountedWeak = {} /\ In({"strong"}) = {}
      /\ In({"first"}) = {} /\ In({"lastw"}) = {}
  BY <1>2 DEF CountedStrong, CountedWeak, StrongPC, WeakPC
<1>4. Cardinality({}) = 0
  BY FS_EmptySet
<1>5. TypeOK
  <2>1. /\ pc \in [Refs -> PC] /\ src \in [Refs -> SUBSET Refs]
        /\ cur \in [Refs -> Int]
    BY <1>1 DEF Init, PC
  <2>2. shared \in BOOLEAN BY <1>1 DEF Init
  <2>3. QED BY <1>1, <2>1, <2>2, RefsAssumption DEF Init, TypeOK
<1>6. CountsOK
  BY <1>1, <1>3, <1>4, RefsAssumption DEF Init, CountsOK, Offset
<1>7. CreatorOK /\ SourcesOK /\ BaseOK /\ ImplOK
  BY <1>1, <1>3 DEF Init, CreatorOK, SourcesOK, BaseOK, ImplOK, Settled
<1>8. QED BY <1>5, <1>6, <1>7 DEF IInv

(* The counts of every object whose creator takes the first strong         *)
(* reference are, in every build where atomic_add works, what they claim   *)
(* to be: the numbers of references, whose last holders delete.            *)
THEOREM CountsInvariant ==
  ASSUME Android, FirstRefBeforeShare
  PROVE  Spec => []IInv
<1>1. Init => IInv BY InitIInv
<1>2. IInv /\ [Next]_vars => IInv' BY NextKeeps
<1>3. QED BY <1>1, <1>2, PTL DEF Spec

(* What the invariant promises to whoever uses the object.                 *)
LEMMA IInvSuffices ==
  ASSUME IInv, FirstRefBeforeShare
  PROVE  StrongIsLive /\ RefsOutliveUse /\ DeletedOnce /\ NothingLeaks
         /\ GoneWithLastStrong
<1>1. CountsSay BY Bounds
<1>2. StrongIsLive
  BY <1>1 DEF StrongIsLive, CountsSay, IInv, TypeOK, CreatorOK, BaseOK
<1>3. RefsOutliveUse
  BY DEF RefsOutliveUse, IInv, TypeOK, CreatorOK, ImplOK, In, CountedWeak,
     WeakPC
<1>4. DeletedOnce
  BY DEF DeletedOnce, IInv, TypeOK, CreatorOK, BaseOK, ImplOK
<1>5. NothingLeaks
  <2>1. SUFFICES ASSUME shared, \A r \in Refs : pc[r] = "none"
                 PROVE  base = 1 /\ impl = 1
    BY DEF NothingLeaks
  <2>2. /\ CountedStrong = {} /\ CountedWeak = {}
        /\ In({"last"}) = {} /\ In({"lastw"}) = {}
    BY <2>1 DEF In, CountedStrong, CountedWeak, StrongPC, WeakPC
  <2>3. QED BY <2>1, <2>2 DEF IInv, TypeOK, BaseOK, ImplOK
<1>6. GoneWithLastStrong
  <2>1. SUFFICES ASSUME shared, mFlags = "STRONG",
                        \A r \in Refs : pc[r] \in {"none", "weak"}
                 PROVE  base = 1
    BY DEF GoneWithLastStrong
  <2>2. CountedStrong = {} /\ In({"last"}) = {}
    BY <2>1 DEF In, CountedStrong, StrongPC
  <2>3. QED BY <2>1, <2>2 DEF IInv, BaseOK
<1>7. QED BY <1>2, <1>3, <1>4, <1>5, <1>6

(* However the calls of any number of references interleave, a strong      *)
(* reference is to a live object, if atomic_add works and the creator      *)
(* takes the first strong reference before it shares the object.  Without  *)
(* the latter the slow path of AttemptIncStrong (elrefbase.cpp:443-449 and *)
(* 463) may revive an object that was deleted.                             *)
THEOREM StrongAlwaysLive ==
  ASSUME Android, FirstRefBeforeShare
  PROVE  Spec => []StrongIsLive
<1>1. IInv => StrongIsLive BY IInvSuffices
<1>2. QED BY <1>1, CountsInvariant, PTL

(* The WeakRefImpl outlives every call made through it, under the same two *)
(* assumptions.                                                            *)
THEOREM RefsAlwaysOutliveUse ==
  ASSUME Android, FirstRefBeforeShare
  PROVE  Spec => []RefsOutliveUse
<1>1. IInv => RefsOutliveUse BY IInvSuffices
<1>2. QED BY <1>1, CountsInvariant, PTL

(* Nothing is deleted twice, and with the regular lifetime the object goes *)
(* with its last strong reference, under the same two assumptions: two     *)
(* first attempts on an object nobody holds may delete it twice.           *)
THEOREM DeletedExactlyOnce ==
  ASSUME Android, FirstRefBeforeShare
  PROVE  Spec => [](DeletedOnce /\ GoneWithLastStrong)
<1>1. IInv => DeletedOnce /\ GoneWithLastStrong
  BY IInvSuffices
<1>2. QED BY <1>1, CountsInvariant, PTL

(* When the last reference of either kind is gone, so are the object and   *)
(* its WeakRefImpl, under the same two assumptions.                        *)
THEOREM NeverLeaksObject ==
  ASSUME Android, FirstRefBeforeShare
  PROVE  Spec => []NothingLeaks
<1>1. IInv => NothingLeaks BY IInvSuffices
<1>2. QED BY <1>1, CountsInvariant, PTL

-----------------------------------------------------------------------------
(***************************************************************************)
(* The counts implement ElObject.  A reference is in ElObject's refs while *)
(* it is not "none", and in its strong while it is counted in mStrong.     *)
(***************************************************************************)
InUse == Refs \ In({"none"})

(* What a step of reference r does to ElObject's two sets of references.   *)
Shown(r, where) ==
  /\ CountedStrong' = IF where \in StrongPC THEN CountedStrong \cup {r}
                      ELSE CountedStrong \ {r}
  /\ InUse' = IF where = "none" THEN InUse \ {r} ELSE InUse \cup {r}
  /\ r \in CountedStrong <=> pc[r] \in StrongPC
  /\ r \in InUse <=> pc[r] # "none"

(* A step moves one reference, so only that one enters or leaves them.     *)
LEMMA Shows ==
  ASSUME IInv, NEW r \in Refs, NEW where \in PC, Go(r, where)
  PROVE  Shown(r, where)
BY DEF Shown, IInv, TypeOK, Go, In, InUse, CountedStrong

(* A step that leaves both sets, the object and its counts alone is a      *)
(* stuttering step of ElObject.                                            *)
LEMMA Stutters ==
  ASSUME CountedStrong' = CountedStrong, InUse' = InUse,
         base' = base, impl' = impl
  PROVE  [Object!Next]_(Object!vars)
BY DEF Object!vars, InUse

(* The first call of IncStrong, CreateWeak and AttemptIncStrong bring a    *)
(* reference into use while somebody keeps the counts alive.               *)
LEMMA Refers ==
  ASSUME IInv, NEW r \in Refs, pc[r] = "none", impl = 0,
         NEW where \in {"inc", "weak", "try"}, Go(r, where),
         UNCHANGED <<base, impl>>
  PROVE  [Object!Next]_(Object!vars)
<1>1. where \in PC /\ where \notin StrongPC /\ where # "none"
  BY DEF PC, StrongPC
<1>2. Shown(r, where) BY <1>1, Shows
<1>3. Object!Refer(r)
  BY <1>1, <1>2 DEF Shown, Object!Refer, InUse, StrongPC
<1>4. QED BY <1>3 DEF Object!Next

(* IncStrong, and an attempt that succeeds, take hold of a live object.    *)
LEMMA Holds ==
  ASSUME IInv, NEW r \in Refs, pc[r] \in {"inc", "cas", "grab"}, base = 0,
         NEW where \in StrongPC, Go(r, where), UNCHANGED <<base, impl>>
  PROVE  [Object!Next]_(Object!vars)
<1>1. where \in PC /\ where # "none"
  BY DEF PC, StrongPC
<1>2. Shown(r, where) BY <1>1, Shows
<1>3. Object!Hold(r)
  BY <1>1, <1>2 DEF Shown, Object!Hold, InUse, StrongPC
<1>4. QED BY <1>3 DEF Object!Next

(* A step of the creator's, or between two references, finds the counts:   *)
(* whoever holds the object weakly or strongly keeps them.                 *)
LEMMA CountsThere ==
  ASSUME IInv, Alone \/ \E s \in Refs : pc[s] \in {"weak", "strong"}
  PROVE  impl = 0
<1>1. CASE ~shared BY <1>1 DEF IInv, CreatorOK
<1>2. CASE shared
  <2>1. PICK s \in Refs : pc[s] \in {"weak", "strong"} BY <1>2 DEF Alone
  <2>2. s \in CountedWeak BY <2>1 DEF CountedWeak, In, WeakPC, PC
  <2>3. QED BY <1>2, <2>2 DEF IInv, ImplOK
<1>3. QED BY <1>1, <1>2 DEF IInv, TypeOK

(* Each step of one reference is a step of ElObject or changes nothing     *)
(* that its users see.                                                     *)
LEMMA StepShows ==
  ASSUME Android, FirstRefBeforeShare, IInv, NEW r \in Refs, Step(r)
  PROVE  [Object!Next]_(Object!vars)
<1> USE DEF Step
<1>a. CountsSay BY Bounds
<1>b. pc \in [Refs -> PC] BY DEF IInv, TypeOK
<1>c. StrongIsLive BY IInvSuffices
<1>1. CASE IncStrongWeak(r)
  <2>1. impl = 0
    BY <1>1, CountsThere DEF IncStrongWeak, From
  <2>2. QED BY <1>1, <2>1, Refers DEF IncStrongWeak
<1>2. CASE IncStrong(r)
  <2>1. base = 0
    <3>1. CASE ~shared BY <3>1 DEF IInv, CreatorOK
    <3>2. CASE shared
      <4>1. PICK s \in Refs : pc[s] = "strong"
        BY <1>2, <3>2 DEF IncStrong, IInv, SourcesOK
      <4>2. s \in CountedStrong BY <4>1 DEF CountedStrong, In, StrongPC
      <4>3. QED BY <1>c, <4>2 DEF StrongIsLive
    <3>3. QED BY <3>1, <3>2 DEF IInv, TypeOK
  <2>2. PICK w : w = IF mStrong = INITIAL THEN "first" ELSE "strong" OBVIOUS
  <2>3. w \in StrongPC /\ Go(r, w)
    BY <1>2, <2>2 DEF IncStrong, StrongPC
  <2>4. QED BY <1>2, <2>1, <2>3, Holds DEF IncStrong
<1>3. CASE FirstRef(r)
  <2>1. Shown(r, "strong") BY <1>3, Shows DEF FirstRef, PC
  <2>2. CountedStrong' = CountedStrong /\ InUse' = InUse
    BY <1>3, <2>1 DEF Shown, FirstRef, StrongPC
  <2>3. QED BY <1>3, <2>2, Stutters DEF FirstRef
<1>4. CASE DecStrong(r)
  <2>1. PICK w : w = IF mStrong = 1 THEN "last" ELSE "drop" OBVIOUS
  <2>2. Shown(r, w) BY <1>4, <2>1, Shows DEF DecStrong, PC
  <2>3. w \notin StrongPC /\ w # "none" BY <2>1 DEF StrongPC
  <2>4. Object!LetGo(r)
    BY <1>4, <2>2, <2>3 DEF Shown, DecStrong, Object!LetGo, InUse, StrongPC
  <2>5. QED BY <2>4 DEF Object!Next
<1>5. CASE LastStrong(r)
  <2>1. Shown(r, "drop") BY <1>5, Shows DEF LastStrong, PC
  <2>2. CountedStrong' = CountedStrong /\ InUse' = InUse
    BY <1>5, <2>1 DEF Shown, LastStrong, StrongPC
  <2>3. r \in In({"last"}) BY <1>5 DEF LastStrong, In
  <2>4. shared BY <1>5 DEF LastStrong, IInv, CreatorOK, Settled
  <2>5. CASE mFlags = "STRONG"
    <3>1. CountedStrong = {} /\ base = 0
      BY <2>3, <2>4, <2>5 DEF IInv, BaseOK
    <3>2. base' = 1 /\ impl' = impl
      BY <1>5, <1>a, <2>4, <2>5, <3>1
         DEF LastStrong, DeleteBase, CountsSay
    <3>3. Object!Destroy
      BY <2>2, <3>1, <3>2 DEF Object!Destroy, InUse
    <3>4. QED BY <3>3 DEF Object!Next
  <2>6. CASE mFlags # "STRONG"
    BY <1>5, <2>2, <2>6, Stutters DEF LastStrong
  <2>7. QED BY <2>5, <2>6
<1>6. CASE CreateWeak(r)
  <2>1. impl = 0 BY <1>6, CountsThere DEF CreateWeak, From
  <2>2. QED BY <1>6, <2>1, Refers DEF CreateWeak
<1>7. CASE DecWeak(r)
  <2>1. CASE mWeak = 1
    <3>1. Shown(r, "lastw") BY <1>7, <2>1, Shows DEF DecWeak, PC
    <3>2. CountedStrong' = CountedStrong /\ InUse' = InUse
      BY <1>7, <3>1 DEF Shown, DecWeak, StrongPC
    <3>3. QED BY <1>7, <3>2, Stutters DEF DecWeak
  <2>2. CASE mWeak # 1
    <3>1. Shown(r, "none") BY <1>7, <2>2, Shows DEF DecWeak, PC
    <3>2. r \in InUse \ CountedStrong
      BY <1>7, <3>1 DEF Shown, DecWeak, StrongPC
    <3>3. CountedWeak # {r}
      <4>1. Cardinality({r}) = 1 BY FS_Singleton
      <4>2. QED BY <2>2, <4>1 DEF IInv, CountsOK
    <3>4. r \in CountedWeak
      BY <1>7 DEF DecWeak, CountedWeak, In, WeakPC, PC
    <3>5. CountedWeak \subseteq InUse
      BY DEF CountedWeak, In, WeakPC, InUse
    <3>6. Object!Leave(r)
      BY <1>7, <3>1, <3>2, <3>3, <3>4, <3>5
         DEF Shown, DecWeak, Object!Leave, InUse, StrongPC
    <3>7. QED BY <3>6 DEF Object!Next
  <2>3. QED BY <2>1, <2>2
<1>8. CASE LastWeak(r)
  <2>1. Shown(r, "none") BY <1>8, Shows DEF LastWeak, PC
  <2>2. r \in In({"lastw"}) BY <1>8 DEF LastWeak, In
  <2>3. shared BY <1>8 DEF LastWeak, IInv, CreatorOK, Settled
  <2>4. CountedWeak = {} /\ impl = 0 /\ mWeak = 0
    BY <1>a, <2>2, <2>3 DEF IInv, ImplOK, CountsOK, CountsSay
  <2>5. InUse = {r}
    BY <1>b, <2>2, <2>4 DEF InUse, In, CountedWeak, WeakPC, IInv, ImplOK
  <2>6. CountedStrong = {} /\ In({"last"}) = {}
    BY <2>4 DEF CountedStrong, CountedWeak, In, StrongPC, WeakPC, PC
  <2>7. mStrong # INITIAL
    BY <1>a, <2>3 DEF CountsSay
  <2>8. base' = 1 /\ impl' = 1
    BY <1>8, <2>2, <2>3, <2>4, <2>6, <2>7
       DEF LastWeak, DeleteBase, IInv, TypeOK, BaseOK
  <2>9. Object!LeaveLast(r)
    BY <1>8, <2>1, <2>4, <2>5, <2>6, <2>8
       DEF Shown, Object!LeaveLast, InUse, StrongPC
  <2>10. QED BY <2>9 DEF Object!Next
<1>9. CASE AttemptIncStrong(r)
  <2>1. impl = 0 BY <1>9, CountsThere DEF AttemptIncStrong, From
  <2>2. QED BY <1>9, <2>1, Refers DEF AttemptIncStrong
<1>10. CASE ReadStrong(r)
  <2>1. PICK w : w = IF mStrong > 0 /\ mStrong # INITIAL THEN "cas" ELSE "ask"
    OBVIOUS
  <2>2. Shown(r, w) BY <1>10, <2>1, Shows DEF ReadStrong, PC
  <2>3. CountedStrong' = CountedStrong /\ InUse' = InUse
    BY <1>10, <2>1, <2>2 DEF Shown, ReadStrong, StrongPC
  <2>4. QED BY <1>10, <2>3, Stutters DEF ReadStrong
<1>11. CASE Cas(r)
  <2>1. CASE mStrong = cur[r]
    <3>1. mStrong > 0 /\ shared
      BY <1>11, <2>1 DEF Cas, IInv, SourcesOK, CreatorOK, Settled
    <3>2. base = 0
      BY <1>a, <1>c, <3>1 DEF CountsSay, StrongIsLive
    <3>3. QED BY <1>11, <2>1, <3>2, Holds DEF Cas, StrongPC
  <2>2. CASE mStrong # cur[r]
    <3>1. Shown(r, "try") BY <1>11, <2>2, Shows DEF Cas, PC
    <3>2. CountedStrong' = CountedStrong /\ InUse' = InUse
      BY <1>11, <3>1 DEF Shown, Cas, StrongPC
    <3>3. QED BY <1>11, <3>2, Stutters DEF Cas
  <2>3. QED BY <2>1, <2>2
<1>12. CASE Ask(r)
  <2>1. PICK w \in {"grab", "drop"} : Go(r, w) BY <1>12 DEF Ask
  <2>2. Shown(r, w) BY <2>1, Shows DEF PC
  <2>3. CountedStrong' = CountedStrong /\ InUse' = InUse
    BY <1>12, <2>1, <2>2 DEF Shown, Ask, StrongPC
  <2>4. QED BY <1>12, <2>3, Stutters DEF Ask
<1>13. CASE Grab(r)
  <2>1. mFlags = "WEAK" /\ shared
    BY <1>13 DEF Grab, IInv, SourcesOK, CreatorOK, Settled
  <2>2. r \in CountedWeak BY <1>13 DEF Grab, CountedWeak, In, WeakPC, PC
  <2>3. base = 0 BY <2>1, <2>2 DEF IInv, BaseOK
  <2>4. PICK w : w = IF mStrong = INITIAL THEN "first" ELSE "strong" OBVIOUS
  <2>5. w \in StrongPC /\ Go(r, w)
    BY <1>13, <2>4 DEF Grab, StrongPC
  <2>6. QED BY <1>13, <2>3, <2>5, Holds DEF Grab
<1>14. QED
  BY <1>1, <1>2, <1>3, <1>4, <1>5, <1>6, <1>7, <1>8, <1>9, <1>10, <1>11,
     <1>12, <1>13

(* The counts implement the object's promise, for any number of            *)
(* references: it lives while it is held, is destroyed once, never         *)
(* revived, and its counts stay as long as anybody uses a reference.  Both *)
(* assumptions are needed: an object that is shared before its first       *)
(* strong reference can be revived.                                        *)
THEOREM CountsImplementObject ==
  ASSUME Android, FirstRefBeforeShare
  PROVE  Spec => ImplementsObject
<1>1. Init => Object!Init
  BY DEF Init, Object!Init, CountedStrong, In, StrongPC
<1>2. IInv /\ [Next]_vars => [Object!Next]_(Object!vars)
  <2> SUFFICES ASSUME IInv, [Next]_vars PROVE [Object!Next]_(Object!vars)
    OBVIOUS
  <2>1. CASE \E r \in Refs : Step(r) BY <2>1, StepShows
  <2>2. CASE pc' = pc /\ base' = base /\ impl' = impl
    <3>1. CountedStrong' = CountedStrong /\ InUse' = InUse
      BY <2>2 DEF CountedStrong, InUse, In
    <3>2. QED BY <2>2, <3>1, Stutters
  <2>3. QED
    BY <2>1, <2>2 DEF Next, vars, ExtendObjectLifetime, Share, Over
<1>3. QED
  BY <1>1, <1>2, CountsInvariant, PTL DEF Spec, ImplementsObject, Object!Spec
=============================================================================
