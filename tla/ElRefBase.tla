------------------------------ MODULE ElRefBase ------------------------------
(***************************************************************************)
(* The reference counts of one Elastos object: ElRefBase, with its         *)
(* WeakRefImpl (elrefbase.cpp), over the atomic operations of              *)
(* elaatomics.cpp.                                                         *)
(*                                                                         *)
(* An actor is a reference: a variable that holds the object strongly or   *)
(* weakly, and is filled and emptied by whatever thread owns it.  The      *)
(* steps of different references interleave between any two atomic         *)
(* operations.  A reference is filled from another one that stays put      *)
(* meanwhile (src), or, before the object is shared, by its creator, who   *)
(* works alone with the bare pointer.                                      *)
(***************************************************************************)
EXTENDS Integers, FiniteSets

CONSTANTS
  Refs,                 \* the references that ever hold the object
  INITIAL,              \* INITIAL_STRONG_VALUE, 1 << 28 in the code
  Android,              \* built with _android: atomic_add, atomic_or work
  FirstRefBeforeShare   \* the creator hands out the object held strongly

ASSUME RefsAssumption ==
  /\ IsFiniteSet(Refs)
  /\ INITIAL \in Nat /\ Cardinality(Refs) < INITIAL
  /\ Android \in BOOLEAN
  /\ FirstRefBeforeShare \in BOOLEAN

VARIABLES
  mStrong, mWeak,  \* WeakRefImpl's counts
  mFlags,          \* its lifetime: "STRONG" or "WEAK"
  base, impl,      \* how often the object and its WeakRefImpl were deleted
  pc,              \* pc[r]: where reference r is
  src,             \* src[r]: the reference r is being filled from
  cur,             \* cur[r]: AttemptIncStrong's curCount
  shared           \* the object has left its creator's hands

vars == <<mStrong, mWeak, mFlags, base, impl, pc, src, cur, shared>>

(***************************************************************************)
(* none      holds nothing              inc    IncStrong counted the weak  *)
(* weak      holds weakly                      reference                   *)
(* strong    holds strongly             first  it found INITIAL_STRONG_    *)
(* try, cas  AttemptIncStrong's loop           VALUE, and will remove it   *)
(* ask, grab its slow path              last   DecStrong counted to zero   *)
(* drop      DecWeak to come            lastw  DecWeak counted to zero     *)
(***************************************************************************)
PC == {"none", "weak", "strong", "inc", "first", "try", "cas", "ask", "grab",
       "last", "drop", "lastw"}

Settled == {"none", "weak", "strong"}

Init ==
  /\ mStrong = INITIAL
  /\ mWeak = 0
  /\ mFlags = "STRONG"
  /\ base = 0 /\ impl = 0
  /\ pc = [r \in Refs |-> "none"]
  /\ src = [r \in Refs |-> {}]
  /\ cur = [r \in Refs |-> 0]
  /\ shared = FALSE

(* The creator does one thing at a time.                                   *)
Alone == ~shared /\ \A r \in Refs : pc[r] \in Settled

(* What r may be filled from: a reference in one of the states S.          *)
From(S, from) ==
  \/ Alone /\ from = {}
  \/ shared /\ \E s \in Refs : pc[s] \in S /\ from = {s}

(* Nobody is being filled from r, so its owner may empty it.               *)
Idle(r) == shared /\ \A q \in Refs : r \notin src[q]

Go(r, where) == pc' = [pc EXCEPT ![r] = where]

-----------------------------------------------------------------------------
(* ~ElRefBase, as "delete" runs it.                                        *)
DeleteBase(weak) ==
  /\ base' = base + 1
  /\ impl' = IF mStrong = INITIAL \/ (mFlags = "WEAK" /\ weak = 0)
             THEN impl + 1 ELSE impl

(* IncWeak, the first call of IncStrong.                                   *)
IncStrongWeak(r) ==
  /\ pc[r] = "none"
  /\ \E from \in SUBSET Refs :
       From({"strong"}, from) /\ src' = [src EXCEPT ![r] = from]
  /\ mWeak' = mWeak + 1
  /\ Go(r, "inc")
  /\ UNCHANGED <<mStrong, mFlags, base, impl, cur, shared>>

IncStrong(r) ==
  /\ pc[r] = "inc"
  /\ mStrong' = mStrong + 1
  /\ Go(r, IF mStrong = INITIAL THEN "first" ELSE "strong")
  /\ src' = [src EXCEPT ![r] = {}]
  /\ UNCHANGED <<mWeak, mFlags, base, impl, cur, shared>>

(* atomic_add: without _android it does nothing.                           *)
Add(n, x) == IF Android THEN x + n ELSE x

(* atomic_add and OnFirstRef, in IncStrong and AttemptIncStrong.           *)
FirstRef(r) ==
  /\ pc[r] = "first"
  /\ mStrong' = Add(-INITIAL, mStrong)
  /\ Go(r, "strong")
  /\ UNCHANGED <<mWeak, mFlags, base, impl, src, cur, shared>>

Mut_DecStrong(r) ==
  /\ pc[r] = "strong" /\ Idle(r)
  /\ mStrong' = mStrong - 1
  /\ Go(r, IF mStrong = 0 THEN "last" ELSE "drop")
  /\ UNCHANGED <<mWeak, mFlags, base, impl, src, cur, shared>>

Mut_DecStrongTwice(r) ==
  /\ pc[r] = "strong" /\ Idle(r)
  /\ mStrong' = mStrong - 1
  /\ Go(r, IF mStrong <= 2 THEN "last" ELSE "drop")
  /\ UNCHANGED <<mWeak, mFlags, base, impl, src, cur, shared>>

DecStrong(r) ==
  /\ pc[r] = "strong" /\ Idle(r)
  /\ mStrong' = mStrong - 1
  /\ Go(r, IF mStrong = 1 THEN "last" ELSE "drop")
  /\ UNCHANGED <<mWeak, mFlags, base, impl, src, cur, shared>>

Mut_LastStrong(r) ==
  /\ pc[r] = "last"
  /\ base' = base + 1 /\ impl' = impl + 1
  /\ Go(r, "drop")
  /\ UNCHANGED <<mStrong, mWeak, mFlags, src, cur, shared>>

(* OnLastStrongRef, and "delete this" unless the lifetime is extended.     *)
LastStrong(r) ==
  /\ pc[r] = "last"
  /\ IF mFlags = "STRONG" THEN DeleteBase(mWeak) ELSE UNCHANGED <<base, impl>>
  /\ Go(r, "drop")
  /\ UNCHANGED <<mStrong, mWeak, mFlags, src, cur, shared>>

(* CreateWeak, or a copy of a weak reference: IncWeak.                     *)
CreateWeak(r) ==
  /\ pc[r] = "none"
  /\ \E from \in SUBSET Refs : From({"weak", "strong"}, from)
  /\ mWeak' = mWeak + 1
  /\ Go(r, "weak")
  /\ UNCHANGED <<mStrong, mFlags, base, impl, src, cur, shared>>

(* DecWeak: of a weak reference, of a strong one, of a failed attempt.     *)
DecWeak(r) ==
  /\ \/ pc[r] = "weak" /\ Idle(r)
     \/ pc[r] = "drop"
  /\ mWeak' = mWeak - 1
  /\ Go(r, IF mWeak = 1 THEN "lastw" ELSE "none")
  /\ src' = [src EXCEPT ![r] = {}]
  /\ UNCHANGED <<mStrong, mFlags, base, impl, cur, shared>>

Mut_LastWeak(r) ==
  /\ pc[r] = "lastw"
  /\ IF mFlags = "STRONG" THEN impl' = impl + 1 /\ base' = base
     ELSE UNCHANGED <<base, impl>>
  /\ Go(r, "none")
  /\ UNCHANGED <<mStrong, mWeak, mFlags, src, cur, shared>>

LastWeak(r) ==
  /\ pc[r] = "lastw"
  /\ IF mFlags = "STRONG" /\ mStrong # INITIAL
     THEN impl' = impl + 1 /\ base' = base
     ELSE DeleteBase(mWeak)
  /\ Go(r, "none")
  /\ UNCHANGED <<mStrong, mWeak, mFlags, src, cur, shared>>

-----------------------------------------------------------------------------
Mut_AttemptIncStrong(r) ==
  /\ pc[r] = "none" /\ shared
  /\ \E from \in SUBSET Refs :
       From({"weak"}, from) /\ src' = [src EXCEPT ![r] = from]
  /\ Go(r, "try")
  /\ UNCHANGED <<mStrong, mWeak, mFlags, base, impl, cur, shared>>

(* AttemptIncStrong, on a weak reference.  IncWeak comes first.            *)
AttemptIncStrong(r) ==
  /\ pc[r] = "none" /\ shared
  /\ \E from \in SUBSET Refs :
       From({"weak"}, from) /\ src' = [src EXCEPT ![r] = from]
  /\ mWeak' = mWeak + 1
  /\ Go(r, "try")
  /\ UNCHANGED <<mStrong, mFlags, base, impl, cur, shared>>

(* curCount = impl->mStrong, and the loop's condition.                     *)
ReadStrong(r) ==
  /\ pc[r] = "try"
  /\ cur' = [cur EXCEPT ![r] = mStrong]
  /\ Go(r, IF mStrong > 0 /\ mStrong # INITIAL THEN "cas" ELSE "ask")
  /\ UNCHANGED <<mStrong, mWeak, mFlags, base, impl, src, shared>>

(* atomic_cmpxchg.                                                         *)
Cas(r) ==
  /\ pc[r] = "cas"
  /\ IF mStrong = cur[r]
     THEN /\ mStrong' = mStrong + 1
          /\ src' = [src EXCEPT ![r] = {}]
          /\ Go(r, "strong")
     ELSE Go(r, "try") /\ UNCHANGED <<mStrong, src>>
  /\ UNCHANGED <<mWeak, mFlags, base, impl, cur, shared>>

Mut_Ask(r) ==
  /\ pc[r] = "ask"
  /\ Go(r, "grab")
  /\ UNCHANGED <<mStrong, mWeak, mFlags, base, impl, src, cur, shared>>

(* Whether to take a first reference, or to revive the object: a lifetime  *)
(* that is extended leaves it to OnIncStrongAttempted, which a class may   *)
(* override.                                                               *)
Ask(r) ==
  /\ pc[r] = "ask"
  /\ \E allowed \in BOOLEAN :
       LET allow == IF cur[r] = INITIAL THEN mFlags # "WEAK" \/ allowed
                    ELSE mFlags = "WEAK" /\ allowed
       IN  Go(r, IF allow THEN "grab" ELSE "drop")
  /\ UNCHANGED <<mStrong, mWeak, mFlags, base, impl, src, cur, shared>>

(* atomic_inc, whatever the count has become since.                        *)
Grab(r) ==
  /\ pc[r] = "grab"
  /\ mStrong' = mStrong + 1
  /\ Go(r, IF mStrong = INITIAL THEN "first" ELSE "strong")
  /\ src' = [src EXCEPT ![r] = {}]
  /\ UNCHANGED <<mWeak, mFlags, base, impl, cur, shared>>

-----------------------------------------------------------------------------
(* The creator: it may extend the lifetime, then hands the object out.     *)
ExtendObjectLifetime ==
  /\ Alone
  /\ mFlags' = IF Android THEN "WEAK" ELSE mFlags
  /\ UNCHANGED <<mStrong, mWeak, base, impl, pc, src, cur, shared>>

Share ==
  /\ Alone
  /\ \E r \in Refs : IF FirstRefBeforeShare THEN pc[r] = "strong"
                     ELSE pc[r] # "none"
  /\ shared' = TRUE
  /\ UNCHANGED <<mStrong, mWeak, mFlags, base, impl, pc, src, cur>>

(* Every reference is empty again: the object's life is over.              *)
Over == shared /\ (\A r \in Refs : pc[r] = "none") /\ UNCHANGED vars

Step(r) ==
  \/ IncStrongWeak(r) \/ IncStrong(r) \/ FirstRef(r)
  \/ DecStrong(r) \/ LastStrong(r)
  \/ CreateWeak(r) \/ DecWeak(r) \/ LastWeak(r)
  \/ AttemptIncStrong(r) \/ ReadStrong(r) \/ Cas(r) \/ Ask(r) \/ Grab(r)

Next ==
  \/ \E r \in Refs : Step(r)
  \/ ExtendObjectLifetime
  \/ Share
  \/ Over

Spec == Init /\ [][Next]_vars

-----------------------------------------------------------------------------
(* Properties.                                                             *)

(* The state has its types; in particular no sequence of calls makes a     *)
(* count negative, which DecStrong and DecWeak assert.                     *)
TypeOK ==
  /\ mStrong \in Nat /\ mWeak \in Nat
  /\ mFlags \in {"STRONG", "WEAK"}
  /\ base \in Nat /\ impl \in Nat
  /\ pc \in [Refs -> PC]
  /\ src \in [Refs -> SUBSET Refs]
  /\ cur \in [Refs -> Int]
  /\ shared \in BOOLEAN

(* Who is counted in mStrong, and who in mWeak.                            *)
In(S)         == {r \in Refs : pc[r] \in S}
StrongPC      == {"strong", "first"}
WeakPC        == PC \ {"none", "lastw"}
CountedStrong == In(StrongPC)
CountedWeak   == In(WeakPC)

(* A reference that IncStrong or AttemptIncStrong filled is to a live      *)
(* object until DecStrong empties it: no interleaving of the last          *)
(* DecStrong with an attempt hands out, or leaves, a deleted object.       *)
StrongIsLive == CountedStrong # {} => base = 0

(* The counts outlive every reference, and every call in progress.         *)
RefsOutliveUse == (\E r \in Refs : pc[r] # "none") => impl = 0

(* Neither the object nor its counts are deleted twice.                    *)
DeletedOnce == base <= 1 /\ impl <= 1

(* When the last reference of any kind is gone, both are gone.             *)
NothingLeaks ==
  shared /\ (\A r \in Refs : pc[r] = "none") => base = 1 /\ impl = 1

(* An object of the regular lifetime is destroyed when the last strong     *)
(* reference goes away (elrefbase.cpp, DecWeak), whoever still holds it    *)
(* weakly.                                                                 *)
GoneWithLastStrong ==
  /\ FirstRefBeforeShare /\ shared /\ mFlags = "STRONG"
  /\ \A r \in Refs : pc[r] \in {"none", "weak"}
  => base = 1

(***************************************************************************)
(* The inductive invariant behind them, for _android builds of objects     *)
(* whose creator takes the first strong reference.                         *)
(***************************************************************************)
Offset == IF shared \/ In({"strong"}) # {} THEN 0 ELSE INITIAL

(* The counts count references, but for the initial value.                 *)
CountsOK ==
  /\ mWeak = Cardinality(CountedWeak)
  /\ mStrong = Cardinality(CountedStrong) + Offset

(* Before it is shared, the object sees one step of its creator at a time, *)
(* and only the first IncStrong finds the initial value.                   *)
CreatorOK ==
  IF shared THEN In({"first"}) = {}
  ELSE /\ base = 0 /\ impl = 0
       /\ \A r \in Refs : pc[r] \in Settled \cup {"inc", "first"}
       /\ \A r, q \in Refs :
            pc[r] \in {"inc", "first"} /\ pc[q] \in {"inc", "first"} => r = q
       /\ In({"first"}) # {} => In({"strong"}) = {}

(* A strong copy has a strong source; what an attempt has read.            *)
SourcesOK ==
  \A r \in Refs :
    /\ pc[r] = "inc" /\ shared =>
         \E s \in Refs : s \in src[r] /\ pc[s] = "strong"
    /\ pc[r] = "cas" => cur[r] > 0
    /\ pc[r] = "ask" => cur[r] # INITIAL
    /\ pc[r] = "grab" => mFlags = "WEAK"

(* Who deletes the object, and when.                                       *)
BaseOK ==
  shared =>
    IF mFlags = "STRONG"
    THEN /\ In({"last"}) # {} => CountedStrong = {}
         /\ \A r, q \in In({"last"}) : r = q
         /\ base = IF CountedStrong = {} /\ In({"last"}) = {} THEN 1 ELSE 0
    ELSE base = IF CountedWeak = {} /\ In({"lastw"}) = {} THEN 1 ELSE 0

(* Who deletes the counts, and when.                                       *)
ImplOK ==
  /\ In({"lastw"}) # {} => CountedWeak = {}
  /\ \A r, q \in In({"lastw"}) : r = q
  /\ shared => impl = IF CountedWeak = {} /\ In({"lastw"}) = {} THEN 1 ELSE 0

IInv == TypeOK /\ CountsOK /\ CreatorOK /\ SourcesOK /\ BaseOK /\ ImplOK

-----------------------------------------------------------------------------
(* What users may rely on, without the counts: a reference is strong, or   *)
(* at all in use, from the moment it is counted to the moment it is not.   *)
Object == INSTANCE ElObject WITH
  strong <- CountedStrong,
  refs   <- Refs \ In({"none"}),
  alive  <- base = 0,
  counts <- impl = 0

(* The counts implement the object's promise: every interleaving of        *)
(* copies, drops and attempts is one in which a live object is held, let   *)
(* go and destroyed once, and never revived (elrefbase.cpp).               *)
ImplementsObject == Object!Spec
=============================================================================
