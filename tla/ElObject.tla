------------------------------ MODULE ElObject ------------------------------
(***************************************************************************)
(* What a reference counted object promises its users, whatever the counts *)
(* are: it is alive as long as anybody holds it strongly, it never comes   *)
(* back to life, and the memory of the counts is there as long as anybody  *)
(* uses a reference of either kind.  ElRefBase implements it.              *)
(***************************************************************************)
CONSTANT Refs

VARIABLES
  strong,  \* the references that hold the object
  refs,    \* the references that are in use in any way
  alive,   \* the object exists
  counts   \* its reference counts exist

vars == <<strong, refs, alive, counts>>

Init == strong = {} /\ refs = {} /\ alive = TRUE /\ counts = TRUE

(* A reference comes into use.                                             *)
Refer(r) ==
  /\ counts /\ r \notin refs
  /\ refs' = refs \cup {r}
  /\ UNCHANGED <<strong, alive, counts>>

(* It takes hold of the object, by a copy or from a weak reference.        *)
Hold(r) ==
  /\ alive /\ r \in refs
  /\ strong' = strong \cup {r}
  /\ UNCHANGED <<refs, alive, counts>>

LetGo(r) ==
  /\ r \in strong
  /\ strong' = strong \ {r}
  /\ UNCHANGED <<refs, alive, counts>>

(* The destructor runs when nobody holds the object.                       *)
Destroy ==
  /\ alive /\ strong = {}
  /\ alive' = FALSE
  /\ UNCHANGED <<strong, refs, counts>>

(* A reference that is not the last one goes out of use.                   *)
Leave(r) ==
  /\ r \in refs \ strong /\ refs # {r}
  /\ refs' = refs \ {r}
  /\ UNCHANGED <<strong, alive, counts>>

(* The last one does: nothing is left of object and counts.                *)
LeaveLast(r) ==
  /\ counts /\ refs = {r} /\ strong = {}
  /\ refs' = {}
  /\ alive' = FALSE /\ counts' = FALSE
  /\ UNCHANGED strong

Next ==
  \/ \E r \in Refs : Refer(r) \/ Hold(r) \/ LetGo(r) \/ Leave(r) \/ LeaveLast(r)
  \/ Destroy

Spec == Init /\ [][Next]_vars
=============================================================================
