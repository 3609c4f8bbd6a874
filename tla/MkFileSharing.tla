--------------------------- MODULE MkFileSharing ---------------------------
(***************************************************************************)
(* What the requests of a worker may expect of the descriptors they are    *)
(* answered from, whether or not a table shares them: a request gets a     *)
(* descriptor of its own file, nobody closes it under the request, and the *)
(* last user's end closes it.  MkVhostFdt implements it.                   *)
(***************************************************************************)
CONSTANTS Reqs, Content, FDs

VARIABLES
  open,  \* open[d]: the file descriptor d is open on, as a set
  uses   \* uses[r]: the descriptor request r is answered from, as a set

vars == <<open, uses>>

Init ==
  /\ open = [d \in FDs |-> {}]
  /\ uses = [r \in Reqs |-> {}]

(* A request for x begins: a descriptor is opened for it, or one that is   *)
(* open on x is shared.                                                    *)
Begin(r, x, d) ==
  /\ uses[r] = {}
  /\ open[d] \in {{}, {x}}
  /\ open' = [open EXCEPT ![d] = {x}]
  /\ uses' = [uses EXCEPT ![r] = {d}]

(* It ends; its descriptor stays open for the others that use it, if any.  *)
End(r, d) ==
  /\ uses[r] = {d}
  /\ uses' = [uses EXCEPT ![r] = {}]
  /\ open' = IF \E q \in Reqs \ {r} : uses[q] = {d} THEN open
             ELSE [open EXCEPT ![d] = {}]

Next ==
  \E r \in Reqs, d \in FDs : (\E x \in Content : Begin(r, x, d)) \/ End(r, d)

Spec == Init /\ [][Next]_vars
=============================================================================
