------------------------------ MODULE Answers ------------------------------
(***************************************************************************)
(* What the /v1 endpoints promise the client of a call, whatever happens   *)
(* upstream: a call that has not been answered is told its result, once,   *)
(* whether or not a stream was opened for it, and nothing is said after    *)
(* that.  Metering implements it.                                          *)
(***************************************************************************)
EXTENDS Naturals

CONSTANT Requests

VARIABLE view   \* view[r]: what the client of r has seen

TypeOK == view \in [Requests -> {"none", "pending", "open", "told", "left"}]

Init == view = [r \in Requests |-> "none"]

Move(r, from, to) == view[r] \in from /\ view' = [view EXCEPT ![r] = to]

Ask(r) == Move(r, {"none"}, "pending")

\* The headers of a stream are sent.
Open(r) == Move(r, {"pending"}, "open")

\* The answer, an error, or the terminator of a stream.
Tell(r) == Move(r, {"pending", "open"}, "told")

\* The client goes away; it may have been told the result already.
Leave(r) == Move(r, {"pending", "open", "told"}, "left")

Close(r) == Move(r, {"told", "left"}, "none")

Next == \E r \in Requests : Ask(r) \/ Open(r) \/ Tell(r) \/ Leave(r) \/ Close(r)

Spec == Init /\ [][Next]_view
=============================================================================
