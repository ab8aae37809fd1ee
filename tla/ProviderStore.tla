---------------------------- MODULE ProviderStore ----------------------------
(***************************************************************************)
(* A row of the providers table and the statements the repositories run on *)
(* it.  A row keeps what routing depends on: the status column,            *)
(* cooldown_until and backoff_level.  The other columns (name, priority,   *)
(* secret, latency, error text) travel with the row but change no          *)
(* decision modelled here.                                                 *)
(*                                                                         *)
(* cooldown_until is kept as the number of ticks left until it: 0 is a     *)
(* deadline that has passed, NoDeadline a NULL column.  Age lets one tick  *)
(* pass, in the table and in every copy of a row a goroutine holds.        *)
(***************************************************************************)
EXTENDS Integers

CONSTANTS
    MaxBackoff,    \* levels from here on are not told apart (bound)
    BumpsBackoff   \* MarkCooldown adds 1 to backoff_level: PostgreSQL only

ASSUME StoreAssumption ==
    /\ MaxBackoff \in Nat \ {0}
    /\ BumpsBackoff \in BOOLEAN

NoDeadline == -1

Status == {"active", "disabled", "cooldown"}

Row == [status : Status, left : {NoDeadline} \cup Nat, backoff : 0 .. MaxBackoff]

\* A provider as ProviderHandler.Create stores it.
FreshRow == [status |-> "active", left |-> NoDeadline, backoff |-> 0]

Bump(level) == IF level < MaxBackoff THEN level + 1 ELSE level

\* ProviderRepository.MarkCooldown: one UPDATE, whatever the row held before.
MarkCooldown(row, ticks) ==
    [status  |-> "cooldown",
     left    |-> ticks,
     backoff |-> IF BumpsBackoff THEN Bump(row.backoff) ELSE row.backoff]

\* Mutant: the status column is forgotten, the deadline is cleared.
ClearCooldownKeepsStatus(row) == [row EXCEPT !.left = NoDeadline, !.backoff = 0]

\* ProviderRepository.ClearCooldown.
ClearCooldown(row) == [status |-> "active", left |-> NoDeadline, backoff |-> 0]

\* ProviderRepository.UpdateStatus: the deadline and the level stay.
UpdateStatus(row, s) == [row EXCEPT !.status = s]

\* The router's filter: active, and no deadline still to come.
Selectable(row) == row.status = "active" /\ row.left <= 0

\* The combo executor's filter: only an unexpired cooldown is passed over.
CoolingDown(row) == row.status = "cooldown" /\ row.left > 0

Age(row) == [row EXCEPT !.left = IF @ > 0 THEN @ - 1 ELSE @]
=============================================================================
