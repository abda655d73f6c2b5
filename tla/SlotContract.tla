---------------------------- MODULE SlotContract ----------------------------
(***************************************************************************)
(* What the batch ledger promises of slots, without batches, statuses,     *)
(* sessions or calls.  A lead has Cap slots.  A row takes one at most once *)
(* and gives it back when its work is over; what a dead session or a       *)
(* failed call held is lost, and a lost slot still counts against the cap  *)
(* (there are no leases).  Rows that are done alone never take a slot.     *)
(***************************************************************************)
EXTENDS Integers, FiniteSets

CONSTANTS Leads, Rows, Alone, Cap

VARIABLES held,  \* rows a lead has a slot for and somebody at work on
          lost,  \* rows that keep a lead's slot, and nobody will give it back
          over   \* rows whose work is over

slotVars == <<held, lost, over>>

Unused(r) == r \notin over /\ \A l \in Leads : r \notin held[l] \cup lost[l]

SlotInit ==
  /\ held = [l \in Leads |-> {}]
  /\ lost = [l \in Leads |-> {}]
  /\ over = {}

Take(l, r) ==
  /\ Unused(r) /\ r \notin Alone
  /\ Cardinality(held[l] \cup lost[l]) < Cap
  /\ held' = [held EXCEPT ![l] = @ \cup {r}]
  /\ UNCHANGED <<lost, over>>

GiveBack(l, r) ==
  /\ r \in held[l]
  /\ held' = [held EXCEPT ![l] = @ \ {r}]
  /\ over' = over \cup {r}
  /\ UNCHANGED lost

Lose(l, S) ==
  /\ S \subseteq held[l]
  /\ held' = [held EXCEPT ![l] = @ \ S]
  /\ lost' = [lost EXCEPT ![l] = @ \cup S]
  /\ UNCHANGED over

DoAlone(r) ==
  /\ Unused(r) /\ r \in Alone
  /\ over' = over \cup {r}
  /\ UNCHANGED <<held, lost>>

SlotNext ==
  \/ \E l \in Leads, r \in Rows : Take(l, r) \/ GiveBack(l, r)
  \/ \E l \in Leads, S \in SUBSET Rows : Lose(l, S)
  \/ \E r \in Rows : DoAlone(r)

SlotSpec == SlotInit /\ [][SlotNext]_slotVars
=============================================================================
