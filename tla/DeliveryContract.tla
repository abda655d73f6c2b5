-------------------------- MODULE DeliveryContract --------------------------
(***************************************************************************)
(* What the notify pipeline promises about the rows of lead_events,        *)
(* without threads, throttle, retries or deaths.  Rows are accepted in id  *)
(* order; a row may be told to the operator any number of times; a row is  *)
(* settled (delivered_at) for good, an urgent one only after it was told,  *)
(* and a COMPLETED only after every earlier milestone of its lead.         *)
(***************************************************************************)
EXTENDS Integers

CONSTANTS Leads, MaxEvents, Types, Urgent

VARIABLES last,     \* the last id given out
          kind,     \* lead and type of each row
          told,     \* rows some DM carried to the operator
          settled   \* rows marked delivered

contractVars == <<last, kind, told, settled>>

Rows     == 1 .. MaxEvents
Accepted == 1 .. last
NoKind   == [lead |-> "none", type |-> "none"]

EarlierMilestones(c) ==
  {m \in Rows : m < c /\ kind[m].lead = kind[c].lead /\ kind[m].type = "MILESTONE"}

ContractInit ==
  /\ last = 0
  /\ kind = [e \in Rows |-> NoKind]
  /\ told = {}
  /\ settled = {}

Accept(l, t) ==
  /\ last < MaxEvents
  /\ last' = last + 1
  /\ kind' = [kind EXCEPT ![last + 1] = [lead |-> l, type |-> t]]
  /\ UNCHANGED <<told, settled>>

TellOperator(S) ==
  /\ told' = told \cup S
  /\ UNCHANGED <<last, kind, settled>>

SettleRow(e) ==
  /\ kind[e].type \in Urgent => e \in told
  /\ kind[e].type = "COMPLETED" => EarlierMilestones(e) \subseteq settled
  /\ settled' = settled \cup {e}
  /\ UNCHANGED <<last, kind, told>>

ContractNext ==
  \/ \E l \in Leads, t \in Types : Accept(l, t)
  \/ \E S \in SUBSET Accepted : TellOperator(S)
  \/ \E e \in Accepted : SettleRow(e)

ContractSpec == ContractInit /\ [][ContractNext]_contractVars
=============================================================================
