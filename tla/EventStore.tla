----------------------------- MODULE EventStore -----------------------------
(***************************************************************************)
(* The notify event store: the tables lead_events and pending_inputs of    *)
(* registry.sqlite, and the statements the store's methods run on them.    *)
(* Every method holds the store's lock around one statement or one         *)
(* BEGIN IMMEDIATE transaction, so each is one indivisible operator here;  *)
(* what the code does between two methods is left to the specifications    *)
(* that use this module.                                                   *)
(*                                                                         *)
(* A row's payload is abstracted to what the pipeline tells apart: whether *)
(* it parses, whether it asks for the user's attention, whether it says    *)
(* that a restart is required, and a question's timeout.                   *)
(***************************************************************************)
EXTENDS Integers, FiniteSets

CONSTANTS Leads,      \* names of project leads
          MaxEvents   \* bound on the rows ever inserted

ASSUME StoreAssumption == MaxEvents \in Nat /\ "none" \notin Leads

VARIABLES now,     \* wall clock, in the unit of the throttle and the timeouts
          lastId,  \* sqlite_sequence of lead_events
          events,  \* lead_events by id
          inputs   \* pending_inputs by the id of their event

storeVars == <<lastId, events, inputs>>

EventId == 1 .. MaxEvents

ValidTypes  == {"STARTED", "MILESTONE", "COMPLETED", "NEEDS_INPUT", "ERROR"}
UrgentTypes == {"COMPLETED", "NEEDS_INPUT", "ERROR"}

(* What a POST /notify carries besides the lead's name. *)
Post == [type : ValidTypes, valid : BOOLEAN, attention : BOOLEAN,
         restart : BOOLEAN, timeout : Nat]

NoPost == [type |-> "none", valid |-> FALSE, attention |-> FALSE,
           restart |-> FALSE, timeout |-> 0]

(* A time column is 0 while it is NULL. *)
Row == [lead : Leads \cup {"none"}, post : Post \cup {NoPost},
        delivered : Nat, error : BOOLEAN, action : BOOLEAN, proactive : Nat]

NoRow == [lead |-> "none", post |-> NoPost, delivered |-> 0,
          error |-> FALSE, action |-> FALSE, proactive |-> 0]

Input == [status : {"none", "open", "resolved", "timed_out"},
          timeout : Nat, created : Nat, linked : BOOLEAN]

NoInput == [status |-> "none", timeout |-> 0, created |-> 0, linked |-> FALSE]

StoreTypeOK ==
  /\ now \in Nat \ {0}
  /\ lastId \in 0 .. MaxEvents
  /\ events \in [EventId -> Row]
  /\ inputs \in [EventId -> Input]
  /\ \A e \in EventId : e > lastId => events[e] = NoRow /\ inputs[e] = NoInput

StoreInit ==
  /\ now = 1
  /\ lastId = 0
  /\ events = [e \in EventId |-> NoRow]
  /\ inputs = [e \in EventId |-> NoInput]

-----------------------------------------------------------------------------
(* Reads *)

Type(e)     == events[e].post.type
IsUrgent(e) == Type(e) \in UrgentTypes

Milestones(l) == {e \in EventId : events[e].lead = l /\ Type(e) = "MILESTONE"}

(* Mutant: the drain forgets two of the urgent types. *)
UndeliveredUrgentErrors == {e \in EventId : Type(e) = "ERROR" /\ events[e].delivered = 0}

UndeliveredUrgent == {e \in EventId : IsUrgent(e) /\ events[e].delivered = 0}

UndeliveredMilestones(l) == {e \in Milestones(l) : events[e].delivered = 0}

MilestoneLastDelivered(l) ==
  LET times == {events[e].delivered : e \in Milestones(l)} \cup {0}
  IN  CHOOSE t \in times : \A u \in times : u <= t

OpenInputs == {e \in EventId : inputs[e].status = "open"}

(* Mutant: like its neighbours, the query reads undelivered rows only. *)
OldestUndeliveredInputs(limit) ==
  {e \in OpenInputs : /\ events[e].delivered = 0
                      /\ Cardinality({f \in OpenInputs : f <= e}) <= limit}

(* The oldest open questions, at most limit of them, timed or not. *)
OldestOpenInputs(limit) ==
  {e \in OpenInputs : Cardinality({f \in OpenInputs : f <= e}) <= limit}

Expired(e) ==
  /\ inputs[e].timeout # 0
  /\ now - inputs[e].created >= inputs[e].timeout

-----------------------------------------------------------------------------
(* Writes *)

(* A NEEDS_INPUT row gets its pending_inputs companion in the same         *)
(* transaction; a payload that does not parse gives it no timeout.         *)
InsertEvent(l, p) ==
  LET id == lastId + 1
  IN  /\ lastId < MaxEvents
      /\ lastId' = id
      /\ events' = [events EXCEPT ![id] =
                      [lead |-> l, post |-> p, delivered |-> 0, error |-> FALSE,
                       action |-> FALSE, proactive |-> 0]]
      /\ inputs' = IF p.type = "NEEDS_INPUT"
                   THEN [inputs EXCEPT ![id] =
                           [status |-> "open", created |-> now, linked |-> FALSE,
                            timeout |-> IF p.valid THEN p.timeout ELSE 0]]
                   ELSE inputs

MarkDelivered(e) ==
  /\ events' = [events EXCEPT ![e].delivered = now, ![e].error = FALSE]
  /\ UNCHANGED <<lastId, inputs>>

MarkDeliveryError(e) ==
  /\ events' = [events EXCEPT ![e].error = TRUE]
  /\ UNCHANGED <<lastId, inputs>>

CanClaimAction(e) == ~events[e].action

(* claim_action and, right after it, claim_auto_restart. *)
ClaimAction(e) ==
  /\ events' = [events EXCEPT ![e].action = TRUE]
  /\ UNCHANGED <<lastId, inputs>>

(* Mutant: the claim of a row without the debounce of its lead. *)
CanClaimProactiveRow(e, debounce) == events[e].proactive = 0

CanClaimProactive(e, debounce) ==
  /\ events[e].proactive = 0
  /\ \A f \in Milestones(events[e].lead) :
       events[f].proactive # 0 => events[f].proactive < now - debounce

ClaimProactive(e) ==
  /\ events' = [events EXCEPT ![e].proactive = now]
  /\ UNCHANGED <<lastId, inputs>>

(* Mutant: the UPDATE without its status guard. *)
CloseInputAnyway(e, status) ==
  /\ inputs' = [inputs EXCEPT ![e].status = status]
  /\ UNCHANGED <<lastId, events>>

(* The UPDATE carries "AND status = 'open'": a closed row is left alone.   *)
CloseInput(e, status) ==
  /\ inputs' = IF e \in OpenInputs
               THEN [inputs EXCEPT ![e].status = status]
               ELSE inputs
  /\ UNCHANGED <<lastId, events>>

LinkMessage(e) ==
  /\ inputs' = IF e \in OpenInputs
               THEN [inputs EXCEPT ![e].linked = TRUE]
               ELSE inputs
  /\ UNCHANGED <<lastId, events>>
=============================================================================
