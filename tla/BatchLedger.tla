---------------------------- MODULE BatchLedger ----------------------------
(***************************************************************************)
(* The ledger of a lead's parallel tasks (batch_tasks, parallelism/ledger) *)
(* and the leads that use it as the parallel-tasks skill tells them to: a  *)
(* batch is inserted row by row, a task is claimed before an agent is      *)
(* dispatched for it and marked when the agent returns.  The cap is a      *)
(* lead's, over all its batches, and is known to the database only.  A     *)
(* lead's session may die at any step, and its agents die with it; its     *)
(* rows do not.  Each ledger call is a process of its own: a step is one   *)
(* SQL statement, or one step of the lead between two calls.               *)
(***************************************************************************)
EXTENDS Integers, FiniteSets

CONSTANTS Leads,       \* leads with HERMES_LEAD_PARALLELISM=1
          Batches,     \* batch ids, never drawn twice
          Tasks,       \* task ids
          Exclusive,   \* the tasks of contention class EXCLUSIVE
          Cap,         \* HERMES_LEAD_TEAM_CAP
          MaxDeaths    \* bound on the deaths of sessions

ASSUME LedgerAssumption ==
  /\ IsFiniteSet(Batches) /\ IsFiniteSet(Tasks) /\ Exclusive \subseteq Tasks
  /\ Cap \in Nat /\ MaxDeaths \in Nat /\ "none" \notin Leads

VARIABLES
  owner,      \* lead_name of a batch's rows; "none": an id not drawn yet
  status,     \* status of each row; "absent": no such row
  inserting,  \* what create_batch has still to insert, per lead
  known,      \* the batch ids a lead's session remembers
  claimed,    \* rows a lead claimed and has not dispatched yet
  agents,     \* rows an agent of the lead works on
  returned,   \* rows whose agent returned and that are not marked yet
  deaths,
  (* history *)
  dispatches  \* agents ever dispatched for a row

session == <<inserting, known, claimed, agents, returned>>
vars    == <<owner, status, session, deaths, dispatches>>

Row    == Batches \X Tasks
Status == {"absent", "pending", "running", "done", "failed"}

TypeOK ==
  /\ owner \in [Batches -> Leads \cup {"none"}]
  /\ status \in [Row -> Status]
  /\ inserting \in [Leads -> SUBSET Row]
  /\ known \in [Leads -> SUBSET Batches]
  /\ claimed \in [Leads -> SUBSET Row]
  /\ agents \in [Leads -> SUBSET Row]
  /\ returned \in [Leads -> SUBSET Row]
  /\ deaths \in 0 .. MaxDeaths
  /\ dispatches \in [Row -> Nat]

Init ==
  /\ owner = [b \in Batches |-> "none"]
  /\ status = [r \in Row |-> "absent"]
  /\ inserting = [l \in Leads |-> {}]
  /\ known = [l \in Leads |-> {}]
  /\ claimed = [l \in Leads |-> {}]
  /\ agents = [l \in Leads |-> {}]
  /\ returned = [l \in Leads |-> {}]
  /\ deaths = 0
  /\ dispatches = [r \in Row |-> 0]

Of(l)    == {r \in Row : owner[r[1]] = l}
Slots(l) == {r \in Of(l) : status[r] = "running"}

(* A lead makes one ledger call at a time, in its own foreground. *)
Free(l) == inserting[l] = {} /\ claimed[l] = {}

-----------------------------------------------------------------------------
(* Mutant: the cap counts the rows of the batch only. *)
RunningInBatch(r) == {q \in Row : q[1] = r[1] /\ status[q] = "running"}

(* Mutant: a row that was worked on keeps its slot. *)
RunningOrOver(r) ==
  {q \in Row : owner[q[1]] = owner[r[1]] /\ status[q] \in {"running", "done", "failed"}}

(* The sub-select of claim_slot: the running rows of the row's own lead. *)
Running(r) == Slots(owner[r[1]])

Claimable(r) == status[r] = "pending" /\ Cardinality(Running(r)) < Cap

(* create_batch draws an id; its rows are inserted one statement each, and *)
(* the lead learns the id when the last one is there.                      *)
CreateBatch(l, b, S) ==
  /\ Free(l) /\ owner[b] = "none" /\ S # {}
  /\ owner' = [owner EXCEPT ![b] = l]
  /\ inserting' = [inserting EXCEPT ![l] = {b} \X S]
  /\ UNCHANGED <<status, known, claimed, agents, returned, deaths, dispatches>>

Insert(l, r) ==
  /\ r \in inserting[l]
  /\ status' = [status EXCEPT ![r] = "pending"]
  /\ inserting' = [inserting EXCEPT ![l] = @ \ {r}]
  /\ known' = IF inserting[l] = {r} THEN [known EXCEPT ![l] = @ \cup {r[1]}] ELSE known
  /\ UNCHANGED <<owner, claimed, agents, returned, deaths, dispatches>>

(* claim_slot where it returns True; where it returns False it changes     *)
(* nothing and the lead leaves the task pending.                           *)
Claim(l, r) ==
  /\ Free(l) /\ r[1] \in known[l] /\ r[2] \notin Exclusive
  /\ Claimable(r)
  /\ status' = [status EXCEPT ![r] = "running"]
  /\ claimed' = [claimed EXCEPT ![l] = {r}]
  /\ UNCHANGED <<owner, inserting, known, agents, returned, deaths, dispatches>>

Dispatch(l, r) ==
  /\ r \in claimed[l]
  /\ claimed' = [claimed EXCEPT ![l] = {}]
  /\ agents' = [agents EXCEPT ![l] = @ \cup {r}]
  /\ dispatches' = [dispatches EXCEPT ![r] = @ + 1]
  /\ UNCHANGED <<owner, status, inserting, known, returned, deaths>>

AgentReturns(l, r) ==
  /\ r \in agents[l]
  /\ agents' = [agents EXCEPT ![l] = @ \ {r}]
  /\ returned' = [returned EXCEPT ![l] = @ \cup {r}]
  /\ UNCHANGED <<owner, status, inserting, known, claimed, deaths, dispatches>>

(* mark_done and mark_failed overwrite whatever the row says. *)
Mark(l, r, verdict) ==
  /\ Free(l) /\ r \in returned[l]
  /\ status' = [status EXCEPT ![r] = verdict]
  /\ returned' = [returned EXCEPT ![l] = @ \ {r}]
  /\ UNCHANGED <<owner, inserting, known, claimed, agents, deaths, dispatches>>

(* A call that ends in an error tells the lead nothing: create_batch may   *)
(* have inserted some rows, claim_slot may have taken the slot.            *)
CallFails(l) ==
  /\ ~Free(l)
  /\ inserting' = [inserting EXCEPT ![l] = {}]
  /\ claimed' = [claimed EXCEPT ![l] = {}]
  /\ UNCHANGED <<owner, status, known, agents, returned, deaths, dispatches>>

(* A mark that ends in an error may be the last the lead tries.            *)
MarkFails(l, r) ==
  /\ Free(l) /\ r \in returned[l]
  /\ returned' = [returned EXCEPT ![l] = @ \ {r}]
  /\ UNCHANGED <<owner, status, inserting, known, claimed, agents, deaths, dispatches>>

(* The lead does an EXCLUSIVE task itself, without a claim. *)
DoExclusive(l, r, verdict) ==
  /\ Free(l) /\ r[1] \in known[l] /\ r[2] \in Exclusive /\ status[r] = "pending"
  /\ status' = [status EXCEPT ![r] = verdict]
  /\ UNCHANGED <<owner, session, deaths, dispatches>>

(* Mutant: a death puts the rows back that its agents worked on.           *)
DieRequeues(l) ==
  /\ deaths < MaxDeaths
  /\ deaths' = deaths + 1
  /\ status' = [r \in Row |-> IF r \in agents[l] THEN "pending" ELSE status[r]]
  /\ inserting' = [inserting EXCEPT ![l] = {}]
  /\ claimed' = [claimed EXCEPT ![l] = {}]
  /\ agents' = [agents EXCEPT ![l] = {}]
  /\ returned' = [returned EXCEPT ![l] = {}]
  /\ UNCHANGED <<owner, known, dispatches>>

(* The session dies with its agents.  Resumed, it may remember the ids it  *)
(* was told; spawned afresh, it does not.                                  *)
Die(l) ==
  /\ deaths < MaxDeaths
  /\ deaths' = deaths + 1
  /\ inserting' = [inserting EXCEPT ![l] = {}]
  /\ claimed' = [claimed EXCEPT ![l] = {}]
  /\ agents' = [agents EXCEPT ![l] = {}]
  /\ returned' = [returned EXCEPT ![l] = {}]
  /\ known' = known \/ known' = [known EXCEPT ![l] = {}]
  /\ UNCHANGED <<owner, status, dispatches>>

(* What a lead does of itself once it has a batch. *)
LeadStep(l) ==
  \E r \in Row :
    \/ Insert(l, r) \/ Claim(l, r) \/ Dispatch(l, r)
    \/ \E verdict \in {"done", "failed"} : Mark(l, r, verdict) \/ DoExclusive(l, r, verdict)

Next ==
  \E l \in Leads :
    \/ \E b \in Batches, S \in SUBSET Tasks : CreateBatch(l, b, S)
    \/ LeadStep(l)
    \/ \E r \in Row : AgentReturns(l, r) \/ MarkFails(l, r)
    \/ CallFails(l) \/ Die(l)

Spec == Init /\ [][Next]_vars

(* A lead carries on with its batches; nothing makes an agent return. *)
FairSpec == Spec /\ \A l \in Leads : WF_vars(LeadStep(l))
-----------------------------------------------------------------------------
(* A lead's running rows never pass the cap, over all its batches and      *)
(* whatever died (claim_slot, lead-parallelism-plan.md:41).                *)
CapHolds == \A l \in Leads : Cardinality(Slots(l)) <= Cap

(* SKILL.md:87, "Never dispatch more workers than the cap allows": every   *)
(* live agent, and every claim about to become one, holds a slot of the    *)
(* ledger.                                                                 *)
AgentsHoldSlots ==
  \A l \in Leads : \A r \in claimed[l] \cup agents[l] \cup returned[l] :
    r \in Of(l) /\ status[r] = "running"

(* No task is ever given to two agents, across batches, failures and       *)
(* deaths: a claim is handed out once.                                     *)
DispatchedOnce == \A r \in Row : dispatches[r] <= 1

(* No lead stays forever with a claimable task of a batch it knows and a   *)
(* slot of its cap free: slots come back when tasks are marked.            *)
NoIdleSlot ==
  \A l \in Leads :
    []<>(\/ Cardinality(Slots(l)) >= Cap
         \/ \A r \in known[l] \X (Tasks \ Exclusive) : status[r] # "pending")

-----------------------------------------------------------------------------
(* The inductive invariant behind the safety properties. *)

(* No row has an id nobody drew.                                           *)
OwnersOK == \A r \in Row : owner[r[1]] = "none" => status[r] = "absent"

(* A lead works on rows of its own, each in one stage at a time, and       *)
(* claims one at a time; what is being inserted is not there yet and what  *)
(* is known is its own.                                                    *)
StagesOK ==
  \A l \in Leads :
    /\ \A r \in inserting[l] : r \in Of(l) /\ status[r] = "absent"
    /\ \A b \in known[l] : owner[b] = l
    /\ \A r, q \in claimed[l] : r = q
    /\ claimed[l] \cap (agents[l] \cup returned[l]) = {}
    /\ agents[l] \cap returned[l] = {}

(* A row was dispatched only if it left pending, and not while its claim   *)
(* has yet to be dispatched.                                               *)
CountsOK ==
  \A r \in Row :
    /\ dispatches[r] \in {0, 1}
    /\ status[r] \in {"absent", "pending"} => dispatches[r] = 0
    /\ (\E l \in Leads : r \in claimed[l]) => dispatches[r] = 0

(* All of it together: the cap holds, agents hold slots and no task is     *)
(* dispatched twice, with what makes these inductive.                      *)
LedgerInv ==
  TypeOK /\ CapHolds /\ OwnersOK /\ AgentsHoldSlots /\ StagesOK /\ CountsOK

-----------------------------------------------------------------------------
(* Refinement *)

(* The rows a lead accounts for: claimed, given to an agent, or returned.  *)
InWork(l) == claimed[l] \cup agents[l] \cup returned[l]

Contract == INSTANCE SlotContract
              WITH Rows  <- Row,
                   Alone <- {r \in Row : r[2] \in Exclusive},
                   held  <- [l \in Leads |-> InWork(l)],
                   lost  <- [l \in Leads |-> Slots(l) \ InWork(l)],
                   over  <- {r \in Row : status[r] \in {"done", "failed"}}

(* The ledger's calls, agents, failures and deaths keep the contract of    *)
(* slots: a row takes one slot once and under the cap, only a mark gives   *)
(* it back, a failed call or a death leaves it taken (claim_slot,          *)
(* mark_done, and SKILL.md:135, no leases), and an EXCLUSIVE row takes     *)
(* none.                                                                   *)
ImplementsSlots == Contract!SlotSpec
=============================================================================
