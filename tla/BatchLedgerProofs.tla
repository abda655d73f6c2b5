------------------------- MODULE BatchLedgerProofs -------------------------
(***************************************************************************)
(* Proofs about BatchLedger, for any leads, batches, tasks, cap and        *)
(* deaths.  The inductive invariant is LedgerInv; its preservation has one *)
(* lemma per conjunct.                                                     *)
(***************************************************************************)
EXTENDS BatchLedger, FiniteSetTheorems, TLAPS

(* Finitely many rows: what counts slots counts. *)
LEMMA RowsFinite ==
  ASSUME LedgerAssumption, NEW S \in SUBSET Row
  PROVE  IsFiniteSet(S) /\ Cardinality(S) \in Nat
<1>1. IsFiniteSet(Row)
  BY FS_Product DEF LedgerAssumption, Row
<1>2. IsFiniteSet(S)
  BY <1>1, FS_Subset
<1> QED BY <1>2, FS_CardinalityType

(* Fewer slots are still within the cap. *)
LEMMA FewerSlots ==
  ASSUME LedgerAssumption, NEW S \in SUBSET Row, NEW T \in SUBSET S, Cardinality(S) <= Cap
  PROVE  Cardinality(T) <= Cap
<1>1. /\ IsFiniteSet(S) /\ Cardinality(S) \in Nat
      /\ T \in SUBSET Row
  BY RowsFinite
<1>2. Cardinality(T) \in Nat /\ Cardinality(T) <= Cardinality(S)
  BY <1>1, RowsFinite, FS_Subset
<1> QED BY <1>1, <1>2 DEF LedgerAssumption

(* One more slot, taken below the cap, is still within it. *)
LEMMA OneMoreSlot ==
  ASSUME LedgerAssumption, NEW S \in SUBSET Row, NEW r, Cardinality(S) < Cap
  PROVE  Cardinality(S \cup {r}) <= Cap
<1>1. IsFiniteSet(S) /\ Cardinality(S) \in Nat
  BY RowsFinite
<1>2. Cardinality(S \cup {r}) = IF r \in S THEN Cardinality(S) ELSE Cardinality(S) + 1
  BY <1>1, FS_AddElement
<1> QED BY <1>1, <1>2 DEF LedgerAssumption

(* The rows of an id are pairs of the id and a task. *)
LEMMA RowParts ==
  /\ \A r \in Row : r[1] \in Batches /\ r[2] \in Tasks
  /\ \A b \in Batches, S \in SUBSET Tasks : {b} \X S \in SUBSET Row
  /\ \A b, S : \A r \in {b} \X S : r[1] = b
  BY DEF Row

-----------------------------------------------------------------------------
(* An empty ledger satisfies the invariant. *)
LEMMA InitInv ==
  ASSUME LedgerAssumption, Init
  PROVE  LedgerInv
<1>1. TypeOK
  BY DEF LedgerAssumption, Init, TypeOK, Status
<1>2. CapHolds
  <2> SUFFICES ASSUME NEW l \in Leads
               PROVE  Cardinality(Slots(l)) <= Cap
    BY DEF CapHolds
  <2>1. Slots(l) = {}
    BY DEF LedgerAssumption, Init, Slots, Of
  <2> QED BY <2>1, FS_EmptySet DEF LedgerAssumption
<1>3. OwnersOK /\ AgentsHoldSlots /\ StagesOK /\ CountsOK
  BY DEF Init, OwnersOK, AgentsHoldSlots, StagesOK, CountsOK
<1> QED BY <1>1, <1>2, <1>3 DEF LedgerInv

(* The steps of the system, one per action: what every preservation proof  *)
(* splits on.                                                              *)
LEMMA StepCases ==
  ASSUME Next, NEW P,
         \A l \in Leads, b \in Batches, S \in SUBSET Tasks : CreateBatch(l, b, S) => P,
         \A l \in Leads, r \in Row : Insert(l, r) => P,
         \A l \in Leads, r \in Row : Claim(l, r) => P,
         \A l \in Leads, r \in Row : Dispatch(l, r) => P,
         \A l \in Leads, r \in Row : AgentReturns(l, r) => P,
         \A l \in Leads, r \in Row, v \in {"done", "failed"} : Mark(l, r, v) => P,
         \A l \in Leads, r \in Row, v \in {"done", "failed"} : DoExclusive(l, r, v) => P,
         \A l \in Leads : Die(l) => P,
         \A l \in Leads : CallFails(l) => P,
         \A l \in Leads, r \in Row : MarkFails(l, r) => P
  PROVE  P
  BY DEF Next, LeadStep

(* Every action keeps the types. *)
LEMMA TypesKept ==
  ASSUME LedgerAssumption, LedgerInv, Next
  PROVE  TypeOK'
<1> USE DEF LedgerInv, TypeOK
<1>1. ASSUME NEW l \in Leads, NEW b \in Batches, NEW S \in SUBSET Tasks, CreateBatch(l, b, S)
      PROVE  TypeOK'
  BY <1>1, RowParts DEF CreateBatch
<1>2. ASSUME NEW l \in Leads, NEW r \in Row, Insert(l, r)
      PROVE  TypeOK'
  <2>1. r[1] \in Batches
    BY RowParts
  <2>2. known' \in [Leads -> SUBSET Batches]
    BY <1>2, <2>1 DEF Insert
  <2> QED BY <1>2, <2>2 DEF Insert, Status
<1>3. ASSUME NEW l \in Leads, NEW r \in Row, Claim(l, r)
      PROVE  TypeOK'
  BY <1>3 DEF Claim, Status
<1>4. ASSUME NEW l \in Leads, NEW r \in Row, Dispatch(l, r)
      PROVE  TypeOK'
  BY <1>4 DEF Dispatch
<1>5. ASSUME NEW l \in Leads, NEW r \in Row, AgentReturns(l, r)
      PROVE  TypeOK'
  BY <1>5 DEF AgentReturns
<1>6. ASSUME NEW l \in Leads, NEW r \in Row, NEW v \in {"done", "failed"}, Mark(l, r, v)
      PROVE  TypeOK'
  BY <1>6 DEF Mark, Status
<1>7. ASSUME NEW l \in Leads, NEW r \in Row, NEW v \in {"done", "failed"}, DoExclusive(l, r, v)
      PROVE  TypeOK'
  BY <1>7 DEF DoExclusive, session, Status
<1>8. ASSUME NEW l \in Leads, Die(l)
      PROVE  TypeOK'
  <2>1. deaths' \in 0 .. MaxDeaths
    BY <1>8 DEF Die, LedgerAssumption
  <2> QED BY <1>8, <2>1 DEF Die
<1>9. ASSUME NEW l \in Leads, CallFails(l)
      PROVE  TypeOK'
  BY <1>9 DEF CallFails
<1>10. ASSUME NEW l \in Leads, NEW r \in Row, MarkFails(l, r)
       PROVE  TypeOK'
  BY <1>10 DEF MarkFails
<1> HIDE DEF LedgerInv, TypeOK
<1> QED BY <1>1, <1>2, <1>3, <1>4, <1>5, <1>6, <1>7, <1>8, <1>9, <1>10, StepCases

(* A step whose running rows ran before, for the same leads, keeps the cap. *)
LEMMA CapKeptByFewer ==
  ASSUME LedgerAssumption, LedgerInv,
         \A l \in Leads : Slots(l)' \subseteq Slots(l)
  PROVE  CapHolds'
<1> SUFFICES ASSUME NEW l \in Leads
             PROVE  Cardinality(Slots(l)') <= Cap
  BY DEF CapHolds
<1>1. Slots(l) \in SUBSET Row
  BY DEF Slots, Of
<1>2. Cardinality(Slots(l)) <= Cap
  BY DEF LedgerInv, CapHolds
<1> QED BY <1>1, <1>2, FewerSlots

(* A claim finds a free slot of the lead that makes it. *)
LEMMA ClaimFindsSlot ==
  ASSUME LedgerInv, NEW l \in Leads, NEW r \in Row, Claim(l, r)
  PROVE  owner[r[1]] = l /\ Cardinality(Slots(l)) < Cap
<1>1. owner[r[1]] = l
  BY DEF Claim, LedgerInv, StagesOK
<1> QED BY <1>1 DEF Claim, Claimable, Running

(* Only a claim takes a slot, and it takes a free one. *)
LEMMA CapKept ==
  ASSUME LedgerAssumption, LedgerInv, Next
  PROVE  CapHolds'
<1> USE DEF Slots, Of
<1>1. ASSUME NEW l \in Leads, NEW b \in Batches, NEW S \in SUBSET Tasks, CreateBatch(l, b, S)
      PROVE  CapHolds'
  <2>1. \A k \in Leads : Slots(k)' \subseteq Slots(k)
    BY <1>1, RowParts DEF CreateBatch, LedgerInv, TypeOK, OwnersOK
  <2> QED BY <2>1, CapKeptByFewer
<1>2. ASSUME NEW l \in Leads, NEW r \in Row, Insert(l, r)
      PROVE  CapHolds'
  <2>1. \A k \in Leads : Slots(k)' \subseteq Slots(k)
    BY <1>2 DEF Insert, LedgerInv, TypeOK
  <2> QED BY <2>1, CapKeptByFewer
<1>3. ASSUME NEW l \in Leads, NEW r \in Row, Claim(l, r)
      PROVE  CapHolds'
  <2> SUFFICES ASSUME NEW k \in Leads
               PROVE  Cardinality(Slots(k)') <= Cap
    BY DEF CapHolds
  <2>1. /\ owner[r[1]] = l /\ Cardinality(Slots(l)) < Cap
        /\ owner' = owner /\ status' = [status EXCEPT ![r] = "running"]
    BY <1>3, ClaimFindsSlot DEF Claim
  <2>2. CASE k = l
    <3>1. Slots(l)' = Slots(l) \cup {r} /\ Slots(l) \in SUBSET Row
      BY <2>1 DEF LedgerInv, TypeOK
    <3> QED BY <2>1, <2>2, <3>1, OneMoreSlot
  <2>3. CASE k # l
    <3>1. Slots(k)' = Slots(k)
      BY <2>1, <2>3 DEF LedgerInv, TypeOK
    <3> QED BY <3>1 DEF LedgerInv, CapHolds
  <2> QED BY <2>2, <2>3
<1>4. ASSUME NEW l \in Leads, NEW r \in Row, Dispatch(l, r)
      PROVE  CapHolds'
  BY <1>4, CapKeptByFewer DEF Dispatch
<1>5. ASSUME NEW l \in Leads, NEW r \in Row, AgentReturns(l, r)
      PROVE  CapHolds'
  BY <1>5, CapKeptByFewer DEF AgentReturns
<1>6. ASSUME NEW l \in Leads, NEW r \in Row, NEW v \in {"done", "failed"}, Mark(l, r, v)
      PROVE  CapHolds'
  <2>1. \A k \in Leads : Slots(k)' \subseteq Slots(k)
    BY <1>6 DEF Mark, LedgerInv, TypeOK
  <2> QED BY <2>1, CapKeptByFewer
<1>7. ASSUME NEW l \in Leads, NEW r \in Row, NEW v \in {"done", "failed"}, DoExclusive(l, r, v)
      PROVE  CapHolds'
  <2>1. \A k \in Leads : Slots(k)' \subseteq Slots(k)
    BY <1>7 DEF DoExclusive, LedgerInv, TypeOK
  <2> QED BY <2>1, CapKeptByFewer
<1>8. ASSUME NEW l \in Leads, Die(l)
      PROVE  CapHolds'
  BY <1>8, CapKeptByFewer DEF Die
<1>9. ASSUME NEW l \in Leads, CallFails(l)
      PROVE  CapHolds'
  BY <1>9, CapKeptByFewer DEF CallFails
<1>10. ASSUME NEW l \in Leads, NEW r \in Row, MarkFails(l, r)
       PROVE  CapHolds'
  BY <1>10, CapKeptByFewer DEF MarkFails
<1> HIDE DEF Slots, Of
<1> QED BY <1>1, <1>2, <1>3, <1>4, <1>5, <1>6, <1>7, <1>8, <1>9, <1>10, StepCases

-----------------------------------------------------------------------------
(* The rows' owners, and the stages of a lead's work. *)

(* A row that is there has an owner. *)
LEMMA OwnersKept ==
  ASSUME LedgerAssumption, LedgerInv, Next
  PROVE  OwnersOK'
<1> USE RowParts DEF LedgerInv, TypeOK, OwnersOK
<1>1. ASSUME NEW l \in Leads, NEW b \in Batches, NEW S \in SUBSET Tasks, CreateBatch(l, b, S)
      PROVE  OwnersOK'
  BY <1>1 DEF CreateBatch
<1>2. ASSUME NEW l \in Leads, NEW r \in Row, Insert(l, r)
      PROVE  OwnersOK'
  BY <1>2 DEF Insert, StagesOK, Of, LedgerAssumption
<1>3. ASSUME NEW l \in Leads, NEW r \in Row, Claim(l, r)
      PROVE  OwnersOK'
  BY <1>3 DEF Claim, Claimable
<1>4. ASSUME NEW l \in Leads, NEW r \in Row, Dispatch(l, r)
      PROVE  OwnersOK'
  BY <1>4 DEF Dispatch
<1>5. ASSUME NEW l \in Leads, NEW r \in Row, AgentReturns(l, r)
      PROVE  OwnersOK'
  BY <1>5 DEF AgentReturns
<1>6. ASSUME NEW l \in Leads, NEW r \in Row, NEW v \in {"done", "failed"}, Mark(l, r, v)
      PROVE  OwnersOK'
  BY <1>6 DEF Mark, AgentsHoldSlots, Of, LedgerAssumption
<1>7. ASSUME NEW l \in Leads, NEW r \in Row, NEW v \in {"done", "failed"}, DoExclusive(l, r, v)
      PROVE  OwnersOK'
  BY <1>7 DEF DoExclusive
<1>8. ASSUME NEW l \in Leads, Die(l)
      PROVE  OwnersOK'
  BY <1>8 DEF Die
<1>9. ASSUME NEW l \in Leads, CallFails(l)
      PROVE  OwnersOK'
  BY <1>9 DEF CallFails
<1>10. ASSUME NEW l \in Leads, NEW r \in Row, MarkFails(l, r)
       PROVE  OwnersOK'
  BY <1>10 DEF MarkFails
<1> HIDE DEF LedgerInv, TypeOK, OwnersOK
<1> QED BY <1>1, <1>2, <1>3, <1>4, <1>5, <1>6, <1>7, <1>8, <1>9, <1>10, StepCases

(* What a lead holds stays running until it marks it itself. *)
LEMMA AgentsKept ==
  ASSUME LedgerAssumption, LedgerInv, Next
  PROVE  AgentsHoldSlots'
<1> USE RowParts DEF LedgerInv, TypeOK, AgentsHoldSlots, Of
<1>1. ASSUME NEW l \in Leads, NEW b \in Batches, NEW S \in SUBSET Tasks, CreateBatch(l, b, S)
      PROVE  AgentsHoldSlots'
  BY <1>1 DEF CreateBatch, OwnersOK
<1>2. ASSUME NEW l \in Leads, NEW r \in Row, Insert(l, r)
      PROVE  AgentsHoldSlots'
  BY <1>2 DEF Insert, StagesOK
<1>3. ASSUME NEW l \in Leads, NEW r \in Row, Claim(l, r)
      PROVE  AgentsHoldSlots'
  BY <1>3 DEF Claim, Claimable, StagesOK
<1>4. ASSUME NEW l \in Leads, NEW r \in Row, Dispatch(l, r)
      PROVE  AgentsHoldSlots'
  BY <1>4 DEF Dispatch
<1>5. ASSUME NEW l \in Leads, NEW r \in Row, AgentReturns(l, r)
      PROVE  AgentsHoldSlots'
  BY <1>5 DEF AgentReturns
<1>6. ASSUME NEW l \in Leads, NEW r \in Row, NEW v \in {"done", "failed"}, Mark(l, r, v)
      PROVE  AgentsHoldSlots'
  BY <1>6 DEF Mark, StagesOK
<1>7. ASSUME NEW l \in Leads, NEW r \in Row, NEW v \in {"done", "failed"}, DoExclusive(l, r, v)
      PROVE  AgentsHoldSlots'
  BY <1>7 DEF DoExclusive, session
<1>8. ASSUME NEW l \in Leads, Die(l)
      PROVE  AgentsHoldSlots'
  BY <1>8 DEF Die
<1>9. ASSUME NEW l \in Leads, CallFails(l)
      PROVE  AgentsHoldSlots'
  BY <1>9 DEF CallFails
<1>10. ASSUME NEW l \in Leads, NEW r \in Row, MarkFails(l, r)
       PROVE  AgentsHoldSlots'
  BY <1>10 DEF MarkFails
<1> HIDE DEF LedgerInv, TypeOK, AgentsHoldSlots, Of
<1> QED BY <1>1, <1>2, <1>3, <1>4, <1>5, <1>6, <1>7, <1>8, <1>9, <1>10, StepCases

(* No row is in two stages, and nobody inserts a row twice. *)
LEMMA StagesKept ==
  ASSUME LedgerAssumption, LedgerInv, Next
  PROVE  StagesOK'
<1> USE RowParts DEF LedgerInv, TypeOK, StagesOK, Of
<1>1. ASSUME NEW l \in Leads, NEW b \in Batches, NEW S \in SUBSET Tasks, CreateBatch(l, b, S)
      PROVE  StagesOK'
  BY <1>1 DEF CreateBatch, OwnersOK, LedgerAssumption
<1>2. ASSUME NEW l \in Leads, NEW r \in Row, Insert(l, r)
      PROVE  StagesOK'
  BY <1>2 DEF Insert
<1>3. ASSUME NEW l \in Leads, NEW r \in Row, Claim(l, r)
      PROVE  StagesOK'
  BY <1>3 DEF Claim, Claimable, AgentsHoldSlots
<1>4. ASSUME NEW l \in Leads, NEW r \in Row, Dispatch(l, r)
      PROVE  StagesOK'
  BY <1>4 DEF Dispatch
<1>5. ASSUME NEW l \in Leads, NEW r \in Row, AgentReturns(l, r)
      PROVE  StagesOK'
  BY <1>5 DEF AgentReturns
<1>6. ASSUME NEW l \in Leads, NEW r \in Row, NEW v \in {"done", "failed"}, Mark(l, r, v)
      PROVE  StagesOK'
  BY <1>6 DEF Mark, AgentsHoldSlots
<1>7. ASSUME NEW l \in Leads, NEW r \in Row, NEW v \in {"done", "failed"}, DoExclusive(l, r, v)
      PROVE  StagesOK'
  BY <1>7 DEF DoExclusive, session
<1>8. ASSUME NEW l \in Leads, Die(l)
      PROVE  StagesOK'
  BY <1>8 DEF Die
<1>9. ASSUME NEW l \in Leads, CallFails(l)
      PROVE  StagesOK'
  BY <1>9 DEF CallFails
<1>10. ASSUME NEW l \in Leads, NEW r \in Row, MarkFails(l, r)
       PROVE  StagesOK'
  BY <1>10 DEF MarkFails
<1> HIDE DEF LedgerInv, TypeOK, StagesOK, Of
<1> QED BY <1>1, <1>2, <1>3, <1>4, <1>5, <1>6, <1>7, <1>8, <1>9, <1>10, StepCases

(* A claim, and so a dispatch, needs a row that was never dispatched. *)
LEMMA CountsKept ==
  ASSUME LedgerAssumption, LedgerInv, Next
  PROVE  CountsOK'
<1> USE DEF LedgerInv, TypeOK, CountsOK
<1>1. ASSUME NEW l \in Leads, NEW b \in Batches, NEW S \in SUBSET Tasks, CreateBatch(l, b, S)
      PROVE  CountsOK'
  BY <1>1 DEF CreateBatch
<1>2. ASSUME NEW l \in Leads, NEW r \in Row, Insert(l, r)
      PROVE  CountsOK'
  BY <1>2 DEF Insert, StagesOK
<1>3. ASSUME NEW l \in Leads, NEW r \in Row, Claim(l, r)
      PROVE  CountsOK'
  BY <1>3 DEF Claim, Claimable
<1>4. ASSUME NEW l \in Leads, NEW r \in Row, Dispatch(l, r)
      PROVE  CountsOK'
  BY <1>4 DEF Dispatch, AgentsHoldSlots, Of
<1>5. ASSUME NEW l \in Leads, NEW r \in Row, AgentReturns(l, r)
      PROVE  CountsOK'
  BY <1>5 DEF AgentReturns
<1>6. ASSUME NEW l \in Leads, NEW r \in Row, NEW v \in {"done", "failed"}, Mark(l, r, v)
      PROVE  CountsOK'
  BY <1>6 DEF Mark
<1>7. ASSUME NEW l \in Leads, NEW r \in Row, NEW v \in {"done", "failed"}, DoExclusive(l, r, v)
      PROVE  CountsOK'
  BY <1>7 DEF DoExclusive, session
<1>8. ASSUME NEW l \in Leads, Die(l)
      PROVE  CountsOK'
  BY <1>8 DEF Die
<1>9. ASSUME NEW l \in Leads, CallFails(l)
      PROVE  CountsOK'
  BY <1>9 DEF CallFails
<1>10. ASSUME NEW l \in Leads, NEW r \in Row, MarkFails(l, r)
       PROVE  CountsOK'
  BY <1>10 DEF MarkFails
<1> HIDE DEF LedgerInv, TypeOK, CountsOK
<1> QED BY <1>1, <1>2, <1>3, <1>4, <1>5, <1>6, <1>7, <1>8, <1>9, <1>10, StepCases

-----------------------------------------------------------------------------
(* The inductive invariant holds in every reachable state.                 *)
THEOREM LedgerInvariant == Spec => []LedgerInv
<1>1. Init => LedgerInv
  BY LedgerAssumption, InitInv
<1>2. LedgerInv /\ [Next]_vars => LedgerInv'
  <2> SUFFICES ASSUME LedgerInv, [Next]_vars PROVE LedgerInv'
    OBVIOUS
  <2>1. CASE Next
    BY <2>1, LedgerAssumption, TypesKept, CapKept, OwnersKept, AgentsKept, StagesKept,
       CountsKept DEF LedgerInv
  <2>2. CASE UNCHANGED vars
    BY <2>2 DEF vars, session, LedgerInv, TypeOK, CapHolds, OwnersOK, AgentsHoldSlots,
                StagesOK, CountsOK, Slots, Of
  <2> QED BY <2>1, <2>2
<1> QED BY <1>1, <1>2, PTL DEF Spec

(* A lead's running rows never pass its cap (CapHolds), whatever number of *)
(* batches it has, however its claims interleave with its deaths.          *)
THEOREM CapIsKept == Spec => []CapHolds
<1>1. LedgerInv => CapHolds
  BY DEF LedgerInv
<1> QED BY <1>1, LedgerInvariant, PTL

(* Every agent at work holds a slot of its lead (AgentsHoldSlots), and so, *)
(* with the cap, a lead never has more agents than its cap allows.         *)
THEOREM AgentsWithinCap == Spec => [](AgentsHoldSlots /\ \A l \in Leads : Cardinality(agents[l]) <= Cap)
<1>1. LedgerInv => AgentsHoldSlots /\ \A l \in Leads : Cardinality(agents[l]) <= Cap
  <2> SUFFICES ASSUME LedgerInv, NEW l \in Leads
               PROVE  Cardinality(agents[l]) <= Cap
    BY DEF LedgerInv
  <2>1. agents[l] \in SUBSET Slots(l)
    BY DEF LedgerInv, AgentsHoldSlots, Slots
  <2>2. Slots(l) \in SUBSET Row /\ Cardinality(Slots(l)) <= Cap
    BY DEF LedgerInv, CapHolds, Slots, Of
  <2> QED BY <2>1, <2>2, LedgerAssumption, FewerSlots
<1> QED BY <1>1, LedgerInvariant, PTL

(* No task is given to two agents (DispatchedOnce).                        *)
THEOREM NeverDispatchedTwice == Spec => []DispatchedOnce
<1>1. LedgerInv => DispatchedOnce
  BY DEF LedgerInv, CountsOK, DispatchedOnce
<1> QED BY <1>1, LedgerInvariant, PTL

-----------------------------------------------------------------------------
(* SlotContract *)

Held == [l \in Leads |-> InWork(l)]
Lost == [l \in Leads |-> Slots(l) \ InWork(l)]
Over == {r \in Row : status[r] \in {"done", "failed"}}

ContractStep == Contract!SlotNext \/ UNCHANGED Contract!slotVars

(* What is at work holds a slot, and a row that nobody claimed holds none. *)
LEMMA SlotFacts ==
  ASSUME LedgerInv
  PROVE  /\ \A l \in Leads : InWork(l) \subseteq Slots(l) /\ Slots(l) \subseteq Row
         /\ \A r \in Row : status[r] = "pending" => Contract!Unused(r)
<1>1. \A l \in Leads : InWork(l) \subseteq Slots(l) /\ Slots(l) \subseteq Row
  BY DEF LedgerInv, AgentsHoldSlots, InWork, Slots, Of
<1>2. ASSUME NEW r \in Row, status[r] = "pending"
      PROVE  Contract!Unused(r)
  <2>1. \A l \in Leads : r \notin Slots(l)
    BY <1>2 DEF Slots
  <2> QED BY <1>1, <1>2, <2>1 DEF Contract!Unused
<1> QED BY <1>1, <1>2

(* The contract counts as the ledger does.                                 *)
LEMMA SameCount ==
  ASSUME NEW S
  PROVE  Contract!Cardinality(S) = Cardinality(S)
BY DEF Contract!Cardinality, Cardinality

(* The steps of the contract, in terms of the ledger's state.              *)
LEMMA LeavesSlots ==
  ASSUME \A l \in Leads : InWork(l)' = InWork(l) /\ Slots(l)' = Slots(l), Over' = Over
  PROVE  ContractStep
<1>1. Held' = Held /\ Lost' = Lost
  BY DEF Held, Lost
<1> QED BY <1>1 DEF ContractStep, Contract!slotVars, Held, Lost, Over

LEMMA TakesSlot ==
  ASSUME LedgerInv, NEW l \in Leads, NEW r \in Row, status[r] = "pending", r[2] \notin Exclusive,
         Cardinality(Slots(l)) < Cap,
         \A k \in Leads : /\ InWork(k)' = IF k = l THEN InWork(k) \cup {r} ELSE InWork(k)
                          /\ Slots(k)' = IF k = l THEN Slots(k) \cup {r} ELSE Slots(k),
         Over' = Over
  PROVE  ContractStep
<1>1. /\ \A k \in Leads : InWork(k) \subseteq Slots(k) /\ r \notin Slots(k)
      /\ Contract!Unused(r)
  BY SlotFacts DEF Slots
<1>2. InWork(l) \cup (Slots(l) \ InWork(l)) = Slots(l)
  BY <1>1
<1>3. Held' = [Held EXCEPT ![l] = @ \cup {r}]
  BY DEF Held
<1>4. \A k \in Leads : Slots(k)' \ InWork(k)' = Slots(k) \ InWork(k)
  BY <1>1
<1>5. Lost' = Lost
  BY <1>4 DEF Lost
<1>6. Contract!Take(l, r)
  BY <1>1, <1>2, <1>3, <1>5, SameCount DEF Contract!Take, Held, Lost, Over
<1> QED BY <1>6 DEF ContractStep, Contract!SlotNext

LEMMA GivesSlotBack ==
  ASSUME LedgerInv, NEW l \in Leads, NEW r \in InWork(l),
         \A k \in Leads : /\ InWork(k)' = IF k = l THEN InWork(k) \ {r} ELSE InWork(k)
                          /\ Slots(k)' = IF k = l THEN Slots(k) \ {r} ELSE Slots(k),
         Over' = Over \cup {r}
  PROVE  ContractStep
<1>1. r \in Row
  BY SlotFacts
<1>2. Held' = [Held EXCEPT ![l] = @ \ {r}]
  BY DEF Held
<1>3. \A k \in Leads : Slots(k)' \ InWork(k)' = Slots(k) \ InWork(k)
  OBVIOUS
<1>4. Lost' = Lost
  BY <1>3 DEF Lost
<1>5. Contract!GiveBack(l, r)
  BY <1>2, <1>4 DEF Contract!GiveBack, Held, Lost, Over
<1> QED BY <1>1, <1>5 DEF ContractStep, Contract!SlotNext

LEMMA LosesSlots ==
  ASSUME LedgerInv, NEW l \in Leads, NEW S \in SUBSET InWork(l),
         \A k \in Leads : /\ InWork(k)' = IF k = l THEN InWork(k) \ S ELSE InWork(k)
                          /\ Slots(k)' = Slots(k),
         Over' = Over
  PROVE  ContractStep
<1>1. /\ \A k \in Leads : InWork(k) \subseteq Slots(k)
      /\ S \in SUBSET Row
  BY SlotFacts
<1>2. Held' = [Held EXCEPT ![l] = @ \ S]
  BY DEF Held
<1>3. \A k \in Leads : Slots(k)' \ InWork(k)' = IF k = l THEN (Slots(k) \ InWork(k)) \cup S
                                                        ELSE Slots(k) \ InWork(k)
  BY <1>1
<1>4. Lost' = [Lost EXCEPT ![l] = @ \cup S]
  BY <1>3 DEF Lost
<1>5. Contract!Lose(l, S)
  BY <1>2, <1>4 DEF Contract!Lose, Held, Lost, Over
<1> QED BY <1>1, <1>5 DEF ContractStep, Contract!SlotNext

LEMMA DoesAlone ==
  ASSUME LedgerInv, NEW r \in Row, status[r] = "pending", r[2] \in Exclusive,
         \A k \in Leads : InWork(k)' = InWork(k) /\ Slots(k)' = Slots(k),
         Over' = Over \cup {r}
  PROVE  ContractStep
<1>1. Contract!Unused(r)
  BY SlotFacts
<1>2. Held' = Held /\ Lost' = Lost
  BY DEF Held, Lost
<1>3. Contract!DoAlone(r)
  BY <1>1, <1>2 DEF Contract!DoAlone, Held, Lost, Over
<1> QED BY <1>3 DEF ContractStep, Contract!SlotNext

(* Each step of the ledger and its leads is one of the contract's, or      *)
(* leaves it alone.                                                        *)
LEMMA StepContract ==
  ASSUME LedgerAssumption, LedgerInv, Next
  PROVE  ContractStep
<1> USE DEF InWork, Slots, Of, Over
<1>0. TypeOK
  BY DEF LedgerInv
<1>1. ASSUME NEW l \in Leads, NEW b \in Batches, NEW S \in SUBSET Tasks, CreateBatch(l, b, S)
      PROVE  ContractStep
  <2>1. \A k \in Leads : Slots(k)' = Slots(k)
    BY <1>0, <1>1, RowParts DEF CreateBatch, TypeOK, LedgerInv, OwnersOK, LedgerAssumption
  <2>2. UNCHANGED <<status, claimed, agents, returned>>
    BY <1>1 DEF CreateBatch
  <2> QED BY <2>1, <2>2, LeavesSlots
<1>2. ASSUME NEW l \in Leads, NEW r \in Row, Insert(l, r)
      PROVE  ContractStep
  <2>1. status[r] = "absent" /\ status' = [status EXCEPT ![r] = "pending"]
        /\ UNCHANGED <<owner, claimed, agents, returned>>
    BY <1>2 DEF Insert, LedgerInv, StagesOK
  <2>2. (\A k \in Leads : Slots(k)' = Slots(k)) /\ Over' = Over
    BY <1>0, <2>1 DEF TypeOK
  <2> QED BY <2>1, <2>2, LeavesSlots
<1>3. ASSUME NEW l \in Leads, NEW r \in Row, Claim(l, r)
      PROVE  ContractStep
  <2>1. /\ owner[r[1]] = l /\ Cardinality(Slots(l)) < Cap
        /\ status[r] = "pending" /\ r[2] \notin Exclusive /\ claimed[l] = {}
        /\ owner' = owner /\ status' = [status EXCEPT ![r] = "running"]
        /\ claimed' = [claimed EXCEPT ![l] = {r}] /\ UNCHANGED <<agents, returned>>
    BY <1>3, ClaimFindsSlot DEF Claim, Claimable, Free
  <2>2. \A k \in Leads : /\ InWork(k)' = IF k = l THEN InWork(k) \cup {r} ELSE InWork(k)
                         /\ Slots(k)' = IF k = l THEN Slots(k) \cup {r} ELSE Slots(k)
    BY <1>0, <2>1 DEF TypeOK
  <2>3. Over' = Over
    BY <1>0, <2>1 DEF TypeOK
  <2> HIDE DEF InWork, Slots, Of, Over
  <2> QED BY <2>1, <2>2, <2>3, TakesSlot
<1>4. ASSUME NEW l \in Leads, NEW r \in Row, Dispatch(l, r)
      PROVE  ContractStep
  <2>1. claimed[l] = {r}
    BY <1>4 DEF Dispatch, LedgerInv, StagesOK
  <2>2. /\ claimed' = [claimed EXCEPT ![l] = {}] /\ agents' = [agents EXCEPT ![l] = @ \cup {r}]
        /\ UNCHANGED <<owner, status, returned>>
    BY <1>4 DEF Dispatch
  <2>3. \A k \in Leads : InWork(k)' = InWork(k)
    BY <1>0, <2>1, <2>2 DEF TypeOK
  <2> QED BY <2>2, <2>3, LeavesSlots
<1>5. ASSUME NEW l \in Leads, NEW r \in Row, AgentReturns(l, r)
      PROVE  ContractStep
  <2>1. /\ r \in agents[l] /\ agents' = [agents EXCEPT ![l] = @ \ {r}]
        /\ returned' = [returned EXCEPT ![l] = @ \cup {r}]
        /\ UNCHANGED <<owner, status, claimed>>
    BY <1>5 DEF AgentReturns
  <2>2. \A k \in Leads : InWork(k)' = InWork(k)
    BY <1>0, <2>1 DEF TypeOK
  <2> QED BY <2>1, <2>2, LeavesSlots
<1>6. ASSUME NEW l \in Leads, NEW r \in Row, NEW v \in {"done", "failed"}, Mark(l, r, v)
      PROVE  ContractStep
  <2>1. /\ r \in returned[l] /\ claimed[l] = {} /\ status' = [status EXCEPT ![r] = v]
        /\ returned' = [returned EXCEPT ![l] = @ \ {r}]
        /\ UNCHANGED <<owner, claimed, agents>>
    BY <1>6 DEF Mark, Free
  <2>2. r \notin agents[l] /\ owner[r[1]] = l
    BY <2>1 DEF LedgerInv, StagesOK, AgentsHoldSlots
  <2>3. \A k \in Leads : /\ InWork(k)' = IF k = l THEN InWork(k) \ {r} ELSE InWork(k)
                         /\ Slots(k)' = IF k = l THEN Slots(k) \ {r} ELSE Slots(k)
    BY <1>0, <2>1, <2>2 DEF TypeOK
  <2>4. Over' = Over \cup {r} /\ r \in InWork(l)
    BY <1>0, <2>1 DEF TypeOK
  <2> HIDE DEF InWork, Slots, Of, Over
  <2> QED BY <2>3, <2>4, GivesSlotBack
<1>7. ASSUME NEW l \in Leads, NEW r \in Row, NEW v \in {"done", "failed"}, DoExclusive(l, r, v)
      PROVE  ContractStep
  <2>1. /\ status[r] = "pending" /\ r[2] \in Exclusive /\ status' = [status EXCEPT ![r] = v]
        /\ UNCHANGED <<owner, claimed, agents, returned>>
    BY <1>7 DEF DoExclusive, session
  <2>2. (\A k \in Leads : InWork(k)' = InWork(k) /\ Slots(k)' = Slots(k)) /\ Over' = Over \cup {r}
    BY <1>0, <2>1 DEF TypeOK
  <2> HIDE DEF InWork, Slots, Of, Over
  <2> QED BY <2>1, <2>2, DoesAlone
<1>8. ASSUME NEW l \in Leads, Die(l)
      PROVE  ContractStep
  <2>1. /\ claimed' = [claimed EXCEPT ![l] = {}] /\ agents' = [agents EXCEPT ![l] = {}]
        /\ returned' = [returned EXCEPT ![l] = {}] /\ UNCHANGED <<owner, status>>
    BY <1>8 DEF Die
  <2>2. \A k \in Leads : InWork(k)' = IF k = l THEN InWork(k) \ InWork(l) ELSE InWork(k)
    BY <1>0, <2>1 DEF TypeOK
  <2>3. (\A k \in Leads : Slots(k)' = Slots(k)) /\ Over' = Over
    BY <2>1
  <2> HIDE DEF InWork, Slots, Of, Over
  <2> QED BY <2>2, <2>3, LosesSlots
<1>9. ASSUME NEW l \in Leads, CallFails(l)
      PROVE  ContractStep
  <2>1. claimed' = [claimed EXCEPT ![l] = {}] /\ UNCHANGED <<owner, status, agents, returned>>
    BY <1>9 DEF CallFails
  <2>2. claimed[l] \cap (agents[l] \cup returned[l]) = {} /\ claimed[l] \subseteq InWork(l)
    BY DEF LedgerInv, StagesOK
  <2>3. \A k \in Leads : InWork(k)' = IF k = l THEN InWork(k) \ claimed[l] ELSE InWork(k)
    BY <1>0, <2>1, <2>2 DEF TypeOK
  <2>4. (\A k \in Leads : Slots(k)' = Slots(k)) /\ Over' = Over
    BY <2>1
  <2> HIDE DEF InWork, Slots, Of, Over
  <2> QED BY <2>2, <2>3, <2>4, LosesSlots
<1>10. ASSUME NEW l \in Leads, NEW r \in Row, MarkFails(l, r)
       PROVE  ContractStep
  <2>1. /\ r \in returned[l] /\ claimed[l] = {} /\ returned' = [returned EXCEPT ![l] = @ \ {r}]
        /\ UNCHANGED <<owner, status, claimed, agents>>
    BY <1>10 DEF MarkFails, Free
  <2>2. r \notin agents[l] /\ {r} \subseteq InWork(l)
    BY <2>1 DEF LedgerInv, StagesOK
  <2>3. \A k \in Leads : InWork(k)' = IF k = l THEN InWork(k) \ {r} ELSE InWork(k)
    BY <1>0, <2>1, <2>2 DEF TypeOK
  <2>4. (\A k \in Leads : Slots(k)' = Slots(k)) /\ Over' = Over
    BY <2>1
  <2> HIDE DEF InWork, Slots, Of, Over
  <2> QED BY <2>2, <2>3, <2>4, LosesSlots
<1> HIDE DEF InWork, Slots, Of, Over
<1> QED BY <1>1, <1>2, <1>3, <1>4, <1>5, <1>6, <1>7, <1>8, <1>9, <1>10, StepCases

LEMMA InitContract == Init => Contract!SlotInit
<1> SUFFICES ASSUME Init PROVE Contract!SlotInit
  OBVIOUS
<1>1. \A l \in Leads : InWork(l) = {} /\ Slots(l) = {}
  BY DEF Init, InWork, Slots, Of
<1>2. \A r \in Row : status[r] = "absent"
  BY DEF Init
<1> QED BY <1>1, <1>2 DEF Contract!SlotInit

(* The ledger and its leads implement the contract of slots                *)
(* (ImplementsSlots): a row takes a slot once, under the cap counted with  *)
(* the slots that were lost, only a mark gives it back, and what a death   *)
(* or a failed call held stays taken.                                      *)
THEOREM LedgerImplementsSlots == Spec => ImplementsSlots
<1>1. LedgerInv /\ [Next]_vars => [Contract!SlotNext]_Contract!slotVars
  <2> SUFFICES ASSUME LedgerInv, [Next]_vars PROVE ContractStep
    BY DEF ContractStep
  <2>1. CASE Next
    BY <2>1, LedgerAssumption, StepContract
  <2>2. CASE UNCHANGED vars
    <3>1. (\A l \in Leads : InWork(l)' = InWork(l) /\ Slots(l)' = Slots(l)) /\ Over' = Over
      BY <2>2 DEF vars, session, InWork, Slots, Of, Over
    <3> QED BY <3>1, LeavesSlots
  <2> QED BY <2>1, <2>2
<1> QED BY <1>1, InitContract, LedgerInvariant, PTL DEF Spec, ImplementsSlots, Contract!SlotSpec
=============================================================================
