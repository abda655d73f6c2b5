------------------------ MODULE NotifyPipelineProofs ------------------------
(***************************************************************************)
(* Proofs about NotifyPipeline for every value of its constants.           *)
(*                                                                         *)
(* DeliveryInv is proved inductive.  Its argument has three parts: types,  *)
(* action by action; a frame lemma (StableWorker) that lets a step of one  *)
(* thread be checked against that thread only, because all a step can do   *)
(* to the rows and DMs another thread relies on is to add to them          *)
(* (RowsGrow); and the two verdicts, which only a step that marks a row    *)
(* delivered can disturb.                                                  *)
(***************************************************************************)
EXTENDS NotifyPipeline, WellFoundedInduction, TLAPS

(* The drain and the flush take the least id of a set: it exists. *)
LEMMA SmallestOfIn ==
  ASSUME NEW S \in SUBSET Nat, S # {}
  PROVE  /\ SmallestOf(S) \in S
         /\ \A f \in S : SmallestOf(S) <= f
<1>1. \E x \in S : \A y \in S : ~ (<<y, x>> \in OpToRel(<, Nat))
  BY NatLessThanWellFounded, WFMin
<1>2. PICK x \in S : \A y \in S : ~ (<<y, x>> \in OpToRel(<, Nat))
  BY <1>1
<1>3. ASSUME NEW y \in S  PROVE  x <= y
  <2>1. <<y, x>> \in Nat \X Nat
    OBVIOUS
  <2>2. ~ (y < x)
    BY <1>2, <2>1, Zenon DEF OpToRel
  <2>3. QED
    BY <2>2
<1>4. QED
  BY <1>3 DEF SmallestOf

-----------------------------------------------------------------------------
(* Type correctness.  ClockOK bounds the times the store holds by the      *)
(* clock, which is why the throttle's seed, a maximum over them, exists.   *)

TypeInv == TypeOK /\ ClockOK

(* Marking a row keeps the table well typed. *)
LEMMA RowDelivered ==
  ASSUME NEW ev \in [EventId -> Row], NEW e \in EventId, NEW t \in Nat
  PROVE  [ev EXCEPT ![e].delivered = t, ![e].error = FALSE] \in [EventId -> Row]
BY DEF Row

(* mark_delivered keeps the store well typed and its times in the past. *)
LEMMA MarkDeliveredType ==
  ASSUME TypeInv, NEW e \in 1 .. lastId, MarkDelivered(e), now' = now
  PROVE  StoreTypeOK' /\ ClockOK'
<1>1. /\ now \in Nat \ {0} /\ now \in Nat /\ lastId \in 0 .. MaxEvents /\ e \in EventId
      /\ events \in [EventId -> Row] /\ inputs \in [EventId -> Input]
      /\ \A f \in EventId : f > lastId => events[f] = NoRow /\ inputs[f] = NoInput
  BY StoreAssumption DEF TypeInv, TypeOK, StoreTypeOK, EventId
<1>2. /\ events' = [events EXCEPT ![e].delivered = now, ![e].error = FALSE]
      /\ UNCHANGED <<lastId, inputs>>
  BY DEF MarkDelivered
<1>3. events' \in [EventId -> Row]
  BY <1>1, <1>2, RowDelivered
<1>4. \A f \in EventId : f > lastId => events'[f] = NoRow
  BY <1>1, <1>2 DEF EventId
<1>5. ClockOK'
  BY <1>1, <1>2 DEF ClockOK, TypeInv, Row
<1>6. QED
  BY <1>1, <1>2, <1>3, <1>4, <1>5 DEF StoreTypeOK

(* mark_delivery_error keeps the store well typed. *)
LEMMA MarkDeliveryErrorType ==
  ASSUME TypeInv, NEW e \in 1 .. lastId, MarkDeliveryError(e), now' = now
  PROVE  StoreTypeOK' /\ ClockOK'
<1>1. /\ now \in Nat \ {0} /\ lastId \in 0 .. MaxEvents /\ e \in EventId
      /\ events \in [EventId -> Row] /\ inputs \in [EventId -> Input]
      /\ \A f \in EventId : f > lastId => events[f] = NoRow /\ inputs[f] = NoInput
  BY StoreAssumption DEF TypeInv, TypeOK, StoreTypeOK, EventId
<1>2. events' = [events EXCEPT ![e].error = TRUE] /\ UNCHANGED <<lastId, inputs>>
  BY DEF MarkDeliveryError
<1>3. events' \in [EventId -> Row]
  BY <1>1, <1>2 DEF Row
<1>4. \A f \in EventId : f > lastId => events'[f] = NoRow
  BY <1>1, <1>2 DEF EventId
<1>5. ClockOK'
  BY <1>1, <1>2 DEF ClockOK, TypeInv, Row
<1>6. QED
  BY <1>1, <1>2, <1>3, <1>4, <1>5 DEF StoreTypeOK

(* insert_event gives the next free id and keeps the store well typed. *)
LEMMA InsertEventType ==
  ASSUME TypeInv, NEW l \in Leads, NEW p \in Post, InsertEvent(l, p), now' = now
  PROVE  /\ StoreTypeOK' /\ ClockOK'
         /\ lastId' = lastId + 1 /\ lastId + 1 \in EventId
<1>1. /\ now \in Nat \ {0} /\ now \in Nat /\ lastId \in 0 .. MaxEvents
      /\ events \in [EventId -> Row] /\ inputs \in [EventId -> Input]
      /\ \A f \in EventId : f > lastId => events[f] = NoRow /\ inputs[f] = NoInput
      /\ lastId < MaxEvents /\ lastId' = lastId + 1 /\ lastId + 1 \in EventId
      /\ lastId' \in 0 .. MaxEvents
  BY StoreAssumption DEF TypeInv, TypeOK, StoreTypeOK, EventId, InsertEvent
<1>2. events' = [events EXCEPT ![lastId + 1] =
                   [lead |-> l, post |-> p, delivered |-> 0, error |-> FALSE,
                    action |-> FALSE, proactive |-> 0]]
  BY DEF InsertEvent
<1>3. events' \in [EventId -> Row]
  BY <1>1, <1>2 DEF Row
<1>4. inputs' \in [EventId -> Input]
  <2>1. p.valid \in BOOLEAN /\ p.timeout \in Nat
    BY DEF Post
  <2>2. [status |-> "open", created |-> now, linked |-> FALSE,
         timeout |-> IF p.valid THEN p.timeout ELSE 0] \in Input
    BY <1>1, <2>1 DEF Input
  <2>3. QED
    BY <1>1, <2>2 DEF InsertEvent
<1>5. \A f \in EventId : f > lastId' => events'[f] = NoRow /\ inputs'[f] = NoInput
  BY <1>1, <1>2 DEF EventId, InsertEvent
<1>6. ClockOK'
  BY <1>1, <1>2 DEF ClockOK, TypeInv
<1>7. QED
  BY <1>1, <1>3, <1>4, <1>5, <1>6 DEF StoreTypeOK

-----------------------------------------------------------------------------
(* The frame: what a step may do to the rows and DMs that threads rely on. *)

RowsGrow ==
  /\ lastId \in Nat /\ lastId' \in Nat /\ lastId <= lastId'
  /\ \A e \in 1 .. lastId :
       /\ events'[e].lead = events[e].lead
       /\ events'[e].post = events[e].post
       /\ events[e].delivered # 0 => events'[e].delivered # 0
  /\ told \subseteq told'

SameLocal(w) ==
  /\ pc'[w] = pc[w] /\ batch'[w] = batch[w] /\ sent'[w] = sent[w]
  /\ Job(w)' = Job(w)
  /\ up' = up

(* A step that only adds to the shared state and leaves a thread's own     *)
(* state alone cannot break what that thread relies on.                    *)
LEMMA StableWorker ==
  ASSUME NEW w \in Workers, WorkerInv(w), RowsGrow, SameLocal(w), MaxEvents \in Nat
  PROVE  WorkerInv(w)'
<1>1. WorkerOK(w)'
  BY DEF WorkerInv, WorkerOK, RowsGrow, SameLocal, RequestSteps, DeliverySteps
<1>2. ToldOK(w)'
  BY DEF WorkerInv, ToldOK, RowsGrow, SameLocal
<1>3. \A e \in 1 .. lastId : Type(e)' = Type(e) /\ events'[e].lead = events[e].lead
  BY DEF RowsGrow, Type
<1>4. batch'[w] \subseteq {m \in 1 .. lastId' : Type(m)' = "MILESTONE"}
  BY <1>3 DEF WorkerInv, FlushOK, RowsGrow, SameLocal
<1>5. pc[w] \in DeliverySteps => Type(Job(w))' = Type(Job(w))
                              /\ events'[Job(w)'].lead = events[Job(w)].lead
  <2>1. pc[w] \in DeliverySteps => Job(w) \in 1 .. lastId
    BY DEF WorkerInv, WorkerOK
  <2>2. Type(Job(w))' = events'[Job(w)].post.type
    BY DEF Type, SameLocal
  <2>3. QED
    BY <2>1, <2>2, <1>3 DEF Type, SameLocal
<1>6. ASSUME pc[w] \in {"flush", "settle", "send", "mark"}, Type(Job(w)) = "COMPLETED",
             NEW m \in Milestones(events[Job(w)].lead)', m < Job(w)
      PROVE  events'[m].delivered # 0 \/ m \in batch'[w]
  <2>1. Job(w) \in 1 .. lastId
    BY <1>6 DEF WorkerInv, WorkerOK, DeliverySteps
  <2>2. m \in EventId /\ events'[m].lead = events'[Job(w)'].lead /\ Type(m)' = "MILESTONE"
    BY <1>6 DEF Milestones, SameLocal
  <2>3. m \in 1 .. lastId
    BY <2>1, <2>2, <1>6 DEF EventId, RowsGrow
  <2>4. m \in Milestones(events[Job(w)].lead)
    BY <1>3, <1>5, <1>6, <2>2, <2>3 DEF Milestones, DeliverySteps
  <2>5. events[m].delivered # 0 \/ m \in batch[w]
    BY <1>6, <2>4 DEF WorkerInv, FlushOK
  <2>6. QED
    BY <2>3, <2>5 DEF RowsGrow, SameLocal
<1>7. FlushOK(w)'
  BY <1>4, <1>5, <1>6 DEF WorkerInv, FlushOK, SameLocal, DeliverySteps
<1>8. QED
  BY <1>1, <1>2, <1>7 DEF WorkerInv

SameVerdicts ==
  /\ \A e \in EventId : e > lastId => Type(e) = "none"
  /\ \A e \in EventId : events'[e].delivered = events[e].delivered
  /\ \A e \in EventId : events[e].delivered # 0 => e <= lastId

(* A step that marks no row delivered cannot break either verdict. *)
LEMMA StableVerdicts ==
  ASSUME RowsGrow, SameVerdicts, MaxEvents \in Nat,
         UrgentDeliveredWasTold, CompletedSettlesMilestones
  PROVE  UrgentDeliveredWasTold' /\ CompletedSettlesMilestones'
<1>1. \A e \in EventId : events[e].delivered # 0 => e \in 1 .. lastId
  BY DEF SameVerdicts, EventId, RowsGrow
<1>2. \A e \in 1 .. lastId : Type(e)' = Type(e) /\ events'[e].lead = events[e].lead
  BY DEF RowsGrow, Type
<1>3. UrgentDeliveredWasTold'
  BY <1>1, <1>2 DEF UrgentDeliveredWasTold, IsUrgent, SameVerdicts, RowsGrow
<1>4. ASSUME NEW c \in EventId, Type(c)' = "COMPLETED", events'[c].delivered # 0,
             NEW m \in Milestones(events[c].lead)', m < c
      PROVE  events'[m].delivered # 0
  <2>1. c \in 1 .. lastId /\ Type(c) = "COMPLETED" /\ events[c].delivered # 0
    BY <1>1, <1>2, <1>4 DEF SameVerdicts
  <2>2. m \in EventId /\ m \in 1 .. lastId
    BY <2>1, <1>4 DEF Milestones, EventId, RowsGrow
  <2>3. m \in Milestones(events[c].lead)
    BY <1>2, <1>4, <2>1, <2>2 DEF Milestones
  <2>4. QED
    BY <1>4, <2>1, <2>3 DEF CompletedSettlesMilestones, SameVerdicts, Milestones
<1>5. QED
  BY <1>3, <1>4 DEF CompletedSettlesMilestones

-----------------------------------------------------------------------------
(* The steps. *)

(* What every step may use of the invariant and of the assumptions. *)
LEMMA Facts ==
  ASSUME DeliveryInv
  PROVE  /\ MaxEvents \in Nat /\ lastId \in Nat /\ lastId <= MaxEvents
         /\ now \in Nat /\ now # 0
         /\ Drain \in Workers /\ EventId \subseteq Workers /\ Drain \notin EventId
         /\ EventId = 1 .. MaxEvents /\ 1 .. lastId \subseteq EventId
         /\ Workers \ {Drain} \subseteq EventId
         /\ "none" \notin Leads
         /\ TypeInv /\ TypeOK /\ StoreTypeOK
         /\ \A e \in EventId : e > lastId => Type(e) = "none" /\ events[e].delivered = 0
  BY StoreAssumption DEF DeliveryInv, TypeInv, TypeOK, StoreTypeOK, EventId, Workers, Drain,
                         Type, NoRow, NoPost

(* A thread's step that marks no row: the frame and its own part. *)
LEMMA ThreadStep ==
  ASSUME DeliveryInv, TypeOK', ClockOK', RowsGrow,
         \A e \in EventId : events'[e].delivered = events[e].delivered,
         NEW w \in Workers, \A v \in Workers \ {w} : SameLocal(v), WorkerInv(w)'
  PROVE  DeliveryInv'
<1>1. SameVerdicts
  BY Facts DEF SameVerdicts
<1>2. \A v \in Workers : WorkerInv(v)'
  BY Facts, StableWorker DEF DeliveryInv
<1>3. QED
  BY <1>1, <1>2, Facts, StableVerdicts DEF DeliveryInv

(* A step that no thread of _deliver_event takes and that touches no row. *)
LEMMA OutsideStep ==
  ASSUME DeliveryInv, TypeOK', ClockOK',
         UNCHANGED <<events, lastId, up, pc, drainId, sent, batch>>, told \subseteq told'
  PROVE  DeliveryInv'
<1>1. RowsGrow
  BY Facts DEF RowsGrow
<1>2. \A v \in Workers : SameLocal(v)
  BY DEF SameLocal, Job
<1>3. WorkerInv(Drain)'
  BY <1>1, <1>2, Facts, StableWorker DEF DeliveryInv
<1>4. QED
  BY <1>1, <1>2, <1>3, Facts, ThreadStep

(* Claiming a row keeps the table well typed. *)
LEMMA RowClaimed ==
  ASSUME NEW ev \in [EventId -> Row], NEW e \in EventId, NEW t \in Nat
  PROVE  /\ [ev EXCEPT ![e].action = TRUE] \in [EventId -> Row]
         /\ [ev EXCEPT ![e].proactive = t] \in [EventId -> Row]
BY DEF Row

(* A claim of a row leaves what the frame reads of it alone. *)
LEMMA ClaimStep ==
  ASSUME DeliveryInv, NEW e \in EventId, ClaimAction(e) \/ ClaimProactive(e), UNCHANGED <<now, told>>,
         e <= lastId
  PROVE  /\ StoreTypeOK' /\ ClockOK' /\ RowsGrow /\ lastId' = lastId
         /\ \A f \in EventId : events'[f].delivered = events[f].delivered
<1>1. /\ events \in [EventId -> Row] /\ inputs \in [EventId -> Input]
      /\ \A f \in EventId : f > lastId => events[f] = NoRow /\ inputs[f] = NoInput
      /\ now \in Nat \ {0} /\ lastId \in 0 .. MaxEvents /\ ClockOK
  BY DEF DeliveryInv, TypeOK, StoreTypeOK
<1>2. /\ \/ events' = [events EXCEPT ![e].action = TRUE]
         \/ events' = [events EXCEPT ![e].proactive = now]
      /\ UNCHANGED <<lastId, inputs>>
  BY DEF ClaimAction, ClaimProactive
<1>3. events' \in [EventId -> Row]
  <2>1. now \in Nat /\ events \in [EventId -> Row]
    BY <1>1
  <2>2. /\ [events EXCEPT ![e].action = TRUE] \in [EventId -> Row]
        /\ [events EXCEPT ![e].proactive = now] \in [EventId -> Row]
    BY <2>1, RowClaimed
  <2>3. QED
    BY <1>2, <2>2
<1>4. \A f \in EventId : /\ events'[f].delivered = events[f].delivered
                         /\ events'[f].lead = events[f].lead
                         /\ events'[f].post = events[f].post
                         /\ f > lastId => events'[f] = NoRow
  BY <1>1, <1>2, Facts DEF Row
<1>5. StoreTypeOK'
  BY <1>1, <1>2, <1>3, <1>4 DEF StoreTypeOK
<1>6. ClockOK'
  BY <1>1, <1>4 DEF ClockOK
<1>7. RowsGrow
  BY <1>2, <1>4, Facts DEF RowsGrow
<1>8. QED
  BY <1>2, <1>4, <1>5, <1>6, <1>7

(* _handle_notify stores a row no thread has read and starts its thread. *)
LEMMA InsertGrows ==
  ASSUME DeliveryInv, NEW l \in Leads, NEW p \in Post, InsertEvent(l, p), UNCHANGED <<now, told>>
  PROVE  /\ RowsGrow
         /\ \A f \in EventId : events'[f].delivered = events[f].delivered
<1>1. /\ events \in [EventId -> Row] /\ lastId + 1 \in EventId /\ lastId' = lastId + 1
      /\ events' = [events EXCEPT ![lastId + 1] =
                      [lead |-> l, post |-> p, delivered |-> 0, error |-> FALSE,
                       action |-> FALSE, proactive |-> 0]]
  BY Facts DEF StoreTypeOK, InsertEvent
<1>2. \A f \in EventId \ {lastId + 1} : events'[f] = events[f]
  BY <1>1
<1>3. events'[lastId + 1].delivered = 0
  BY <1>1
<1>4. events[lastId + 1].delivered = 0
  BY <1>1, Facts
<1>5. RowsGrow
  <2>1. \A f \in 1 .. lastId : f \in EventId \ {lastId + 1}
    BY <1>1, Facts
  <2>2. QED
    BY <1>1, <1>2, <2>1, Facts DEF RowsGrow
<1>6. QED
  BY <1>2, <1>3, <1>4, <1>5

(* HandleNotify preserves the invariant: the new thread starts at its row. *)
LEMMA HandleNotifyStep ==
  ASSUME DeliveryInv, NEW l \in Leads, NEW p \in Posts, HandleNotify(l, p)
  PROVE  DeliveryInv'
<1>0. p \in Post /\ InsertEvent(l, p) /\ UNCHANGED <<now, told>>
  BY PipelineAssumption DEF HandleNotify, historyVars
<1>a. PICK w \in EventId : w = lastId + 1
  BY <1>0, InsertEventType, Facts
<1>1. /\ StoreTypeOK' /\ ClockOK' /\ lastId' = w /\ w \in EventId /\ RowsGrow
      /\ \A f \in EventId : events'[f].delivered = events[f].delivered
  BY <1>0, <1>a, InsertEventType, InsertGrows, Facts
<1>2. FirstStep(p) \in {"automate", "claim", "deliver"}
  BY DEF FirstStep
<1>3. w \in Workers /\ w # Drain
  BY <1>1, Facts
<1>4. pc' = [pc EXCEPT ![w] = FirstStep(p)]
  BY <1>a DEF HandleNotify, Goto
<1>5. /\ UNCHANGED <<up, crashes, drainId, todo, sent, batch, lastDmed, proactive,
                     monQueue, monDM, told, toldTimeout>>
      /\ up
  BY DEF HandleNotify, historyVars
<1>6. TypeOK'
  <2>1. pc' \in [Workers -> PC]
    BY <1>2, <1>3, <1>4, Facts DEF TypeOK, PC
  <2>2. drainId' \in 0 .. lastId' /\ todo' \in SUBSET (1 .. lastId')
    BY <1>a, <1>1, <1>5, Facts DEF TypeOK
  <2>3. QED
    BY <1>1, <1>5, <2>1, <2>2, Facts DEF TypeOK
<1>7. \A v \in Workers \ {w} : SameLocal(v)
  BY <1>4, <1>5, Facts DEF SameLocal, Job, TypeOK
<1>8. WorkerInv(w)'
  <2>1. WorkerInv(w) /\ pc[w] \in PC /\ batch[w] = {}
    <3>1. WorkerInv(w) /\ pc[w] \in PC
      BY <1>3, Facts DEF DeliveryInv, TypeOK
    <3>2. Job(w) = w /\ w \notin 1 .. lastId
      BY <1>a, <1>3, Facts DEF Job
    <3>3. QED
      BY <3>1, <3>2, <1>3 DEF WorkerInv, WorkerOK, FlushOK, PC, DeliverySteps, RequestSteps
  <2>2. pc'[w] \in {"automate", "claim", "deliver"}
    BY <1>2, <1>3, <1>4, Facts DEF TypeOK
  <2>3. Job(w)' = w
    BY <1>3 DEF Job
  <2>4. WorkerOK(w)'
    <3>1. w \in 1 .. lastId'
      BY <1>1, Facts
    <3>2. QED
      BY <2>2, <2>3, <1>3, <1>5, <3>1 DEF WorkerOK
  <2>5. FlushOK(w)'
    BY <2>1, <2>2, <1>5 DEF FlushOK
  <2>6. ToldOK(w)'
    BY <2>2 DEF ToldOK
  <2>7. QED
    BY <2>4, <2>5, <2>6 DEF WorkerInv
<1>9. QED
  BY <1>1, <1>3, <1>6, <1>7, <1>8, ThreadStep

(* The reaper's question is a row like another, and no thread starts. *)
LEMMA ReaperStep ==
  ASSUME DeliveryInv, NEW l \in Leads, ReaperInsert(l)
  PROVE  DeliveryInv'
<1>0. ReaperPost \in Post /\ InsertEvent(l, ReaperPost) /\ UNCHANGED <<now, told>>
  BY DEF ReaperPost, Post, ValidTypes, ReaperInsert, historyVars
<1>1. /\ StoreTypeOK' /\ ClockOK' /\ lastId' = lastId + 1 /\ RowsGrow
      /\ \A f \in EventId : events'[f].delivered = events[f].delivered
  BY <1>0, InsertEventType, InsertGrows, Facts
<1>2. UNCHANGED <<up, crashes, pc, drainId, todo, sent, batch, lastDmed, proactive,
                  monQueue, monDM, told, toldTimeout>>
  BY DEF ReaperInsert, threadVars, historyVars
<1>3. TypeOK'
  <2>1. drainId' \in 0 .. lastId' /\ todo' \in SUBSET (1 .. lastId')
    BY <1>1, <1>2, Facts DEF TypeOK
  <2>2. QED
    BY <1>1, <1>2, <2>1, Facts DEF TypeOK
<1>4. \A v \in Workers : SameLocal(v)
  BY <1>2 DEF SameLocal, Job
<1>5. WorkerInv(Drain)'
  BY <1>1, <1>4, Facts, StableWorker DEF DeliveryInv
<1>6. QED
  BY <1>1, <1>3, <1>4, <1>5, Facts, ThreadStep

(* A step of thread w that leaves the store alone.  What is left to show   *)
(* of such an action is its types and its own thread's part.               *)
LEMMA LocalStep ==
  ASSUME DeliveryInv, TypeOK', NEW w \in Workers,
         UNCHANGED <<now, events, lastId, up>>, told \subseteq told',
         \A v \in Workers \ {w} : pc'[v] = pc[v] /\ batch'[v] = batch[v] /\ sent'[v] = sent[v],
         w = Drain \/ drainId' = drainId,
         WorkerInv(w)'
  PROVE  DeliveryInv'
<1>1. RowsGrow /\ ClockOK'
  BY Facts DEF RowsGrow, ClockOK, TypeInv
<1>2. \A v \in Workers \ {w} : SameLocal(v)
  BY DEF SameLocal, Job
<1>3. QED
  BY <1>1, <1>2, ThreadStep

(* The request thread's automation: a claim, or none. *)
LEMMA AutomateStep ==
  ASSUME DeliveryInv, NEW e \in EventId, Automate(e)
  PROVE  DeliveryInv'
<1>1. /\ pc[e] = "automate" /\ WorkerInv(e) /\ e \in Workers /\ e # Drain /\ pc \in [Workers -> PC]
  BY Facts DEF DeliveryInv, Automate, TypeOK
<1>2. Job(e) = e /\ e <= lastId /\ batch[e] = {} /\ up
  BY <1>1, Facts DEF WorkerInv, WorkerOK, FlushOK, Job, RequestSteps
<1>3. UNCHANGED <<now, up, crashes, drainId, todo, sent, batch, lastDmed,
                  proactive, monQueue, monDM, told, toldTimeout>>
  BY DEF Automate, historyVars
<1>4. \E label \in {"launch", "claim"} : pc' = [pc EXCEPT ![e] = label]
  BY DEF Automate, Goto
<1>5. /\ StoreTypeOK' /\ ClockOK' /\ RowsGrow /\ lastId' = lastId
      /\ \A f \in EventId : events'[f].delivered = events[f].delivered
  <2>1. CASE WantsAutomation(e)
    BY <1>2, <1>3, <2>1, ClaimStep DEF Automate
  <2>2. CASE ~WantsAutomation(e)
    BY <1>3, <2>2, Facts DEF Automate, storeVars, StoreTypeOK, RowsGrow, ClockOK, TypeInv
  <2>3. QED
    BY <2>1, <2>2
<1>6. TypeOK'
  BY <1>1, <1>3, <1>4, <1>5, Facts DEF TypeOK, PC
<1>7. \A v \in Workers \ {e} : SameLocal(v)
  BY <1>1, <1>3, <1>4 DEF SameLocal, Job
<1>8. pc'[e] \in {"launch", "claim"} /\ Job(e)' = e
  BY <1>1, <1>4 DEF Job
<1>9. WorkerInv(e)'
  <2>1. WorkerOK(e)'
    BY <1>1, <1>2, <1>3, <1>5, <1>8, Facts DEF WorkerOK, RequestSteps, DeliverySteps
  <2>2. FlushOK(e)'
    BY <1>2, <1>3, <1>8 DEF FlushOK
  <2>3. QED
    BY <1>8, <2>1, <2>2 DEF WorkerInv, ToldOK
<1>10. QED
  BY <1>1, <1>5, <1>6, <1>7, <1>9, ThreadStep

(* Launching a restart script touches no row. *)
LEMMA LaunchStep ==
  ASSUME DeliveryInv, NEW e \in EventId, Launch(e)
  PROVE  DeliveryInv'
<1>1. /\ pc[e] = "launch" /\ WorkerInv(e) /\ e \in Workers /\ e # Drain /\ pc \in [Workers -> PC]
  BY Facts DEF DeliveryInv, Launch, TypeOK
<1>2. Job(e) = e /\ e \in 1 .. lastId /\ batch[e] = {} /\ up
  BY <1>1, Facts DEF WorkerInv, WorkerOK, FlushOK, Job, RequestSteps
<1>3. /\ UNCHANGED <<now, lastId, events, inputs, up, crashes, drainId, todo, sent, batch,
                     lastDmed, proactive, monQueue, monDM, told, toldTimeout>>
      /\ pc' = [pc EXCEPT ![e] = "claim"]
  BY DEF Launch, storeVars, historyVars, Goto
<1>4. TypeOK'
  BY <1>1, <1>3, Facts DEF TypeOK, StoreTypeOK, PC
<1>5. pc'[e] = "claim" /\ Job(e)' = e
  BY <1>1, <1>3 DEF Job
<1>6. WorkerInv(e)'
  <2>1. WorkerOK(e)'
    BY <1>1, <1>2, <1>3, <1>5 DEF WorkerOK
  <2>2. FlushOK(e)'
    BY <1>2, <1>3, <1>5 DEF FlushOK
  <2>3. QED
    BY <1>5, <2>1, <2>2 DEF WorkerInv, ToldOK
<1>7. QED
  BY <1>1, <1>3, <1>4, <1>6, LocalStep

(* The request thread becomes the delivery thread of its row. *)
LEMMA StartDeliveryStep ==
  ASSUME DeliveryInv, NEW e \in EventId, StartDelivery(e)
  PROVE  DeliveryInv'
<1>1. /\ pc[e] = "claim" /\ WorkerInv(e) /\ e \in Workers /\ e # Drain /\ pc \in [Workers -> PC]
  BY Facts DEF DeliveryInv, StartDelivery, TypeOK
<1>2. Job(e) = e /\ e <= lastId /\ batch[e] = {} /\ up
  BY <1>1, Facts DEF WorkerInv, WorkerOK, FlushOK, Job, RequestSteps
<1>3. /\ UNCHANGED <<now, up, crashes, drainId, todo, sent, batch, lastDmed,
                     monQueue, monDM, told, toldTimeout>>
      /\ pc' = [pc EXCEPT ![e] = "deliver"]
  BY DEF StartDelivery, historyVars, Goto
<1>4. /\ StoreTypeOK' /\ ClockOK' /\ RowsGrow /\ lastId' = lastId
      /\ \A f \in EventId : events'[f].delivered = events[f].delivered
      /\ proactive' \in SUBSET EventId
  <2>1. CASE WantsProactiveDM(e)
    BY <1>2, <1>3, <2>1, ClaimStep, Facts DEF StartDelivery, TypeOK
  <2>2. CASE ~WantsProactiveDM(e)
    BY <1>3, <2>2, Facts DEF StartDelivery, storeVars, StoreTypeOK, RowsGrow, ClockOK, TypeInv, TypeOK
  <2>3. QED
    BY <2>1, <2>2
<1>5. TypeOK'
  BY <1>1, <1>3, <1>4, Facts DEF TypeOK, PC
<1>6. \A v \in Workers \ {e} : SameLocal(v)
  BY <1>1, <1>3 DEF SameLocal, Job
<1>7. pc'[e] = "deliver" /\ Job(e)' = e
  BY <1>1, <1>3 DEF Job
<1>8. WorkerInv(e)'
  <2>1. WorkerOK(e)'
    BY <1>1, <1>2, <1>3, <1>4, <1>7, Facts DEF WorkerOK, RequestSteps, DeliverySteps
  <2>2. FlushOK(e)'
    BY <1>2, <1>3, <1>7 DEF FlushOK
  <2>3. QED
    BY <1>7, <2>1, <2>2 DEF WorkerInv, ToldOK
<1>9. QED
  BY <1>1, <1>4, <1>5, <1>6, <1>8, ThreadStep

(* Changing a question's row keeps the table of questions well typed. *)
LEMMA InputChanged ==
  ASSUME NEW in \in [EventId -> Input], NEW e \in EventId,
         NEW s \in {"resolved", "timed_out"}
  PROVE  /\ [in EXCEPT ![e].status = s] \in [EventId -> Input]
         /\ [in EXCEPT ![e].linked = TRUE] \in [EventId -> Input]
BY DEF Input

(* Closing a question keeps the table of questions well typed. *)
LEMMA CloseInputType ==
  ASSUME StoreTypeOK, NEW e \in EventId, NEW s \in {"resolved", "timed_out"},
         CloseInput(e, s), now' = now
  PROVE  StoreTypeOK'
<1>1. /\ inputs \in [EventId -> Input] /\ UNCHANGED <<events, lastId>>
      /\ \A f \in EventId : f > lastId => inputs[f] = NoInput
  BY DEF StoreTypeOK, CloseInput
<1>2. inputs' = IF e \in OpenInputs THEN [inputs EXCEPT ![e].status = s] ELSE inputs
  BY DEF CloseInput
<1>3. inputs' \in [EventId -> Input]
  BY <1>1, <1>2, InputChanged
<1>4. \A f \in EventId : f > lastId => inputs'[f] = NoInput
  <2>1. \A f \in EventId : f > lastId => f \notin OpenInputs
    BY <1>1 DEF OpenInputs, NoInput
  <2>2. \A f \in EventId : f > lastId => inputs'[f] = inputs[f]
    BY <1>1, <1>2, <2>1
  <2>3. QED
    BY <1>1, <2>2
<1>5. QED
  BY <1>1, <1>3, <1>4 DEF StoreTypeOK

(* Linking a question to its DM keeps the table of questions well typed. *)
LEMMA LinkMessageType ==
  ASSUME StoreTypeOK, NEW e \in EventId, LinkMessage(e), now' = now
  PROVE  StoreTypeOK'
<1>1. /\ inputs \in [EventId -> Input] /\ UNCHANGED <<events, lastId>>
      /\ \A f \in EventId : f > lastId => inputs[f] = NoInput
  BY DEF StoreTypeOK, LinkMessage
<1>2. inputs' = IF e \in OpenInputs THEN [inputs EXCEPT ![e].linked = TRUE] ELSE inputs
  BY DEF LinkMessage
<1>3. inputs' \in [EventId -> Input]
  BY <1>1, <1>2, InputChanged
<1>4. \A f \in EventId : f > lastId => inputs'[f] = NoInput
  <2>1. \A f \in EventId : f > lastId => f \notin OpenInputs
    BY <1>1 DEF OpenInputs, NoInput
  <2>2. \A f \in EventId : f > lastId => inputs'[f] = inputs[f]
    BY <1>1, <1>2, <2>1
  <2>3. QED
    BY <1>1, <2>2
<1>5. QED
  BY <1>1, <1>3, <1>4 DEF StoreTypeOK

(* The proactive DM, the monitor, the operator and the clock touch no row. *)
LEMMA OutsideSteps ==
  ASSUME DeliveryInv,
         \/ \E e \in EventId : SendProactiveDM(e) \/ Resolve(e)
         \/ Monitor
         \/ Tick
  PROVE  DeliveryInv'
<1>1. /\ StoreTypeOK /\ TypeOK /\ ClockOK /\ now \in Nat /\ monQueue \in SUBSET Nat
      /\ MonitorLimit \in Nat
  BY Facts, PipelineAssumption DEF TypeInv, TypeOK, EventId
<1>2. ASSUME NEW e \in EventId, SendProactiveDM(e)  PROVE DeliveryInv'
  <2>1. told' \in {told, told \cup {e}}
    BY <1>2 DEF SendProactiveDM, Tell
  <2>2. UNCHANGED <<now, lastId, events, inputs, up, crashes, pc, drainId, todo, sent, batch,
                    lastDmed, monQueue, monDM, toldTimeout>>
        /\ proactive' = proactive \ {e}
    BY <1>2 DEF SendProactiveDM, storeVars
  <2>3. TypeOK' /\ ClockOK'
    BY <1>1, <2>1, <2>2 DEF TypeOK, StoreTypeOK, ClockOK
  <2>4. QED
    BY <2>1, <2>2, <2>3, OutsideStep
<1>3. ASSUME NEW e \in EventId, Resolve(e)  PROVE DeliveryInv'
  <2>1. /\ UNCHANGED <<now, up, crashes, pc, drainId, todo, sent, batch, lastDmed, proactive,
                       monQueue, monDM, told, toldTimeout>>
        /\ CloseInput(e, "resolved") /\ UNCHANGED <<lastId, events>>
    BY <1>3 DEF Resolve, threadVars, historyVars, CloseInput
  <2>2. StoreTypeOK' /\ ClockOK'
    BY <1>1, <2>1, CloseInputType DEF ClockOK
  <2>3. TypeOK'
    BY <1>1, <2>1, <2>2 DEF TypeOK
  <2>4. QED
    BY <2>1, <2>2, <2>3, OutsideStep
<1>4. CASE MonitorScan
  <2>1. /\ UNCHANGED <<now, lastId, events, inputs, up, crashes, pc, drainId, todo, sent, batch,
                       lastDmed, proactive, monDM, told, toldTimeout>>
        /\ monQueue' \in SUBSET EventId
    BY <1>4 DEF MonitorScan, storeVars, historyVars, OldestOpenInputs, OpenInputs
  <2>2. TypeOK' /\ ClockOK'
    BY <1>1, <2>1 DEF TypeOK, StoreTypeOK, ClockOK
  <2>3. QED
    BY <2>1, <2>2, OutsideStep
<1>5. CASE MonitorClose
  <2>1. PICK e \in EventId : /\ CloseInput(e, "timed_out")
                             /\ monQueue' = monQueue \ {e}
                             /\ monDM' \in {0, e}
    BY <1>1, <1>5, SmallestOfIn DEF MonitorClose, TypeOK
  <2>2. /\ UNCHANGED <<now, up, crashes, pc, drainId, todo, sent, batch, lastDmed, proactive,
                       told, toldTimeout, lastId, events>>
    BY <1>5, <2>1 DEF MonitorClose, historyVars, CloseInput
  <2>3. StoreTypeOK' /\ ClockOK'
    BY <1>1, <2>1, <2>2, CloseInputType DEF ClockOK
  <2>4. TypeOK'
    BY <1>1, <2>1, <2>2, <2>3 DEF TypeOK
  <2>5. QED
    BY <2>2, <2>3, <2>4, OutsideStep
<1>6. CASE MonitorDM
  <2>1. /\ UNCHANGED <<now, lastId, events, inputs, up, crashes, pc, drainId, todo, sent, batch,
                       lastDmed, proactive, monQueue, told>>
        /\ monDM' = 0 /\ toldTimeout' \in {toldTimeout, toldTimeout \cup {monDM}}
        /\ monDM # 0
    BY <1>6 DEF MonitorDM, storeVars
  <2>2. TypeOK' /\ ClockOK'
    BY <1>1, <2>1 DEF TypeOK, StoreTypeOK, ClockOK
  <2>3. QED
    BY <2>1, <2>2, OutsideStep
<1>7. CASE Tick
  <2>1. /\ now' = now + 1
        /\ UNCHANGED <<lastId, events, inputs, up, crashes, pc, drainId, todo, sent, batch,
                       lastDmed, proactive, monQueue, monDM, told, toldTimeout>>
    BY <1>7 DEF Tick, storeVars, threadVars, historyVars
  <2>2. now' \in Nat \ {0}
    BY <1>1, <2>1
  <2>3. TypeOK'
    BY <1>1, <2>1, <2>2 DEF TypeOK, StoreTypeOK
  <2>4. \A e \in EventId : events[e].delivered \in Nat
    BY <1>1 DEF StoreTypeOK, Row
  <2>5. ClockOK'
    BY <1>1, <2>1, <2>4 DEF ClockOK
  <2>6. QED
    BY <2>1, <2>3, <2>5, OutsideStep
<1>8. QED
  BY <1>2, <1>3, <1>4, <1>5, <1>6, <1>7 DEF Monitor

-----------------------------------------------------------------------------
(* The steps of _deliver_event. *)

(* A delivering thread lives, works on a stored row and satisfies its part. *)
LEMMA Delivering ==
  ASSUME DeliveryInv, NEW w \in Workers, pc[w] \in DeliverySteps
  PROVE  /\ Job(w) \in 1 .. lastId /\ Job(w) \in EventId /\ up
         /\ WorkerInv(w)
         /\ pc \in [Workers -> PC] /\ sent \in [Workers -> BOOLEAN]
         /\ batch \in [Workers -> SUBSET EventId]
         /\ pc[w] \notin {"flush", "settle"} => batch[w] = {}
         /\ batch[w] \subseteq {m \in 1 .. lastId : Type(m) = "MILESTONE"}
         /\ w \in EventId => w \in 1 .. lastId
<1>1. WorkerInv(w) /\ TypeOK
  BY DEF DeliveryInv
<1>2. Job(w) \in 1 .. lastId /\ up
  BY <1>1 DEF WorkerInv, WorkerOK, DeliverySteps
<1>3. QED
  BY <1>1, <1>2, Facts DEF TypeOK, WorkerInv, FlushOK, Job

(* A thread that ends, or a drain that goes on to its next row. *)
LEMMA EndsOK ==
  ASSUME DeliveryInv, NEW w \in Workers, pc[w] \in DeliverySteps, pc'[w] = Finished(w),
         batch'[w] = {}, up' = up
  PROVE  WorkerInv(w)'
  BY Delivering DEF WorkerInv, WorkerOK, FlushOK, ToldOK, Finished, RequestSteps, DeliverySteps

(* Recording a delivery error changes nothing the frame reads. *)
LEMMA ErrorGrows ==
  ASSUME DeliveryInv, NEW e \in 1 .. lastId, MarkDeliveryError(e), UNCHANGED <<now, told>>
  PROVE  /\ StoreTypeOK' /\ ClockOK' /\ RowsGrow /\ UNCHANGED <<lastId, inputs>>
         /\ \A f \in EventId : events'[f].delivered = events[f].delivered
<1>1. /\ events' = [events EXCEPT ![e].error = TRUE] /\ UNCHANGED <<lastId, inputs>>
      /\ events \in [EventId -> Row] /\ TypeInv
  BY Facts DEF MarkDeliveryError, StoreTypeOK
<1>2. \A f \in EventId : /\ events'[f].delivered = events[f].delivered
                         /\ events'[f].lead = events[f].lead
                         /\ events'[f].post = events[f].post
  BY <1>1 DEF Row
<1>3. StoreTypeOK' /\ ClockOK'
  BY <1>1, MarkDeliveryErrorType
<1>4. QED
  BY <1>1, <1>2, <1>3, Facts DEF RowsGrow

(* Marking a row delivered only adds to what the frame reads. *)
LEMMA DeliveredGrows ==
  ASSUME DeliveryInv, NEW e \in 1 .. lastId, MarkDelivered(e), UNCHANGED <<now, told>>
  PROVE  /\ StoreTypeOK' /\ ClockOK' /\ RowsGrow /\ UNCHANGED <<lastId, inputs>>
         /\ events'[e].delivered # 0
         /\ \A f \in EventId : /\ f # e => events'[f].delivered = events[f].delivered
                               /\ events'[f].lead = events[f].lead
                               /\ events'[f].post = events[f].post
<1>1. /\ events' = [events EXCEPT ![e].delivered = now, ![e].error = FALSE]
      /\ UNCHANGED <<lastId, inputs>>
      /\ events \in [EventId -> Row] /\ TypeInv /\ e \in EventId
  BY Facts DEF MarkDelivered, StoreTypeOK
<1>2. \A f \in EventId : /\ f # e => events'[f].delivered = events[f].delivered
                         /\ events'[f].lead = events[f].lead
                         /\ events'[f].post = events[f].post
  BY <1>1 DEF Row
<1>3. events'[e].delivered = now
  BY <1>1 DEF Row
<1>4. StoreTypeOK' /\ ClockOK'
  BY <1>1, MarkDeliveredType
<1>5. QED
  BY <1>1, <1>2, <1>3, <1>4, Facts DEF RowsGrow

(* A payload that does not parse ends the delivery with an error. *)
LEMMA RejectStep ==
  ASSUME DeliveryInv, NEW w \in Workers, RejectDelivery(w)
  PROVE  DeliveryInv'
<1>1. pc[w] = "deliver" /\ pc[w] \in DeliverySteps
  BY DEF RejectDelivery, DeliverySteps
<1>2. /\ UNCHANGED <<now, up, crashes, drainId, todo, sent, batch, lastDmed,
                     proactive, monQueue, monDM, told, toldTimeout>>
      /\ pc' = [pc EXCEPT ![w] = Finished(w)]
      /\ MarkDeliveryError(Job(w))
  BY DEF RejectDelivery, historyVars, Goto
<1>3. /\ StoreTypeOK' /\ ClockOK' /\ RowsGrow /\ UNCHANGED <<lastId, inputs>>
      /\ \A f \in EventId : events'[f].delivered = events[f].delivered
  BY <1>1, <1>2, Delivering, ErrorGrows
<1>4. TypeOK'
  BY <1>2, <1>3, Facts DEF TypeOK, PC, Finished
<1>5. \A v \in Workers \ {w} : SameLocal(v)
  BY <1>1, <1>2, Delivering DEF SameLocal, Job
<1>6. WorkerInv(w)'
  BY <1>1, <1>2, Delivering, EndsOK
<1>7. QED
  BY <1>3, <1>4, <1>5, <1>6, ThreadStep

(* A milestone is sent or withheld; the throttle is the process's own. *)
LEMMA MilestoneStep ==
  ASSUME DeliveryInv, NEW w \in Workers, DeliverMilestone(w)
  PROVE  DeliveryInv'
<1>1. pc[w] = "deliver" /\ pc[w] \in DeliverySteps /\ Type(Job(w)) = "MILESTONE"
  BY DEF DeliverMilestone, DeliverySteps
<1>2. /\ UNCHANGED <<now, lastId, events, inputs, up, crashes, drainId, todo, sent, batch,
                     proactive, monQueue, monDM, told, toldTimeout>>
      /\ pc' \in {[pc EXCEPT ![w] = Finished(w)], [pc EXCEPT ![w] = "send"]}
      /\ lastDmed' \in {lastDmed, [lastDmed EXCEPT ![events[Job(w)].lead] = now]}
  BY DEF DeliverMilestone, storeVars, historyVars, Goto
<1>3. TypeOK'
  BY <1>2, Facts DEF TypeOK, StoreTypeOK, PC, Finished
<1>4. WorkerInv(w)'
  <2>1. CASE pc' = [pc EXCEPT ![w] = Finished(w)]
    BY <1>1, <1>2, <2>1, Delivering, EndsOK
  <2>2. CASE pc' = [pc EXCEPT ![w] = "send"]
    <3>1. pc'[w] = "send" /\ Job(w)' = Job(w) /\ Type(Job(w))' = "MILESTONE" /\ batch'[w] = {}
      BY <1>1, <1>2, <2>2, Delivering DEF Job, Type
    <3>2. WorkerOK(w)'
      BY <1>1, <1>2, <3>1, Delivering DEF WorkerOK, RequestSteps
    <3>3. FlushOK(w)' /\ ToldOK(w)'
      BY <3>1 DEF FlushOK, ToldOK
    <3>4. QED
      BY <3>2, <3>3 DEF WorkerInv
  <2>3. QED
    BY <1>2, <2>1, <2>2
<1>5. QED
  BY <1>1, <1>2, <1>3, <1>4, Delivering, LocalStep

(* A COMPLETED takes into its batch every milestone still undelivered. *)
LEMMA CompletedStep ==
  ASSUME DeliveryInv, NEW w \in Workers, DeliverCompleted(w)
  PROVE  DeliveryInv'
<1>1. pc[w] = "deliver" /\ pc[w] \in DeliverySteps /\ Type(Job(w)) = "COMPLETED"
  BY DEF DeliverCompleted, DeliverySteps
<1>2. PICK pending : pending = UndeliveredMilestones(events[Job(w)].lead)
  OBVIOUS
<1>3. /\ UNCHANGED <<now, lastId, events, inputs, up, crashes, drainId, todo, sent, lastDmed,
                     proactive, monQueue, monDM, told, toldTimeout>>
      /\ batch' = [batch EXCEPT ![w] = pending]
      /\ pc' = [pc EXCEPT ![w] = IF pending = {} THEN "send" ELSE "flush"]
  BY <1>2 DEF DeliverCompleted, storeVars, historyVars, Goto
<1>4. pending \subseteq {m \in 1 .. lastId : Type(m) = "MILESTONE"} /\ pending \subseteq EventId
  BY <1>2, Facts DEF UndeliveredMilestones, Milestones
<1>5. TypeOK'
  BY <1>3, <1>4, Facts DEF TypeOK, StoreTypeOK, PC
<1>6. WorkerInv(w)'
  <2>1. /\ pc'[w] \in {"send", "flush"} /\ batch'[w] = pending /\ Job(w)' = Job(w)
        /\ pc'[w] # "flush" => pending = {}
    BY <1>1, <1>3, Delivering DEF Job
  <2>2. WorkerOK(w)'
    BY <1>1, <1>3, <2>1, Delivering DEF WorkerOK, RequestSteps
  <2>3. \A m \in EventId : Type(m)' = Type(m)
    BY <1>3 DEF Type
  <2>4. Type(Job(w))' = "COMPLETED" /\ Milestones(events[Job(w)].lead)' = Milestones(events[Job(w)].lead)
    BY <1>1, <1>3, <2>1, <2>3 DEF Type, Milestones
  <2>5. \A m \in Milestones(events[Job(w)].lead) : events[m].delivered # 0 \/ m \in pending
    BY <1>2 DEF UndeliveredMilestones
  <2>6. FlushOK(w)'
    <3>1. pending \subseteq {m \in 1 .. lastId' : Type(m)' = "MILESTONE"}
      BY <1>3, <1>4, <2>3, Facts
    <3>2. QED
      BY <1>3, <2>1, <2>4, <2>5, <3>1 DEF FlushOK
  <2>7. QED
    BY <2>1, <2>2, <2>6 DEF WorkerInv, ToldOK
<1>7. QED
  BY <1>1, <1>3, <1>5, <1>6, Delivering, LocalStep

(* The other types go straight to their DM. *)
LEMMA OtherStep ==
  ASSUME DeliveryInv, NEW w \in Workers, DeliverOther(w)
  PROVE  DeliveryInv'
<1>1. /\ pc[w] = "deliver" /\ pc[w] \in DeliverySteps
      /\ Type(Job(w)) \in {"STARTED", "NEEDS_INPUT", "ERROR"}
  BY DEF DeliverOther, DeliverySteps
<1>2. /\ UNCHANGED <<now, lastId, events, inputs, up, crashes, drainId, todo, sent, batch, lastDmed,
                     proactive, monQueue, monDM, told, toldTimeout>>
      /\ pc' = [pc EXCEPT ![w] = "send"]
  BY DEF DeliverOther, storeVars, historyVars, Goto
<1>3. TypeOK'
  BY <1>2, Facts DEF TypeOK, StoreTypeOK, PC
<1>4. WorkerInv(w)'
  <2>1. pc'[w] = "send" /\ Job(w)' = Job(w) /\ Type(Job(w))' = Type(Job(w)) /\ batch'[w] = {}
    BY <1>1, <1>2, Delivering DEF Job, Type
  <2>2. WorkerOK(w)'
    BY <1>1, <1>2, <2>1, Delivering DEF WorkerOK, RequestSteps
  <2>3. FlushOK(w)' /\ ToldOK(w)'
    BY <1>1, <2>1 DEF FlushOK, ToldOK
  <2>4. QED
    BY <2>2, <2>3 DEF WorkerInv
<1>5. QED
  BY <1>1, <1>2, <1>3, <1>4, Delivering, LocalStep

(* A local step of a COMPLETED's thread that keeps its batch. *)
LEMMA KeepsFlush ==
  ASSUME NEW w \in Workers, FlushOK(w), pc[w] \in {"flush", "settle"},
         pc'[w] \in {"settle", "send"}, pc'[w] = "send" => batch[w] = {},
         UNCHANGED <<events, lastId, drainId, batch>>
  PROVE  FlushOK(w)'
<1>1. Job(w)' = Job(w) /\ Type(Job(w))' = Type(Job(w))
  BY DEF Job, Type
<1>2. \A m : Type(m)' = Type(m)
  BY DEF Type
<1>3. Milestones(events[Job(w)].lead)' = Milestones(events[Job(w)].lead)
  BY <1>1, <1>2 DEF Milestones
<1>4. QED
  BY <1>1, <1>2, <1>3 DEF FlushOK

(* The flush's DM only adds to what the operator was told. *)
LEMMA SendFlushStep ==
  ASSUME DeliveryInv, NEW w \in Workers, SendFlush(w)
  PROVE  DeliveryInv'
<1>1. pc[w] = "flush" /\ pc[w] \in DeliverySteps
  BY DEF SendFlush, DeliverySteps
<1>2. /\ UNCHANGED <<now, lastId, events, inputs, up, crashes, drainId, todo, sent, batch, lastDmed,
                     proactive, monQueue, monDM, toldTimeout>>
      /\ pc' = [pc EXCEPT ![w] = "settle"]
      /\ told' \in {told, told \cup batch[w]}
  BY DEF SendFlush, storeVars, Goto, Tell
<1>3. TypeOK'
  BY <1>1, <1>2, Facts, Delivering DEF TypeOK, StoreTypeOK, PC
<1>4. pc'[w] = "settle" /\ Job(w)' = Job(w)
  BY <1>1, <1>2, Delivering DEF Job
<1>5. WorkerOK(w)' /\ ToldOK(w)'
  BY <1>1, <1>2, <1>4, Delivering DEF WorkerOK, RequestSteps, ToldOK
<1>6. FlushOK(w)'
  BY <1>1, <1>2, <1>4, Delivering, KeepsFlush DEF WorkerInv
<1>7. WorkerInv(w)'
  BY <1>5, <1>6 DEF WorkerInv
<1>8. QED
  BY <1>1, <1>2, <1>3, <1>7, Delivering, LocalStep

(* Once its batch is settled, the throttle of the lead is forgotten. *)
LEMMA ResetStep ==
  ASSUME DeliveryInv, NEW w \in Workers, ResetThrottle(w)
  PROVE  DeliveryInv'
<1>1. pc[w] = "settle" /\ pc[w] \in DeliverySteps /\ batch[w] = {}
  BY DEF ResetThrottle, DeliverySteps
<1>2. /\ UNCHANGED <<now, lastId, events, inputs, up, crashes, drainId, todo, sent, batch,
                     proactive, monQueue, monDM, told, toldTimeout>>
      /\ pc' = [pc EXCEPT ![w] = "send"]
      /\ lastDmed' = [lastDmed EXCEPT ![events[Job(w)].lead] = 0]
  BY DEF ResetThrottle, storeVars, historyVars, Goto
<1>3. TypeOK'
  BY <1>1, <1>2, Facts, Delivering DEF TypeOK, StoreTypeOK, PC
<1>4. pc'[w] = "send" /\ Job(w)' = Job(w)
  BY <1>1, <1>2, Delivering DEF Job
<1>5. WorkerOK(w)' /\ ToldOK(w)'
  BY <1>1, <1>2, <1>4, Delivering DEF WorkerOK, RequestSteps, ToldOK
<1>6. FlushOK(w)'
  BY <1>1, <1>2, <1>4, Delivering, KeepsFlush DEF WorkerInv
<1>7. WorkerInv(w)'
  BY <1>5, <1>6 DEF WorkerInv
<1>8. QED
  BY <1>1, <1>2, <1>3, <1>7, Delivering, LocalStep

(* Marking a row delivered keeps both verdicts when the row, if urgent,    *)
(* was told, and, if a COMPLETED, has no earlier milestone left.           *)
LEMMA MarkedStep ==
  ASSUME DeliveryInv, NEW e \in 1 .. lastId, MarkDelivered(e), UNCHANGED <<now, told>>,
         IsUrgent(e) => e \in told,
         Type(e) = "COMPLETED" =>
           \A m \in Milestones(events[e].lead) : m < e => events[m].delivered # 0,
         TypeOK', NEW w \in Workers, \A v \in Workers \ {w} : SameLocal(v), WorkerInv(w)'
  PROVE  DeliveryInv'
<1>1. /\ ClockOK' /\ RowsGrow /\ UNCHANGED lastId
      /\ events'[e].delivered # 0
      /\ \A f \in EventId : /\ f # e => events'[f].delivered = events[f].delivered
                            /\ events'[f].lead = events[f].lead
                            /\ events'[f].post = events[f].post
      /\ e \in EventId
  BY Facts, DeliveredGrows
<1>2. \A v \in Workers : WorkerInv(v)'
  BY <1>1, Facts, StableWorker DEF DeliveryInv
<1>3. \A f \in EventId : Type(f)' = Type(f) /\ Milestones(events[f].lead)' = Milestones(events[f].lead)
  BY <1>1 DEF Type, Milestones
<1>4. UrgentDeliveredWasTold'
  BY <1>1, <1>3 DEF UrgentDeliveredWasTold, IsUrgent, DeliveryInv
<1>5. ASSUME NEW c \in EventId, Type(c) = "COMPLETED", events'[c].delivered # 0,
             NEW m \in Milestones(events[c].lead), m < c
      PROVE  events'[m].delivered # 0
  <2>1. m \in EventId
    BY DEF Milestones
  <2>2. events[m].delivered # 0
    <3>1. CASE c = e
      BY <1>5, <3>1
    <3>2. CASE c # e
      BY <1>1, <1>5, <3>2 DEF DeliveryInv, CompletedSettlesMilestones
    <3>3. QED
      BY <3>1, <3>2
  <2>3. QED
    BY <1>1, <2>1, <2>2
<1>6. CompletedSettlesMilestones'
  BY <1>3, <1>5 DEF CompletedSettlesMilestones
<1>7. QED
  BY <1>1, <1>2, <1>4, <1>6 DEF DeliveryInv

(* Settling a milestone moves it from the batch to the delivered rows. *)
LEMMA SettleStep ==
  ASSUME DeliveryInv, NEW w \in Workers, SettleMilestone(w)
  PROVE  DeliveryInv'
<1>1. pc[w] = "settle" /\ pc[w] \in DeliverySteps /\ batch[w] # {}
  BY DEF SettleMilestone, DeliverySteps
<1>2. PICK m \in batch[w] : m = SmallestOf(batch[w])
  <2>1. batch[w] \in SUBSET Nat
    BY <1>1, Delivering, Facts
  <2>2. QED
    BY <1>1, <2>1, SmallestOfIn
<1>3. /\ m \in 1 .. lastId /\ Type(m) = "MILESTONE"
  BY <1>1, Delivering
<1>4. /\ UNCHANGED <<now, up, crashes, pc, drainId, todo, sent, lastDmed,
                     proactive, monQueue, monDM, told, toldTimeout>>
      /\ batch' = [batch EXCEPT ![w] = @ \ {m}]
      /\ MarkDelivered(m)
  BY <1>2 DEF SettleMilestone, historyVars
<1>5. /\ StoreTypeOK' /\ UNCHANGED <<lastId, inputs>>
      /\ events'[m].delivered # 0
      /\ \A f \in EventId : /\ f # m => events'[f].delivered = events[f].delivered
                            /\ events'[f].lead = events[f].lead
                            /\ events'[f].post = events[f].post
  BY <1>3, <1>4, DeliveredGrows
<1>6. TypeOK'
  BY <1>4, <1>5, Facts DEF TypeOK
<1>7. \A v \in Workers \ {w} : SameLocal(v)
  BY <1>1, <1>4, Delivering DEF SameLocal, Job
<1>8. WorkerInv(w)'
  <2>1. /\ pc'[w] = "settle" /\ Job(w)' = Job(w) /\ batch'[w] = batch[w] \ {m}
        /\ Job(w) \in EventId /\ FlushOK(w)
    BY <1>1, <1>4, Delivering DEF Job, WorkerInv
  <2>2. \A f \in EventId : Type(f)' = Type(f) /\ Milestones(events[f].lead)' = Milestones(events[f].lead)
    BY <1>5 DEF Type, Milestones
  <2>3. Type(Job(w))' = Type(Job(w))
        /\ Milestones(events[Job(w)].lead)' = Milestones(events[Job(w)].lead)
    BY <1>5, <2>1, <2>2 DEF Type, Milestones
  <2>4. batch'[w] \subseteq {f \in 1 .. lastId' : Type(f)' = "MILESTONE"}
    BY <1>1, <1>5, <2>1, <2>2, Delivering, Facts
  <2>5. \A f \in Milestones(events[Job(w)].lead) :
          f < Job(w) => events'[f].delivered # 0 \/ f \in batch'[w]
    <3>1. \A f \in Milestones(events[Job(w)].lead) :
            f \in EventId /\ (f < Job(w) => events[f].delivered # 0 \/ f \in batch[w])
      BY <1>1, <2>1 DEF FlushOK, Milestones
    <3>2. QED
      BY <3>1, <1>5, <2>1
  <2>6. FlushOK(w)'
    BY <1>1, <2>1, <2>3, <2>4, <2>5 DEF FlushOK
  <2>7. WorkerOK(w)' /\ ToldOK(w)'
    BY <1>1, <1>4, <1>5, <2>1, Delivering DEF WorkerOK, ToldOK, RequestSteps
  <2>8. QED
    BY <2>6, <2>7 DEF WorkerInv
<1>9. QED
  BY <1>3, <1>4, <1>6, <1>7, <1>8, MarkedStep DEF IsUrgent, UrgentTypes

(* The row's own DM: what the thread remembers of it is what happened. *)
LEMMA SendStep ==
  ASSUME DeliveryInv, NEW w \in Workers, SendDM(w)
  PROVE  DeliveryInv'
<1>1. pc[w] = "send" /\ pc[w] \in DeliverySteps /\ batch[w] = {}
  <2>1. pc[w] = "send" /\ pc[w] \in DeliverySteps
    BY DEF SendDM, DeliverySteps
  <2>2. QED
    BY <2>1, Delivering
<1>2. PICK r \in BOOLEAN :
        /\ told' = IF r THEN told \cup {Job(w)} ELSE told
        /\ sent' = [sent EXCEPT ![w] = r]
        /\ pc' = [pc EXCEPT ![w] = IF r /\ Type(Job(w)) = "NEEDS_INPUT" THEN "link" ELSE "mark"]
  BY PipelineAssumption DEF SendDM, Tell, Goto
<1>3. UNCHANGED <<now, lastId, events, inputs, up, crashes, drainId, todo, batch, lastDmed,
                  proactive, monQueue, monDM, toldTimeout>>
  BY DEF SendDM, storeVars
<1>4. TypeOK'
  BY <1>1, <1>2, <1>3, Facts, Delivering DEF TypeOK, StoreTypeOK, PC
<1>5. WorkerInv(w)'
  <2>1. /\ pc'[w] \in {"link", "mark"} /\ sent'[w] = r /\ Job(w)' = Job(w)
        /\ pc'[w] = "link" => r /\ Type(Job(w)) = "NEEDS_INPUT"
    BY <1>1, <1>2, <1>3, Delivering DEF Job
  <2>2. WorkerOK(w)'
    BY <1>1, <1>3, <2>1, Delivering DEF WorkerOK, RequestSteps
  <2>3. ToldOK(w)'
    BY <1>2, <2>1 DEF ToldOK
  <2>4. FlushOK(w)'
    <3>1. FlushOK(w) /\ Type(Job(w))' = Type(Job(w))
      BY <1>1, <1>3, <2>1, Delivering DEF WorkerInv, Type
    <3>2. Milestones(events[Job(w)].lead)' = Milestones(events[Job(w)].lead)
      BY <1>3, <2>1 DEF Milestones, Type
    <3>3. QED
      BY <1>1, <1>3, <2>1, <3>1, <3>2 DEF FlushOK
  <2>5. QED
    BY <2>2, <2>3, <2>4 DEF WorkerInv
<1>6. QED
  BY <1>1, <1>2, <1>3, <1>4, <1>5, Delivering, LocalStep

(* Linking a question to its DM touches no row of lead_events. *)
LEMMA LinkStep ==
  ASSUME DeliveryInv, NEW w \in Workers, Link(w)
  PROVE  DeliveryInv'
<1>1. pc[w] = "link" /\ pc[w] \in DeliverySteps
  BY DEF Link, DeliverySteps
<1>2. /\ UNCHANGED <<now, lastId, events, up, crashes, drainId, todo, sent, batch, lastDmed,
                     proactive, monQueue, monDM, told, toldTimeout>>
      /\ pc' = [pc EXCEPT ![w] = "mark"]
      /\ LinkMessage(Job(w))
  BY DEF Link, LinkMessage, historyVars, Goto
<1>3. StoreTypeOK'
  BY <1>1, <1>2, Delivering, Facts, LinkMessageType
<1>4. TypeOK'
  BY <1>2, <1>3, Facts DEF TypeOK, PC
<1>5. WorkerInv(w)'
  <2>1. /\ pc'[w] = "mark" /\ Job(w)' = Job(w) /\ Type(Job(w))' = Type(Job(w))
        /\ batch'[w] = {} /\ sent'[w] = sent[w] /\ Type(Job(w)) = "NEEDS_INPUT"
    BY <1>1, <1>2, Delivering DEF Job, Type, WorkerInv, FlushOK
  <2>2. WorkerOK(w)' /\ ToldOK(w)'
    BY <1>1, <1>2, <2>1, Delivering DEF WorkerInv, WorkerOK, ToldOK, RequestSteps
  <2>3. FlushOK(w)'
    BY <2>1 DEF FlushOK
  <2>4. QED
    BY <2>2, <2>3 DEF WorkerInv
<1>6. QED
  BY <1>1, <1>2, <1>4, <1>5, Delivering, LocalStep

(* The mark follows the result of the send. *)
LEMMA MarkStep ==
  ASSUME DeliveryInv, NEW w \in Workers, Mark(w)
  PROVE  DeliveryInv'
<1>1. pc[w] = "mark" /\ pc[w] \in DeliverySteps
  BY DEF Mark, DeliverySteps
<1>2. /\ UNCHANGED <<now, up, crashes, drainId, todo, batch, lastDmed,
                     proactive, monQueue, monDM, told, toldTimeout>>
      /\ pc' = [pc EXCEPT ![w] = Finished(w)]
      /\ sent' = [sent EXCEPT ![w] = FALSE]
  BY DEF Mark, historyVars, Goto
<1>3. WorkerInv(w)'
  BY <1>1, <1>2, Delivering, EndsOK
<1>4. \A v \in Workers \ {w} : SameLocal(v)
  BY <1>1, <1>2, Delivering DEF SameLocal, Job
<1>5. CASE sent[w] \/ ~IsUrgent(Job(w))
  <2>1. MarkDelivered(Job(w))
    BY <1>5 DEF Mark
  <2>2. StoreTypeOK' /\ UNCHANGED lastId
    BY <1>1, <1>2, <2>1, Delivering, DeliveredGrows
  <2>3. TypeOK'
    BY <1>2, <2>2, Facts DEF TypeOK, PC, Finished
  <2>4. IsUrgent(Job(w)) => Job(w) \in told
    BY <1>1, <1>5, Delivering DEF WorkerInv, ToldOK
  <2>5. Type(Job(w)) = "COMPLETED" =>
          \A m \in Milestones(events[Job(w)].lead) : m < Job(w) => events[m].delivered # 0
    BY <1>1, Delivering DEF WorkerInv, FlushOK
  <2>6. QED
    BY <1>1, <1>2, <1>3, <1>4, <2>1, <2>3, <2>4, <2>5, Delivering, MarkedStep
<1>6. CASE ~(sent[w] \/ ~IsUrgent(Job(w)))
  <2>1. MarkDeliveryError(Job(w))
    BY <1>6 DEF Mark
  <2>2. /\ StoreTypeOK' /\ ClockOK' /\ RowsGrow /\ UNCHANGED <<lastId, inputs>>
        /\ \A f \in EventId : events'[f].delivered = events[f].delivered
    BY <1>1, <1>2, <2>1, Delivering, ErrorGrows
  <2>3. TypeOK'
    BY <1>2, <2>2, Facts DEF TypeOK, PC, Finished
  <2>4. QED
    BY <1>3, <1>4, <2>2, <2>3, ThreadStep
<1>7. QED
  BY <1>5, <1>6

-----------------------------------------------------------------------------
(* The drain, a start, a death. *)

(* A bounded set of naturals has a largest element. *)
LEMMA LargestExists ==
  ASSUME NEW S \in SUBSET Nat, NEW b \in Nat, S # {}, \A s \in S : s <= b
  PROVE  \E t \in S : \A u \in S : u <= t
<1> DEFINE D == {d \in 0 .. b : b - d \in S}
<1>1. D \in SUBSET Nat /\ D # {}
  <2>1. PICK s \in S : TRUE
    OBVIOUS
  <2>2. s \in Nat /\ s <= b
    BY <2>1
  <2>3. b - s \in 0 .. b /\ b - (b - s) = s
    BY <2>2
  <2>4. b - s \in D
    BY <2>1, <2>3
  <2>5. D \subseteq Nat
    <3>1. \A d \in D : d \in 0 .. b
      OBVIOUS
    <3>2. QED
      BY <3>1
  <2>6. QED
    BY <2>4, <2>5
<1>2. PICK d \in D : \A f \in D : d <= f
  BY <1>1, SmallestOfIn
<1>3. ASSUME NEW u \in S  PROVE u <= b - d
  <2>1. u \in Nat /\ u <= b
    OBVIOUS
  <2>2. b - u \in 0 .. b /\ b - (b - u) = u
    BY <2>1
  <2>3. b - u \in D
    BY <2>2
  <2>4. d \in Nat /\ d <= b - u
    BY <1>2, <2>3
  <2>5. QED
    BY <2>1, <2>4
<1>4. QED
  BY <1>2, <1>3

(* The throttle is seeded with a time the store holds, or 0. *)
LEMMA SeedType ==
  ASSUME DeliveryInv, NEW l \in Leads
  PROVE  MilestoneLastDelivered(l) \in Nat
<1> DEFINE times == {events[e].delivered : e \in Milestones(l)} \cup {0}
<1>1. times \in SUBSET Nat /\ times # {} /\ \A s \in times : s <= now
  <2>1. \A e \in Milestones(l) : events[e].delivered \in Nat /\ events[e].delivered <= now
    BY Facts DEF Milestones, StoreTypeOK, Row, TypeInv, ClockOK
  <2>2. QED
    BY <2>1, Facts
<1>2. \E t \in times : \A u \in times : u <= t
  BY <1>1, Facts, LargestExists
<1>3. QED
  BY <1>1, <1>2 DEF MilestoneLastDelivered

(* The drain's own steps move it along rows that are stored. *)
LEMMA DrainStep ==
  ASSUME DeliveryInv, DrainRead \/ DrainNext
  PROVE  DeliveryInv'
<1>1. /\ pc[Drain] \in {"scan", "next"} /\ pc \in [Workers -> PC] /\ up
      /\ WorkerInv(Drain) /\ batch[Drain] = {} /\ Drain \in Workers
  BY Facts DEF DeliveryInv, TypeOK, DrainRead, DrainNext, WorkerInv, WorkerOK, FlushOK
<1>2. /\ UNCHANGED <<now, lastId, events, inputs, up, crashes, sent, batch, lastDmed,
                     proactive, monQueue, monDM, told, toldTimeout>>
  BY DEF DrainRead, DrainNext, storeVars, historyVars
<1>3. todo \in SUBSET (1 .. lastId) /\ todo \in SUBSET Nat
  BY Facts DEF TypeOK
<1>4. \E label \in {"next", "idle", "deliver"} :
        /\ pc' = [pc EXCEPT ![Drain] = label]
        /\ drainId' \in 0 .. lastId
        /\ label = "deliver" => drainId' \in 1 .. lastId
        /\ todo' \in SUBSET (1 .. lastId)
  <2>1. CASE DrainRead
    <3>1. UndeliveredUrgent \in SUBSET (1 .. lastId)
      BY Facts DEF UndeliveredUrgent, IsUrgent, UrgentTypes
    <3>2. QED
      BY <2>1, <3>1, Facts DEF DrainRead, Goto, TypeOK
  <2>2. CASE DrainNext /\ todo = {}
    BY <1>3, <2>2, Facts DEF DrainNext, Goto
  <2>3. CASE DrainNext /\ todo # {}
    <3>1. SmallestOf(todo) \in 1 .. lastId
      BY <1>3, <2>3, SmallestOfIn
    <3>2. pc' = [pc EXCEPT ![Drain] = "deliver"] /\ drainId' = SmallestOf(todo)
          /\ todo' = todo \ {SmallestOf(todo)}
      BY <2>3 DEF DrainNext, Goto
    <3>3. drainId' \in 1 .. lastId /\ drainId' \in 0 .. lastId
      BY <3>1, <3>2, Facts
    <3>4. todo' \in SUBSET (1 .. lastId)
      BY <1>3, <3>2
    <3>5. QED
      BY <3>2, <3>3, <3>4
  <2>4. QED
    BY <2>1, <2>2, <2>3
<1>5. TypeOK'
  BY <1>2, <1>4, Facts DEF TypeOK, StoreTypeOK, PC
<1>6. WorkerInv(Drain)'
  <2>1. pc'[Drain] \in {"next", "idle", "deliver"} /\ Job(Drain)' = drainId'
        /\ (pc'[Drain] = "deliver" => drainId' \in 1 .. lastId')
    BY <1>1, <1>2, <1>4 DEF Job
  <2>2. WorkerOK(Drain)'
    BY <1>1, <1>2, <2>1 DEF WorkerOK, RequestSteps, DeliverySteps
  <2>3. FlushOK(Drain)' /\ ToldOK(Drain)'
    BY <1>1, <1>2, <2>1 DEF FlushOK, ToldOK
  <2>4. QED
    BY <2>2, <2>3 DEF WorkerInv
<1>7. \A v \in Workers \ {Drain} : pc'[v] = pc[v]
  BY <1>1, <1>4
<1>8. QED
  BY <1>1, <1>2, <1>5, <1>6, <1>7, LocalStep

(* Verdicts speak of rows and DMs only. *)
LEMMA SameRows ==
  ASSUME DeliveryInv, UNCHANGED <<events, now, told>>
  PROVE  ClockOK' /\ UrgentDeliveredWasTold' /\ CompletedSettlesMilestones'
<1>1. \A e \in EventId : Type(e)' = Type(e) /\ Milestones(events[e].lead)' = Milestones(events[e].lead)
  BY DEF Type, Milestones
<1>2. QED
  BY <1>1 DEF DeliveryInv, ClockOK, UrgentDeliveredWasTold, IsUrgent, CompletedSettlesMilestones

(* An idle thread has nothing to account for. *)
LEMMA IdleOK ==
  ASSUME NEW w \in Workers, pc'[w] = "idle" \/ (w = Drain /\ pc'[w] = "scan" /\ up'), batch'[w] = {}
  PROVE  WorkerInv(w)'
  BY DEF WorkerInv, WorkerOK, FlushOK, ToldOK, RequestSteps, DeliverySteps

(* A start finds no thread, seeds the throttle and starts the drain. *)
LEMMA StartStep ==
  ASSUME DeliveryInv, Start
  PROVE  DeliveryInv'
<1>1. /\ UNCHANGED <<now, lastId, events, inputs, crashes, drainId, todo, sent, batch,
                     proactive, monQueue, monDM, told, toldTimeout>>
      /\ ~up /\ up' = TRUE /\ pc' = [pc EXCEPT ![Drain] = "scan"]
      /\ lastDmed' = [l \in Leads |-> MilestoneLastDelivered(l)]
  BY DEF Start, storeVars, historyVars, Goto
<1>2. lastDmed' \in [Leads -> Nat]
  BY <1>1, SeedType
<1>3. TypeOK'
  BY <1>1, <1>2, Facts DEF TypeOK, StoreTypeOK, PC
<1>4. ASSUME NEW w \in Workers  PROVE WorkerInv(w)'
  <2>1. pc[w] = "idle" /\ batch[w] = {} /\ pc \in [Workers -> PC]
    BY <1>1 DEF DeliveryInv, WorkerInv, WorkerOK, FlushOK, TypeOK
  <2>2. QED
    BY <1>1, <2>1, IdleOK
<1>5. QED
  BY <1>1, <1>3, <1>4, SameRows DEF DeliveryInv

(* A death leaves no thread; the store and what was told remain. *)
LEMMA CrashStep ==
  ASSUME DeliveryInv, Crash
  PROVE  DeliveryInv'
<1>1. /\ UNCHANGED <<now, lastId, events, inputs, told, toldTimeout>>
      /\ up' = FALSE /\ crashes' = crashes + 1 /\ crashes < MaxCrashes
      /\ pc' = [w \in Workers |-> "idle"] /\ sent' = [w \in Workers |-> FALSE]
      /\ batch' = [w \in Workers |-> {}] /\ drainId' = 0 /\ todo' = {}
      /\ lastDmed' = [l \in Leads |-> 0]
      /\ proactive' = {} /\ monQueue' = {} /\ monDM' = 0
  BY DEF Crash, storeVars, historyVars
<1>2. crashes' \in 0 .. MaxCrashes
  BY <1>1, Facts, PipelineAssumption DEF TypeOK
<1>3. TypeOK'
  <2>1. StoreTypeOK' /\ up' \in BOOLEAN
    BY <1>1, Facts DEF StoreTypeOK
  <2>2. /\ pc' \in [Workers -> PC] /\ sent' \in [Workers -> BOOLEAN]
        /\ batch' \in [Workers -> SUBSET EventId] /\ lastDmed' \in [Leads -> Nat]
    BY <1>1 DEF PC
  <2>3. drainId' \in 0 .. lastId' /\ todo' \in SUBSET (1 .. lastId') /\ monDM' \in {0} \cup EventId
    BY <1>1, Facts
  <2>4. QED
    BY <1>1, <1>2, <2>1, <2>2, <2>3, Facts DEF TypeOK
<1>4. ASSUME NEW w \in Workers  PROVE WorkerInv(w)'
  BY <1>1, IdleOK
<1>5. QED
  BY <1>1, <1>3, <1>4, SameRows DEF DeliveryInv

-----------------------------------------------------------------------------
(* The theorems. *)

(* A fresh store and a stopped process satisfy the invariant. *)
LEMMA InitInv == Init => DeliveryInv
<1> SUFFICES ASSUME Init  PROVE DeliveryInv
  OBVIOUS
<1>1. /\ now = 1 /\ lastId = 0 /\ events = [e \in EventId |-> NoRow]
      /\ inputs = [e \in EventId |-> NoInput]
  BY DEF Init, StoreInit
<1>2. NoRow \in Row /\ NoInput \in Input
  BY DEF NoRow, NoInput, Row, Input
<1>3. StoreTypeOK /\ ClockOK
  BY <1>1, <1>2, StoreAssumption DEF StoreTypeOK, ClockOK, NoRow
<1>4. TypeOK
  <2>1. pc \in [Workers -> PC] /\ sent \in [Workers -> BOOLEAN]
    BY DEF Init, PC
  <2>2. batch \in [Workers -> SUBSET EventId] /\ lastDmed \in [Leads -> Nat]
    BY DEF Init
  <2>3. /\ crashes \in 0 .. MaxCrashes /\ drainId \in 0 .. lastId /\ todo \in SUBSET (1 .. lastId)
        /\ monDM \in {0} \cup EventId
    BY <1>1, PipelineAssumption DEF Init
  <2>4. QED
    BY <1>3, <2>1, <2>2, <2>3 DEF Init, TypeOK
<1>5. ASSUME NEW w \in Workers  PROVE WorkerInv(w)
  BY DEF Init, WorkerInv, WorkerOK, FlushOK, ToldOK, RequestSteps, DeliverySteps
<1>6. \A e \in EventId : events[e].delivered = 0
  BY <1>1 DEF NoRow
<1>7. UrgentDeliveredWasTold /\ CompletedSettlesMilestones
  BY <1>6 DEF UrgentDeliveredWasTold, CompletedSettlesMilestones
<1>8. QED
  BY <1>3, <1>4, <1>5, <1>7 DEF DeliveryInv

(* Every step of the pipeline preserves the invariant. *)
LEMMA NextInv == DeliveryInv /\ [Next]_vars => DeliveryInv'
<1> SUFFICES ASSUME DeliveryInv, [Next]_vars  PROVE DeliveryInv'
  OBVIOUS
<1>1. ASSUME NEW l \in Leads, NEW p \in Posts, HandleNotify(l, p)  PROVE DeliveryInv'
  BY <1>1, HandleNotifyStep
<1>2. ASSUME NEW e \in EventId, Request(e)  PROVE DeliveryInv'
  BY <1>2, AutomateStep, LaunchStep, StartDeliveryStep DEF Request
<1>3. ASSUME NEW e \in EventId, SendProactiveDM(e) \/ Resolve(e)  PROVE DeliveryInv'
  BY <1>3, OutsideSteps
<1>4. ASSUME NEW w \in Workers, Deliver(w)  PROVE DeliveryInv'
  BY <1>4, RejectStep, MilestoneStep, CompletedStep, OtherStep, SendFlushStep, SettleStep,
     ResetStep, SendStep, LinkStep, MarkStep DEF Deliver
<1>5. CASE DrainRead \/ DrainNext
  BY <1>5, DrainStep
<1>6. CASE Monitor \/ Tick
  BY <1>6, OutsideSteps
<1>7. ASSUME NEW l \in Reaped, ReaperInsert(l)  PROVE DeliveryInv'
  BY <1>7, ReaperStep, PipelineAssumption
<1>8. CASE Start \/ Crash
  BY <1>8, StartStep, CrashStep
<1>9. CASE UNCHANGED vars
  <2>1. UNCHANGED <<now, lastId, events, inputs, up, crashes, pc, drainId, todo, sent, batch,
                    lastDmed, proactive, monQueue, monDM, told, toldTimeout>>
    BY <1>9 DEF vars, storeVars, threadVars, historyVars
  <2>2. TypeOK' /\ ClockOK'
    BY <2>1, Facts DEF TypeOK, StoreTypeOK, ClockOK, TypeInv
  <2>3. QED
    BY <2>1, <2>2, OutsideStep
<1>10. QED
  BY <1>1, <1>2, <1>3, <1>4, <1>5, <1>6, <1>7, <1>8, <1>9 DEF Next

(* In every life of the pipeline the inductive invariant holds. *)
THEOREM DeliveryInvariant == Spec => []DeliveryInv
  BY InitInv, NextInv, PTL DEF Spec

(* Every table, thread and memory keeps its type. *)
THEOREM TypeCorrect == Spec => []TypeOK
<1>1. DeliveryInv => TypeOK
  BY DEF DeliveryInv
<1>2. QED
  BY <1>1, DeliveryInvariant, PTL

(* An urgent row marked delivered was carried by a DM that got through,    *)
(* for any number of leads, events, deaths and times.                      *)
THEOREM UrgentTold == Spec => []UrgentDeliveredWasTold
<1>1. DeliveryInv => UrgentDeliveredWasTold
  BY DEF DeliveryInv
<1>2. QED
  BY <1>1, DeliveryInvariant, PTL

(* A delivered COMPLETED leaves no earlier milestone of its lead           *)
(* accumulating.                                                           *)
THEOREM CompletedSettles == Spec => []CompletedSettlesMilestones
<1>1. DeliveryInv => CompletedSettlesMilestones
  BY DEF DeliveryInv
<1>2. QED
  BY <1>1, DeliveryInvariant, PTL
-----------------------------------------------------------------------------
(***************************************************************************)
(* On top of DeliveryInv: a verdict on a question stays because each       *)
(* UPDATE that closes one looks at its status (ClosedKept).  The spacing   *)
(* of proactive DMs holds because what claim_proactive_dm compares with -- *)
(* the milestones of the lead -- is all that is ever claimed (ClaimOK).    *)
(* Last, the pipeline implements DeliveryContract: every step of the       *)
(* threads maps to a step of the contract or leaves it alone.              *)
(***************************************************************************)
ClosedKept ==
  \A e \in EventId :
    inputs[e].status \in {"resolved", "timed_out"} => inputs'[e].status = inputs[e].status

(* Only milestones are claimed, by threads that handle one, in the past.   *)
ClaimOK ==
  /\ \A e \in EventId : pc[e] \in RequestSteps => Type(e) = "MILESTONE"
  /\ \A e \in EventId : events[e].proactive # 0 =>
       Type(e) = "MILESTONE" /\ events[e].proactive <= now

QuestionsInv == DeliveryInv /\ ClaimOK /\ ProactiveSpacing /\ TimeoutDMOnlyIfTimedOut
-----------------------------------------------------------------------------
USE DEF storeVars, threadVars, historyVars, vars

(* A step preserves P if each action does.                                 *)
LEMMA PipelineStep ==
  ASSUME NEW P, Next \/ UNCHANGED vars,
         \A l \in Leads, p \in Posts : HandleNotify(l, p) => P,
         \A e \in EventId : Automate(e) => P,
         \A e \in EventId : Launch(e) => P,
         \A e \in EventId : StartDelivery(e) => P,
         \A e \in EventId : SendProactiveDM(e) => P,
         \A e \in EventId : Resolve(e) => P,
         \A w \in Workers : Deliver(w) => P,
         DrainRead => P, DrainNext => P,
         MonitorScan => P, MonitorClose => P, MonitorDM => P,
         \A l \in Reaped : ReaperInsert(l) => P,
         Start => P, Crash => P, Tick => P, UNCHANGED vars => P
  PROVE  P
<1>. HIDE DEF vars
<1>. QED
  BY Zenon DEF Next, Request, Monitor

LEMMA DeliverParts ==
  ASSUME NEW P, NEW w \in Workers, Deliver(w),
         RejectDelivery(w) => P, DeliverMilestone(w) => P, DeliverCompleted(w) => P, DeliverOther(w) => P,
         SendFlush(w) => P, SettleMilestone(w) => P, ResetThrottle(w) => P,
         SendDM(w) => P, Link(w) => P, Mark(w) => P
  PROVE  P
BY Zenon DEF Deliver
-----------------------------------------------------------------------------
(* Verdicts *)

LEMMA InsertClosed ==
  ASSUME StoreTypeOK, NEW l, NEW p, InsertEvent(l, p), MaxEvents \in Nat
  PROVE  ClosedKept
<1>1. /\ lastId \in Nat /\ inputs \in [EventId -> Input]
      /\ \A f \in EventId : f > lastId => inputs[f] = NoInput
  BY DEF StoreTypeOK
<1>2. \A e \in EventId : inputs[e].status \in {"resolved", "timed_out"} => e # lastId + 1
  BY <1>1 DEF NoInput, EventId
<1>3. \/ inputs' = inputs
      \/ \E i : inputs' = [inputs EXCEPT ![lastId + 1] = i]
  BY DEF InsertEvent
<1>. QED
  BY <1>1, <1>2, <1>3 DEF ClosedKept

LEMMA CloseClosed ==
  ASSUME inputs \in [EventId -> Input], NEW e, NEW s, CloseInput(e, s) \/ LinkMessage(e)
  PROVE  ClosedKept
<1>1. CASE CloseInput(e, s)
  BY <1>1 DEF CloseInput, OpenInputs, ClosedKept
<1>2. CASE LinkMessage(e)
  BY <1>2 DEF LinkMessage, OpenInputs, ClosedKept, Input
<1>. QED
  BY <1>1, <1>2

LEMMA SameClosed == inputs' = inputs => ClosedKept
BY DEF ClosedKept

LEMMA ClosedStep ==
  ASSUME DeliveryInv, Next \/ UNCHANGED vars
  PROVE  ClosedKept
<1>0. StoreTypeOK /\ MaxEvents \in Nat /\ inputs \in [EventId -> Input]
  BY Facts DEF StoreTypeOK
<1>1. \A l \in Leads, p \in Posts : HandleNotify(l, p) => ClosedKept
  BY <1>0, InsertClosed DEF HandleNotify
<1>2. \A l \in Reaped : ReaperInsert(l) => ClosedKept
  BY <1>0, InsertClosed DEF ReaperInsert
<1>3. \A e \in EventId : Resolve(e) => ClosedKept
  BY <1>0, CloseClosed DEF Resolve
<1>4. MonitorClose => ClosedKept
  BY <1>0, CloseClosed DEF MonitorClose
<1>5. ASSUME NEW w \in Workers, Deliver(w) PROVE ClosedKept
  <2>1. Link(w) => ClosedKept
    BY <1>0, CloseClosed DEF Link
  <2>2. \/ RejectDelivery(w) \/ DeliverMilestone(w) \/ DeliverCompleted(w) \/ DeliverOther(w)
        \/ SendFlush(w) \/ SettleMilestone(w) \/ ResetThrottle(w) \/ SendDM(w) \/ Mark(w)
        => inputs' = inputs
    BY DEF RejectDelivery, DeliverMilestone, DeliverCompleted, DeliverOther, SendFlush, SettleMilestone,
           ResetThrottle, SendDM, Mark, MarkDelivered, MarkDeliveryError
  <2>. QED
    BY <1>5, <2>1, <2>2, SameClosed, DeliverParts, Zenon
<1>6. \A e \in EventId : Automate(e) \/ Launch(e) \/ StartDelivery(e) \/ SendProactiveDM(e) => inputs' = inputs
  BY DEF Automate, Launch, StartDelivery, SendProactiveDM, ClaimAction, ClaimProactive
<1>7. DrainRead \/ DrainNext \/ MonitorScan \/ MonitorDM \/ Start \/ Crash \/ Tick \/ UNCHANGED vars
        => inputs' = inputs
  BY DEF DrainRead, DrainNext, MonitorScan, MonitorDM, Start, Crash, Tick
<1>. HIDE DEF vars
<1>. QED
  BY <1>1, <1>2, <1>3, <1>4, <1>5, <1>6, <1>7, SameClosed, PipelineStep, Zenon
-----------------------------------------------------------------------------
(* The operator is told of a timeout that is one.                          *)
LEMMA TimeoutStep ==
  ASSUME DeliveryInv, TimeoutDMOnlyIfTimedOut, Next \/ UNCHANGED vars
  PROVE  TimeoutDMOnlyIfTimedOut'
<1>. DEFINE Announced == toldTimeout \cup ({monDM} \ {0})
<1>0. ClosedKept /\ Announced \subseteq EventId
  BY ClosedStep DEF DeliveryInv, TypeOK
<1>1. ASSUME Announced' \subseteq Announced PROVE TimeoutDMOnlyIfTimedOut'
  BY <1>0, <1>1 DEF ClosedKept, TimeoutDMOnlyIfTimedOut
<1>2. ASSUME MonitorClose PROVE TimeoutDMOnlyIfTimedOut'
  <2>1. PICK e : e = SmallestOf(monQueue)
    OBVIOUS
  <2>2. CloseInput(e, "timed_out") /\ monDM' = (IF e \in OpenInputs THEN e ELSE 0) /\ toldTimeout' = toldTimeout
    BY <1>2, <2>1 DEF MonitorClose
  <2>3. CASE e \in OpenInputs
    <3>1. inputs'[e].status = "timed_out"
      BY <2>2, <2>3, Facts DEF CloseInput, OpenInputs, StoreTypeOK, Input
    <3>2. \A f \in toldTimeout : inputs'[f].status = "timed_out"
      BY <1>0 DEF ClosedKept, TimeoutDMOnlyIfTimedOut
    <3>. QED
      BY <2>2, <2>3, <3>1, <3>2 DEF TimeoutDMOnlyIfTimedOut
  <2>4. CASE e \notin OpenInputs
    BY <1>1, <2>2, <2>4
  <2>. QED
    BY <2>3, <2>4
<1>3. MonitorDM => Announced' \subseteq Announced
  BY DEF MonitorDM
<1>4. Crash => Announced' \subseteq Announced
  BY DEF Crash
<1>5. UNCHANGED <<toldTimeout, monDM>> => Announced' \subseteq Announced
  OBVIOUS
<1>6. \A w \in Workers : Deliver(w) => UNCHANGED <<toldTimeout, monDM>>
  BY DEF Deliver, RejectDelivery, DeliverMilestone, DeliverCompleted, DeliverOther, SendFlush, SettleMilestone,
         ResetThrottle, SendDM, Link, Mark
<1>7. \A e \in EventId : Automate(e) \/ Launch(e) \/ StartDelivery(e) \/ SendProactiveDM(e) \/ Resolve(e)
        => UNCHANGED <<toldTimeout, monDM>>
  BY DEF Automate, Launch, StartDelivery, SendProactiveDM, Resolve
<1>8. /\ DrainRead \/ DrainNext \/ MonitorScan \/ Start \/ Tick \/ UNCHANGED vars => UNCHANGED <<toldTimeout, monDM>>
      /\ \A l \in Leads, p \in Posts : HandleNotify(l, p) => UNCHANGED <<toldTimeout, monDM>>
      /\ \A l \in Reaped : ReaperInsert(l) => UNCHANGED <<toldTimeout, monDM>>
  BY DEF DrainRead, DrainNext, MonitorScan, Start, Tick, HandleNotify, ReaperInsert
<1>. HIDE DEF vars, Announced
<1>. QED
  BY <1>1, <1>2, <1>3, <1>4, <1>5, <1>6, <1>7, <1>8, PipelineStep, Zenon
-----------------------------------------------------------------------------
(* Claims: what a step may do to the rows and threads they rest on.        *)
RowsKept ==
  \A e \in EventId : /\ Type(e)' = Type(e) /\ events'[e].lead = events[e].lead
                     /\ events'[e].proactive = events[e].proactive
RequestsShrink == \A e \in EventId : pc'[e] \in RequestSteps => pc[e] \in RequestSteps

LEMMA Spaced ==
  ASSUME RowsKept, ProactiveSpacing
  PROVE  ProactiveSpacing'
BY DEF RowsKept, ProactiveSpacing

LEMMA ClaimsFramed ==
  ASSUME DeliveryInv, ClaimOK, ProactiveSpacing, RowsKept, RequestsShrink, now' \in Nat, now <= now'
  PROVE  ClaimOK' /\ ProactiveSpacing'
<1>1. \A e \in EventId : events[e].proactive \in Nat /\ now \in Nat
  BY Facts DEF StoreTypeOK, Row
<1>2. ASSUME NEW e \in EventId, events'[e].proactive # 0 PROVE Type(e)' = "MILESTONE" /\ events'[e].proactive <= now'
  <2>1. events[e].proactive # 0 /\ Type(e) = "MILESTONE" /\ events[e].proactive <= now
    BY <1>2 DEF RowsKept, ClaimOK
  <2>2. events[e].proactive <= now'
    BY <1>1, <2>1
  <2>. QED
    BY <2>1, <2>2 DEF RowsKept
<1>3. \A e \in EventId : pc'[e] \in RequestSteps => Type(e)' = "MILESTONE"
  BY DEF RowsKept, RequestsShrink, ClaimOK
<1>. QED
  BY <1>2, <1>3, Spaced DEF ClaimOK

(* The marks and the claim of the automation are no proactive claims.      *)
LEMMA MarksKeepRows ==
  ASSUME events \in [EventId -> Row], NEW e,
         MarkDelivered(e) \/ MarkDeliveryError(e) \/ ClaimAction(e)
  PROVE  RowsKept
<1>1. ASSUME MarkDelivered(e) PROVE RowsKept
  BY <1>1 DEF MarkDelivered, RowsKept, Type, Row
<1>2. ASSUME MarkDeliveryError(e) PROVE RowsKept
  BY <1>2 DEF MarkDeliveryError, RowsKept, Type, Row
<1>3. ASSUME ClaimAction(e) PROVE RowsKept
  BY <1>3 DEF ClaimAction, RowsKept, Type, Row
<1>. QED
  BY <1>1, <1>2, <1>3

LEMMA SameRowsKept ==
  ASSUME UNCHANGED events
  PROVE  RowsKept
<1>1. ASSUME NEW e \in EventId
      PROVE  Type(e)' = Type(e) /\ events'[e].lead = events[e].lead /\ events'[e].proactive = events[e].proactive
  <2>. QED
    BY DEF Type
<1>. QED
  BY <1>1 DEF RowsKept

(* insert_event: the new row has no claim, and its thread is a milestone's *)
(* if it starts before its delivery.                                       *)
LEMMA InsertClaims ==
  ASSUME DeliveryInv, ClaimOK, ProactiveSpacing, NEW l \in Leads, NEW p \in Post, InsertEvent(l, p), now' = now,
         \/ pc' = pc
         \/ pc' = [pc EXCEPT ![lastId + 1] = FirstStep(p)]
  PROVE  ClaimOK' /\ ProactiveSpacing'
<1>0. /\ events \in [EventId -> Row] /\ pc \in [Workers -> PC] /\ lastId + 1 \in EventId
      /\ \A e \in EventId : events[e].proactive \in Nat
      /\ EventId \subseteq Workers
  BY Facts, InsertEventType DEF TypeOK, StoreTypeOK, Row
<1>a. PICK id \in EventId : id = lastId + 1
  BY <1>0
<1>1. events' = [events EXCEPT ![id] = [lead |-> l, post |-> p, delivered |-> 0, error |-> FALSE,
                                        action |-> FALSE, proactive |-> 0]]
  BY <1>a DEF InsertEvent
<1>2. events'[id].proactive = 0 /\ Type(id)' = p.type
  BY <1>0, <1>1 DEF Type
<1>3. \A e \in EventId \ {id} : events'[e] = events[e] /\ Type(e)' = Type(e)
  BY <1>0, <1>1 DEF Type
<1>4. ProactiveSpacing'
  BY <1>2, <1>3 DEF ProactiveSpacing
<1>5. \A e \in EventId : events'[e].proactive # 0 => Type(e)' = "MILESTONE" /\ events'[e].proactive <= now'
  BY <1>2, <1>3 DEF ClaimOK
<1>6. FirstStep(p) \in RequestSteps => p.type = "MILESTONE"
  BY DEF FirstStep, RequestSteps
<1>7. Type(id) # "MILESTONE"
  BY <1>a, <1>0, Facts
<1>8. ASSUME NEW e \in EventId, pc'[e] \in RequestSteps PROVE Type(e)' = "MILESTONE"
  <2>1. CASE e = id
    <3>1. pc'[id] = pc[id] \/ pc'[id] = FirstStep(p)
      BY <1>0, <1>a
    <3>. QED
      BY <1>2, <1>6, <1>7, <1>8, <2>1, <3>1 DEF ClaimOK
  <2>2. CASE e # id
    <3>1. pc'[e] = pc[e]
      BY <1>0, <1>a, <2>2
    <3>. QED
      BY <1>3, <1>8, <2>2, <3>1 DEF ClaimOK
  <2>. QED
    BY <2>1, <2>2
<1>. QED
  BY <1>4, <1>5, <1>8 DEF ClaimOK

(* claim_proactive_dm: the row is claimed more than the debounce after     *)
(* every claimed milestone of its lead, and no other row is claimed.       *)
LEMMA ProactiveClaims ==
  ASSUME DeliveryInv, ClaimOK, ProactiveSpacing, NEW e \in EventId, pc[e] = "claim",
         CanClaimProactive(e, DebounceSecs), ClaimProactive(e), now' = now,
         pc' = [pc EXCEPT ![e] = "deliver"]
  PROVE  ClaimOK' /\ ProactiveSpacing'
<1>0. /\ events \in [EventId -> Row] /\ pc \in [Workers -> PC] /\ EventId \subseteq Workers
      /\ \A f \in EventId : events[f].proactive \in Nat
      /\ now \in Nat /\ DebounceSecs \in Nat
  BY Facts, PipelineAssumption DEF TypeOK, StoreTypeOK, Row
<1>1. events' = [events EXCEPT ![e].proactive = now]
  BY DEF ClaimProactive
<1>2. \A f \in EventId : Type(f)' = Type(f) /\ events'[f].lead = events[f].lead
  BY <1>0, <1>1 DEF Type, Row
<1>3. events'[e].proactive = now /\ \A f \in EventId \ {e} : events'[f].proactive = events[f].proactive
  BY <1>0, <1>1 DEF Row
<1>4. Type(e) = "MILESTONE"
  BY DEF ClaimOK, RequestSteps
<1>5. ASSUME NEW f \in EventId \ {e}, events[f].lead = events[e].lead, events[f].proactive # 0
      PROVE  now - events[f].proactive > DebounceSecs
  <2>1. f \in Milestones(events[e].lead)
    BY <1>5 DEF ClaimOK, Milestones
  <2>2. events[f].proactive < now - DebounceSecs
    BY <1>5, <2>1 DEF CanClaimProactive
  <2>. QED
    BY <1>0, <2>2
<1>6. ProactiveSpacing'
  <2>. SUFFICES ASSUME NEW f \in EventId, NEW g \in EventId, f # g, events'[f].lead = events'[g].lead,
                       events'[f].proactive # 0, events'[g].proactive # 0
                PROVE  \/ events'[f].proactive - events'[g].proactive > DebounceSecs
                       \/ events'[g].proactive - events'[f].proactive > DebounceSecs
    BY DEF ProactiveSpacing
  <2>1. CASE f = e
    BY <1>2, <1>3, <1>5, <2>1
  <2>2. CASE g = e
    BY <1>2, <1>3, <1>5, <2>2
  <2>3. CASE f # e /\ g # e
    BY <1>2, <1>3, <2>3 DEF ProactiveSpacing
  <2>. QED
    BY <2>1, <2>2, <2>3
<1>7. \A f \in EventId : events'[f].proactive # 0 => Type(f)' = "MILESTONE" /\ events'[f].proactive <= now'
  <2>1. ASSUME NEW f \in EventId, f # e, events'[f].proactive # 0 PROVE Type(f)' = "MILESTONE" /\ events'[f].proactive <= now'
    BY <1>2, <1>3, <2>1 DEF ClaimOK
  <2>2. Type(e)' = "MILESTONE" /\ events'[e].proactive <= now'
    BY <1>0, <1>2, <1>3, <1>4
  <2>. QED
    BY <2>1, <2>2
<1>8. \A f \in EventId : pc'[f] \in RequestSteps => Type(f)' = "MILESTONE"
  BY <1>0, <1>2 DEF ClaimOK, RequestSteps
<1>. QED
  BY <1>6, <1>7, <1>8 DEF ClaimOK

LEMMA ClaimsStep ==
  ASSUME DeliveryInv, ClaimOK, ProactiveSpacing, Next \/ UNCHANGED vars
  PROVE  ClaimOK' /\ ProactiveSpacing'
<1>. DEFINE P == ClaimOK' /\ ProactiveSpacing'
            Framed == RowsKept /\ RequestsShrink /\ now' \in Nat /\ now <= now'
<1>0. /\ events \in [EventId -> Row] /\ pc \in [Workers -> PC] /\ now \in Nat /\ EventId \subseteq Workers
      /\ now <= now
  BY Facts DEF TypeOK, StoreTypeOK
<1>1. Framed => P
  BY ClaimsFramed
<1>2. ASSUME NEW l \in Leads, NEW p \in Posts, HandleNotify(l, p) PROVE P
  <2>1. p \in Post /\ InsertEvent(l, p) /\ now' = now /\ pc' = [pc EXCEPT ![lastId + 1] = FirstStep(p)]
    BY <1>2, PipelineAssumption DEF HandleNotify, Goto
  <2>. QED
    BY <2>1, InsertClaims
<1>3. ASSUME NEW l \in Reaped, ReaperInsert(l) PROVE P
  <2>1. ReaperPost \in Post
    BY DEF ReaperPost, Post, ValidTypes
  <2>2. l \in Leads /\ InsertEvent(l, ReaperPost) /\ now' = now /\ pc' = pc
    BY <1>3, PipelineAssumption DEF ReaperInsert
  <2>. QED
    BY <2>1, <2>2, InsertClaims
<1>4. RequestsShrink \/ pc' # pc
  BY DEF RequestsShrink
<1>5. ASSUME now' = now, RowsKept, RequestsShrink PROVE P
  BY <1>0, <1>1, <1>5
<1>6. ASSUME NEW w \in Workers, NEW s, Goto(w, s), s \notin RequestSteps \/ pc[w] \in RequestSteps PROVE RequestsShrink
  BY <1>0, <1>6 DEF Goto, RequestsShrink
<1>7. ASSUME NEW e \in EventId, Automate(e) PROVE P
  <2>1. pc[e] \in RequestSteps /\ now' = now /\ e \in Workers
    BY <1>0, <1>7 DEF Automate, RequestSteps
  <2>2. \/ ClaimAction(e) /\ Goto(e, "launch")
        \/ events' = events /\ Goto(e, "claim")
    BY <1>7 DEF Automate
  <2>3. RowsKept
    BY <1>0, <2>2, MarksKeepRows, SameRowsKept
  <2>4. RequestsShrink
    BY <1>6, <2>1, <2>2
  <2>. QED
    BY <1>5, <2>1, <2>3, <2>4
<1>8. ASSUME NEW e \in EventId, Launch(e) PROVE P
  <2>1. pc[e] \in RequestSteps /\ now' = now /\ e \in Workers /\ Goto(e, "claim") /\ events' = events
    BY <1>0, <1>8 DEF Launch, RequestSteps
  <2>2. RequestsShrink
    BY <1>6, <2>1
  <2>. QED
    BY <1>5, <2>1, <2>2, SameRowsKept
<1>9. ASSUME NEW e \in EventId, StartDelivery(e) PROVE P
  <2>1. pc[e] = "claim" /\ now' = now /\ e \in Workers /\ Goto(e, "deliver")
    BY <1>0, <1>9 DEF StartDelivery
  <2>2. CASE WantsProactiveDM(e)
    <3>1. CanClaimProactive(e, DebounceSecs) /\ ClaimProactive(e) /\ pc' = [pc EXCEPT ![e] = "deliver"]
      BY <1>9, <2>2 DEF StartDelivery, WantsProactiveDM, Goto
    <3>. QED
      BY <2>1, <3>1, ProactiveClaims
  <2>3. CASE ~WantsProactiveDM(e)
    <3>1. events' = events
      BY <1>9, <2>3 DEF StartDelivery
    <3>2. RequestsShrink
      BY <1>6, <2>1 DEF RequestSteps
    <3>. QED
      BY <1>5, <2>1, <3>1, <3>2, SameRowsKept
  <2>. QED
    BY <2>2, <2>3
<1>10. ASSUME NEW w \in Workers, Deliver(w) PROVE P
  <2>1. now' = now
    BY <1>10 DEF Deliver, RejectDelivery, DeliverMilestone, DeliverCompleted, DeliverOther, SendFlush,
       SettleMilestone, ResetThrottle, SendDM, Link, Mark
  <2>2. {"send", "flush", "settle", "link", "mark", "idle", "next"} \cap RequestSteps = {}
        /\ Finished(w) \in {"idle", "next"}
    BY DEF RequestSteps, Finished
  <2>3. pc' = pc \/ \E s \in {"send", "flush", "settle", "link", "mark", "idle", "next"} : Goto(w, s)
    <3>1. RejectDelivery(w) \/ Mark(w) => Goto(w, Finished(w))
      BY DEF RejectDelivery, Mark
    <3>2. DeliverMilestone(w) => Goto(w, Finished(w)) \/ Goto(w, "send")
      BY DEF DeliverMilestone
    <3>3. DeliverCompleted(w) => Goto(w, "send") \/ Goto(w, "flush")
      BY DEF DeliverCompleted
    <3>4. DeliverOther(w) \/ ResetThrottle(w) => Goto(w, "send")
      BY DEF DeliverOther, ResetThrottle
    <3>5. SendFlush(w) => Goto(w, "settle")
      BY DEF SendFlush
    <3>6. SettleMilestone(w) => pc' = pc
      BY DEF SettleMilestone
    <3>7. SendDM(w) => Goto(w, "link") \/ Goto(w, "mark")
      BY DEF SendDM
    <3>8. Link(w) => Goto(w, "mark")
      BY DEF Link
    <3>. QED
      BY <1>10, <2>2, <3>1, <3>2, <3>3, <3>4, <3>5, <3>6, <3>7, <3>8 DEF Deliver
  <2>4. RequestsShrink
    BY <1>4, <1>6, <2>2, <2>3
  <2>5. RejectDelivery(w) => RowsKept
    BY <1>0, MarksKeepRows DEF RejectDelivery
  <2>6. Mark(w) => RowsKept
    BY <1>0, MarksKeepRows DEF Mark
  <2>7. SettleMilestone(w) => RowsKept
    BY <1>0, MarksKeepRows DEF SettleMilestone
  <2>8. DeliverMilestone(w) \/ DeliverCompleted(w) \/ DeliverOther(w) \/ SendFlush(w) \/ ResetThrottle(w)
          \/ SendDM(w) \/ Link(w) => events' = events
    BY DEF DeliverMilestone, DeliverCompleted, DeliverOther, SendFlush, ResetThrottle, SendDM, Link, LinkMessage
  <2>9. RowsKept
    BY <1>10, <2>5, <2>6, <2>7, <2>8, SameRowsKept, DeliverParts, Zenon
  <2>. QED
    BY <1>5, <2>1, <2>4, <2>9
<1>11. ASSUME NEW e \in EventId, SendProactiveDM(e) \/ Resolve(e) PROVE P
  <2>1. events' = events /\ pc' = pc /\ now' = now
    BY <1>11 DEF SendProactiveDM, Resolve, CloseInput
  <2>. QED
    BY <1>4, <1>5, <2>1, SameRowsKept
<1>12. ASSUME MonitorScan \/ MonitorClose \/ MonitorDM \/ UNCHANGED vars PROVE P
  <2>1. events' = events /\ pc' = pc /\ now' = now
    BY <1>12 DEF MonitorScan, MonitorClose, MonitorDM, CloseInput
  <2>. QED
    BY <1>4, <1>5, <2>1, SameRowsKept
<1>13. ASSUME DrainRead \/ DrainNext \/ Start PROVE P
  <2>1. events' = events /\ now' = now /\ Drain \in Workers
    BY <1>13, Facts DEF DrainRead, DrainNext, Start
  <2>2. Goto(Drain, "next") \/ Goto(Drain, "idle") \/ Goto(Drain, "deliver") \/ Goto(Drain, "scan")
    BY <1>13 DEF DrainRead, DrainNext, Start
  <2>3. RequestsShrink
    BY <1>6, <2>1, <2>2 DEF RequestSteps
  <2>. QED
    BY <1>5, <2>1, <2>3, SameRowsKept
<1>14. ASSUME Crash PROVE P
  <2>1. events' = events /\ now' = now /\ pc' = [w \in Workers |-> "idle"]
    BY <1>14 DEF Crash
  <2>2. RequestsShrink
    BY <1>0, <2>1 DEF RequestsShrink, RequestSteps
  <2>. QED
    BY <1>5, <2>1, <2>2, SameRowsKept
<1>15. ASSUME Tick PROVE P
  <2>1. events' = events /\ pc' = pc /\ now' = now + 1
    BY <1>15 DEF Tick
  <2>2. now' \in Nat /\ now <= now'
    BY <1>0, <2>1
  <2>. QED
    BY <1>1, <1>4, <2>1, <2>2, SameRowsKept
<1>. HIDE DEF P, vars
<1>16. P
  BY <1>2, <1>3, <1>7, <1>8, <1>9, <1>10, <1>11, <1>12, <1>13, <1>14, <1>15, PipelineStep, Zenon
<1>. QED
  BY <1>16 DEF P
-----------------------------------------------------------------------------
LEMMA QuestionsNext == QuestionsInv /\ [Next]_vars => QuestionsInv'
<1>. SUFFICES ASSUME QuestionsInv, [Next]_vars PROVE QuestionsInv'
  OBVIOUS
<1>1. Next \/ UNCHANGED vars
  OBVIOUS
<1>. HIDE DEF vars
<1>. QED
  BY <1>1, NextInv, ClaimsStep, TimeoutStep DEF QuestionsInv

LEMMA QuestionsInit == Init => QuestionsInv
<1>. SUFFICES ASSUME Init PROVE QuestionsInv
  OBVIOUS
<1>1. DeliveryInv
  BY InitInv
<1>2. /\ \A e \in EventId : events[e].proactive = 0
      /\ toldTimeout = {} /\ monDM = 0
  BY DEF Init, StoreInit, NoRow
<1>3. \A e \in EventId : pc[e] = "idle"
  BY DEF Init, Workers
<1>. QED
  BY <1>1, <1>2, <1>3 DEF QuestionsInv, ClaimOK, RequestSteps, ProactiveSpacing, TimeoutDMOnlyIfTimedOut

(* The questions' and the claims' invariant holds in every life.           *)
THEOREM QuestionsSafe == Spec => []QuestionsInv
BY QuestionsInit, QuestionsNext, PTL DEF Spec

(* Two claims of one lead's proactive DM are more than the debounce apart  *)
(* (claim_proactive_dm).                                                   *)
THEOREM ProactiveDMsAreSpaced == Spec => []ProactiveSpacing
<1>1. QuestionsInv => ProactiveSpacing
  BY DEF QuestionsInv
<1>. QED
  BY <1>1, QuestionsSafe, PTL

(* The monitor tells of a timeout only if its mark was the verdict         *)
(* (mark_pending_timed_out).                                               *)
THEOREM ToldTimeoutsAreTrue == Spec => []TimeoutDMOnlyIfTimedOut
<1>1. QuestionsInv => TimeoutDMOnlyIfTimedOut
  BY DEF QuestionsInv
<1>. QED
  BY <1>1, QuestionsSafe, PTL

(* A verdict on a question is the last one.                                *)
THEOREM VerdictsAreFinal == Spec => ClosedIsFinal
<1>1. DeliveryInv /\ [Next]_vars =>
        [\A e \in EventId : inputs[e].status \in {"resolved", "timed_out"} =>
            inputs'[e].status = inputs[e].status]_vars
  <2>. SUFFICES ASSUME DeliveryInv, Next \/ UNCHANGED vars
                PROVE  \A e \in EventId : inputs[e].status \in {"resolved", "timed_out"} =>
                          inputs'[e].status = inputs[e].status
    OBVIOUS
  <2>. HIDE DEF vars
  <2>. QED
    BY ClosedStep DEF ClosedKept
<1>. QED
  BY <1>1, DeliveryInvariant, PTL DEF Spec, ClosedIsFinal
-----------------------------------------------------------------------------
(* A question times out in silence only by a death or a DM that failed.    *)
TimedOutBefore ==
  \A e \in EventId : inputs'[e].status = "timed_out" => inputs[e].status = "timed_out"

(* A step that closes no question late and leaves the monitor's DM alone.  *)
LEMMA SilenceFrame ==
  ASSUME UNCHANGED <<toldTimeout, monDM>>, TimedOutBefore
  PROVE  SilenceExplained
BY DEF SilenceExplained, SilentTimeout, TimedOutBefore

(* An inserted question is open; an answer and a link make no timeout.     *)
LEMMA InsertNotTimedOut ==
  ASSUME inputs \in [EventId -> Input], NEW l, NEW p, InsertEvent(l, p)
  PROVE  TimedOutBefore
<1>1. CASE inputs' = inputs
  BY <1>1 DEF TimedOutBefore
<1>2. CASE \E i : inputs' = [inputs EXCEPT ![lastId + 1] = i] /\ i.status = "open"
  <2>1. PICK i : inputs' = [inputs EXCEPT ![lastId + 1] = i] /\ i.status = "open"
    BY <1>2
  <2>2. \A e \in EventId : inputs'[e] = inputs[e] \/ inputs'[e] = i
    BY <2>1
  <2>. QED
    BY <2>1, <2>2 DEF TimedOutBefore
<1>3. inputs' = inputs \/ \E i : inputs' = [inputs EXCEPT ![lastId + 1] = i] /\ i.status = "open"
  <2>1. CASE p.type = "NEEDS_INPUT"
    <3>. DEFINE i == [status |-> "open", created |-> now, linked |-> FALSE,
                      timeout |-> IF p.valid THEN p.timeout ELSE 0]
    <3>1. i.status = "open"
      OBVIOUS
    <3>2. inputs' = [inputs EXCEPT ![lastId + 1] = i]
      BY <2>1 DEF InsertEvent
    <3>. HIDE DEF i
    <3>. QED
      BY <3>1, <3>2
  <2>. QED
    BY <2>1 DEF InsertEvent
<1>. QED
  BY <1>1, <1>2, <1>3

LEMMA AnswerNotTimedOut ==
  ASSUME inputs \in [EventId -> Input], NEW e, CloseInput(e, "resolved") \/ LinkMessage(e)
  PROVE  TimedOutBefore
<1>1. CASE CloseInput(e, "resolved")
  BY <1>1 DEF CloseInput, OpenInputs, TimedOutBefore
<1>2. CASE LinkMessage(e)
  BY <1>2 DEF LinkMessage, OpenInputs, TimedOutBefore, Input
<1>. QED
  BY <1>1, <1>2

LEMMA SilenceStep ==
  ASSUME DeliveryInv, Next \/ UNCHANGED vars
  PROVE  SilenceExplained
<1>0. /\ inputs \in [EventId -> Input] /\ up \in BOOLEAN /\ DMResults \subseteq BOOLEAN /\ DMResults # {}
  BY Facts, PipelineAssumption DEF StoreTypeOK, TypeOK
<1>1. inputs' = inputs => TimedOutBefore
  BY DEF TimedOutBefore
<1>2. ASSUME NEW l \in Leads, NEW p \in Posts, HandleNotify(l, p) PROVE SilenceExplained
  BY <1>0, <1>2, InsertNotTimedOut, SilenceFrame DEF HandleNotify
<1>3. ASSUME NEW l \in Reaped, ReaperInsert(l) PROVE SilenceExplained
  BY <1>0, <1>3, InsertNotTimedOut, SilenceFrame DEF ReaperInsert
<1>4. ASSUME NEW e \in EventId, Resolve(e) PROVE SilenceExplained
  BY <1>0, <1>4, AnswerNotTimedOut, SilenceFrame DEF Resolve
<1>5. ASSUME NEW w \in Workers, Deliver(w) PROVE SilenceExplained
  <2>1. UNCHANGED <<toldTimeout, monDM>>
    BY <1>5 DEF Deliver, RejectDelivery, DeliverMilestone, DeliverCompleted, DeliverOther, SendFlush,
       SettleMilestone, ResetThrottle, SendDM, Link, Mark
  <2>2. Link(w) => TimedOutBefore
    BY <1>0, AnswerNotTimedOut DEF Link
  <2>3. ~Link(w) => inputs' = inputs
    BY <1>5 DEF Deliver, RejectDelivery, DeliverMilestone, DeliverCompleted, DeliverOther, SendFlush,
       SettleMilestone, ResetThrottle, SendDM, Mark, MarkDelivered, MarkDeliveryError
  <2>. QED
    BY <1>1, <2>1, <2>2, <2>3, SilenceFrame
<1>6. ASSUME NEW e \in EventId, Automate(e) \/ Launch(e) \/ StartDelivery(e) \/ SendProactiveDM(e) PROVE SilenceExplained
  <2>1. UNCHANGED <<toldTimeout, monDM, inputs>>
    BY <1>6 DEF Automate, Launch, StartDelivery, SendProactiveDM, ClaimAction, ClaimProactive
  <2>. QED
    BY <1>1, <2>1, SilenceFrame
<1>7. ASSUME DrainRead \/ DrainNext \/ MonitorScan \/ Start \/ Tick \/ UNCHANGED vars PROVE SilenceExplained
  <2>1. UNCHANGED <<toldTimeout, monDM, inputs>>
    BY <1>7 DEF DrainRead, DrainNext, MonitorScan, Start, Tick
  <2>. QED
    BY <1>1, <2>1, SilenceFrame
<1>8. ASSUME MonitorClose PROVE SilenceExplained
  <2>1. PICK x : x = SmallestOf(monQueue)
    OBVIOUS
  <2>2. /\ CloseInput(x, "timed_out") /\ monDM = 0 /\ toldTimeout' = toldTimeout
        /\ monDM' = IF x \in OpenInputs THEN x ELSE 0
    BY <1>8, <2>1 DEF MonitorClose
  <2>3. ASSUME NEW e \in EventId, inputs'[e].status = "timed_out", monDM' # e
        PROVE  inputs[e].status = "timed_out"
    BY <1>0, <2>2, <2>3 DEF CloseInput
  <2>4. \A e \in EventId : monDM # e
    BY <2>2, Facts
  <2>. QED
    BY <2>2, <2>3, <2>4 DEF SilenceExplained, SilentTimeout
<1>9. ASSUME MonitorDM PROVE SilenceExplained
  <2>1. PICK r \in DMResults : toldTimeout' = IF r THEN toldTimeout \cup {monDM} ELSE toldTimeout
    BY <1>9 DEF MonitorDM
  <2>2. inputs' = inputs
    BY <1>9 DEF MonitorDM
  <2>3. r = TRUE \/ r = FALSE
    BY <1>0
  <2>4. CASE r = TRUE
    BY <2>1, <2>2, <2>4 DEF SilenceExplained, SilentTimeout
  <2>5. CASE r = FALSE
    BY <2>1, <2>2, <2>5 DEF SilenceExplained, SilentTimeout
  <2>. QED
    BY <2>3, <2>4, <2>5
<1>10. ASSUME Crash PROVE SilenceExplained
  BY <1>10 DEF Crash, SilenceExplained, SilentTimeout
<1>. HIDE DEF vars
<1>. QED
  BY <1>2, <1>3, <1>4, <1>5, <1>6, <1>7, <1>8, <1>9, <1>10, PipelineStep, Zenon

(* While DMs get through, only a death of the process between the          *)
(* monitor's mark and its DM lets a question time out in silence           *)
(* (_timeout_monitor_loop).                                                *)
THEOREM SilenceNeedsDeath == Spec => SilencedByDeath
<1>1. DeliveryInv /\ [Next]_vars => [SilenceExplained]_vars
  <2>. SUFFICES ASSUME DeliveryInv, Next \/ UNCHANGED vars PROVE SilenceExplained
    OBVIOUS
  <2>. HIDE DEF vars
  <2>. QED
    BY SilenceStep
<1>. QED
  BY <1>1, DeliveryInvariant, PTL DEF Spec, SilencedByDeath
-----------------------------------------------------------------------------
(* While the process is up, no urgent row is forgotten: the threads pass   *)
(* it on, and one lets go of it only with a mark or an error (Concluded).  *)
Concluded(e) == events[e].delivered # 0 \/ events[e].error

RowsStay ==
  \A e \in EventId : /\ events'[e].post = events[e].post /\ events'[e].lead = events[e].lead
                     /\ Concluded(e) => Concluded(e)'

Carrying == RequestSteps \cup DeliverySteps

(* What each step keeps of a row it did not insert.                        *)
Passed(e) == IsUrgent(e) /\ InHand(e) => Concluded(e)' \/ InHand(e)'

LEMMA CarryingSteps == Carrying = PC \ {"idle", "scan", "next"}
BY DEF Carrying, RequestSteps, DeliverySteps, PC

LEMMA RowsCarried ==
  ASSUME UrgentIsCarried, RowsStay, up' => up, \A e \in EventId : Passed(e)
  PROVE  UrgentIsCarried'
<1>. SUFFICES ASSUME NEW e \in EventId, up', IsUrgent(e)',
                     ~(events'[e].post = ReaperPost /\ events'[e].lead \in Reaped)
              PROVE  Concluded(e)' \/ InHand(e)'
  BY DEF UrgentIsCarried, Concluded
<1>1. up /\ IsUrgent(e) /\ ~(events[e].post = ReaperPost /\ events[e].lead \in Reaped)
  BY DEF RowsStay, IsUrgent, Type
<1>2. Concluded(e) \/ InHand(e)
  BY <1>1 DEF UrgentIsCarried, Concluded
<1>. QED
  BY <1>1, <1>2 DEF RowsStay, Passed

(* A step outside the threads of _deliver_event.                           *)
LEMMA CarriedOutside ==
  ASSUME UrgentIsCarried, RowsStay, UNCHANGED <<up, pc, drainId, todo>>
  PROVE  UrgentIsCarried'
<1>1. \A e \in EventId : Passed(e)
  BY DEF Passed, InHand, Job
<1>. QED
  BY <1>1, RowsCarried

(* A step of one thread, which keeps its row, concludes it, or may drop it.*)
LEMMA CarriedBy ==
  ASSUME UrgentIsCarried, RowsStay, UNCHANGED <<up, drainId, todo>>,
         NEW w \in Workers, pc[w] \in Carrying, \A v \in Workers \ {w} : pc'[v] = pc[v],
         NEW j, j = Job(w), pc'[w] \in Carrying \/ ~IsUrgent(j) \/ Concluded(j)'
  PROVE  UrgentIsCarried'
<1>1. ASSUME NEW e \in EventId, IsUrgent(e), InHand(e) PROVE Concluded(e)' \/ InHand(e)'
  <2>1. \A v \in Workers : Job(v)' = Job(v)
    BY DEF Job
  <2>2. CASE e \in todo
    BY <2>2 DEF InHand
  <2>3. CASE pc[Drain] = "scan"
    <3>1. Drain # w /\ Drain \in Workers
      BY <2>3, CarryingSteps DEF Workers
    <3>. QED
      BY <2>3, <3>1 DEF InHand
  <2>4. CASE \E v \in Workers : Job(v) = e /\ pc[v] \in Carrying
    <3>1. PICK v \in Workers : Job(v) = e /\ pc[v] \in Carrying
      BY <2>4
    <3>2. CASE v # w \/ pc'[w] \in Carrying
      <4>1. Job(v)' = e /\ pc'[v] \in Carrying
        BY <2>1, <3>1, <3>2
      <4>. QED
        BY <4>1, CarryingSteps DEF InHand
    <3>3. CASE v = w /\ pc'[w] \notin Carrying
      BY <1>1, <3>1, <3>3
    <3>. QED
      BY <3>2, <3>3
  <2>. QED
    BY <1>1, <2>2, <2>3, <2>4, CarryingSteps DEF InHand
<1>. QED
  BY <1>1, RowsCarried DEF Passed

(* What the store's methods do to the rows.                                *)
LEMMA StoreStays ==
  ASSUME DeliveryInv, NEW e \in EventId,
         ClaimAction(e) \/ ClaimProactive(e) \/ MarkDelivered(e) \/ MarkDeliveryError(e)
  PROVE  RowsStay /\ (MarkDelivered(e) \/ MarkDeliveryError(e) => Concluded(e)')
<1>0. events \in [EventId -> Row] /\ now # 0
  BY Facts DEF StoreTypeOK
<1>1. ClaimAction(e) => RowsStay
  BY <1>0 DEF ClaimAction, RowsStay, Concluded, Row
<1>2. ClaimProactive(e) => RowsStay
  BY <1>0 DEF ClaimProactive, RowsStay, Concluded, Row
<1>3. MarkDelivered(e) => RowsStay /\ Concluded(e)'
  BY <1>0 DEF MarkDelivered, RowsStay, Concluded, Row
<1>4. MarkDeliveryError(e) => RowsStay /\ Concluded(e)'
  BY <1>0 DEF MarkDeliveryError, RowsStay, Concluded, Row
<1>. QED
  BY <1>1, <1>2, <1>3, <1>4

LEMMA SameRowsStay == events' = events => RowsStay
BY DEF RowsStay, Concluded

(* A new row is in its request thread's hands, or is the reaper's.         *)
LEMMA InsertCarried ==
  ASSUME DeliveryInv, UrgentIsCarried, NEW l \in Leads, NEW p \in Post, InsertEvent(l, p),
         UNCHANGED <<up, drainId, todo>>,
         \/ pc' = [pc EXCEPT ![lastId + 1] = FirstStep(p)]
         \/ pc' = pc /\ p = ReaperPost /\ l \in Reaped
  PROVE  UrgentIsCarried'
<1>. DEFINE id == lastId + 1
<1>0. /\ id \in EventId /\ id \in Workers /\ id # Drain
      /\ events \in [EventId -> Row] /\ pc \in [Workers -> PC]
  BY Facts DEF InsertEvent, StoreTypeOK, TypeOK, Drain
<1>1. /\ \A e \in EventId \ {id} : events'[e] = events[e]
      /\ events'[id].post = p /\ events'[id].lead = l
  BY <1>0 DEF InsertEvent
<1>2. FirstStep(p) \in Carrying
  BY DEF FirstStep, Carrying, RequestSteps, DeliverySteps
<1>3. \A v \in Workers : Job(v)' = Job(v) /\ (v # id => pc'[v] = pc[v])
  BY <1>0 DEF Job
<1>4. pc[id] \in Carrying => pc'[id] \in Carrying
  BY <1>0, <1>2
<1>5. SUFFICES ASSUME NEW e \in EventId, up', IsUrgent(e)',
                      ~(events'[e].post = ReaperPost /\ events'[e].lead \in Reaped)
               PROVE  Concluded(e)' \/ InHand(e)'
  BY DEF UrgentIsCarried, Concluded
<1>6. CASE e = id
  <2>1. pc'[e] = FirstStep(p) /\ e # Drain
    <3>1. p.type \in UrgentTypes /\ ~(p = ReaperPost /\ l \in Reaped)
      BY <1>1, <1>5, <1>6 DEF IsUrgent, Type
    <3>. QED
      BY <1>0, <1>6, <3>1
  <2>. QED
    BY <1>0, <1>2, <1>6, <2>1, CarryingSteps DEF InHand, Job
<1>7. CASE e # id
  <2>1. IsUrgent(e) /\ up /\ ~(events[e].post = ReaperPost /\ events[e].lead \in Reaped)
    BY <1>1, <1>5, <1>7 DEF IsUrgent, Type
  <2>2. Concluded(e) \/ InHand(e)
    BY <2>1 DEF UrgentIsCarried, Concluded
  <2>3. CASE Concluded(e)
    BY <1>1, <1>7, <2>3 DEF Concluded
  <2>4. CASE \E v \in Workers : Job(v) = e /\ pc[v] \in Carrying
    <3>1. PICK v \in Workers : Job(v) = e /\ pc[v] \in Carrying
      BY <2>4
    <3>2. Job(v)' = e /\ pc'[v] \in Carrying
      BY <1>3, <1>4, <3>1
    <3>. QED
      BY <3>2, CarryingSteps DEF InHand
  <2>5. CASE e \in todo \/ pc[Drain] = "scan"
    BY <1>0, <1>3, <2>5, Facts DEF InHand
  <2>. QED
    BY <2>2, <2>3, <2>4, <2>5, CarryingSteps DEF InHand
<1>. QED
  BY <1>6, <1>7

LEMMA DeliverCarried ==
  ASSUME DeliveryInv, UrgentIsCarried, NEW w \in Workers, Deliver(w)
  PROVE  UrgentIsCarried'
<1>0. /\ pc[w] \in Carrying /\ pc[w] \in DeliverySteps /\ UNCHANGED <<up, drainId, todo>>
      /\ \A v \in Workers \ {w} : pc'[v] = pc[v]
  <2>1. pc[w] \in DeliverySteps
    BY DEF DeliverySteps, Deliver, RejectDelivery, DeliverMilestone, DeliverCompleted, DeliverOther, SendFlush,
       SettleMilestone, ResetThrottle, SendDM, Link, Mark
  <2>2. UNCHANGED <<up, drainId, todo>>
    BY DEF Deliver, RejectDelivery, DeliverMilestone, DeliverCompleted, DeliverOther, SendFlush,
       SettleMilestone, ResetThrottle, SendDM, Link, Mark
  <2>3. pc' = pc \/ \E x : Goto(w, x)
    BY DEF Deliver, RejectDelivery, DeliverMilestone, DeliverCompleted, DeliverOther, SendFlush,
       SettleMilestone, ResetThrottle, SendDM, Link, Mark
  <2>. QED
    BY <2>1, <2>2, <2>3, Delivering DEF Carrying, Goto
<1>1. Job(w) \in EventId /\ pc \in [Workers -> PC]
  BY <1>0, Delivering
<1>. PICK j : j = Job(w)
  OBVIOUS
<1>2. RejectDelivery(w) => RowsStay /\ Concluded(j)'
  BY <1>1, StoreStays DEF RejectDelivery
<1>3. DeliverMilestone(w) => RowsStay /\ ~IsUrgent(j)
  BY SameRowsStay DEF DeliverMilestone, IsUrgent, UrgentTypes
<1>4. DeliverCompleted(w) \/ DeliverOther(w) \/ SendFlush(w) \/ ResetThrottle(w) \/ SendDM(w) \/ Link(w)
        => RowsStay /\ pc'[w] \in Carrying
  <2>1. DeliverCompleted(w) \/ DeliverOther(w) \/ SendFlush(w) \/ ResetThrottle(w) \/ SendDM(w) \/ Link(w)
          => events' = events /\ \E x \in DeliverySteps : Goto(w, x)
    BY DEF DeliverCompleted, DeliverOther, SendFlush, ResetThrottle, SendDM, Link, LinkMessage, DeliverySteps
  <2>. QED
    BY <1>1, <2>1, SameRowsStay DEF Goto, Carrying
<1>5. SettleMilestone(w) => RowsStay /\ pc'[w] \in Carrying
  <2>. SUFFICES ASSUME SettleMilestone(w) PROVE RowsStay /\ pc'[w] \in Carrying
    OBVIOUS
  <2>1. batch[w] \in SUBSET EventId /\ batch[w] \in SUBSET Nat /\ batch[w] # {}
    BY <1>0, Delivering, Facts DEF SettleMilestone
  <2>2. PICK m \in EventId : m = SmallestOf(batch[w])
    BY <2>1, SmallestOfIn
  <2>. QED
    BY <1>0, <2>2, StoreStays DEF SettleMilestone
<1>6. Mark(w) => RowsStay /\ Concluded(j)'
  BY <1>1, StoreStays DEF Mark
<1>7. RowsStay /\ (pc'[w] \in Carrying \/ ~IsUrgent(j) \/ Concluded(j)')
  BY <1>2, <1>3, <1>4, <1>5, <1>6, Zenon DEF Deliver
<1>. QED
  BY <1>0, <1>7, CarriedBy

(* The drain reads every row that is not delivered, then takes them one by *)
(* one; a start hands it all of them.                                      *)
LEMMA DrainCarried ==
  ASSUME DeliveryInv, UrgentIsCarried, DrainRead \/ DrainNext
  PROVE  UrgentIsCarried'
<1>0. /\ events' = events /\ UNCHANGED up /\ pc \in [Workers -> PC] /\ Drain \in Workers
      /\ \A v \in Workers \ {Drain} : pc'[v] = pc[v] /\ Job(v)' = Job(v)
      /\ pc[Drain] \notin Carrying
  BY Facts, CarryingSteps DEF DrainRead, DrainNext, Goto, Job, TypeOK
<1>1. ASSUME NEW e \in EventId, IsUrgent(e),
             \E v \in Workers : Job(v) = e /\ pc[v] \in Carrying  PROVE InHand(e)'
  <2>1. PICK v \in Workers : Job(v) = e /\ pc[v] \in Carrying
    BY <1>1
  <2>2. v # Drain
    BY <1>0, <2>1
  <2>. QED
    BY <1>0, <2>1, <2>2, CarryingSteps DEF InHand
<1>2. ASSUME NEW e \in EventId, IsUrgent(e), DrainRead PROVE Concluded(e)' \/ InHand(e)'
  BY <1>0, <1>2 DEF DrainRead, UndeliveredUrgent, Concluded, InHand
<1>3. ASSUME NEW e \in EventId, e \in todo, DrainNext PROVE InHand(e)'
  <2>1. /\ drainId' = SmallestOf(todo) /\ todo' = todo \ {SmallestOf(todo)}
        /\ pc'[Drain] = "deliver"
    BY <1>0, <1>3 DEF DrainNext, Goto
  <2>2. CASE e = SmallestOf(todo)
    <3>1. Job(Drain)' = e
      BY <2>1, <2>2 DEF Job
    <3>. QED
      BY <1>0, <2>1, <3>1 DEF InHand, PC
  <2>. QED
    BY <1>3, <2>1, <2>2 DEF InHand
<1>4. ASSUME NEW e \in EventId, IsUrgent(e), InHand(e) PROVE Concluded(e)' \/ InHand(e)'
  <2>1. DrainNext => pc[Drain] # "scan"
    BY DEF DrainNext
  <2>. QED
    BY <1>1, <1>2, <1>3, <1>4, <2>1, CarryingSteps DEF InHand
<1>. QED
  BY <1>0, <1>4, RowsCarried, SameRowsStay DEF Passed

LEMMA CarriedStep ==
  ASSUME DeliveryInv, UrgentIsCarried, Next \/ UNCHANGED vars
  PROVE  UrgentIsCarried'
<1>. DEFINE P == UrgentIsCarried'
<1>0. pc \in [Workers -> PC] /\ Drain \in Workers
  BY Facts DEF TypeOK
<1>1. ASSUME NEW l \in Leads, NEW p \in Posts, HandleNotify(l, p) PROVE P
  BY <1>1, InsertCarried, PipelineAssumption DEF HandleNotify, Goto
<1>2. ASSUME NEW l \in Reaped, ReaperInsert(l) PROVE P
  <2>1. ReaperPost \in Post
    BY DEF ReaperPost, Post, ValidTypes
  <2>. QED
    BY <1>2, <2>1, InsertCarried, PipelineAssumption DEF ReaperInsert
<1>3. ASSUME NEW e \in EventId, Automate(e) \/ Launch(e) \/ StartDelivery(e) PROVE P
  <2>1. e \in Workers /\ pc[e] \in Carrying /\ UNCHANGED <<up, drainId, todo>>
    BY <1>3, Facts DEF Automate, Launch, StartDelivery, Carrying, RequestSteps
  <2>2. \E x \in Carrying : Goto(e, x)
    BY <1>3 DEF Automate, Launch, StartDelivery, Carrying, RequestSteps, DeliverySteps
  <2>3. RowsStay
    BY <1>3, StoreStays, SameRowsStay DEF Automate, Launch, StartDelivery
  <2>4. PICK j : j = Job(e)
    OBVIOUS
  <2>. QED
    BY <1>0, <2>1, <2>2, <2>3, <2>4, CarriedBy DEF Goto
<1>4. ASSUME NEW w \in Workers, Deliver(w) PROVE P
  BY <1>4, DeliverCarried
<1>5. ASSUME DrainRead \/ DrainNext PROVE P
  BY <1>5, DrainCarried
<1>6. ASSUME NEW e \in EventId, SendProactiveDM(e) \/ Resolve(e) PROVE P
  BY <1>6, CarriedOutside, SameRowsStay DEF SendProactiveDM, Resolve, CloseInput
<1>7. ASSUME MonitorScan \/ MonitorClose \/ MonitorDM \/ Tick \/ UNCHANGED vars PROVE P
  BY <1>7, CarriedOutside, SameRowsStay DEF MonitorScan, MonitorClose, MonitorDM, CloseInput, Tick
<1>8. Start => P
  BY <1>0 DEF Start, Goto, UrgentIsCarried, InHand
<1>9. Crash => P
  BY DEF Crash, UrgentIsCarried
<1>. HIDE DEF P, vars
<1>10. P
  BY <1>1, <1>2, <1>3, <1>4, <1>5, <1>6, <1>7, <1>8, <1>9, PipelineStep, Zenon
<1>. QED
  BY <1>10 DEF P

(* While the process is up, every urgent row a lead sent is delivered, has *)
(* failed visibly, or is in the hands of a thread: no death, drain, error  *)
(* or early return of _deliver_event strands it until the next start.      *)
THEOREM UrgentRowsAreCarried == Spec => []UrgentIsCarried
<1>. DEFINE CarriedInv == DeliveryInv /\ UrgentIsCarried
<1>1. Init => CarriedInv
  BY InitInv DEF Init, UrgentIsCarried
<1>2. CarriedInv /\ [Next]_vars => CarriedInv'
  <2>. SUFFICES ASSUME CarriedInv, Next \/ UNCHANGED vars PROVE CarriedInv'
    OBVIOUS
  <2>. HIDE DEF vars
  <2>. QED
    BY NextInv, CarriedStep
<1>3. CarriedInv => UrgentIsCarried
  OBVIOUS
<1>. HIDE DEF CarriedInv
<1>. QED
  BY <1>1, <1>2, <1>3, PTL DEF Spec
-----------------------------------------------------------------------------
(* DeliveryContract *)

SettledKept == \A e \in EventId : events'[e].delivered = events[e].delivered

(* The proactive DM threads, too, carry stored rows.                       *)
ContractInv == DeliveryInv /\ proactive \subseteq 1 .. lastId

ContractStep == Contract!ContractNext \/ UNCHANGED Contract!contractVars
-----------------------------------------------------------------------------
(* The steps of the contract, in terms of the pipeline's state.            *)

LEMMA SameKinds ==
  ASSUME RowsKept
  PROVE  [e \in EventId |-> [lead |-> events'[e].lead, type |-> Type(e)']]
         = [e \in EventId |-> [lead |-> events[e].lead, type |-> Type(e)]]
BY DEF RowsKept

LEMMA LeavesContract ==
  ASSUME RowsKept, SettledKept, lastId' = lastId, told' = told
  PROVE  ContractStep
<1>1. {e \in EventId : events'[e].delivered # 0} = {e \in EventId : events[e].delivered # 0}
  BY DEF SettledKept
<1>. QED
  BY <1>1, SameKinds DEF ContractStep, Contract!contractVars

LEMMA TellsContract ==
  ASSUME RowsKept, SettledKept, lastId' = lastId, NEW T \in SUBSET (1 .. lastId), told' = told \cup T
  PROVE  ContractStep
<1>1. {e \in EventId : events'[e].delivered # 0} = {e \in EventId : events[e].delivered # 0}
  BY DEF SettledKept
<1>2. Contract!TellOperator(T)
  BY <1>1, SameKinds DEF Contract!TellOperator
<1>. QED
  BY <1>2 DEF ContractStep, Contract!ContractNext, Contract!Accepted

LEMMA SettlesContract ==
  ASSUME DeliveryInv, NEW e \in 1 .. lastId, MarkDelivered(e), now' = now, told' = told,
         IsUrgent(e) => e \in told,
         Type(e) = "COMPLETED" => \A m \in Milestones(events[e].lead) : m < e => events[m].delivered # 0
  PROVE  ContractStep
<1>0. e \in EventId /\ events \in [EventId -> Row] /\ EventId = 1 .. MaxEvents
  BY Facts DEF StoreTypeOK
<1>1. /\ lastId' = lastId /\ events'[e].delivered # 0
      /\ \A f \in EventId : f # e => events'[f].delivered = events[f].delivered
  BY DeliveredGrows
<1>2. RowsKept
  BY <1>0, MarksKeepRows
<1>3. {f \in EventId : events'[f].delivered # 0} = {f \in EventId : events[f].delivered # 0} \cup {e}
  BY <1>0, <1>1
<1>4. Contract!EarlierMilestones(e) \subseteq {m \in Milestones(events[e].lead) : m < e}
  BY <1>0 DEF Contract!EarlierMilestones, Contract!Rows, Milestones
<1>5. Type(e) = "COMPLETED" => Contract!EarlierMilestones(e) \subseteq {f \in EventId : events[f].delivered # 0}
  BY <1>4 DEF Milestones
<1>6. Contract!SettleRow(e)
  BY <1>0, <1>1, <1>2, <1>3, <1>5, SameKinds DEF Contract!SettleRow, IsUrgent
<1>. QED
  BY <1>6 DEF ContractStep, Contract!ContractNext, Contract!Accepted

LEMMA AcceptsContract ==
  ASSUME DeliveryInv, NEW l \in Leads, NEW p \in Post, InsertEvent(l, p), UNCHANGED <<now, told>>
  PROVE  ContractStep
<1>0. events \in [EventId -> Row] /\ lastId + 1 \in EventId /\ EventId = 1 .. MaxEvents
  BY Facts, InsertEventType DEF StoreTypeOK
<1>1. /\ events' = [events EXCEPT ![lastId + 1] =
                      [lead |-> l, post |-> p, delivered |-> 0, error |-> FALSE,
                       action |-> FALSE, proactive |-> 0]]
      /\ lastId < MaxEvents /\ lastId' = lastId + 1
  BY DEF InsertEvent
<1>2. {e \in EventId : events'[e].delivered # 0} = {e \in EventId : events[e].delivered # 0}
  BY InsertGrows
<1>3. [e \in EventId |-> [lead |-> events'[e].lead, type |-> Type(e)']]
        = [[e \in EventId |-> [lead |-> events[e].lead, type |-> Type(e)]]
             EXCEPT ![lastId + 1] = [lead |-> l, type |-> p.type]]
  BY <1>0, <1>1 DEF Type
<1>4. Contract!Accept(l, p.type)
  BY <1>1, <1>2, <1>3 DEF Contract!Accept
<1>5. p.type \in ValidTypes
  BY DEF Post
<1>. QED
  BY <1>4, <1>5 DEF ContractStep, Contract!ContractNext
-----------------------------------------------------------------------------
(* The steps of the pipeline.                                              *)

(* Proactive DM threads are started for stored rows only.                  *)
LEMMA ProactiveStored ==
  ASSUME ContractInv, Next \/ UNCHANGED vars
  PROVE  proactive' \subseteq 1 .. lastId'
<1>. DEFINE P == proactive' \subseteq 1 .. lastId'
<1>0. DeliveryInv /\ lastId \in Nat /\ proactive \subseteq 1 .. lastId
  BY Facts DEF ContractInv
<1>1. ASSUME proactive' \subseteq proactive, lastId' = lastId PROVE P
  BY <1>0, <1>1
<1>2. ASSUME proactive' = proactive, NEW l, NEW p, InsertEvent(l, p) PROVE P
  BY <1>0, <1>2 DEF InsertEvent
<1>3. ASSUME NEW e \in EventId, StartDelivery(e) PROVE P
  <2>1. e \in 1 .. lastId
    BY <1>0, <1>3, Facts DEF StartDelivery, DeliveryInv, WorkerInv, WorkerOK, RequestSteps, Job
  <2>2. lastId' = lastId /\ proactive' \subseteq proactive \cup {e}
    BY <1>3 DEF StartDelivery, ClaimProactive
  <2>. QED
    BY <1>0, <2>1, <2>2
<1>4. ASSUME NEW w \in Workers, Deliver(w) PROVE P
  <2>1. proactive' = proactive /\ lastId' = lastId
    BY <1>4 DEF Deliver, RejectDelivery, DeliverMilestone, DeliverCompleted, DeliverOther, SendFlush,
       SettleMilestone, ResetThrottle, SendDM, Link, Mark, MarkDelivered, MarkDeliveryError, LinkMessage
  <2>. QED
    BY <1>1, <2>1
<1>5. ASSUME NEW e \in EventId, Automate(e) \/ Launch(e) \/ SendProactiveDM(e) \/ Resolve(e) PROVE P
  <2>1. proactive' \subseteq proactive /\ lastId' = lastId
    BY <1>5 DEF Automate, ClaimAction, Launch, SendProactiveDM, Resolve, CloseInput
  <2>. QED
    BY <1>1, <2>1
<1>6. ASSUME DrainRead \/ DrainNext \/ MonitorScan \/ MonitorClose \/ MonitorDM \/ Start \/ Crash \/ Tick
             \/ UNCHANGED vars PROVE P
  <2>1. proactive' \subseteq proactive /\ lastId' = lastId
    BY <1>6 DEF DrainRead, DrainNext, MonitorScan, MonitorClose, MonitorDM, CloseInput, Start, Crash, Tick
  <2>. QED
    BY <1>1, <2>1
<1>7. ASSUME NEW l \in Leads, NEW p \in Posts, HandleNotify(l, p) PROVE P
  BY <1>2, <1>7 DEF HandleNotify
<1>8. ASSUME NEW l \in Reaped, ReaperInsert(l) PROVE P
  BY <1>2, <1>8 DEF ReaperInsert
<1>. HIDE DEF P, vars
<1>9. P
  BY <1>3, <1>4, <1>5, <1>6, <1>7, <1>8, PipelineStep, Zenon
<1>. QED
  BY <1>9 DEF P

(* _deliver_event: DMs tell, marks settle, errors leave the contract alone.*)
LEMMA DeliverContract ==
  ASSUME DeliveryInv, NEW w \in Workers, Deliver(w)
  PROVE  ContractStep
<1>0. events \in [EventId -> Row] /\ now' = now
  BY Facts DEF StoreTypeOK, Deliver, RejectDelivery, DeliverMilestone, DeliverCompleted, DeliverOther, SendFlush,
     SettleMilestone, ResetThrottle, SendDM, Link, Mark
<1>1. pc[w] \in DeliverySteps
  BY DEF DeliverySteps, Deliver, RejectDelivery, DeliverMilestone, DeliverCompleted, DeliverOther, SendFlush,
     SettleMilestone, ResetThrottle, SendDM, Link, Mark
<1>2. ASSUME UNCHANGED <<events, lastId, told>> PROVE ContractStep
  BY <1>2, SameRowsKept, LeavesContract DEF SettledKept
<1>3. ASSUME NEW T \in SUBSET (1 .. lastId), NEW r, Tell(T, r), UNCHANGED <<events, lastId>> PROVE ContractStep
  <2>1. told' = told \cup T \/ told' = told
    BY <1>3 DEF Tell
  <2>2. RowsKept /\ SettledKept
    BY <1>3, SameRowsKept DEF SettledKept
  <2>. QED
    BY <1>2, <1>3, <2>1, <2>2, TellsContract
<1>4. ASSUME NEW e \in 1 .. lastId, MarkDeliveryError(e), told' = told PROVE ContractStep
  <2>1. lastId' = lastId /\ SettledKept
    BY <1>0, <1>4, ErrorGrows DEF SettledKept
  <2>2. e \in EventId
    BY Facts
  <2>. QED
    BY <1>0, <1>4, <2>1, <2>2, MarksKeepRows, LeavesContract
<1>5. RejectDelivery(w) => ContractStep
  BY <1>1, <1>4, Delivering DEF RejectDelivery
<1>6. DeliverMilestone(w) \/ DeliverCompleted(w) \/ DeliverOther(w) \/ ResetThrottle(w) \/ Link(w) => ContractStep
  BY <1>2 DEF DeliverMilestone, DeliverCompleted, DeliverOther, ResetThrottle, Link, LinkMessage
<1>7. SendFlush(w) => ContractStep
  <2>1. batch[w] \in SUBSET (1 .. lastId)
    BY <1>1, Delivering
  <2>. QED
    BY <1>3, <2>1 DEF SendFlush
<1>8. SendDM(w) => ContractStep
  <2>1. {Job(w)} \in SUBSET (1 .. lastId)
    BY <1>1, Delivering
  <2>. QED
    BY <1>3, <2>1 DEF SendDM
<1>9. ASSUME SettleMilestone(w) PROVE ContractStep
  <2>1. batch[w] \in SUBSET Nat /\ batch[w] # {}
    BY <1>1, <1>9, Delivering, Facts DEF SettleMilestone
  <2>2. PICK m \in batch[w] : m = SmallestOf(batch[w])
    BY <2>1, SmallestOfIn
  <2>3. m \in 1 .. lastId /\ Type(m) = "MILESTONE"
    BY <1>1, Delivering
  <2>4. MarkDelivered(m) /\ told' = told
    BY <1>9, <2>2 DEF SettleMilestone
  <2>. QED
    BY <1>0, <2>3, <2>4, SettlesContract DEF IsUrgent, UrgentTypes
<1>10. ASSUME Mark(w) PROVE ContractStep
  <2>1. pc[w] = "mark" /\ told' = told /\ Job(w) \in 1 .. lastId
    BY <1>1, <1>10, Delivering DEF Mark
  <2>2. CASE sent[w] \/ ~IsUrgent(Job(w))
    <3>1. MarkDelivered(Job(w))
      BY <1>10, <2>2 DEF Mark
    <3>2. IsUrgent(Job(w)) => Job(w) \in told
      BY <1>1, <2>1, <2>2, Delivering DEF WorkerInv, ToldOK
    <3>3. Type(Job(w)) = "COMPLETED" =>
            \A m \in Milestones(events[Job(w)].lead) : m < Job(w) => events[m].delivered # 0
      BY <1>1, <2>1, Delivering DEF WorkerInv, FlushOK
    <3>. QED
      BY <1>0, <2>1, <3>1, <3>2, <3>3, SettlesContract
  <2>3. CASE ~(sent[w] \/ ~IsUrgent(Job(w)))
    BY <1>4, <1>10, <2>1, <2>3 DEF Mark
  <2>. QED
    BY <2>2, <2>3
<1>. QED
  BY <1>5, <1>6, <1>7, <1>8, <1>9, <1>10, DeliverParts, Zenon

LEMMA StepContract ==
  ASSUME ContractInv, Next \/ UNCHANGED vars
  PROVE  ContractStep
<1>0. DeliveryInv /\ events \in [EventId -> Row] /\ proactive \subseteq 1 .. lastId
  BY Facts DEF ContractInv, StoreTypeOK
<1>1. ASSUME UNCHANGED <<events, lastId, told>> PROVE ContractStep
  BY <1>1, SameRowsKept, LeavesContract DEF SettledKept
<1>2. ASSUME NEW l \in Leads, NEW p \in Posts, HandleNotify(l, p) PROVE ContractStep
  BY <1>0, <1>2, PipelineAssumption, AcceptsContract DEF HandleNotify
<1>3. ASSUME NEW l \in Reaped, ReaperInsert(l) PROVE ContractStep
  <2>1. ReaperPost \in Post
    BY DEF ReaperPost, Post, ValidTypes
  <2>. QED
    BY <1>0, <1>3, <2>1, PipelineAssumption, AcceptsContract DEF ReaperInsert
<1>4. ASSUME NEW e \in EventId, Automate(e) PROVE ContractStep
  <2>1. ClaimAction(e) \/ events' = events
    BY <1>4 DEF Automate
  <2>2. UNCHANGED <<lastId, told>> /\ RowsKept
    BY <1>0, <1>4, <2>1, MarksKeepRows, SameRowsKept DEF Automate, ClaimAction
  <2>3. SettledKept
    BY <1>0, <2>1 DEF ClaimAction, SettledKept, Row
  <2>. QED
    BY <2>2, <2>3, LeavesContract
<1>5. ASSUME NEW e \in EventId, StartDelivery(e) PROVE ContractStep
  <2>1. ClaimProactive(e) \/ events' = events
    BY <1>5 DEF StartDelivery
  <2>2. UNCHANGED <<lastId, told>>
    BY <1>5 DEF StartDelivery, ClaimProactive
  <2>3. CASE events' = events
    BY <1>1, <2>2, <2>3
  <2>4. CASE ClaimProactive(e)
    <3>1. \A f \in EventId : /\ events'[f].lead = events[f].lead /\ Type(f)' = Type(f)
                             /\ events'[f].delivered = events[f].delivered
      BY <1>0, <2>4 DEF ClaimProactive, Type, Row
    <3>. QED
      BY <2>2, <3>1 DEF ContractStep, Contract!contractVars
  <2>. QED
    BY <2>1, <2>3, <2>4
<1>6. ASSUME NEW e \in EventId, SendProactiveDM(e) PROVE ContractStep
  <2>1. e \in 1 .. lastId /\ UNCHANGED <<events, lastId>>
    BY <1>0, <1>6 DEF SendProactiveDM
  <2>2. told' = told \cup {e} \/ told' = told
    BY <1>6 DEF SendProactiveDM, Tell
  <2>3. RowsKept /\ SettledKept
    BY <2>1, SameRowsKept DEF SettledKept
  <2>. QED
    BY <1>1, <2>1, <2>2, <2>3, TellsContract
<1>7. ASSUME NEW w \in Workers, Deliver(w) PROVE ContractStep
  BY <1>0, <1>7, DeliverContract
<1>8. ASSUME NEW e \in EventId, Launch(e) \/ Resolve(e) PROVE ContractStep
  BY <1>1, <1>8 DEF Launch, Resolve, CloseInput
<1>9. ASSUME DrainRead \/ DrainNext \/ MonitorScan \/ MonitorClose \/ MonitorDM \/ Start \/ Crash \/ Tick
             \/ UNCHANGED vars PROVE ContractStep
  BY <1>1, <1>9 DEF DrainRead, DrainNext, MonitorScan, MonitorClose, MonitorDM, CloseInput, Start, Crash, Tick
<1>. HIDE DEF vars
<1>. QED
  BY <1>2, <1>3, <1>4, <1>5, <1>6, <1>7, <1>8, <1>9, PipelineStep, Zenon

LEMMA InitContract == Init => ContractInv /\ Contract!ContractInit
<1>. SUFFICES ASSUME Init PROVE ContractInv /\ Contract!ContractInit
  OBVIOUS
<1>1. /\ lastId = 0 /\ told = {} /\ proactive = {} /\ events = [e \in EventId |-> NoRow]
  BY DEF Init, StoreInit
<1>2. \A e \in EventId : events[e].lead = "none" /\ Type(e) = "none" /\ events[e].delivered = 0
  BY <1>1 DEF NoRow, NoPost, Type
<1>3. Contract!ContractInit
  BY <1>1, <1>2 DEF Contract!ContractInit, Contract!Rows, Contract!NoKind, EventId
<1>. QED
  BY <1>1, <1>3, InitInv DEF ContractInv

(* The threads implement the promise: rows are accepted in id order, an    *)
(* urgent row is settled only after it was told and a COMPLETED only after *)
(* every earlier milestone of its lead, and nothing settled is undone,     *)
(* whatever the throttle, the drain and the deaths of the process do.      *)
THEOREM PipelineImplementsContract == Spec => ImplementsContract
<1>1. ContractInv /\ [Next]_vars => ContractInv'
  <2>. SUFFICES ASSUME ContractInv, [Next]_vars PROVE ContractInv'
    OBVIOUS
  <2>1. Next \/ UNCHANGED vars
    OBVIOUS
  <2>. HIDE DEF vars
  <2>2. DeliveryInv'
    BY NextInv DEF ContractInv
  <2>. QED
    BY <2>1, <2>2, ProactiveStored DEF ContractInv
<1>2. ContractInv /\ [Next]_vars => [Contract!ContractNext]_Contract!contractVars
  <2>. SUFFICES ASSUME ContractInv, Next \/ UNCHANGED vars PROVE ContractStep
    BY DEF ContractStep
  <2>. HIDE DEF vars
  <2>. QED
    BY StepContract
<1>. QED
  BY <1>1, <1>2, InitContract, PTL DEF Spec, ImplementsContract, Contract!ContractSpec
=============================================================================
