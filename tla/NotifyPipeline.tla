--------------------------- MODULE NotifyPipeline ---------------------------
(***************************************************************************)
(* The notify pipeline of the orchestrator process (hermes_api): a lead    *)
(* POSTs an event, a request thread stores it and starts a delivery        *)
(* thread, the delivery thread DMs the operator and marks the row.  A      *)
(* drain thread re-delivers urgent rows after a start, a monitor thread    *)
(* closes expired questions, and the process may die between any two       *)
(* steps.  Only the store survives a death.                                *)
(*                                                                         *)
(* A worker is a thread that runs _deliver_event: worker e > 0 is the      *)
(* request thread of event e and then the delivery thread it starts;       *)
(* worker Drain is the startup drain, which delivers one row after         *)
(* another.  A step of a worker is what it does between two acquisitions   *)
(* of a lock or two calls that leave the process.                          *)
(***************************************************************************)
EXTENDS EventStore

CONSTANTS Posts,         \* the posts the leads may send
          ThrottleSecs,  \* _MILESTONE_THROTTLE_SECS
          DebounceSecs,  \* _PROACTIVE_DM_DEBOUNCE_SECS
          WindowEnd,     \* HERMES_AUTO_RESTART_WINDOW_UTC
          MonitorLimit,  \* the monitor's get_open_pending_inputs limit
          DMResults,     \* outcomes of a DM: both, or only success
          Reaped,        \* leads the reaper may stop for their size
          MaxTime,       \* bound on the clock
          MaxCrashes     \* bound on the deaths of the process

ASSUME PipelineAssumption ==
  /\ Posts \subseteq Post
  /\ ThrottleSecs \in Nat /\ DebounceSecs \in Nat
  /\ WindowEnd \in Nat /\ MonitorLimit \in Nat
  /\ DMResults \subseteq BOOLEAN /\ DMResults # {}
  /\ Reaped \subseteq Leads
  /\ MaxTime \in Nat /\ MaxCrashes \in Nat

VARIABLES
  up,          \* is the process running?
  crashes,     \* deaths so far
  pc,          \* what each worker does next
  drainId,     \* the row the drain is delivering
  todo,        \* the rows the drain has still to deliver
  sent,        \* did the worker's last DM get through?
  batch,       \* milestones a COMPLETED's worker has still to mark
  lastDmed,    \* _milestone_last_dmed, 0 for a missing key
  proactive,   \* rows whose proactive DM thread is running
  monQueue,    \* expired rows the monitor has still to close
  monDM,       \* the row whose timeout the monitor is about to DM, or 0
  (* history *)
  told,        \* rows carried by a DM that got through
  toldTimeout  \* rows whose timeout was DMed

threadVars  == <<pc, drainId, todo, sent, batch, proactive, monQueue, monDM>>
historyVars == <<told, toldTimeout>>
vars == <<now, storeVars, up, crashes, threadVars, lastDmed, historyVars>>

Drain   == 0
Workers == {Drain} \cup EventId

PC == {"idle",                                   \* both
       "automate", "launch", "claim",            \* request thread
       "scan", "next",                           \* drain
       "deliver", "flush", "settle", "send", "link", "mark"}

TypeOK ==
  /\ StoreTypeOK
  /\ up \in BOOLEAN
  /\ crashes \in 0 .. MaxCrashes
  /\ pc \in [Workers -> PC]
  /\ drainId \in 0 .. lastId
  /\ todo \in SUBSET (1 .. lastId)
  /\ sent \in [Workers -> BOOLEAN]
  /\ batch \in [Workers -> SUBSET EventId]
  /\ lastDmed \in [Leads -> Nat]
  /\ proactive \in SUBSET EventId
  /\ monQueue \in SUBSET EventId
  /\ monDM \in {0} \cup EventId
  /\ told \in SUBSET EventId
  /\ toldTimeout \in SUBSET EventId

Init ==
  /\ StoreInit
  /\ up = FALSE
  /\ crashes = 0
  /\ pc = [w \in Workers |-> "idle"]
  /\ drainId = 0
  /\ todo = {}
  /\ sent = [w \in Workers |-> FALSE]
  /\ batch = [w \in Workers |-> {}]
  /\ lastDmed = [l \in Leads |-> 0]
  /\ proactive = {}
  /\ monQueue = {}
  /\ monDM = 0
  /\ told = {}
  /\ toldTimeout = {}

SmallestOf(S) == CHOOSE e \in S : \A f \in S : e <= f

(* The row worker w is delivering. *)
Job(w) == IF w = Drain THEN drainId ELSE w

Finished(w) == IF w = Drain THEN "next" ELSE "idle"

Goto(w, label) == pc' = [pc EXCEPT ![w] = label]

(* A DM that carried the rows S returned r. *)
Tell(S, r) == told' = IF r THEN told \cup S ELSE told

-----------------------------------------------------------------------------
(* _handle_notify: store the row, then trigger the automation, then claim  *)
(* and start the proactive DM of a milestone, then start the delivery.     *)
(* A thread goes straight to the first of these that its row can concern.  *)

FirstStep(p) ==
  IF p.type = "MILESTONE" /\ p.valid
  THEN IF p.restart THEN "automate"
       ELSE IF p.attention THEN "claim" ELSE "deliver"
  ELSE "deliver"

HandleNotify(l, p) ==
  /\ up
  /\ InsertEvent(l, p)
  /\ Goto(lastId + 1, FirstStep(p))
  /\ UNCHANGED <<now, up, crashes, drainId, todo, sent, batch, lastDmed,
                 proactive, monQueue, monDM, historyVars>>

WantsAutomation(e) ==
  /\ now < WindowEnd
  /\ events[e].post.restart
  /\ CanClaimAction(e)

Automate(e) ==
  /\ pc[e] = "automate"
  /\ IF WantsAutomation(e)
     THEN ClaimAction(e) /\ Goto(e, "launch")
     ELSE Goto(e, "claim") /\ UNCHANGED storeVars
  /\ UNCHANGED <<now, up, crashes, drainId, todo, sent, batch, lastDmed,
                 proactive, monQueue, monDM, historyVars>>

(* The restart script is started, if the row names services and Popen      *)
(* succeeds.  A death before this step leaves a claim nobody acts on.      *)
Launch(e) ==
  /\ pc[e] = "launch"
  /\ Goto(e, "claim")
  /\ UNCHANGED <<now, storeVars, up, crashes, drainId, todo, sent, batch, lastDmed,
                 proactive, monQueue, monDM, historyVars>>

WantsProactiveDM(e) ==
  /\ events[e].post.attention
  /\ CanClaimProactive(e, DebounceSecs)

StartDelivery(e) ==
  /\ pc[e] = "claim"
  /\ IF WantsProactiveDM(e)
     THEN ClaimProactive(e) /\ proactive' = proactive \cup {e}
     ELSE UNCHANGED <<storeVars, proactive>>
  /\ Goto(e, "deliver")
  /\ UNCHANGED <<now, up, crashes, drainId, todo, sent, batch, lastDmed,
                 monQueue, monDM, historyVars>>

SendProactiveDM(e) ==
  /\ e \in proactive
  /\ \E r \in DMResults : Tell({e}, r)
  /\ proactive' = proactive \ {e}
  /\ UNCHANGED <<now, storeVars, up, crashes, pc, drainId, todo, sent, batch,
                 lastDmed, monQueue, monDM, toldTimeout>>

-----------------------------------------------------------------------------
(* _deliver_event *)

(* A payload that does not parse is an error of its row.  A milestone that *)
(* does not parse makes the formatting of a flush raise, and the error is  *)
(* recorded on the COMPLETED row whose delivery it ends.                   *)
PoisonedFlush(e) ==
  /\ Type(e) = "COMPLETED"
  /\ \E m \in UndeliveredMilestones(events[e].lead) : ~events[m].post.valid

RejectDelivery(w) ==
  /\ pc[w] = "deliver"
  /\ ~events[Job(w)].post.valid \/ PoisonedFlush(Job(w))
  /\ MarkDeliveryError(Job(w))
  /\ Goto(w, Finished(w))
  /\ UNCHANGED <<now, up, crashes, drainId, todo, sent, batch, lastDmed,
                 proactive, monQueue, monDM, historyVars>>

Throttled(l) == lastDmed[l] # 0 /\ now - lastDmed[l] < ThrottleSecs

DeliverMilestone(w) ==
  LET l == events[Job(w)].lead
  IN  /\ pc[w] = "deliver"
      /\ Type(Job(w)) = "MILESTONE" /\ events[Job(w)].post.valid
      /\ IF Throttled(l)
         THEN Goto(w, Finished(w)) /\ UNCHANGED lastDmed
         ELSE Goto(w, "send") /\ lastDmed' = [lastDmed EXCEPT ![l] = now]
      /\ UNCHANGED <<now, storeVars, up, crashes, drainId, todo, sent, batch,
                     proactive, monQueue, monDM, historyVars>>

(* Mutant: milestones are flushed only while the throttle withholds them. *)
DeliverCompletedIfThrottled(w) ==
  LET l       == events[Job(w)].lead
      pending == IF Throttled(l) THEN UndeliveredMilestones(l) ELSE {}
  IN  /\ pc[w] = "deliver"
      /\ Type(Job(w)) = "COMPLETED" /\ events[Job(w)].post.valid
      /\ ~PoisonedFlush(Job(w))
      /\ batch' = [batch EXCEPT ![w] = pending]
      /\ Goto(w, IF pending = {} THEN "send" ELSE "flush")
      /\ UNCHANGED <<now, storeVars, up, crashes, drainId, todo, sent, lastDmed,
                     proactive, monQueue, monDM, historyVars>>

DeliverCompleted(w) ==
  LET pending == UndeliveredMilestones(events[Job(w)].lead)
  IN  /\ pc[w] = "deliver"
      /\ Type(Job(w)) = "COMPLETED" /\ events[Job(w)].post.valid
      /\ ~PoisonedFlush(Job(w))
      /\ batch' = [batch EXCEPT ![w] = pending]
      /\ Goto(w, IF pending = {} THEN "send" ELSE "flush")
      /\ UNCHANGED <<now, storeVars, up, crashes, drainId, todo, sent, lastDmed,
                     proactive, monQueue, monDM, historyVars>>

DeliverOther(w) ==
  /\ pc[w] = "deliver"
  /\ Type(Job(w)) \in {"STARTED", "NEEDS_INPUT", "ERROR"} /\ events[Job(w)].post.valid
  /\ Goto(w, "send")
  /\ UNCHANGED <<now, storeVars, up, crashes, drainId, todo, sent, batch, lastDmed,
                 proactive, monQueue, monDM, historyVars>>

(* The flush's DM: its result is not looked at. *)
SendFlush(w) ==
  /\ pc[w] = "flush"
  /\ \E r \in DMResults : Tell(batch[w], r)
  /\ Goto(w, "settle")
  /\ UNCHANGED <<now, storeVars, up, crashes, drainId, todo, sent, batch, lastDmed,
                 proactive, monQueue, monDM, toldTimeout>>

SettleMilestone(w) ==
  LET m == SmallestOf(batch[w])
  IN  /\ pc[w] = "settle" /\ batch[w] # {}
      /\ MarkDelivered(m)
      /\ batch' = [batch EXCEPT ![w] = @ \ {m}]
      /\ UNCHANGED <<now, up, crashes, pc, drainId, todo, sent, lastDmed,
                     proactive, monQueue, monDM, historyVars>>

ResetThrottle(w) ==
  /\ pc[w] = "settle" /\ batch[w] = {}
  /\ lastDmed' = [lastDmed EXCEPT ![events[Job(w)].lead] = 0]
  /\ Goto(w, "send")
  /\ UNCHANGED <<now, storeVars, up, crashes, drainId, todo, sent, batch,
                 proactive, monQueue, monDM, historyVars>>

SendDM(w) ==
  /\ pc[w] = "send"
  /\ \E r \in DMResults :
       /\ Tell({Job(w)}, r)
       /\ sent' = [sent EXCEPT ![w] = r]
       /\ Goto(w, IF r /\ Type(Job(w)) = "NEEDS_INPUT" THEN "link" ELSE "mark")
  /\ UNCHANGED <<now, storeVars, up, crashes, drainId, todo, batch, lastDmed,
                 proactive, monQueue, monDM, toldTimeout>>

Link(w) ==
  /\ pc[w] = "link"
  /\ LinkMessage(Job(w))
  /\ Goto(w, "mark")
  /\ UNCHANGED <<now, up, crashes, drainId, todo, sent, batch, lastDmed,
                 proactive, monQueue, monDM, historyVars>>

(* Mutant: the result of the send is not looked at. *)
MarkUnchecked(w) ==
  /\ pc[w] = "mark"
  /\ MarkDelivered(Job(w))
  /\ sent' = [sent EXCEPT ![w] = FALSE]
  /\ Goto(w, Finished(w))
  /\ UNCHANGED <<now, up, crashes, drainId, todo, batch, lastDmed,
                 proactive, monQueue, monDM, historyVars>>

Mark(w) ==
  /\ pc[w] = "mark"
  /\ IF sent[w] \/ ~IsUrgent(Job(w))
     THEN MarkDelivered(Job(w))
     ELSE MarkDeliveryError(Job(w))
  /\ sent' = [sent EXCEPT ![w] = FALSE]
  /\ Goto(w, Finished(w))
  /\ UNCHANGED <<now, up, crashes, drainId, todo, batch, lastDmed,
                 proactive, monQueue, monDM, historyVars>>

Deliver(w) ==
  \/ RejectDelivery(w) \/ DeliverMilestone(w) \/ DeliverCompleted(w) \/ DeliverOther(w)
  \/ SendFlush(w) \/ SettleMilestone(w) \/ ResetThrottle(w)
  \/ SendDM(w) \/ Link(w) \/ Mark(w)

-----------------------------------------------------------------------------
(* _drain_on_startup *)

DrainRead ==
  /\ pc[Drain] = "scan"
  /\ todo' = UndeliveredUrgent
  /\ Goto(Drain, "next")
  /\ UNCHANGED <<now, storeVars, up, crashes, drainId, sent, batch, lastDmed,
                 proactive, monQueue, monDM, historyVars>>

DrainNext ==
  /\ pc[Drain] = "next"
  /\ IF todo = {}
     THEN Goto(Drain, "idle") /\ drainId' = 0 /\ UNCHANGED todo
     ELSE /\ drainId' = SmallestOf(todo)
          /\ todo' = todo \ {SmallestOf(todo)}
          /\ Goto(Drain, "deliver")
  /\ UNCHANGED <<now, storeVars, up, crashes, sent, batch, lastDmed,
                 proactive, monQueue, monDM, historyVars>>

-----------------------------------------------------------------------------
(* _timeout_monitor_loop *)

MonitorScan ==
  /\ up /\ monQueue = {} /\ monDM = 0
  /\ monQueue' = {e \in OldestOpenInputs(MonitorLimit) : Expired(e)}
  /\ monQueue' # {}
  /\ UNCHANGED <<now, storeVars, up, crashes, pc, drainId, todo, sent, batch, lastDmed,
                 proactive, monDM, historyVars>>

(* Mutant: the row is DMed even when another path closed it first. *)
MonitorCloseUnchecked ==
  LET e == SmallestOf(monQueue)
  IN  /\ monQueue # {} /\ monDM = 0
      /\ CloseInput(e, "timed_out")
      /\ monQueue' = monQueue \ {e}
      /\ monDM' = e
      /\ UNCHANGED <<now, up, crashes, pc, drainId, todo, sent, batch, lastDmed,
                     proactive, historyVars>>

(* Mutant: only of a question whose DM was linked the timeout is told. *)
MonitorCloseLinked ==
  LET e == SmallestOf(monQueue)
  IN  /\ monQueue # {} /\ monDM = 0
      /\ CloseInput(e, "timed_out")
      /\ monQueue' = monQueue \ {e}
      /\ monDM' = IF e \in OpenInputs /\ inputs[e].linked THEN e ELSE 0
      /\ UNCHANGED <<now, up, crashes, pc, drainId, todo, sent, batch, lastDmed,
                     proactive, historyVars>>

MonitorClose ==
  LET e == SmallestOf(monQueue)
  IN  /\ monQueue # {} /\ monDM = 0
      /\ CloseInput(e, "timed_out")
      /\ monQueue' = monQueue \ {e}
      /\ monDM' = IF e \in OpenInputs THEN e ELSE 0
      /\ UNCHANGED <<now, up, crashes, pc, drainId, todo, sent, batch, lastDmed,
                     proactive, historyVars>>

MonitorDM ==
  /\ monDM # 0
  /\ \E r \in DMResults :
       toldTimeout' = IF r THEN toldTimeout \cup {monDM} ELSE toldTimeout
  /\ monDM' = 0
  /\ UNCHANGED <<now, storeVars, up, crashes, pc, drainId, todo, sent, batch, lastDmed,
                 proactive, monQueue, told>>

-----------------------------------------------------------------------------
(* The operator answers (resolve_pending_input tool or HTTP route). *)

Resolve(e) ==
  /\ up
  /\ e \in OpenInputs
  /\ CloseInput(e, "resolved")
  /\ UNCHANGED <<now, up, crashes, threadVars, lastDmed, historyVars>>

(* The reaper is another process: it inserts its question straight into    *)
(* the store, whether or not the pipeline is up, and nobody is told of it. *)
ReaperPost == [type |-> "NEEDS_INPUT", valid |-> TRUE, attention |-> FALSE,
               restart |-> FALSE, timeout |-> 0]

ReaperInsert(l) ==
  /\ InsertEvent(l, ReaperPost)
  /\ UNCHANGED <<now, up, crashes, threadVars, lastDmed, historyVars>>

-----------------------------------------------------------------------------
(* main(): open the store, seed the throttle from it, start the threads.   *)
(* The listener is started before the drain reads.                         *)
Start ==
  /\ ~up
  /\ up' = TRUE
  /\ lastDmed' = [l \in Leads |-> MilestoneLastDelivered(l)]
  /\ Goto(Drain, "scan")
  /\ UNCHANGED <<now, storeVars, crashes, drainId, todo, sent, batch, proactive,
                 monQueue, monDM, historyVars>>

(* The process dies: every thread and the throttle are gone. *)
Crash ==
  /\ up /\ crashes < MaxCrashes
  /\ up' = FALSE
  /\ crashes' = crashes + 1
  /\ pc' = [w \in Workers |-> "idle"]
  /\ sent' = [w \in Workers |-> FALSE]
  /\ batch' = [w \in Workers |-> {}]
  /\ drainId' = 0 /\ todo' = {}
  /\ lastDmed' = [l \in Leads |-> 0]
  /\ proactive' = {} /\ monQueue' = {} /\ monDM' = 0
  /\ UNCHANGED <<now, storeVars, historyVars>>

Tick ==
  /\ now < MaxTime
  /\ now' = now + 1
  /\ UNCHANGED <<storeVars, up, crashes, threadVars, lastDmed, historyVars>>

-----------------------------------------------------------------------------
Request(e) == Automate(e) \/ Launch(e) \/ StartDelivery(e)
Monitor    == MonitorScan \/ MonitorClose \/ MonitorDM

Next ==
  \/ \E l \in Leads, p \in Posts : HandleNotify(l, p)
  \/ \E e \in EventId : Request(e) \/ SendProactiveDM(e) \/ Resolve(e)
  \/ \E w \in Workers : Deliver(w)
  \/ DrainRead \/ DrainNext
  \/ Monitor
  \/ \E l \in Reaped : ReaperInsert(l)
  \/ Start \/ Crash \/ Tick

Spec == Init /\ [][Next]_vars

AnyThread ==
  \/ \E e \in EventId : Request(e)
  \/ \E w \in Workers : Deliver(w)
  \/ DrainRead \/ DrainNext
  \/ Monitor

(* While some thread can run, some thread runs; the service manager        *)
(* restarts the process and time passes.  This is weaker than a fair       *)
(* scheduler.  Nothing obliges a lead to post or the operator to answer.   *)
Fairness == WF_vars(AnyThread) /\ WF_vars(Start) /\ WF_vars(Tick)

FairSpec == Spec /\ Fairness
-----------------------------------------------------------------------------
(* Safety *)

(* An urgent row is marked delivered only after a DM carrying it got       *)
(* through: the mark of _deliver_event follows the send's result, across   *)
(* a drain that delivers the same row as its own thread, and across a      *)
(* death between the send and the mark.                                    *)
UrgentDeliveredWasTold ==
  \A e \in EventId : IsUrgent(e) /\ events[e].delivered # 0 => e \in told

(* Once a lead's COMPLETED is delivered, no earlier milestone of that lead *)
(* is left accumulating: the flush of _deliver_event covers what the       *)
(* throttle withheld, what another thread is sending, and what a death     *)
(* left behind.                                                            *)
CompletedSettlesMilestones ==
  \A c \in EventId : Type(c) = "COMPLETED" /\ events[c].delivered # 0 =>
    \A m \in Milestones(events[c].lead) : m < c => events[m].delivered # 0

(* Two proactive milestone DMs of one lead are claimed more than the       *)
(* debounce apart, however the request threads interleave and whichever    *)
(* life of the process claimed them (claim_proactive_dm).                  *)
ProactiveSpacing ==
  \A e, f \in EventId :
    /\ e # f /\ events[e].lead = events[f].lead
    /\ events[e].proactive # 0 /\ events[f].proactive # 0
    => \/ events[e].proactive - events[f].proactive > DebounceSecs
       \/ events[f].proactive - events[e].proactive > DebounceSecs

(* The operator is told that a question timed out only if it did, even     *)
(* when an answer arrives between the monitor's read and its mark.         *)
TimeoutDMOnlyIfTimedOut ==
  \A e \in toldTimeout \cup ({monDM} \ {0}) : inputs[e].status = "timed_out"

(* While the process is up, every urgent row but the reaper's is settled,  *)
(* carries the error of a failed attempt, or is in the hands of a thread   *)
(* that has still to deliver it: no death, drain or early return of        *)
(* _deliver_event leaves a row that only the next start would find.        *)
InHand(e) ==
  \/ \E w \in Workers : Job(w) = e /\ pc[w] \in PC \ {"idle", "scan", "next"}
  \/ e \in todo \/ pc[Drain] = "scan"

UrgentIsCarried ==
  \A e \in EventId :
    /\ up /\ IsUrgent(e)
    /\ ~(events[e].post = ReaperPost /\ events[e].lead \in Reaped)
    => events[e].delivered # 0 \/ events[e].error \/ InHand(e)

(* Steps *)

(* A closed question is never reopened nor closed again with the other     *)
(* verdict, although the operator's answer and the monitor race for it and *)
(* the monitor closes rows it read earlier.                                *)
ClosedIsFinal ==
  [][\A e \in EventId :
       inputs[e].status \in {"resolved", "timed_out"} =>
         inputs'[e].status = inputs[e].status]_vars

(* While DMs get through, a question times out in silence only if the      *)
(* process dies between the monitor's mark and its DM: what the monitor    *)
(* closes it DMs before it turns to the next row, however many it read and *)
(* whatever the operator answers meanwhile (_timeout_monitor_loop, "marks  *)
(* the row as timed_out and sends a DM to the user").                      *)
SilentTimeout(e) ==
  inputs[e].status = "timed_out" /\ e \notin toldTimeout /\ monDM # e

SilenceExplained ==
  \A e \in EventId :
    SilentTimeout(e)' => SilentTimeout(e) \/ (monDM = e /\ (~up' \/ FALSE \in DMResults))

SilencedByDeath == [][SilenceExplained]_vars

(* Liveness *)

(* An urgent row that reached a request thread is in the end delivered or  *)
(* carries the error of a failed attempt: the drain after a restart picks  *)
(* up what a death interrupted.                                            *)
UrgentIsSettled ==
  \A e \in EventId :
    (pc[e] # "idle" /\ IsUrgent(e)) ~> (events[e].delivered # 0 \/ events[e].error)

(* A COMPLETED that parses, of a lead all of whose milestones parse, in    *)
(* the end leaves no earlier milestone of its lead undelivered, whatever   *)
(* the throttle withheld and whenever the process died.                    *)
CompletedFlushes ==
  \A c \in EventId :
    (Type(c) = "COMPLETED" /\ events[c].post.valid) ~>
      \/ \A m \in Milestones(events[c].lead) : m < c => events[m].delivered # 0
      \/ \E m \in Milestones(events[c].lead) : ~events[m].post.valid

(* An open question whose timeout can run out is in the end closed, once   *)
(* it is among the oldest that the monitor reads: untimed questions that   *)
(* nobody answers may fill its limit and keep a newer one open for ever.   *)
Before(e) == {f \in EventId : f < e /\ inputs[f].status = "open"}
ExpiredIsClosed ==
  \A e \in EventId :
    /\ inputs[e].status = "open" /\ Cardinality(Before(e)) < MonitorLimit
    /\ inputs[e].timeout # 0
    /\ inputs[e].created + inputs[e].timeout <= MaxTime
    ~> inputs[e].status # "open"

-----------------------------------------------------------------------------
(* The inductive invariant behind the safety properties above. *)

ClockOK == \A e \in EventId : events[e].delivered <= now

RequestSteps  == {"automate", "launch", "claim"}
DeliverySteps == {"deliver", "flush", "settle", "send", "link", "mark"}

(* A dead process has no threads, and a thread works on a stored row. *)
WorkerOK(w) ==
  /\ ~up => pc[w] = "idle"
  /\ pc[w] \in RequestSteps \cup DeliverySteps => Job(w) \in 1 .. lastId
  /\ pc[w] \in RequestSteps => w # Drain
  /\ pc[w] \in {"scan", "next"} => w = Drain

(* From its flush on, a COMPLETED's worker accounts for every earlier      *)
(* milestone of the lead: it is delivered or still in the worker's batch.  *)
FlushOK(w) ==
  /\ batch[w] \subseteq {m \in 1 .. lastId : Type(m) = "MILESTONE"}
  /\ pc[w] \notin {"flush", "settle"} => batch[w] = {}
  /\ pc[w] \in {"flush", "settle"} => Type(Job(w)) = "COMPLETED"
  /\ pc[w] = "link" => Type(Job(w)) = "NEEDS_INPUT"
  /\ pc[w] \in {"flush", "settle", "send", "mark"} /\ Type(Job(w)) = "COMPLETED" =>
       \A m \in Milestones(events[Job(w)].lead) :
         m < Job(w) => events[m].delivered # 0 \/ m \in batch[w]

(* A worker that remembers a DM got through did send its row. *)
ToldOK(w) ==
  /\ pc[w] = "link" => sent[w]
  /\ pc[w] \in {"link", "mark"} /\ sent[w] => Job(w) \in told

WorkerInv(w) == WorkerOK(w) /\ FlushOK(w) /\ ToldOK(w)

(* Verdicts on rows are earned: an urgent row was told and a COMPLETED has *)
(* flushed, with what each thread of _deliver_event knows in between.      *)
DeliveryInv ==
  /\ TypeOK /\ ClockOK
  /\ \A w \in Workers : WorkerInv(w)
  /\ UrgentDeliveredWasTold /\ CompletedSettlesMilestones

-----------------------------------------------------------------------------
(* Refinement *)

Contract == INSTANCE DeliveryContract
              WITH Types   <- ValidTypes,
                   Urgent  <- UrgentTypes,
                   last    <- lastId,
                   kind    <- [e \in EventId |-> [lead |-> events[e].lead, type |-> Type(e)]],
                   settled <- {e \in EventId : events[e].delivered # 0}

(* Every step of the threads is a step of the contract or leaves it alone. *)
ImplementsContract == Contract!ContractSpec

-----------------------------------------------------------------------------
(* What the documentation says and the code does not do *)

(* PLAN-FI-NOTIFY.md:455, COMPLETED is DMed at once: while every DM gets   *)
(* through, a COMPLETED that parses never ends in a delivery error.        *)
CompletedNeverFails ==
  \A c \in EventId :
    Type(c) = "COMPLETED" /\ events[c].post.valid => ~events[c].error
=============================================================================
