# A TLA+ model of claude-soma

claude-soma turns one long-running Claude Code session (the orchestrator, reached over Telegram or
Discord) into the master of project leads, each a Claude session in its own tmux server. Most of the
code is glue; what is hard is what several processes do to shared SQLite tables and to tmux sessions
without a lock across their steps. This directory models those parts, model-checks them with TLC and
proves the safety properties that matter most with TLAPS.

Paths below are relative to the repository; `PO/` is `src/claude_soma/mcp_servers/project_orchestrator/`
and `HA/` is `src/claude_soma/mcp_servers/hermes_api/`.

## Inventory

| Component | State | Operations | Interacts with | What makes it correct |
|---|---|---|---|---|
| Notify event store, `HA/notify_store.py` | tables `lead_events`, `pending_inputs` | insert, mark delivered / error, claim an action or a proactive DM, close a question, the reads of the listener and of the hook | every other part of notify, by SQLite | claims are handed out once, a question has one verdict |
| Notify listener, `HA/server.py` | throttle times in memory; threads | POST /notify, deliver, throttle and flush, automation, proactive DM, timeout monitor, answers, startup drain | the store, Telegram/Discord, systemd | an urgent event is told or says it was not, nothing delivered was withheld, a death loses no urgent row |
| Lead's notify tool, `hermes_notify/server.py` | none | validate, one POST, degraded alert | listener, the host's webhook | what is stored is sound, an outage is told, a refusal is not taken for one |
| Notify hook and restart script, `src/scripts/notify_inject.sh`, `auto-restart-services.sh` | a lock file and a marker per window | read unread events, mark them, launch the restart; lock, check, restart, touch | listener, systemd | one restart in a window, no event fires again and again |
| Project orchestrator, `PO/server.py`, `registry.py`, `spawner.py` | `projects`, tmux sessions, transient units | spawn, resume, kill, list, status, send, touch | watchdog, reaper, dashboard API, enrolled hosts by ssh | what the registry says of a lead was true, at most one session per lead |
| Lead watchdog, `PO/watchdog.py` | `lead_watchdog` | a sweep every few minutes | registry, spawner, DM | dead leads come back or are given up aloud, killed ones stay down |
| Reaper, `src/scripts/reaper.py` | none | an hourly sweep | registry, spawner, store | idle dead leads are recorded as stopped, old rows go |
| Batch ledger, `parallelism/ledger.py` and `skills/parallel-tasks` | `batch_tasks` | create, claim, done, fail | a lead and its agents | the cap holds, no task runs twice, slots come back |
| Operator DM router and alarm worker, `operator_dm.py`, `HA/alarm_worker.py` | kill switches on disk; last alarms in memory | chunk, send, fall back; poll and alarm | Telegram, Discord | an id means the whole text, a switch is honoured, an alarm is not repeated |
| Hosts registry, `PO/hosts.py` | `hosts.json` | upsert, set status, remove | orchestrator | no update is lost |
| Social vault, OAuth and refresh, `social/` | token rows; OAuth states in memory | bootstrap, start, callback, refresh | platforms | a state is used once, seeds do not return, a clean sweep leaves no token about to run out |
| Engagement queue, `src/scripts/engagement-hourly-drip.py`, `-dispatch.sh` | `queue.jsonl`, a ledger of posted targets, a review page | drip, approve, post, decline, purge, dedup, backfill, regenerate | drafting agent, operator's bot | nothing is announced twice or taken back, what is posted is on record, an hour is not silent |
| Reply guards, `src/scripts/tg_reply_guard.py`, `discord_reply_guard.py`, `heard_gate.py`, `relay_link_gate.py` | flag files that lapse | block a Stop, relay, deny a send | one session's transcript and tools | no message is left unanswered in silence, no turn is held for ever |
| Dashboard, scripts, installers, media servers, frontend | little or none | | | |

Hard behaviour, by kind: threads of one process between two statements (listener); processes that act
on rows read long before (watchdog, reaper, reconciliation); deaths between an effect and its note
(delivery, give-up, the restart's marker); timers racing late answers (monitor); hooks that know each other
by flag files only (reply guards); choices made without the lock under which they are carried out
(engagement); probes and kills that fail silently (tmux,
ssh, systemd); caps checked over shared rows (ledger, admission). `PROJECT.json` lists the hazards by
line with the properties that watch them, or why none does.

## Modules

**EventStore** holds the two notify tables and the statements of `EventStore` in
`HA/notify_store.py`. Each method takes the store's lock around one statement or one transaction, so
each is one operator. A payload is reduced to what the listener tells apart: does it parse, does it ask
for attention, does it say a restart is required, its timeout.

**NotifyPipeline** (extends EventStore) is the listener. A *worker* is a thread in `_deliver_event`:
the request thread of event `e` and the delivery thread it starts, or the startup drain. `pc` walks
through the calls: `automate` and `launch` (`_maybe_trigger_automation`), `claim`
(`claim_proactive_dm`), `deliver` (throttle, flush, send), `flush`/`settle` (a COMPLETED sends and then
marks the milestones it read), `link`, `mark`. The monitor (`MonitorScan`, `MonitorClose`,
`MonitorDM`), the operator's `Resolve`, the reaper's question and the proactive DM threads run beside
them. `Crash` drops every thread and the throttle's memory; `Start` runs `main`: seed the throttle from
the store, start the drain and the monitor. Time is an integer that `Tick` advances.

**DeliveryContract** is what the pipeline promises, without threads, throttle or deaths: rows get ids in
order, may be told any number of times, are settled for good, urgent ones only after they were told, a
COMPLETED only after all earlier milestones of its lead. `NotifyPipeline!ImplementsContract` is the
refinement: ids, kinds and `told` map to themselves, `settled` to the rows with a `delivered_at`.

**LeadLifecycle** is the life of leads: `row` (the registry), `session` and `unit` (the world),
`backoff` (`lead_watchdog`), and one record per process that says where it is. Tool calls go `scan`,
`demote` (`_reconcile_active`), `admit`, `clear`, `launch`, `register`, `uuid`, or `kill`, `verify`, `mark`; any
call may be refused or die. The watchdog's sweep has a step per call it makes: `pick`, `heal`,
`backoff`, `giveup`, `notified`, `recheck`, `clear`, `reclear`, `resume`, `fresh`, `uuid`, `grace`,
`revived`, `succeed`, `fail`. An exception on a row is swallowed and the sweep goes on with the next
(`DogError`); `_notify` swallows what becomes of a DM, so `DogGiveUp` goes on alike whether or not it got
through: `gaveUps` counts DMs that were tried. The sweep works on `dog.rows`, the rows as `list_revivable` returned them, as the
code does, and so does the reaper on `reap.rows`. `Liveness` returns the *set* of readings a probe may
give: ssh failures read as unreachable, a failing local `has-session` as alive. `KillSession` may stop
everything, the session only, or nothing, and reports none of it. `down` and `gaveUps` are history.

**BatchLedger** is `batch_tasks` with the leads that follow `skills/parallel-tasks/SKILL.md`. Every
ledger call is a process of its own and every SQL statement commits by itself, so `create_batch` is one
`Insert` per row and `claim_slot` one step. A call that fails tells the lead nothing, whatever it has
committed (`CallFails`, `MarkFails`). `Die` ends a session with its agents and leaves its rows; a
resumed session may remember its batch ids, a fresh one does not.

**SlotContract** is what the ledger promises of slots, without batches, statuses, sessions or calls: a
row takes a slot at most once, gives it back when its work is over, and what a dead session held is lost and
still counts against the cap. `BatchLedger!ImplementsSlots` is the refinement: a slot is held while an
agent or a claim is at work on its row (`InWork`), lost when its row is `running` and nobody is, and over
when the row is `done` or `failed`.

**EngagementQueue** is `queue.jsonl` with `posted-targets.jsonl` and the review page. A command of
`engagement-hourly-drip.py` is a process: it looks at the queue without the lock (`LookDrip`,
`LookHybrid`, `LookSingle`), takes the lock (`Lock`), reads and changes the entries (`PopDrip`, `Approve`,
`Posted`, `Decline`, `Dedup`, ...), replaces the file, publishes the page in two steps (`WriteTmp`,
`SwapPage`) and tells the operator. `Dispatch` is the hour of `engagement-hourly-dispatch.sh`: agent,
purge, dedup, pop, fallback. An hour that Telegram heard nothing of has its `cause` noted: it was paused, its
pop was killed, another command took its draft, or the DM was lost. `Append` is the drafting agent, which takes no lock. The file may hold
several rows of one draft, as old files do; `ReadQueue` keeps the one `_dedup_entries` keeps. `Die` ends a command
anywhere and the kernel drops its lock.

**SocialVault** is the social service with its vault. `Boot` runs the bootstrap from the env files
(`Missing`), `OAuthStart`/`OAuthCallback` hand out and consume states, the exchanges and refreshes of the
three platforms are `Exchange` and the `Job*` actions; the refresh job is a process of its own that reads its rows at
its start (`JobStarts`) and upserts one by one. Time is in days: only tokens outlive a call.

**ReplyGuards** is one session between its prompts and its Stops. The transcript is reduced to what the
hooks read in its tail: the last prompt, the results of send tools since, `stop_hook_active`. The two
Stop guards are one action per way out of their `main` (`TelegramSatisfied`, `TelegramBlocks`,
`TelegramRelays`, `DiscordRecords`, ...); the gates stand in front of `SendTelegram`. Flags lapse after
ten minutes (`LapseTelegram`, `LapseDiscord`, `LapseHeard`). A guard that raises, is killed or cannot read the transcript
lets the turn end (`TelegramFails`, `DiscordFails`); a flag that cannot be written or removed is let be
(`Records`, `Unrecorded`, `HeardAfter`), and so is a relay whose curl fails. `opened`, `unnoted` and `stuck` remember
these for the properties.

**OperatorDM** is `send_operator_dm` called by two threads of the listener's process, with chunks, files,
kill switches and the fallback, and the alarm worker's loop on top of it. A character is the pair of its line and
position, so that a property can say which part of a text a chunk shows. `Deliver` is the call the
listener makes; NotifyPipeline takes the same call as one step that succeeds or fails, and `ToldWhole`
is what makes its success mean something.

**NotifyTool** is the lead's side of `POST /notify`: validators, the request, its answer, and the three
ways not to get one; the listener is seen from outside.

**AutoRestart** is the one path from a stored event to `systemctl restart`, with both its launchers: the
listener's thread (`Claim`, `LaunchEvent`) and the prompt hook (`HookReads`, `HookMarks`, `HookFires`),
then the runs of `auto-restart-services.sh` (`ScriptLocks`, `ScriptChecks`, `ScriptRestarts`,
`ScriptTouches`). The handler the listener starts, `automation-handlers/restart.sh`, is a symbolic link
to that script (PLAN-ARCH-NOTIFY.md:360). A restart may take the listener and the hook's session down.
That the hook may launch nothing, because of jq's dialect or a payload that does not parse, and that sudo may hide
the window from the script, are choices of `HookFires` and `ScriptChecks`.

`MCNotify`, `MCLead`, `MCLedger` and `MCEngage` hold the values TLC needs. `MCServices` checks the five small
components (SocialVault, ReplyGuards, OperatorDM, NotifyTool, AutoRestart) in one run: its first state picks one of
them and the others stand still, so it says nothing of them together. Each `...Proofs` module
holds the proofs of its component; MessagesProofs those of OperatorDM and NotifyTool, ServicesProofs those of AutoRestart
and of MCServices.

The listener meets the lead lifecycle in one place: the reaper inserts a question for a lead it killed
(`ReaperPost`, `ReaperInsert`), into the store from a process of its own. The other link, leads that
post events, is the nondeterministic `HandleNotify`.

## Runs

| Run | Question | Bounds |
|---|---|---|
| NotifyDelivery | Are rows settled only on evidence, does the inductive invariant of the proofs hold, do the threads implement the contract? | one lead, three posts of MILESTONE or COMPLETED at one instant, DMs fail, one death |
| NotifyQuestions | Does a question get one verdict and proactive DMs their distance, is every urgent row in somebody's hands, does a question time out in silence by a death only? | two posts of questions, with and without timeout, attention, restart and unparsable payloads, the reaper's question, three instants, one death |
| NotifyLive | Is every urgent row settled, every batch of milestones flushed, every expired question closed that is among the oldest? | two posts and the reaper's untimed question, a LIMIT of one, two instants, one death, DMs succeed |
| NotifyPoison | refuted: one bad milestone fails each COMPLETED | two posts |
| LeadSafe | Is a lead demoted, relaunched or recorded as killed only on evidence, does a sweep leave alone what was stopped before it? | one local lead, one tool thread beside the watchdog and the reaper, exits, failing tmux and kills |
| LeadLive | Does the inductive invariant hold, is a give-up DM tried once, is a dead lead dropped? | one remote lead, ssh comes and goes, a tool thread and the watchdog, two attempts, one death and one exception of the sweep |
| LeadKilled | refuted: a killed lead is never revived | one local lead |
| Engagement | Is a draft announced twice, taken back, posted off the record or on a known target, an hour silent without a cause? | four drafts, two of them on one post and one whose permalink names none, three files to start from, two hours, one command beside the dispatcher's, one death |
| EngagementStale | refuted: at rest the review page shows no draft that is approved or closed | the same without deaths |
| EngagementSilent | refuted: an hour in which nothing fails has its DM | the same without deaths |
| Services | What each of the five small components promises, see below | see below |
| Ledger | Does the cap hold, does a task run twice, does a slot stay idle, do slots follow the contract? | two leads, two batches of a FREE and an EXCLUSIVE task, cap 1, failing calls, two deaths |

The Services run asks, component by component:
- *SocialVault* (`StateSpentOnce`, `SweptIsFresh`, `NoReturnToSeed`): three platforms with an account each, two of
  them seeded, two states, tokens of three days, a window of two, four days: a token is granted, comes
  due, is refreshed or refused, and runs out.
- *ReplyGuards* (`BlockedOnce`, `NotSilent`, `RelayedOnce`, `DeniedOnce`): three prompts over both channels, with
  voice notes, in three pairs of modes, two sends and two turns: a turn that is blocked and one that
  finds its flags, or not, because they lapsed or were not written.
- *OperatorDM* (`ToldWhole`, `SwitchHonoured`, `AlarmHushed`): a message whose last line is longer than
  the chunk's limit of four and whose note about a large file fills a chunk, two calls, a restart, switches that
  go on and off, a debounce of one poll.
- *NotifyTool* (`DegradedIfUnanswered`, `StoredIsSound`): one call of any type and payload beside a STARTED, one outage.
- *AutoRestart* (`RestartedOnce`, `HookFiresOnce`): two events that want a restart, a hook that reads one at a time,
  two prompts, one death of a script.

The bounds are small where the interference is between processes on one lead: throttle, backoff and
claims are per lead, so one lead with every process on it shows every race the code has (the ledger,
whose cap is per lead over shared rows, gets two). Three posts are a withheld milestone, a delivered
one and the COMPLETED that flushes, and at one instant the throttle withholds all milestones but the
first (NotifyLive lets it lapse); two attempts distinguish a first failure from the last. The
proofs then remove these bounds for the safety properties. In the engagement queue a draft's target is
shared by at most one other, and two commands at a time are the dispatcher's and one more. `CHECK_DEADLOCK FALSE` is said where posts,
time and batches are bounded and the system really comes to rest; the lead runs never do and check for
deadlock.

What the refuted runs show of the code:
- `NotifyPoison`: `_deliver_event` formats every withheld milestone before it formats the COMPLETED
  (`HA/server.py:897`); a stored payload that does not parse raises there, each time.
- `LeadKilled`: the watchdog's last look before it kills and respawns asks whether the lead is alive and
  not what its row says now (`PO/watchdog.py:262`).
- `EngagementSilent`: a drip whose draft another command takes between its look and its lock ends its hour
  without a DM (`src/scripts/engagement-hourly-drip.py:1495-1511`); the hours that were paused, killed or whose DM Telegram
  refused are left out of the claim.
- `EngagementStale`: the review page is written outside of the queue lock from the entries a command has in hand
  (`src/scripts/engagement-hourly-drip.py:493`), so of two commands that overlap the earlier may publish last.

Some disagreements are modelled as the code has them, without a run that refutes the words; the
properties claim no more than the code does:
- Only urgent rows look at the DM's result before `mark_delivered` (`HA/server.py:924`), and a COMPLETED marks the
  milestones it flushes whatever came of theirs (899-901): a milestone may be marked delivered although no DM got through; PLAN-FI-NOTIFY.md:220 has `delivered_at` as the time
  of a successful DM. Hence `DeliveryInv` speaks of urgent rows and DeliveryContract of being told for them alone.
- `_notify` swallows every failure (`PO/watchdog.py:96-129`) and `mark_gaveup_notified` is called whatever came
  of the DM (238-244, 349-354): a lead may be given up in silence, until the cooldown ends and it is tried again. Hence
  `GiveUpSentOnce` and `DeadIsNotDropped` speak of DMs that were tried.
- A relay without a token or whose curl fails is only logged, the flag is written and the turn ends
  (`src/scripts/tg_reply_guard.py:369-422, 527-533`), and a guard that crashes lets the turn end (536-540), although
  the hook is there so that a turn "cannot end in operator-facing silence" (line 2). Hence `NotSilent` takes a relay
  that was tried for an answer and excepts guards that failed open.
- The hour's DM may be refused or skipped and the hour may be paused (`src/scripts/engagement-hourly-drip.py:1537-1552`):
  `HourNotSilent` asks for a `cause` then.

## Fairness

`NotifyPipeline!FairSpec` assumes of the listener's threads only that while some thread can run, some
thread runs (weaker than a fair scheduler: posts are finitely many, so a thread cannot be overtaken for
ever), that the process is started again after a death (systemd's `Restart=`) and that time passes.
Nobody has to post or answer.
`LeadLifecycle!FairSpec` is fair to the watchdog's steps as a whole, because a timer runs its sweeps
and its calls have timeouts; nobody has to call a tool, ssh need not come back and `DeadIsNotDropped`
promises nothing while it is away. The end of a cooldown (`CoolDown`) is the passing of time and is fair too;
`DeadIsNotDropped` promises that a give-up DM is tried again after it, not that one gets through. `BatchLedger!FairSpec` is fair to what a lead does of itself; agents
need not return, so `NoIdleSlot` speaks of free slots only. The other modules state safety only and
assume no fairness.

## Proofs

All proofs hold for every value of the constants that satisfies the named assumptions
(`StoreAssumption` and `PipelineAssumption`, `LifecycleAssumption`, `LedgerAssumption`,
`EngagementAssumption`, `VaultAssumption`, `GuardAssumption`, `RestartAssumption`, `ToolAssumption`,
`DmAssumption`): types of the constants, non-empty result sets, names that do not collide, and time for
one debounce.

*NotifyPipeline* (`DeliveryInvariant`, `TypeCorrect`, `UrgentTold`, `CompletedSettles`). Told-before-settled
is not inductive: a worker between its send and its mark carries the fact in `sent`, so `ToldOK` says
that a remembered success was a DM of that row. A delivered COMPLETED settles milestones only because
its worker, from the flush on, accounts for every earlier milestone as delivered or in its batch
(`FlushOK`), which other threads can only help. `WorkerOK` ties threads to stored rows and to a live
process, `ClockOK` keeps the seed of the throttle a time. Steps are grouped: a thread's own step
(`ThreadStep`), steps outside the workers (`OutsideStep`), inserts, deaths and starts.

*Questions, claims and the contract* (`VerdictsAreFinal`, `ToldTimeoutsAreTrue`,
`ProactiveDMsAreSpaced`, `PipelineImplementsContract`, also in NotifyPipelineProofs). `ClosedKept`: each UPDATE
that closes a question looks at its status. `ClaimOK`: only milestones are claimed, by the thread that
handles them and never in the future, so what `claim_proactive_dm` compares with -- the claimed
milestones of the lead -- is all that can be too near. Under the refinement mapping an insert accepts, a
DM tells, a delivered mark settles with the guards that `DeliveryInv` supplies, and every other step
leaves the contract alone.

*Nothing forgotten, nothing silent* (`UrgentRowsAreCarried`, `SilenceNeedsDeath`, also in
NotifyPipelineProofs). `UrgentIsCarried` is inductive with `DeliveryInv`. A thread keeps its row or ends with a mark
or an error (`CarriedBy`); the one early return without either, a throttled milestone, is not
urgent; a start finds every unconcluded row because the drain has still to scan, and the scan passes
all of them on (`DrainCarried`). It is the safety half of `UrgentIsSettled`: what a fair scheduler then
brings to an end is never dropped. The reaper's questions are excluded, since no thread is started for
them. `SilencedByDeath` is a property of single steps: only `MonitorClose` makes a timeout, and
it takes the row into `monDM` if its mark was the verdict; `MonitorDM` and `Crash` are the only ways out.

*LeadLifecycle* (`LifecycleInvariant`, `LifecycleTypes`, `VerdictsEarned`, `GiveUpOnce`, `StoppedLeadsLeftAlone`). Evidence is
carried by `down`, which only grows while a process is busy (`DownGrows`), so a verdict once earned
survives the steps of everybody else. Give-ups need an account: until the note is written, a sent DM is
known only by where the watchdog is (`Told`), and a death or an exception there loses it; `BackoffOK` counts exactly that
(`Slips`), and keeps attempts away from leads already given up, which is what bounds `failures`. For
`StoppedIsLeftAlone` the sweep's own copy of the rows is the invariant (`SweepRowsOK`): what is left of it, and the
row the sweep is on, were active or dead when it was read, and no tool writes there. The run `LeadKilled` shows
that the promise cannot be had for leads stopped during the sweep.

`DeliveryInv`, `LifecycleInv` and `LedgerInv`, which the runs check, contain the type invariants of their
modules. The runs check `UrgentDeliveredWasTold` as a conjunct of `DeliveryInv`, and `CapHolds`, `AgentsHoldSlots` and
`DispatchedOnce` (`dispatches[r]` is 0 or 1 in `CountsOK`) as parts of `LedgerInv`; each has a theorem of its own.

*EngagementQueue* (`QueueInvariant`, `QueueTypes`, `DraftsAreAnnouncedOnce`, `PostsAreOnRecord`,
`DraftsMoveOn`, `ScreenedDraftsAreNew`, `HoursAreNotSilent`). `EntriesCurrent`: from the lock to the write, what a command has read is what the file
says, but for drafts that no command has seen and that the agent appends without the lock.
`AnnouncedOK`: a draft that was announced, or that one command alone is about to announce, has left the
pool, so no later pop finds it. `RecordOK`: a command that is about to write `posted` has written the
ledger. That no draft is taken back follows from these: each command writes its own entries, and those
only move drafts on. The reading of several rows of a draft as one (`_dedup_entries`) needs a largest
beat in a bounded set, for which the well-founded induction of the library stands in. `ScreenOK`
strengthens `ScreenedIsNew` in two ways: of a `mark_posted` under way only what it will write is excepted,
and drafts the queue calls posted count as known, since a backfill may record them. `HourOK`: a pop that the
timer has under way still owes the DM of the hour, or the cause of its silence. What `Kept` keeps of several new drafts on one target
is a recursive function and is not reasoned about.

*SocialVault* (`VaultTypes`, `StatesAreSpentOnce`, `SweptDaysAreFresh`, `SeedsNeverReturn`). The invariant
`VaultInv` ties the job's rows to the vault of the day it started on: what it has not yet refreshed is in
its rows, was refused, or was written since. A state accepted once is in no store (`StateSpentOnce` is
inductive with the types); seeds return only where no row is, and a row stays.

*ReplyGuards* (`GuardTypes`, `StopsAreBlockedOnce`, `TextIsRelayedOnce`, `TranscriptsDenyOnce`,
`GuardedIsNotSilent`). A blocked Stop leaves `stop_hook_active`, under which neither guard blocks; a
relay leaves its flag, or counts in `unnoted`, and a flag that goes stale counts in `lapsed`
(`RelayLeavesFlag`); a turn that goes out quietly had an answer in its results, a flag, a block, or a guard that
failed open. A flag of a Telegram prompt was earned by an answer or a relay (`FlagEarned`).

*AutoRestart* (`ServicesRestartOnce`, `EventsFireOnce`, `AutomationTyped`, in ServicesProofs). `LockOK`: one run holds the lock, there is no
marker while it restarts, and without a marker or a run about to touch it every restart is paid for by
a death. `FireInv`: an event the hook has in hand was not injected when it was read and nobody else
injects, so an event that is not injected has no launches beyond its failed marks. `RequestsOK`: a request
thread's row is stored, which makes its claim mean something.

*The five together* (`ServicesTyped`, in ServicesProofs). Every step of MCServices is a step of one component that
leaves the variables of the others alone, so `MCSpec` implies the five specifications, and the five type
theorems give `ServicesTypeOK`. In this way the theorems of the components hold of the run.

*BatchLedger* (`LedgerInvariant`, `CapIsKept`, `AgentsWithinCap`, `NeverDispatchedTwice`, `LedgerImplementsSlots`). `CapHolds`
needs that a claim counts the slots of the lead that makes it, hence that a lead knows only its own
batches (`StagesOK`) and that an id nobody drew has no rows (`OwnersOK`); agents hold slots because a row
is in one stage at a time; dispatches are counted along the row's life (`CountsOK`). Under the mapping to
SlotContract a claim takes a slot, with the count of `claim_slot` as the contract's guard; a mark gives it back; a
death, a failed claim and a failed mark lose it; an EXCLUSIVE row done by the lead itself takes none. A row that
is claimed has one claimant and one row per call (`StagesOK`), or two rows would share a take.

*NotifyTool* (`ToolTyped`, `AlertsOnlyIfUnanswered`, `StoredEventsAreSound`, in MessagesProofs). `PostedOK`:
what is on its way has passed the validators and was normalised, which is what makes it sound (`NormalizedSound`);
`StoreOK` pairs rows with requests, so an id is that of the caller's own row; `OutcomeOK`: who has read an
answer or tried to alert is done.

*OperatorDM, the chunks* (`ChunksHoldTheText`, in MessagesProofs). `TextOf` and `Packed` are recursive
functions over the lines of one text. Such a definition says something only if a function with these values
exists; `StepByStep` builds it and `UpTo` (from the library's well-founded order of the naturals) carries what holds
from line to line. What holds after each line is `AccShows`: the closed chunks and the open one show
the places of the lines so far, in order, all within the limit. `AddLineShows` is the loop's body: the pieces cut off a
long line (`CutsShow`, `PiecesFit`) come after everything before, and the rest joins or starts a chunk
(`JoinsShow`). Newlines are left out of what a chunk shows: two chunks have none between them.

*OperatorDM, the calls* (`MessagesToldWhole`, `SwitchesHonoured`, `AlarmsHushed`, `MessagesTyped`, in
MessagesProofs). `ToldWhole` is about finished calls; the fact that carries it is about calls under way: what is posted,
followed by what is left, is the chunks of the message (`CallsOK`), and a chunk that fails ends that. A call
under way has an entry of its own, so no thread touches another's. A switch that bars an open entry is still set
(`EntryOK`), so `KillSwitch` sees it. `AlarmInv`: an alarm is at or before the recorded one, but for the
one the worker is sending, which is at the tick's own time; so a lead that is not hushed has all its alarms
a debounce behind.

The run Services checks the same properties; `RouterInv`, `AlarmInv` and `ToolInv` were found with TLC
before they were proved.

Every invariant and every action property of the passing runs is stated by a theorem, and so are both
refinements. Only model-checked: liveness (`UrgentIsSettled`, `CompletedFlushes`, `ExpiredIsClosed`,
`DeadIsNotDropped`, `NoIdleSlot`), which is beyond the prover; and the four refuted claims, of which TLC
shows a counterexample.

## What is abstracted or left out

Texts, formats, ids of messages, ports and paths. In NotifyPipeline a DM is one call; its chunks and
fallback are in OperatorDM. Memory admission, the quota gate and the context guard are refusals that may
happen (`GiveUpCall`, the failing branch of `DogReclear`). Archiving, transcripts, templates, team
members and routines do not touch a lead's life. The dashboard's routes run the tools modelled as tool
threads. The parts with no module, and why, are in `PROJECT.json`.

Within modelled parts: the dispatcher's script is not killed between two of its commands; what a login
overwritten by the refresh of its older token means for the platform, and marks of the batch ledger out of the order
of the parallel-tasks skill, are outside of every property.

Not modelled: the hosts registry (one call reads, changes and replaces the file; its race is listed as a
hazard), `orchestrator_gate.py` (a pure function of a command line), `set_teammate_handle` (one more POST),
`notify_lib.sh`, the stateless helpers, the dashboard's views, one-shot scripts, installers, media servers
and the frontend. They keep no state between two steps that another process could see.

## Plan

1. done: EventStore, NotifyPipeline, DeliveryContract; LeadLifecycle; BatchLedger, each with its proofs.
2. done: EngagementQueue, SocialVault, ReplyGuards and AutoRestart, each with its proofs; OperatorDM and NotifyTool.
3. done: the proofs of OperatorDM and NotifyTool.
4. done: the ledger refines SlotContract; urgent rows are carried, timeouts are silenced by deaths only, stopped
   leads are left alone; the types of the small components side by side. What is left is liveness.
