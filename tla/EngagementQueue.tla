-------------------------- MODULE EngagementQueue --------------------------
(***************************************************************************)
(* The engagement queue: drafts of comments that wait in queue.jsonl for   *)
(* the operator's approval.  Every command of engagement-hourly-drip.py is *)
(* a process of its own: the hourly dispatcher runs some, the operator's   *)
(* bot others, at any time.  A command that changes the queue holds the    *)
(* lock on queue.jsonl.lock from its read to its os.replace; the reads     *)
(* before it, the review page and the DM after it are outside of the lock, *)
(* and so is the browse-and-draft agent, which appends with printf.        *)
(*                                                                         *)
(* Drafts are numbered in the order in which they are appended: this is    *)
(* the order of the file and that of queued_at.                            *)
(***************************************************************************)
EXTENDS Integers, FiniteSets

CONSTANTS Drafts,     \* drafts, by the order in which they are appended
          Info,       \* what a draft is about: [platform, post, text]
          Files,      \* contents of the queue file to start from
          Users,      \* processes that run commands beside the dispatcher
          Commands,   \* the commands they run
          Threshold,  \* refill_threshold
          MaxHour,    \* bound on the dispatcher's hours
          MaxCalls,   \* bound on the commands of Users
          MaxDeaths   \* bound on the deaths of commands

Platforms == {"x", "linkedin"}
Drips     == {"drip", "drip fresh"}                    \* drip
Singles   == {"x fresh", "x pool", "linkedin pool"}    \* drip_single
Pops      == Drips \cup Singles \cup {"hybrid"}
Aimed     == {"approve", "posted", "posted error", "decline"}
Ops       == Pops \cup Aimed \cup {"approve all", "purge", "dedup", "backfill", "regen"}
Statuses  == {"queued", "pending_review", "approved", "declined", "failed", "posted"}
Timer     == "timer"
Procs     == Users \cup {Timer}

(* fresh: the hour of freshly_drafted_at, 0 if the field is missing; at:   *)
(* the hour of the row's latest timestamp.                                 *)
Row   == [status : Statuses, fresh : 0..MaxHour, at : 0..MaxHour]
NoRow == [status |-> "none", fresh |-> 0, at |-> 0]
Entries == [Drafts -> Row \cup {NoRow}]
Nothing == [d \in Drafts |-> NoRow]

Call == [op : Ops \cup {"none"}, step : {"idle", "lock", "edit", "write", "page", "swap", "refill", "dm"},
         ids : SUBSET Drafts, entries : Entries, popped : SUBSET Drafts]
Idle == [op |-> "none", step |-> "idle", ids |-> {}, entries |-> Nothing, popped |-> {}]

Causes == {"none", "paused", "killed", "raced", "lost"}

(* Post 0 stands for a permalink that is missing, -1 for one that names no *)
(* post: neither is a key, but only a draft without a permalink is purged. *)
ASSUME EngagementAssumption ==
  /\ Drafts \subseteq Nat /\ MaxHour \in Nat /\ MaxCalls \in Nat /\ MaxDeaths \in Nat
  /\ Threshold \in Nat /\ Timer \notin Users /\ "none" \notin Procs
  /\ DOMAIN Info = Drafts
  /\ \A d \in Drafts : Info[d].platform \in Platforms /\ Info[d].post \in Int
  /\ Files \subseteq [Drafts -> SUBSET Row] /\ Commands \subseteq Ops

VARIABLES
  queue,    \* queue.jsonl: the rows of each draft; old files hold several of one
  ledger,   \* drafts with a row in posted-targets.jsonl
  lock,     \* holder of queue.jsonl.lock
  call,     \* what each process is doing
  page,     \* the review page: status under which it shows a draft
  tmp,      \* engagement-review.md.tmp
  refill,   \* does REFILL_NEEDED exist?
  hour,     \* hours dispatched so far
  phase,    \* where the dispatcher's script is
  calls,    \* commands run by Users
  deaths,
  (* history *)
  drafted,  \* drafts that have been appended
  told,     \* how often a draft was announced to the operator
  dms,      \* DMs of the present hour that Telegram took
  cause,    \* why this hour's pop sent none
  screened, \* drafts kept by the dedup of their hour
  torn      \* drafts whose post was recorded by a command that died before its write

files  == <<queue, ledger>>
review == <<page, tmp>>
time   == <<hour, phase>>
bounds == <<calls, deaths>>
dmVars == <<told, dms, cause>>
seen   == <<drafted, screened, torn>>
vars   == <<files, lock, call, review, refill, time, bounds, dmVars, seen>>
-----------------------------------------------------------------------------
(* The keys under which a draft's target is known, and the ledger.         *)
TargetKeys(d) ==
  LET i == Info[d] IN
  {<<"c", i.platform, i.text>>} \cup (IF i.post > 0 THEN {<<i.platform, i.post>>} ELSE {})
TargetsMatch(d, e) == TargetKeys(d) \cap TargetKeys(e) # {}
PostedKeys(l) == UNION {TargetKeys(d) : d \in l}

Rank(status) ==
  CASE status = "posted" -> 6 [] status = "failed" -> 5 [] status = "declined" -> 4
    [] status = "approved" -> 3 [] status = "pending_review" -> 2 [] status = "queued" -> 1
    [] OTHER -> 0
Beats(r, s) == Rank(r.status) > Rank(s.status) \/ (r.status = s.status /\ r.at >= s.at)

(* One row per draft: the highest status, then the latest timestamp.       *)
ReadQueue(q) ==
  [d \in Drafts |-> IF q[d] = {} THEN NoRow
                    ELSE CHOOSE r \in q[d] : \A s \in q[d] : Beats(r, s)]
FileOf(entries) == [d \in Drafts |-> {entries[d]} \ {NoRow}]

Having(entries, statuses) == {d \in Drafts : entries[d].status \in statuses}
Fresh(entries, d) == entries[d].fresh >= hour /\ entries[d].fresh > 0
SetStatus(entries, ids, from, to) ==
  [d \in Drafts |-> IF d \in ids \cap Having(entries, from)
                    THEN [entries[d] EXCEPT !.status = to, !.at = hour] ELSE entries[d]]
Without(entries, ids) == [d \in Drafts |-> IF d \in ids THEN NoRow ELSE entries[d]]

(* Mutant: the page is an archive of every draft. *)
ReviewAll(entries) == [d \in Drafts |-> entries[d].status]

(* What the review page shows: only what is still to be acted on.          *)
ReviewBody(entries) ==
  [d \in Drafts |-> IF entries[d].status \in {"queued", "pending_review"}
                    THEN entries[d].status ELSE "none"]
-----------------------------------------------------------------------------
(* Which drafts a drip takes: per platform the oldest of the pool or, when *)
(* only fresh ones count, the newest -- any of them, as the order of       *)
(* freshly_drafted_at within an hour is not modelled.                      *)
Source(op, platform) ==
  CASE op = "drip" -> "any" [] op = "drip fresh" -> "fresh"
    [] op = "hybrid" -> IF platform = "x" THEN "fresh" ELSE "any"
    [] op = "x fresh" /\ platform = "x" -> "fresh"
    [] op = "x pool" /\ platform = "x" -> "any"
    [] op = "linkedin pool" /\ platform = "linkedin" -> "any"
    [] OTHER -> "none"
Eligible(entries, op, platform) ==
  {d \in Having(entries, {"queued"}) :
     /\ Info[d].platform = platform
     /\ Source(op, platform) # "none"
     /\ Source(op, platform) = "fresh" => Fresh(entries, d)}
Firsts(entries, op, platform) ==
  LET pool == Eligible(entries, op, platform) IN
  {d \in pool : Source(op, platform) = "fresh" \/ \A e \in pool : d <= e}
Choices(entries, op) ==
  {s \in SUBSET UNION {Firsts(entries, op, p) : p \in Platforms} :
     \A p \in Platforms : LET f == Firsts(entries, op, p) IN
       f # {} => Cardinality(s \cap f) = 1}

(* Mutant: a drip announces what it chose before it had the lock. *)
AsChosen(entries, ids) == ids
(* What is queued still of the drafts chosen without the lock.             *)
StillQueued(entries, ids) == ids \cap Having(entries, {"queued"})

(* purge_null_permalink_fresh: fresh drafts that cannot be posted.         *)
Purged(entries) ==
  {d \in Having(entries, {"queued"}) : Fresh(entries, d) /\ Info[d].post = 0}

(* dedup_fresh_against_targets: fresh drafts whose target is known, from   *)
(* the ledger, from the queue or from an earlier fresh draft that is kept. *)
Known(entries) ==
  PostedKeys(ledger) \cup
  PostedKeys({d \in Having(entries, {"posted", "approved", "pending_review", "queued"}) :
                entries[d].status = "queued" => ~Fresh(entries, d)})
FreshQueued(entries) == {d \in Having(entries, {"queued"}) : Fresh(entries, d)}
Kept(entries) ==
  LET new == {d \in FreshQueued(entries) : TargetKeys(d) \cap Known(entries) = {}}
      keep[d \in new] == \A e \in new : e < d /\ TargetsMatch(d, e) => ~keep[e]
  IN  {d \in new : keep[d]}
Duplicates(entries) == FreshQueued(entries) \ Kept(entries)

(* mark_posted: the draft, then every open draft with the same target.     *)
Active == {"queued", "pending_review", "approved"}
(* Mutant: the other drafts on the target stay open. *)
MarkPostedAlone(entries, ids) == SetStatus(entries, ids, Statuses, "posted")

MarkPosted(entries, ids) ==
  LET marked == SetStatus(entries, ids, Statuses, "posted") IN
  SetStatus(marked, {d \in Drafts \ ids : \E e \in ids : TargetsMatch(d, e)}, Active, "declined")
-----------------------------------------------------------------------------
Init ==
  /\ queue \in Files
  /\ ledger = {} /\ lock = "none" /\ call = [p \in Procs |-> Idle]
  /\ page = ReviewBody(ReadQueue(queue)) /\ tmp = <<>> /\ refill = FALSE
  /\ drafted = {d \in Drafts : queue[d] # {}}
  /\ hour = 0 /\ phase = "idle" /\ calls = 0 /\ deaths = 0
  /\ told = [d \in Drafts |-> 0] /\ dms = 0 /\ cause = "none"
  /\ screened = {} /\ torn = {}

(* The dispatcher's hour: on an X hour the agent drafts, its drafts are    *)
(* purged and compared with known targets, and one is popped; otherwise,   *)
(* or when the agent cannot run, the pool is.                              *)
XHour(h) == h % 2 = 1
Dispatch ==
  /\ phase = "idle" /\ hour < MaxHour
  /\ hour' = hour + 1 /\ dms' = 0 /\ cause' = "none"
  /\ phase' \in {"pop"} \cup (IF XHour(hour') THEN {"agent"} ELSE {})
  /\ UNCHANGED <<files, lock, call, review, refill, bounds, seen, told>>

(* Drafts are appended without the lock: those on X by the agent, those on *)
(* LinkedIn by the social manager, at any time and not marked as fresh.    *)
FreshlyDraftedAt(d) == IF Info[d].platform = "x" THEN hour ELSE 0
Append(d) ==
  /\ \A e \in drafted : e < d
  /\ Info[d].platform = "x" => phase = "agent"
  /\ queue' = [queue EXCEPT ![d] = {[status |-> "queued", at |-> hour, fresh |-> FreshlyDraftedAt(d)]}]
  /\ drafted' = drafted \cup {d}
  /\ UNCHANGED <<ledger, lock, call, review, refill, time, bounds, dmVars, screened, torn>>

AgentEnds ==
  /\ phase = "agent" /\ phase' = "purge"
  /\ UNCHANGED <<files, lock, call, review, refill, hour, bounds, seen, dmVars>>

HourEnds ==
  /\ phase = "end" /\ call[Timer].step = "idle" /\ phase' = "idle"
  /\ UNCHANGED <<files, lock, call, review, refill, hour, bounds, seen, dmVars>>

(* The commands the dispatcher runs in a phase, and the phase after it.    *)
FreshCount == Cardinality({d \in Drafts : \E r \in queue[d] :
                r.status = "queued" /\ r.fresh = hour /\ Info[d].post # 0})
TimerRuns(op) ==
  \/ phase = "purge" /\ op = "purge" /\ phase' = "dedup"
  \/ phase = "dedup" /\ op = "dedup" /\ phase' = "pop"
  \/ phase = "pop" /\ phase' = "end"
     /\ op \in (IF ~XHour(hour) THEN {"linkedin pool"}
                ELSE {"x pool"} \cup (IF FreshCount > 0 THEN {"x fresh"} ELSE {}))

(* A command starts.  A drip looks at the queue before it asks for the     *)
(* lock: when PAUSE exists it does nothing, when nothing is eligible it    *)
(* says so (a drip without --fallback is silent).                          *)
Runs(p, op) ==
  /\ call[p] = Idle
  /\ IF p = Timer THEN TimerRuns(op) /\ UNCHANGED calls
     ELSE op \in Commands /\ calls < MaxCalls /\ calls' = calls + 1 /\ UNCHANGED phase

Begin(p, op, ids) ==
  /\ op \notin Pops /\ Runs(p, op)
  /\ IF op \in Aimed THEN Cardinality(ids) = 1 ELSE ids = {}
  /\ call' = [call EXCEPT ![p] =
       IF op = "regen" THEN [Idle EXCEPT !.op = op, !.step = "page", !.entries = ReadQueue(queue)]
       ELSE [Idle EXCEPT !.op = op, !.step = "lock", !.ids = ids]]
  /\ UNCHANGED <<files, lock, review, refill, hour, deaths, seen, dmVars>>

Paused(p, op) ==
  /\ op \in Pops /\ Runs(p, op)
  /\ cause' = IF p = Timer THEN "paused" ELSE cause
  /\ UNCHANGED <<files, lock, call, review, refill, hour, deaths, seen, told, dms>>

(* A DM that Telegram refuses, or that lacks its token or chat, is logged  *)
(* and nothing more: the hour goes without.                                *)
Says(p, took) ==
  /\ dms' = dms + (IF took /\ p = Timer THEN 1 ELSE 0)
  /\ cause' = IF ~took /\ p = Timer THEN "lost" ELSE cause

Choose(p, op, reports) ==
  /\ Runs(p, op)
  /\ \E ids \in Choices(ReadQueue(queue), op) :
       /\ call' = IF ids = {} THEN call
                  ELSE [call EXCEPT ![p] = [Idle EXCEPT !.op = op, !.step = "lock", !.ids = ids]]
       /\ IF ids = {} /\ reports THEN \E took \in BOOLEAN : Says(p, took)
          ELSE UNCHANGED <<dms, cause>>
  /\ UNCHANGED <<files, lock, review, refill, hour, deaths, seen, told>>

LookDrip(p)   == \E op \in Drips : Choose(p, op, FALSE)
LookHybrid(p) == Choose(p, "hybrid", TRUE)
(* Mutant: an empty pool is not reported. *)
LookSilently(p) == \E op \in Singles : Choose(p, op, FALSE)
LookSingle(p) == \E op \in Singles : Choose(p, op, TRUE)

(* Mutant: the lock is on the queue file, whose inode os.replace changes. *)
LockShared(p) ==
  /\ call[p].step = "lock"
  /\ lock' = p
  /\ call' = [call EXCEPT ![p].step = "edit", ![p].entries = ReadQueue(queue)]
  /\ UNCHANGED <<files, review, refill, time, bounds, seen, dmVars>>

(* queue_locked and read_queue.                                            *)
Lock(p) ==
  /\ call[p].step = "lock" /\ lock = "none"
  /\ lock' = p
  /\ call' = [call EXCEPT ![p].step = "edit", ![p].entries = ReadQueue(queue)]
  /\ UNCHANGED <<files, review, refill, time, bounds, seen, dmVars>>

(* write_queue_atomic and the release of the lock, with what comes next.   *)
Commit(p, entries, popped, next) ==
  /\ queue' = FileOf(entries) /\ lock' = "none"
  /\ call' = [call EXCEPT ![p] =
       IF next = "idle" THEN Idle
       ELSE [call[p] EXCEPT !.entries = entries, !.popped = popped, !.ids = {}, !.step = next]]
  /\ UNCHANGED <<review, refill, time, bounds, drafted, told, dms>>

Editing(p, op) == call[p].step = "edit" /\ call[p].op = op

(* A drip moves its choice to pending_review.  One of a single platform    *)
(* chooses again; it writes nothing, and says nothing, if the pool is gone.*)
Release(p, ids) ==
  Commit(p, SetStatus(call[p].entries, ids, {"queued"}, "pending_review"), ids, "page")

PopDrip(p) ==
  /\ call[p].step = "edit" /\ call[p].op \in Drips
  /\ Release(p, StillQueued(call[p].entries, call[p].ids))
  /\ UNCHANGED <<ledger, cause, screened, torn>>
PopHybrid(p) ==
  /\ Editing(p, "hybrid")
  /\ Release(p, StillQueued(call[p].entries, call[p].ids))
  /\ UNCHANGED <<ledger, cause, screened, torn>>
PopSingle(p) ==
  /\ call[p].step = "edit" /\ call[p].op \in Singles
  /\ \E ids \in Choices(call[p].entries, call[p].op) :
       \/ ids # {} /\ Release(p, ids) /\ UNCHANGED cause
       \/ /\ ids = {} /\ lock' = "none" /\ call' = [call EXCEPT ![p] = Idle]
          /\ cause' = IF p = Timer THEN "raced" ELSE cause
          /\ UNCHANGED <<queue, review, refill, time, bounds, drafted, told, dms>>
  /\ UNCHANGED <<ledger, screened, torn>>

Approve(p) ==
  /\ call[p].step = "edit" /\ call[p].op \in {"approve", "approve all"}
  /\ LET ids == IF call[p].op = "approve all" THEN Drafts ELSE call[p].ids IN
     Commit(p, SetStatus(call[p].entries, ids, {"pending_review"}, "approved"), {}, "page")
  /\ UNCHANGED <<ledger, cause, screened, torn>>

(* Mutant: only a draft that was approved is recorded. *)
RecordApproved(p) ==
  /\ Editing(p, "posted")
  /\ ledger' = ledger \cup (call[p].ids \cap Having(call[p].entries, {"approved"}))
  /\ call' = [call EXCEPT ![p].step = "write"]
  /\ UNCHANGED <<queue, lock, review, refill, time, bounds, seen, dmVars>>

(* mark_posted records the target first, then writes the queue.            *)
Record(p) ==
  /\ Editing(p, "posted")
  /\ ledger' = ledger \cup (call[p].ids \cap Having(call[p].entries, Statuses))
  /\ call' = [call EXCEPT ![p].step = "write"]
  /\ UNCHANGED <<queue, lock, review, refill, time, bounds, seen, dmVars>>
Posted(p) ==
  /\ call[p].step = "write"
  /\ LET ids == call[p].ids \cap Having(call[p].entries, Statuses) IN
     /\ Commit(p, MarkPosted(call[p].entries, ids), {}, "page")
     /\ torn' = torn \ ids
  /\ UNCHANGED <<ledger, cause, screened>>

PostedError(p) ==
  /\ Editing(p, "posted error")
  /\ Commit(p, SetStatus(call[p].entries, call[p].ids, Statuses, "failed"), {}, "page")
  /\ UNCHANGED <<ledger, cause, screened, torn>>

Decline(p) ==
  /\ Editing(p, "decline")
  /\ Commit(p, SetStatus(call[p].entries, call[p].ids, Statuses, "declined"), {}, "page")
  /\ UNCHANGED <<ledger, cause, screened, torn>>

Purge(p) ==
  /\ Editing(p, "purge")
  /\ Commit(p, Without(call[p].entries, Purged(call[p].entries)), {}, "idle")
  /\ UNCHANGED <<ledger, cause, screened, torn>>

Dedup(p) ==
  /\ Editing(p, "dedup")
  /\ Commit(p, Without(call[p].entries, Duplicates(call[p].entries)), {}, "idle")
  /\ screened' = screened \cup Kept(call[p].entries)
  /\ UNCHANGED <<ledger, cause, torn>>

(* backfill_posted_ledger leaves the queue alone.                          *)
Backfill(p) ==
  /\ Editing(p, "backfill")
  /\ ledger' = ledger \cup Having(call[p].entries, {"posted"})
  /\ lock' = "none" /\ call' = [call EXCEPT ![p] = Idle]
  /\ UNCHANGED <<queue, review, refill, time, bounds, seen, dmVars>>

AfterPage(op) ==
  IF op \in Drips THEN "refill" ELSE IF op \in Pops THEN "dm" ELSE "idle"

(* regenerate_review_page, from the entries the command has in hand; all   *)
(* commands write the same temporary file.                                 *)
WriteTmp(p) ==
  /\ call[p].step = "page"
  /\ tmp' = ReviewBody(call[p].entries)
  /\ call' = [call EXCEPT ![p].step = "swap",
                           ![p].entries = IF AfterPage(call[p].op) = "refill" THEN @ ELSE Nothing]
  /\ UNCHANGED <<files, lock, page, refill, time, bounds, seen, dmVars>>

Goto(p, step) ==
  call' = [call EXCEPT ![p] =
    IF step = "idle" THEN Idle
    ELSE [call[p] EXCEPT !.step = step, !.entries = IF step = "dm" THEN Nothing ELSE @]]

SwapPage(p) ==
  /\ call[p].step = "swap"
  /\ IF tmp = <<>> THEN UNCHANGED review ELSE page' = tmp /\ tmp' = <<>>
  /\ Goto(p, AfterPage(call[p].op))
  /\ UNCHANGED <<files, lock, refill, time, bounds, seen, dmVars>>

Refill(p) ==
  /\ call[p].step = "refill"
  /\ refill' = (Cardinality(Having(call[p].entries, {"queued"})) < Threshold)
  /\ Goto(p, "dm")
  /\ UNCHANGED <<files, lock, review, time, bounds, seen, dmVars>>

(* The DM names what was popped.                                           *)
Tell(p) ==
  /\ call[p].step = "dm"
  /\ \E took \in BOOLEAN :
       /\ Says(p, took)
       /\ told' = [d \in Drafts |-> told[d] + (IF took /\ d \in call[p].popped THEN 1 ELSE 0)]
  /\ Goto(p, "idle")
  /\ UNCHANGED <<files, lock, review, refill, time, bounds, seen>>
TellDrip(p)   == call[p].op \in Drips /\ Tell(p)
TellHybrid(p) == call[p].op = "hybrid" /\ Tell(p)
TellSingle(p) == call[p].op \in Singles /\ Tell(p)

(* A command dies; the kernel gives its lock back.                         *)
Die(p) ==
  /\ call[p].step # "idle" /\ deaths < MaxDeaths
  /\ deaths' = deaths + 1
  /\ lock' = IF lock = p THEN "none" ELSE lock
  /\ torn' = IF call[p].step = "write" THEN torn \cup (call[p].ids \cap ledger) ELSE torn
  /\ cause' = IF p = Timer /\ call[p].op \in Pops THEN "killed" ELSE cause
  /\ call' = [call EXCEPT ![p] = Idle]
  /\ UNCHANGED <<files, review, refill, time, calls, drafted, told, dms, screened>>
-----------------------------------------------------------------------------
Work(p) ==
  \/ Lock(p) \/ PopDrip(p) \/ PopHybrid(p) \/ PopSingle(p) \/ Approve(p) \/ Record(p) \/ Posted(p) \/ PostedError(p)
  \/ Decline(p) \/ Purge(p) \/ Dedup(p) \/ Backfill(p)
  \/ WriteTmp(p) \/ SwapPage(p) \/ Refill(p)
  \/ TellDrip(p) \/ TellHybrid(p) \/ TellSingle(p)
Start(p) ==
  \/ LookDrip(p) \/ LookHybrid(p) \/ LookSingle(p)
  \/ \E op \in Ops : Paused(p, op) \/ \E ids \in SUBSET Drafts : Begin(p, op, ids)

Next ==
  \/ Dispatch \/ AgentEnds \/ HourEnds \/ \E d \in Drafts : Append(d)
  \/ \E p \in Procs : Start(p) \/ Work(p) \/ Die(p)

Spec == Init /\ [][Next]_vars
-----------------------------------------------------------------------------
EngTypeOK ==
  /\ queue \in [Drafts -> SUBSET Row] /\ ledger \subseteq Drafts
  /\ lock \in Procs \cup {"none"} /\ call \in [Procs -> Call]
  /\ page \in [Drafts -> {"none", "queued", "pending_review"}]
  /\ tmp \in {<<>>} \cup [Drafts -> {"none", "queued", "pending_review"}]
  /\ refill \in BOOLEAN /\ hour \in 0..MaxHour
  /\ phase \in {"idle", "agent", "purge", "dedup", "pop", "end"}
  /\ calls \in 0..MaxCalls /\ deaths \in 0..MaxDeaths
  /\ drafted \subseteq Drafts /\ told \in [Drafts -> Nat] /\ dms \in Nat /\ cause \in Causes
  /\ screened \subseteq Drafts /\ torn \subseteq Drafts

(* A draft is announced for review at most once, however many drips looked *)
(* at the queue before one of them got the lock (drip, drip_hybrid and     *)
(* drip_single choose without the lock and pop under it).                  *)
AnnouncedOnce == \A d \in Drafts : told[d] <= 1

(* No step takes a draft back: one under review or approved is neither     *)
(* queued again nor dropped, and one posted, failed or declined is never   *)
(* open again -- no command writes entries that somebody else has changed  *)
(* since it read them (queue_locked).                                      *)
Stage(status) == IF Rank(status) >= 4 THEN 4 ELSE Rank(status)
NoStepBack ==
  [][\A d \in Drafts :
       LET old == ReadQueue(queue)[d].status IN
       Rank(old) >= 2 => Stage(ReadQueue(queue')[d].status) >= Stage(old)]_vars

(* A fresh draft that the dedup of its hour has kept is not open while the *)
(* ledger knows its target: what is posted later takes it out of the queue *)
(* in the same locked step (mark_posted's auto-decline).  A command that   *)
(* died after its ledger row, or that is about to write, is excepted.      *)
InFlight == UNION {call[p].ids : p \in {q \in Procs : call[q].step = "write"}}
ScreenedIsNew ==
  \A d \in screened :
    ReadQueue(queue)[d].status \in Active =>
      TargetKeys(d) \cap PostedKeys(ledger \ (torn \cup InFlight)) = {}

(* What the queue calls posted is in the ledger, so no later draft on its  *)
(* target passes the dedup, also when a mark_posted died half way.         *)
Legacy == {d \in Drafts : \E f \in Files : ReadQueue(f)[d].status = "posted"}
PostedOnRecord == Having(ReadQueue(queue), {"posted"}) \subseteq ledger \cup Legacy

(* When no command runs, the review page shows nothing that is approved,   *)
(* posted, failed or declined ("always regen the review doc after a status *)
(* change so the relay never serves a stale view", engagement-posted.sh).  *)
PageNotStale ==
  (\A p \in Procs : call[p] = Idle) /\ deaths = 0
    => \A d \in Drafts : ReadQueue(queue)[d].status \in {"none", "queued", "pending_review"}
                          \/ page[d] = "none"

(* An hour of the dispatcher that has ended told the operator one thing,   *)
(* and one without a DM has a cause that is known: it was paused, its pop  *)
(* was killed, another command took its draft between the look and the     *)
(* lock, or Telegram did not take the DM (drip_single).                    *)
HourNotSilent ==
  /\ dms <= 1
  /\ phase = "idle" /\ hour > 0 => dms = IF cause = "none" THEN 1 ELSE 0

(* What the dispatcher promises: "ALWAYS produces exactly one DM via the   *)
(* downstream drip invocation. A silent hour is a contract violation"      *)
(* (engagement-hourly-dispatch.sh), here of the hours in which nothing     *)
(* fails: nobody paused the drip or killed it, and Telegram took its DM.   *)
HourSpeaks ==
  phase = "idle" /\ hour > 0 /\ cause \notin {"paused", "killed", "lost"} => dms = 1
=============================================================================
