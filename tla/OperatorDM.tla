----------------------------- MODULE OperatorDM -----------------------------
(***************************************************************************)
(* How a process reaches the operator: send_operator_dm, called by the     *)
(* threads of the notify listener's process -- Discord first, in chunks,   *)
(* then a Telegram fallback --, and the alarm worker, the thread of that   *)
(* process which warns about leads with a large context.                   *)
(*                                                                         *)
(* A text is a sequence of lines; a character is <<line, position>>, so a  *)
(* chunk shows which part of the text it holds.  Translating Telegram HTML *)
(* changes the characters of a line, and nothing that follows.  Time is    *)
(* counted in periods of the alarm worker (HERMES_ALARM_POLL_SECONDS).     *)
(***************************************************************************)
EXTENDS Integers, Sequences, FiniteSets

CONSTANTS Messages,    \* [lines: lengths, large, small: is there such a file?, fallback]
          Limit,       \* _DISCORD_CONTENT_LIMIT
          NoteLength,  \* of the line that names a file too large to upload
          AlarmLeads, Debounce,
          MaxTime, MaxCalls   \* bounds

ASSUME DmAssumption ==
  /\ Messages \subseteq [lines : Seq(Nat), large : BOOLEAN, small : BOOLEAN, fallback : BOOLEAN]
  /\ {Limit, NoteLength} \subseteq Nat \ {0}
  /\ {Debounce, MaxTime, MaxCalls} \subseteq Nat /\ Debounce < MaxTime

Routes  == {"discord", "telegram"}
Threads == {"alarm", "delivery"}
Alarm   == [lines |-> <<1>>, large |-> FALSE, small |-> FALSE, fallback |-> TRUE]

VARIABLES
  disabled,    \* kill switches set in secrets.env
  env,         \* kill switches in the environment of the process
  call,        \* the send_operator_dm each thread is in: [step, nr, left, id]
  worker,      \* the alarm worker: [step, now, todo, lead]
  last_alarm,
  clock,
  (* history *)
  dms,         \* calls made: [message, result, discord, telegram, barred]
  alarmed      \* times of the ticks that alarmed about a lead, since the start

dmVars == <<disabled, env, call, worker, last_alarm, clock, dms, alarmed>>
-----------------------------------------------------------------------------
NL == <<0, 0>>
Line(i, n) == [k \in 1..n |-> <<i, k>>]

(* A note in a paragraph of its own stands for a file that is not sent.    *)
LinesOf(m) ==
  LET lengths == m.lines \o (IF m.large THEN <<0, NoteLength>> ELSE <<>>)
  IN [i \in DOMAIN lengths |-> Line(i, lengths[i])]

TextOf(lines) ==
  LET text[n \in 0..Len(lines)] ==
        IF n = 0 THEN <<>> ELSE IF n = 1 THEN lines[1] ELSE text[n - 1] \o <<NL>> \o lines[n]
  IN text[Len(lines)]

TooLong(cur, line) == cur # <<>> /\ Len(cur) + 1 + Len(line) > Limit

Flushed(acc) ==
  IF acc.cur = <<>> THEN acc ELSE [chunks |-> Append(acc.chunks, acc.cur), cur |-> <<>>]

(* One line: what is over the limit is cut off in pieces, the rest joins   *)
(* the current chunk or starts a new one.  An empty line starts none.      *)
AddLine(acc, line) ==
  LET cuts == IF line = <<>> THEN 0 ELSE (Len(line) - 1) \div Limit
      rest == SubSeq(line, cuts * Limit + 1, Len(line))
      now  == IF cuts = 0 THEN acc
              ELSE [chunks |-> Flushed(acc).chunks \o
                                 [k \in 1..cuts |-> SubSeq(line, (k - 1) * Limit + 1, k * Limit)],
                    cur    |-> <<>>]
  IN IF TooLong(now.cur, rest) THEN [chunks |-> Append(now.chunks, now.cur), cur |-> rest]
     ELSE [now EXCEPT !.cur = IF @ = <<>> THEN rest ELSE @ \o <<NL>> \o rest]

Packed(lines) ==
  LET acc[n \in 0..Len(lines)] ==
        IF n = 0 THEN [chunks |-> <<>>, cur |-> <<>>] ELSE AddLine(acc[n - 1], lines[n])
  IN acc[Len(lines)]

Chunk(lines) ==
  IF Len(TextOf(lines)) <= Limit THEN <<TextOf(lines)>> ELSE Flushed(Packed(lines)).chunks
-----------------------------------------------------------------------------
Idle == [step |-> "idle", nr |-> 0, left |-> <<>>, id |-> FALSE]

Start ==
  /\ env' = disabled /\ call' = [t \in Threads |-> Idle]
  /\ worker' = [step |-> "sleep", now |-> clock, todo |-> {}, lead |-> ""]
  /\ last_alarm' = [l \in AlarmLeads |-> 0] /\ alarmed' = [l \in AlarmLeads |-> {}]

(* The worker has slept for a period, so late that a lead without an alarm *)
(* is past the debounce.                                                   *)
DmInit ==
  /\ disabled \in SUBSET Routes /\ env = disabled /\ call = [t \in Threads |-> Idle]
  /\ worker = [step |-> "sleep", now |-> Debounce, todo |-> {}, lead |-> ""]
  /\ last_alarm = [l \in AlarmLeads |-> 0] /\ alarmed = [l \in AlarmLeads |-> {}]
  /\ clock = Debounce + 1 /\ dms = <<>>

(* The process dies and is started anew; nothing resumes its calls.        *)
RestartProcess ==
  /\ \E t \in Threads : call[t].step # "idle" \/ alarmed # [l \in AlarmLeads |-> {}]
  /\ Start
  /\ dms' = [n \in DOMAIN dms |-> IF dms[n].result = "open" THEN [dms[n] EXCEPT !.result = "lost"] ELSE dms[n]]
  /\ UNCHANGED <<disabled, clock>>

(* The operator edits secrets.env.                                         *)
Disable(r) ==
  /\ r \notin disabled /\ disabled' = disabled \cup {r}
  /\ UNCHANGED <<env, call, worker, last_alarm, clock, dms, alarmed>>
Enable(r) ==
  /\ r \in disabled /\ disabled' = disabled \ {r}
  /\ dms' = [n \in DOMAIN dms |->
               IF dms[n].result = "open" THEN [dms[n] EXCEPT !.barred = @ \ {r}] ELSE dms[n]]
  /\ UNCHANGED <<env, call, worker, last_alarm, clock, alarmed>>

TimePasses ==
  /\ clock < MaxTime /\ clock' = clock + 1
  /\ UNCHANGED <<disabled, env, call, worker, last_alarm, dms, alarmed>>
-----------------------------------------------------------------------------
(* Mutant: only what the process was started with counts. *)
SetAtStart(r) == r \in env
(* _kill_switch_enabled *)
KillSwitch(r) == r \in env \/ r \in disabled

Begin(t, m) ==
  /\ call[t].step = "idle" /\ Len(dms) < MaxCalls
  /\ call' = [call EXCEPT ![t] =
                [step |-> IF KillSwitch("discord") THEN "fallback" ELSE "discord",
                 nr |-> Len(dms) + 1, left |-> Chunk(LinesOf(m)), id |-> FALSE]]
  /\ dms' = Append(dms, [message |-> m, result |-> "open", discord |-> <<>>,
                         telegram |-> FALSE, barred |-> disabled])

Message(t) == dms[call[t].nr].message
Return(t, result) == /\ call' = [call EXCEPT ![t] = [Idle EXCEPT !.nr = call[t].nr]]
                     /\ dms' = [dms EXCEPT ![call[t].nr].result = result]
Others == <<disabled, env, worker, last_alarm, clock, alarmed>>

Deliver(m) == Begin("delivery", m) /\ UNCHANGED Others

(* Mutant: a chunk that failed is left out. *)
SkipsFailed(t, sent) == [call EXCEPT ![t].left = Tail(@), ![t].id = @ \/ sent]
AfterChunk(t, sent) ==
  IF sent THEN [call EXCEPT ![t].left = Tail(@), ![t].id = TRUE]
  ELSE [call EXCEPT ![t].step = "fallback"]

(* The next chunk is posted; one that was posted may look as if it failed. *)
(* Discord takes no empty message.  Without a token nothing is posted.     *)
PostChunk(t) ==
  /\ call[t].step = "discord" /\ call[t].left # <<>>
  /\ LET chunk == Head(call[t].left) IN
     \E outcome \in {"sent", "lost", "refused"} :
       /\ outcome # "refused" => chunk # <<>>
       /\ call' = AfterChunk(t, outcome = "sent")
       /\ dms' = IF outcome = "refused" THEN dms
                 ELSE [dms EXCEPT ![call[t].nr].discord = Append(@, chunk)]
  /\ UNCHANGED Others

(* After the text the files that are small enough: a failure is logged, an *)
(* exception of another kind (of http.client) ends the Discord route.      *)
PostFiles(t) ==
  /\ call[t].step = "discord" /\ call[t].left = <<>>
  /\ \E upload \in IF Message(t).small THEN {"sent", "failed", "raised"} ELSE {"failed"} :
       IF upload = "sent" \/ (upload = "failed" /\ call[t].id) THEN Return(t, "id")
       ELSE call' = [call EXCEPT ![t].step = "fallback"] /\ UNCHANGED dms
  /\ UNCHANGED Others

Fallback(t) ==
  /\ call[t].step = "fallback"
  /\ IF KillSwitch("telegram") \/ ~Message(t).fallback THEN Return(t, "none")
     ELSE call' = [call EXCEPT ![t].step = "telegram"] /\ UNCHANGED dms
  /\ UNCHANGED Others

(* The caller's function sends the whole text, or returns or raises.       *)
TelegramSend(t) ==
  /\ call[t].step = "telegram"
  /\ \E outcome \in {"sent", "lost", "refused"} :
       /\ call' = [call EXCEPT ![t] = [Idle EXCEPT !.nr = call[t].nr]]
       /\ dms' = [dms EXCEPT ![call[t].nr] =
                    [@ EXCEPT !.result   = IF outcome = "sent" THEN "id" ELSE "none",
                              !.telegram = outcome # "refused"]]
  /\ UNCHANGED Others
-----------------------------------------------------------------------------
WorkerOnly == UNCHANGED <<disabled, env, call, last_alarm, clock, dms, alarmed>>

(* A period has passed since the last tick; the list of leads is read.     *)
TickBegins(todo) ==
  /\ worker.step = "sleep" /\ clock > worker.now
  /\ worker' = [step |-> "tick", now |-> clock, todo |-> todo, lead |-> ""] /\ WorkerOnly

Hushed(l) == worker.now - last_alarm[l] <= Debounce

(* The estimate is below the threshold, or the lead is hushed.             *)
Passes(l) ==
  /\ worker.step = "tick" /\ l \in worker.todo
  /\ worker' = [worker EXCEPT !.todo = @ \ {l}] /\ WorkerOnly

(* An estimate that raises ends the tick for the leads after it.           *)
TickEnds ==
  /\ worker.step = "tick"
  /\ worker' = [worker EXCEPT !.step = "sleep", !.todo = {}, !.now = clock] /\ WorkerOnly

RaiseAlarm(l) ==
  /\ worker.step = "tick" /\ l \in worker.todo /\ ~Hushed(l)
  /\ Begin("alarm", Alarm)
  /\ worker' = [worker EXCEPT !.step = "sending", !.lead = l]
  /\ alarmed' = [alarmed EXCEPT ![l] = @ \cup {worker.now}]
  /\ UNCHANGED <<disabled, env, last_alarm, clock>>

(* Mutant: an alarm that reached nobody is not recorded. *)
RecordedIfTold ==
  IF dms[call["alarm"].nr].result = "id" THEN [last_alarm EXCEPT ![worker.lead] = worker.now] ELSE last_alarm
Recorded == [last_alarm EXCEPT ![worker.lead] = worker.now]

AlarmRecorded ==
  /\ worker.step = "sending" /\ call["alarm"].step = "idle"
  /\ last_alarm' = Recorded
  /\ worker' = [worker EXCEPT !.step = "tick", !.todo = @ \ {worker.lead}]
  /\ UNCHANGED <<disabled, env, call, clock, dms, alarmed>>
-----------------------------------------------------------------------------
DmNext ==
  \/ \E r \in Routes : Disable(r) \/ Enable(r)
  \/ RestartProcess \/ TimePasses
  \/ \E m \in Messages : Deliver(m)
  \/ \E t \in Threads : PostChunk(t) \/ PostFiles(t) \/ Fallback(t) \/ TelegramSend(t)
  \/ \E todo \in SUBSET AlarmLeads : TickBegins(todo)
  \/ \E l \in AlarmLeads : Passes(l) \/ RaiseAlarm(l)
  \/ TickEnds \/ AlarmRecorded

DmSpec == DmInit /\ [][DmNext]_dmVars
-----------------------------------------------------------------------------
DmTypeOK ==
  /\ disabled \subseteq Routes /\ env \subseteq Routes
  /\ \A t \in Threads :
       /\ call[t].step \in {"idle", "discord", "fallback", "telegram"}
       /\ call[t].nr \in 0..Len(dms) /\ call[t].id \in BOOLEAN
       /\ call[t].step # "idle" => dms[call[t].nr].result = "open"
  /\ worker.step \in {"sleep", "tick", "sending"} /\ worker.now <= clock
  /\ worker.todo \subseteq AlarmLeads /\ (worker.step = "sending" => worker.lead \in worker.todo)
  /\ last_alarm \in [AlarmLeads -> 0..MaxTime] /\ alarmed \in [AlarmLeads -> SUBSET (0..MaxTime)]
  /\ Len(dms) <= MaxCalls
  /\ \A n \in DOMAIN dms : /\ dms[n].message \in Messages \cup {Alarm}
                           /\ dms[n].result \in {"open", "id", "none", "lost"}

(* A caller that gets a message id can forget the message: one route has   *)
(* taken all of it, each chunk within Discord's limit, with every character *)
(* of its lines, once and in the order of the text.  (Nothing is promised  *)
(* without an id: the operator may have had a part of it, or all of it     *)
(* twice.)  A character of the lines is its own place.                     *)
Places(texts) == UNION {{i} \X DOMAIN texts[i] : i \in DOMAIN texts}
Before(p, q)  == p[1] < q[1] \/ (p[1] = q[1] /\ p[2] < q[2])
ShowsInOrder(chunks, lines) ==
  LET At(p) == chunks[p[1]][p[2]]
      shown == {p \in Places(chunks) : At(p) # NL}
  IN /\ {At(p) : p \in shown} = Places(lines)
     /\ \A p, q \in shown : Before(p, q) => Before(At(p), At(q))
ToldWhole ==
  \A n \in DOMAIN dms :
    /\ \A k \in DOMAIN dms[n].discord : Len(dms[n].discord[k]) \in 1..Limit
    /\ dms[n].result = "id" /\ ~dms[n].telegram =>
         ShowsInOrder(dms[n].discord, LinesOf(dms[n].message))

(* A kill switch that is in secrets.env from before a call to its end is   *)
(* honoured, whatever the process was started with ("makes the switch      *)
(* honour the current on-disk value at send-time").                        *)
SwitchHonoured ==
  \A n \in DOMAIN dms : /\ "discord" \in dms[n].barred => dms[n].discord = <<>>
                        /\ "telegram" \in dms[n].barred => ~dms[n].telegram

(* The worker never alarms about a lead twice within the debounce in one   *)
(* life of the process ("min seconds between alarms per lead"), also when  *)
(* the first alarm reached nobody or its sending took long.                *)
AlarmHushed ==
  \A l \in AlarmLeads : \A a, b \in alarmed[l] : a < b => b - a > Debounce
=============================================================================
