--------------------------- MODULE LeadLifecycle ---------------------------
(***************************************************************************)
(* The life of project leads.  A lead is a claude session in a tmux server *)
(* inside a transient systemd unit; the projects table of registry.sqlite  *)
(* only records what somebody last believed of it.  Three kinds of         *)
(* processes change both: tool calls of the orchestrator (its MCP server   *)
(* and the threads of the API server), the watchdog that revives dead      *)
(* leads, and the reaper that hibernates idle ones.  None of them holds a  *)
(* lock across its steps; a step here is one statement on the registry or  *)
(* one call that leaves the process.                                       *)
(***************************************************************************)
EXTENDS Integers, FiniteSets

CONSTANTS Leads,        \* names of project leads
          Remote,       \* the leads on an enrolled host; the others are local
          Tools,        \* threads that run the orchestrator's tools
          Ops,          \* the tools they run
          Cap,          \* max_concurrent of each host
          MaxAttempts,  \* HERMES_LEAD_WATCHDOG_MAX_ATTEMPTS
          Big,          \* leads over the reaper's turn or context cap
          KillResults,  \* what kill_session may achieve
          TmuxErrors,   \* may a local has-session fail?
          Timers,       \* the sweeps whose timers are enabled
          MaxDeaths,    \* bound on the watchdog's deaths
          MaxErrors     \* bound on the rows its sweeps abandon

ASSUME LifecycleAssumption ==
  /\ Remote \subseteq Leads /\ Big \subseteq Leads
  /\ Ops \subseteq {"spawn", "resume", "kill", "list", "status"}
  /\ Cap \in Nat /\ MaxAttempts \in Nat \ {0} /\ MaxDeaths \in Nat
  /\ MaxErrors \in Nat
  /\ KillResults \subseteq {"stopped", "only tmux", "nothing"} /\ KillResults # {}
  /\ TmuxErrors \in BOOLEAN /\ Timers \subseteq {"watchdog", "reaper"}
  /\ Tools \cap {"watchdog", "reaper"} = {} /\ "none" \notin Leads

VARIABLES
  row,        \* projects
  session,    \* is the lead's claude running?
  unit,       \* does the lead's transient unit exist (active, maybe exited)?
  reachable,  \* does ssh reach the enrolled host?
  backoff,    \* lead_watchdog
  tool,       \* what each tool call is doing
  dog,        \* what the watchdog's sweep is doing
  reap,       \* what the reaper's sweep is doing
  deaths,     \* deaths of the watchdog
  errors,     \* rows its sweeps abandoned to an exception
  (* history *)
  down,       \* leads that were down at an instant of a process's present call or sweep
  gaveUps     \* give-up DMs tried for a lead since its backoff was last cleared

leadVars    == <<row, session, unit, backoff>>
historyVars == <<down, gaveUps>>
vars == <<leadVars, reachable, tool, dog, reap, deaths, errors, historyVars>>

Procs == Tools \cup {"watchdog", "reaper"}

(* idle: how long ago last_activity was, against the reaper's 24 hours and *)
(* 7 days.                                                                 *)
Status == {"active", "dead", "killed"}
Row    == [status : Status, uuid : BOOLEAN, idle : {"fresh", "day", "week"}]
NoRow  == [status |-> "none", uuid |-> FALSE, idle |-> "fresh"]

Rows == Row \cup {NoRow}

(* A missing lead_watchdog row behaves as one without failures.  cooled:   *)
(* the cooldown after the last attempt is over.                            *)
Backoff   == [failures : 0 .. MaxAttempts, cooled : BOOLEAN, notified : BOOLEAN]
NoBackoff == [failures |-> 0, cooled |-> FALSE, notified |-> FALSE]

ToolPC == {"idle", "scan", "demote", "admit", "clear", "launch", "register",
           "uuid", "kill", "verify", "mark"}
Calls  == [pc : ToolPC, op : Ops \cup {"list"}, lead : Leads \cup {"none"},
           todo : SUBSET Leads, at : Leads \cup {"none"},
           live : SUBSET Leads, tries : 0 .. 2]
NewCall(op, l, label, S) == [pc |-> label, op |-> op, lead |-> l, todo |-> S,
                             at |-> "none", live |-> {}, tries |-> 0]
NoCall == [pc |-> "idle", op |-> "list", lead |-> "none", todo |-> {},
           at |-> "none", live |-> {}, tries |-> 0]

DogPC == {"idle", "pick", "heal", "backoff", "giveup", "notified", "recheck",
          "clear", "reclear", "resume", "fresh", "uuid", "grace", "revived",
          "succeed", "fail"}
Sweeps(labels) == [pc : labels, lead : Leads \cup {"none"}, rows : [Leads -> Rows]]
NoRows == [l \in Leads |-> NoRow]
Asleep == [pc |-> "idle", lead |-> "none", rows |-> NoRows]

TypeOK ==
  /\ row \in [Leads -> Rows]
  /\ session \in [Leads -> BOOLEAN]
  /\ unit \in [Leads -> BOOLEAN]
  /\ reachable \in BOOLEAN
  /\ backoff \in [Leads -> Backoff]
  /\ tool \in [Tools -> Calls]
  /\ dog \in Sweeps(DogPC)
  /\ reap \in Sweeps({"idle", "pick", "kill", "mark"})
  /\ deaths \in 0 .. MaxDeaths
  /\ down \in [Procs -> SUBSET Leads]
  /\ errors \in 0 .. MaxErrors
  /\ gaveUps \in [Leads -> Nat]

Init ==
  /\ row = NoRows
  /\ session = [l \in Leads |-> FALSE]
  /\ unit = [l \in Leads |-> FALSE]
  /\ reachable = TRUE
  /\ backoff = [l \in Leads |-> NoBackoff]
  /\ tool = [c \in Tools |-> NoCall]
  /\ dog = Asleep
  /\ reap = Asleep
  /\ deaths = 0
  /\ down = [p \in Procs |-> {}]
  /\ errors = 0
  /\ gaveUps = [l \in Leads |-> 0]

Exists(l) == row[l].status # "none"
Active    == {l \in Leads : row[l].status = "active"}
SameHost(l) == IF l \in Remote THEN Remote ELSE Leads \ Remote

-----------------------------------------------------------------------------
(* The spawner: what a process sees of a lead and does to it *)

(* Mutant: an ssh failure reads as dead. *)
LivenessTwoState(l) ==
  IF l \in Remote /\ ~reachable THEN {"dead"}
  ELSE IF session[l] THEN {"alive"}
  ELSE {"dead"} \cup {x \in {"alive"} : TmuxErrors /\ l \notin Remote}

(* lead_liveness; is_lead_alive holds of "alive" only.  A local has-session *)
(* that fails reads as alive, an ssh failure as unreachable.                *)
Liveness(l) ==
  IF l \in Remote /\ ~reachable THEN {"unreachable"}
  ELSE IF session[l] THEN {"alive"}
  ELSE {"dead"} \cup {x \in {"alive"} : TmuxErrors /\ l \notin Remote}

(* kill_session stops the unit, which takes the tmux server with it, then   *)
(* kills the session; either may fail and neither failure is reported.  On  *)
(* a host that ssh does not reach it raises.                                *)
CanKill(l) == l \in Remote => reachable

KillSession(l) ==
  \E r \in KillResults :
    /\ session' = IF r = "nothing" THEN session ELSE [session EXCEPT ![l] = FALSE]
    /\ unit' = IF r = "stopped" THEN [unit EXCEPT ![l] = FALSE] ELSE unit

(* systemd-run rejects a unit name that still exists. *)
CanLaunch(l) == ~unit[l] /\ (l \in Remote => reachable)

StartSession(l) ==
  /\ CanLaunch(l)
  /\ session' = [session EXCEPT ![l] = TRUE]
  /\ unit' = [unit EXCEPT ![l] = TRUE]

(* set_status: an UPDATE of whatever the row holds by now. *)
SetStatus(l, status, idle) ==
  row' = IF Exists(l)
         THEN [row EXCEPT ![l].status = status, ![l].idle = idle]
         ELSE row

SetUuid(l) == row' = IF Exists(l) THEN [row EXCEPT ![l].uuid = TRUE] ELSE row

(* register: an upsert, which keeps the session_uuid of an old row. *)
Register(l) == row' = [row EXCEPT ![l].status = "active", ![l].idle = "fresh"]

-----------------------------------------------------------------------------
(* Tool calls *)

ToolGoto(c, label) == tool' = [tool EXCEPT ![c].pc = label]
Return(c)          == tool' = [tool EXCEPT ![c] = NoCall]

notTool == <<backoff, reachable, dog, reap, deaths, errors, gaveUps>>

(* spawn_project, resume_project and list_projects reconcile every active  *)
(* row first, get_status its own row, kill_project none.                   *)
Call(c, op, l) ==
  /\ tool[c].pc = "idle"
  /\ op \in {"kill", "status"} => Exists(l)
  /\ tool' = [tool EXCEPT ![c] =
       NewCall(op, l, IF op = "kill" THEN "kill" ELSE "scan",
               IF op = "kill" THEN {} ELSE IF op = "status" THEN Active \cap {l} ELSE Active)]
  /\ UNCHANGED <<row, session, unit, notTool>>

(* _reconcile_active: only a lead that reads dead is demoted. *)
Scan(c) ==
  /\ tool[c].pc = "scan"
  /\ IF tool[c].todo = {}
     THEN IF tool[c].op \in {"spawn", "resume"} THEN ToolGoto(c, "admit") ELSE Return(c)
     ELSE \E l \in tool[c].todo : \E reading \in Liveness(l) :
            IF reading = "dead"
            THEN tool' = [tool EXCEPT ![c].pc = "demote", ![c].at = l]
            ELSE tool' = [tool EXCEPT ![c].todo = @ \ {l}, ![c].live = @ \cup {l}]
  /\ UNCHANGED <<row, session, unit, notTool>>

Demote(c) ==
  LET l == tool[c].at
  IN  /\ tool[c].pc = "demote"
      /\ SetStatus(l, "dead", row[l].idle)
      /\ tool' = [tool EXCEPT ![c].pc = "scan", ![c].at = "none", ![c].todo = @ \ {l}]
      /\ UNCHANGED <<session, unit, notTool>>

(* Past the safety gate, the host's concurrency cap and its memory.  A     *)
(* resume also needs a row with a session_uuid and a lead that is not      *)
(* alive, and a context below the guard unless it is forced.               *)
Admit(c) ==
  LET l == tool[c].lead
  IN  /\ tool[c].pc = "admit"
      /\ Cardinality(tool[c].live \cap SameHost(l)) < Cap
      /\ IF tool[c].op = "spawn"
         THEN ToolGoto(c, "launch")
         ELSE /\ row[l].uuid
              /\ \E reading \in Liveness(l) : reading # "alive"
              /\ ToolGoto(c, "clear")
      /\ UNCHANGED <<row, session, unit, notTool>>

(* Any of those checks may refuse, and a process may die at any step. *)
GiveUpCall(c) ==
  /\ tool[c].pc # "idle"
  /\ Return(c)
  /\ UNCHANGED <<row, session, unit, notTool>>

(* resume_background_lead clears the old unit before it launches. *)
Clear(c) ==
  /\ tool[c].pc = "clear" /\ CanKill(tool[c].lead)
  /\ KillSession(tool[c].lead)
  /\ ToolGoto(c, "launch")
  /\ UNCHANGED <<row, notTool>>

(* systemd-run may time out after the session has started: the call raises *)
(* and the session runs on.                                                *)
Launch(c) ==
  /\ tool[c].pc = "launch"
  /\ StartSession(tool[c].lead)
  /\ ToolGoto(c, "register") \/ Return(c)
  /\ UNCHANGED <<row, notTool>>

RegisterLead(c) ==
  /\ tool[c].pc = "register"
  /\ Register(tool[c].lead)
  /\ IF tool[c].op = "spawn" THEN ToolGoto(c, "uuid") ELSE Return(c)
  /\ UNCHANGED <<session, unit, notTool>>

StoreUuid(c) ==
  /\ tool[c].pc = "uuid"
  /\ SetUuid(tool[c].lead)
  /\ Return(c)
  /\ UNCHANGED <<session, unit, notTool>>

(* kill_project: kill, look, kill again, look again, raise. *)
Kill(c) ==
  /\ tool[c].pc = "kill" /\ CanKill(tool[c].lead)
  /\ KillSession(tool[c].lead)
  /\ tool' = [tool EXCEPT ![c].pc = "verify", ![c].tries = @ + 1]
  /\ UNCHANGED <<row, notTool>>

(* Mutant: the second kill is taken on trust. *)
VerifyOnce(c) ==
  /\ tool[c].pc = "verify"
  /\ \E reading \in Liveness(tool[c].lead) :
       ToolGoto(c, IF reading = "alive" /\ tool[c].tries = 1 THEN "kill" ELSE "mark")
  /\ UNCHANGED <<row, session, unit, notTool>>

Verify(c) ==
  /\ tool[c].pc = "verify"
  /\ \E reading \in Liveness(tool[c].lead) :
       IF reading # "alive" THEN ToolGoto(c, "mark")
       ELSE IF tool[c].tries = 1 THEN ToolGoto(c, "kill") ELSE Return(c)
  /\ UNCHANGED <<row, session, unit, notTool>>

MarkKilled(c) ==
  /\ tool[c].pc = "mark"
  /\ SetStatus(tool[c].lead, "killed", "fresh")
  /\ Return(c)
  /\ UNCHANGED <<session, unit, notTool>>

(* send_to_project and touch_project *)
Touch(l) ==
  /\ Exists(l) /\ row[l].idle # "fresh"
  /\ row' = [row EXCEPT ![l].idle = "fresh"]
  /\ UNCHANGED <<session, unit, tool, notTool>>

ToolStep(c) ==
  \/ \E op \in Ops, l \in Leads : Call(c, op, l)
  \/ Scan(c) \/ Demote(c) \/ Admit(c) \/ GiveUpCall(c)
  \/ Clear(c) \/ Launch(c) \/ RegisterLead(c) \/ StoreUuid(c)
  \/ Kill(c) \/ Verify(c) \/ MarkKilled(c)

-----------------------------------------------------------------------------
(* The watchdog: one sweep over the rows list_revivable returned *)

DogGoto(label) == dog' = [dog EXCEPT !.pc = label]

(* The sweep is done with its present row. *)
NextRow(p) == [p EXCEPT !.pc = "pick", !.lead = "none", !.rows[p.lead] = NoRow]

notDog == <<reachable, tool, reap, deaths, errors>>

(* Mutant: only rows that are still active are candidates. *)
DogSweepActive ==
  /\ "watchdog" \in Timers /\ dog.pc = "idle"
  /\ dog' = [dog EXCEPT !.pc = "pick",
               !.rows = [l \in Leads |->
                           IF row[l].status = "active"
                           THEN [row[l] EXCEPT !.idle = "fresh"] ELSE NoRow]]
  /\ UNCHANGED <<leadVars, notDog, gaveUps>>

(* Mutant: the rows of killed leads are candidates too. *)
DogSweepAll ==
  /\ "watchdog" \in Timers /\ dog.pc = "idle"
  /\ dog' = [dog EXCEPT !.pc = "pick",
               !.rows = [l \in Leads |-> [row[l] EXCEPT !.idle = "fresh"]]]
  /\ UNCHANGED <<leadVars, notDog, gaveUps>>

(* The sweep has no use for the rows' last_activity. *)
DogSweep ==
  /\ "watchdog" \in Timers /\ dog.pc = "idle"
  /\ dog' = [dog EXCEPT !.pc = "pick",
               !.rows = [l \in Leads |->
                           IF row[l].status \in {"active", "dead"}
                           THEN [row[l] EXCEPT !.idle = "fresh"] ELSE NoRow]]
  /\ UNCHANGED <<leadVars, notDog, gaveUps>>

(* _process_row looks with the tri-state: an unreachable host's lead is    *)
(* left alone.                                                             *)
DogLook ==
  /\ dog.pc = "pick"
  /\ IF dog.rows = NoRows
     THEN dog' = Asleep
     ELSE \E l \in {x \in Leads : dog.rows[x] # NoRow} : \E reading \in Liveness(l) :
            LET this == [dog EXCEPT !.lead = l]
            IN  dog' = IF reading = "dead" THEN [this EXCEPT !.pc = "backoff"]
                       ELSE IF reading = "alive" /\ dog.rows[l].status # "active"
                            THEN [this EXCEPT !.pc = "heal"]
                            ELSE NextRow(this)
  /\ UNCHANGED <<leadVars, notDog, gaveUps>>

(* A live lead whose row was not active when the sweep read it. *)
DogHeal ==
  /\ dog.pc = "heal"
  /\ SetStatus(dog.lead, "active", row[dog.lead].idle)
  /\ dog' = NextRow(dog)
  /\ UNCHANGED <<session, unit, backoff, notDog, gaveUps>>

GivenUp(l) == backoff[l].failures >= MaxAttempts

DogBackoff ==
  LET l == dog.lead
  IN  /\ dog.pc = "backoff"
      /\ IF GivenUp(l) /\ ~backoff[l].cooled
         THEN /\ dog' = IF backoff[l].notified THEN NextRow(dog)
                        ELSE [dog EXCEPT !.pc = "giveup"]
              /\ UNCHANGED <<backoff, gaveUps>>
         ELSE /\ DogGoto("recheck")
              /\ backoff' = IF GivenUp(l) THEN [backoff EXCEPT ![l] = NoBackoff] ELSE backoff
              /\ gaveUps' = IF GivenUp(l) THEN [gaveUps EXCEPT ![l] = 0] ELSE gaveUps
      /\ UNCHANGED <<row, session, unit, notDog>>

(* The give-up DM is tried.  _notify swallows whatever Discord and         *)
(* Telegram answer, so the sweep goes on alike whether or not it got       *)
(* through, and nothing the watchdog keeps tells the two apart.            *)
DogGiveUp ==
  /\ dog.pc = "giveup"
  /\ gaveUps' = [gaveUps EXCEPT ![dog.lead] = @ + 1]
  /\ DogGoto("notified")
  /\ UNCHANGED <<leadVars, notDog>>

(* Mutant: the note that the DM was sent is lost. *)
DogNotifiedLost ==
  /\ dog.pc = "notified"
  /\ dog' = NextRow(dog)
  /\ UNCHANGED <<leadVars, notDog, gaveUps>>

(* mark_gaveup_notified. *)
DogNotified ==
  /\ dog.pc = "notified"
  /\ backoff' = [backoff EXCEPT ![dog.lead].notified = TRUE]
  /\ dog' = NextRow(dog)
  /\ UNCHANGED <<row, session, unit, notDog, gaveUps>>

(* The second look, right before the kill: only "alive" holds it back. *)
DogRecheck ==
  /\ dog.pc = "recheck"
  /\ \E reading \in Liveness(dog.lead) :
       dog' = IF reading # "alive" THEN [dog EXCEPT !.pc = "clear"]
              ELSE IF dog.rows[dog.lead].status # "active" THEN [dog EXCEPT !.pc = "heal"]
              ELSE NextRow(dog)
  /\ UNCHANGED <<leadVars, notDog, gaveUps>>

(* An exception of kill_session is swallowed here. *)
DogClear ==
  LET l == dog.lead
  IN  /\ dog.pc = "clear"
      /\ IF CanKill(l) THEN KillSession(l) ELSE UNCHANGED <<session, unit>>
      /\ DogGoto(IF dog.rows[l].uuid THEN "reclear" ELSE "fresh")
      /\ UNCHANGED <<row, backoff, notDog, gaveUps>>

(* resume_background_lead clears once more and launches; whatever it       *)
(* raises (the context guard, an unreachable host, systemd-run) falls back *)
(* to a fresh spawn.                                                       *)
DogReclear ==
  /\ dog.pc = "reclear"
  /\ \/ CanKill(dog.lead) /\ KillSession(dog.lead) /\ DogGoto("resume")
     \/ DogGoto("fresh") /\ UNCHANGED <<session, unit>>
  /\ UNCHANGED <<row, backoff, notDog, gaveUps>>

DogResume ==
  /\ dog.pc = "resume"
  /\ \/ StartSession(dog.lead) /\ (DogGoto("grace") \/ DogGoto("fresh"))
     \/ DogGoto("fresh") /\ UNCHANGED <<session, unit>>
  /\ UNCHANGED <<row, backoff, notDog, gaveUps>>

DogFresh ==
  /\ dog.pc = "fresh"
  /\ \/ StartSession(dog.lead) /\ (DogGoto("uuid") \/ DogGoto("fail"))
     \/ DogGoto("fail") /\ UNCHANGED <<session, unit>>
  /\ UNCHANGED <<row, backoff, notDog, gaveUps>>

DogUuid ==
  /\ dog.pc = "uuid"
  /\ SetUuid(dog.lead)
  /\ DogGoto("grace")
  /\ UNCHANGED <<session, unit, backoff, notDog, gaveUps>>

DogGrace ==
  /\ dog.pc = "grace"
  /\ \E reading \in Liveness(dog.lead) :
       DogGoto(IF reading = "alive" THEN "revived" ELSE "fail")
  /\ UNCHANGED <<leadVars, notDog, gaveUps>>

DogRevived ==
  /\ dog.pc = "revived"
  /\ SetStatus(dog.lead, "active", row[dog.lead].idle)
  /\ DogGoto("succeed")
  /\ UNCHANGED <<session, unit, backoff, notDog, gaveUps>>

DogSucceed ==
  /\ dog.pc = "succeed"
  /\ backoff' = [backoff EXCEPT ![dog.lead] = NoBackoff]
  /\ gaveUps' = [gaveUps EXCEPT ![dog.lead] = 0]
  /\ dog' = NextRow(dog)
  /\ UNCHANGED <<row, session, unit, notDog>>

(* _record_failure *)
DogFail ==
  LET l == dog.lead
      n == backoff[l].failures + 1
  IN  /\ dog.pc = "fail"
      /\ backoff' = [backoff EXCEPT ![l].failures = n, ![l].cooled = FALSE]
      /\ dog' = IF n >= MaxAttempts /\ ~backoff[l].notified
                THEN [dog EXCEPT !.pc = "giveup"] ELSE NextRow(dog)
      /\ UNCHANGED <<row, session, unit, notDog, gaveUps>>

(* A statement on the registry or a look at the lead raises: run_once      *)
(* leaves the row as it is and goes on with the next.  While the uuid of a *)
(* fresh session is stored, _process_row takes it for a failed spawn.      *)
DogError ==
  /\ errors < MaxErrors
  /\ errors' = errors + 1
  /\ \/ /\ dog.pc \in {"heal", "backoff", "giveup", "notified", "recheck", "clear",
                       "grace", "revived", "succeed", "fail"}
        /\ dog' = NextRow(dog)
     \/ dog.pc = "uuid" /\ DogGoto("fail")
  /\ UNCHANGED <<leadVars, reachable, tool, reap, deaths, gaveUps>>

DogStep ==
  \/ DogSweep \/ DogLook \/ DogHeal \/ DogBackoff \/ DogGiveUp \/ DogNotified
  \/ DogRecheck \/ DogClear \/ DogReclear \/ DogResume \/ DogFresh \/ DogUuid
  \/ DogGrace \/ DogRevived \/ DogSucceed \/ DogFail

(* The sweep is killed between two steps (a reboot, a stop of its unit). *)
DogDies ==
  /\ dog.pc # "idle" /\ deaths < MaxDeaths
  /\ dog' = Asleep
  /\ deaths' = deaths + 1
  /\ UNCHANGED <<leadVars, reachable, tool, reap, errors, gaveUps>>

-----------------------------------------------------------------------------
(* The reaper: one sweep over all rows *)

ReapGoto(label) == reap' = [reap EXCEPT !.pc = label]

notReap == <<backoff, reachable, tool, dog, deaths, errors, gaveUps>>

(* The sweep has no use for the rows' session_uuid. *)
ReapSweep ==
  /\ "reaper" \in Timers /\ reap.pc = "idle"
  /\ reap' = [reap EXCEPT !.pc = "pick",
                !.rows = [l \in Leads |-> [row[l] EXCEPT !.uuid = FALSE]]]
  /\ UNCHANGED <<row, session, unit, notReap>>

(* is_lead_alive without the row's host: for a lead on an enrolled host it *)
(* asks this host, which has no such session.                              *)
ReapReads(l) == IF l \in Remote THEN {"dead"} \cup {x \in {"alive"} : TmuxErrors}
                ELSE Liveness(l)

ReapPick ==
  /\ reap.pc = "pick"
  /\ IF reap.rows = NoRows
     THEN reap' = Asleep /\ UNCHANGED row
     ELSE \E l \in {x \in Leads : reap.rows[x] # NoRow} : \E reading \in ReapReads(l) :
            LET this == [reap EXCEPT !.lead = l]
                r    == reap.rows[l]
            IN  \/ /\ r.status # "active"
                   /\ row' = IF r.idle = "week" THEN [row EXCEPT ![l] = NoRow] ELSE row
                   /\ reap' = NextRow(this)
                \/ /\ r.status = "active"
                   /\ reap' = IF r.idle # "fresh" /\ reading = "dead"
                              THEN [this EXCEPT !.pc = "mark"]
                              ELSE IF reading = "alive" /\ l \in Big
                                   THEN [this EXCEPT !.pc = "kill"]
                                   ELSE NextRow(this)
                   /\ UNCHANGED row
  /\ UNCHANGED <<session, unit, notReap>>

(* A lead over its caps: the kill is neither verified nor told the host. *)
ReapKill ==
  /\ reap.pc = "kill"
  /\ IF reap.lead \in Remote THEN UNCHANGED <<session, unit>> ELSE KillSession(reap.lead)
  /\ ReapGoto("mark")
  /\ UNCHANGED <<row, notReap>>

(* A hibernated or over-sized lead is recorded as stopped. *)
ReapMark ==
  /\ reap.pc = "mark"
  /\ SetStatus(reap.lead, "killed", "fresh")
  /\ reap' = NextRow(reap)
  /\ UNCHANGED <<session, unit, notReap>>

ReapDies ==
  /\ reap.pc # "idle"
  /\ reap' = Asleep
  /\ UNCHANGED <<row, session, unit, notReap>>

ReapStep == ReapSweep \/ ReapPick \/ ReapKill \/ ReapMark \/ ReapDies

-----------------------------------------------------------------------------
(* The world: a claude exits and its unit stays, ssh comes and goes, time  *)
(* passes for a cooldown and for idle rows.                                *)

Exit(l) ==
  /\ session[l]
  /\ session' = [session EXCEPT ![l] = FALSE]
  /\ UNCHANGED <<row, unit, tool, notTool>>

Network ==
  /\ Remote # {}
  /\ reachable' = ~reachable
  /\ UNCHANGED <<leadVars, tool, dog, reap, deaths, errors, gaveUps>>

CoolDown(l) ==
  /\ GivenUp(l) /\ ~backoff[l].cooled
  /\ backoff' = [backoff EXCEPT ![l].cooled = TRUE]
  /\ UNCHANGED <<row, session, unit, reachable, tool, dog, reap, deaths, errors, gaveUps>>

(* Only the reaper asks how long a row has been idle. *)
Age(l) ==
  /\ "reaper" \in Timers /\ Exists(l) /\ row[l].idle # "week"
  /\ row' = [row EXCEPT ![l].idle = IF @ = "fresh" THEN "day" ELSE "week"]
  /\ UNCHANGED <<session, unit, tool, notTool>>

World == Network \/ \E l \in Leads : Exit(l) \/ CoolDown(l) \/ Age(l) \/ Touch(l)

(* A process that is not idle remembers every lead it could have seen down *)
(* since its call or sweep began.                                          *)
Busy(p) == IF p = "watchdog" THEN dog.pc # "idle"
           ELSE IF p = "reaper" THEN reap.pc # "idle" ELSE tool[p].pc # "idle"

Remember ==
  down' = [p \in Procs |-> IF Busy(p)' THEN down[p] \cup {l \in Leads : ~session'[l]} ELSE {}]

Next ==
  /\ \/ \E c \in Tools : ToolStep(c)
     \/ DogStep \/ DogError \/ DogDies
     \/ ReapStep
     \/ World
  /\ Remember

Spec == Init /\ [][Next]_vars

(* The timer runs the watchdog's sweeps, and time passes for a lead in its *)
(* cooldown; nobody has to call a tool.                                    *)
FairSpec ==
  /\ Spec
  /\ WF_vars(DogStep /\ Remember)
  /\ \A l \in Leads : WF_vars(CoolDown(l) /\ Remember)
-----------------------------------------------------------------------------
(* Safety *)

CallIsEarned(c) ==
  /\ tool[c].pc = "demote" => tool[c].at \in down[c]
  /\ \/ tool[c].pc = "mark"
     \/ tool[c].op = "resume" /\ tool[c].pc \in {"clear", "launch", "register"}
     => tool[c].lead \in down[c] \cup Remote

(* A lead is demoted, or cleared for a new launch by the watchdog, only if *)
(* it was down at an instant of the same call or sweep, and so is a local  *)
(* lead resumed or recorded as killed by a tool: a failing tmux or ssh, a  *)
(* second process at work and a kill that achieved nothing never pass for  *)
(* a death.                                                                *)
VerdictsAreEarned ==
  /\ \A c \in Tools : CallIsEarned(c)
  /\ dog.pc \notin {"idle", "pick", "heal"} => dog.lead \in down["watchdog"]

(* What can come between a give-up DM and its note, or repeat a step. *)
Slips == deaths + errors

(* A give-up DM is tried once per backoff episode, and again only when the *)
(* watchdog died, or its registry failed it, between the DM and the note   *)
(* (_process_row, _record_failure); a lead noted as told had its DM tried. *)
GiveUpSentOnce ==
  \A l \in Leads :
    /\ gaveUps[l] <= 1 + Slips
    /\ backoff[l].notified => gaveUps[l] >= 1

(* Steps *)

(* A sweep of the watchdog kills, launches, records and counts only the    *)
(* lead it is on, and only if that lead's row was active or dead when the  *)
(* sweep began: a lead stopped before a sweep is left alone by all of it,  *)
(* whatever the tools do to its row meanwhile and whichever fallback the   *)
(* sweep takes (list_revivable, "must NEVER be revived"; a lead stopped    *)
(* during the sweep is another matter, see KilledIsNeverRevived).          *)
SweepOnlyRevivable ==
  \A l \in Leads :
    /\ dog' # dog
    /\ \/ row'[l] # row[l] \/ session'[l] # session[l] \/ unit'[l] # unit[l]
       \/ backoff'[l] # backoff[l] \/ gaveUps'[l] # gaveUps[l]
    => dog.lead = l /\ dog.rows[l].status \in {"active", "dead"}

StoppedIsLeftAlone == [][SweepOnlyRevivable]_vars

(* Liveness *)

(* A dead lead that nobody stopped is in the end running again, or its row *)
(* was stopped or deleted, or the watchdog tries a give-up DM about it: a  *)
(* DM that is lost is tried anew one cooldown later, so no lead is dropped *)
(* for good with one lost message.  While its host is out of reach nothing *)
(* is promised.                                                            *)
DeadIsNotDropped ==
  \A l \in Leads :
    (row[l].status \in {"active", "dead"} /\ ~session[l]) ~>
      \/ session[l]
      \/ dog.pc = "notified" /\ dog.lead = l
      \/ row[l].status \in {"killed", "none"}
      \/ l \in Remote /\ ~reachable

-----------------------------------------------------------------------------
(* The inductive invariant behind the safety properties. *)

(* A call or sweep works on a lead; a lead is killed at most twice. *)
CallOK(c) ==
  /\ tool[c].pc # "idle" => tool[c].lead \in Leads
  /\ tool[c].pc = "demote" => tool[c].at \in Leads
  /\ tool[c].pc = "kill" => tool[c].tries \in {0, 1}

LocalsOK ==
  /\ \A c \in Tools : CallOK(c)
  /\ dog.pc \notin {"idle", "pick"} => dog.lead \in Leads
  /\ reap.pc \in {"kill", "mark"} => reap.lead \in Leads

Attempting == {"recheck", "clear", "reclear", "resume", "fresh", "uuid", "grace",
               "revived", "succeed", "fail"}

(* Was a give-up DM of lead l tried that its backoff row shows, or does not *)
(* show yet?                                                                *)
Told(l) == backoff[l].notified \/ (dog.pc = "notified" /\ dog.lead = l)

(* The watchdog attempts only what it has not given up, so failures never  *)
(* pass the threshold; a DM beyond the first stands for a death, or a      *)
(* failed statement, between a DM and its note.                            *)
BackoffOK ==
  /\ dog.pc \in Attempting => ~GivenUp(dog.lead)
  /\ dog.pc \in {"giveup", "notified"} => ~backoff[dog.lead].notified
  /\ \A l \in Leads : IF Told(l) THEN gaveUps[l] \in 1 .. 1 + Slips
                       ELSE gaveUps[l] \in 0 .. Slips

LifecycleInv == TypeOK /\ LocalsOK /\ VerdictsAreEarned /\ BackoffOK

-----------------------------------------------------------------------------
(* What the documentation says and the code does not do *)

(* watchdog.py:21-22 and registry.py:178-179, "'killed' was an intentional *)
(* stop and must NEVER be revived": the watchdog starts no session of a    *)
(* lead whose row says killed.                                             *)
KilledIsNeverRevived ==
  [][\A l \in Leads :
       dog.pc \in {"resume", "fresh"} /\ dog' # dog /\ ~session[l] /\ session'[l] =>
         row[l].status # "killed"]_vars
=============================================================================
