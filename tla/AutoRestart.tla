---------------------------- MODULE AutoRestart ----------------------------
(***************************************************************************)
(* The automation that restarts services when a lead says RESTART          *)
(* REQUIRED.  Two processes launch the same script for one event: the      *)
(* listener, when it stores the event, and the prompt hook, which reads    *)
(* the events that no prompt has seen.  Neither waits for the script, and  *)
(* the script restarts them both.                                          *)
(*                                                                         *)
(* There is one window, which may end at any time.  The services of the    *)
(* events, the tailnet and the texts are left out.                         *)
(***************************************************************************)
EXTENDS Integers, FiniteSets

CONSTANTS Events,      \* events in the order in which they are stored
          Wants,       \* those with RESTART REQUIRED and a services clause
          Batch,       \* events the hook asks for (20)
          MaxPrompts,  \* bound on the prompts
          MaxKills     \* bound on the scripts that die

ASSUME RestartAssumption ==
  /\ Events \subseteq Nat /\ Wants \subseteq Events
  /\ Batch \in Nat /\ MaxPrompts \in Nat /\ MaxKills \in Nat

(* An event is launched by the listener, or by the hook of a prompt.       *)
Runs == ({"listener"} \X Events) \cup ({"hook"} \X (1..MaxPrompts))

VARIABLES
  window,    \* has HERMES_AUTO_RESTART_WINDOW_UTC not passed?
  serving,   \* does the listener run?
  rows,      \* lead_events: [claimed, injected] of each event stored
  requests,  \* the listener's threads: "claim" or "launch" of an event
  hook,      \* the hook of the present prompt: [step, seen, open]
  script,    \* each run of auto-restart-services.sh
  marker,    \* does the marker of the window exist?
  prompts, kills,
  (* history *)
  restarts,  \* how often the services were restarted in the window
  hookFires, \* launches of each event by the hook
  unmarked   \* mark_read calls that failed, for each event

restartVars == <<window, serving, rows, requests, hook, script, marker, prompts, kills,
                 restarts, hookFires, unmarked>>
scriptVars  == <<script, marker, kills, restarts>>
hookVars    == <<hook, prompts, hookFires, unmarked>>

NoHook == [step |-> "idle", seen |-> {}, open |-> {}]
Stored == DOMAIN rows
Uninjected == {e \in Stored : ~rows[e].injected}
-----------------------------------------------------------------------------
RestartInit ==
  /\ window \in BOOLEAN /\ serving = TRUE /\ rows = <<>> /\ requests = <<>>
  /\ hook = NoHook /\ script = [r \in Runs |-> "none"] /\ marker = FALSE
  /\ prompts = 0 /\ kills = 0
  /\ restarts = 0 /\ hookFires = [e \in Events |-> 0] /\ unmarked = [e \in Events |-> 0]

WindowEnds ==
  /\ window /\ window' = FALSE
  /\ UNCHANGED <<serving, rows, requests, scriptVars, hookVars>>

With(f, e, x) == [d \in DOMAIN f \cup {e} |-> IF d = e THEN x ELSE f[d]]
Less(f, e)    == [d \in DOMAIN f \ {e} |-> f[d]]

(* POST /notify stores the event; its thread goes on to the automation.    *)
StoreEvent(e) ==
  /\ serving /\ \A d \in Stored : d < e
  /\ rows' = With(rows, e, [claimed |-> FALSE, injected |-> FALSE])
  /\ requests' = With(requests, e, "claim")
  /\ UNCHANGED <<window, serving, scriptVars, hookVars>>

(* claim_action: the first claim of an event wins.                         *)
Claim(e) ==
  /\ e \in DOMAIN requests /\ requests[e] = "claim"
  /\ IF window /\ e \in Wants /\ ~rows[e].claimed
     THEN /\ rows' = [rows EXCEPT ![e].claimed = TRUE]
          /\ requests' = [requests EXCEPT ![e] = "launch"]
     ELSE requests' = Less(requests, e) /\ UNCHANGED rows
  /\ UNCHANGED <<window, serving, scriptVars, hookVars>>

(* A new process: of each launch there is one.                             *)
Launched(r) == script[r] = "none" /\ script' = [script EXCEPT ![r] = "lock"]

(* Popen, which may fail: that is logged and the claim stays.              *)
LaunchEvent(e) ==
  /\ e \in DOMAIN requests /\ requests[e] = "launch"
  /\ requests' = Less(requests, e)
  /\ Launched(<<"listener", e>>) \/ UNCHANGED script
  /\ UNCHANGED <<window, serving, rows, marker, kills, restarts, hookVars>>

(* The listener comes back after a restart or a death.                     *)
ListenerServes ==
  /\ ~serving /\ serving' = TRUE
  /\ UNCHANGED <<window, rows, requests, scriptVars, hookVars>>
ListenerStops ==
  /\ serving /\ serving' = FALSE /\ requests' = <<>>
  /\ UNCHANGED <<window, rows, scriptVars, hookVars>>
-----------------------------------------------------------------------------
(* Mutant: the hook launches the restart and marks the events afterwards. *)
FireFirst(step) == CASE step = "read" -> "fire" [] step = "fire" -> "mark" [] OTHER -> "idle"
(* The order of the hook's steps.                                          *)
After(step) == CASE step = "read" -> "mark" [] step = "mark" -> "fire" [] OTHER -> "idle"

HookGoes(step) == hook' = IF After(step) = "idle" THEN NoHook ELSE [hook EXCEPT !.step = After(step)]

(* A prompt: the hook reads the newest events that are not injected.  It   *)
(* goes on with what the claims were then.                                 *)
HookReads ==
  /\ hook = NoHook /\ prompts < MaxPrompts /\ prompts' = prompts + 1
  /\ LET newest == {e \in Uninjected : Cardinality({d \in Uninjected : d > e}) < Batch} IN
     hook' = IF ~serving \/ newest = {} THEN NoHook
             ELSE [step |-> After("read"), seen |-> newest, open |-> {e \in newest \cap Wants : ~rows[e].claimed}]
  /\ UNCHANGED <<window, serving, rows, requests, scriptVars, hookFires, unmarked>>

(* POST /mark_read; a failure is logged, and one that only loses the       *)
(* answer has marked them all the same.                                    *)
HookMarks ==
  /\ hook.step = "mark" /\ serving /\ HookGoes("mark")
  /\ rows' = [e \in Stored |-> [rows[e] EXCEPT !.injected = @ \/ e \in hook.seen]]
  /\ UNCHANGED <<window, serving, requests, scriptVars, prompts, hookFires, unmarked>>
HookCannotMark ==
  /\ hook.step = "mark" /\ HookGoes("mark")
  /\ unmarked' = [e \in Events |-> unmarked[e] + (IF e \in hook.seen THEN 1 ELSE 0)]
  /\ UNCHANGED <<window, serving, rows, requests, scriptVars, prompts, hookFires>>

(* The script is launched for the oldest event, if jq knows the syntax of  *)
(* the capture and a payload that does not parse has not ended its filter. *)
HookFires ==
  /\ hook.step = "fire" /\ HookGoes("fire")
  /\ \/ UNCHANGED <<script, hookFires>>
     \/ \E e \in hook.open :
          /\ window /\ \A d \in hook.open : e <= d
          /\ Launched(<<"hook", prompts>>)
          /\ hookFires' = [hookFires EXCEPT ![e] = @ + 1]
  /\ UNCHANGED <<window, serving, rows, requests, marker, kills, restarts, prompts, unmarked>>

HookKilled ==
  /\ hook # NoHook /\ hook' = NoHook
  /\ UNCHANGED <<window, serving, rows, requests, scriptVars, prompts, hookFires, unmarked>>
-----------------------------------------------------------------------------
Locked(r) == script[r] \in {"check", "restart", "touch"}
Moves(r, from, to) ==
  /\ script[r] = from /\ script' = [script EXCEPT ![r] = to]

(* flock -n: a second run does not wait.                                   *)
ScriptLocks(r) ==
  /\ Moves(r, "lock", IF \E q \in Runs : Locked(q) THEN "over" ELSE "check")
  /\ UNCHANGED <<window, serving, rows, requests, marker, kills, restarts, hookVars>>

(* Mutant: the lock is all there is. *)
NeverFired(r) == TRUE
NotFired(r) == ~marker
(* Without a window -- it has passed, or sudo hides it -- nothing is done. *)
ScriptChecks(r) ==
  /\ \/ NotFired(r) /\ window /\ Moves(r, "check", "restart")
     \/ Moves(r, "check", "over")
  /\ UNCHANGED <<window, serving, rows, requests, marker, kills, restarts, hookVars>>

(* systemctl restart of the services named; it may stop the listener and   *)
(* the session whose hook runs.                                            *)
ScriptRestarts(r) ==
  /\ Moves(r, "restart", "touch") /\ restarts' = restarts + 1
  /\ \E units \in SUBSET {"listener", "session"} :
       /\ IF "listener" \in units THEN serving' = FALSE /\ requests' = <<>>
          ELSE UNCHANGED <<serving, requests>>
       /\ hook' = IF "session" \in units THEN NoHook ELSE hook
  /\ UNCHANGED <<window, rows, marker, kills, prompts, hookFires, unmarked>>
ScriptTouches(r) ==
  /\ Moves(r, "touch", "over") /\ marker' = TRUE
  /\ UNCHANGED <<window, serving, rows, requests, kills, restarts, hookVars>>

(* A script dies with the unit it restarts, or otherwise.                  *)
ScriptDies(r) ==
  /\ script[r] \notin {"none", "over"} /\ kills < MaxKills /\ kills' = kills + 1
  /\ script' = [script EXCEPT ![r] = "over"]
  /\ UNCHANGED <<window, serving, rows, requests, marker, restarts, hookVars>>
-----------------------------------------------------------------------------
ScriptStep(r) == ScriptLocks(r) \/ ScriptChecks(r) \/ ScriptRestarts(r) \/ ScriptTouches(r) \/ ScriptDies(r)
RestartNext ==
  \/ WindowEnds \/ ListenerServes \/ ListenerStops
  \/ \E e \in Events : StoreEvent(e) \/ Claim(e) \/ LaunchEvent(e)
  \/ HookReads \/ HookMarks \/ HookCannotMark \/ HookFires \/ HookKilled
  \/ \E r \in Runs : ScriptStep(r)

RestartSpec == RestartInit /\ [][RestartNext]_restartVars
-----------------------------------------------------------------------------
RowsTyped == \A e \in Stored : e \in Events /\ rows[e] \in [claimed : BOOLEAN, injected : BOOLEAN]
HookTyped ==
  /\ hook.step \in {"idle", "mark", "fire"} /\ hook.seen \subseteq Events /\ hook.open \subseteq hook.seen
  /\ prompts \in 0..MaxPrompts
  /\ hookFires \in [Events -> Nat] /\ unmarked \in [Events -> Nat]
ScriptsTyped ==
  /\ script \in [Runs -> {"none", "lock", "check", "restart", "touch", "over"}]
  /\ marker \in BOOLEAN /\ kills \in 0..MaxKills /\ restarts \in Nat
RestartTypeOK ==
  /\ window \in BOOLEAN /\ serving \in BOOLEAN
  /\ RowsTyped /\ HookTyped /\ ScriptsTyped
  /\ DOMAIN requests \subseteq Stored /\ \A e \in DOMAIN requests : requests[e] \in {"claim", "launch"}

(* In one window the services are restarted once, whoever launches the     *)
(* script and for however many events; a script that dies between the      *)
(* restart and its marker is the only way to a second one ("Once-per-      *)
(* window guard: prevent sequential double-fire within the same window").  *)
RestartedOnce == restarts <= 1 + kills

(* The hook fires for an event once more than its marks have failed, at    *)
(* most: a restart that kills the hook does not make the same event fire   *)
(* again at the next prompt (mark_read "must run before any service        *)
(* restart is spawned").                                                   *)
HookFiresOnce == \A e \in Events : hookFires[e] <= 1 + unmarked[e]
=============================================================================
