--------------------------- MODULE ServicesProofs ---------------------------
(***************************************************************************)
(* The automation's promises, for any events, prompts and deaths; and,     *)
(* with the proofs of the four other small components, the types of the    *)
(* five side by side, as MCServices runs them.                             *)
(***************************************************************************)
EXTENDS MCServices, SocialVaultProofs, ReplyGuardsProofs, MessagesProofs, TLAPS

(* The lock is held by one run; while it restarts there is no marker, and  *)
(* unless a run died, a restart is followed by its marker.                 *)
LockOK ==
  /\ script \in [Runs -> {"none", "lock", "check", "restart", "touch", "over"}]
  /\ restarts \in Nat /\ kills \in Nat /\ marker \in BOOLEAN
  /\ \A q, r \in Runs : Locked(q) /\ Locked(r) => q = r
  /\ \A r \in Runs : script[r] \in {"restart", "touch"} => ~marker
  /\ restarts <= 1 + kills
  /\ ~marker /\ (\A r \in Runs : script[r] # "touch") => restarts <= kills

(* What the hook has in hand was not injected when it read it, and nobody  *)
(* else injects: an event it may still fire for has a launch to spare.     *)
Injected(e) == e \in Stored /\ rows[e].injected
HookOK ==
  /\ hook \in [step : {"idle", "mark", "fire"}, seen : SUBSET Events, open : SUBSET Events]
  /\ hook.seen \subseteq Stored /\ hook.open \subseteq hook.seen
FiresOK ==
  /\ hookFires \in [Events -> Nat] /\ unmarked \in [Events -> Nat]
  /\ \A e \in Events :
       /\ hookFires[e] <= unmarked[e] + 1
       /\ ~Injected(e) => hookFires[e] <= unmarked[e]
       /\ hook.step = "mark" /\ e \in hook.seen => ~Injected(e)
       /\ hook.step = "fire" /\ e \in hook.seen =>
            hookFires[e] <= unmarked[e] /\ (Injected(e) \/ hookFires[e] < unmarked[e])
FireInv == RowsTyped /\ HookOK /\ FiresOK
-----------------------------------------------------------------------------
USE DEF restartVars, scriptVars, hookVars

(* A step preserves P if each action does.                                 *)
LEMMA RestartStep ==
  ASSUME NEW P,
         RestartNext \/ UNCHANGED restartVars,
         WindowEnds => P, ListenerServes => P, ListenerStops => P,
         \A e \in Events : StoreEvent(e) => P,
         \A e \in Events : Claim(e) => P,
         \A e \in Events : LaunchEvent(e) => P,
         HookReads => P, HookMarks => P, HookCannotMark => P, HookFires => P, HookKilled => P,
         \A r \in Runs : ScriptLocks(r) => P,
         \A r \in Runs : ScriptChecks(r) => P,
         \A r \in Runs : ScriptRestarts(r) => P,
         \A r \in Runs : ScriptTouches(r) => P,
         \A r \in Runs : ScriptDies(r) => P,
         UNCHANGED restartVars => P
  PROVE  P
BY Zenon DEF RestartNext, ScriptStep
-----------------------------------------------------------------------------
LEMMA LockKept ==
  ASSUME LockOK, RestartNext \/ UNCHANGED restartVars
  PROVE  LockOK'
<1>0. restarts \in Nat /\ kills \in Nat /\ marker \in BOOLEAN
  BY DEF LockOK
<1>1. UNCHANGED scriptVars => LockOK'
  BY DEF LockOK, Locked
<1>2. ASSUME NEW r, Launched(r), UNCHANGED <<marker, kills, restarts>> PROVE LockOK'
  <2>1. CASE r \in Runs
    BY <1>2, <2>1 DEF LockOK, Launched, Locked
  <2>2. CASE r \notin Runs
    <3>1. script' = script
      BY <1>2, <2>2 DEF Launched, LockOK
    <3>. QED
      BY <1>1, <1>2, <3>1
  <2>. QED
    BY <2>1, <2>2
<1>3. ASSUME NEW r \in Runs, ScriptLocks(r) PROVE LockOK'
  BY <1>3 DEF LockOK, ScriptLocks, Moves, Locked
<1>4. ASSUME NEW r \in Runs, ScriptChecks(r) PROVE LockOK'
  <2>1. CASE NotFired(r) /\ window /\ Moves(r, "check", "restart")
    BY <1>4, <2>1 DEF LockOK, ScriptChecks, NotFired, Moves, Locked
  <2>2. CASE Moves(r, "check", "over")
    BY <1>4, <2>2 DEF LockOK, ScriptChecks, Moves, Locked
  <2>. QED
    BY <1>4, <2>1, <2>2 DEF ScriptChecks
<1>5. ASSUME NEW r \in Runs, ScriptRestarts(r) PROVE LockOK'
  <2>1. Moves(r, "restart", "touch") /\ restarts' = restarts + 1 /\ UNCHANGED <<marker, kills>>
    BY <1>5 DEF ScriptRestarts
  <2>2. \A q \in Runs : Locked(q) => q = r
    BY <2>1 DEF LockOK, Moves, Locked
  <2>3. ~marker /\ restarts <= kills
    BY <2>1, <2>2 DEF LockOK, Moves, Locked
  <2>4. restarts' <= 1 + kills' /\ restarts' \in Nat
    BY <1>0, <2>1, <2>3
  <2>5. script' = [script EXCEPT ![r] = "touch"] /\ script \in [Runs -> {"none", "lock", "check", "restart", "touch", "over"}]
    BY <2>1 DEF Moves, LockOK
  <2>6. script'[r] = "touch" /\ \A q \in Runs : q # r => script'[q] = script[q] /\ ~Locked(q)
    BY <2>2, <2>5
  <2>. QED
    BY <1>0, <2>1, <2>3, <2>4, <2>5, <2>6 DEF LockOK, Locked
<1>6. ASSUME NEW r \in Runs, ScriptTouches(r) PROVE LockOK'
  <2>1. script' = [script EXCEPT ![r] = "over"] /\ script[r] = "touch" /\ marker' = TRUE /\ UNCHANGED <<kills, restarts>>
    BY <1>6 DEF ScriptTouches, Moves
  <2>2. \A q \in Runs : Locked(q) => q = r
    BY <2>1 DEF LockOK, Locked
  <2>3. script' \in [Runs -> {"none", "lock", "check", "restart", "touch", "over"}]
    BY <2>1 DEF LockOK
  <2>4. script'[r] = "over" /\ \A q \in Runs : q # r => script'[q] = script[q] /\ ~Locked(q)
    BY <2>1, <2>2 DEF LockOK
  <2>. QED
    BY <1>0, <2>1, <2>3, <2>4 DEF LockOK, Locked
<1>7. ASSUME NEW r \in Runs, ScriptDies(r) PROVE LockOK'
  <2>1. script' = [script EXCEPT ![r] = "over"] /\ kills' = kills + 1 /\ UNCHANGED <<marker, restarts>>
    BY <1>7 DEF ScriptDies
  <2>2. restarts' <= kills' /\ kills' \in Nat
    BY <1>0, <2>1 DEF LockOK
  <2>3. restarts' <= 1 + kills'
    BY <1>0, <2>1, <2>2
  <2>4. \A q \in Runs : script'[q] = script[q] \/ script'[q] = "over"
    BY <2>1 DEF LockOK
  <2>5. script' \in [Runs -> {"none", "lock", "check", "restart", "touch", "over"}]
    BY <2>1 DEF LockOK
  <2>. QED
    BY <1>0, <2>1, <2>2, <2>3, <2>4, <2>5 DEF LockOK, Locked
<1>8. \A e \in Events : LaunchEvent(e) => LockOK'
  BY <1>1, <1>2 DEF LaunchEvent
<1>9. HookFires => LockOK'
  BY <1>1, <1>2 DEF HookFires
<1>10. /\ WindowEnds \/ ListenerServes \/ ListenerStops \/ HookReads \/ HookMarks \/ HookCannotMark \/ HookKilled
             \/ UNCHANGED restartVars
          => UNCHANGED scriptVars
       /\ \A e \in Events : StoreEvent(e) \/ Claim(e) => UNCHANGED scriptVars
  BY DEF WindowEnds, ListenerServes, ListenerStops, HookReads, HookMarks, HookCannotMark, HookKilled, StoreEvent, Claim
<1>. HIDE DEF restartVars, scriptVars
<1>. QED
  BY <1>1, <1>3, <1>4, <1>5, <1>6, <1>7, <1>8, <1>9, <1>10, RestartStep, Zenon

(* The lock and the marker of auto-restart-services.sh hold.               *)
THEOREM LockSafe == RestartSpec => []LockOK
<1>1. RestartInit => LockOK
  <2>1. ASSUME script = [r \in Runs |-> "none"], marker = FALSE, restarts = 0, kills = 0 PROVE LockOK
    <3>1. script \in [Runs -> {"none", "lock", "check", "restart", "touch", "over"}]
      BY <2>1
    <3>2. \A r \in Runs : ~Locked(r) /\ script[r] # "restart" /\ script[r] # "touch"
      BY <2>1 DEF Locked
    <3>3. restarts \in Nat /\ kills \in Nat /\ restarts <= 1 + kills /\ restarts <= kills
      <4>1. restarts = 0 /\ kills = 0
        BY <2>1, Zenon
      <4>. QED
        BY <4>1
    <3>4. marker = FALSE
      BY <2>1, Zenon
    <3>5. \A r \in Runs : script[r] \notin {"restart", "touch"}
      BY <3>2
    <3>. QED
      BY <3>1, <3>2, <3>3, <3>4, <3>5, Zenon DEF LockOK
  <2>2. RestartInit => /\ script = [r \in Runs |-> "none"]
                       /\ marker = FALSE /\ restarts = 0 /\ kills = 0
    BY Zenon DEF RestartInit
  <2>. QED
    BY <2>1, <2>2
<1>2. LockOK /\ [RestartNext]_restartVars => LockOK'
  <2>1. [RestartNext]_restartVars => RestartNext \/ UNCHANGED restartVars
    OBVIOUS
  <2>. QED
    BY <2>1, LockKept, Zenon
<1>. QED
  BY <1>1, <1>2, PTL DEF RestartSpec

(* Once in a window, whoever launches the script (auto-restart-services.sh). *)
THEOREM ServicesRestartOnce == RestartSpec => []RestartedOnce
<1>1. LockOK => RestartedOnce
  BY DEF LockOK, RestartedOnce
<1>. QED
  BY <1>1, LockSafe, PTL
-----------------------------------------------------------------------------
LEMMA RowsKept ==
  ASSUME RowsTyped, RestartNext \/ UNCHANGED restartVars
  PROVE  RowsTyped'
<1>1. UNCHANGED rows => RowsTyped'
  BY DEF RowsTyped, Stored
<1>2. ASSUME NEW e \in Events, StoreEvent(e) PROVE RowsTyped'
  <2>1. rows' = With(rows, e, [claimed |-> FALSE, injected |-> FALSE])
    BY <1>2 DEF StoreEvent
  <2>2. ASSUME NEW d \in DOMAIN rows' PROVE d \in Events /\ rows'[d] \in [claimed : BOOLEAN, injected : BOOLEAN]
    BY <2>1, <2>2 DEF With, RowsTyped, Stored
  <2>. QED
    BY <2>2 DEF RowsTyped, Stored
<1>3. ASSUME NEW e \in Events, Claim(e) PROVE RowsTyped'
  <2>1. CASE UNCHANGED rows
    BY <1>1, <2>1
  <2>2. CASE rows' = [rows EXCEPT ![e].claimed = TRUE]
    BY <2>2 DEF RowsTyped, Stored
  <2>. QED
    BY <1>3, <2>1, <2>2 DEF Claim
<1>4. ASSUME HookMarks PROVE RowsTyped'
  <2>1. rows' = [e \in Stored |-> [rows[e] EXCEPT !.injected = @ \/ e \in hook.seen]]
    BY <1>4 DEF HookMarks
  <2>2. ASSUME NEW e \in Stored PROVE [rows[e] EXCEPT !.injected = @ \/ e \in hook.seen] \in [claimed : BOOLEAN, injected : BOOLEAN]
    <3>1. rows[e] \in [claimed : BOOLEAN, injected : BOOLEAN]
      BY DEF RowsTyped
    <3>2. (rows[e].injected \/ e \in hook.seen) \in BOOLEAN
      OBVIOUS
    <3>. QED
      BY <3>1, <3>2
  <2>. QED
    BY <2>1, <2>2 DEF RowsTyped, Stored
<1>5. /\ WindowEnds \/ ListenerServes \/ ListenerStops \/ HookReads \/ HookCannotMark \/ HookFires \/ HookKilled
             \/ UNCHANGED restartVars
          => UNCHANGED rows
      /\ \A e \in Events : LaunchEvent(e) => UNCHANGED rows
  BY DEF WindowEnds, ListenerServes, ListenerStops, HookReads, HookCannotMark, HookFires, HookKilled, LaunchEvent
<1>6. \A r \in Runs :
         ScriptLocks(r) \/ ScriptChecks(r) \/ ScriptRestarts(r) \/ ScriptTouches(r) \/ ScriptDies(r) => UNCHANGED rows
  BY DEF ScriptLocks, ScriptChecks, ScriptRestarts, ScriptTouches, ScriptDies
<1>. HIDE DEF restartVars
<1>. QED
  BY <1>1, <1>2, <1>3, <1>4, <1>5, <1>6, RestartStep, Zenon

(* Rows stay, and only a mark injects.                                     *)
LEMMA InjectedKept ==
  ASSUME RestartAssumption, RowsTyped, RestartNext \/ UNCHANGED restartVars
  PROVE  /\ Stored \subseteq Stored'
         /\ HookMarks \/ \A e \in Events : Injected(e)' <=> Injected(e)
<1>. DEFINE Same == Stored \subseteq Stored' /\ \A e \in Events : Injected(e)' <=> Injected(e)
<1>1. UNCHANGED rows => Same
  BY DEF Injected, Stored
<1>2. ASSUME NEW e \in Events, StoreEvent(e) PROVE Same
  <2>1. rows' = With(rows, e, [claimed |-> FALSE, injected |-> FALSE])
    BY <1>2 DEF StoreEvent
  <2>2. e \notin Stored
    <3>1. e \in Nat /\ \A d \in Stored : d < e
      BY <1>2 DEF StoreEvent, RestartAssumption
    <3>2. ~(e < e)
      BY <3>1
    <3>. QED
      BY <3>1, <3>2, Zenon
  <2>3. Stored' = Stored \cup {e}
    BY <2>1 DEF With, Stored
  <2>4. rows'[e].injected = FALSE /\ \A d \in Stored : rows'[d] = rows[d]
    BY <2>1, <2>2 DEF With, Stored
  <2>. QED
    BY <2>2, <2>3, <2>4 DEF Injected
<1>3. ASSUME NEW e \in Events, Claim(e) PROVE Same
  <2>1. CASE UNCHANGED rows
    BY <1>1, <2>1
  <2>2. CASE rows' = [rows EXCEPT ![e].claimed = TRUE]
    <3>1. Stored' = Stored /\ \A d \in Stored : rows'[d].injected = rows[d].injected
      BY <2>2 DEF RowsTyped, Stored
    <3>. QED
      BY <3>1 DEF Injected
  <2>. QED
    BY <1>3, <2>1, <2>2 DEF Claim
<1>4. ASSUME HookMarks PROVE Stored \subseteq Stored'
  BY <1>4 DEF HookMarks, Stored
<1>5. /\ WindowEnds \/ ListenerServes \/ ListenerStops \/ HookReads \/ HookCannotMark \/ HookFires \/ HookKilled
             \/ UNCHANGED restartVars
          => UNCHANGED rows
      /\ \A e \in Events : LaunchEvent(e) => UNCHANGED rows
  BY DEF WindowEnds, ListenerServes, ListenerStops, HookReads, HookCannotMark, HookFires, HookKilled, LaunchEvent
<1>6. \A r \in Runs :
         ScriptLocks(r) \/ ScriptChecks(r) \/ ScriptRestarts(r) \/ ScriptTouches(r) \/ ScriptDies(r) => UNCHANGED rows
  BY DEF ScriptLocks, ScriptChecks, ScriptRestarts, ScriptTouches, ScriptDies
<1>. HIDE DEF restartVars, Same
<1>7. Same \/ HookMarks
  BY <1>1, <1>2, <1>3, <1>5, <1>6, RestartStep, Zenon
<1>. QED
  BY <1>4, <1>7 DEF Same

LEMMA HookKept ==
  ASSUME RestartAssumption, RowsTyped, HookOK, RestartNext \/ UNCHANGED restartVars
  PROVE  HookOK'
<1>. DEFINE H == [step : {"idle", "mark", "fire"}, seen : SUBSET Events, open : SUBSET Events]
<1>0. Stored \subseteq Stored'
  BY InjectedKept
<1>1. hook' = hook => HookOK'
  BY <1>0 DEF HookOK
<1>2. hook' = NoHook => HookOK'
  BY DEF HookOK, NoHook
<1>3. ASSUME NEW step \in {"mark", "fire"}, HookGoes(step) PROVE HookOK'
  <2>1. hook' = NoHook \/ hook' = [hook EXCEPT !.step = "fire"]
    BY <1>3 DEF HookGoes, After
  <2>2. CASE hook' = [hook EXCEPT !.step = "fire"]
    BY <1>0, <2>2 DEF HookOK
  <2>. QED
    BY <1>2, <2>1, <2>2
<1>4. ASSUME HookReads PROVE HookOK'
  <2>1. PICK newest \in SUBSET Uninjected :
          hook' = NoHook \/ hook' = [step |-> After("read"), seen |-> newest, open |-> {e \in newest \cap Wants : ~rows[e].claimed}]
    BY <1>4 DEF HookReads
  <2>2. newest \subseteq Events /\ newest \subseteq Stored'
    BY <1>0 DEF Uninjected, RowsTyped
  <2>3. CASE hook' = [step |-> After("read"), seen |-> newest, open |-> {e \in newest \cap Wants : ~rows[e].claimed}]
    <3>. DEFINE o == {e \in newest \cap Wants : ~rows[e].claimed}
    <3>1. o \subseteq newest /\ hook' = [step |-> "mark", seen |-> newest, open |-> o]
      BY <2>3 DEF After
    <3>. HIDE DEF o
    <3>. QED
      BY <2>2, <3>1 DEF HookOK
  <2>. QED
    BY <1>2, <2>1, <2>3
<1>5. HookMarks \/ HookCannotMark => HookGoes("mark")
  BY DEF HookMarks, HookCannotMark
<1>6. HookFires => HookGoes("fire")
  BY DEF HookFires
<1>7. HookMarks \/ HookCannotMark \/ HookFires => HookOK'
  BY <1>3, <1>5, <1>6
<1>8. HookKilled => hook' = NoHook
  BY DEF HookKilled
<1>9. \A r \in Runs : ScriptRestarts(r) => hook' = NoHook \/ hook' = hook
  BY DEF ScriptRestarts
<1>10. /\ WindowEnds \/ ListenerServes \/ ListenerStops \/ UNCHANGED restartVars => hook' = hook
       /\ \A e \in Events : StoreEvent(e) \/ Claim(e) \/ LaunchEvent(e) => hook' = hook
  BY DEF WindowEnds, ListenerServes, ListenerStops, StoreEvent, Claim, LaunchEvent
<1>11. \A r \in Runs : ScriptLocks(r) \/ ScriptChecks(r) \/ ScriptTouches(r) \/ ScriptDies(r) => hook' = hook
  BY DEF ScriptLocks, ScriptChecks, ScriptTouches, ScriptDies
<1>. HIDE DEF restartVars
<1>. QED
  BY <1>1, <1>2, <1>4, <1>7, <1>8, <1>9, <1>10, <1>11, RestartStep, Zenon

LEMMA FiresKept ==
  ASSUME RestartAssumption, RowsTyped, HookOK, FiresOK, RestartNext \/ UNCHANGED restartVars
  PROVE  FiresOK'
<1>. DEFINE Same == \A e \in Events : Injected(e)' <=> Injected(e)
<1>0. HookMarks \/ Same
  BY InjectedKept
<1>1. ASSUME Same, hook' = hook \/ hook'.step = "idle", UNCHANGED <<hookFires, unmarked>> PROVE FiresOK'
  BY <1>1 DEF FiresOK
<1>2. NoHook.step = "idle"
  BY DEF NoHook
<1>3. ASSUME HookReads, Same PROVE FiresOK'
  <2>1. UNCHANGED <<hookFires, unmarked>>
    BY <1>3 DEF HookReads
  <2>2. PICK newest \in SUBSET Uninjected :
          hook' = NoHook \/ hook' = [step |-> After("read"), seen |-> newest, open |-> {e \in newest \cap Wants : ~rows[e].claimed}]
    BY <1>3 DEF HookReads
  <2>4. CASE hook' = NoHook
    BY <1>1, <1>2, <1>3, <2>1, <2>4
  <2>. DEFINE o == {e \in newest \cap Wants : ~rows[e].claimed}
  <2>5. CASE hook' = [step |-> "mark", seen |-> newest, open |-> o]
    <3>. HIDE DEF o
    <3>1. hook'.step = "mark" /\ hook'.seen = newest
      BY <2>5
    <3>2. \A e \in newest : ~Injected(e)
      BY DEF Uninjected, Injected
    <3>. QED
      BY <1>3, <2>1, <3>1, <3>2 DEF FiresOK
  <2>6. After("read") = "mark"
    BY DEF After
  <2>. QED
    BY <2>2, <2>4, <2>5, <2>6
<1>4. ASSUME HookMarks PROVE FiresOK'
  <2>1. /\ UNCHANGED <<hookFires, unmarked>> /\ hook.step = "mark" /\ hook' = [hook EXCEPT !.step = "fire"]
    BY <1>4 DEF HookMarks, HookGoes, After
  <2>2. hook'.step = "fire" /\ hook'.seen = hook.seen
    BY <2>1 DEF HookOK
  <2>3. rows' = [e \in Stored |-> [rows[e] EXCEPT !.injected = @ \/ e \in hook.seen]]
    BY <1>4 DEF HookMarks
  <2>4. \A e \in Stored : rows'[e].injected <=> (rows[e].injected \/ e \in hook.seen)
    BY <2>3 DEF RowsTyped
  <2>5. Stored' = Stored
    BY <2>3 DEF Stored
  <2>6. \A e \in Events : Injected(e)' <=> Injected(e) \/ e \in hook.seen
    BY <2>4, <2>5 DEF Injected, HookOK
  <2>7. ASSUME NEW e \in Events
        PROVE  /\ hookFires'[e] <= unmarked'[e] + 1
               /\ ~Injected(e)' => hookFires'[e] <= unmarked'[e]
               /\ e \in hook'.seen => hookFires'[e] <= unmarked'[e] /\ Injected(e)'
    BY <2>1, <2>2, <2>6 DEF FiresOK
  <2>. QED
    BY <2>1, <2>2, <2>7 DEF FiresOK
<1>5. ASSUME HookCannotMark, Same PROVE FiresOK'
  <2>1. /\ hook.step = "mark" /\ hook' = [hook EXCEPT !.step = "fire"] /\ UNCHANGED hookFires
        /\ unmarked' = [e \in Events |-> unmarked[e] + (IF e \in hook.seen THEN 1 ELSE 0)]
    BY <1>5 DEF HookCannotMark, HookGoes, After
  <2>2. hook'.step = "fire" /\ hook'.seen = hook.seen
    BY <2>1 DEF HookOK
  <2>3. ASSUME NEW e \in Events
        PROVE  /\ unmarked'[e] \in Nat
               /\ hookFires'[e] <= unmarked'[e] + 1
               /\ ~Injected(e)' => hookFires'[e] <= unmarked'[e]
               /\ e \in hook'.seen => hookFires'[e] < unmarked'[e]
    <3>1. hookFires[e] \in Nat /\ unmarked[e] \in Nat /\ hookFires'[e] = hookFires[e]
      BY <2>1 DEF FiresOK
    <3>2. CASE e \in hook.seen
      <4>1. unmarked'[e] = unmarked[e] + 1 /\ hookFires[e] <= unmarked[e]
        BY <2>1, <3>2 DEF FiresOK
      <4>. QED
        BY <3>1, <4>1
    <3>3. CASE e \notin hook.seen
      <4>1. unmarked'[e] = unmarked[e] /\ hookFires[e] <= unmarked[e] + 1 /\ (~Injected(e)' => hookFires[e] <= unmarked[e])
        BY <1>5, <2>1, <3>1, <3>3 DEF FiresOK
      <4>. QED
        BY <2>2, <3>1, <3>3, <4>1
    <3>. QED
      BY <3>2, <3>3
  <2>4. unmarked' \in [Events -> Nat] /\ hookFires' \in [Events -> Nat]
    <3>1. unmarked' = [e \in Events |-> unmarked'[e]]
      BY <2>1
    <3>. QED
      BY <2>1, <2>3, <3>1 DEF FiresOK
  <2>. QED
    BY <2>2, <2>3, <2>4 DEF FiresOK
<1>6. ASSUME HookFires, Same PROVE FiresOK'
  <2>1. hook.step = "fire" /\ hook'.step = "idle" /\ UNCHANGED unmarked
    BY <1>6, <1>2 DEF HookFires, HookGoes, After
  <2>2. CASE UNCHANGED hookFires
    BY <1>1, <1>6, <2>1, <2>2
  <2>3. ASSUME NEW e \in hook.open, hookFires' = [hookFires EXCEPT ![e] = @ + 1] PROVE FiresOK'
    <3>1. e \in Events /\ e \in hook.seen
      BY DEF HookOK
    <3>2. hookFires[e] \in Nat /\ unmarked[e] \in Nat /\ hookFires'[e] = hookFires[e] + 1
      BY <2>3, <3>1 DEF FiresOK
    <3>3. hookFires[e] <= unmarked[e] /\ (Injected(e) \/ hookFires[e] < unmarked[e])
      BY <2>1, <3>1 DEF FiresOK
    <3>4. hookFires'[e] <= unmarked[e] + 1 /\ (Injected(e) \/ hookFires'[e] <= unmarked[e])
      BY <3>2, <3>3
    <3>5. hookFires' \in [Events -> Nat] /\ \A d \in Events : d # e => hookFires'[d] = hookFires[d]
      BY <2>3, <3>1, <3>2 DEF FiresOK
    <3>. QED
      BY <1>6, <2>1, <3>4, <3>5 DEF FiresOK
  <2>. QED
    BY <1>6, <2>2, <2>3 DEF HookFires
<1>7. HookKilled => hook'.step = "idle" /\ UNCHANGED <<hookFires, unmarked>>
  BY <1>2 DEF HookKilled
<1>8. \A r \in Runs : ScriptRestarts(r) => (hook' = hook \/ hook'.step = "idle") /\ UNCHANGED <<hookFires, unmarked>>
  BY <1>2 DEF ScriptRestarts
<1>9. /\ WindowEnds \/ ListenerServes \/ ListenerStops \/ UNCHANGED restartVars => UNCHANGED <<hook, hookFires, unmarked>>
      /\ \A e \in Events : StoreEvent(e) \/ Claim(e) \/ LaunchEvent(e) => UNCHANGED <<hook, hookFires, unmarked>>
  BY DEF WindowEnds, ListenerServes, ListenerStops, StoreEvent, Claim, LaunchEvent
<1>10. \A r \in Runs : ScriptLocks(r) \/ ScriptChecks(r) \/ ScriptTouches(r) \/ ScriptDies(r) => UNCHANGED <<hook, hookFires, unmarked>>
  BY DEF ScriptLocks, ScriptChecks, ScriptTouches, ScriptDies
<1>11. (hook' = hook \/ hook'.step = "idle") /\ UNCHANGED <<hookFires, unmarked>> => FiresOK' \/ HookMarks
  BY <1>0, <1>1
<1>12. UNCHANGED <<hook, hookFires, unmarked>> => FiresOK' \/ HookMarks
  BY <1>11
<1>. HIDE DEF restartVars, Same
<1>. QED
  BY <1>0, <1>3, <1>4, <1>5, <1>6, <1>7, <1>8, <1>9, <1>10, <1>11, <1>12, RestartStep, Zenon
-----------------------------------------------------------------------------
(* The rows, the hook and its launches stay within what the marks allow.   *)
THEOREM FiresSafe == RestartSpec => []FireInv
<1>1. RestartInit => FireInv
  <2>1. ASSUME rows = <<>>, hook = NoHook, hookFires = [e \in Events |-> 0], unmarked = [e \in Events |-> 0] PROVE FireInv
    <3>1. RowsTyped
      BY <2>1 DEF RowsTyped, Stored
    <3>2. HookOK /\ hook.step = "idle"
      BY <2>1 DEF HookOK, NoHook
    <3>. QED
      BY <2>1, <3>1, <3>2 DEF FireInv, FiresOK
  <2>. QED
    BY <2>1 DEF RestartInit
<1>2. FireInv /\ [RestartNext]_restartVars => FireInv'
  <2>1. [RestartNext]_restartVars => RestartNext \/ UNCHANGED restartVars
    OBVIOUS
  <2>. QED
    BY <2>1, RestartAssumption, RowsKept, HookKept, FiresKept, Zenon DEF FireInv
<1>. QED
  BY <1>1, <1>2, PTL DEF RestartSpec

(* A restart that kills the prompt hook does not make it fire again        *)
(* (notify_inject.sh marks before it spawns).                              *)
THEOREM EventsFireOnce == RestartSpec => []HookFiresOnce
<1>1. FireInv => HookFiresOnce
  BY DEF FireInv, FiresOK, HookFiresOnce
<1>. QED
  BY <1>1, FiresSafe, PTL
-----------------------------------------------------------------------------
(* Types: a thread of the listener works on a stored event, and the rest   *)
(* stays within its bounds.                                                *)
RequestsOK ==
  DOMAIN requests \subseteq Stored /\ \A e \in DOMAIN requests : requests[e] \in {"claim", "launch"}

BoundsOK ==
  /\ window \in BOOLEAN /\ serving \in BOOLEAN
  /\ prompts \in 0..MaxPrompts /\ kills \in 0..MaxKills

LEMMA RequestsKept ==
  ASSUME RestartAssumption, RowsTyped, RequestsOK, RestartNext \/ UNCHANGED restartVars
  PROVE  RequestsOK'
<1>0. Stored \subseteq Stored'
  BY InjectedKept
<1>1. requests' = requests \/ requests' = <<>> => RequestsOK'
  BY <1>0 DEF RequestsOK
<1>2. \A e : requests' = Less(requests, e) => RequestsOK'
  BY <1>0 DEF RequestsOK, Less
<1>3. ASSUME NEW e \in Events, StoreEvent(e) PROVE RequestsOK'
  <2>1. rows' = With(rows, e, [claimed |-> FALSE, injected |-> FALSE]) /\ requests' = With(requests, e, "claim")
    BY <1>3 DEF StoreEvent
  <2>2. e \in Stored' /\ DOMAIN requests' = DOMAIN requests \cup {e}
    BY <2>1 DEF With, Stored
  <2>3. \A d \in DOMAIN requests' : requests'[d] = IF d = e THEN "claim" ELSE requests[d]
    BY <2>1, <2>2 DEF With
  <2>. QED
    BY <1>0, <2>2, <2>3 DEF RequestsOK
<1>4. ASSUME NEW e \in Events, Claim(e) PROVE RequestsOK'
  <2>1. requests' = [requests EXCEPT ![e] = "launch"] => RequestsOK'
    BY <1>0 DEF RequestsOK
  <2>. QED
    BY <1>2, <1>4, <2>1 DEF Claim
<1>5. \A e \in Events : LaunchEvent(e) => RequestsOK'
  BY <1>2 DEF LaunchEvent
<1>6. WindowEnds \/ ListenerServes \/ ListenerStops \/ HookReads \/ HookMarks \/ HookCannotMark \/ HookFires
        \/ HookKilled \/ UNCHANGED restartVars => requests' = requests \/ requests' = <<>>
  BY DEF WindowEnds, ListenerServes, ListenerStops, HookReads, HookMarks, HookCannotMark, HookFires, HookKilled
<1>7. \A r \in Runs : ScriptLocks(r) \/ ScriptChecks(r) \/ ScriptRestarts(r) \/ ScriptTouches(r) \/ ScriptDies(r)
        => requests' = requests \/ requests' = <<>>
  BY DEF ScriptLocks, ScriptChecks, ScriptRestarts, ScriptTouches, ScriptDies
<1>. HIDE DEF restartVars
<1>. QED
  BY <1>1, <1>3, <1>4, <1>5, <1>6, <1>7, RestartStep, Zenon

LEMMA BoundsKept ==
  ASSUME RestartAssumption, BoundsOK, RestartNext \/ UNCHANGED restartVars
  PROVE  BoundsOK'
<1>. DEFINE Within == /\ window' \in BOOLEAN /\ serving' \in BOOLEAN
                      /\ prompts' = prompts \/ (prompts < MaxPrompts /\ prompts' = prompts + 1)
                      /\ kills' = kills \/ (kills < MaxKills /\ kills' = kills + 1)
<1>0. /\ window \in BOOLEAN /\ serving \in BOOLEAN
  BY DEF BoundsOK
<1>1. /\ WindowEnds \/ ListenerServes \/ ListenerStops \/ HookReads \/ HookMarks \/ HookCannotMark \/ HookFires
           \/ HookKilled \/ UNCHANGED restartVars => Within
  BY <1>0 DEF WindowEnds, ListenerServes, ListenerStops, HookReads, HookMarks, HookCannotMark, HookFires, HookKilled
<1>2. \A e \in Events : StoreEvent(e) \/ Claim(e) \/ LaunchEvent(e) => Within
  BY <1>0 DEF StoreEvent, Claim, LaunchEvent
<1>3. \A r \in Runs : ScriptLocks(r) \/ ScriptChecks(r) \/ ScriptRestarts(r) \/ ScriptTouches(r) \/ ScriptDies(r) => Within
  BY <1>0 DEF ScriptLocks, ScriptChecks, ScriptRestarts, ScriptTouches, ScriptDies
<1>. HIDE DEF restartVars, Within
<1>4. Within
  BY <1>1, <1>2, <1>3, RestartStep, Zenon
<1>. QED
  BY <1>4, RestartAssumption DEF Within, BoundsOK, RestartAssumption

(* The automation's variables keep their types: in particular the thread   *)
(* of a request finds the row it was started for                           *)
(* (_maybe_trigger_auto_restart).                                          *)
THEOREM AutomationTyped == RestartSpec => []RestartTypeOK
<1>. DEFINE TypesInv == RowsTyped /\ RequestsOK /\ BoundsOK
<1>1. RestartInit => TypesInv
  <2>1. ASSUME RestartInit PROVE /\ rows = <<>> /\ requests = <<>> /\ window \in BOOLEAN /\ serving = TRUE
                                 /\ prompts = 0 /\ kills = 0
    BY <2>1 DEF RestartInit
  <2>2. RestartInit => RowsTyped /\ RequestsOK
    BY <2>1 DEF RowsTyped, RequestsOK, Stored
  <2>3. RestartInit => BoundsOK
    BY <2>1, RestartAssumption DEF BoundsOK, RestartAssumption
  <2>. QED
    BY <2>2, <2>3
<1>2. TypesInv /\ [RestartNext]_restartVars => TypesInv'
  <2>1. [RestartNext]_restartVars => RestartNext \/ UNCHANGED restartVars
    OBVIOUS
  <2>. HIDE DEF restartVars
  <2>. QED
    BY <2>1, RestartAssumption, RowsKept, RequestsKept, BoundsKept, Zenon
<1>3. TypesInv /\ LockOK /\ FireInv => RestartTypeOK
  BY DEF RequestsOK, BoundsOK, LockOK, FireInv, HookOK, FiresOK, RestartTypeOK, HookTyped, ScriptsTyped
<1>. HIDE DEF TypesInv
<1>. QED
  BY <1>1, <1>2, <1>3, LockSafe, FiresSafe, PTL DEF RestartSpec
-----------------------------------------------------------------------------
(* Side by side: a step of one component leaves the others as they are, so *)
(* each of them behaves as it does alone, and has its types.               *)
THEOREM ServicesTyped == MCSpec => []ServicesTypeOK
<1>. HIDE DEF restartVars
<1>. DEFINE allVars == <<which, vaultVars, guardVars, dmVars, toolVars, restartVars>>
<1>1. MCInit => VaultInit /\ GuardInit /\ DmInit /\ ToolInit /\ RestartInit
  BY DEF MCInit
<1>2. [MCNext]_allVars => /\ [VaultNext]_vaultVars /\ [GuardNext]_guardVars /\ [DmNext]_dmVars
                          /\ [ToolNext]_toolVars /\ [RestartNext]_restartVars
  BY DEF MCNext
<1>3. MCSpec => VaultSpec /\ GuardSpec /\ DmSpec /\ ToolSpec /\ RestartSpec
  BY <1>1, <1>2, PTL DEF MCSpec, VaultSpec, GuardSpec, DmSpec, ToolSpec, RestartSpec
<1>4. VaultTypeOK /\ GuardTypeOK /\ DmTypeOK /\ ToolTypeOK /\ RestartTypeOK => ServicesTypeOK
  BY DEF ServicesTypeOK
<1>. QED
  BY <1>3, <1>4, VaultTypes, GuardTypes, MessagesTyped, ToolTyped, AutomationTyped, PTL
=============================================================================
