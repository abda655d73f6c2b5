------------------------ MODULE LeadLifecycleProofs ------------------------
(***************************************************************************)
(* Proofs about LeadLifecycle, for any leads, hosts, number of tool        *)
(* threads, caps, attempts, deaths and registry failures.  The inductive invariant is         *)
(* LifecycleInv.  Three groups of processes take steps: a tool call, the   *)
(* watchdog and the reaper, and the world; each group has a lemma for the  *)
(* step of each kind of state.                                             *)
(***************************************************************************)
EXTENDS LeadLifecycle, TLAPS

-----------------------------------------------------------------------------
(* What a process remembers, and what survives a step that is not its own. *)

(* A process that stays busy forgets no lead it could have seen down, and  *)
(* remembers those that are down after the step.                           *)
LEMMA DownGrows ==
  ASSUME NEW p \in Procs, Remember, Busy(p)'
  PROVE  /\ down'[p] = down[p] \cup {l \in Leads : ~session'[l]}
         /\ down[p] \subseteq down'[p]
  BY DEF Remember

(* The memory of the processes keeps its type. *)
LEMMA DownTyped ==
  ASSUME down \in [Procs -> SUBSET Leads], Remember
  PROVE  down' \in [Procs -> SUBSET Leads]
  BY DEF Remember

(* A call that a step leaves alone stays justified. *)
LEMMA CallFrame ==
  ASSUME LifecycleAssumption, NEW c \in Tools, Remember, tool'[c] = tool[c],
         CallIsEarned(c), CallOK(c)
  PROVE  CallIsEarned(c)' /\ CallOK(c)'
<1>1. CallOK(c)'
  BY DEF CallOK
<1>2. CASE tool[c].pc = "idle"
  BY <1>1, <1>2 DEF CallIsEarned
<1>3. CASE tool[c].pc # "idle"
  <2>1. Busy(c)'
    BY <1>3 DEF Busy, LifecycleAssumption
  <2>2. down[c] \subseteq down'[c]
    BY <2>1, DownGrows DEF Procs
  <2> QED BY <1>1, <2>2 DEF CallIsEarned
<1> QED BY <1>1, <1>2, <1>3

(* A sweep of the watchdog that a step leaves alone stays justified. *)
SweepIsEarned == dog.pc \notin {"idle", "pick", "heal"} => dog.lead \in down["watchdog"]

LEMMA SweepFrame ==
  ASSUME Remember, SweepIsEarned, dog' = dog
  PROVE  SweepIsEarned'
<1>1. CASE dog.pc = "idle"
  BY <1>1 DEF SweepIsEarned
<1>2. CASE dog.pc # "idle"
  <2>1. Busy("watchdog")'
    BY <1>2 DEF Busy
  <2>2. down["watchdog"] \subseteq down'["watchdog"]
    BY <2>1, DownGrows DEF Procs
  <2> QED BY <2>2 DEF SweepIsEarned
<1> QED BY <1>1, <1>2

-----------------------------------------------------------------------------
(* Types *)

LEMMA Zero ==
  ASSUME NEW n \in Nat
  PROVE  0 \in 0 .. n /\ n + 0 = n
  OBVIOUS

LEMMA NoRowOnly ==
  ASSUME NEW r \in [status : {"none"}, uuid : {FALSE}, idle : {"fresh"}]
  PROVE  r = NoRow
  BY DEF NoRow

LEMMA NoCallTyped == NoCall \in Calls
  BY DEF Calls, NoCall, ToolPC

(* A kill or a launch of the spawner keeps sessions and units Booleans. *)
LEMMA SpawnerTyped ==
  ASSUME session \in [Leads -> BOOLEAN], unit \in [Leads -> BOOLEAN],
         NEW l \in Leads, KillSession(l) \/ StartSession(l)
  PROVE  session' \in [Leads -> BOOLEAN] /\ unit' \in [Leads -> BOOLEAN]
  BY DEF KillSession, StartSession

(* Updates of a row give rows. *)
LEMMA RowUpdate ==
  ASSUME NEW r \in Rows, NEW s \in Status, NEW i \in {"fresh", "day", "week"}
  PROVE  /\ [r EXCEPT !.status = s, !.idle = i] \in Row
         /\ r.status # "none" => [r EXCEPT !.uuid = TRUE] \in Row
         /\ r.status # "none" => [r EXCEPT !.idle = i] \in Row
<1>1. r \in [status : Status \cup {"none"}, uuid : BOOLEAN, idle : {"fresh", "day", "week"}]
  <2>1. CASE r \in Row
    BY <2>1 DEF Row
  <2>2. CASE r = NoRow
    BY <2>2 DEF NoRow
  <2> QED BY <2>1, <2>2 DEF Rows
<1>2. r.status # "none" => r \in Row
  BY DEF Rows, NoRow
<1>3. [r EXCEPT !.status = s, !.idle = i] \in Row
  BY <1>1 DEF Row
<1>4. r.status # "none" => [r EXCEPT !.uuid = TRUE] \in Row
  BY <1>2 DEF Row
<1>5. r.status # "none" => [r EXCEPT !.idle = i] \in Row
  BY <1>2 DEF Row
<1> QED BY <1>3, <1>4, <1>5

(* The registry's statements keep its rows rows. *)
LEMMA StatusTyped ==
  ASSUME row \in [Leads -> Rows], NEW l \in Leads, NEW s \in Status,
         NEW i \in {"fresh", "day", "week"}, SetStatus(l, s, i)
  PROVE  row' \in [Leads -> Rows]
<1>1. row[l] \in Rows
  OBVIOUS
<1>2. [row[l] EXCEPT !.status = s, !.idle = i] \in Rows
  BY <1>1, RowUpdate DEF Rows
<1>3. row' \in {row, [row EXCEPT ![l] = [row[l] EXCEPT !.status = s, !.idle = i]]}
  BY DEF SetStatus
<1> QED BY <1>2, <1>3

LEMMA UuidTyped ==
  ASSUME row \in [Leads -> Rows], NEW l \in Leads, SetUuid(l)
  PROVE  row' \in [Leads -> Rows]
<1>1. row[l] \in Rows
  OBVIOUS
<1>2. row[l].status # "none" => [row[l] EXCEPT !.uuid = TRUE] \in Rows
  BY <1>1, RowUpdate DEF Rows, Status
<1>3. CASE row[l].status = "none"
  BY <1>3 DEF SetUuid, Exists
<1>4. CASE row[l].status # "none"
  <2>1. row' = [row EXCEPT ![l] = [row[l] EXCEPT !.uuid = TRUE]]
    BY <1>4 DEF SetUuid, Exists
  <2> QED BY <1>2, <1>4, <2>1
<1> QED BY <1>3, <1>4

LEMMA RegisterTyped ==
  ASSUME row \in [Leads -> Rows], NEW l \in Leads, Register(l)
  PROVE  row' \in [Leads -> Rows]
<1>1. row[l] \in Rows
  OBVIOUS
<1>2. [row[l] EXCEPT !.status = "active", !.idle = "fresh"] \in Rows
  BY <1>1, RowUpdate DEF Rows, Status
<1>3. row' = [row EXCEPT ![l] = [row[l] EXCEPT !.status = "active", !.idle = "fresh"]]
  BY DEF Register
<1> QED BY <1>2, <1>3

(* A call whose program counter moves stays a call. *)
LEMMA CallUpdate ==
  ASSUME NEW r \in Calls, NEW label \in ToolPC
  PROVE  [r EXCEPT !.pc = label] \in Calls
  BY DEF Calls

LEMMA GotoEffect ==
  ASSUME tool \in [Tools -> Calls], NEW c \in Tools, NEW label \in ToolPC,
         ToolGoto(c, label)
  PROVE  /\ tool' = [tool EXCEPT ![c] = tool'[c]]
         /\ tool'[c] \in Calls
         /\ tool'[c] = [tool[c] EXCEPT !.pc = label]
<1>1. tool' = [tool EXCEPT ![c] = [tool[c] EXCEPT !.pc = label]]
  BY DEF ToolGoto
<1>2. [tool[c] EXCEPT !.pc = label] \in Calls
  BY CallUpdate
<1> QED BY <1>1, <1>2

LEMMA ReturnEffect ==
  ASSUME tool \in [Tools -> Calls], NEW c \in Tools, Return(c)
  PROVE  /\ tool' = [tool EXCEPT ![c] = tool'[c]]
         /\ tool'[c] \in Calls
         /\ tool'[c] = NoCall
<1>1. NoCall \in Calls
  BY NoCallTyped
<1>2. tool' = [tool EXCEPT ![c] = NoCall]
  BY DEF Return
<1> QED BY <1>1, <1>2

(* What a step of call c leaves: the other calls, and a justified call c.  *)
CallDone(c) ==
  /\ tool' = [tool EXCEPT ![c] = tool'[c]]
  /\ tool'[c] \in Calls
  /\ CallOK(c)' /\ CallIsEarned(c)'

(* A call that returned owes nothing. *)
LEMMA ReturnDone ==
  ASSUME tool \in [Tools -> Calls], NEW c \in Tools, Return(c)
  PROVE  CallDone(c)
<1>1. /\ tool' = [tool EXCEPT ![c] = tool'[c]]
      /\ tool'[c] \in Calls
      /\ tool'[c] = NoCall
  BY ReturnEffect
<1>2. tool'[c].pc = "idle"
  BY <1>1 DEF NoCall
<1> QED BY <1>1, <1>2 DEF CallDone, CallOK, CallIsEarned

(* A call that moves on is justified if its new place asks for no verdict, *)
(* or its lead was down before or is down now.                             *)
LEMMA GotoDone ==
  ASSUME LifecycleAssumption, tool \in [Tools -> Calls], Remember,
         NEW c \in Tools, NEW label \in ToolPC \ {"idle", "demote"},
         ToolGoto(c, label), CallOK(c), tool[c].pc # "idle",
         label = "kill" => tool[c].tries \in {0, 1},
         label = "mark" \/ (tool[c].op = "resume" /\ label \in {"clear", "launch", "register"})
           => \/ tool[c].lead \in down[c] \cup Remote
              \/ ~session'[tool[c].lead]
  PROVE  CallDone(c)
<1>1. /\ tool' = [tool EXCEPT ![c] = tool'[c]]
      /\ tool'[c] \in Calls
      /\ tool'[c] = [tool[c] EXCEPT !.pc = label]
  BY GotoEffect
<1>2. tool[c] \in Calls
  OBVIOUS
<1>3. /\ tool'[c].pc = label /\ tool'[c].lead = tool[c].lead
      /\ tool'[c].op = tool[c].op /\ tool'[c].tries = tool[c].tries
  BY <1>1, <1>2 DEF Calls
<1>4. tool[c].lead \in Leads
  BY DEF CallOK
<1>5. Busy(c)'
  BY <1>3 DEF Busy, LifecycleAssumption
<1>6. down'[c] = down[c] \cup {l \in Leads : ~session'[l]}
  BY <1>5, DownGrows DEF Procs
<1>7. CallOK(c)'
  BY <1>3, <1>4 DEF CallOK
<1>8. CallIsEarned(c)'
  BY <1>3, <1>4, <1>6 DEF CallIsEarned
<1> QED BY <1>1, <1>7, <1>8 DEF CallDone

-----------------------------------------------------------------------------
(* Tool calls *)

(* A new call starts on a lead with nothing to justify. *)
LEMMA CallBegins ==
  ASSUME tool \in [Tools -> Calls], NEW c \in Tools, NEW op \in Ops, NEW l \in Leads,
         Call(c, op, l)
  PROVE  CallDone(c)
<1>1. PICK label \in {"kill", "scan"}, S \in SUBSET Leads :
        tool' = [tool EXCEPT ![c] = NewCall(op, l, label, S)]
  <2>1. CASE op = "kill"
    BY <2>1 DEF Call
  <2>2. CASE op = "status"
    BY <2>2 DEF Call, Active
  <2>3. CASE op \notin {"kill", "status"}
    BY <2>3 DEF Call, Active
  <2> QED BY <2>1, <2>2, <2>3
<1>2. label \in ToolPC /\ op \in Ops \cup {"list"} /\ l \in Leads \cup {"none"}
  BY DEF ToolPC
<1>3. NewCall(op, l, label, S) \in Calls
  BY <1>2 DEF Calls, NewCall
<1>4. tool'[c] = NewCall(op, l, label, S)
  BY <1>1
<1>5. tool'[c].pc = label /\ tool'[c].lead = l /\ tool'[c].tries = 0
  BY <1>4 DEF NewCall
<1>6. CallOK(c)' /\ CallIsEarned(c)'
  BY <1>5 DEF CallOK, CallIsEarned
<1> QED BY <1>1, <1>3, <1>4, <1>6 DEF CallDone

(* A reconciliation marks a lead for demotion only when it reads dead, and *)
(* only a lead that is down reads dead.                                    *)
LEMMA ReadsDead ==
  ASSUME LifecycleAssumption, session \in [Leads -> BOOLEAN], NEW l \in Leads,
         NEW reading \in Liveness(l)
  PROVE  /\ reading = "dead" => ~session[l]
         /\ reading # "alive" => ~session[l] \/ l \in Remote
  BY DEF Liveness

LEMMA ScanDone ==
  ASSUME LifecycleAssumption, TypeOK, LocalsOK, Remember, NEW c \in Tools,
         CallIsEarned(c), Scan(c)
  PROVE  CallDone(c)
<1>1. tool \in [Tools -> Calls] /\ tool[c] \in Calls /\ CallOK(c)
  BY DEF TypeOK, LocalsOK
<1>2. tool[c].pc = "scan" /\ tool[c].lead \in Leads
  BY <1>1 DEF Scan, CallOK
<1>3. CASE tool[c].todo = {}
  <2>1. ToolGoto(c, "admit") \/ Return(c)
    BY <1>3 DEF Scan
  <2>2. ToolGoto(c, "admit") => CallDone(c)
    BY <1>1, <1>2, GotoDone DEF ToolPC
  <2> QED BY <1>1, <2>1, <2>2, ReturnDone
<1>4. CASE tool[c].todo # {}
  <2>0. PICK l \in tool[c].todo : \E reading \in Liveness(l) :
          IF reading = "dead"
          THEN tool' = [tool EXCEPT ![c].pc = "demote", ![c].at = l]
          ELSE tool' = [tool EXCEPT ![c].todo = @ \ {l}, ![c].live = @ \cup {l}]
    BY <1>4 DEF Scan
  <2>1. PICK reading \in Liveness(l) :
          IF reading = "dead"
          THEN tool' = [tool EXCEPT ![c].pc = "demote", ![c].at = l]
          ELSE tool' = [tool EXCEPT ![c].todo = @ \ {l}, ![c].live = @ \cup {l}]
    BY <2>0
  <2>2. l \in Leads
    BY <1>1 DEF Calls
  <2>3. CASE reading = "dead"
    <3>1. tool' = [tool EXCEPT ![c] = [tool[c] EXCEPT !.pc = "demote", !.at = l]]
      BY <2>1, <2>3
    <3>2. [tool[c] EXCEPT !.pc = "demote", !.at = l] \in Calls
      BY <1>1, <2>2 DEF Calls, ToolPC
    <3>3. /\ tool'[c].pc = "demote" /\ tool'[c].at = l
          /\ tool'[c].lead = tool[c].lead
      BY <1>1, <3>1 DEF Calls
    <3>4. Busy(c)'
      BY <3>3 DEF Busy, LifecycleAssumption
    <3>5. ~session'[l]
      BY <2>2, <2>3, ReadsDead DEF TypeOK, Scan
    <3>6. l \in down'[c]
      BY <2>2, <3>4, <3>5, DownGrows DEF Procs
    <3>7. CallOK(c)' /\ CallIsEarned(c)'
      BY <1>2, <2>2, <3>3, <3>6 DEF CallOK, CallIsEarned
    <3> QED BY <1>1, <3>1, <3>2, <3>7 DEF CallDone
  <2>4. CASE reading # "dead"
    <3>1. tool' = [tool EXCEPT ![c] = [tool[c] EXCEPT !.todo = @ \ {l}, !.live = @ \cup {l}]]
      BY <2>1, <2>4
    <3>2. [tool[c] EXCEPT !.todo = @ \ {l}, !.live = @ \cup {l}] \in Calls
      BY <1>1, <2>2 DEF Calls
    <3>3. tool'[c].pc = "scan" /\ tool'[c].lead = tool[c].lead
      BY <1>1, <1>2, <3>1 DEF Calls
    <3>4. CallOK(c)' /\ CallIsEarned(c)'
      BY <1>2, <3>3 DEF CallOK, CallIsEarned
    <3> QED BY <1>1, <3>1, <3>2, <3>4 DEF CallDone
  <2> QED BY <2>3, <2>4
<1> QED BY <1>3, <1>4

LEMMA DemoteDone ==
  ASSUME TypeOK, LocalsOK, NEW c \in Tools, Demote(c)
  PROVE  CallDone(c)
<1>1. tool[c] \in Calls /\ tool[c].pc = "demote" /\ tool[c].lead \in Leads
  BY DEF TypeOK, LocalsOK, CallOK, Demote
<1> DEFINE next == [tool[c] EXCEPT !.pc = "scan", !.at = "none", !.todo = @ \ {tool[c].at}]
<1>2. tool' = [tool EXCEPT ![c] = next]
  BY DEF Demote
<1>3. next \in Calls /\ next.pc = "scan" /\ next.lead = tool[c].lead
  BY <1>1 DEF Calls, ToolPC
<1> HIDE DEF next
<1>4. tool'[c] = next
  BY <1>2 DEF TypeOK
<1>5. CallOK(c)' /\ CallIsEarned(c)'
  BY <1>1, <1>3, <1>4 DEF CallOK, CallIsEarned
<1> QED BY <1>2, <1>3, <1>4, <1>5 DEF CallDone

(* A resume passes only a lead that does not read alive. *)
LEMMA AdmitDone ==
  ASSUME LifecycleAssumption, TypeOK, LocalsOK, Remember, NEW c \in Tools, Admit(c)
  PROVE  CallDone(c)
<1>1. /\ tool \in [Tools -> Calls] /\ CallOK(c) /\ tool[c].pc = "admit"
      /\ tool[c].lead \in Leads /\ session' = session
  BY DEF TypeOK, LocalsOK, CallOK, Admit
<1>2. CASE tool[c].op = "spawn"
  <2>1. ToolGoto(c, "launch")
    BY <1>2 DEF Admit
  <2> QED BY <1>1, <1>2, <2>1, GotoDone DEF ToolPC
<1>3. CASE tool[c].op # "spawn"
  <2>1. PICK reading \in Liveness(tool[c].lead) : reading # "alive"
    BY <1>3 DEF Admit
  <2>2. ToolGoto(c, "clear")
    BY <1>3 DEF Admit
  <2>3. ~session[tool[c].lead] \/ tool[c].lead \in Remote
    BY <1>1, <2>1, ReadsDead DEF TypeOK
  <2> QED BY <1>1, <2>2, <2>3, GotoDone DEF ToolPC
<1> QED BY <1>2, <1>3

(* Clearing and launching carry the verdict on. *)
LEMMA LaunchDone ==
  ASSUME LifecycleAssumption, TypeOK, LocalsOK, Remember, NEW c \in Tools,
         CallIsEarned(c), Clear(c) \/ Launch(c)
  PROVE  CallDone(c)
<1>1. /\ tool \in [Tools -> Calls] /\ CallOK(c) /\ tool[c].pc \in {"clear", "launch"}
      /\ tool[c].op = "resume" => tool[c].lead \in down[c] \cup Remote
  BY DEF TypeOK, LocalsOK, Clear, Launch, CallIsEarned
<1>2. PICK label \in {"launch", "register"} : ToolGoto(c, label) \/ Return(c)
  BY DEF Clear, Launch
<1>3. CASE ToolGoto(c, label)
  BY <1>1, <1>3, GotoDone DEF ToolPC
<1>4. CASE Return(c)
  BY <1>1, <1>4, ReturnDone
<1> QED BY <1>2, <1>3, <1>4

(* Registering and storing the uuid end the call or are free of verdicts. *)
LEMMA RegisterDone ==
  ASSUME LifecycleAssumption, TypeOK, LocalsOK, Remember, NEW c \in Tools,
         RegisterLead(c) \/ StoreUuid(c) \/ MarkKilled(c) \/ GiveUpCall(c)
  PROVE  CallDone(c)
<1>1. tool \in [Tools -> Calls] /\ CallOK(c) /\ tool[c].pc # "idle"
  BY DEF TypeOK, LocalsOK, RegisterLead, StoreUuid, MarkKilled, GiveUpCall
<1>2. ToolGoto(c, "uuid") \/ Return(c)
  BY DEF RegisterLead, StoreUuid, MarkKilled, GiveUpCall
<1>3. CASE ToolGoto(c, "uuid")
  BY <1>1, <1>3, GotoDone DEF ToolPC
<1> QED BY <1>1, <1>2, <1>3, ReturnDone

(* The first kill and the second. *)
LEMMA KillUpdate ==
  ASSUME NEW r \in Calls, r.tries \in 0 .. 1, NEW next,
         next = [r EXCEPT !.pc = "verify", !.tries = @ + 1]
  PROVE  next \in Calls /\ next.pc = "verify" /\ next.lead = r.lead
<1>1. r.tries + 1 \in 0 .. 2
  OBVIOUS
<1>2. next = [r EXCEPT !.pc = "verify", !.tries = r.tries + 1]
  BY DEF Calls
<1>3. "verify" \in ToolPC
  BY DEF ToolPC
<1> QED BY <1>1, <1>2, <1>3 DEF Calls

LEMMA KillDone ==
  ASSUME TypeOK, LocalsOK, NEW c \in Tools, Kill(c)
  PROVE  CallDone(c)
<1>1. /\ tool[c] \in Calls /\ tool[c].pc = "kill" /\ tool[c].lead \in Leads
      /\ tool[c].tries \in 0 .. 1
  BY DEF TypeOK, LocalsOK, CallOK, Kill, Calls
<1> DEFINE next == [tool[c] EXCEPT !.pc = "verify", !.tries = @ + 1]
<1>2. tool' = [tool EXCEPT ![c] = next]
  BY DEF Kill
<1>3. next \in Calls /\ next.pc = "verify" /\ next.lead = tool[c].lead
  BY <1>1, KillUpdate
<1> HIDE DEF next
<1>4. tool'[c] = next
  BY <1>2 DEF TypeOK
<1>5. CallOK(c)' /\ CallIsEarned(c)'
  BY <1>1, <1>3, <1>4 DEF CallOK, CallIsEarned
<1> QED BY <1>2, <1>3, <1>4, <1>5 DEF CallDone

(* A kill is recorded only of a lead that did not read alive after it. *)
LEMMA VerifyDone ==
  ASSUME LifecycleAssumption, TypeOK, LocalsOK, Remember, NEW c \in Tools, Verify(c)
  PROVE  CallDone(c)
<1>1. /\ tool \in [Tools -> Calls] /\ CallOK(c) /\ tool[c].pc = "verify"
      /\ tool[c].lead \in Leads /\ session' = session
  BY DEF TypeOK, LocalsOK, CallOK, Verify
<1>2. PICK reading \in Liveness(tool[c].lead) :
        IF reading # "alive" THEN ToolGoto(c, "mark")
        ELSE IF tool[c].tries = 1 THEN ToolGoto(c, "kill") ELSE Return(c)
  BY DEF Verify
<1>3. CASE reading # "alive"
  <2>1. ~session[tool[c].lead] \/ tool[c].lead \in Remote
    BY <1>1, <1>3, ReadsDead DEF TypeOK
  <2>2. ToolGoto(c, "mark")
    BY <1>2, <1>3
  <2> QED BY <1>1, <2>1, <2>2, GotoDone DEF ToolPC
<1>4. CASE reading = "alive" /\ tool[c].tries = 1
  <2>1. ToolGoto(c, "kill")
    BY <1>2, <1>4
  <2>2. tool[c].tries \in {0, 1}
    BY <1>4
  <2>3. "kill" \in ToolPC \ {"idle", "demote"}
    BY DEF ToolPC
  <2> QED BY <1>1, <2>1, <2>2, <2>3, GotoDone
<1>5. CASE reading = "alive" /\ tool[c].tries # 1
  BY <1>1, <1>2, <1>5, ReturnDone
<1> QED BY <1>3, <1>4, <1>5

(* What every step of a call leaves of the registry and the sessions. *)
LEMMA CallTyped ==
  ASSUME TypeOK, LocalsOK, NEW c \in Tools, ToolStep(c)
  PROVE  /\ row' \in [Leads -> Rows]
         /\ session' \in [Leads -> BOOLEAN] /\ unit' \in [Leads -> BOOLEAN]
<1>1. /\ row \in [Leads -> Rows] /\ CallOK(c)
      /\ session \in [Leads -> BOOLEAN] /\ unit \in [Leads -> BOOLEAN]
  BY DEF TypeOK, LocalsOK
<1>2. ASSUME NEW op \in Ops, NEW l \in Leads, Call(c, op, l)
      PROVE  UNCHANGED <<row, session, unit>>
  BY <1>2 DEF Call
<1>3. CASE Scan(c) \/ Admit(c) \/ GiveUpCall(c) \/ Verify(c)
  BY <1>1, <1>3 DEF Scan, Admit, GiveUpCall, Verify
<1>4. CASE Demote(c)
  <2>1. /\ tool[c].at \in Leads /\ SetStatus(tool[c].at, "dead", row[tool[c].at].idle)
        /\ UNCHANGED <<session, unit>>
    BY <1>1, <1>4 DEF Demote, CallOK
  <2>2. CASE Exists(tool[c].at)
    <3>1. row[tool[c].at] \in Rows /\ row[tool[c].at].status # "none"
      BY <1>1, <2>1, <2>2 DEF Exists
    <3>2. row[tool[c].at].idle \in {"fresh", "day", "week"}
      BY <3>1 DEF Rows, Row, NoRow
    <3> QED BY <1>1, <2>1, <3>2, StatusTyped DEF Status
  <2>3. CASE ~Exists(tool[c].at)
    BY <1>1, <2>1, <2>3 DEF SetStatus
  <2> QED BY <2>2, <2>3
<1>5. CASE Clear(c) \/ Launch(c) \/ Kill(c)
  <2>1. /\ tool[c].lead \in Leads /\ row' = row
        /\ KillSession(tool[c].lead) \/ StartSession(tool[c].lead)
    BY <1>1, <1>5 DEF Clear, Launch, Kill, CallOK
  <2> QED BY <1>1, <2>1, SpawnerTyped
<1>6. CASE RegisterLead(c)
  BY <1>1, <1>6, RegisterTyped DEF RegisterLead, CallOK
<1>7. CASE StoreUuid(c)
  BY <1>1, <1>7, UuidTyped DEF StoreUuid, CallOK
<1>8. CASE MarkKilled(c)
  BY <1>1, <1>8, StatusTyped DEF MarkKilled, CallOK, Status
<1> QED BY <1>1, <1>2, <1>3, <1>4, <1>5, <1>6, <1>7, <1>8 DEF ToolStep

LEMMA ToolStepDone ==
  ASSUME LifecycleAssumption, TypeOK, LocalsOK, Remember, NEW c \in Tools,
         CallIsEarned(c), ToolStep(c)
  PROVE  CallDone(c) /\ UNCHANGED notTool
<1>1. CallDone(c)
  BY CallBegins, ScanDone, DemoteDone, AdmitDone, LaunchDone, RegisterDone,
     KillDone, VerifyDone DEF ToolStep, TypeOK
<1>2. UNCHANGED notTool
  BY DEF ToolStep, Call, Scan, Demote, Admit, GiveUpCall, Clear, Launch,
         RegisterLead, StoreUuid, Kill, Verify, MarkKilled
<1> QED BY <1>1, <1>2

-----------------------------------------------------------------------------
(* The watchdog *)

(* A sweep between two rows is a sweep. *)
LEMMA NextRowTyped ==
  ASSUME NEW labels, "pick" \in labels, NEW s \in Sweeps(labels), s.lead \in Leads
  PROVE  /\ NextRow(s) \in Sweeps(labels)
         /\ NextRow(s).pc = "pick"
<1>1. NextRow(s) = [s EXCEPT !.pc = "pick", !.lead = "none",
                             !.rows = [s.rows EXCEPT ![s.lead] = NoRow]]
  BY DEF NextRow, Sweeps
<1>2. [s.rows EXCEPT ![s.lead] = NoRow] \in [Leads -> Rows]
  BY DEF Sweeps, Rows
<1> QED BY <1>1, <1>2 DEF Sweeps

LEMMA AsleepTyped ==
  ASSUME NEW labels, "idle" \in labels
  PROVE  Asleep \in Sweeps(labels) /\ Asleep.pc = "idle"
  BY DEF Asleep, Sweeps, NoRows, Rows

(* What a step of the watchdog leaves: a justified sweep. *)
SweepDone ==
  /\ dog' \in Sweeps(DogPC)
  /\ dog'.pc \notin {"idle", "pick"} => dog'.lead \in Leads
  /\ SweepIsEarned'

(* A sweep that has found its lead down goes on with it. *)
LEMMA DogGotoDone ==
  ASSUME TypeOK, LocalsOK, Remember, SweepIsEarned,
         dog.pc \notin {"idle", "pick", "heal"},
         NEW label \in DogPC \ {"idle"}, DogGoto(label)
  PROVE  SweepDone /\ dog'.pc = label /\ dog'.lead = dog.lead
<1>1. /\ dog' \in Sweeps(DogPC) /\ dog'.pc = label /\ dog'.lead = dog.lead
  BY DEF TypeOK, DogGoto, Sweeps
<1>2. dog.lead \in Leads /\ dog.lead \in down["watchdog"]
  BY DEF LocalsOK, SweepIsEarned
<1>3. Busy("watchdog")'
  BY <1>1 DEF Busy
<1>4. down["watchdog"] \subseteq down'["watchdog"]
  BY <1>3, DownGrows DEF Procs
<1>5. SweepIsEarned'
  BY <1>1, <1>2, <1>4 DEF SweepIsEarned
<1> QED BY <1>1, <1>2, <1>5 DEF SweepDone

(* A sweep between two rows, or asleep, owes nothing. *)
LEMMA DogNextDone ==
  ASSUME NEW s \in Sweeps(DogPC), s.lead \in Leads, dog' = NextRow(s)
  PROVE  SweepDone /\ dog'.pc = "pick"
<1>1. dog' \in Sweeps(DogPC) /\ dog'.pc = "pick"
  BY NextRowTyped DEF DogPC
<1> QED BY <1>1 DEF SweepDone, SweepIsEarned

LEMMA DogAsleepDone ==
  ASSUME dog' = Asleep
  PROVE  SweepDone /\ dog'.pc = "idle"
<1>1. dog' \in Sweeps(DogPC) /\ dog'.pc = "idle"
  BY AsleepTyped DEF DogPC
<1> QED BY <1>1 DEF SweepDone, SweepIsEarned

(* A look takes up a lead as dead only when it is down. *)
LEMMA DogLookDone ==
  ASSUME LifecycleAssumption, TypeOK, Remember, DogLook
  PROVE  SweepDone /\ dog'.pc \in {"idle", "pick", "heal", "backoff"}
<1>1. dog \in Sweeps(DogPC) /\ session \in [Leads -> BOOLEAN] /\ session' = session
  BY DEF TypeOK, DogLook, leadVars
<1>2. CASE dog.rows = NoRows
  BY <1>2, DogAsleepDone DEF DogLook
<1>3. CASE dog.rows # NoRows
  <2>1. PICK l \in Leads : \E reading \in Liveness(l) :
            LET this == [dog EXCEPT !.lead = l]
            IN  dog' = IF reading = "dead" THEN [this EXCEPT !.pc = "backoff"]
                       ELSE IF reading = "alive" /\ dog.rows[l].status # "active"
                            THEN [this EXCEPT !.pc = "heal"]
                            ELSE NextRow(this)
    BY <1>3 DEF DogLook
  <2>2. PICK reading \in Liveness(l) :
            LET this == [dog EXCEPT !.lead = l]
            IN  dog' = IF reading = "dead" THEN [this EXCEPT !.pc = "backoff"]
                       ELSE IF reading = "alive" /\ dog.rows[l].status # "active"
                            THEN [this EXCEPT !.pc = "heal"]
                            ELSE NextRow(this)
    BY <2>1
  <2>3. [dog EXCEPT !.lead = l] \in Sweeps(DogPC) /\ [dog EXCEPT !.lead = l].lead = l
    BY <1>1 DEF Sweeps
  <2>4. CASE dog' = NextRow([dog EXCEPT !.lead = l])
    BY <2>3, <2>4, DogNextDone
  <2>5. CASE reading = "dead" /\ dog' = [[dog EXCEPT !.lead = l] EXCEPT !.pc = "backoff"]
    <3>1. dog' \in Sweeps(DogPC) /\ dog'.pc = "backoff" /\ dog'.lead = l
      BY <2>3, <2>5 DEF Sweeps, DogPC
    <3>2. ~session'[l]
      BY <1>1, <2>5, ReadsDead
    <3>3. Busy("watchdog")'
      BY <3>1 DEF Busy
    <3>4. l \in down'["watchdog"]
      BY <3>2, <3>3, DownGrows DEF Procs
    <3> QED BY <3>1, <3>4 DEF SweepDone, SweepIsEarned
  <2>6. CASE dog' = [[dog EXCEPT !.lead = l] EXCEPT !.pc = "heal"]
    <3>1. dog' \in Sweeps(DogPC) /\ dog'.pc = "heal" /\ dog'.lead = l
      BY <2>3, <2>6 DEF Sweeps, DogPC
    <3> QED BY <3>1 DEF SweepDone, SweepIsEarned
  <2> QED BY <2>2, <2>4, <2>5, <2>6
<1> QED BY <1>2, <1>3

(* A new sweep works on a snapshot of the registry. *)
LEMMA DogSweepDone ==
  ASSUME TypeOK, DogSweep
  PROVE  SweepDone /\ dog'.pc = "pick"
<1>1. dog \in Sweeps(DogPC) /\ row \in [Leads -> Rows]
  BY DEF TypeOK
<1> DEFINE seen == [l \in Leads |-> IF row[l].status \in {"active", "dead"}
                                    THEN [row[l] EXCEPT !.idle = "fresh"] ELSE NoRow]
<1>2. seen \in [Leads -> Rows]
  <2>1. ASSUME NEW l \in Leads, row[l].status \in {"active", "dead"}
        PROVE  [row[l] EXCEPT !.idle = "fresh"] \in Rows
    BY <1>1, <2>1, RowUpdate DEF Rows, Status
  <2> QED BY <2>1 DEF Rows
<1>3. dog' = [dog EXCEPT !.pc = "pick", !.rows = seen]
  BY DEF DogSweep
<1> HIDE DEF seen
<1>4. dog' \in Sweeps(DogPC) /\ dog'.pc = "pick"
  BY <1>1, <1>2, <1>3 DEF Sweeps, DogPC
<1> QED BY <1>4 DEF SweepDone, SweepIsEarned

(* The two spawner calls of the watchdog, and its updates of the registry. *)
LEMMA DogTyped ==
  ASSUME TypeOK, LocalsOK, DogStep
  PROVE  /\ row' \in [Leads -> Rows]
         /\ session' \in [Leads -> BOOLEAN] /\ unit' \in [Leads -> BOOLEAN]
<1>1. /\ row \in [Leads -> Rows]
      /\ session \in [Leads -> BOOLEAN] /\ unit \in [Leads -> BOOLEAN]
      /\ dog.pc \notin {"idle", "pick"} => dog.lead \in Leads
  BY DEF TypeOK, LocalsOK
<1>2. CASE UNCHANGED <<row, session, unit>>
  BY <1>1, <1>2
<1>3. CASE DogHeal \/ DogRevived
  <2>1. /\ dog.lead \in Leads /\ UNCHANGED <<session, unit>>
        /\ SetStatus(dog.lead, "active", row[dog.lead].idle)
    BY <1>1, <1>3 DEF DogHeal, DogRevived
  <2>2. CASE Exists(dog.lead)
    <3>1. row[dog.lead] \in Rows /\ row[dog.lead].status # "none"
      BY <1>1, <2>1, <2>2 DEF Exists
    <3>2. row[dog.lead].idle \in {"fresh", "day", "week"}
      BY <3>1 DEF Rows, Row, NoRow
    <3> QED BY <1>1, <2>1, <3>2, StatusTyped DEF Status
  <2>3. CASE ~Exists(dog.lead)
    BY <1>1, <2>1, <2>3 DEF SetStatus
  <2> QED BY <2>2, <2>3
<1>4. CASE DogUuid
  BY <1>1, <1>4, UuidTyped DEF DogUuid
<1>5. CASE DogClear \/ DogReclear \/ DogResume \/ DogFresh
  <2>1. /\ dog.lead \in Leads /\ row' = row
        /\ KillSession(dog.lead) \/ StartSession(dog.lead) \/ UNCHANGED <<session, unit>>
    BY <1>1, <1>5 DEF DogClear, DogReclear, DogResume, DogFresh
  <2> QED BY <1>1, <2>1, SpawnerTyped
<1>6. DogStep => \/ DogHeal \/ DogRevived \/ DogUuid \/ UNCHANGED <<row, session, unit>>
                 \/ DogClear \/ DogReclear \/ DogResume \/ DogFresh
  BY DEF DogStep, DogSweep, DogLook, DogBackoff, DogGiveUp, DogNotified, DogRecheck,
         DogGrace, DogSucceed, DogFail, leadVars
<1> QED BY <1>2, <1>3, <1>4, <1>5, <1>6

-----------------------------------------------------------------------------
(* The backoff of a lead and what the operator was told of it *)

(* Arithmetic of the account. *)
LEMMA Counting ==
  ASSUME NEW d \in Nat, NEW D \in Nat, NEW g
  PROVE  /\ g \in 0 .. d => g + 1 \in 1 .. 1 + d
         /\ g \in 0 .. d => g \in 0 .. d + 1
         /\ g \in 1 .. 1 + d => g \in 1 .. 1 + (d + 1) /\ g \in 0 .. d + 1
         /\ d < D => d + 1 \in 0 .. D
  OBVIOUS

LEMMA OneMore ==
  ASSUME NEW d \in Nat, NEW e \in Nat
  PROVE  (d + 1) + e = (d + e) + 1 /\ d + (e + 1) = (d + e) + 1
  OBVIOUS

LEMMA Successor ==
  ASSUME NEW n, NEW M \in Nat
  PROVE  /\ n \in Nat => n + 1 \in Nat
         /\ n \in 0 .. M => n \in Nat
         /\ n \in 0 .. M /\ ~(n >= M) => n + 1 \in 0 .. M
  OBVIOUS

LEMMA SlipsTyped ==
  ASSUME TypeOK
  PROVE  deaths \in Nat /\ errors \in Nat /\ Slips \in Nat
<1>1. deaths \in 0 .. MaxDeaths /\ errors \in 0 .. MaxErrors
  BY DEF TypeOK
<1>2. deaths \in Nat /\ errors \in Nat
  BY <1>1
<1> QED BY <1>2 DEF Slips

(* A step that neither counts nor tells keeps the account. *)
LEMMA BackoffFrame ==
  ASSUME BackoffOK, backoff' = backoff, gaveUps' = gaveUps, deaths' = deaths, errors' = errors,
         dog.pc # "notified", dog'.pc # "notified",
         dog'.pc \in Attempting => ~GivenUp(dog'.lead),
         dog'.pc = "giveup" => ~backoff[dog'.lead].notified
  PROVE  BackoffOK'
<1>1. (dog.pc \in Attempting => ~GivenUp(dog.lead))'
  BY DEF GivenUp, Attempting
<1>2. (dog.pc \in {"giveup", "notified"} => ~backoff[dog.lead].notified)'
  OBVIOUS
<1>3. ASSUME NEW l \in Leads
      PROVE  Told(l)' = Told(l)
  BY DEF Told
<1>4. (\A l \in Leads : IF Told(l) THEN gaveUps[l] \in 1 .. 1 + Slips
                       ELSE gaveUps[l] \in 0 .. Slips)'
  BY <1>3 DEF BackoffOK, Slips
<1> QED BY <1>1, <1>2, <1>4 DEF BackoffOK

(* What a step of the watchdog does to the account of its leads. *)
AccountDone ==
  /\ backoff' \in [Leads -> Backoff]
  /\ gaveUps' \in [Leads -> Nat]
  /\ BackoffOK'

LEMMA AttemptStep ==
  ASSUME TypeOK, LocalsOK, Remember, SweepIsEarned, BackoffOK,
         dog.pc \in Attempting \cup {"heal"},
         dog.pc = "heal" => dog' = NextRow(dog),
         \/ dog' = NextRow(dog)
         \/ \E label \in Attempting \cup {"heal"} : DogGoto(label),
         UNCHANGED <<backoff, gaveUps, deaths, errors>>
  PROVE  SweepDone /\ AccountDone
<1>1. dog.pc \notin {"idle", "pick", "notified"} /\ dog.lead \in Leads /\ dog \in Sweeps(DogPC)
  BY DEF Attempting, LocalsOK, TypeOK
<1>2. CASE dog' = NextRow(dog)
  <2>1. SweepDone /\ dog'.pc = "pick"
    BY <1>1, <1>2, DogNextDone
  <2>2. BackoffOK'
    BY <1>1, <2>1, BackoffFrame DEF Attempting
  <2> QED BY <2>1, <2>2 DEF AccountDone, TypeOK
<1>3. ASSUME NEW label \in Attempting \cup {"heal"}, DogGoto(label), dog.pc # "heal"
      PROVE  SweepDone /\ AccountDone
  <2>1. label \in DogPC \ {"idle"} /\ label \notin {"giveup", "notified"}
    BY <1>3 DEF Attempting, DogPC
  <2>2. SweepDone /\ dog'.pc = label /\ dog'.lead = dog.lead
    BY <1>1, <1>3, <2>1, DogGotoDone
  <2>3. ~GivenUp(dog.lead)
    BY <1>3 DEF BackoffOK
  <2>4. BackoffOK'
    BY <1>1, <2>1, <2>2, <2>3, BackoffFrame
  <2> QED BY <2>2, <2>4 DEF AccountDone, TypeOK
<1> QED BY <1>2, <1>3

LEMMA DogQuietDone ==
  ASSUME LifecycleAssumption, TypeOK, LocalsOK, Remember, SweepIsEarned, BackoffOK,
         \/ DogSweep \/ DogLook \/ DogHeal \/ DogRecheck \/ DogClear \/ DogReclear
         \/ DogResume \/ DogFresh \/ DogUuid \/ DogGrace \/ DogRevived
  PROVE  SweepDone /\ AccountDone
<1>1. CASE DogSweep \/ DogLook
  <2>1. /\ SweepDone /\ dog'.pc \in {"idle", "pick", "heal", "backoff"}
        /\ UNCHANGED <<backoff, gaveUps, deaths, errors>> /\ dog.pc # "notified"
    BY <1>1, DogSweepDone, DogLookDone DEF DogSweep, DogLook, leadVars, notDog
  <2>2. BackoffOK'
    BY <2>1, BackoffFrame DEF Attempting
  <2> QED BY <2>1, <2>2 DEF AccountDone, TypeOK
<1>2. CASE DogHeal
  BY <1>2, AttemptStep DEF DogHeal, notDog
<1>3. CASE DogRecheck
  <2>1. dog' = NextRow(dog) \/ DogGoto("clear") \/ DogGoto("heal")
    BY <1>3 DEF DogRecheck, DogGoto
  <2>2. dog.pc = "recheck" /\ UNCHANGED <<backoff, gaveUps, deaths, errors>>
    BY <1>3 DEF DogRecheck, leadVars, notDog
  <2> QED BY <2>1, <2>2, AttemptStep DEF Attempting
<1>4. CASE DogClear
  <2>1. DogGoto("reclear") \/ DogGoto("fresh")
    BY <1>4 DEF DogClear
  <2>2. dog.pc = "clear" /\ UNCHANGED <<backoff, gaveUps, deaths, errors>>
    BY <1>4 DEF DogClear, notDog
  <2> QED BY <2>1, <2>2, AttemptStep DEF Attempting
<1>5. CASE DogReclear
  <2>1. DogGoto("resume") \/ DogGoto("fresh")
    BY <1>5 DEF DogReclear
  <2>2. dog.pc = "reclear" /\ UNCHANGED <<backoff, gaveUps, deaths, errors>>
    BY <1>5 DEF DogReclear, notDog
  <2> QED BY <2>1, <2>2, AttemptStep DEF Attempting
<1>6. CASE DogResume
  <2>1. DogGoto("grace") \/ DogGoto("fresh")
    BY <1>6 DEF DogResume
  <2>2. dog.pc = "resume" /\ UNCHANGED <<backoff, gaveUps, deaths, errors>>
    BY <1>6 DEF DogResume, notDog
  <2> QED BY <2>1, <2>2, AttemptStep DEF Attempting
<1>7. CASE DogFresh
  <2>1. DogGoto("uuid") \/ DogGoto("fail")
    BY <1>7 DEF DogFresh
  <2>2. dog.pc = "fresh" /\ UNCHANGED <<backoff, gaveUps, deaths, errors>>
    BY <1>7 DEF DogFresh, notDog
  <2> QED BY <2>1, <2>2, AttemptStep DEF Attempting
<1>8. CASE DogUuid
  BY <1>8, AttemptStep DEF DogUuid, notDog, Attempting
<1>9. CASE DogGrace
  <2>1. DogGoto("revived") \/ DogGoto("fail")
    BY <1>9 DEF DogGrace
  <2>2. dog.pc = "grace" /\ UNCHANGED <<backoff, gaveUps, deaths, errors>>
    BY <1>9 DEF DogGrace, leadVars, notDog
  <2> QED BY <2>1, <2>2, AttemptStep DEF Attempting
<1>10. CASE DogRevived
  BY <1>10, AttemptStep DEF DogRevived, notDog, Attempting
<1> QED BY <1>1, <1>2, <1>3, <1>4, <1>5, <1>6, <1>7, <1>8, <1>9, <1>10

(* A backoff that is cleared, with the DMs of its episode. *)
LEMMA AccountCleared ==
  ASSUME MaxAttempts \in Nat \ {0}, TypeOK, LocalsOK, BackoffOK, NEW l \in Leads,
         backoff' = [backoff EXCEPT ![l] = NoBackoff], gaveUps' = [gaveUps EXCEPT ![l] = 0],
         deaths' = deaths, errors' = errors, dog.pc # "notified",
         dog'.pc \notin {"giveup", "notified"},
         dog'.pc \in Attempting => dog'.lead = l
  PROVE  AccountDone
<1>1. /\ backoff \in [Leads -> Backoff] /\ gaveUps \in [Leads -> Nat]
      /\ Slips \in Nat /\ Slips' = Slips
      /\ NoBackoff \in Backoff
  <2>1. 0 \in 0 .. MaxAttempts
    BY Zero
  <2>2. NoBackoff \in Backoff
    BY <2>1 DEF NoBackoff, Backoff
  <2>3. Slips \in Nat /\ Slips' = Slips
    BY SlipsTyped DEF Slips
  <2> QED BY <2>2, <2>3 DEF TypeOK
<1>2. backoff'[l] = NoBackoff /\ gaveUps'[l] = 0
  BY <1>1
<1>3. (dog.pc \in Attempting => ~GivenUp(dog.lead))'
  <2>1. ~(NoBackoff.failures >= MaxAttempts)
    BY DEF NoBackoff
  <2> QED BY <1>2, <2>1 DEF GivenUp, Attempting
<1>4. (\A k \in Leads : IF Told(k) THEN gaveUps[k] \in 1 .. 1 + Slips
                       ELSE gaveUps[k] \in 0 .. Slips)'
  <2> SUFFICES ASSUME NEW k \in Leads
               PROVE  (IF Told(k) THEN gaveUps[k] \in 1 .. 1 + Slips
                       ELSE gaveUps[k] \in 0 .. Slips)'
    OBVIOUS
  <2>1. CASE k = l
    <3>1. ~Told(k)'
      BY <1>2, <2>1 DEF Told, NoBackoff
    <3>2. 0 \in 0 .. Slips
      BY <1>1, Zero
    <3>3. gaveUps'[k] \in 0 .. Slips'
      BY <1>1, <1>2, <2>1, <3>2
    <3> QED BY <3>1, <3>3
  <2>2. CASE k # l
    <3>1. Told(k)' = Told(k) /\ gaveUps'[k] = gaveUps[k]
      BY <1>1, <2>2 DEF Told
    <3> QED BY <1>1, <3>1 DEF BackoffOK
  <2> QED BY <2>1, <2>2
<1>5. /\ backoff' \in [Leads -> Backoff] /\ gaveUps' \in [Leads -> Nat]
  BY <1>1
<1>6. (dog.pc \in {"giveup", "notified"} => ~backoff[dog.lead].notified)'
  OBVIOUS
<1> QED BY <1>3, <1>4, <1>5, <1>6 DEF AccountDone, BackoffOK

LEMMA DogBackoffDone ==
  ASSUME LifecycleAssumption, TypeOK, LocalsOK, Remember, SweepIsEarned, BackoffOK, DogBackoff
  PROVE  SweepDone /\ AccountDone
<1>1. /\ dog \in Sweeps(DogPC) /\ dog.lead \in Leads /\ dog.pc = "backoff" /\ deaths' = deaths /\ errors' = errors
      /\ MaxAttempts \in Nat \ {0}
  BY DEF TypeOK, LocalsOK, DogBackoff, notDog, LifecycleAssumption
<1>2. CASE GivenUp(dog.lead) /\ ~backoff[dog.lead].cooled
  <2>1. UNCHANGED <<backoff, gaveUps>>
    BY <1>2 DEF DogBackoff
  <2>2. CASE dog' = NextRow(dog)
    <3>1. SweepDone /\ dog'.pc = "pick"
      BY <1>1, <2>2, DogNextDone
    <3>2. BackoffOK'
      BY <1>1, <2>1, <3>1, BackoffFrame DEF Attempting
    <3> QED BY <2>1, <3>1, <3>2 DEF AccountDone, TypeOK
  <2>3. CASE DogGoto("giveup") /\ ~backoff[dog.lead].notified
    <3>1. SweepDone /\ dog'.pc = "giveup" /\ dog'.lead = dog.lead
      BY <1>1, <2>3, DogGotoDone DEF DogPC
    <3>2. BackoffOK'
      BY <1>1, <2>1, <2>3, <3>1, BackoffFrame DEF Attempting
    <3> QED BY <2>1, <3>1, <3>2 DEF AccountDone, TypeOK
  <2> QED BY <1>2, <2>2, <2>3 DEF DogBackoff, DogGoto
<1>3. CASE ~(GivenUp(dog.lead) /\ ~backoff[dog.lead].cooled)
  <2>1. DogGoto("recheck")
    BY <1>3 DEF DogBackoff
  <2>2. SweepDone /\ dog'.pc = "recheck" /\ dog'.lead = dog.lead
    BY <1>1, <2>1, DogGotoDone DEF DogPC
  <2>3. CASE GivenUp(dog.lead)
    <3>1. /\ backoff' = [backoff EXCEPT ![dog.lead] = NoBackoff]
          /\ gaveUps' = [gaveUps EXCEPT ![dog.lead] = 0]
      BY <1>3, <2>3 DEF DogBackoff
    <3> QED BY <1>1, <2>2, <3>1, AccountCleared
  <2>4. CASE ~GivenUp(dog.lead)
    <3>1. UNCHANGED <<backoff, gaveUps>>
      BY <1>3, <2>4 DEF DogBackoff
    <3>2. BackoffOK'
      BY <1>1, <2>2, <2>4, <3>1, BackoffFrame
    <3> QED BY <2>2, <3>1, <3>2 DEF AccountDone, TypeOK
  <2> QED BY <2>3, <2>4
<1> QED BY <1>2, <1>3

LEMMA DogSucceedDone ==
  ASSUME LifecycleAssumption, TypeOK, LocalsOK, Remember, SweepIsEarned, BackoffOK, DogSucceed
  PROVE  SweepDone /\ AccountDone
<1>1. /\ dog \in Sweeps(DogPC) /\ dog.lead \in Leads /\ dog.pc = "succeed" /\ deaths' = deaths /\ errors' = errors
      /\ MaxAttempts \in Nat \ {0}
  BY DEF TypeOK, LocalsOK, DogSucceed, notDog, LifecycleAssumption
<1>2. SweepDone /\ dog'.pc = "pick"
  BY <1>1, DogNextDone DEF DogSucceed
<1>3. AccountDone
  BY <1>1, <1>2, AccountCleared DEF DogSucceed, Attempting
<1> QED BY <1>2, <1>3

(* The DM of a lead that was not told: one more than the slips allow, and  *)
(* from now on the lead counts as told.                                    *)
LEMMA DogGiveUpDone ==
  ASSUME LifecycleAssumption, TypeOK, LocalsOK, Remember, SweepIsEarned, BackoffOK, DogGiveUp
  PROVE  SweepDone /\ AccountDone
<1>1. /\ dog \in Sweeps(DogPC) /\ dog.lead \in Leads /\ dog.pc = "giveup" /\ Slips' = Slips
      /\ backoff' = backoff /\ backoff \in [Leads -> Backoff] /\ gaveUps \in [Leads -> Nat]
      /\ gaveUps' = [gaveUps EXCEPT ![dog.lead] = gaveUps[dog.lead] + 1]
      /\ ~backoff[dog.lead].notified
  BY DEF TypeOK, LocalsOK, DogGiveUp, notDog, leadVars, BackoffOK, Slips
<1>d. Slips \in Nat
  BY SlipsTyped
<1>2. SweepDone /\ dog'.pc = "notified" /\ dog'.lead = dog.lead
  <2>1. DogGoto("notified") /\ "notified" \in DogPC \ {"idle"}
    BY DEF DogGiveUp, DogPC
  <2> QED BY <1>1, <2>1, DogGotoDone
<1>3. gaveUps' \in [Leads -> Nat]
  <2>1. gaveUps[dog.lead] \in Nat
    BY <1>1
  <2>2. gaveUps[dog.lead] + 1 \in Nat
    BY <2>1, Successor
  <2> QED BY <1>1, <2>2
<1>4. (\A k \in Leads : IF Told(k) THEN gaveUps[k] \in 1 .. 1 + Slips
                       ELSE gaveUps[k] \in 0 .. Slips)'
  <2> SUFFICES ASSUME NEW k \in Leads
               PROVE  (IF Told(k) THEN gaveUps[k] \in 1 .. 1 + Slips
                       ELSE gaveUps[k] \in 0 .. Slips)'
    OBVIOUS
  <2>1. CASE k = dog.lead
    <3>1. ~Told(k) /\ Told(k)'
      BY <1>1, <1>2, <2>1 DEF Told
    <3>2. gaveUps[k] \in 0 .. Slips
      BY <3>1 DEF BackoffOK
    <3>3. gaveUps'[k] = gaveUps[k] + 1
      BY <1>1, <2>1
    <3>4. gaveUps[k] + 1 \in 1 .. 1 + Slips
      BY <1>d, <3>2, Counting
    <3> QED BY <1>1, <3>1, <3>3, <3>4
  <2>2. CASE k # dog.lead
    <3>1. Told(k)' = Told(k) /\ gaveUps'[k] = gaveUps[k]
      BY <1>1, <1>2, <2>2 DEF Told
    <3> QED BY <1>1, <3>1 DEF BackoffOK
  <2> QED BY <2>1, <2>2
<1>5. (dog.pc \in {"giveup", "notified"} => ~backoff[dog.lead].notified)'
  BY <1>1, <1>2
<1>6. (dog.pc \in Attempting => ~GivenUp(dog.lead))'
  BY <1>2 DEF Attempting
<1> QED BY <1>1, <1>2, <1>3, <1>4, <1>5, <1>6 DEF AccountDone, BackoffOK

(* The note takes the place of the program counter. *)
LEMMA DogNotifiedDone ==
  ASSUME LifecycleAssumption, TypeOK, LocalsOK, Remember, SweepIsEarned, BackoffOK, DogNotified
  PROVE  SweepDone /\ AccountDone
<1>1. /\ dog \in Sweeps(DogPC) /\ dog.lead \in Leads /\ dog.pc = "notified" /\ Slips' = Slips
      /\ gaveUps' = gaveUps /\ backoff \in [Leads -> Backoff] /\ gaveUps \in [Leads -> Nat]
      /\ backoff' = [backoff EXCEPT ![dog.lead] = [backoff[dog.lead] EXCEPT !.notified = TRUE]]
  BY DEF TypeOK, LocalsOK, DogNotified, notDog, Slips
<1>2. SweepDone /\ dog'.pc = "pick"
  BY <1>1, DogNextDone DEF DogNotified
<1>3. /\ [backoff[dog.lead] EXCEPT !.notified = TRUE] \in Backoff
      /\ [backoff[dog.lead] EXCEPT !.notified = TRUE].notified = TRUE
  <2>1. ASSUME NEW b \in Backoff
        PROVE  /\ [b EXCEPT !.notified = TRUE] \in Backoff
               /\ [b EXCEPT !.notified = TRUE].notified = TRUE
    BY DEF Backoff
  <2> QED BY <1>1, <2>1
<1>4. /\ backoff' \in [Leads -> Backoff]
      /\ backoff'[dog.lead].notified
      /\ \A k \in Leads \ {dog.lead} : backoff'[k] = backoff[k]
  BY <1>1, <1>3
<1>5. ASSUME NEW k \in Leads
      PROVE  Told(k)' = Told(k)
  <2>1. CASE k = dog.lead
    <3>1. Told(k) /\ Told(k)'
      BY <1>1, <1>4, <2>1 DEF Told
    <3> QED BY <3>1 DEF Told
  <2>2. CASE k # dog.lead
    BY <1>1, <1>2, <1>4, <2>2 DEF Told
  <2> QED BY <2>1, <2>2
<1>6. (\A k \in Leads : IF Told(k) THEN gaveUps[k] \in 1 .. 1 + Slips
                       ELSE gaveUps[k] \in 0 .. Slips)'
  BY <1>1, <1>5 DEF BackoffOK
<1>7. (dog.pc \in {"giveup", "notified"} => ~backoff[dog.lead].notified)'
  BY <1>2
<1>8. (dog.pc \in Attempting => ~GivenUp(dog.lead))'
  BY <1>2 DEF Attempting
<1> QED BY <1>1, <1>2, <1>4, <1>6, <1>7, <1>8 DEF AccountDone, BackoffOK

(* A failure is counted only of a lead that was not given up. *)
LEMMA DogFailDone ==
  ASSUME LifecycleAssumption, TypeOK, LocalsOK, Remember, SweepIsEarned, BackoffOK, DogFail
  PROVE  SweepDone /\ AccountDone
<1> DEFINE n == backoff[dog.lead].failures + 1
<1>1. /\ dog \in Sweeps(DogPC) /\ dog.lead \in Leads /\ dog.pc = "fail" /\ Slips' = Slips
      /\ gaveUps' = gaveUps /\ backoff \in [Leads -> Backoff] /\ gaveUps \in [Leads -> Nat]
      /\ backoff' = [backoff EXCEPT ![dog.lead] =
                       [backoff[dog.lead] EXCEPT !.failures = n, !.cooled = FALSE]]
      /\ ~GivenUp(dog.lead)
  BY DEF TypeOK, LocalsOK, DogFail, notDog, BackoffOK, Attempting, Slips
<1>2. MaxAttempts \in Nat \ {0}
  BY DEF LifecycleAssumption
<1>3. n \in 0 .. MaxAttempts
  <2>1. backoff[dog.lead].failures \in 0 .. MaxAttempts
    BY <1>1 DEF Backoff
  <2>2. ~(backoff[dog.lead].failures >= MaxAttempts)
    BY <1>1 DEF GivenUp
  <2>3. MaxAttempts \in Nat
    BY <1>2
  <2> QED BY <2>1, <2>2, <2>3, Successor
<1>4. /\ [backoff[dog.lead] EXCEPT !.failures = n, !.cooled = FALSE] \in Backoff
      /\ [backoff[dog.lead] EXCEPT !.failures = n, !.cooled = FALSE].notified
           = backoff[dog.lead].notified
  <2>1. ASSUME NEW b \in Backoff, NEW m \in 0 .. MaxAttempts
        PROVE  /\ [b EXCEPT !.failures = m, !.cooled = FALSE] \in Backoff
               /\ [b EXCEPT !.failures = m, !.cooled = FALSE].notified = b.notified
    BY DEF Backoff
  <2> HIDE DEF n
  <2> QED BY <1>1, <1>3, <2>1
<1> HIDE DEF n
<1>5. /\ backoff' \in [Leads -> Backoff]
      /\ \A k \in Leads : backoff'[k].notified = backoff[k].notified
  BY <1>1, <1>4
<1>6. CASE dog' = NextRow(dog)
  <2>1. SweepDone /\ dog'.pc = "pick"
    BY <1>1, <1>6, DogNextDone
  <2>2. \A k \in Leads : Told(k)' = Told(k)
    BY <1>1, <1>5, <2>1 DEF Told
  <2>3. BackoffOK'
    BY <1>1, <2>1, <2>2 DEF BackoffOK, Attempting
  <2> QED BY <1>1, <1>5, <2>1, <2>3 DEF AccountDone
<1>7. CASE DogGoto("giveup") /\ ~backoff[dog.lead].notified
  <2>1. SweepDone /\ dog'.pc = "giveup" /\ dog'.lead = dog.lead
    BY <1>1, <1>7, DogGotoDone DEF DogPC
  <2>2. \A k \in Leads : Told(k)' = Told(k)
    BY <1>1, <1>5, <2>1 DEF Told
  <2>3. (dog.pc \in {"giveup", "notified"} => ~backoff[dog.lead].notified)'
    BY <1>1, <1>5, <1>7, <2>1
  <2>4. BackoffOK'
    BY <1>1, <2>1, <2>2, <2>3 DEF BackoffOK, Attempting
  <2> QED BY <1>1, <1>5, <2>1, <2>4 DEF AccountDone
<1>8. dog' = NextRow(dog) \/ (DogGoto("giveup") /\ ~backoff[dog.lead].notified)
  BY DEF DogFail, DogGoto
<1> QED BY <1>6, <1>7, <1>8

LEMMA DogStepDone ==
  ASSUME LifecycleAssumption, TypeOK, LocalsOK, Remember, SweepIsEarned, BackoffOK, DogStep
  PROVE  SweepDone /\ AccountDone /\ UNCHANGED notDog
<1>1. SweepDone /\ AccountDone
  BY DogQuietDone, DogBackoffDone, DogGiveUpDone, DogNotifiedDone, DogSucceedDone,
     DogFailDone DEF DogStep
<1>2. UNCHANGED notDog
  BY DEF DogStep, DogSweep, DogLook, DogHeal, DogBackoff, DogGiveUp, DogNotified, DogRecheck,
         DogClear, DogReclear, DogResume, DogFresh, DogUuid, DogGrace, DogRevived,
         DogSucceed, DogFail
<1> QED BY <1>1, <1>2

(* A row that is left behind loses the program counter that stands for a   *)
(* note: the account goes on with one more slip.                           *)
LEMMA SlipKeepsAccount ==
  ASSUME TypeOK, BackoffOK, UNCHANGED <<backoff, gaveUps>>, Slips' = Slips + 1,
         dog'.pc \notin {"giveup", "notified"},
         dog'.pc \in Attempting => ~GivenUp(dog'.lead)
  PROVE  AccountDone
<1>1. Slips \in Nat
  BY SlipsTyped
<1>2. (\A k \in Leads : IF Told(k) THEN gaveUps[k] \in 1 .. 1 + Slips
                       ELSE gaveUps[k] \in 0 .. Slips)'
  <2> SUFFICES ASSUME NEW k \in Leads
               PROVE  (IF Told(k) THEN gaveUps[k] \in 1 .. 1 + Slips
                       ELSE gaveUps[k] \in 0 .. Slips)'
    OBVIOUS
  <2>1. Told(k)' => Told(k)
    BY DEF Told
  <2>2. CASE Told(k)
    <3>1. gaveUps[k] \in 1 .. 1 + Slips
      BY <2>2 DEF BackoffOK
    <3>2. gaveUps[k] \in 1 .. 1 + (Slips + 1) /\ gaveUps[k] \in 0 .. Slips + 1
      BY <1>1, <3>1, Counting
    <3> QED BY <3>2
  <2>3. CASE ~Told(k)
    <3>1. gaveUps[k] \in 0 .. Slips
      BY <2>3 DEF BackoffOK
    <3>2. gaveUps[k] \in 0 .. Slips + 1
      BY <1>1, <3>1, Counting
    <3> QED BY <2>1, <2>3, <3>2
  <2> QED BY <2>2, <2>3
<1>3. (dog.pc \in Attempting => ~GivenUp(dog.lead))'
  BY DEF GivenUp, Attempting
<1> QED BY <1>2, <1>3 DEF AccountDone, BackoffOK, TypeOK

(* A death uses up one of the deaths. *)
LEMMA DogDiesDone ==
  ASSUME LifecycleAssumption, TypeOK, BackoffOK, DogDies
  PROVE  SweepDone /\ AccountDone /\ deaths' \in 0 .. MaxDeaths
<1>1. deaths' = deaths + 1 /\ deaths < MaxDeaths /\ errors' = errors
  BY DEF DogDies
<1>2. deaths \in Nat /\ errors \in Nat /\ MaxDeaths \in Nat
  BY SlipsTyped DEF LifecycleAssumption
<1>3. deaths' \in 0 .. MaxDeaths
  BY <1>1, <1>2, Counting
<1>4. SweepDone /\ dog'.pc = "idle"
  BY DogAsleepDone DEF DogDies
<1>5. Slips' = Slips + 1
  <2>1. Slips' = (deaths + 1) + errors
    BY <1>1 DEF Slips
  <2> QED BY <1>2, <2>1, OneMore DEF Slips
<1>6. UNCHANGED <<backoff, gaveUps>>
  BY DEF DogDies, leadVars
<1>7. AccountDone
  BY <1>4, <1>5, <1>6, SlipKeepsAccount DEF Attempting
<1> QED BY <1>3, <1>4, <1>7

(* An exception uses up one of the errors. *)
LEMMA DogErrorDone ==
  ASSUME LifecycleAssumption, TypeOK, LocalsOK, Remember, SweepIsEarned, BackoffOK, DogError
  PROVE  SweepDone /\ AccountDone /\ errors' \in 0 .. MaxErrors
<1>1. errors' = errors + 1 /\ errors < MaxErrors /\ deaths' = deaths
  BY DEF DogError
<1>2. deaths \in Nat /\ errors \in Nat /\ MaxErrors \in Nat
  BY SlipsTyped DEF LifecycleAssumption
<1>3. errors' \in 0 .. MaxErrors
  BY <1>1, <1>2, Counting
<1>4. Slips' = Slips + 1
  <2>1. Slips' = deaths + (errors + 1)
    BY <1>1 DEF Slips
  <2> QED BY <1>2, <2>1, OneMore DEF Slips
<1>5. UNCHANGED <<backoff, gaveUps>>
  BY DEF DogError, leadVars
<1>6. CASE dog' = NextRow(dog) /\ dog.pc \notin {"idle", "pick"}
  <2>1. dog \in Sweeps(DogPC) /\ dog.lead \in Leads
    BY <1>6 DEF TypeOK, LocalsOK
  <2>2. SweepDone /\ dog'.pc = "pick"
    BY <1>6, <2>1, DogNextDone
  <2>3. AccountDone
    BY <1>4, <1>5, <2>2, SlipKeepsAccount DEF Attempting
  <2> QED BY <1>3, <2>2, <2>3
<1>7. CASE dog.pc = "uuid" /\ DogGoto("fail")
  <2>1. SweepDone /\ dog'.pc = "fail" /\ dog'.lead = dog.lead
    BY <1>7, DogGotoDone DEF DogPC
  <2>2. ~GivenUp(dog.lead)
    BY <1>7 DEF BackoffOK, Attempting
  <2>3. AccountDone
    BY <1>4, <1>5, <2>1, <2>2, SlipKeepsAccount
  <2> QED BY <1>3, <2>1, <2>3
<1> QED BY <1>6, <1>7 DEF DogError

-----------------------------------------------------------------------------
(* The reaper *)

ReapPC == {"idle", "pick", "kill", "mark"}

ReapDone ==
  /\ reap' \in Sweeps(ReapPC)
  /\ reap'.pc \in {"kill", "mark"} => reap'.lead \in Leads

LEMMA ReapNextDone ==
  ASSUME NEW s \in Sweeps(ReapPC), s.lead \in Leads, reap' = NextRow(s)
  PROVE  ReapDone
<1>1. reap' \in Sweeps(ReapPC) /\ reap'.pc = "pick"
  BY NextRowTyped DEF ReapPC
<1> QED BY <1>1 DEF ReapDone

LEMMA ReapAsleepDone ==
  ASSUME reap' = Asleep
  PROVE  ReapDone
<1>1. reap' \in Sweeps(ReapPC) /\ reap'.pc = "idle"
  BY AsleepTyped DEF ReapPC
<1> QED BY <1>1 DEF ReapDone

(* The reaper's pick deletes a row, or takes up a lead. *)
LEMMA ReapPickDone ==
  ASSUME TypeOK, ReapPick
  PROVE  ReapDone /\ row' \in [Leads -> Rows]
<1>1. reap \in Sweeps(ReapPC) /\ row \in [Leads -> Rows]
  BY DEF TypeOK, ReapPC
<1>2. CASE reap.rows = NoRows
  BY <1>1, <1>2, ReapAsleepDone DEF ReapPick
<1>3. CASE reap.rows # NoRows
  <2>1. PICK l \in Leads :
          /\ \/ row' = row
             \/ row' = [row EXCEPT ![l] = NoRow]
          /\ \/ reap' = NextRow([reap EXCEPT !.lead = l])
             \/ reap' = [[reap EXCEPT !.lead = l] EXCEPT !.pc = "mark"]
             \/ reap' = [[reap EXCEPT !.lead = l] EXCEPT !.pc = "kill"]
    <3>1. PICK l \in Leads : \E reading \in ReapReads(l) :
            LET this == [reap EXCEPT !.lead = l]
                r    == reap.rows[l]
            IN  \/ /\ r.status # "active"
                   /\ row' = IF r.idle = "week" THEN [row EXCEPT ![l] = NoRow] ELSE row
                   /\ reap' = NextRow(this)
                \/ /\ r.status = "active"
                   /\ reap' = IF r.idle # "fresh" /\ reading = "dead"
                              THEN [this EXCEPT !.pc = "mark"]
                              ELSE IF reading = "alive" /\ l \in Big
                                   THEN [this EXCEPT !.pc = "kill"]
                                   ELSE NextRow(this)
                   /\ UNCHANGED row
      BY <1>3 DEF ReapPick
    <3> QED BY <3>1
  <2>2. [reap EXCEPT !.lead = l] \in Sweeps(ReapPC) /\ [reap EXCEPT !.lead = l].lead = l
    BY <1>1 DEF Sweeps
  <2>3. row' \in [Leads -> Rows]
    BY <1>1, <2>1 DEF Rows
  <2>4. CASE reap' = NextRow([reap EXCEPT !.lead = l])
    BY <2>2, <2>3, <2>4, ReapNextDone
  <2>5. ASSUME NEW label \in {"kill", "mark"},
               reap' = [[reap EXCEPT !.lead = l] EXCEPT !.pc = label]
        PROVE  ReapDone
    <3>1. reap' \in Sweeps(ReapPC) /\ reap'.lead = l
      BY <2>2, <2>5 DEF Sweeps, ReapPC
    <3> QED BY <3>1 DEF ReapDone
  <2> QED BY <2>1, <2>3, <2>4, <2>5
<1> QED BY <1>2, <1>3

LEMMA ReapStepDone ==
  ASSUME TypeOK, LocalsOK, ReapStep
  PROVE  /\ ReapDone /\ row' \in [Leads -> Rows]
         /\ session' \in [Leads -> BOOLEAN] /\ unit' \in [Leads -> BOOLEAN]
         /\ UNCHANGED <<backoff, reachable, tool, dog, deaths, errors, gaveUps>>
<1>1. /\ reap \in Sweeps(ReapPC) /\ row \in [Leads -> Rows]
      /\ session \in [Leads -> BOOLEAN] /\ unit \in [Leads -> BOOLEAN]
      /\ reap.pc \in {"kill", "mark"} => reap.lead \in Leads
  BY DEF TypeOK, ReapPC, LocalsOK
<1>2. CASE ReapSweep
  <2> DEFINE seen == [l \in Leads |-> [row[l] EXCEPT !.uuid = FALSE]]
  <2>1. ASSUME NEW r \in Rows
        PROVE  [r EXCEPT !.uuid = FALSE] \in Rows
    <3>1. CASE r \in Row
      BY <3>1 DEF Rows, Row
    <3>2. CASE r = NoRow
      <4>1. r \in [status : {"none"}, uuid : BOOLEAN, idle : {"fresh"}]
        BY <3>2 DEF NoRow
      <4>2. [r EXCEPT !.uuid = FALSE] \in [status : {"none"}, uuid : {FALSE}, idle : {"fresh"}]
        BY <4>1
      <4>3. [r EXCEPT !.uuid = FALSE] = NoRow
        BY <4>2, NoRowOnly
      <4> QED BY <4>3 DEF Rows
    <3> QED BY <3>1, <3>2 DEF Rows
  <2>2. seen \in [Leads -> Rows]
    BY <1>1, <2>1
  <2>3. reap' = [reap EXCEPT !.pc = "pick", !.rows = seen]
    BY <1>2 DEF ReapSweep
  <2> HIDE DEF seen
  <2>4. reap' \in Sweeps(ReapPC) /\ reap'.pc = "pick"
    BY <1>1, <2>2, <2>3 DEF Sweeps, ReapPC
  <2> QED BY <1>1, <1>2, <2>4 DEF ReapSweep, notReap, ReapDone
<1>3. CASE ReapPick
  BY <1>1, <1>3, ReapPickDone DEF ReapPick, notReap
<1>4. CASE ReapKill
  <2>1. reap' \in Sweeps(ReapPC) /\ reap'.lead = reap.lead /\ reap.lead \in Leads
    BY <1>1, <1>4 DEF ReapKill, ReapGoto, Sweeps, ReapPC
  <2>2. session' \in [Leads -> BOOLEAN] /\ unit' \in [Leads -> BOOLEAN]
    BY <1>1, <1>4, <2>1, SpawnerTyped DEF ReapKill
  <2> QED BY <1>1, <1>4, <2>1, <2>2 DEF ReapKill, notReap, ReapDone
<1>5. CASE ReapMark
  <2>1. ReapDone
    BY <1>1, <1>5, ReapNextDone DEF ReapMark
  <2>2. row' \in [Leads -> Rows]
    BY <1>1, <1>5, StatusTyped DEF ReapMark, Status
  <2> QED BY <1>1, <1>5, <2>1, <2>2 DEF ReapMark, notReap
<1>6. CASE ReapDies
  BY <1>1, <1>6, ReapAsleepDone DEF ReapDies, notReap
<1> QED BY <1>2, <1>3, <1>4, <1>5, <1>6 DEF ReapStep

-----------------------------------------------------------------------------
(* The world *)

LEMMA WorldDone ==
  ASSUME LifecycleAssumption, TypeOK, LocalsOK, BackoffOK, World
  PROVE  /\ row' \in [Leads -> Rows] /\ reachable' \in BOOLEAN
         /\ session' \in [Leads -> BOOLEAN] /\ unit' \in [Leads -> BOOLEAN]
         /\ AccountDone
         /\ UNCHANGED <<tool, dog, reap, deaths, errors>>
<1>1. /\ row \in [Leads -> Rows] /\ session \in [Leads -> BOOLEAN] /\ reachable \in BOOLEAN
      /\ unit \in [Leads -> BOOLEAN] /\ backoff \in [Leads -> Backoff]
      /\ gaveUps \in [Leads -> Nat]
  BY DEF TypeOK
<1>2. ASSUME UNCHANGED <<backoff, dog, deaths, errors, gaveUps>>
      PROVE  AccountDone
  BY <1>1, <1>2 DEF AccountDone, BackoffOK, Told, GivenUp, Slips
<1>3. CASE Network
  BY <1>1, <1>2, <1>3 DEF Network, leadVars
<1>4. ASSUME NEW l \in Leads, Exit(l)
      PROVE  session' \in [Leads -> BOOLEAN] /\ UNCHANGED <<row, unit, tool, notTool>>
  BY <1>1, <1>4 DEF Exit
<1>5. ASSUME NEW l \in Leads, Age(l) \/ Touch(l)
      PROVE  row' \in [Leads -> Rows] /\ UNCHANGED <<session, unit, tool, notTool>>
  <2>1. UNCHANGED <<session, unit, tool, notTool>> /\ Exists(l)
    BY <1>5 DEF Age, Touch
  <2>2. PICK i \in {"fresh", "day", "week"} : row' = [row EXCEPT ![l] = [row[l] EXCEPT !.idle = i]]
    BY <1>5 DEF Age, Touch
  <2>3. [row[l] EXCEPT !.idle = i] \in Rows
    BY <1>1, <2>1, RowUpdate DEF Exists, Rows, Status
  <2> QED BY <1>1, <2>1, <2>2, <2>3
<1>6. ASSUME NEW l \in Leads, CoolDown(l)
      PROVE  AccountDone /\ UNCHANGED <<row, session, unit, reachable, tool, dog, reap, deaths, errors>>
  <2>1. /\ backoff' = [backoff EXCEPT ![l] = [backoff[l] EXCEPT !.cooled = TRUE]]
        /\ UNCHANGED <<row, session, unit, reachable, tool, dog, reap, deaths, errors, gaveUps>>
    BY <1>6 DEF CoolDown
  <2>2. ASSUME NEW b \in Backoff
        PROVE  /\ [b EXCEPT !.cooled = TRUE] \in Backoff
               /\ [b EXCEPT !.cooled = TRUE].failures = b.failures
               /\ [b EXCEPT !.cooled = TRUE].notified = b.notified
    BY DEF Backoff
  <2>3. /\ backoff' \in [Leads -> Backoff]
        /\ \A k \in Leads : /\ backoff'[k].failures = backoff[k].failures
                            /\ backoff'[k].notified = backoff[k].notified
    BY <1>1, <2>1, <2>2
  <2>4. \A k \in Leads : Told(k)' = Told(k)
    BY <2>1, <2>3 DEF Told
  <2>5. BackoffOK'
    <3>1. dog.pc \in Attempting \cup {"giveup", "notified"} => dog.lead \in Leads
      BY DEF LocalsOK, Attempting
    <3> QED BY <2>1, <2>3, <2>4, <3>1 DEF BackoffOK, GivenUp, Slips
  <2> QED BY <1>1, <2>1, <2>3, <2>5 DEF AccountDone
<1>7. CASE \E l \in Leads : Exit(l)
  BY <1>1, <1>2, <1>4, <1>7 DEF notTool
<1>8. CASE \E l \in Leads : Age(l) \/ Touch(l)
  BY <1>1, <1>2, <1>5, <1>8 DEF notTool
<1>9. CASE \E l \in Leads : CoolDown(l)
  BY <1>1, <1>6, <1>9
<1> QED BY <1>3, <1>7, <1>8, <1>9 DEF World

-----------------------------------------------------------------------------
(* The inductive invariant *)

LEMMA InitInv ==
  ASSUME LifecycleAssumption, Init
  PROVE  LifecycleInv
<1>1. TypeOK
  <2>1. row \in [Leads -> Rows]
    BY DEF Init, NoRows, Rows
  <2>2. /\ backoff \in [Leads -> Backoff] /\ gaveUps \in [Leads -> Nat]
    <3>1. 0 \in 0 .. MaxAttempts
      BY Zero DEF LifecycleAssumption
    <3>2. NoBackoff \in Backoff
      BY <3>1 DEF NoBackoff, Backoff
    <3> QED BY <3>2 DEF Init
  <2>3. tool \in [Tools -> Calls]
    BY NoCallTyped DEF Init
  <2>4. dog \in Sweeps(DogPC) /\ reap \in Sweeps({"idle", "pick", "kill", "mark"})
    BY AsleepTyped DEF Init, DogPC
  <2>5. /\ session \in [Leads -> BOOLEAN] /\ unit \in [Leads -> BOOLEAN] /\ reachable \in BOOLEAN
        /\ down \in [Procs -> SUBSET Leads]
    BY DEF Init
  <2>6. deaths \in 0 .. MaxDeaths /\ errors \in 0 .. MaxErrors
    <3>1. MaxDeaths \in Nat /\ MaxErrors \in Nat
      BY DEF LifecycleAssumption
    <3>2. 0 \in 0 .. MaxDeaths /\ 0 \in 0 .. MaxErrors
      BY <3>1, Zero
    <3> QED BY <3>2 DEF Init
  <2> QED BY <2>1, <2>2, <2>3, <2>4, <2>5, <2>6 DEF TypeOK
<1>2. dog.pc = "idle" /\ reap.pc = "idle"
  BY DEF Init, Asleep
<1>3. \A c \in Tools : tool[c].pc = "idle"
  BY DEF Init, NoCall
<1>4. LocalsOK /\ VerdictsAreEarned
  BY <1>2, <1>3 DEF LocalsOK, CallOK, VerdictsAreEarned, CallIsEarned
<1>5. BackoffOK
  <2>1. \A l \in Leads : ~Told(l)
    BY <1>2 DEF Told, Init, NoBackoff
  <2>2. \A l \in Leads : gaveUps[l] \in 0 .. Slips
    <3>1. Slips = 0
      <4>1. deaths = 0 /\ errors = 0
        BY DEF Init
      <4>2. 0 + 0 = 0
        BY Zero
      <4> QED BY <4>1, <4>2 DEF Slips
    <3>2. 0 \in 0 .. 0
      BY Zero
    <3>3. 0 \in 0 .. Slips
      BY <3>1, <3>2
    <3> QED BY <3>3 DEF Init
  <2> QED BY <1>2, <2>1, <2>2 DEF BackoffOK, Attempting
<1> QED BY <1>1, <1>4, <1>5 DEF LifecycleInv

(* The parts of the state a step must leave in order. *)
LEMMA Assemble ==
  ASSUME row' \in [Leads -> Rows], session' \in [Leads -> BOOLEAN], unit' \in [Leads -> BOOLEAN],
         reachable' \in BOOLEAN, deaths' \in 0 .. MaxDeaths, errors' \in 0 .. MaxErrors,
         tool' \in [Tools -> Calls], \A c \in Tools : CallOK(c)' /\ CallIsEarned(c)',
         SweepDone, ReapDone, AccountDone, TypeOK, Remember
  PROVE  LifecycleInv'
<1>1. down' \in [Procs -> SUBSET Leads]
  BY DownTyped DEF TypeOK
<1>2. TypeOK'
  BY <1>1 DEF TypeOK, SweepDone, ReapDone, ReapPC, AccountDone
<1>3. LocalsOK'
  BY DEF LocalsOK, SweepDone, ReapDone
<1>4. VerdictsAreEarned'
  BY DEF VerdictsAreEarned, SweepDone, SweepIsEarned
<1> QED BY <1>2, <1>3, <1>4 DEF LifecycleInv, AccountDone

(* What a step that leaves them alone keeps of the calls, the sweeps and   *)
(* the account.                                                            *)
LEMMA Kept ==
  ASSUME LifecycleAssumption, LifecycleInv, Remember
  PROVE  /\ tool' = tool => /\ tool' \in [Tools -> Calls]
                           /\ \A c \in Tools : CallOK(c)' /\ CallIsEarned(c)'
         /\ dog' = dog => SweepDone
         /\ reap' = reap => ReapDone
         /\ UNCHANGED <<dog, backoff, gaveUps, deaths, errors>> => AccountDone
<1> USE DEF LifecycleInv
<1>1. ASSUME tool' = tool
      PROVE  /\ tool' \in [Tools -> Calls]
             /\ \A c \in Tools : CallOK(c)' /\ CallIsEarned(c)'
  BY <1>1, CallFrame DEF TypeOK, LocalsOK, VerdictsAreEarned
<1>2. ASSUME dog' = dog
      PROVE  SweepDone
  <2>1. SweepIsEarned
    BY DEF VerdictsAreEarned, SweepIsEarned
  <2>2. SweepIsEarned'
    BY <1>2, <2>1, SweepFrame
  <2> QED BY <1>2, <2>2 DEF SweepDone, TypeOK, LocalsOK
<1>3. ASSUME reap' = reap
      PROVE  ReapDone
  BY <1>3 DEF ReapDone, ReapPC, TypeOK, LocalsOK
<1>4. ASSUME UNCHANGED <<dog, backoff, gaveUps, deaths, errors>>
      PROVE  AccountDone
  BY <1>4 DEF AccountDone, BackoffOK, Told, GivenUp, TypeOK, Slips
<1> QED BY <1>1, <1>2, <1>3, <1>4

LEMMA NextInv ==
  ASSUME LifecycleAssumption, LifecycleInv, [Next]_vars
  PROVE  LifecycleInv'
<1>1. /\ TypeOK /\ LocalsOK /\ BackoffOK /\ SweepIsEarned
      /\ \A c \in Tools : CallIsEarned(c)
  BY DEF LifecycleInv, VerdictsAreEarned, SweepIsEarned
<1>2. /\ row \in [Leads -> Rows] /\ session \in [Leads -> BOOLEAN] /\ unit \in [Leads -> BOOLEAN]
      /\ reachable \in BOOLEAN /\ tool \in [Tools -> Calls]
      /\ deaths \in 0 .. MaxDeaths /\ errors \in 0 .. MaxErrors
  BY <1>1 DEF TypeOK
<1>3. ASSUME NEW c \in Tools, ToolStep(c), Remember
      PROVE  LifecycleInv'
  <2>1. CallDone(c) /\ UNCHANGED notTool
    BY <1>1, <1>3, ToolStepDone
  <2>2. /\ row' \in [Leads -> Rows]
        /\ session' \in [Leads -> BOOLEAN] /\ unit' \in [Leads -> BOOLEAN]
    BY <1>1, <1>3, CallTyped
  <2>3. tool' = [tool EXCEPT ![c] = tool'[c]] /\ tool'[c] \in Calls
    BY <2>1 DEF CallDone
  <2>4. tool' \in [Tools -> Calls]
    BY <1>2, <2>3
  <2>5. ASSUME NEW b \in Tools
        PROVE  CallOK(b)' /\ CallIsEarned(b)'
    <3>1. CASE b = c
      BY <2>1, <3>1 DEF CallDone
    <3>2. CASE b # c
      <4>1. tool'[b] = tool[b]
        BY <1>2, <2>3, <3>2
      <4> QED BY <1>1, <1>3, <4>1, CallFrame DEF LocalsOK
    <3> QED BY <3>1, <3>2
  <2>6. SweepDone /\ ReapDone /\ AccountDone
    BY <1>3, <2>1, Kept DEF notTool
  <2> QED BY <1>1, <1>2, <1>3, <2>1, <2>2, <2>4, <2>5, <2>6, Assemble DEF notTool
<1>4. CASE DogStep /\ Remember
  <2>1. SweepDone /\ AccountDone /\ UNCHANGED notDog
    BY <1>1, <1>4, DogStepDone
  <2>2. /\ row' \in [Leads -> Rows]
        /\ session' \in [Leads -> BOOLEAN] /\ unit' \in [Leads -> BOOLEAN]
    BY <1>1, <1>4, DogTyped
  <2>3. /\ ReapDone /\ tool' \in [Tools -> Calls]
        /\ \A c \in Tools : CallOK(c)' /\ CallIsEarned(c)'
    BY <1>4, <2>1, Kept DEF notDog
  <2> QED BY <1>1, <1>2, <1>4, <2>1, <2>2, <2>3, Assemble DEF notDog
<1>5. CASE DogDies /\ Remember
  <2>1. SweepDone /\ AccountDone /\ deaths' \in 0 .. MaxDeaths
    BY <1>1, <1>5, DogDiesDone
  <2>2. UNCHANGED <<row, session, unit, reachable, tool, reap, errors>>
    BY <1>5 DEF DogDies, leadVars
  <2>3. /\ ReapDone /\ tool' \in [Tools -> Calls]
        /\ \A c \in Tools : CallOK(c)' /\ CallIsEarned(c)'
    BY <1>5, <2>2, Kept
  <2> QED BY <1>1, <1>2, <1>5, <2>1, <2>2, <2>3, Assemble
<1>e. CASE DogError /\ Remember
  <2>1. SweepDone /\ AccountDone /\ errors' \in 0 .. MaxErrors
    BY <1>1, <1>e, DogErrorDone
  <2>2. UNCHANGED <<row, session, unit, reachable, tool, reap, deaths>>
    BY <1>e DEF DogError, leadVars
  <2>3. /\ ReapDone /\ tool' \in [Tools -> Calls]
        /\ \A c \in Tools : CallOK(c)' /\ CallIsEarned(c)'
    BY <1>e, <2>2, Kept
  <2> QED BY <1>1, <1>2, <1>e, <2>1, <2>2, <2>3, Assemble
<1>6. CASE ReapStep /\ Remember
  <2>1. /\ ReapDone /\ row' \in [Leads -> Rows]
        /\ session' \in [Leads -> BOOLEAN] /\ unit' \in [Leads -> BOOLEAN]
        /\ UNCHANGED <<backoff, reachable, tool, dog, deaths, errors, gaveUps>>
    BY <1>1, <1>6, ReapStepDone
  <2>2. /\ SweepDone /\ AccountDone /\ tool' \in [Tools -> Calls]
        /\ \A c \in Tools : CallOK(c)' /\ CallIsEarned(c)'
    BY <1>6, <2>1, Kept
  <2> QED BY <1>1, <1>2, <1>6, <2>1, <2>2, Assemble
<1>7. CASE World /\ Remember
  <2>1. /\ row' \in [Leads -> Rows] /\ reachable' \in BOOLEAN
        /\ session' \in [Leads -> BOOLEAN] /\ unit' \in [Leads -> BOOLEAN]
        /\ AccountDone
        /\ UNCHANGED <<tool, dog, reap, deaths, errors>>
    BY <1>1, <1>7, WorldDone
  <2>2. /\ SweepDone /\ ReapDone /\ tool' \in [Tools -> Calls]
        /\ \A c \in Tools : CallOK(c)' /\ CallIsEarned(c)'
    BY <1>7, <2>1, Kept
  <2> QED BY <1>1, <1>2, <1>7, <2>1, <2>2, Assemble
<1>8. CASE UNCHANGED vars
  <2>1. /\ UNCHANGED <<row, session, unit, backoff, reachable, tool, dog, reap, deaths, errors,
                       down, gaveUps>>
    BY <1>8 DEF vars, leadVars, historyVars
  <2> QED BY <2>1 DEF LifecycleInv, TypeOK, LocalsOK, CallOK, VerdictsAreEarned, CallIsEarned,
                      BackoffOK, Told, GivenUp, Slips
<1> QED BY <1>3, <1>4, <1>5, <1>e, <1>6, <1>7, <1>8 DEF Next

(* In every behaviour the registry, the calls and the sweeps keep their    *)
(* types, verdicts are earned and the give-up account is kept.             *)
THEOREM LifecycleInvariant == Spec => []LifecycleInv
<1>1. Init => LifecycleInv
  BY InitInv, LifecycleAssumption
<1>2. LifecycleInv /\ [Next]_vars => LifecycleInv'
  BY NextInv, LifecycleAssumption
<1> QED BY <1>1, <1>2, PTL DEF Spec

(* The registry's rows, the calls and the sweeps stay what they are        *)
(* declared to be (TypeOK): no count passes its threshold and no statement *)
(* makes a row of a shape the tools do not expect.                         *)
THEOREM LifecycleTypes == Spec => []TypeOK
<1>1. LifecycleInv => TypeOK
  BY DEF LifecycleInv
<1> QED BY <1>1, LifecycleInvariant, PTL

(* A lead is demoted, cleared for a revival, resumed or recorded as killed *)
(* only on evidence of the same call or sweep (VerdictsAreEarned), however *)
(* many processes act on it between their steps.                           *)
THEOREM VerdictsEarned == Spec => []VerdictsAreEarned
<1>1. LifecycleInv => VerdictsAreEarned
  BY DEF LifecycleInv
<1> QED BY <1>1, LifecycleInvariant, PTL

(* A give-up DM is tried once per episode, death of the watchdog and row   *)
(* left to an exception, and a lead noted as told had one tried            *)
(* (GiveUpSentOnce).                                                       *)
THEOREM GiveUpOnce == Spec => []GiveUpSentOnce
<1>1. LifecycleInv => GiveUpSentOnce
  <2> SUFFICES ASSUME LifecycleInv, NEW l \in Leads
               PROVE  gaveUps[l] <= 1 + Slips /\ (backoff[l].notified => gaveUps[l] >= 1)
    BY DEF GiveUpSentOnce
  <2>1. BackoffOK /\ Slips \in Nat
    BY SlipsTyped DEF LifecycleInv
  <2>2. ASSUME NEW d \in Nat, NEW g
        PROVE  /\ g \in 1 .. 1 + d => g <= 1 + d /\ g >= 1
               /\ g \in 0 .. d => g <= 1 + d
    OBVIOUS
  <2>3. CASE Told(l)
    BY <2>1, <2>2, <2>3 DEF BackoffOK
  <2>4. CASE ~Told(l)
    <3>1. ~backoff[l].notified
      BY <2>4 DEF Told
    <3> QED BY <2>1, <2>2, <2>4, <3>1 DEF BackoffOK
  <2> QED BY <2>3, <2>4
<1> QED BY <1>1, LifecycleInvariant, PTL
-----------------------------------------------------------------------------
(* What a sweep touches.  The rows it still has, and the one it is on, were *)
(* active or dead when it read them.                                        *)
Revivable == {"active", "dead"}

SweepRowsOK ==
  /\ \A l \in Leads : dog.rows[l] # NoRow => dog.rows[l].status \in Revivable
  /\ dog.pc \notin {"idle", "pick"} => dog.rows[dog.lead].status \in Revivable

LEMMA RowsWhenAsleep ==
  ASSUME dog' = Asleep
  PROVE  SweepRowsOK'
  BY DEF SweepRowsOK, Asleep, NoRows

(* The sweep goes on with the same rows. *)
LEMMA RowsKept ==
  ASSUME SweepRowsOK, dog.pc \notin {"idle", "pick"},
         dog'.rows = dog.rows, dog'.lead = dog.lead
  PROVE  SweepRowsOK'
  BY DEF SweepRowsOK

LEMMA RowsAfterNext ==
  ASSUME SweepRowsOK, dog \in Sweeps(DogPC), NEW l \in Leads,
         dog' = NextRow([dog EXCEPT !.lead = l])
  PROVE  SweepRowsOK'
<1>1. /\ dog'.pc = "pick"
      /\ dog'.rows = [dog.rows EXCEPT ![l] = NoRow]
      /\ dog.rows \in [Leads -> Rows]
  BY DEF NextRow, Sweeps
<1>2. \A m \in Leads : dog'.rows[m] = NoRow \/ dog'.rows[m] = dog.rows[m]
  BY <1>1
<1>3. ASSUME NEW m \in Leads, dog'.rows[m] # NoRow
      PROVE  dog'.rows[m].status \in Revivable
  BY <1>2, <1>3 DEF SweepRowsOK
<1> QED BY <1>1, <1>3 DEF SweepRowsOK

LEMMA RowsAfterThis ==
  ASSUME SweepRowsOK, dog \in Sweeps(DogPC), dog.lead \in Leads, dog' = NextRow(dog)
  PROVE  SweepRowsOK'
<1>1. [dog EXCEPT !.lead = dog.lead] = dog
  BY DEF Sweeps
<1>2. PICK l \in Leads : l = dog.lead
  OBVIOUS
<1>3. dog' = NextRow([dog EXCEPT !.lead = l])
  BY <1>1, <1>2
<1> QED BY <1>3, RowsAfterNext

LEMMA SweepRowsStep ==
  ASSUME LifecycleInv, SweepRowsOK, [Next]_vars
  PROVE  SweepRowsOK'
<1>1. /\ dog \in Sweeps(DogPC) /\ row \in [Leads -> Rows]
      /\ dog.pc \notin {"idle", "pick"} => dog.lead \in Leads
  BY DEF LifecycleInv, TypeOK, LocalsOK
<1>2. ASSUME dog' = dog
      PROVE  SweepRowsOK'
  BY <1>2 DEF SweepRowsOK
<1>3. ASSUME DogSweep
      PROVE  SweepRowsOK'
  <2>1. /\ dog'.pc = "pick"
        /\ dog'.rows = [l \in Leads |-> IF row[l].status \in {"active", "dead"}
                                        THEN [row[l] EXCEPT !.idle = "fresh"] ELSE NoRow]
    BY <1>1, <1>3 DEF DogSweep, Sweeps
  <2>2. ASSUME NEW l \in Leads, dog'.rows[l] # NoRow
        PROVE  dog'.rows[l].status \in Revivable
    <3>1. row[l].status \in {"active", "dead"} /\ dog'.rows[l] = [row[l] EXCEPT !.idle = "fresh"]
      BY <2>1, <2>2
    <3>2. row[l] \in Row
      BY <1>1, <3>1 DEF Rows, NoRow
    <3> QED BY <3>1, <3>2 DEF Row, Revivable
  <2> QED BY <2>1, <2>2 DEF SweepRowsOK
<1>4. ASSUME DogLook
      PROVE  SweepRowsOK'
  <2>1. CASE dog' = Asleep
    BY <2>1, RowsWhenAsleep
  <2>2. CASE dog' # Asleep
    <3>1. PICK l \in Leads : /\ dog.rows[l] # NoRow
                             /\ \/ \E x \in {"backoff", "heal"} : dog' = [[dog EXCEPT !.lead = l] EXCEPT !.pc = x]
                                \/ dog' = NextRow([dog EXCEPT !.lead = l])
      BY <1>4, <2>2 DEF DogLook
    <3>2. CASE dog' = NextRow([dog EXCEPT !.lead = l])
      BY <1>1, <3>2, RowsAfterNext
    <3>3. CASE \E x \in {"backoff", "heal"} : dog' = [[dog EXCEPT !.lead = l] EXCEPT !.pc = x]
      <4>1. dog'.lead = l /\ dog'.rows = dog.rows
        BY <1>1, <3>3 DEF Sweeps
      <4> QED BY <3>1, <4>1 DEF SweepRowsOK
    <3> QED BY <3>1, <3>2, <3>3
  <2> QED BY <2>1, <2>2
<1>5. ASSUME DogStep, ~DogSweep, ~DogLook
      PROVE  SweepRowsOK'
  <2>1. dog.pc \notin {"idle", "pick"}
    BY <1>5 DEF DogStep, DogHeal, DogBackoff, DogGiveUp, DogNotified, DogRecheck, DogClear, DogReclear, DogResume,
                DogFresh, DogUuid, DogGrace, DogRevived, DogSucceed, DogFail
  <2>2. dog' = NextRow(dog) \/ \E x : dog' = [dog EXCEPT !.pc = x]
    BY <1>5, Zenon DEF DogStep, DogHeal, DogBackoff, DogGiveUp, DogNotified, DogRecheck, DogClear, DogReclear, DogResume,
                DogFresh, DogUuid, DogGrace, DogRevived, DogSucceed, DogFail, DogGoto
  <2>3. CASE dog' = NextRow(dog)
    BY <1>1, <2>1, <2>3, RowsAfterThis
  <2>4. CASE \E x : dog' = [dog EXCEPT !.pc = x]
    <3>1. dog'.rows = dog.rows /\ dog'.lead = dog.lead
      BY <1>1, <2>4 DEF Sweeps
    <3> QED BY <2>1, <3>1, RowsKept
  <2> QED BY <2>2, <2>3, <2>4
<1>6. DogDies => SweepRowsOK'
  BY RowsWhenAsleep DEF DogDies
<1>e. ASSUME DogError
      PROVE  SweepRowsOK'
  <2>1. dog.pc \notin {"idle", "pick"}
    BY <1>e DEF DogError
  <2>2. CASE dog' = NextRow(dog)
    BY <1>1, <2>1, <2>2, RowsAfterThis
  <2>3. CASE DogGoto("fail")
    <3>1. dog'.rows = dog.rows /\ dog'.lead = dog.lead
      BY <1>1, <2>3 DEF Sweeps, DogGoto
    <3> QED BY <2>1, <3>1, RowsKept
  <2> QED BY <1>e, <2>2, <2>3 DEF DogError
<1>7. \/ DogStep \/ DogError \/ DogDies \/ dog' = dog
  BY DEF Next, ToolStep, Call, Scan, Demote, Admit, GiveUpCall, Clear, Launch, RegisterLead, StoreUuid, Kill,
         Verify, MarkKilled, notTool, ReapStep, ReapSweep, ReapPick, ReapKill, ReapMark, ReapDies, notReap,
         World, Network, Exit, CoolDown, Age, Touch, vars
<1> QED BY <1>2, <1>3, <1>4, <1>5, <1>6, <1>e, <1>7

(* The statements and calls of a sweep concern one lead. *)
OthersAlone(l) ==
  \A m \in Leads \ {l} :
    /\ row'[m] = row[m] /\ session'[m] = session[m] /\ unit'[m] = unit[m]
    /\ backoff'[m] = backoff[m] /\ gaveUps'[m] = gaveUps[m]

LEMMA DogTouchesOne ==
  ASSUME LifecycleInv, DogStep, ~DogSweep, ~DogLook
  PROVE  OthersAlone(dog.lead)
<1>1. /\ row \in [Leads -> Rows] /\ session \in [Leads -> BOOLEAN] /\ unit \in [Leads -> BOOLEAN]
      /\ backoff \in [Leads -> Backoff] /\ gaveUps \in [Leads -> Nat]
  BY DEF LifecycleInv, TypeOK
<1>2. \A m \in Leads \ {dog.lead} : row'[m] = row[m]
  BY <1>1 DEF DogStep, DogHeal, DogBackoff, DogGiveUp, DogNotified, DogRecheck, DogClear, DogReclear, DogResume,
              DogFresh, DogUuid, DogGrace, DogRevived, DogSucceed, DogFail, SetStatus, SetUuid, leadVars
<1>3. \A l : KillSession(l) \/ StartSession(l) =>
               \A m \in Leads \ {l} : session'[m] = session[m] /\ unit'[m] = unit[m]
  BY <1>1 DEF KillSession, StartSession
<1>4. KillSession(dog.lead) \/ StartSession(dog.lead) \/ UNCHANGED <<session, unit>>
  BY DEF DogStep, DogHeal, DogBackoff, DogGiveUp, DogNotified, DogRecheck, DogClear, DogReclear, DogResume,
         DogFresh, DogUuid, DogGrace, DogRevived, DogSucceed, DogFail, leadVars
<1>5. \A m \in Leads \ {dog.lead} : session'[m] = session[m] /\ unit'[m] = unit[m]
  BY <1>3, <1>4
<1>6. \A m \in Leads \ {dog.lead} : backoff'[m] = backoff[m] /\ gaveUps'[m] = gaveUps[m]
  BY <1>1 DEF DogStep, DogHeal, DogBackoff, DogGiveUp, DogNotified, DogRecheck, DogClear, DogReclear, DogResume,
              DogFresh, DogUuid, DogGrace, DogRevived, DogSucceed, DogFail, leadVars
<1> QED BY <1>2, <1>5, <1>6 DEF OthersAlone

LEMMA SweepTouches ==
  ASSUME LifecycleInv, SweepRowsOK, [Next]_vars
  PROVE  SweepOnlyRevivable
<1>1. CASE dog' = dog
  BY <1>1 DEF SweepOnlyRevivable
<1>2. CASE DogSweep \/ DogLook \/ DogDies \/ DogError
  <2>1. UNCHANGED <<row, session, unit, backoff, gaveUps>>
    BY <1>2 DEF DogSweep, DogLook, DogDies, DogError, leadVars
  <2> QED BY <2>1 DEF SweepOnlyRevivable
<1>3. CASE DogStep /\ ~DogSweep /\ ~DogLook
  <2>1. OthersAlone(dog.lead)
    BY <1>3, DogTouchesOne
  <2>2. dog.pc \notin {"idle", "pick"}
    BY <1>3 DEF DogStep, DogHeal, DogBackoff, DogGiveUp, DogNotified, DogRecheck, DogClear, DogReclear, DogResume,
                DogFresh, DogUuid, DogGrace, DogRevived, DogSucceed, DogFail
  <2>3. dog.rows[dog.lead].status \in {"active", "dead"}
    BY <2>2 DEF SweepRowsOK, Revivable
  <2> QED BY <2>1, <2>3 DEF SweepOnlyRevivable, OthersAlone
<1>4. \/ DogStep \/ DogError \/ DogDies \/ dog' = dog
  BY DEF Next, ToolStep, Call, Scan, Demote, Admit, GiveUpCall, Clear, Launch, RegisterLead, StoreUuid, Kill,
         Verify, MarkKilled, notTool, ReapStep, ReapSweep, ReapPick, ReapKill, ReapMark, ReapDies, notReap,
         World, Network, Exit, CoolDown, Age, Touch, vars
<1> QED BY <1>1, <1>2, <1>3, <1>4

(* What was stopped before a sweep of the watchdog began is left alone by  *)
(* the whole sweep (StoppedIsLeftAlone; list_revivable and _process_row).  *)
THEOREM StoppedLeadsLeftAlone == Spec => StoppedIsLeftAlone
<1> DEFINE I == LifecycleInv /\ SweepRowsOK
<1>1. Init => I
  <2> SUFFICES ASSUME Init
               PROVE  I
    OBVIOUS
  <2>1. LifecycleInv
    BY InitInv, LifecycleAssumption
  <2>2. SweepRowsOK
    BY DEF Init, Asleep, NoRows, SweepRowsOK
  <2> QED BY <2>1, <2>2
<1>2. I /\ [Next]_vars => I'
  BY NextInv, SweepRowsStep, LifecycleAssumption
<1>3. I /\ [Next]_vars => [SweepOnlyRevivable]_vars
  BY SweepTouches
<1> HIDE DEF I
<1> QED BY <1>1, <1>2, <1>3, PTL DEF Spec, StoppedIsLeftAlone
=============================================================================
