----------------------- MODULE EngagementQueueProofs -----------------------
(***************************************************************************)
(* Proofs about EngagementQueue for every value of its constants.          *)
(*                                                                         *)
(* The lock makes what a command read the truth about every draft that has *)
(* left the pool: nobody but its holder rewrites the file, and the agent's *)
(* lockless appends concern drafts that were never there (EntriesCurrent). *)
(* No step back follows, since every command only moves drafts on; and a   *)
(* draft that is announced, or about to be, has left the pool for good, so *)
(* no later pop finds it queued (AnnouncedOK).  HourOK and ScreenOK are    *)
(* the invariants behind the hour's DM and the screened drafts.            *)
(***************************************************************************)
EXTENDS EngagementQueue, WellFoundedInduction, TLAPS

(* The statuses are ranked as the code ranks them.                         *)
LEMMA Ranks ==
  /\ Rank("posted") = 6 /\ Rank("failed") = 5 /\ Rank("declined") = 4
  /\ Rank("approved") = 3 /\ Rank("pending_review") = 2 /\ Rank("queued") = 1
  /\ Rank("none") = 0
<1>1. Rank("posted") = 6
  BY DEF Rank
<1>2. Rank("failed") = 5
  BY DEF Rank
<1>3. Rank("declined") = 4
  BY DEF Rank
<1>4. Rank("approved") = 3
  BY DEF Rank
<1>5. Rank("pending_review") = 2
  BY DEF Rank
<1>6. Rank("queued") = 1
  BY DEF Rank
<1>7. Rank("none") = 0
  BY DEF Rank
<1>. QED
  BY <1>1, <1>2, <1>3, <1>4, <1>5, <1>6, <1>7

LEMMA StatusRank ==
  /\ \A s \in Statuses : Rank(s) \in 1 .. 6
  /\ \A s, t \in Statuses : Rank(s) = Rank(t) => s = t
BY Ranks DEF Statuses

(* A bounded set of naturals has a largest element.                        *)
LEMMA LargestIn ==
  ASSUME NEW S \in SUBSET Nat, NEW b \in Nat, S # {}, \A s \in S : s <= b
  PROVE  \E t \in S : \A u \in S : u <= t
<1>. DEFINE D == {d \in 0 .. b : b - d \in S}
<1>1. D \in SUBSET Nat /\ D # {}
  <2>1. PICK s \in S : TRUE
    OBVIOUS
  <2>2. s \in Nat /\ b - s \in 0 .. b /\ b - (b - s) = s
    BY <2>1
  <2>3. b - s \in D
    BY <2>1, <2>2
  <2>4. D \subseteq Nat
    <3>1. \A d \in D : d \in 0 .. b
      OBVIOUS
    <3>. QED
      BY <3>1
  <2>. QED
    BY <2>3, <2>4
<1>2. \E x \in D : \A y \in D : ~ (<<y, x>> \in OpToRel(<, Nat))
  BY <1>1, NatLessThanWellFounded, WFMin
<1>3. PICK x \in D : \A y \in D : ~ (<<y, x>> \in OpToRel(<, Nat))
  BY <1>2
<1>4. ASSUME NEW u \in S PROVE u <= b - x
  <2>1. u \in Nat /\ b - u \in 0 .. b /\ b - (b - u) = u
    OBVIOUS
  <2>2. b - u \in D
    BY <2>1
  <2>3. <<b - u, x>> \in Nat \X Nat
    BY <1>1, <2>2
  <2>4. ~ (b - u < x)
    BY <1>3, <2>2, <2>3, Zenon DEF OpToRel
  <2>. QED
    BY <2>1, <2>4
<1>5. b - x \in S
  OBVIOUS
<1>. QED
  BY <1>4, <1>5

(* read_queue: of several rows of a draft there is one that beats them all.*)
LEMMA BestRow ==
  ASSUME NEW S \in SUBSET Row, S # {}
  PROVE  \E r \in S : \A s \in S : Beats(r, s)
<1>. DEFINE R == {Rank(r.status) : r \in S}
<1>0. \A r \in S : r.status \in Statuses /\ r.at \in 0 .. MaxHour /\ Rank(r.status) \in 1 .. 6
  BY StatusRank DEF Row
<1>1. PICK m \in R : \A n \in R : n <= m
  <2>1. R \in SUBSET Nat /\ R # {} /\ \A n \in R : n <= 6
    BY <1>0
  <2>. QED
    BY <2>1, LargestIn
<1>. DEFINE A == {r \in S : Rank(r.status) = m}
            T == {r.at : r \in A}
<1>2. PICK t \in T : \A u \in T : u <= t
  <2>1. T \in SUBSET Nat /\ T # {} /\ \A u \in T : u <= MaxHour
    BY <1>0, <1>1, EngagementAssumption
  <2>. QED
    BY <2>1, EngagementAssumption, LargestIn
<1>3. PICK r \in A : r.at = t
  OBVIOUS
<1>4. ASSUME NEW s \in S PROVE Beats(r, s)
  <2>1. Rank(s.status) <= m /\ Rank(s.status) \in R /\ Rank(r.status) = m
    BY <1>1, <1>3
  <2>2. CASE Rank(s.status) = m
    <3>1. s.status = r.status /\ s.at <= t /\ s.at \in 0 .. MaxHour /\ t \in 0 .. MaxHour
      BY <1>0, <1>2, <1>3, <2>1, <2>2, StatusRank
    <3>. QED
      BY <1>3, <3>1 DEF Beats
  <2>3. CASE Rank(s.status) # m
    BY <1>0, <2>1, <2>3 DEF Beats
  <2>. QED
    BY <2>2, <2>3
<1>. QED
  BY <1>3, <1>4

LEMMA ReadQueueType ==
  ASSUME NEW q \in [Drafts -> SUBSET Row]
  PROVE  /\ ReadQueue(q) \in Entries
         /\ \A d \in Drafts : /\ q[d] = {} => ReadQueue(q)[d] = NoRow
                              /\ q[d] # {} => ReadQueue(q)[d] \in q[d]
<1>1. ASSUME NEW d \in Drafts, q[d] # {} PROVE (CHOOSE r \in q[d] : \A s \in q[d] : Beats(r, s)) \in q[d]
  <2>1. q[d] \in SUBSET Row
    OBVIOUS
  <2>2. \E r \in q[d] : \A s \in q[d] : Beats(r, s)
    BY <1>1, <2>1, BestRow
  <2>. QED
    BY <2>2
<1>2. \A d \in Drafts : /\ q[d] = {} => ReadQueue(q)[d] = NoRow
                        /\ q[d] # {} => ReadQueue(q)[d] \in q[d]
  BY <1>1 DEF ReadQueue
<1>3. ReadQueue(q) = [d \in Drafts |-> ReadQueue(q)[d]]
  BY DEF ReadQueue
<1>. QED
  BY <1>2, <1>3 DEF Entries

(* write_queue_atomic: what is written is what the next command reads.     *)
LEMMA ReadBack ==
  ASSUME NEW E \in Entries
  PROVE  FileOf(E) \in [Drafts -> SUBSET Row] /\ ReadQueue(FileOf(E)) = E
<1>0. NoRow \notin Row /\ \A d \in Drafts : E[d] \in Row \cup {NoRow}
  BY DEF Entries, Row, NoRow, Statuses
<1>1. FileOf(E) \in [Drafts -> SUBSET Row]
  BY <1>0 DEF FileOf
<1>2. ASSUME NEW d \in Drafts PROVE ReadQueue(FileOf(E))[d] = E[d]
  <2>1. CASE E[d] = NoRow
    <3>1. FileOf(E)[d] = {}
      BY <2>1 DEF FileOf
    <3>. QED
      BY <1>1, <2>1, <3>1, ReadQueueType
  <2>2. CASE E[d] # NoRow
    <3>1. FileOf(E)[d] = {E[d]}
      BY <2>2 DEF FileOf
    <3>. QED
      BY <1>1, <3>1, ReadQueueType
  <2>. QED
    BY <2>1, <2>2
<1>3. ReadQueue(FileOf(E)) = [d \in Drafts |-> ReadQueue(FileOf(E))[d]] /\ E = [d \in Drafts |-> E[d]]
  BY DEF ReadQueue, Entries
<1>. QED
  BY <1>1, <1>2, <1>3

(* F is E with the status to for the drafts of ids whose status is in from.*)
Sets(E, F, ids, from, to) ==
  /\ F \in Entries
  /\ \A d \in Drafts : \/ F[d] = E[d]
                       \/ d \in ids /\ E[d].status \in from /\ F[d].status = to
  /\ \A d \in Drafts \cap ids : E[d].status \in from => F[d].status = to

LEMMA SetStatusType ==
  ASSUME NEW E \in Entries, NEW ids, NEW from \in SUBSET Statuses, NEW to \in Statuses, hour \in 0 .. MaxHour
  PROVE  Sets(E, SetStatus(E, ids, from, to), ids, from, to)
<1>. DEFINE new(d) == IF d \in ids \cap Having(E, from) THEN [E[d] EXCEPT !.status = to, !.at = hour] ELSE E[d]
<1>1. ASSUME NEW d \in Drafts, d \in ids \cap Having(E, from)
      PROVE  new(d) \in Row /\ new(d).status = to /\ E[d].status \in from
  <2>1. E[d].status \in from /\ E[d] \in Row \cup {NoRow}
    BY <1>1 DEF Having, Entries
  <2>2. E[d] \in Row
    BY <2>1 DEF NoRow, Statuses
  <2>. QED
    BY <1>1, <2>1, <2>2 DEF Row
<1>2. \A d \in Drafts : d \notin ids \cap Having(E, from) => new(d) = E[d]
  OBVIOUS
<1>3. SetStatus(E, ids, from, to) = [d \in Drafts |-> new(d)]
  BY DEF SetStatus
<1>4. \A d \in Drafts : E[d] \in Row \cup {NoRow}
  BY DEF Entries
<1>5. \A d \in Drafts \cap ids : E[d].status \in from => d \in ids \cap Having(E, from)
  BY DEF Having
<1>. HIDE DEF new
<1>6. /\ [d \in Drafts |-> new(d)] \in Entries
      /\ \A d \in Drafts : new(d) = E[d] \/ (d \in ids /\ E[d].status \in from /\ new(d).status = to)
      /\ \A d \in Drafts \cap ids : E[d].status \in from => new(d).status = to
  BY <1>1, <1>2, <1>4, <1>5 DEF Entries
<1>. QED
  BY <1>3, <1>6 DEF Sets
-----------------------------------------------------------------------------
(* The invariant *)

Status(d) == ReadQueue(queue)[d].status
Holds(p)  == call[p].step \in {"edit", "write"}

(* What the holder of the lock has read is the file, but for what was      *)
(* appended since.                                                         *)
Current(p, d) ==
  \/ call[p].entries[d] = ReadQueue(queue)[d]
  \/ call[p].entries[d] = NoRow /\ Status(d) = "queued"
EntriesCurrent ==
  /\ \A p \in Procs : Holds(p) => lock = p /\ \A d \in Drafts : Current(p, d)
  /\ \A d \in Drafts : queue[d] # {} => d \in drafted

(* A draft that was announced, or that a command is about to announce, has *)
(* left the pool, and there is one announcement of it at most.             *)
AnnouncedOK ==
  \A d \in Drafts :
    /\ told[d] <= 1
    /\ told[d] > 0 => Rank(Status(d)) >= 2
    /\ \A p \in Procs : d \in call[p].popped =>
         /\ told[d] = 0 /\ Rank(Status(d)) >= 2
         /\ \A q \in Procs : d \in call[q].popped => q = p

(* mark_posted writes the queue only after the ledger.                     *)
RecordOK ==
  /\ PostedOnRecord
  /\ \A p \in Procs : call[p].step = "write" =>
       call[p].ids \cap Having(call[p].entries, Statuses) \subseteq ledger

EngInv == EngTypeOK /\ EntriesCurrent /\ AnnouncedOK /\ RecordOK

(* The action of NoStepBack.                                               *)
NoDraftBack ==
  \A d \in Drafts :
    LET old == ReadQueue(queue)[d].status IN
    Rank(old) >= 2 => Stage(ReadQueue(queue')[d].status) >= Stage(old)

Others(p) == \A q \in Procs \ {p} : call'[q] = call[q]

LEMMA EngFacts ==
  ASSUME EngTypeOK
  PROVE  /\ queue \in [Drafts -> SUBSET Row] /\ ReadQueue(queue) \in Entries
         /\ call \in [Procs -> Call] /\ told \in [Drafts -> Nat]
         /\ hour \in 0 .. MaxHour /\ MaxHour \in Nat /\ "none" \notin Procs /\ Timer \in Procs
         /\ \A d \in Drafts : Status(d) \in Statuses \cup {"none"} /\ Rank(Status(d)) \in 0 .. 6
         /\ \A d \in Drafts : Stage(Status(d)) \in 0 .. 4
<1>1. queue \in [Drafts -> SUBSET Row] /\ ReadQueue(queue) \in Entries
  BY ReadQueueType DEF EngTypeOK
<1>2. \A d \in Drafts : Status(d) \in Statuses \cup {"none"}
  BY <1>1 DEF Status, Entries, Row, NoRow
<1>3. \A d \in Drafts : Rank(Status(d)) \in 0 .. 6
  BY <1>2, Ranks, StatusRank
<1>4. \A d \in Drafts : Stage(Status(d)) \in 0 .. 4
  BY <1>3 DEF Stage
<1>. QED
  BY <1>1, <1>2, <1>3, <1>4, EngagementAssumption DEF EngTypeOK, Procs

(* A step that leaves the queue alone.                                     *)
LEMMA QuietFrame ==
  ASSUME EngInv, EngTypeOK', NEW p \in Procs, Others(p), UNCHANGED <<queue, drafted>>,
         ledger \subseteq ledger', lock' = lock \/ lock \in {"none", p},
         Holds(p)' => lock' = p /\ (call'[p].entries = ReadQueue(queue)
                                   \/ (call'[p].entries = call[p].entries /\ Holds(p))),
         call'[p].step = "write" => call'[p].ids \cap Having(call'[p].entries, Statuses) \subseteq ledger'
  PROVE  EntriesCurrent' /\ RecordOK' /\ NoDraftBack
<1>0. /\ EngTypeOK /\ EntriesCurrent /\ AnnouncedOK /\ RecordOK
      /\ \A d \in Drafts : Status(d)' = Status(d)
  BY DEF EngInv, Status
<1>1. NoDraftBack
  BY <1>0, EngFacts DEF NoDraftBack, Status
<1>2. EntriesCurrent'
  <2>1. ASSUME NEW q \in Procs, Holds(q)' PROVE lock' = q /\ \A d \in Drafts : Current(q, d)'
    <3>1. CASE q = p
      BY <1>0, <2>1, <3>1 DEF EntriesCurrent, Current
    <3>2. CASE q # p
      <4>1. call'[q] = call[q] /\ Holds(q)
        BY <2>1, <3>2 DEF Others, Holds
      <4>2. lock = q /\ \A d \in Drafts : Current(q, d)
        BY <1>0, <4>1 DEF EntriesCurrent
      <4>3. lock' = q
        BY <1>0, <3>2, <4>2, EngFacts
      <4>. QED
        BY <1>0, <4>1, <4>2, <4>3 DEF Current
    <3>. QED
      BY <3>1, <3>2
  <2>. QED
    BY <1>0, <2>1 DEF EntriesCurrent
<1>3. PostedOnRecord'
  BY <1>0 DEF RecordOK, PostedOnRecord, Having, Legacy
<1>4. ASSUME NEW q \in Procs, call'[q].step = "write"
      PROVE  call'[q].ids \cap Having(call'[q].entries, Statuses) \subseteq ledger'
  BY <1>0, <1>4 DEF RecordOK, Others
<1>. QED
  BY <1>0, <1>1, <1>2, <1>3, <1>4 DEF RecordOK

(* A step that leaves the queue alone and takes no draft.                  *)
LEMMA QuietStep ==
  ASSUME EngInv, EngTypeOK', NEW p \in Procs, Others(p), UNCHANGED <<queue, drafted, told>>,
         ledger \subseteq ledger', lock' = lock \/ lock \in {"none", p},
         call'[p].popped \subseteq call[p].popped,
         Holds(p)' => lock' = p /\ (call'[p].entries = ReadQueue(queue)
                                   \/ (call'[p].entries = call[p].entries /\ Holds(p))),
         call'[p].step = "write" => call'[p].ids \cap Having(call'[p].entries, Statuses) \subseteq ledger'
  PROVE  EngInv' /\ NoDraftBack
<1>1. AnnouncedOK /\ \A d \in Drafts : Status(d)' = Status(d)
  BY DEF EngInv, Status
<1>2. \A q \in Procs : call'[q].popped \subseteq call[q].popped
  BY DEF Others
<1>3. AnnouncedOK'
  BY <1>1, <1>2 DEF AnnouncedOK
<1>. QED
  BY <1>3, QuietFrame DEF EngInv

(* A command's write: every draft moves on or stays, nothing comes back    *)
(* into the file, and what is popped was in the pool.                      *)
Forward(E, F) ==
  \A d \in Drafts :
    /\ E[d] = NoRow => F[d] = NoRow
    /\ Rank(E[d].status) >= 2 => Stage(F[d].status) >= Stage(E[d].status)

LEMMA CommitStep ==
  ASSUME EngInv, EngTypeOK', NEW p \in Procs, Holds(p), Others(p), NEW F \in Entries, queue' = FileOf(F),
         UNCHANGED <<drafted, told>>, ledger' = ledger, lock' = "none", ~Holds(p)',
         Forward(call[p].entries, F),
         \A d \in call'[p].popped : call[p].entries[d].status = "queued" /\ F[d].status = "pending_review",
         \A d \in Drafts : F[d].status = "posted" => call[p].entries[d].status = "posted" \/ d \in ledger
  PROVE  EngInv' /\ NoDraftBack
<1>0. /\ EngTypeOK /\ EntriesCurrent /\ AnnouncedOK /\ RecordOK /\ lock = p
      /\ ReadQueue(queue') = F
      /\ \A d \in Drafts : Current(p, d)
  BY ReadBack DEF EngInv, EntriesCurrent
<1>1. \A d \in Drafts : Status(d)' = F[d].status
  BY <1>0 DEF Status
<1>2. ASSUME NEW d \in Drafts, call[p].entries[d].status # "none" PROVE call[p].entries[d].status = Status(d)
  BY <1>0, <1>2 DEF Current, Status, NoRow
<1>3. \A d \in Drafts : Status(d) # "queued" => call[p].entries[d] = ReadQueue(queue)[d]
  BY <1>0 DEF Current
<1>4. ASSUME NEW d \in Drafts, Rank(Status(d)) >= 2 PROVE Stage(Status(d)') >= Stage(Status(d))
  <2>1. Status(d) # "queued"
    BY <1>4, Ranks
  <2>2. call[p].entries[d] = ReadQueue(queue)[d]
    BY <1>3, <2>1
  <2>. QED
    BY <1>1, <1>4, <2>2 DEF Forward, Status
<1>5. NoDraftBack
  BY <1>0, <1>1, <1>4 DEF NoDraftBack, Status
<1>6. ASSUME NEW d \in Drafts, Rank(Status(d)) >= 2 PROVE Rank(Status(d)') >= 2
  <2>1. Stage(Status(d)') >= Stage(Status(d)) /\ Stage(Status(d)) >= 2
    BY <1>0, <1>4, <1>6, EngFacts DEF Stage
  <2>2. Rank(Status(d)') \in 0 .. 6
    <3>1. F[d].status \in Statuses \cup {"none"}
      BY DEF Entries, Row, NoRow
    <3>. QED
      BY <1>1, <3>1, Ranks, StatusRank
  <2>3. Stage(Status(d)') \in 0 .. 4 /\ Stage(Status(d)) \in 0 .. 4
    BY <1>0, <2>2, EngFacts DEF Stage
  <2>4. Stage(Status(d)') >= 2
    BY <2>1, <2>3
  <2>. QED
    BY <2>2, <2>4 DEF Stage
<1>7. EntriesCurrent'
  <2>1. ASSUME NEW q \in Procs, Holds(q)' PROVE FALSE
    <3>1. q # p /\ Holds(q)
      BY <2>1 DEF Others, Holds
    <3>. QED
      BY <1>0, <3>1 DEF EntriesCurrent
  <2>2. ASSUME NEW d \in Drafts, queue'[d] # {} PROVE d \in drafted'
    <3>1. F[d] # NoRow
      BY <2>2 DEF FileOf
    <3>2. call[p].entries[d] # NoRow
      BY <3>1 DEF Forward
    <3>3. ReadQueue(queue)[d] # NoRow
      BY <1>0, <3>2 DEF Current
    <3>4. queue[d] # {}
      BY <1>0, <3>3, EngFacts, ReadQueueType
    <3>. QED
      BY <1>0, <3>4 DEF EntriesCurrent
  <2>. QED
    BY <2>1, <2>2 DEF EntriesCurrent
<1>8. AnnouncedOK'
  <2>1. ASSUME NEW d \in Drafts, d \in call'[p].popped
        PROVE  /\ told[d] = 0 /\ Rank(Status(d)') >= 2
               /\ \A q \in Procs : d \in call[q].popped => FALSE
    <3>1. Status(d) = "queued" /\ Status(d)' = "pending_review"
      BY <1>1, <1>2, <2>1
    <3>2. ~ (Rank(Status(d)) >= 2) /\ Rank(Status(d)') >= 2
      BY <3>1, Ranks
    <3>3. told[d] \in Nat
      BY <1>0, EngFacts
    <3>. QED
      BY <1>0, <3>2, <3>3 DEF AnnouncedOK
  <2>2. ASSUME NEW d \in Drafts, NEW q \in Procs, d \in call'[q].popped
        PROVE  /\ told[d] = 0 /\ Rank(Status(d)') >= 2
               /\ \A r \in Procs : d \in call'[r].popped => r = q
    <3>1. CASE d \in call'[p].popped
      BY <2>1, <2>2, <3>1 DEF Others
    <3>2. CASE d \notin call'[p].popped
      <4>1. q # p /\ d \in call[q].popped
        BY <2>2, <3>2 DEF Others
      <4>2. told[d] = 0 /\ Rank(Status(d)) >= 2 /\ \A r \in Procs : d \in call[r].popped => r = q
        BY <1>0, <4>1 DEF AnnouncedOK
      <4>. QED
        BY <1>6, <3>2, <4>2 DEF Others
    <3>. QED
      BY <3>1, <3>2
  <2>3. \A d \in Drafts : told[d] <= 1 /\ (told[d] > 0 => Rank(Status(d)') >= 2)
    BY <1>0, <1>6 DEF AnnouncedOK
  <2>. QED
    BY <2>2, <2>3 DEF AnnouncedOK
<1>9. RecordOK'
  <2>1. ASSUME NEW d \in Drafts, F[d].status = "posted" PROVE d \in ledger \cup Legacy
    <3>1. call[p].entries[d].status = "posted" => Status(d) = "posted"
      BY <1>2
    <3>. QED
      BY <1>0, <2>1, <3>1 DEF RecordOK, PostedOnRecord, Having, Status
  <2>2. PostedOnRecord'
    BY <1>0, <2>1 DEF PostedOnRecord, Having, Legacy
  <2>3. ASSUME NEW q \in Procs, call'[q].step = "write" PROVE FALSE
    <3>1. q # p /\ Holds(q)
      BY <2>3 DEF Others, Holds
    <3>. QED
      BY <1>0, <3>1 DEF EntriesCurrent
  <2>. QED
    BY <2>2, <2>3 DEF RecordOK
<1>. QED
  BY <1>5, <1>7, <1>8, <1>9 DEF EngInv

(* The agent's lockless append cannot be of a draft a command has read.    *)
LEMMA AppendStep ==
  ASSUME EngInv, EngTypeOK', NEW d \in Drafts, Append(d)
  PROVE  EngInv' /\ NoDraftBack
<1>. DEFINE row == [status |-> "queued", at |-> hour, fresh |-> FreshlyDraftedAt(d)]
<1>0. /\ EngTypeOK /\ EntriesCurrent /\ AnnouncedOK /\ RecordOK
      /\ queue \in [Drafts -> SUBSET Row] /\ queue' \in [Drafts -> SUBSET Row]
  BY EngFacts DEF EngInv, EngTypeOK
<1>1. /\ queue' = [queue EXCEPT ![d] = {row}] /\ drafted' = drafted \cup {d}
      /\ call' = call /\ ledger' = ledger /\ lock' = lock /\ told' = told
  BY DEF Append, files, dmVars
<1>2. d \notin drafted
  <2>1. d \in Nat /\ ~ (d < d)
    BY EngagementAssumption
  <2>. QED
    BY <2>1 DEF Append
<1>3. queue[d] = {} /\ ReadQueue(queue)[d] = NoRow /\ Status(d) = "none"
  BY <1>0, <1>2, ReadQueueType DEF EntriesCurrent, Status, NoRow
<1>4. Status(d)' = "queued"
  <2>1. queue'[d] = {row}
    BY <1>0, <1>1
  <2>2. ReadQueue(queue')[d] = row
    BY <1>0, <2>1, ReadQueueType
  <2>. QED
    BY <2>2 DEF Status
<1>5. \A e \in Drafts \ {d} : queue'[e] = queue[e] /\ ReadQueue(queue')[e] = ReadQueue(queue)[e]
  BY <1>0, <1>1 DEF ReadQueue
<1>6. \A e \in Drafts \ {d} : Status(e)' = Status(e)
  BY <1>5 DEF Status
<1>. HIDE DEF row
<1>7. ~ (Rank(Status(d)) >= 2)
  BY <1>3, Ranks
<1>8. NoDraftBack
  BY <1>0, <1>6, <1>7, EngFacts DEF NoDraftBack, Status
<1>9. EntriesCurrent'
  <2>1. ASSUME NEW q \in Procs, Holds(q)', NEW e \in Drafts PROVE lock' = q /\ Current(q, e)'
    <3>1. lock = q /\ Current(q, e)
      BY <1>0, <1>1, <2>1 DEF EntriesCurrent, Holds
    <3>2. CASE e = d
      BY <1>1, <1>3, <1>4, <3>1, <3>2 DEF Current
    <3>3. CASE e # d
      BY <1>1, <1>5, <1>6, <3>1, <3>3 DEF Current
    <3>. QED
      BY <1>1, <3>1, <3>2, <3>3
  <2>2. \A q \in Procs : Holds(q)' => lock' = q
    BY <1>0, <1>1 DEF EntriesCurrent, Holds
  <2>3. \A e \in Drafts : queue'[e] # {} => e \in drafted'
    BY <1>0, <1>1, <1>5 DEF EntriesCurrent
  <2>. QED
    BY <2>1, <2>2, <2>3 DEF EntriesCurrent
<1>10. AnnouncedOK'
  <2>1. \A e \in Drafts : Rank(Status(e)) >= 2 => Rank(Status(e)') >= 2
    BY <1>6, <1>7
  <2>. QED
    BY <1>0, <1>1, <2>1 DEF AnnouncedOK
<1>11. RecordOK'
  <2>1. \A e \in Drafts : Status(e)' = "posted" => Status(e) = "posted"
    BY <1>4, <1>6
  <2>2. PostedOnRecord'
    BY <1>0, <1>1, <2>1 DEF RecordOK, PostedOnRecord, Having, Status, Legacy
  <2>. QED
    BY <1>0, <1>1, <2>2 DEF RecordOK
<1>. QED
  BY <1>8, <1>9, <1>10, <1>11 DEF EngInv
-----------------------------------------------------------------------------
(* What commands hold                                                      *)
USE DEF files, review, time, bounds, dmVars, seen

LEMMA CallValues ==
  /\ Nothing \in Entries /\ Idle \in Call /\ Idle.step = "idle" /\ Idle.popped = {} /\ Idle.ids = {}
  /\ \A op \in Ops, ids \in SUBSET Drafts :
       LET c == [Idle EXCEPT !.op = op, !.step = "lock", !.ids = ids] IN
       c \in Call /\ c.step = "lock" /\ c.popped = {}
  /\ \A op \in Ops, E \in Entries :
       LET c == [Idle EXCEPT !.op = op, !.step = "page", !.entries = E] IN
       c \in Call /\ c.step = "page" /\ c.popped = {}
<1>1. Nothing \in Entries
  BY DEF Nothing, Entries
<1>. QED
  BY <1>1 DEF Idle, Call

LEMMA ChoicesQueued ==
  ASSUME NEW E, NEW op, NEW ids \in Choices(E, op)
  PROVE  ids \subseteq Having(E, {"queued"}) /\ ids \subseteq Drafts
<1>1. \A q \in Platforms : Firsts(E, op, q) \subseteq Having(E, {"queued"})
  BY DEF Firsts, Eligible
<1>2. ids \subseteq UNION {Firsts(E, op, q) : q \in Platforms}
  BY DEF Choices
<1>. QED
  BY <1>1, <1>2 DEF Having

(* ReviewBody: the page holds statuses that are still to be acted on.      *)
LEMMA ReviewType ==
  ASSUME NEW E
  PROVE  ReviewBody(E) \in [Drafts -> {"none", "queued", "pending_review"}]
BY DEF ReviewBody

(* A step of p, seen as a new record of p.                                 *)
LEMMA Replaced ==
  ASSUME call \in [Procs -> Call], NEW p \in Procs, NEW c \in Call, call' = [call EXCEPT ![p] = c]
  PROVE  call' \in [Procs -> Call] /\ call'[p] = c /\ Others(p)
BY DEF Others

(* A step that changes no command's record, the queue or the ledger.       *)
LEMMA StillStep ==
  ASSUME EngInv, EngTypeOK', UNCHANGED <<call, queue, ledger, lock, drafted, told>>
  PROVE  EngInv' /\ NoDraftBack
<1>1. /\ EngTypeOK /\ EntriesCurrent /\ RecordOK /\ Timer \in Procs /\ Others(Timer)
  BY EngFacts DEF EngInv, Others
<1>2. Holds(Timer)' => lock' = Timer /\ call'[Timer].entries = call[Timer].entries /\ Holds(Timer)
  BY <1>1 DEF EntriesCurrent, Holds
<1>3. call'[Timer].step = "write" =>
        call'[Timer].ids \cap Having(call'[Timer].entries, Statuses) \subseteq ledger'
  BY <1>1 DEF RecordOK
<1>. QED
  BY <1>1, <1>2, <1>3, QuietStep

(* A command that neither holds the lock after the step nor is about to    *)
(* announce more than before.                                              *)
LEMMA FreeStep ==
  ASSUME EngInv, EngTypeOK', NEW p \in Procs, Others(p), UNCHANGED <<queue, drafted, told>>,
         ledger \subseteq ledger', lock' = lock \/ lock \in {"none", p},
         call'[p].popped \subseteq call[p].popped, ~Holds(p)'
  PROVE  EngInv' /\ NoDraftBack
<1>1. call'[p].step # "write"
  BY DEF Holds
<1>. QED
  BY <1>1, QuietStep
-----------------------------------------------------------------------------
(* The steps *)

LEMMA ClockSteps ==
  ASSUME EngInv, Dispatch \/ AgentEnds \/ HourEnds
  PROVE  EngInv' /\ NoDraftBack
<1>1. EngTypeOK
  BY DEF EngInv
<1>2. EngTypeOK'
  <2>1. hour' \in 0 .. MaxHour
    BY <1>1, EngagementAssumption DEF EngTypeOK, Dispatch, AgentEnds, HourEnds
  <2>2. phase' \in {"idle", "agent", "purge", "dedup", "pop", "end"}
    BY DEF Dispatch, AgentEnds, HourEnds
  <2>3. dms' \in Nat /\ cause' \in Causes
    <3>1. dms' \in {0, dms} /\ cause' \in {"none", cause}
      BY DEF Dispatch, AgentEnds, HourEnds
    <3>2. dms \in Nat /\ cause \in Causes /\ "none" \in Causes
      BY <1>1 DEF EngTypeOK, Causes
    <3>3. dms' \in Nat
      BY <3>1, <3>2
    <3>. QED
      BY <3>1, <3>2, <3>3, Zenon
  <2>4. UNCHANGED <<queue, ledger, lock, call, page, tmp, refill, calls, deaths, drafted, told, screened, torn>>
    BY DEF Dispatch, AgentEnds, HourEnds
  <2>. QED
    BY <1>1, <2>1, <2>2, <2>3, <2>4 DEF EngTypeOK
<1>3. UNCHANGED <<call, queue, ledger, lock, drafted, told>>
  BY DEF Dispatch, AgentEnds, HourEnds
<1>. QED
  BY <1>2, <1>3, StillStep

LEMMA AppendType ==
  ASSUME EngTypeOK, NEW d \in Drafts, Append(d)
  PROVE  EngTypeOK'
<1>. DEFINE row == [status |-> "queued", at |-> hour, fresh |-> FreshlyDraftedAt(d)]
<1>1. row \in Row
  BY EngFacts DEF Row, Statuses, FreshlyDraftedAt
<1>2. queue' = [queue EXCEPT ![d] = {row}] /\ drafted' = drafted \cup {d}
  BY DEF Append
<1>. HIDE DEF row
<1>3. queue' \in [Drafts -> SUBSET Row] /\ drafted' \subseteq Drafts
  BY <1>1, <1>2 DEF EngTypeOK
<1>4. UNCHANGED <<ledger, lock, call, page, tmp, refill, hour, phase, calls, deaths, told, dms, cause, screened, torn>>
  BY DEF Append
<1>. QED
  BY <1>3, <1>4 DEF EngTypeOK

(* A command's start consumes a call of a user or a phase of the timer.    *)
LEMMA RunsType ==
  ASSUME EngTypeOK, NEW p \in Procs, NEW op, Runs(p, op)
  PROVE  /\ phase' \in {"idle", "agent", "purge", "dedup", "pop", "end"} /\ calls' \in 0 .. MaxCalls
         /\ call[p] = Idle
<1>1. CASE p = Timer
  BY <1>1 DEF Runs, TimerRuns, EngTypeOK
<1>2. CASE p # Timer
  <2>1. calls \in 0 .. MaxCalls /\ calls < MaxCalls /\ calls' = calls + 1 /\ phase' = phase
    BY <1>2 DEF Runs, EngTypeOK
  <2>2. calls' \in 0 .. MaxCalls
    BY <2>1, EngagementAssumption
  <2>. QED
    BY <2>1, <2>2 DEF Runs, EngTypeOK
<1>. QED
  BY <1>1, <1>2

LEMMA BeginStep ==
  ASSUME EngInv, NEW p \in Procs, NEW op \in Ops, NEW ids \in SUBSET Drafts, Begin(p, op, ids)
  PROVE  EngInv' /\ NoDraftBack
<1>1. EngTypeOK /\ Runs(p, op)
  BY DEF EngInv, Begin
<1>2. PICK c \in Call : call' = [call EXCEPT ![p] = c] /\ c.step \in {"lock", "page"} /\ c.popped = {}
  <2>1. CASE op = "regen"
    BY <1>1, <2>1, CallValues, EngFacts DEF Begin
  <2>2. CASE op # "regen"
    BY <2>2, CallValues DEF Begin
  <2>. QED
    BY <2>1, <2>2
<1>3. call' \in [Procs -> Call] /\ call'[p] = c /\ Others(p)
  BY <1>1, <1>2, EngFacts, Replaced
<1>4. UNCHANGED <<queue, ledger, lock, page, tmp, refill, hour, deaths, drafted, screened, torn, told, dms, cause>>
  BY DEF Begin
<1>5. EngTypeOK'
  BY <1>1, <1>3, <1>4, RunsType DEF EngTypeOK
<1>. QED
  BY <1>2, <1>3, <1>4, <1>5, FreeStep DEF Holds

LEMMA PausedStep ==
  ASSUME EngInv, NEW p \in Procs, NEW op \in Ops, Paused(p, op)
  PROVE  EngInv' /\ NoDraftBack
<1>1. EngTypeOK /\ Runs(p, op)
  BY DEF EngInv, Paused
<1>2. /\ UNCHANGED <<queue, ledger, lock, call, page, tmp, refill, hour, deaths, drafted, screened, torn, told, dms>>
      /\ cause' \in Causes
  BY <1>1 DEF Paused, EngTypeOK, Causes
<1>3. EngTypeOK'
  BY <1>1, <1>2, RunsType DEF EngTypeOK
<1>. QED
  BY <1>2, <1>3, StillStep

LEMMA SaysType ==
  ASSUME EngTypeOK, NEW p, NEW took \in BOOLEAN, Says(p, took)
  PROVE  dms' \in Nat /\ cause' \in Causes
BY DEF EngTypeOK, Says, Causes

LEMMA ChooseStep ==
  ASSUME EngInv, NEW p \in Procs, NEW op \in Ops, NEW reports \in BOOLEAN, Choose(p, op, reports)
  PROVE  EngInv' /\ NoDraftBack
<1>1. EngTypeOK /\ Runs(p, op)
  BY DEF EngInv, Choose
<1>2. PICK ids \in Choices(ReadQueue(queue), op) :
        /\ call' = IF ids = {} THEN call
                   ELSE [call EXCEPT ![p] = [Idle EXCEPT !.op = op, !.step = "lock", !.ids = ids]]
        /\ (\E took \in BOOLEAN : Says(p, took)) \/ UNCHANGED <<dms, cause>>
  BY DEF Choose
<1>3. /\ UNCHANGED <<queue, ledger, lock, page, tmp, refill, hour, deaths, drafted, screened, torn, told>>
      /\ dms' \in Nat /\ cause' \in Causes
  <2>1. dms' \in Nat /\ cause' \in Causes
    BY <1>1, <1>2, SaysType DEF EngTypeOK
  <2>. QED
    BY <2>1 DEF Choose
<1>4. CASE ids = {}
  <2>1. call' = call
    BY <1>2, <1>4
  <2>2. EngTypeOK'
    BY <1>1, <1>3, <2>1, RunsType DEF EngTypeOK
  <2>. QED
    BY <1>3, <2>1, <2>2, StillStep
<1>5. CASE ids # {}
  <2>1. PICK c \in Call : call' = [call EXCEPT ![p] = c] /\ c.step = "lock" /\ c.popped = {}
    BY <1>2, <1>5, ChoicesQueued, CallValues
  <2>2. call' \in [Procs -> Call] /\ call'[p] = c /\ Others(p)
    BY <1>1, <2>1, EngFacts, Replaced
  <2>3. EngTypeOK'
    BY <1>1, <1>3, <2>2, RunsType DEF EngTypeOK
  <2>. QED
    BY <1>3, <2>1, <2>2, <2>3, FreeStep DEF Holds
<1>. QED
  BY <1>4, <1>5

LEMMA LockStep ==
  ASSUME EngInv, NEW p \in Procs, Lock(p)
  PROVE  EngInv' /\ NoDraftBack
<1>1. EngTypeOK /\ lock = "none" /\ lock' = p
  BY DEF EngInv, Lock
<1>2. PICK c \in Call : /\ call' = [call EXCEPT ![p] = c]
                        /\ c.step = "edit" /\ c.entries = ReadQueue(queue) /\ c.popped = call[p].popped
  <2>1. call[p] \in Call /\ ReadQueue(queue) \in Entries /\ call \in [Procs -> Call]
    BY <1>1, EngFacts
  <2>2. call' = [call EXCEPT ![p] = [call[p] EXCEPT !.step = "edit", !.entries = ReadQueue(queue)]]
    BY <2>1 DEF Lock, Call
  <2>. DEFINE r == [call[p] EXCEPT !.step = "edit", !.entries = ReadQueue(queue)]
  <2>3. r \in Call /\ r.step = "edit" /\ r.entries = ReadQueue(queue) /\ r.popped = call[p].popped
    BY <2>1 DEF Call
  <2>. HIDE DEF r
  <2>4. call' = [call EXCEPT ![p] = r]
    BY <2>2 DEF r
  <2>. QED
    BY <2>3, <2>4
<1>3. call' \in [Procs -> Call] /\ call'[p] = c /\ Others(p)
  BY <1>1, <1>2, EngFacts, Replaced
<1>4. /\ UNCHANGED <<queue, ledger, page, tmp, refill, hour, phase, calls, deaths, drafted, screened, torn>>
      /\ UNCHANGED <<told, dms, cause>>
  BY DEF Lock
<1>5. EngTypeOK'
  BY <1>1, <1>3, <1>4 DEF EngTypeOK
<1>. QED
  BY <1>1, <1>2, <1>3, <1>4, <1>5, QuietStep

LEMMA RecordStep ==
  ASSUME EngInv, NEW p \in Procs, Record(p)
  PROVE  EngInv' /\ NoDraftBack
<1>1. EngTypeOK /\ Holds(p) /\ lock = p /\ lock' = lock
  BY DEF EngInv, EntriesCurrent, Record, Editing, Holds
<1>2. PICK c \in Call : /\ call' = [call EXCEPT ![p] = c] /\ c.step = "write"
                        /\ c.entries = call[p].entries /\ c.ids = call[p].ids /\ c.popped = call[p].popped
  <2>1. call[p] \in Call /\ call \in [Procs -> Call] /\ ReadQueue(queue) \in Entries
    BY <1>1, EngFacts
  <2>. DEFINE r == [call[p] EXCEPT !.step = "write"]
  <2>2. r \in Call /\ r.step = "write" /\ r.entries = call[p].entries /\ r.ids = call[p].ids
        /\ r.popped = call[p].popped
    BY <2>1 DEF Call
  <2>3. call' = [call EXCEPT ![p] = r]
    BY DEF Record
  <2>. HIDE DEF r
  <2>. QED
    BY <2>2, <2>3
<1>3. call' \in [Procs -> Call] /\ call'[p] = c /\ Others(p)
  BY <1>1, <1>2, EngFacts, Replaced
<1>4. /\ UNCHANGED <<queue, page, tmp, refill, hour, phase, calls, deaths, drafted, screened, torn>>
      /\ UNCHANGED <<told, dms, cause>>
  BY DEF Record
<1>5. ledger' = ledger \cup (call[p].ids \cap Having(call[p].entries, Statuses))
  BY DEF Record
<1>6. ledger' \subseteq Drafts
  BY <1>1, <1>5 DEF EngTypeOK, Having
<1>7. EngTypeOK'
  BY <1>1, <1>3, <1>4, <1>6 DEF EngTypeOK
<1>. QED
  BY <1>1, <1>2, <1>3, <1>4, <1>5, <1>7, QuietStep

(* write_queue_atomic under the lock.                                      *)
LEMMA Committed ==
  ASSUME EngInv, NEW p \in Procs, Holds(p), NEW F \in Entries, NEW P \in SUBSET Drafts,
         NEW next \in {"page", "idle"}, Commit(p, F, P, next), ledger' = ledger,
         cause' \in Causes, screened' \subseteq Drafts, torn' \subseteq Drafts,
         Forward(call[p].entries, F),
         \A d \in P : call[p].entries[d].status = "queued" /\ F[d].status = "pending_review",
         \A d \in Drafts : F[d].status = "posted" => call[p].entries[d].status = "posted" \/ d \in ledger
  PROVE  EngInv' /\ NoDraftBack
<1>1. EngTypeOK
  BY DEF EngInv
<1>2. PICK c \in Call : /\ call' = [call EXCEPT ![p] = c]
                        /\ c.step \notin {"edit", "write"} /\ c.popped \subseteq P
  <2>1. call[p] \in Call
    BY <1>1, EngFacts
  <2>2. CASE next = "idle"
    BY <2>2, CallValues DEF Commit
  <2>3. CASE next = "page"
    <3>. DEFINE r == [call[p] EXCEPT !.entries = F, !.popped = P, !.ids = {}, !.step = "page"]
    <3>1. call' = [call EXCEPT ![p] = r]
      BY <2>3 DEF Commit
    <3>2. r \in Call /\ r.step = "page" /\ r.popped = P
      BY <2>1 DEF Call
    <3>. HIDE DEF r
    <3>. QED
      BY <3>1, <3>2
  <2>. QED
    BY <2>2, <2>3
<1>3. call' \in [Procs -> Call] /\ call'[p] = c /\ Others(p)
  BY <1>1, <1>2, EngFacts, Replaced
<1>4. /\ UNCHANGED <<page, tmp, refill, hour, phase, calls, deaths, drafted, told, dms>>
      /\ queue' = FileOf(F) /\ lock' = "none"
  BY DEF Commit
<1>5. queue' \in [Drafts -> SUBSET Row]
  BY <1>4, ReadBack
<1>6. EngTypeOK'
  BY <1>1, <1>3, <1>4, <1>5 DEF EngTypeOK
<1>. QED
  BY <1>2, <1>3, <1>4, <1>6, CommitStep DEF Holds

LEMMA Stages ==
  ASSUME NEW E \in Entries, NEW d \in Drafts
  PROVE  /\ E[d].status \in Statuses \cup {"none"} /\ Rank(E[d].status) \in 0 .. 6
         /\ Stage(E[d].status) \in 0 .. 4 /\ (E[d] = NoRow <=> E[d].status = "none")
<1>0. E[d] \in Row \/ E[d] = NoRow
  BY DEF Entries
<1>1. E[d].status \in Statuses \cup {"none"} /\ (E[d] = NoRow <=> E[d].status = "none")
  <2>1. CASE E[d] \in Row
    <3>1. E[d].status \in Statuses /\ E[d].status # "none"
      BY <2>1 DEF Row, Statuses
    <3>. QED
      BY <3>1 DEF NoRow
  <2>2. CASE E[d] = NoRow
    BY <2>2 DEF NoRow
  <2>. QED
    BY <1>0, <2>1, <2>2
<1>2. Rank(E[d].status) \in 0 .. 6
  BY <1>1, Ranks, StatusRank
<1>3. Stage(E[d].status) \in 0 .. 4
  BY <1>2 DEF Stage
<1>. QED
  BY <1>1, <1>2, <1>3

(* Setting a status moves forward if its stage is not below the old ones.  *)
Onward(from, to) == \A s \in from : Rank(s) >= 2 => Stage(to) >= Stage(s)

LEMMA SetForward ==
  ASSUME NEW E \in Entries, NEW ids, NEW from \in SUBSET Statuses, NEW to \in Statuses, hour \in 0 .. MaxHour,
         Onward(from, to)
  PROVE  Forward(E, SetStatus(E, ids, from, to))
<1>. DEFINE F == SetStatus(E, ids, from, to)
<1>0. Sets(E, F, ids, from, to)
  BY SetStatusType
<1>. HIDE DEF F
<1>1. \A d \in Drafts : \/ F[d] = E[d]
                        \/ E[d].status \in from /\ F[d].status = to
  BY <1>0 DEF Sets
<1>2. ASSUME NEW d \in Drafts PROVE E[d] = NoRow => F[d] = NoRow
  <2>1. E[d] = NoRow => E[d].status \notin from
    BY DEF NoRow, Statuses
  <2>. QED
    BY <1>1, <2>1
<1>3. ASSUME NEW d \in Drafts, Rank(E[d].status) >= 2 PROVE Stage(F[d].status) >= Stage(E[d].status)
  <2>1. Stage(E[d].status) \in 0 .. 4
    BY Stages
  <2>2. CASE F[d] = E[d]
    BY <2>1, <2>2
  <2>3. CASE E[d].status \in from /\ F[d].status = to
    BY <1>3, <2>3 DEF Onward
  <2>. QED
    BY <1>1, <2>2, <2>3
<1>4. Forward(E, F)
  BY <1>2, <1>3 DEF Forward
<1>. QED
  BY <1>4 DEF F

LEMMA LastStages ==
  /\ Stage("posted") = 4 /\ Stage("failed") = 4 /\ Stage("declined") = 4
  /\ Stage("approved") = 3 /\ Stage("pending_review") = 2
  /\ \A s \in Statuses : Stage(s) \in 1 .. 4
BY Ranks, StatusRank DEF Stage, Statuses

LEMMA ForwardTwice ==
  ASSUME NEW E \in Entries, NEW F \in Entries, NEW G \in Entries, Forward(E, F), Forward(F, G)
  PROVE  Forward(E, G)
<1>1. \A d \in Drafts : E[d] = NoRow => G[d] = NoRow
  BY DEF Forward
<1>2. ASSUME NEW d \in Drafts, Rank(E[d].status) >= 2 PROVE Stage(G[d].status) >= Stage(E[d].status)
  <2>1. /\ Rank(E[d].status) \in 0 .. 6 /\ Rank(F[d].status) \in 0 .. 6
        /\ Stage(E[d].status) \in 0 .. 4 /\ Stage(F[d].status) \in 0 .. 4 /\ Stage(G[d].status) \in 0 .. 4
    BY Stages
  <2>2. Stage(F[d].status) >= Stage(E[d].status)
    BY <1>2 DEF Forward
  <2>3. Stage(E[d].status) >= 2
    BY <1>2, <2>1 DEF Stage
  <2>4. Stage(F[d].status) >= 2
    BY <2>1, <2>2, <2>3
  <2>5. Rank(F[d].status) >= 2
    BY <2>1, <2>4 DEF Stage
  <2>6. Stage(G[d].status) >= Stage(F[d].status)
    BY <2>5 DEF Forward
  <2>. QED
    BY <2>1, <2>2, <2>6
<1>. QED
  BY <1>1, <1>2 DEF Forward

(* Dropping queued drafts moves none back.                                 *)
LEMMA DropForward ==
  ASSUME NEW E \in Entries, NEW ids \in SUBSET Having(E, {"queued"})
  PROVE  /\ Without(E, ids) \in Entries /\ Forward(E, Without(E, ids))
         /\ \A d \in Drafts : Without(E, ids)[d].status = "posted" => E[d].status = "posted"
<1>1. /\ \A d \in Drafts : Without(E, ids)[d] = NoRow \/ Without(E, ids)[d] = E[d]
      /\ \A d \in Drafts : Without(E, ids)[d] = E[d] \/ E[d].status = "queued"
      /\ Without(E, ids) \in Entries
  BY DEF Without, Having, Entries
<1>2. \A d \in Drafts : Stage(E[d].status) \in 0 .. 4 /\ ~ (Rank("queued") >= 2)
  BY Stages, Ranks
<1>3. ASSUME NEW d \in Drafts, Rank(E[d].status) >= 2
      PROVE  Stage(Without(E, ids)[d].status) >= Stage(E[d].status)
  <2>1. Without(E, ids)[d] = E[d]
    BY <1>1, <1>2, <1>3
  <2>. QED
    BY <1>2, <2>1
<1>4. \A d \in Drafts : Without(E, ids)[d].status = "posted" => E[d].status = "posted"
  BY <1>1 DEF NoRow
<1>. QED
  BY <1>1, <1>3, <1>4 DEF Forward

LEMMA Holder ==
  ASSUME EngInv, NEW p \in Procs
  PROVE  /\ EngTypeOK /\ call[p] \in Call /\ call[p].entries \in Entries /\ call[p].ids \subseteq Drafts
         /\ call[p].popped \subseteq Drafts /\ hour \in 0 .. MaxHour
         /\ screened \subseteq Drafts /\ torn \subseteq Drafts /\ cause \in Causes
         /\ Holds(p) => lock = p
         /\ call[p].step = "write" => call[p].ids \cap Having(call[p].entries, Statuses) \subseteq ledger
<1>1. EngTypeOK /\ EntriesCurrent /\ RecordOK /\ call[p] \in Call
  BY EngFacts DEF EngInv
<1>. QED
  BY <1>1 DEF EngTypeOK, Call, EntriesCurrent, RecordOK

(* A command that sets one status, other than posted.                      *)
LEMMA SetStep ==
  ASSUME EngInv, NEW p \in Procs, Holds(p), NEW ids, NEW from \in SUBSET Statuses,
         NEW to \in Statuses \ {"posted"}, Onward(from, to),
         NEW P \in SUBSET ids, P \subseteq Having(call[p].entries, from), P = {} \/ (from = {"queued"} /\ to = "pending_review"),
         Commit(p, SetStatus(call[p].entries, ids, from, to), P, "page"),
         ledger' = ledger, UNCHANGED <<cause, screened, torn>>
  PROVE  EngInv' /\ NoDraftBack
<1>. DEFINE E == call[p].entries
            F == SetStatus(E, ids, from, to)
<1>1. E \in Entries /\ hour \in 0 .. MaxHour
  BY Holder
<1>2. Sets(E, F, ids, from, to)
  BY <1>1, SetStatusType
<1>3. Forward(E, F)
  BY <1>1, SetForward
<1>4. Commit(p, F, P, "page")
  OBVIOUS
<1>. HIDE DEF F
<1>5. P \in SUBSET Drafts /\ \A d \in P : E[d].status \in from
  BY DEF Having
<1>6. \A d \in P : E[d].status = "queued" /\ F[d].status = "pending_review"
  BY <1>2, <1>5 DEF Sets
<1>7. \A d \in Drafts : F[d].status = "posted" => E[d].status = "posted" \/ d \in ledger
  BY <1>2 DEF Sets
<1>8. cause' \in Causes /\ screened' \subseteq Drafts /\ torn' \subseteq Drafts
  BY Holder
<1>9. F \in Entries /\ P \in SUBSET Drafts /\ "page" \in {"page", "idle"}
  BY <1>2, <1>5 DEF Sets
<1>. QED
  BY <1>3, <1>4, <1>6, <1>7, <1>8, <1>9, Committed

(* drip and drip_hybrid announce what is queued still.                     *)
LEMMA PopManyStep ==
  ASSUME EngInv, NEW p \in Procs, PopDrip(p) \/ PopHybrid(p)
  PROVE  EngInv' /\ NoDraftBack
<1>. DEFINE E == call[p].entries
            P == StillQueued(E, call[p].ids)
<1>1. Holds(p) /\ ledger' = ledger /\ UNCHANGED <<cause, screened, torn>>
  BY DEF PopDrip, PopHybrid, Editing, Holds
<1>2. Commit(p, SetStatus(E, P, {"queued"}, "pending_review"), P, "page")
  BY DEF PopDrip, PopHybrid, Release
<1>3. P \subseteq Having(E, {"queued"}) /\ {"queued"} \in SUBSET Statuses
      /\ "pending_review" \in Statuses \ {"posted"} /\ P \in SUBSET P
  BY DEF StillQueued, Statuses
<1>4. Onward({"queued"}, "pending_review")
  BY Ranks DEF Onward
<1>. HIDE DEF P
<1>. QED
  BY <1>1, <1>2, <1>3, <1>4, SetStep

LEMMA PopSingleStep ==
  ASSUME EngInv, NEW p \in Procs, PopSingle(p)
  PROVE  EngInv' /\ NoDraftBack
<1>1. Holds(p) /\ ledger' = ledger /\ UNCHANGED <<screened, torn>>
  BY DEF PopSingle, Holds
<1>2. PICK ids \in Choices(call[p].entries, call[p].op) :
        \/ ids # {} /\ Release(p, ids) /\ UNCHANGED cause
        \/ /\ ids = {} /\ lock' = "none" /\ call' = [call EXCEPT ![p] = Idle]
           /\ cause' = IF p = Timer THEN "raced" ELSE cause
           /\ UNCHANGED <<queue, review, refill, time, bounds, drafted, told, dms>>
  BY DEF PopSingle
<1>3. CASE Release(p, ids) /\ UNCHANGED cause
  <2>1. ids \subseteq Having(call[p].entries, {"queued"}) /\ {"queued"} \in SUBSET Statuses
        /\ "pending_review" \in Statuses \ {"posted"} /\ ids \in SUBSET ids
    BY ChoicesQueued DEF Statuses
  <2>2. Onward({"queued"}, "pending_review")
    BY Ranks DEF Onward
  <2>. QED
    BY <1>1, <1>3, <2>1, <2>2, SetStep DEF Release
<1>4. CASE /\ ids = {} /\ lock' = "none" /\ call' = [call EXCEPT ![p] = Idle]
           /\ cause' = IF p = Timer THEN "raced" ELSE cause
           /\ UNCHANGED <<queue, review, refill, time, bounds, drafted, told, dms>>
  <2>1. EngTypeOK /\ lock = p
    BY <1>1, Holder
  <2>2. call' \in [Procs -> Call] /\ call'[p] = Idle /\ Others(p)
    BY <1>4, <2>1, EngFacts, CallValues, Replaced
  <2>3. cause' \in Causes
    BY <1>4, Holder DEF Causes
  <2>4. EngTypeOK'
    BY <1>1, <1>4, <2>1, <2>2, <2>3 DEF EngTypeOK
  <2>. QED
    BY <1>1, <1>4, <2>1, <2>2, <2>4, CallValues, FreeStep DEF Holds
<1>. QED
  BY <1>2, <1>3, <1>4

LEMMA ApproveStep ==
  ASSUME EngInv, NEW p \in Procs, Approve(p)
  PROVE  EngInv' /\ NoDraftBack
<1>1. Holds(p) /\ ledger' = ledger /\ UNCHANGED <<cause, screened, torn>>
  BY DEF Approve, Holds
<1>2. PICK ids : Commit(p, SetStatus(call[p].entries, ids, {"pending_review"}, "approved"), {}, "page")
  BY DEF Approve
<1>3. /\ {} \subseteq Having(call[p].entries, {"pending_review"}) /\ {"pending_review"} \in SUBSET Statuses
      /\ "approved" \in Statuses \ {"posted"} /\ {} \in SUBSET ids
  BY DEF Statuses
<1>4. Onward({"pending_review"}, "approved")
  BY LastStages DEF Onward
<1>. QED
  BY <1>1, <1>2, <1>3, <1>4, SetStep

LEMMA CloseStep ==
  ASSUME EngInv, NEW p \in Procs, PostedError(p) \/ Decline(p)
  PROVE  EngInv' /\ NoDraftBack
<1>1. Holds(p) /\ ledger' = ledger /\ UNCHANGED <<cause, screened, torn>>
  BY DEF PostedError, Decline, Editing, Holds
<1>2. PICK ids : \/ Commit(p, SetStatus(call[p].entries, ids, Statuses, "failed"), {}, "page")
                \/ Commit(p, SetStatus(call[p].entries, ids, Statuses, "declined"), {}, "page")
  BY DEF PostedError, Decline
<1>3. ASSUME NEW from \in SUBSET Statuses, NEW to \in Statuses \ {"posted"}, Stage(to) = 4,
             Commit(p, SetStatus(call[p].entries, ids, from, to), {}, "page")
      PROVE  EngInv' /\ NoDraftBack
  <2>1. Onward(from, to)
    BY <1>3, LastStages DEF Onward
  <2>2. {} \subseteq Having(call[p].entries, from) /\ {} \in SUBSET ids
    OBVIOUS
  <2>3. Commit(p, SetStatus(call[p].entries, ids, from, to), {}, "page")
    BY <1>3
  <2>. QED
    BY <1>1, <2>1, <2>2, <2>3, SetStep, ZenonT(60)
<1>4. Statuses \in SUBSET Statuses
  OBVIOUS
<1>5. "failed" \in Statuses \ {"posted"} /\ "declined" \in Statuses \ {"posted"}
  BY DEF Statuses
<1>. QED
  BY <1>2, <1>3, <1>4, <1>5, LastStages

(* mark_posted: what it posts is in the ledger, the other drafts on the    *)
(* target are declined.                                                    *)
LEMMA PostedStep ==
  ASSUME EngInv, NEW p \in Procs, Posted(p)
  PROVE  EngInv' /\ NoDraftBack
<1>. DEFINE E == call[p].entries
            ids == call[p].ids \cap Having(E, Statuses)
            M == SetStatus(E, ids, Statuses, "posted")
            dups == {d \in Drafts \ ids : \E e \in ids : TargetsMatch(d, e)}
            F == SetStatus(M, dups, Active, "declined")
<1>0. Holds(p) /\ E \in Entries /\ hour \in 0 .. MaxHour /\ ids \subseteq ledger
  BY Holder DEF Posted, Holds
<1>1. F = MarkPosted(E, ids)
  BY DEF MarkPosted
<1>2. Commit(p, F, {}, "page") /\ torn' = torn \ ids /\ UNCHANGED <<ledger, cause, screened>>
  BY DEF Posted, MarkPosted
<1>. HIDE DEF dups, ids
<1>3. Sets(E, M, ids, Statuses, "posted") /\ Forward(E, M)
  <2>1. "posted" \in Statuses /\ Onward(Statuses, "posted")
    BY LastStages DEF Statuses, Onward
  <2>. QED
    BY <1>0, <2>1, SetStatusType, SetForward
<1>4. M \in Entries
  BY <1>3 DEF Sets
<1>. HIDE DEF M
<1>5. Sets(M, F, dups, Active, "declined") /\ Forward(M, F)
  <2>1. "declined" \in Statuses /\ Active \in SUBSET Statuses
        /\ Onward(Active, "declined")
    BY LastStages DEF Statuses, Active, Onward
  <2>. QED
    BY <1>0, <1>4, <2>1, SetStatusType, SetForward
<1>. HIDE DEF F
<1>6. F \in Entries
  BY <1>5 DEF Sets
<1>7. Forward(E, F)
  BY <1>0, <1>3, <1>4, <1>5, <1>6, ForwardTwice
<1>8. \A d \in Drafts : F[d].status = "posted" => E[d].status = "posted" \/ d \in ledger
  BY <1>0, <1>3, <1>5 DEF Sets
<1>9. cause' \in Causes /\ screened' \subseteq Drafts /\ torn' \subseteq Drafts /\ ledger' = ledger
  BY <1>2, Holder
<1>10. {} \in SUBSET Drafts /\ "page" \in {"page", "idle"}
  OBVIOUS
<1>11. Commit(p, F, {}, "page")
  BY <1>2
<1>. QED
  BY <1>0, <1>6, <1>7, <1>8, <1>9, <1>10, <1>11, Committed

(* The purge and the dedup drop queued drafts only.                        *)
LEMMA DropStep ==
  ASSUME EngInv, NEW p \in Procs, Purge(p) \/ Dedup(p)
  PROVE  EngInv' /\ NoDraftBack
<1>. DEFINE E == call[p].entries
<1>1. /\ Holds(p) /\ ledger' = ledger /\ UNCHANGED <<cause, torn>>
      /\ screened' = screened \/ screened' = screened \cup Kept(E)
  BY DEF Purge, Dedup, Editing, Holds
<1>2. Kept(E) \subseteq Drafts
  BY DEF Kept, FreshQueued, Having
<1>3. PICK ids \in SUBSET Having(E, {"queued"}) : Commit(p, Without(E, ids), {}, "idle")
  <2>1. Purged(E) \subseteq Having(E, {"queued"}) /\ Duplicates(E) \subseteq Having(E, {"queued"})
    BY DEF Purged, Duplicates, FreshQueued
  <2>. QED
    BY <2>1 DEF Purge, Dedup
<1>4. E \in Entries
  BY Holder
<1>5. /\ Without(E, ids) \in Entries /\ Forward(E, Without(E, ids))
      /\ \A d \in Drafts : Without(E, ids)[d].status = "posted" => E[d].status = "posted" \/ d \in ledger
  BY <1>4, DropForward
<1>6. cause' \in Causes /\ screened' \subseteq Drafts /\ torn' \subseteq Drafts
  BY <1>1, <1>2, Holder
<1>7. {} \in SUBSET Drafts /\ "idle" \in {"page", "idle"}
  OBVIOUS
<1>. QED
  BY <1>1, <1>3, <1>5, <1>6, <1>7, Committed

LEMMA BackfillStep ==
  ASSUME EngInv, NEW p \in Procs, Backfill(p)
  PROVE  EngInv' /\ NoDraftBack
<1>1. EngTypeOK /\ lock = p
  BY Holder DEF Backfill, Editing, Holds
<1>2. /\ UNCHANGED <<queue, page, tmp, refill, hour, phase, calls, deaths, drafted, screened, torn>>
      /\ UNCHANGED <<told, dms, cause>>
      /\ ledger' = ledger \cup Having(call[p].entries, {"posted"})
      /\ lock' = "none" /\ call' = [call EXCEPT ![p] = Idle]
  BY DEF Backfill
<1>3. call' \in [Procs -> Call] /\ call'[p] = Idle /\ Others(p)
  BY <1>1, <1>2, EngFacts, CallValues, Replaced
<1>4. ledger' \subseteq Drafts
  BY <1>1, <1>2 DEF EngTypeOK, Having
<1>5. EngTypeOK'
  BY <1>1, <1>2, <1>3, <1>4 DEF EngTypeOK
<1>. QED
  BY <1>1, <1>2, <1>3, <1>5, CallValues, FreeStep DEF Holds

(* The steps after the lock: the page, REFILL_NEEDED and the DM.           *)
LEMMA GotoCall ==
  ASSUME EngInv, NEW p \in Procs, NEW step \in {"refill", "dm", "idle"}, Goto(p, step)
  PROVE  call' \in [Procs -> Call] /\ Others(p) /\ call'[p].popped \subseteq call[p].popped /\ ~Holds(p)'
<1>. DEFINE E == IF step = "dm" THEN Nothing ELSE call[p].entries
            r == [call[p] EXCEPT !.step = step, !.entries = IF step = "dm" THEN Nothing ELSE @]
<1>1. call[p] \in Call /\ E \in Entries /\ call \in [Procs -> Call]
  BY Holder, CallValues, EngFacts
<1>2. step # "idle" => r \in Call /\ r.step = step /\ r.popped = call[p].popped
  BY <1>1 DEF Call
<1>3. call' = [call EXCEPT ![p] = IF step = "idle" THEN Idle ELSE r]
  BY DEF Goto
<1>. HIDE DEF r
<1>4. PICK c \in Call : call' = [call EXCEPT ![p] = c] /\ c.step = step /\ c.popped \subseteq call[p].popped
  BY <1>2, <1>3, CallValues
<1>. QED
  BY <1>1, <1>4, Replaced DEF Holds

LEMMA AfterPageStep ==
  ASSUME NEW op
  PROVE  AfterPage(op) \in {"refill", "dm", "idle"}
BY DEF AfterPage

LEMMA WriteTmpStep ==
  ASSUME EngInv, NEW p \in Procs, WriteTmp(p)
  PROVE  EngInv' /\ NoDraftBack
<1>1. EngTypeOK /\ call[p] \in Call
  BY Holder
<1>. DEFINE E == IF AfterPage(call[p].op) = "refill" THEN call[p].entries ELSE Nothing
            r == [call[p] EXCEPT !.step = "swap", !.entries = E]
<1>2. E \in Entries
  BY Holder, CallValues
<1>3. call' = [call EXCEPT ![p] = r]
  BY <1>1, EngFacts DEF WriteTmp, Call
<1>. HIDE DEF E
<1>4. r \in Call /\ r.step = "swap" /\ r.popped = call[p].popped
  BY <1>1, <1>2 DEF Call
<1>. HIDE DEF r
<1>5. call' \in [Procs -> Call] /\ call'[p] = r /\ Others(p)
  BY <1>1, <1>3, <1>4, EngFacts, Replaced
<1>6. /\ UNCHANGED <<queue, ledger, lock, page, refill, hour, phase, calls, deaths, drafted, screened, torn>>
      /\ UNCHANGED <<told, dms, cause>> /\ tmp' = ReviewBody(call[p].entries)
  BY DEF WriteTmp
<1>7. EngTypeOK'
  BY <1>1, <1>5, <1>6, ReviewType DEF EngTypeOK
<1>. QED
  BY <1>4, <1>5, <1>6, <1>7, FreeStep DEF Holds

LEMMA SwapPageStep ==
  ASSUME EngInv, NEW p \in Procs, SwapPage(p)
  PROVE  EngInv' /\ NoDraftBack
<1>1. EngTypeOK
  BY Holder
<1>2. call' \in [Procs -> Call] /\ Others(p) /\ call'[p].popped \subseteq call[p].popped /\ ~Holds(p)'
  BY AfterPageStep, GotoCall DEF SwapPage
<1>3. /\ UNCHANGED <<queue, ledger, lock, refill, hour, phase, calls, deaths, drafted, screened, torn>>
      /\ UNCHANGED <<told, dms, cause>>
      /\ tmp' \in {<<>>, tmp} /\ (page' = page \/ (tmp # <<>> /\ page' = tmp))
  BY DEF SwapPage
<1>4. EngTypeOK'
  BY <1>1, <1>2, <1>3 DEF EngTypeOK
<1>. QED
  BY <1>2, <1>3, <1>4, FreeStep

LEMMA RefillStep ==
  ASSUME EngInv, NEW p \in Procs, Refill(p)
  PROVE  EngInv' /\ NoDraftBack
<1>1. EngTypeOK
  BY Holder
<1>2. call' \in [Procs -> Call] /\ Others(p) /\ call'[p].popped \subseteq call[p].popped /\ ~Holds(p)'
  BY GotoCall DEF Refill
<1>3. /\ UNCHANGED <<queue, ledger, lock, page, tmp, hour, phase, calls, deaths, drafted, screened, torn>>
      /\ UNCHANGED <<told, dms, cause>>
      /\ refill' = (Cardinality(Having(call[p].entries, {"queued"})) < Threshold)
  BY DEF Refill
<1>4. refill' \in BOOLEAN
  BY <1>3
<1>5. EngTypeOK'
  BY <1>1, <1>2, <1>3, <1>4 DEF EngTypeOK
<1>. QED
  BY <1>2, <1>3, <1>5, FreeStep

(* The DM spends what was popped.                                          *)
LEMMA TellStep ==
  ASSUME EngInv, NEW p \in Procs, Tell(p)
  PROVE  EngInv' /\ NoDraftBack
<1>1. EngTypeOK /\ AnnouncedOK /\ \A d \in Drafts : Status(d)' = Status(d)
  BY DEF EngInv, Tell, Status
<1>2. call' = [call EXCEPT ![p] = Idle]
  BY DEF Tell, Goto
<1>3. call' \in [Procs -> Call] /\ call'[p] = Idle /\ Others(p)
  BY <1>1, <1>2, EngFacts, CallValues, Replaced
<1>4. call'[p].popped = {} /\ ~Holds(p)' /\ call'[p].step # "write"
  BY <1>3, CallValues DEF Holds
<1>5. told \in [Drafts -> Nat]
  BY <1>1, EngFacts
<1>0. PICK took \in BOOLEAN :
        /\ Says(p, took)
        /\ told' = [d \in Drafts |-> told[d] + (IF took /\ d \in call[p].popped THEN 1 ELSE 0)]
  BY DEF Tell
<1>6. \A d \in Drafts : told'[d] = told[d] \/ (d \in call[p].popped /\ told'[d] = told[d] + 1)
  BY <1>0, <1>5
<1>7. /\ UNCHANGED <<queue, ledger, lock, page, tmp, refill, hour, phase, calls, deaths, drafted, screened, torn>>
      /\ dms' \in Nat /\ cause' \in Causes /\ told' \in [Drafts -> Nat]
  <2>1. told' \in [Drafts -> Nat]
    BY <1>0, <1>5
  <2>2. dms' \in Nat /\ cause' \in Causes
    BY <1>0, <1>1, SaysType
  <2>. QED
    BY <2>1, <2>2 DEF Tell
<1>8. EngTypeOK'
  BY <1>1, <1>3, <1>7 DEF EngTypeOK
<1>9. EntriesCurrent' /\ RecordOK' /\ NoDraftBack
  BY <1>3, <1>4, <1>7, <1>8, QuietFrame
<1>10. ASSUME NEW d \in Drafts, NEW q \in Procs, d \in call'[q].popped
       PROVE  /\ told'[d] = 0 /\ Rank(Status(d)') >= 2
              /\ \A r \in Procs : d \in call'[r].popped => r = q
  <2>0. q # p
    BY <1>4, <1>10
  <2>1. q # p /\ d \in call[q].popped
    BY <1>3, <1>10, <2>0 DEF Others
  <2>2. told[d] = 0 /\ Rank(Status(d)) >= 2 /\ \A r \in Procs : d \in call[r].popped => r = q
    BY <1>1, <2>1 DEF AnnouncedOK
  <2>3. told'[d] = told[d]
    BY <1>6, <2>1, <2>2
  <2>4. \A r \in Procs : d \in call'[r].popped => d \in call[r].popped
    BY <1>3, <1>4 DEF Others
  <2>. QED
    BY <1>1, <2>2, <2>3, <2>4
<1>11. ASSUME NEW d \in Drafts PROVE told'[d] <= 1 /\ (told'[d] > 0 => Rank(Status(d)') >= 2)
  <2>1. CASE told'[d] = told[d]
    BY <1>1, <2>1 DEF AnnouncedOK
  <2>2. CASE d \in call[p].popped /\ told'[d] = told[d] + 1
    <3>1. told[d] = 0 /\ Rank(Status(d)) >= 2
      BY <1>1, <2>2 DEF AnnouncedOK
    <3>. QED
      BY <1>1, <2>2, <3>1
  <2>. QED
    BY <1>6, <2>1, <2>2
<1>12. AnnouncedOK'
  BY <1>10, <1>11 DEF AnnouncedOK
<1>. QED
  BY <1>8, <1>9, <1>12 DEF EngInv

LEMMA DieStep ==
  ASSUME EngInv, NEW p \in Procs, Die(p)
  PROVE  EngInv' /\ NoDraftBack
<1>1. EngTypeOK /\ call[p] \in Call
  BY Holder
<1>2. call' = [call EXCEPT ![p] = Idle]
  BY DEF Die
<1>3. call' \in [Procs -> Call] /\ call'[p] = Idle /\ Others(p)
  BY <1>1, <1>2, EngFacts, CallValues, Replaced
<1>4. /\ UNCHANGED <<queue, ledger, page, tmp, refill, hour, phase, calls, drafted, screened, told, dms>>
      /\ lock' = (IF lock = p THEN "none" ELSE lock)
  BY DEF Die
<1>5. deaths' \in 0 .. MaxDeaths
  BY <1>1, EngagementAssumption DEF Die, EngTypeOK
<1>6. torn' \subseteq Drafts
  BY <1>1 DEF Die, EngTypeOK
<1>7. cause' \in Causes
  BY Holder DEF Die, Causes
<1>8. lock' \in Procs \cup {"none"}
  BY <1>1, <1>4 DEF EngTypeOK
<1>9. EngTypeOK'
  BY <1>1, <1>3, <1>4, <1>5, <1>6, <1>7, <1>8 DEF EngTypeOK
<1>10. lock' = lock \/ lock \in {"none", p}
  BY <1>4
<1>. QED
  BY <1>3, <1>4, <1>9, <1>10, CallValues, FreeStep DEF Holds
-----------------------------------------------------------------------------
LEMMA WorkStep ==
  ASSUME EngInv, NEW p \in Procs, Work(p)
  PROVE  EngInv' /\ NoDraftBack
<1>1. TellDrip(p) \/ TellHybrid(p) \/ TellSingle(p) => Tell(p)
  BY DEF TellDrip, TellHybrid, TellSingle
<1>. QED
  BY <1>1, LockStep, PopManyStep, PopSingleStep, ApproveStep, RecordStep, PostedStep, CloseStep, DropStep,
     BackfillStep, WriteTmpStep, SwapPageStep, RefillStep, TellStep, Zenon DEF Work

LEMMA StartStep ==
  ASSUME EngInv, NEW p \in Procs, Start(p)
  PROVE  EngInv' /\ NoDraftBack
<1>1. "hybrid" \in Ops /\ Drips \subseteq Ops /\ Singles \subseteq Ops
  BY DEF Ops, Pops
<1>2. LookDrip(p) \/ LookHybrid(p) \/ LookSingle(p) =>
        \E op \in Ops, reports \in BOOLEAN : Choose(p, op, reports)
  BY <1>1 DEF LookDrip, LookHybrid, LookSingle
<1>. QED
  BY <1>2, ChooseStep, PausedStep, BeginStep, Zenon DEF Start

LEMMA EngNext ==
  ASSUME EngInv, Next \/ UNCHANGED vars
  PROVE  EngInv' /\ NoDraftBack
<1>1. UNCHANGED vars => EngInv' /\ NoDraftBack
  <2>1. ASSUME UNCHANGED vars PROVE EngTypeOK' /\ UNCHANGED <<call, queue, ledger, lock, drafted, told>>
    BY <2>1 DEF vars, EngInv, EngTypeOK
  <2>. QED
    BY <2>1, StillStep
<1>2. ASSUME NEW d \in Drafts, Append(d) PROVE EngInv' /\ NoDraftBack
  <2>1. EngTypeOK'
    BY <1>2, AppendType DEF EngInv
  <2>. QED
    BY <1>2, <2>1, AppendStep
<1>. QED
  BY <1>1, <1>2, ClockSteps, StartStep, WorkStep, DieStep, Zenon DEF Next

LEMMA EngInit == Init => EngInv
<1>. SUFFICES ASSUME Init PROVE EngInv
  OBVIOUS
<1>1. queue \in [Drafts -> SUBSET Row] /\ ReadQueue(queue) \in Entries
  BY EngagementAssumption, ReadQueueType DEF Init
<1>2. call = [p \in Procs |-> Idle] /\ \A p \in Procs : call[p].step = "idle" /\ call[p].popped = {}
  BY CallValues DEF Init
<1>3. EngTypeOK
  <2>1. page \in [Drafts -> {"none", "queued", "pending_review"}]
    BY ReviewType DEF Init
  <2>2. call \in [Procs -> Call]
    BY <1>2, CallValues
  <2>3. /\ ledger \subseteq Drafts /\ lock = "none" /\ tmp = <<>> /\ refill = FALSE /\ phase = "idle"
        /\ told \in [Drafts -> Nat] /\ dms = 0 /\ cause = "none"
        /\ screened \subseteq Drafts /\ torn \subseteq Drafts /\ drafted \subseteq Drafts
    BY DEF Init
  <2>4. hour \in 0 .. MaxHour /\ calls \in 0 .. MaxCalls /\ deaths \in 0 .. MaxDeaths
    BY EngagementAssumption DEF Init
  <2>. QED
    BY <1>1, <2>1, <2>2, <2>3, <2>4 DEF EngTypeOK, Causes
<1>4. EntriesCurrent
  BY <1>2 DEF Init, EntriesCurrent, Holds
<1>5. AnnouncedOK
  BY <1>2 DEF Init, AnnouncedOK
<1>6. RecordOK
  <2>1. Having(ReadQueue(queue), {"posted"}) \subseteq Legacy
    BY DEF Init, Having, Legacy
  <2>. QED
    BY <1>2, <2>1 DEF RecordOK, PostedOnRecord
<1>. QED
  BY <1>3, <1>4, <1>5, <1>6 DEF EngInv
-----------------------------------------------------------------------------
(* The hour's DM.  A pop that the timer has under way still owes it, there *)
(* is none before the pop, and after it there is one or a cause.           *)
Popping == call[Timer].step # "idle" /\ call[Timer].op \in Pops
Owing   == dms = 0 /\ cause = "none"
Settled == dms = IF cause = "none" THEN 1 ELSE 0
HourOK ==
  /\ Popping => phase = "end" /\ Owing
  /\ phase \in {"agent", "purge", "dedup", "pop"} => Owing
  /\ ~Popping /\ (phase = "end" \/ (phase = "idle" /\ hour > 0)) => Settled
  /\ dms <= 1

(* How a command's step changes its record, the DMs and the cause: it goes *)
(* on, or it is no pop, or it is one that ends with a DM or a cause.       *)
GoesOn(p) ==
  /\ call'[p].op = call[p].op /\ call[p].step # "idle" /\ call'[p].step # "idle"
  /\ dms' = dms /\ cause' = cause
IsNoPop(p) ==
  /\ call[p].op \notin Pops /\ call'[p].op \notin Pops
  /\ dms' = dms /\ cause' = cause
PopEnds(p) ==
  /\ call[p].op \in Pops /\ call[p].step # "idle" /\ call'[p] = Idle
  /\ p = Timer => \/ dms' = dms + 1 /\ cause' = cause
                  \/ dms' = dms /\ cause' # "none"
  /\ p # Timer => dms' = dms /\ cause' = cause
Hourly(p) ==
  /\ UNCHANGED <<hour, phase>> /\ Others(p)
  /\ GoesOn(p) \/ IsNoPop(p) \/ PopEnds(p)

LEMMA OpKinds ==
  /\ Idle.op \notin Pops /\ Idle.step = "idle" /\ "none" \notin Pops
  /\ Aimed \cap Pops = {} /\ {"approve all", "purge", "dedup", "backfill", "regen"} \cap Pops = {}
  /\ Drips \subseteq Pops /\ Singles \subseteq Pops /\ "hybrid" \in Pops
  /\ Drips \cap Singles = {} /\ "hybrid" \notin Singles
  /\ {"approve", "posted", "posted error", "decline"} \cap Pops = {}
  /\ {"linkedin pool", "x pool", "x fresh"} \subseteq Singles
BY DEF Idle, Pops, Drips, Singles, Aimed

LEMMA HourlyKeeps ==
  ASSUME EngTypeOK, HourOK, NEW p \in Procs, Hourly(p)
  PROVE  HourOK'
<1>1. dms \in Nat /\ Timer \in Procs /\ UNCHANGED <<hour, phase>>
  BY EngFacts DEF EngTypeOK, Hourly
<1>2. CASE p # Timer
  <2>1. call'[Timer] = call[Timer]
    BY <1>1, <1>2 DEF Hourly, Others
  <2>2. dms' = dms /\ cause' = cause
    BY <1>2, Zenon DEF Hourly, GoesOn, IsNoPop, PopEnds
  <2>3. Popping' <=> Popping
    BY <2>1 DEF Popping
  <2>. QED
    BY <1>1, <2>2, <2>3 DEF HourOK, Owing, Settled
<1>3. CASE p = Timer /\ (GoesOn(p) \/ IsNoPop(p))
  <2>1. dms' = dms /\ cause' = cause
    BY <1>3 DEF GoesOn, IsNoPop
  <2>2. Popping' <=> Popping
    BY <1>3 DEF Popping, GoesOn, IsNoPop
  <2>. QED
    BY <1>1, <2>1, <2>2 DEF HourOK, Owing, Settled
<1>4. CASE p = Timer /\ PopEnds(p)
  <2>1. Popping /\ ~Popping'
    BY <1>4, OpKinds DEF Popping, PopEnds
  <2>2. phase' = "end" /\ Owing
    BY <1>1, <2>1 DEF HourOK
  <2>3. Settled' /\ dms' <= 1
    BY <1>4, <2>2 DEF PopEnds, Owing, Settled
  <2>. QED
    BY <2>1, <2>2, <2>3 DEF HourOK
<1>. QED
  BY <1>2, <1>3, <1>4 DEF Hourly

LEMMA ReplacedBy ==
  ASSUME EngTypeOK, NEW p \in Procs, NEW c, call' = [call EXCEPT ![p] = c]
  PROVE  call'[p] = c /\ Others(p) /\ call[p] \in Call
BY EngFacts DEF Others

(* What a command commits to is no matter here, only where it goes on.     *)
LEMMA CommitHourly ==
  ASSUME EngTypeOK, NEW p \in Procs, NEW entries, NEW popped,
         NEW next \in {"page", "idle"}, Commit(p, entries, popped, next), UNCHANGED cause,
         call[p].step # "idle", next = "idle" => call[p].op \notin Pops
  PROVE  Hourly(p)
<1>1. call[p] \in Call /\ UNCHANGED <<hour, phase, dms, cause>>
  BY EngFacts DEF Commit
<1>2. CASE next = "idle"
  <2>1. call' = [call EXCEPT ![p] = Idle]
    BY <1>2 DEF Commit
  <2>2. call'[p] = Idle /\ Others(p)
    BY <2>1, ReplacedBy
  <2>. QED
    BY <1>1, <1>2, <2>2, OpKinds DEF Hourly, IsNoPop
<1>3. CASE next = "page"
  <2>. DEFINE r == [call[p] EXCEPT !.entries = entries, !.popped = popped, !.ids = {}, !.step = next]
  <2>1. r.op = call[p].op /\ r.step = "page"
    BY <1>1, <1>3 DEF Call
  <2>2. call' = [call EXCEPT ![p] = r]
    BY <1>3 DEF Commit
  <2>. HIDE DEF r
  <2>3. call'[p] = r /\ Others(p)
    BY <2>2, ReplacedBy
  <2>. QED
    BY <1>1, <2>1, <2>3 DEF Hourly, GoesOn
<1>. QED
  BY <1>2, <1>3

(* A command that goes on from one step to another.                        *)
LEMMA OnHourly ==
  ASSUME EngTypeOK, NEW p \in Procs, NEW c, call' = [call EXCEPT ![p] = c], c.op = call[p].op,
         call[p].step # "idle", c.step # "idle", UNCHANGED <<hour, phase, dms, cause>>
  PROVE  Hourly(p)
<1>1. call'[p] = c /\ Others(p)
  BY ReplacedBy
<1>. QED
  BY <1>1 DEF Hourly, GoesOn

LEMMA WritesHourly ==
  ASSUME EngTypeOK, NEW p \in Procs,
         PopDrip(p) \/ PopHybrid(p) \/ Approve(p) \/ Posted(p) \/ PostedError(p) \/ Decline(p) \/ Purge(p) \/ Dedup(p)
  PROVE  Hourly(p)
<1>1. call[p].step # "idle" /\ UNCHANGED cause
  BY DEF PopDrip, PopHybrid, Approve, Posted, PostedError, Decline, Purge, Dedup, Editing
<1>2. CASE Purge(p) \/ Dedup(p)
  <2>1. call[p].op \notin Pops
    BY <1>2, OpKinds DEF Purge, Dedup, Editing
  <2>2. PICK entries : Commit(p, entries, {}, "idle")
    BY <1>2 DEF Purge, Dedup
  <2>. QED
    BY <1>1, <2>1, <2>2, CommitHourly
<1>3. CASE ~(Purge(p) \/ Dedup(p))
  <2>1. \E entries, popped : Commit(p, entries, popped, "page")
    BY <1>3 DEF PopDrip, PopHybrid, Release, Approve, Posted, PostedError, Decline
  <2>2. PICK entries : \E popped : Commit(p, entries, popped, "page")
    BY <2>1
  <2>3. PICK popped : Commit(p, entries, popped, "page")
    BY <2>2
  <2>. QED
    BY <1>1, <2>3, CommitHourly
<1>. QED
  BY <1>2, <1>3

LEMMA PopSingleHourly ==
  ASSUME EngTypeOK, NEW p \in Procs, PopSingle(p)
  PROVE  Hourly(p)
<1>1. call[p].step # "idle" /\ call[p].op \in Pops
  BY OpKinds DEF PopSingle
<1>2. PICK ids :
        \/ Release(p, ids) /\ UNCHANGED cause
        \/ /\ call' = [call EXCEPT ![p] = Idle] /\ cause' = IF p = Timer THEN "raced" ELSE cause
           /\ UNCHANGED <<time, dms>>
  BY DEF PopSingle
<1>3. CASE Release(p, ids) /\ UNCHANGED cause
  <2>1. PICK entries : Commit(p, entries, ids, "page")
    BY <1>3 DEF Release
  <2>. QED
    BY <1>1, <1>3, <2>1, CommitHourly
<1>4. CASE /\ call' = [call EXCEPT ![p] = Idle] /\ cause' = IF p = Timer THEN "raced" ELSE cause
           /\ UNCHANGED <<time, dms>>
  <2>1. call'[p] = Idle /\ Others(p)
    BY <1>4, ReplacedBy
  <2>. QED
    BY <1>1, <1>4, <2>1 DEF Hourly, PopEnds, time
<1>. QED
  BY <1>2, <1>3, <1>4

LEMMA GoesHourly ==
  ASSUME EngTypeOK, NEW p \in Procs, Lock(p) \/ Record(p) \/ WriteTmp(p)
  PROVE  Hourly(p)
<1>1. call[p] \in Call /\ call[p].step # "idle" /\ UNCHANGED <<hour, phase, dms, cause>>
  BY EngFacts DEF Lock, Record, Editing, WriteTmp
<1>2. PICK c : call' = [call EXCEPT ![p] = c] /\ c.op = call[p].op /\ c.step # "idle"
  <2>1. CASE Lock(p)
    <3>. DEFINE r == [call[p] EXCEPT !.step = "edit", !.entries = ReadQueue(queue)]
    <3>1. r.op = call[p].op /\ r.step # "idle"
      BY <1>1 DEF Call
    <3>2. call' = [call EXCEPT ![p] = r]
      BY <1>1, <2>1, EngFacts DEF Lock, Call
    <3>. HIDE DEF r
    <3>. QED
      BY <3>1, <3>2
  <2>2. CASE Record(p)
    <3>. DEFINE r == [call[p] EXCEPT !.step = "write"]
    <3>1. r.op = call[p].op /\ r.step # "idle"
      BY <1>1 DEF Call
    <3>2. call' = [call EXCEPT ![p] = r]
      BY <2>2 DEF Record
    <3>. HIDE DEF r
    <3>. QED
      BY <3>1, <3>2
  <2>3. CASE WriteTmp(p)
    <3>. DEFINE E == IF AfterPage(call[p].op) = "refill" THEN call[p].entries ELSE Nothing
                r == [call[p] EXCEPT !.step = "swap", !.entries = E]
    <3>1. r.op = call[p].op /\ r.step # "idle"
      BY <1>1 DEF Call
    <3>2. call' = [call EXCEPT ![p] = r]
      BY <1>1, <2>3, EngFacts DEF WriteTmp, Call
    <3>. HIDE DEF r
    <3>. QED
      BY <3>1, <3>2
  <2>. QED
    BY <2>1, <2>2, <2>3
<1>. QED
  BY <1>1, <1>2, OnHourly

LEMMA AfterHourly ==
  ASSUME EngTypeOK, NEW p \in Procs, SwapPage(p) \/ Refill(p)
  PROVE  Hourly(p)
<1>1. call[p] \in Call /\ call[p].step # "idle" /\ UNCHANGED <<hour, phase, dms, cause>>
  BY EngFacts DEF SwapPage, Refill
<1>2. PICK step \in {"idle", "refill", "dm"} : Goto(p, step) /\ (step = "idle" => call[p].op \notin Pops)
  BY DEF SwapPage, Refill, AfterPage, Pops
<1>3. CASE step = "idle"
  <2>1. call' = [call EXCEPT ![p] = Idle]
    BY <1>2, <1>3 DEF Goto
  <2>2. call'[p] = Idle /\ Others(p)
    BY <2>1, ReplacedBy
  <2>. QED
    BY <1>1, <1>2, <1>3, <2>2, OpKinds DEF Hourly, IsNoPop
<1>4. CASE step # "idle"
  <2>. DEFINE r == [call[p] EXCEPT !.step = step, !.entries = IF step = "dm" THEN Nothing ELSE @]
  <2>1. r.op = call[p].op /\ r.step # "idle"
    BY <1>1, <1>4 DEF Call
  <2>2. call' = [call EXCEPT ![p] = r]
    BY <1>2, <1>4 DEF Goto
  <2>. HIDE DEF r
  <2>. QED
    BY <1>1, <2>1, <2>2, OnHourly
<1>. QED
  BY <1>3, <1>4

LEMMA SaysEnds ==
  ASSUME EngTypeOK, NEW p \in Procs, NEW took \in BOOLEAN, Says(p, took),
         call[p].op \in Pops, call[p].step # "idle", call'[p] = Idle
  PROVE  PopEnds(p)
BY DEF EngTypeOK, Says, PopEnds

(* backfill is no pop; a DM and a death end one.                           *)
LEMMA EndsHourly ==
  ASSUME EngTypeOK, NEW p \in Procs,
         Backfill(p) \/ TellDrip(p) \/ TellHybrid(p) \/ TellSingle(p) \/ Die(p)
  PROVE  Hourly(p)
<1>1. call' = [call EXCEPT ![p] = Idle] /\ UNCHANGED <<hour, phase>> /\ call[p].step # "idle"
  BY DEF Backfill, Editing, TellDrip, TellHybrid, TellSingle, Tell, Goto, Die
<1>2. call'[p] = Idle /\ Others(p)
  BY <1>1, ReplacedBy
<1>3. CASE Backfill(p)
  <2>1. call[p].op \notin Pops /\ UNCHANGED <<dms, cause>>
    BY <1>3, OpKinds DEF Backfill, Editing
  <2>. QED
    BY <1>1, <1>2, <2>1, OpKinds DEF Hourly, IsNoPop
<1>4. CASE TellDrip(p) \/ TellHybrid(p) \/ TellSingle(p)
  <2>1. call[p].op \in Pops
    BY <1>4, OpKinds DEF TellDrip, TellHybrid, TellSingle
  <2>2. PICK took \in BOOLEAN : Says(p, took)
    BY <1>4 DEF TellDrip, TellHybrid, TellSingle, Tell
  <2>3. PopEnds(p)
    BY <1>1, <1>2, <2>1, <2>2, SaysEnds
  <2>. QED
    BY <1>1, <1>2, <2>3 DEF Hourly
<1>5. CASE Die(p)
  <2>1. UNCHANGED dms /\ cause' = IF p = Timer /\ call[p].op \in Pops THEN "killed" ELSE cause
    BY <1>5 DEF Die
  <2>2. CASE call[p].op \in Pops
    BY <1>1, <1>2, <2>1, <2>2 DEF Hourly, PopEnds
  <2>3. CASE call[p].op \notin Pops
    <3>1. cause' = cause
      BY <2>1, <2>3
    <3>. QED
      BY <1>1, <1>2, <2>1, <2>3, <3>1, OpKinds DEF Hourly, IsNoPop
  <2>. QED
    BY <2>2, <2>3
<1>. QED
  BY <1>1, <1>3, <1>4, <1>5

LEMMA WorkHourly ==
  ASSUME EngTypeOK, NEW p \in Procs, Work(p) \/ Die(p)
  PROVE  Hourly(p)
BY WritesHourly, PopSingleHourly, GoesHourly, AfterHourly, EndsHourly, Zenon DEF Work

(* The timer starts one pop an hour, after the purge and the dedup.        *)
LEMMA TimerStarts ==
  ASSUME EngTypeOK, HourOK, NEW op, Runs(Timer, op)
  PROVE  /\ ~Popping /\ call[Timer] = Idle /\ Owing
         /\ op \in Pops => op \in Singles /\ phase' = "end"
         /\ op \notin Pops => phase' \in {"dedup", "pop"}
<1>1. call[Timer] = Idle /\ TimerRuns(op)
  BY DEF Runs
<1>2. ~Popping
  BY <1>1, OpKinds DEF Popping
<1>3. /\ Owing
      /\ \/ phase' = "dedup" /\ op \notin Pops
         \/ phase' = "pop" /\ op \notin Pops
         \/ phase' = "end" /\ op \in Singles
  BY <1>1, OpKinds DEF TimerRuns, HourOK
<1>. QED
  BY <1>1, <1>2, <1>3, OpKinds

LEMMA StartKeeps ==
  ASSUME EngTypeOK, HourOK, NEW p \in Procs, NEW op,
         \/ \E ids \in SUBSET Drafts : Begin(p, op, ids)
         \/ Paused(p, op)
         \/ op \in Pops /\ Choose(p, op, TRUE)
         \/ op \in Drips /\ Choose(p, op, FALSE)
  PROVE  HourOK'
<1>1. Runs(p, op) /\ UNCHANGED hour /\ dms \in Nat /\ Timer \in Procs
  BY EngFacts DEF Begin, Paused, Choose, EngTypeOK
<1>2. PICK c : call' = call \/ call' = [call EXCEPT ![p] = c]
  BY DEF Begin, Paused, Choose
<1>3. CASE p # Timer
  <2>1. phase' = phase
    BY <1>1, <1>3 DEF Runs
  <2>2. dms' = dms /\ cause' = cause
    <3>1. ASSUME NEW reports, Choose(p, op, reports) PROVE dms' = dms /\ cause' = cause
      <4>1. (\E took \in BOOLEAN : Says(p, took)) \/ UNCHANGED <<dms, cause>>
        BY <3>1 DEF Choose
      <4>. QED
        BY <1>1, <1>3, <4>1 DEF Says
    <3>2. Paused(p, op) \/ (\E ids \in SUBSET Drafts : Begin(p, op, ids)) => dms' = dms /\ cause' = cause
      BY <1>3 DEF Begin, Paused
    <3>. QED
      BY <3>1, <3>2, Zenon
  <2>3. call'[Timer] = call[Timer]
    BY <1>1, <1>2, <1>3, ReplacedBy DEF Others
  <2>4. Popping' <=> Popping
    BY <2>3 DEF Popping
  <2>. QED
    BY <1>1, <2>1, <2>2, <2>4 DEF HourOK, Owing, Settled
<1>4. CASE p = Timer
  <2>0. /\ ~Popping /\ call[Timer] = Idle /\ Owing
        /\ op \in Pops => op \in Singles /\ phase' = "end"
        /\ op \notin Pops => phase' \in {"dedup", "pop"}
    BY <1>1, <1>4, TimerStarts
  <2>1. CASE \E ids \in SUBSET Drafts : Begin(p, op, ids)
    <3>1. PICK ids \in SUBSET Drafts : Begin(p, op, ids)
      BY <2>1
    <3>2. op \notin Pops /\ dms' = dms /\ cause' = cause
      BY <3>1 DEF Begin
    <3>3. call'[Timer].op = op
      BY <1>1, <1>4, <3>1, EngFacts DEF Begin, Idle
    <3>4. ~Popping'
      BY <3>2, <3>3 DEF Popping
    <3>. QED
      BY <2>0, <3>2, <3>4 DEF HourOK, Owing
  <2>2. CASE Paused(p, op)
    <3>1. op \in Pops /\ dms' = dms /\ cause' = "paused" /\ call' = call
      BY <1>4, <2>2 DEF Paused
    <3>2. ~Popping'
      BY <2>0, <3>1 DEF Popping
    <3>. QED
      BY <2>0, <3>1, <3>2 DEF HourOK, Owing, Settled
  <2>3. CASE op \in Pops /\ Choose(p, op, TRUE)
    <3>1. PICK ids :
            /\ call' = IF ids = {} THEN call
                       ELSE [call EXCEPT ![p] = [Idle EXCEPT !.op = op, !.step = "lock", !.ids = ids]]
            /\ IF ids = {} /\ TRUE THEN \E took \in BOOLEAN : Says(p, took)
               ELSE UNCHANGED <<dms, cause>>
      BY <2>3 DEF Choose
    <3>2. op \in Pops /\ phase' = "end"
      BY <2>0, <2>3
    <3>3. CASE ids = {}
      <4>1. call' = call /\ Settled' /\ dms' <= 1
        <5>1. PICK took \in BOOLEAN : Says(p, took)
          BY <3>1, <3>3
        <5>. QED
          BY <1>4, <2>0, <3>1, <3>3, <5>1 DEF Says, Owing, Settled
      <4>2. ~Popping'
        BY <2>0, <4>1 DEF Popping
      <4>3. phase' = "end"
        BY <3>2
      <4>. QED
        BY <4>1, <4>2, <4>3 DEF HourOK
    <3>4. CASE ids # {}
      <4>1. Owing' /\ dms' <= 1
        BY <2>0, <3>1, <3>4 DEF Owing
      <4>2. call'[Timer].step = "lock" /\ call'[Timer].op = op
        BY <1>1, <1>4, <3>1, <3>4, EngFacts DEF Idle
      <4>3. Popping' /\ phase' = "end"
        BY <3>2, <4>2 DEF Popping
      <4>. QED
        BY <4>1, <4>3 DEF HourOK
    <3>. QED
      BY <3>3, <3>4
  <2>4. CASE op \in Drips /\ Choose(p, op, FALSE)
    BY <2>0, <2>4, OpKinds
  <2>. QED
    BY <2>1, <2>2, <2>3, <2>4
<1>. QED
  BY <1>3, <1>4

LEMMA ClockKeeps ==
  ASSUME EngTypeOK, HourOK, Dispatch \/ AgentEnds \/ HourEnds \/ (\E d \in Drafts : Append(d)) \/ UNCHANGED vars
  PROVE  HourOK'
<1>1. call' = call
  BY DEF Dispatch, AgentEnds, HourEnds, Append, vars
<1>2. Popping' <=> Popping
  BY <1>1 DEF Popping
<1>3. CASE Dispatch
  BY <1>2, <1>3 DEF Dispatch, HourOK, Owing
<1>4. CASE AgentEnds
  BY <1>2, <1>4 DEF AgentEnds, HourOK, Owing
<1>5. CASE HourEnds
  <2>1. ~Popping /\ phase = "end" /\ phase' = "idle" /\ UNCHANGED <<dms, cause>>
    BY <1>5 DEF HourEnds, Popping
  <2>. QED
    BY <1>2, <2>1 DEF HourOK, Settled
<1>6. CASE (\E d \in Drafts : Append(d)) \/ UNCHANGED vars
  <2>1. UNCHANGED <<hour, phase, dms, cause>>
    BY <1>6 DEF Append, vars
  <2>. QED
    BY <1>2, <2>1 DEF HourOK, Owing, Settled
<1>. QED
  BY <1>3, <1>4, <1>5, <1>6

LEMMA HourNext ==
  ASSUME EngTypeOK, HourOK, Next \/ UNCHANGED vars
  PROVE  HourOK'
<1>1. ASSUME NEW p \in Procs, Start(p) PROVE HourOK'
  <2>1. PICK op : \/ \E ids \in SUBSET Drafts : Begin(p, op, ids)
                  \/ Paused(p, op)
                  \/ op \in Pops /\ Choose(p, op, TRUE)
                  \/ op \in Drips /\ Choose(p, op, FALSE)
    BY <1>1, OpKinds DEF Start, LookDrip, LookHybrid, LookSingle
  <2>. QED
    BY <2>1, StartKeeps
<1>2. ASSUME NEW p \in Procs, Work(p) \/ Die(p) PROVE HourOK'
  BY <1>2, WorkHourly, HourlyKeeps
<1>. QED
  BY <1>1, <1>2, ClockKeeps, Zenon DEF Next
-----------------------------------------------------------------------------
(* The screened drafts.  What counts against them is the ledger, without   *)
(* the rows of a mark_posted that has not written the queue yet or never   *)
(* will, and what the queue calls posted, which a backfill may record.     *)
Recorded ==
  UNION {call[p].ids \cap Having(call[p].entries, Statuses) : p \in {q \in Procs : call[q].step = "write"}}
Accounted == (ledger \ (torn \cup Recorded)) \cup Having(ReadQueue(queue), {"posted"})
Apart(d, S) == \A e \in S : TargetKeys(d) \cap TargetKeys(e) = {}
ScreenOK ==
  /\ screened \subseteq drafted
  /\ \A d \in screened : Status(d) \in Active => Apart(d, Accounted)

LEMMA ScreenFrame ==
  ASSUME ScreenOK, screened' = screened, drafted \subseteq drafted', Accounted' \subseteq Accounted,
         \A d \in screened : Status(d)' \in Active => Status(d) \in Active
  PROVE  ScreenOK'
BY DEF ScreenOK, Apart

LEMMA RecordedSame ==
  ASSUME NEW p \in Procs, Others(p), call[p].step # "write", call'[p].step # "write"
  PROVE  Recorded' = Recorded
<1>1. \A q \in Procs : /\ call'[q].step = "write" <=> call[q].step = "write"
                       /\ call[q].step = "write" => call'[q] = call[q]
  BY DEF Others
<1>2. {q \in Procs : call'[q].step = "write"} = {q \in Procs : call[q].step = "write"}
  BY <1>1
<1>3. Recorded' = UNION {call'[q].ids \cap Having(call'[q].entries, Statuses) :
                           q \in {r \in Procs : call[r].step = "write"}}
  BY <1>2 DEF Recorded, Having
<1>4. \A q \in {r \in Procs : call[r].step = "write"} :
        call'[q].ids \cap Having(call'[q].entries, Statuses) = call[q].ids \cap Having(call[q].entries, Statuses)
  BY <1>1
<1>. QED
  BY <1>3, <1>4 DEF Recorded

(* A step that touches neither files nor what a mark_posted has in hand.   *)
LEMMA QuietScreen ==
  ASSUME ScreenOK, UNCHANGED <<queue, ledger, torn, screened, drafted>>, Recorded' = Recorded
  PROVE  ScreenOK'
<1>1. Accounted' = Accounted
  BY DEF Accounted, Having, ReadQueue
<1>2. \A d \in screened : Status(d)' = Status(d)
  BY DEF Status, ReadQueue
<1>. QED
  BY <1>1, <1>2, ScreenFrame

LEMMA QuietCommand ==
  ASSUME ScreenOK, NEW p \in Procs, Others(p), UNCHANGED <<queue, ledger, torn, screened, drafted>>,
         call[p].step # "write", call'[p].step # "write"
  PROVE  ScreenOK'
BY RecordedSame, QuietScreen

LEMMA StartScreen ==
  ASSUME EngTypeOK, ScreenOK, NEW p \in Procs, NEW op,
         \/ \E ids \in SUBSET Drafts : Begin(p, op, ids)
         \/ Paused(p, op)
         \/ \E reports \in BOOLEAN : Choose(p, op, reports)
  PROVE  ScreenOK'
<1>1. Runs(p, op) /\ UNCHANGED <<queue, ledger, torn, screened, drafted>>
  BY DEF Begin, Paused, Choose
<1>2. call[p] = Idle /\ Idle.step = "idle"
  BY <1>1, OpKinds DEF Runs
<1>3. PICK c : (call' = [call EXCEPT ![p] = c] \/ call' = call) /\ c.step # "write"
  <2>1. CASE \E ids \in SUBSET Drafts : Begin(p, op, ids)
    <3>1. PICK ids \in SUBSET Drafts : Begin(p, op, ids)
      BY <2>1
    <3>. DEFINE page1 == [Idle EXCEPT !.op = op, !.step = "page", !.entries = ReadQueue(queue)]
                lock1 == [Idle EXCEPT !.op = op, !.step = "lock", !.ids = ids]
    <3>2. page1.step # "write" /\ lock1.step # "write"
      BY DEF Idle
    <3>3. call' = [call EXCEPT ![p] = page1] \/ call' = [call EXCEPT ![p] = lock1]
      BY <3>1 DEF Begin
    <3>. HIDE DEF page1, lock1
    <3>. QED
      BY <3>2, <3>3
  <2>2. CASE Paused(p, op)
    BY <1>2, <2>2 DEF Paused
  <2>3. CASE \E reports \in BOOLEAN : Choose(p, op, reports)
    <3>1. PICK ids : call' = IF ids = {} THEN call
                             ELSE [call EXCEPT ![p] = [Idle EXCEPT !.op = op, !.step = "lock", !.ids = ids]]
      BY <2>3 DEF Choose
    <3>. DEFINE lock1 == [Idle EXCEPT !.op = op, !.step = "lock", !.ids = ids]
    <3>2. lock1.step # "write" /\ (call' = call \/ call' = [call EXCEPT ![p] = lock1])
      BY <3>1 DEF Idle
    <3>. HIDE DEF lock1
    <3>. QED
      BY <1>2, <3>2
  <2>. QED
    BY <2>1, <2>2, <2>3
<1>4. Others(p) /\ call'[p].step # "write"
  <2>1. CASE call' = call
    BY <1>2, <2>1 DEF Others
  <2>2. CASE call' = [call EXCEPT ![p] = c]
    BY <1>3, <2>2, ReplacedBy
  <2>. QED
    BY <1>3, <2>1, <2>2
<1>. QED
  BY <1>1, <1>2, <1>4, QuietCommand

LEMMA Commits ==
  ASSUME EngTypeOK, NEW p \in Procs, NEW entries, NEW popped, NEW next \in {"page", "idle"},
         Commit(p, entries, popped, next)
  PROVE  Others(p) /\ call'[p].step = next /\ UNCHANGED drafted /\ queue' = FileOf(entries)
<1>1. call[p] \in Call /\ UNCHANGED drafted /\ queue' = FileOf(entries)
  BY EngFacts DEF Commit
<1>2. CASE next = "idle"
  BY <1>1, <1>2, ReplacedBy, OpKinds DEF Commit
<1>3. CASE next = "page"
  <2>. DEFINE r == [call[p] EXCEPT !.entries = entries, !.popped = popped, !.ids = {}, !.step = next]
  <2>1. r.step = next
    BY <1>1 DEF Call
  <2>2. call' = [call EXCEPT ![p] = r]
    BY <1>3 DEF Commit
  <2>. HIDE DEF r
  <2>. QED
    BY <1>1, <2>1, <2>2, ReplacedBy
<1>. QED
  BY <1>2, <1>3

(* The steps of a command that leave the files alone.                      *)
LEMMA OnwardScreen ==
  ASSUME EngTypeOK, ScreenOK, NEW p \in Procs,
         \/ Lock(p) \/ WriteTmp(p) \/ SwapPage(p) \/ Refill(p) \/ TellDrip(p) \/ TellHybrid(p) \/ TellSingle(p)
         \/ PopSingle(p) /\ UNCHANGED queue
  PROVE  ScreenOK'
<1>1. UNCHANGED <<queue, ledger, torn, screened, drafted>> /\ call[p].step # "write"
  BY DEF Lock, WriteTmp, SwapPage, Refill, TellDrip, TellHybrid, TellSingle, Tell, PopSingle, Release, Commit
<1>2. Others(p) /\ call[p] \in Call /\ call \in [Procs -> Call]
  BY EngFacts, WorkHourly DEF Work, Hourly
<1>3. call'[p].step # "write"
  <2>1. CASE Lock(p) \/ WriteTmp(p)
    BY <1>2, <2>1 DEF Lock, WriteTmp, Call
  <2>2. CASE SwapPage(p) \/ Refill(p) \/ TellDrip(p) \/ TellHybrid(p) \/ TellSingle(p)
    <3>1. PICK step \in {"idle", "refill", "dm"} : Goto(p, step)
      BY <2>2 DEF SwapPage, Refill, AfterPage, TellDrip, TellHybrid, TellSingle, Tell
    <3>. DEFINE r == [call[p] EXCEPT !.step = step, !.entries = IF step = "dm" THEN Nothing ELSE @]
    <3>2. r.step = step
      BY <1>2 DEF Call
    <3>3. call' = [call EXCEPT ![p] = Idle] \/ call' = [call EXCEPT ![p] = r]
      BY <3>1 DEF Goto
    <3>. HIDE DEF r
    <3>. QED
      BY <3>2, <3>3, ReplacedBy, OpKinds
  <2>3. CASE PopSingle(p)
    <3>1. PICK ids : Release(p, ids) \/ call' = [call EXCEPT ![p] = Idle]
      BY <2>3 DEF PopSingle
    <3>2. CASE call' = [call EXCEPT ![p] = Idle]
      BY <3>2, ReplacedBy, OpKinds
    <3>3. CASE Release(p, ids)
      <4>1. PICK entries : Commit(p, entries, ids, "page")
        BY <3>3 DEF Release
      <4>. QED
        BY <4>1, Commits
    <3>. QED
      BY <3>1, <3>2, <3>3
  <2>. QED
    BY <2>1, <2>2, <2>3
<1>. QED
  BY <1>1, <1>2, <1>3, QuietCommand

(* A command that writes: what it wrote is what is read, an active draft   *)
(* was active, and its own record is no longer at "write".                 *)
LEMMA CommitReads ==
  ASSUME EngInv, NEW p \in Procs, Holds(p), NEW F \in Entries, Forward(call[p].entries, F), queue' = FileOf(F)
  PROVE  /\ \A d \in Drafts : Status(d)' = F[d].status
         /\ \A d \in Drafts : F[d].status \in Active =>
              call[p].entries[d].status \in Active /\ Status(d) = call[p].entries[d].status
         /\ \A d \in Drafts : call[p].entries[d].status = "posted" => Status(d) = "posted"
<1>. DEFINE E == call[p].entries
<1>0. E \in Entries /\ \A d \in Drafts : Current(p, d)
  BY Holder DEF EngInv, EntriesCurrent
<1>1. ASSUME NEW d \in Drafts PROVE Status(d)' = F[d].status
  BY ReadBack DEF Status
<1>2. ASSUME NEW d \in Drafts, E[d] # NoRow PROVE Status(d) = E[d].status
  BY <1>0, <1>2 DEF Current, Status
<1>3. ASSUME NEW d \in Drafts, F[d].status \in Active PROVE E[d] # NoRow /\ E[d].status \in Active
  <2>1. E[d] # NoRow
    BY <1>3 DEF Forward, NoRow, Active
  <2>2. Stage(F[d].status) \in 0 .. 3
    <3>1. Stage("queued") = 1
      BY Ranks DEF Stage
    <3>. QED
      BY <1>3, <3>1, LastStages DEF Active
  <2>3. E[d].status \notin {"posted", "failed", "declined"}
    <3>1. E[d].status \in {"posted", "failed", "declined"} => Rank(E[d].status) >= 2 /\ Stage(E[d].status) = 4
      BY LastStages, Ranks
    <3>. QED
      BY <2>2, <3>1 DEF Forward
  <2>. QED
    BY <1>0, <2>1, <2>3, Stages DEF Statuses, Active
<1>. QED
  BY <1>1, <1>2, <1>3 DEF NoRow

(* A command that posts nothing and screens nothing.                       *)
LEMMA PlainWrite ==
  ASSUME EngInv, ScreenOK, NEW p \in Procs, call[p].step = "edit", NEW F \in Entries, NEW popped,
         NEW next \in {"page", "idle"}, Commit(p, F, popped, next), Forward(call[p].entries, F),
         \A d \in Drafts : F[d].status = "posted" => call[p].entries[d].status = "posted",
         UNCHANGED <<ledger, torn>>
  PROVE  /\ Accounted' \subseteq Accounted /\ UNCHANGED drafted
         /\ \A d \in Drafts : Status(d)' \in Active => Status(d) \in Active
         /\ \A d \in Drafts : Status(d)' = F[d].status
<1>0. EngTypeOK /\ Holds(p)
  BY DEF EngInv, Holds
<1>1. Others(p) /\ call'[p].step # "write" /\ UNCHANGED drafted /\ queue' = FileOf(F)
  BY <1>0, Commits
<1>2. Recorded' = Recorded
  BY <1>1, RecordedSame
<1>3. /\ \A d \in Drafts : Status(d)' = F[d].status
      /\ \A d \in Drafts : F[d].status \in Active => Status(d) \in Active
      /\ \A d \in Drafts : F[d].status = "posted" => Status(d) = "posted"
  BY <1>0, <1>1, CommitReads
<1>4. Having(ReadQueue(queue'), {"posted"}) \subseteq Having(ReadQueue(queue), {"posted"})
  BY <1>3 DEF Having, Status
<1>5. Accounted' \subseteq Accounted
  BY <1>2, <1>4 DEF Accounted, Having
<1>. QED
  BY <1>1, <1>3, <1>5

LEMMA SetScreen ==
  ASSUME EngInv, ScreenOK, NEW p \in Procs, call[p].step = "edit",
         NEW ids, NEW from \in SUBSET Statuses, NEW to \in Statuses \ {"posted"}, Onward(from, to), NEW popped,
         Commit(p, SetStatus(call[p].entries, ids, from, to), popped, "page"), UNCHANGED <<ledger, torn, screened>>
  PROVE  ScreenOK'
<1>. DEFINE E == call[p].entries
            F == SetStatus(E, ids, from, to)
<1>1. E \in Entries /\ hour \in 0 .. MaxHour
  BY Holder
<1>2. Sets(E, F, ids, from, to)
  BY <1>1, SetStatusType
<1>3. Forward(E, F)
  BY <1>1, SetForward
<1>4. Commit(p, F, popped, "page") /\ "page" \in {"page", "idle"}
  OBVIOUS
<1>. HIDE DEF F
<1>5. F \in Entries /\ \A d \in Drafts : F[d].status = "posted" => E[d].status = "posted"
  BY <1>2 DEF Sets
<1>6. /\ Accounted' \subseteq Accounted /\ UNCHANGED drafted
      /\ \A d \in Drafts : Status(d)' \in Active => Status(d) \in Active
  BY <1>3, <1>4, <1>5, PlainWrite
<1>7. screened \subseteq Drafts
  BY Holder
<1>. QED
  BY <1>6, <1>7, ScreenFrame

LEMMA WriteScreen ==
  ASSUME EngInv, ScreenOK, NEW p \in Procs,
         PopDrip(p) \/ PopHybrid(p) \/ (PopSingle(p) /\ queue' # queue) \/ Approve(p) \/ PostedError(p) \/ Decline(p)
  PROVE  ScreenOK'
<1>1. call[p].step = "edit" /\ UNCHANGED <<ledger, torn, screened>>
  BY DEF PopDrip, PopHybrid, PopSingle, Approve, PostedError, Decline, Editing
<1>2. PICK ids, popped :
        \/ Commit(p, SetStatus(call[p].entries, ids, {"queued"}, "pending_review"), popped, "page")
        \/ Commit(p, SetStatus(call[p].entries, ids, {"pending_review"}, "approved"), popped, "page")
        \/ Commit(p, SetStatus(call[p].entries, ids, Statuses, "failed"), popped, "page")
        \/ Commit(p, SetStatus(call[p].entries, ids, Statuses, "declined"), popped, "page")
  BY DEF PopDrip, PopHybrid, PopSingle, Release, Approve, PostedError, Decline
<1>3. /\ {"queued"} \in SUBSET Statuses /\ {"pending_review"} \in SUBSET Statuses /\ Statuses \in SUBSET Statuses
      /\ {"pending_review", "approved", "failed", "declined"} \subseteq Statuses \ {"posted"}
  BY DEF Statuses
<1>4. /\ Onward({"queued"}, "pending_review") /\ Onward({"pending_review"}, "approved")
      /\ Onward(Statuses, "failed") /\ Onward(Statuses, "declined")
  BY LastStages, Ranks DEF Onward
<1>. QED
  BY <1>1, <1>2, <1>3, <1>4, SetScreen

(* The purge, and the dedup, which keeps a fresh draft only if nothing that*)
(* is recorded, posted or open has its target.                             *)
LEMMA KeptIsApart ==
  ASSUME NEW E, NEW d \in Kept(E)
  PROVE  d \in Having(E, {"queued"}) /\ Apart(d, ledger \cup Having(E, {"posted"}))
<1>1. d \in Having(E, {"queued"}) /\ TargetKeys(d) \cap Known(E) = {}
  BY DEF Kept, FreshQueued
<1>2. ASSUME NEW e \in ledger \cup Having(E, {"posted"}) PROVE TargetKeys(e) \subseteq Known(E)
  <2>1. CASE e \in ledger
    BY <2>1 DEF Known, PostedKeys
  <2>2. CASE e \in Having(E, {"posted"})
    BY <2>2 DEF Known, PostedKeys, Having
  <2>. QED
    BY <2>1, <2>2
<1>. QED
  BY <1>1, <1>2 DEF Apart

LEMMA DropScreen ==
  ASSUME EngInv, ScreenOK, NEW p \in Procs, Purge(p) \/ Dedup(p)
  PROVE  ScreenOK'
<1>. DEFINE E == call[p].entries
<1>0. E \in Entries /\ Holds(p) /\ call[p].step = "edit" /\ screened \subseteq Drafts
  BY Holder DEF Purge, Dedup, Editing, Holds
<1>1. UNCHANGED <<ledger, torn>>
  BY DEF Purge, Dedup
<1>2. PICK ids \in SUBSET Having(E, {"queued"}) : Commit(p, Without(E, ids), {}, "idle")
  BY DEF Purge, Dedup, Purged, Duplicates, FreshQueued
<1>3. /\ Without(E, ids) \in Entries /\ Forward(E, Without(E, ids))
      /\ \A d \in Drafts : Without(E, ids)[d].status = "posted" => E[d].status = "posted"
  BY <1>0, DropForward
<1>4. /\ Accounted' \subseteq Accounted /\ UNCHANGED drafted
      /\ \A d \in Drafts : Status(d)' \in Active => Status(d) \in Active
  BY <1>0, <1>1, <1>2, <1>3, PlainWrite
<1>5. Accounted' \subseteq ledger \cup Having(E, {"posted"})
  <2>1. \A d \in Drafts : Status(d)' = Without(E, ids)[d].status
    BY <1>0, <1>1, <1>2, <1>3, PlainWrite
  <2>2. Having(ReadQueue(queue'), {"posted"}) \subseteq Having(E, {"posted"})
    BY <1>3, <2>1 DEF Having, Status
  <2>. QED
    BY <1>1, <2>2 DEF Accounted, Having
<1>6. ASSUME NEW d \in Kept(E) PROVE d \in drafted /\ Apart(d, Accounted')
  <2>1. d \in Drafts /\ E[d].status = "queued" /\ Apart(d, ledger \cup Having(E, {"posted"}))
    BY KeptIsApart DEF Having
  <2>2. E[d] # NoRow /\ Current(p, d) /\ \A e \in Drafts : queue[e] # {} => e \in drafted
    BY <1>0, <2>1 DEF EngInv, EntriesCurrent, NoRow
  <2>3. ReadQueue(queue)[d] # NoRow
    BY <2>2 DEF Current
  <2>4. queue[d] # {}
    BY <2>1, <2>3 DEF ReadQueue
  <2>. QED
    BY <1>5, <2>1, <2>2, <2>4 DEF Apart
<1>7. screened' \subseteq screened \cup Kept(E)
  BY DEF Purge, Dedup
<1>8. ASSUME NEW d \in screened', Status(d)' \in Active PROVE Apart(d, Accounted')
  <2>1. CASE d \in screened
    <3>1. Apart(d, Accounted)
      BY <1>0, <1>4, <1>8, <2>1 DEF ScreenOK
    <3>. QED
      BY <1>4, <3>1 DEF Apart
  <2>. QED
    BY <1>6, <1>7, <2>1
<1>9. screened' \subseteq drafted'
  BY <1>4, <1>6, <1>7 DEF ScreenOK
<1>10. ASSUME NEW d \in screened', Status(d)' \in Active PROVE Apart(d, Accounted)'
  BY <1>8, <1>10 DEF Apart, TargetKeys
<1>. QED
  BY <1>9, <1>10 DEF ScreenOK

(* mark_posted: the drafts on the target of what it posts are declined.    *)
LEMMA PostScreen ==
  ASSUME EngInv, ScreenOK, NEW p \in Procs, Posted(p)
  PROVE  ScreenOK'
<1>. DEFINE E == call[p].entries
            ids == call[p].ids \cap Having(E, Statuses)
            M == SetStatus(E, ids, Statuses, "posted")
            dups == {d \in Drafts \ ids : \E e \in ids : TargetsMatch(d, e)}
            F == SetStatus(M, dups, Active, "declined")
<1>0. Holds(p) /\ E \in Entries /\ hour \in 0 .. MaxHour /\ EngTypeOK /\ screened \subseteq Drafts
      /\ ids \subseteq Drafts
  BY Holder DEF Posted, Holds, Having
<1>1. Commit(p, F, {}, "page") /\ torn' = torn \ ids /\ UNCHANGED <<ledger, screened>>
  BY DEF Posted, MarkPosted
<1>2. Recorded = ids /\ Recorded' = {}
  <2>1. \A q \in Procs : call[q].step = "write" <=> q = p
    BY <1>0 DEF EngInv, EntriesCurrent, Holds, Posted
  <2>2. {q \in Procs : call[q].step = "write"} = {p}
    BY <2>1
  <2>3. Others(p) /\ call'[p].step = "page"
    BY <1>0, <1>1, Commits
  <2>4. {q \in Procs : call'[q].step = "write"} = {}
    BY <2>1, <2>3 DEF Others
  <2>5. Recorded' = UNION {call'[q].ids \cap Having(call'[q].entries, Statuses) :
                             q \in {r \in Procs : call'[r].step = "write"}}
    BY DEF Recorded, Having
  <2>6. Recorded' = {}
    BY <2>4, <2>5
  <2>. QED
    BY <2>2, <2>6 DEF Recorded
<1>. HIDE DEF dups
<1>3. Sets(E, M, ids, Statuses, "posted") /\ Forward(E, M)
  <2>1. "posted" \in Statuses /\ Onward(Statuses, "posted")
    BY LastStages DEF Statuses, Onward
  <2>. QED
    BY <1>0, <2>1, SetStatusType, SetForward
<1>4. M \in Entries
  BY <1>3 DEF Sets
<1>. HIDE DEF M
<1>5. Sets(M, F, dups, Active, "declined") /\ Forward(M, F)
  <2>1. "declined" \in Statuses /\ Active \in SUBSET Statuses
        /\ Onward(Active, "declined")
    BY LastStages DEF Statuses, Active, Onward
  <2>. QED
    BY <1>0, <1>4, <2>1, SetStatusType, SetForward
<1>. HIDE DEF F
<1>6. F \in Entries /\ Forward(E, F)
  BY <1>0, <1>3, <1>4, <1>5, ForwardTwice DEF Sets
<1>7. UNCHANGED drafted /\ queue' = FileOf(F)
  BY <1>0, <1>1, Commits
<1>8. /\ \A d \in Drafts : Status(d)' = F[d].status
      /\ \A d \in Drafts : F[d].status \in Active => Status(d) \in Active
      /\ \A d \in Drafts : E[d].status = "posted" => Status(d) = "posted"
  BY <1>0, <1>6, <1>7, CommitReads
<1>9. \A d \in Drafts : F[d].status = "posted" => d \in ids \/ E[d].status = "posted"
  BY <1>3, <1>5 DEF Sets
<1>10. \A d \in Drafts : F[d].status \in Active => d \notin ids \cup dups
  <2>1. \A d \in ids : M[d].status = "posted"
    BY <1>0, <1>3 DEF Sets, Having
  <2>2. \A d \in Drafts : F[d] = M[d] \/ F[d].status = "declined"
    BY <1>5 DEF Sets
  <2>3. \A d \in dups : M[d].status \in Active => F[d].status = "declined"
    BY <1>5 DEF Sets, dups
  <2>4. "posted" \notin Active /\ "declined" \notin Active
    BY DEF Active
  <2>. QED
    BY <1>0, <2>1, <2>2, <2>3, <2>4 DEF dups
<1>11. Accounted' \subseteq Accounted \cup ids
  <2>1. Having(ReadQueue(queue'), {"posted"}) \subseteq Having(ReadQueue(queue), {"posted"}) \cup ids
    BY <1>8, <1>9 DEF Having, Status
  <2>2. Accounted' = (ledger' \ (torn' \cup Recorded')) \cup Having(ReadQueue(queue'), {"posted"})
    BY DEF Accounted, Having
  <2>. QED
    BY <1>1, <1>2, <2>1, <2>2 DEF Accounted
<1>12. ASSUME NEW d \in screened', Status(d)' \in Active PROVE Apart(d, Accounted)'
  <2>1. d \in Drafts /\ Apart(d, Accounted) /\ d \notin ids /\ d \notin dups
    BY <1>0, <1>1, <1>8, <1>10, <1>12 DEF ScreenOK
  <2>2. Apart(d, ids)
    BY <2>1 DEF dups, Apart, TargetsMatch
  <2>. QED
    BY <1>11, <2>1, <2>2 DEF Apart, TargetKeys
<1>. QED
  BY <1>1, <1>7, <1>12 DEF ScreenOK

(* The steps that touch the ledger, or a mark_posted half done, only.      *)
LEMMA LedgerScreen ==
  ASSUME EngInv, ScreenOK, NEW p \in Procs, Record(p) \/ Backfill(p) \/ Die(p)
  PROVE  ScreenOK'
<1>. DEFINE E == call[p].entries
<1>0. EngTypeOK /\ call[p] \in Call /\ EntriesCurrent /\ RecordOK
  BY Holder DEF EngInv
<1>1. UNCHANGED <<queue, drafted, screened>> /\ (Record(p) \/ Backfill(p) => call[p].step # "write" /\ Holds(p))
  BY DEF Record, Backfill, Die, Editing, Holds
<1>2. Others(p)
  BY <1>0, GoesHourly, EndsHourly DEF Hourly
<1>3. Accounted' \subseteq Accounted
  <2>0. Having(ReadQueue(queue'), {"posted"}) = Having(ReadQueue(queue), {"posted"})
        /\ Accounted' = (ledger' \ (torn' \cup Recorded')) \cup Having(ReadQueue(queue'), {"posted"})
    BY <1>1 DEF Accounted, Having, ReadQueue
  <2>1. CASE Record(p)
    <3>1. call'[p].step = "write" /\ call'[p].ids = call[p].ids /\ call'[p].entries = E
      BY <1>0, <2>1, EngFacts DEF Record, Call
    <3>2. Recorded \cup (call[p].ids \cap Having(E, Statuses)) \subseteq Recorded'
      <4>1. \A q \in Procs : call[q].step = "write" => q # p /\ call'[q] = call[q]
        BY <1>1, <1>2, <2>1 DEF Others
      <4>2. Recorded' = UNION {call'[q].ids \cap Having(call'[q].entries, Statuses) :
                                 q \in {r \in Procs : call'[r].step = "write"}}
        BY DEF Recorded, Having
      <4>. QED
        BY <3>1, <4>1, <4>2 DEF Recorded
    <3>3. ledger' = ledger \cup (call[p].ids \cap Having(E, Statuses)) /\ torn' = torn
      BY <2>1 DEF Record
    <3>. QED
      BY <2>0, <3>2, <3>3 DEF Accounted
  <2>2. CASE Backfill(p)
    <3>1. call'[p].step = "idle"
      BY <1>0, <2>2, ReplacedBy, OpKinds DEF Backfill
    <3>2. Recorded' = Recorded
      BY <1>1, <1>2, <2>2, <3>1, RecordedSame
    <3>3. Having(E, {"posted"}) \subseteq Having(ReadQueue(queue), {"posted"})
      BY <1>0, <1>1, <2>2 DEF EntriesCurrent, Current, Having, NoRow
    <3>4. ledger' = ledger \cup Having(E, {"posted"}) /\ torn' = torn
      BY <2>2 DEF Backfill
    <3>. QED
      BY <2>0, <3>2, <3>3, <3>4 DEF Accounted
  <2>3. CASE Die(p)
    <3>1. call'[p].step = "idle" /\ ledger' = ledger
      BY <1>0, <2>3, ReplacedBy, OpKinds DEF Die
    <3>2. \A q \in Procs : call[q].step = "write" => q = p \/ (call'[q] = call[q])
      BY <1>2 DEF Others
    <3>3. Recorded' = UNION {call'[q].ids \cap Having(call'[q].entries, Statuses) :
                               q \in {r \in Procs : call'[r].step = "write"}}
      BY DEF Recorded, Having
    <3>4. call[p].step = "write" => call[p].ids \cap Having(E, Statuses) \subseteq torn'
      <4>1. call[p].step = "write" => torn' = torn \cup (call[p].ids \cap ledger)
        BY <2>3 DEF Die
      <4>. QED
        BY <1>0, <4>1 DEF RecordOK
    <3>5. Recorded \subseteq Recorded' \cup torn'
      BY <3>2, <3>3, <3>4 DEF Recorded
    <3>6. torn \subseteq torn'
      BY <2>3 DEF Die
    <3>. QED
      BY <2>0, <3>1, <3>5, <3>6 DEF Accounted
  <2>. QED
    BY <2>1, <2>2, <2>3
<1>4. \A d \in screened : Status(d)' = Status(d)
  BY <1>1 DEF Status, ReadQueue
<1>. QED
  BY <1>1, <1>3, <1>4, ScreenFrame

(* An appended draft has not been screened.                                *)
LEMMA AppendScreen ==
  ASSUME EngInv, ScreenOK, NEW d \in Drafts, Append(d)
  PROVE  ScreenOK'
<1>1. /\ d \notin drafted /\ drafted \subseteq drafted' /\ UNCHANGED <<ledger, torn, screened, call>>
      /\ queue \in [Drafts -> SUBSET Row]
  <2>1. d \in Nat /\ ~ (d < d)
    BY EngagementAssumption
  <2>. QED
    BY <2>1, EngFacts DEF Append, EngInv
<1>. DEFINE row == [status |-> "queued", at |-> hour, fresh |-> FreshlyDraftedAt(d)]
<1>2. queue' = [queue EXCEPT ![d] = {row}] /\ row.status = "queued" /\ queue' \in [Drafts -> SUBSET Row]
  BY AppendType DEF Append, EngInv, EngTypeOK
<1>. HIDE DEF row
<1>3. \A e \in Drafts \ {d} : ReadQueue(queue')[e] = ReadQueue(queue)[e]
  BY <1>1, <1>2 DEF ReadQueue
<1>4. ReadQueue(queue')[d].status = "queued"
  <2>1. queue'[d] = {row}
    BY <1>1, <1>2
  <2>. QED
    BY <1>2, <2>1, ReadQueueType
<1>5. Having(ReadQueue(queue'), {"posted"}) \subseteq Having(ReadQueue(queue), {"posted"})
  BY <1>3, <1>4 DEF Having
<1>6. Recorded' = Recorded
  BY <1>1 DEF Recorded, Having
<1>7. Accounted' \subseteq Accounted
  BY <1>1, <1>5, <1>6 DEF Accounted, Having
<1>8. \A e \in screened : Status(e)' = Status(e)
  BY <1>1, <1>3 DEF Status, ScreenOK, EngInv, EngTypeOK
<1>. QED
  BY <1>1, <1>7, <1>8, ScreenFrame

LEMMA ScreenNext ==
  ASSUME EngInv, ScreenOK, Next \/ UNCHANGED vars
  PROVE  ScreenOK'
<1>0. EngTypeOK
  BY DEF EngInv
<1>1. Dispatch \/ AgentEnds \/ HourEnds \/ UNCHANGED vars => ScreenOK'
  <2>. SUFFICES ASSUME Dispatch \/ AgentEnds \/ HourEnds \/ UNCHANGED vars PROVE ScreenOK'
    OBVIOUS
  <2>1. UNCHANGED <<queue, ledger, torn, screened, drafted, call>>
    BY DEF Dispatch, AgentEnds, HourEnds, vars
  <2>2. Recorded' = Recorded
    BY <2>1 DEF Recorded, Having
  <2>. QED
    BY <2>1, <2>2, QuietScreen
<1>2. ASSUME NEW p \in Procs, Start(p) PROVE ScreenOK'
  <2>1. PICK op : \/ \E ids \in SUBSET Drafts : Begin(p, op, ids)
                  \/ Paused(p, op)
                  \/ \E reports \in BOOLEAN : Choose(p, op, reports)
    BY <1>2 DEF Start, LookDrip, LookHybrid, LookSingle
  <2>. QED
    BY <1>0, <2>1, StartScreen
<1>3. ASSUME NEW p \in Procs, Work(p) PROVE ScreenOK'
  <2>1. PopSingle(p) => ScreenOK'
    BY <1>0, OnwardScreen, WriteScreen
  <2>. QED
    BY <1>0, <1>3, <2>1, OnwardScreen, WriteScreen, DropScreen, PostScreen, LedgerScreen, Zenon DEF Work
<1>. QED
  BY <1>1, <1>2, <1>3, LedgerScreen, AppendScreen, Zenon DEF Next
-----------------------------------------------------------------------------
(* The queue's invariant holds whatever commands, agents and deaths do.    *)
THEOREM QueueInvariant == Spec => []EngInv
<1>1. EngInv /\ [Next]_vars => EngInv'
  BY EngNext
<1>. QED
  BY <1>1, EngInit, PTL DEF Spec

(* The file, the page, the lock and the commands keep their types.         *)
THEOREM QueueTypes == Spec => []EngTypeOK
<1>1. EngInv => EngTypeOK
  BY DEF EngInv
<1>. QED
  BY <1>1, QueueInvariant, PTL

(* No draft is announced twice (drip, drip_hybrid, drip_single).           *)
THEOREM DraftsAreAnnouncedOnce == Spec => []AnnouncedOnce
<1>1. EngInv => AnnouncedOnce
  BY DEF EngInv, AnnouncedOK, AnnouncedOnce
<1>. QED
  BY <1>1, QueueInvariant, PTL

(* What is posted has its row in the ledger (mark_posted).                 *)
THEOREM PostsAreOnRecord == Spec => []PostedOnRecord
<1>1. EngInv => PostedOnRecord
  BY DEF EngInv, RecordOK
<1>. QED
  BY <1>1, QueueInvariant, PTL

(* No command takes a draft back (queue_locked).                           *)
THEOREM DraftsMoveOn == Spec => NoStepBack
<1>1. EngInv /\ [Next]_vars =>
        [\A d \in Drafts :
           LET old == ReadQueue(queue)[d].status IN
           Rank(old) >= 2 => Stage(ReadQueue(queue')[d].status) >= Stage(old)]_vars
  <2>. SUFFICES ASSUME EngInv, Next \/ UNCHANGED vars PROVE NoDraftBack
    BY DEF NoDraftBack
  <2>. QED
    BY EngNext
<1>. QED
  BY <1>1, QueueInvariant, PTL DEF Spec, NoStepBack

(* Each hour of the dispatcher that ends has told the operator one thing,  *)
(* or none for a cause that is known (drip_single and the dispatcher).     *)
THEOREM HoursAreNotSilent == Spec => []HourNotSilent
<1>1. Init => HourOK
  <2>. SUFFICES ASSUME Init PROVE HourOK
    OBVIOUS
  <2>1. call[Timer].step = "idle"
    BY CallValues, EngagementAssumption DEF Init, Procs
  <2>2. ~Popping
    BY <2>1 DEF Popping
  <2>. QED
    BY <2>2 DEF Init, HourOK
<1>2. EngTypeOK /\ HourOK /\ [Next]_vars => HourOK'
  BY HourNext
<1>3. HourOK => HourNotSilent
  <2>. SUFFICES ASSUME HourOK PROVE HourNotSilent
    OBVIOUS
  <2>1. ASSUME phase = "idle" PROVE ~Popping
    BY <2>1 DEF HourOK
  <2>. QED
    BY <2>1 DEF HourOK, Settled, HourNotSilent
<1>. QED
  BY <1>1, <1>2, <1>3, QueueTypes, PTL DEF Spec

(* A fresh draft that the dedup of its hour has kept is not open on a      *)
(* target that was posted (dedup_fresh_against_targets, mark_posted).      *)
THEOREM ScreenedDraftsAreNew == Spec => []ScreenedIsNew
<1>1. Init => ScreenOK
  BY DEF Init, ScreenOK
<1>2. EngInv /\ ScreenOK /\ [Next]_vars => ScreenOK'
  BY ScreenNext
<1>3. ScreenOK => ScreenedIsNew
  <2>. SUFFICES ASSUME ScreenOK, NEW d \in screened, Status(d) \in Active
                PROVE  TargetKeys(d) \cap PostedKeys(ledger \ (torn \cup InFlight)) = {}
    BY DEF ScreenedIsNew, Status
  <2>1. Recorded \subseteq InFlight
    BY DEF Recorded, InFlight
  <2>2. ledger \ (torn \cup InFlight) \subseteq Accounted
    BY <2>1 DEF Accounted
  <2>. QED
    BY <2>2 DEF ScreenOK, Apart, PostedKeys
<1>. QED
  BY <1>1, <1>2, <1>3, QueueInvariant, PTL DEF Spec
=============================================================================
