------------------------------ MODULE MCEngage ------------------------------
(* Instances of EngagementQueue for TLC. *)
EXTENDS EngagementQueue

About(platform, post, text) == [platform |-> platform, post |-> post, text |-> text]
MCInfo == <<About("x", 1, "a"), About("linkedin", -1, "a"), About("x", 1, "b"), About("x", 0, "c")>>

AllCommands == Ops \ {"purge", "dedup", "x fresh", "x pool", "linkedin pool"}

At0(status) == [status |-> status, fresh |-> 0, at |-> 0]
MCFiles ==
  {<<{At0("queued")}, {At0("queued")}, {}, {}>>,
   <<{At0("queued"), At0("posted")}, {At0("queued"), At0("pending_review")}, {}, {}>>,
   <<{At0("declined")}, {At0("queued")}, {}, {}>>}
=============================================================================
