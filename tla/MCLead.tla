------------------------------- MODULE MCLead -------------------------------
(* Instances of LeadLifecycle for TLC. *)
EXTENDS LeadLifecycle

AllOps   == {"spawn", "resume", "kill", "list", "status"}
AllKills == {"stopped", "only tmux", "nothing"}
Kills    == {"stopped", "nothing"}
=============================================================================
