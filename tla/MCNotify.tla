------------------------------ MODULE MCNotify ------------------------------
(* Instances of NotifyPipeline for TLC: the posts of each run. *)
EXTENDS NotifyPipeline

MCPost(t) == [type |-> t, valid |-> TRUE, attention |-> FALSE,
              restart |-> FALSE, timeout |-> 0]

Milestone == MCPost("MILESTONE")
Question(secs) == [MCPost("NEEDS_INPUT") EXCEPT !.timeout = secs]
Attention == [Milestone EXCEPT !.attention = TRUE]
Restart   == [Attention EXCEPT !.restart = TRUE]
Garbage(t) == [MCPost(t) EXCEPT !.valid = FALSE]

FlushPosts     == {Milestone, MCPost("COMPLETED")}
QuestionPosts  == {Question(0), Question(1)}
AttentionPosts == {Attention, Restart, Question(1), Garbage("NEEDS_INPUT")}
LivePosts      == {Milestone, Question(1), MCPost("COMPLETED")}
PoisonPosts    == {Garbage("MILESTONE"), MCPost("COMPLETED")}
=============================================================================
