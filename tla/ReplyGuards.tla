---------------------------- MODULE ReplyGuards ----------------------------
(***************************************************************************)
(* The hooks around a turn of the operator's bot: the Stop hooks that do   *)
(* not let a turn end while a Telegram or Discord message is unanswered,   *)
(* and the gates in front of the Telegram send tools.  The hooks share no  *)
(* memory: they know the transcript, stop_hook_active and flag files in    *)
(* /tmp that count for ten minutes.  A hook that fails lets the turn or    *)
(* the call pass, and a flag that cannot be written or removed is let be.  *)
(*                                                                         *)
(* The session, its transcript and its tools are external: a turn starts   *)
(* with a prompt, or is continued without one; more prompts may come while *)
(* it runs; a blocked Stop makes it go on with stop_hook_active set.       *)
(***************************************************************************)
EXTENDS Integers, FiniteSets

CONSTANTS Prompts,     \* prompts in the order in which they come
          PromptInfo,  \* [channel, voice] of each
          Modes,       \* settings of the two guards: pairs <<telegram, discord>>
          MaxSends,    \* bound on the calls of a send tool
          MaxTurns     \* bound on the turns

Channels == {"telegram", "discord"}

ASSUME GuardAssumption ==
  /\ Prompts \subseteq Nat \ {0} /\ MaxSends \in Nat /\ MaxTurns \in Nat
  /\ DOMAIN PromptInfo = Prompts
  /\ \A p \in Prompts : PromptInfo[p].channel \in Channels \cup {"local"} /\ PromptInfo[p].voice \in BOOLEAN
  /\ Modes \subseteq {"off", "log", "block", "enforce"} \X {"off", "log", "block"}

VARIABLES
  mode,      \* <<telegram, discord>>
  prompt,    \* the last prompt in the transcript, 0 if there is none
  running,   \* does a turn run?
  active,    \* stop_hook_active
  results,   \* results of send tools since that prompt, with the tool
  long,      \* is the prompt more than 2 MB back?
  guard,     \* the prompt recorded in the guard flag of each channel, 0 if none
  heard,     \* does the heard-pending flag exist?
  sends, turns,
  (* history *)
  blocks,    \* blocked Stops of this turn
  opened,    \* did this turn end because a guard failed?
  reached,   \* prompts a reply to which has reached the operator
  relays,    \* relays of each prompt
  unnoted,   \* those that left no flag
  lapsed,    \* how often the guard flag of each prompt went stale
  stamps, denials,  \* transcriptions and denials of the heard gate
  stuck      \* denials that could not remove the flag

turn   == <<prompt, running, active, results, long>>
flags  == <<guard, heard>>
counts == <<sends, turns>>
facts  == <<blocks, opened, reached, relays, unnoted, lapsed, stamps, denials, stuck>>
guardVars == <<mode, turn, flags, counts, facts>>

Channel(p) == IF p = 0 THEN "none" ELSE PromptInfo[p].channel
-----------------------------------------------------------------------------
(* A result as the transcript shows it: is_error (which may be missing),   *)
(* whether its text looks like an error, and whether the reply went out.   *)
(* A call that failed shows it in one way or the other.                    *)
Result == {r \in [is_error : {"true", "false", "none"}, errorText : BOOLEAN, out : BOOLEAN] :
             /\ ~r.out => r.is_error = "true" \/ (r.is_error = "none" /\ r.errorText)
             /\ r.out => r.is_error # "true"}
Denied == [is_error |-> "true", errorText |-> TRUE, out |-> FALSE]

Successful(r) == r.is_error = "false" \/ (r.is_error = "none" /\ ~r.errorText)

(* Mutant: any call of the tool counts. *)
Called(tool) == \E r \in results : r[1] = tool
(* _check_reply_delivered of each guard.                                   *)
Delivered(tool)        == \E r \in results : r[1] = tool /\ Successful(r[2])
DiscordDelivered(tool) == \E r \in results : r[1] = tool /\ Successful(r[2])

(* The last 2 MB of the transcript, and the prompt found there.            *)
InSight == IF long THEN 0 ELSE prompt
DiscordInSight == IF long THEN 0 ELSE prompt
TelegramTurn == running /\ Channel(InSight) = "telegram" /\ mode[1] # "off"
DiscordTurn  == running /\ Channel(DiscordInSight) = "discord" /\ mode[2] # "off"
-----------------------------------------------------------------------------
GuardInit ==
  /\ mode \in Modes /\ prompt = 0 /\ running = FALSE /\ active = FALSE /\ results = {} /\ long = FALSE
  /\ guard = [c \in Channels |-> 0] /\ heard = FALSE /\ sends = 0 /\ turns = 0
  /\ blocks = 0 /\ opened = FALSE /\ reached = {} /\ relays = [p \in Prompts |-> 0]
  /\ unnoted = [p \in Prompts |-> 0] /\ lapsed = [p \in Prompts |-> 0]
  /\ stamps = 0 /\ denials = 0 /\ stuck = 0

TurnBegins ==
  /\ turns < MaxTurns /\ turns' = turns + 1
  /\ running' = TRUE /\ active' = FALSE /\ blocks' = 0 /\ opened' = FALSE

(* A prompt starts a turn or joins the one that runs.                      *)
Arrives(p) ==
  /\ prompt < p /\ prompt' = p /\ results' = {} /\ long' = FALSE
  /\ IF running THEN UNCHANGED <<running, active, turns, blocks, opened>> ELSE TurnBegins
  /\ UNCHANGED <<mode, flags, sends, reached, relays, unnoted, lapsed, stamps, denials, stuck>>

(* The session goes on without a prompt (--continue).                      *)
Continues ==
  /\ ~running /\ prompt # 0 /\ TurnBegins
  /\ UNCHANGED <<mode, prompt, results, long, flags, sends>>
  /\ UNCHANGED <<reached, relays, unnoted, lapsed, stamps, denials, stuck>>

GrowsLong ==
  /\ running /\ prompt # 0 /\ ~long /\ long' = TRUE
  /\ UNCHANGED <<mode, prompt, running, active, results, flags, counts, facts>>

(* A flag gets old, and the next hook that cares removes it, or it cannot  *)
(* be read: it counts no more.                                             *)
Lapse(c) ==
  /\ guard[c] # 0 /\ lapsed' = [lapsed EXCEPT ![guard[c]] = @ + 1]
  /\ guard' = [guard EXCEPT ![c] = 0]
  /\ UNCHANGED <<mode, turn, heard, counts, blocks, opened, reached, relays, unnoted, stamps, denials, stuck>>
LapseTelegram == Lapse("telegram")
LapseDiscord  == Lapse("discord")
LapseHeard ==
  /\ heard /\ heard' = FALSE
  /\ UNCHANGED <<mode, turn, guard, counts, facts>>

(* voice-stt has transcribed the voice note of the prompt; the flag may    *)
(* fail to be written.                                                     *)
Transcribed ==
  /\ running /\ prompt # 0 /\ PromptInfo[prompt].voice /\ stamps < MaxSends
  /\ heard' \in {heard, TRUE} /\ stamps' = stamps + 1
  /\ UNCHANGED <<mode, turn, guard, counts, blocks, opened, reached, relays, unnoted, lapsed, denials, stuck>>
-----------------------------------------------------------------------------
Body == [echo : BOOLEAN, shape : {"message", "document"}, bypass : BOOLEAN]
TextHeavy(b) == ~b.bypass /\ b.shape = "document"
HeardMissing(b) == heard /\ ~b.echo

(* Mutant: a denial leaves the flag for the retry. *)
KeptIfDenied(b, unlinked) == heard /\ (~b.echo \/ ~unlinked)
(* Accepted or denied, the heard flag is used up -- also when the other    *)
(* gate denies the call -- unless it cannot be removed.                    *)
HeardAfter(b, unlinked) == heard /\ ~unlinked

Answer(tool, r) ==
  /\ results' = results \cup {<<tool, r>>}
  /\ reached' = reached \cup (IF r.out /\ tool = Channel(prompt) THEN {prompt} ELSE {})
  /\ sends < MaxSends /\ sends' = sends + 1
  /\ UNCHANGED <<mode, prompt, running, active, long, guard, turns, blocks, opened, relays, unnoted, lapsed, stamps>>

(* A call of send_tg_reply or telegram__reply behind its two gates.        *)
SendTelegram(b, r) ==
  /\ running
  /\ \E unlinked \in BOOLEAN :
       /\ heard' = HeardAfter(b, unlinked)
       /\ stuck' = stuck + (IF HeardMissing(b) /\ ~unlinked THEN 1 ELSE 0)
  /\ HeardMissing(b) \/ TextHeavy(b) => r = Denied
  /\ denials' = denials + (IF HeardMissing(b) THEN 1 ELSE 0)
  /\ Answer("telegram", r)

SendDiscord(r) ==
  /\ running /\ Answer("discord", r)
  /\ UNCHANGED <<heard, denials, stuck>>
-----------------------------------------------------------------------------
EndsTurn == running' = FALSE /\ UNCHANGED <<prompt, active, results, long>>
Untouched == UNCHANGED <<mode, counts, opened, reached, unnoted, lapsed, stamps, denials, stuck>>

(* The Stop hooks let the turn end: it is not about a message they guard,  *)
(* they are off, or the prompt is out of sight.                            *)
TelegramExempt == ~TelegramTurn
DiscordExempt  == ~DiscordTurn
StopExempt ==
  /\ running /\ TelegramExempt /\ DiscordExempt
  /\ EndsTurn /\ Untouched /\ UNCHANGED <<flags, blocks, relays>>

TelegramOpen == TelegramTurn /\ guard["telegram"] # prompt /\ ~Delivered("telegram")
Relaying     == TelegramOpen /\ mode[1] = "enforce" /\ active
DiscordOpen  == DiscordTurn /\ guard["discord"] # prompt /\ ~DiscordDelivered("discord")

(* A guard that raises, is killed or cannot read the transcript fails open.*)
(* One that was about to relay may have used up the heard flag.            *)
FailsOpen ==
  /\ opened' = TRUE /\ EndsTurn
  /\ UNCHANGED <<mode, guard, counts, blocks, reached, relays, unnoted, lapsed, stamps, denials, stuck>>
TelegramFails ==
  /\ TelegramTurn /\ FailsOpen
  /\ heard' \in {heard} \cup (IF Relaying THEN {FALSE} ELSE {})
DiscordFails == DiscordTurn /\ FailsOpen /\ UNCHANGED heard

(* The guard flag after its write: the prompt, or, if the write fails or   *)
(* the hook dies before it, what it was, or nothing.                       *)
RecordedPrompt(c) == [guard EXCEPT ![c] = prompt]
Unrecorded(c) == {guard, [guard EXCEPT ![c] = 0]}
Records(c) == guard' \in {RecordedPrompt(c)} \cup Unrecorded(c)

TelegramSatisfied ==
  /\ TelegramTurn /\ guard["telegram"] = prompt
  /\ EndsTurn /\ Untouched /\ UNCHANGED <<flags, blocks, relays>>
TelegramDelivered ==
  /\ TelegramTurn /\ guard["telegram"] # prompt /\ Delivered("telegram")
  /\ Records("telegram")
  /\ EndsTurn /\ Untouched /\ UNCHANGED <<heard, blocks, relays>>

TelegramLogs ==
  /\ TelegramOpen /\ mode[1] = "log"
  /\ EndsTurn /\ Untouched /\ UNCHANGED <<flags, blocks, relays>>

(* Mutant: a turn is blocked until it has its reply. *)
BlockAlways ==
  /\ TelegramOpen /\ mode[1] # "log"
  /\ active' = TRUE /\ blocks' = blocks + 1
  /\ UNCHANGED <<prompt, running, results, long, flags, relays>> /\ Untouched
TelegramBlocks ==
  /\ TelegramOpen /\ mode[1] # "log" /\ ~active
  /\ active' = TRUE /\ blocks' = blocks + 1
  /\ UNCHANGED <<prompt, running, results, long, flags, relays>> /\ Untouched
TelegramAllows ==
  /\ TelegramOpen /\ mode[1] = "block" /\ active
  /\ EndsTurn /\ Untouched /\ UNCHANGED <<flags, blocks, relays>>

(* Mutant: a relay is not recorded. *)
NotRecorded == guard
RecordedRelay == RecordedPrompt("telegram")
(* The text goes out by curl, whose failure is only logged; the flag is    *)
(* written either way, and the heard flag is used up.  The write may fail  *)
(* or the hook die before it; so may the removal of the heard flag.        *)
TelegramRelays ==
  /\ Relaying
  /\ relays' = [relays EXCEPT ![prompt] = @ + 1]
  /\ reached' \in {reached, reached \cup {prompt}} /\ heard' \in {heard, FALSE}
  /\ \/ guard' = RecordedRelay /\ UNCHANGED unnoted
     \/ guard' \in Unrecorded("telegram") /\ unnoted' = [unnoted EXCEPT ![prompt] = @ + 1]
  /\ EndsTurn /\ UNCHANGED <<mode, counts, blocks, opened, lapsed, stamps, denials, stuck>>

DiscordSatisfied ==
  /\ DiscordTurn /\ guard["discord"] = prompt
  /\ EndsTurn /\ Untouched /\ UNCHANGED <<flags, blocks, relays>>
DiscordRecords ==
  /\ DiscordTurn /\ guard["discord"] # prompt /\ DiscordDelivered("discord")
  /\ Records("discord")
  /\ EndsTurn /\ Untouched /\ UNCHANGED <<heard, blocks, relays>>

DiscordLogs ==
  /\ DiscordOpen /\ mode[2] = "log"
  /\ EndsTurn /\ Untouched /\ UNCHANGED <<flags, blocks, relays>>
DiscordBlocks ==
  /\ DiscordOpen /\ mode[2] = "block" /\ ~active
  /\ active' = TRUE /\ blocks' = blocks + 1
  /\ UNCHANGED <<prompt, running, results, long, flags, relays>> /\ Untouched
DiscordAllows ==
  /\ DiscordOpen /\ mode[2] = "block" /\ active
  /\ Records("discord")
  /\ EndsTurn /\ Untouched /\ UNCHANGED <<heard, blocks, relays>>
-----------------------------------------------------------------------------
GuardNext ==
  \/ \E p \in Prompts : Arrives(p)
  \/ Continues \/ GrowsLong \/ LapseTelegram \/ LapseDiscord \/ LapseHeard \/ Transcribed
  \/ \E r \in Result : SendDiscord(r) \/ \E b \in Body : SendTelegram(b, r)
  \/ StopExempt \/ TelegramFails \/ DiscordFails
  \/ TelegramSatisfied \/ TelegramDelivered \/ TelegramLogs \/ TelegramBlocks \/ TelegramAllows \/ TelegramRelays
  \/ DiscordSatisfied \/ DiscordRecords \/ DiscordLogs \/ DiscordBlocks \/ DiscordAllows

GuardSpec == GuardInit /\ [][GuardNext]_guardVars
-----------------------------------------------------------------------------
TurnOK ==
  /\ mode \in Modes /\ prompt \in Prompts \cup {0} /\ running \in BOOLEAN /\ active \in BOOLEAN
  /\ results \subseteq Channels \X Result /\ long \in BOOLEAN
FlagsOK ==
  /\ guard \in [Channels -> Prompts \cup {0}] /\ heard \in BOOLEAN
  /\ stamps \in Nat /\ denials \in Nat /\ stuck \in Nat
FactsOK ==
  /\ sends \in 0..MaxSends /\ turns \in 0..MaxTurns /\ blocks \in Nat /\ opened \in BOOLEAN
  /\ reached \subseteq Prompts /\ relays \in [Prompts -> Nat]
  /\ unnoted \in [Prompts -> Nat] /\ lapsed \in [Prompts -> Nat]
GuardTypeOK == TurnOK /\ FlagsOK /\ FactsOK

(* A guard cannot keep a turn going: of one turn at most one Stop is       *)
(* blocked, by both guards together, whatever prompts join it and whatever *)
(* happens to the flags ("cannot loop forever").                           *)
BlockedOnce == blocks <= 1

(* A turn on a message ends unanswered only after its Stop was blocked     *)
(* and, where Telegram is enforced, its text relayed (a relay is a try: a  *)
(* curl that fails is only logged) -- or because a guard failed open.      *)
(* This is said of the last prompt of a turn that the guards could see, in *)
(* the modes that guard it; a flag of the prompt, there or lapsed, tells   *)
(* of an earlier turn on it.                                               *)
Guarded ==
  \/ Channel(prompt) = "telegram" /\ mode[1] \in {"block", "enforce"}
  \/ Channel(prompt) = "discord" /\ mode[2] = "block"
NotSilent ==
  ~running /\ prompt # 0 /\ ~long /\ Guarded /\ ~opened /\ prompt \notin reached =>
    IF Channel(prompt) = "telegram" /\ mode[1] = "enforce" THEN relays[prompt] > 0
    ELSE blocks = 1 \/ lapsed[prompt] > 0 \/ guard[Channel(prompt)] = prompt

(* A message is relayed once ("Dedup / --continue guard"), and again only  *)
(* for each time that its flag went stale or a relay left none.            *)
RelayedOnce == \A p \in Prompts : relays[p] <= 1 + lapsed[p] + unnoted[p]

(* The heard gate denies at most one send for each transcription, so a     *)
(* retry is not denied again ("doesn't double-deny"), unless the denial    *)
(* could not remove the flag.                                              *)
DeniedOnce == denials + (IF heard THEN 1 ELSE 0) <= stamps + stuck
=============================================================================
