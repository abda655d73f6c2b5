------------------------- MODULE ReplyGuardsProofs -------------------------
(***************************************************************************)
(* What the hooks around a turn promise, for any prompts, settings and     *)
(* bounds.                                                                 *)
(***************************************************************************)
EXTENDS ReplyGuards, TLAPS

(* stop_hook_active says exactly that this turn has been blocked once.     *)
ActiveIfBlocked == blocks \in {0, 1} /\ (active <=> blocks = 1)

(* A prompt was relayed as often as its flag lapsed or was not written,    *)
(* and once more if it has its flag or another prompt has come since; a    *)
(* flag is of no later prompt.                                             *)
RelayLeavesFlag ==
  /\ guard["telegram"] <= prompt
  /\ \A p \in Prompts :
       relays[p] <= lapsed[p] + unnoted[p] + (IF guard["telegram"] = p \/ p < prompt THEN 1 ELSE 0)

(* The flag of a Telegram prompt was earned.                               *)
FlagEarned == guard["telegram"] # 0 => guard["telegram"] \in reached \/ relays[guard["telegram"]] > 0

(* A success that the transcript shows has reached the operator.           *)
SuccessReaches == \A r \in results : r[1] = Channel(prompt) /\ Successful(r[2]) => prompt \in reached

GuardInv == GuardTypeOK /\ ActiveIfBlocked /\ RelayLeavesFlag /\ FlagEarned /\ SuccessReaches /\ NotSilent /\ DeniedOnce
-----------------------------------------------------------------------------
USE DEF turn, flags, counts, facts, guardVars, EndsTurn, Untouched

(* A step preserves P if each action does.                                 *)
LEMMA GuardStep ==
  ASSUME NEW P,
         GuardNext \/ UNCHANGED guardVars,
         \A p \in Prompts : Arrives(p) => P,
         Continues => P, GrowsLong => P,
         LapseTelegram => P, LapseDiscord => P, LapseHeard => P, Transcribed => P,
         \A r \in Result : SendDiscord(r) => P,
         \A r \in Result, b \in Body : SendTelegram(b, r) => P,
         StopExempt => P, TelegramFails => P, DiscordFails => P,
         TelegramSatisfied => P, TelegramDelivered => P, TelegramLogs => P,
         TelegramBlocks => P, TelegramAllows => P, TelegramRelays => P,
         DiscordSatisfied => P, DiscordRecords => P, DiscordLogs => P, DiscordBlocks => P, DiscordAllows => P,
         UNCHANGED guardVars => P
  PROVE  P
BY Zenon DEF GuardNext

LEMMA PromptType ==
  ASSUME GuardAssumption, TurnOK, FlagsOK
  PROVE  /\ Prompts \subseteq Nat /\ 0 \notin Prompts
         /\ prompt \in Nat /\ (prompt # 0 => prompt \in Prompts)
         /\ "telegram" \in Channels /\ "discord" \in Channels
         /\ guard["telegram"] \in Nat /\ guard["telegram"] \in Prompts \cup {0}
         /\ guard["discord"] \in Prompts \cup {0}
<1>1. Prompts \subseteq Nat /\ 0 \notin Prompts
  BY DEF GuardAssumption
<1>2. "telegram" \in Channels /\ "discord" \in Channels
  BY DEF Channels
<1>3. guard["telegram"] \in Prompts \cup {0} /\ guard["discord"] \in Prompts \cup {0}
  BY <1>2 DEF FlagsOK
<1>4. prompt \in Prompts \cup {0}
  BY DEF TurnOK
<1>5. \A n \in Prompts \cup {0} : n \in Nat /\ (n # 0 => n \in Prompts)
  BY <1>1
<1>. QED
  BY <1>1, <1>2, <1>3, <1>4, <1>5, Zenon

(* A guard flag after its write, whether it succeeds or fails.             *)
LEMMA Recording ==
  ASSUME TurnOK, FlagsOK, NEW c \in Channels, Records(c)
  PROVE  /\ guard' \in [Channels -> Prompts \cup {0}] /\ guard'[c] \in {prompt, guard[c], 0}
         /\ \A d \in Channels \ {c} : guard'[d] = guard[d]
BY DEF Records, RecordedPrompt, Unrecorded, TurnOK, FlagsOK

LEMMA RelayRecords ==
  ASSUME TelegramRelays
  PROVE  Records("telegram")
BY DEF TelegramRelays, RecordedRelay, Records

LEMMA LapseKeeps ==
  ASSUME GuardAssumption, FlagsOK, FactsOK, NEW c \in Channels, Lapse(c)
  PROVE  /\ guard' \in [Channels -> Prompts \cup {0}] /\ guard'[c] = 0
         /\ \A d \in Channels \ {c} : guard'[d] = guard[d]
         /\ lapsed' \in [Prompts -> Nat] /\ \A p \in Prompts : lapsed'[p] >= lapsed[p]
         /\ guard[c] \in Prompts /\ lapsed'[guard[c]] = lapsed[guard[c]] + 1
<1>1. guard[c] \in Prompts /\ guard \in [Channels -> Prompts \cup {0}] /\ lapsed \in [Prompts -> Nat]
  BY DEF FlagsOK, FactsOK, Lapse
<1>2. lapsed' = [lapsed EXCEPT ![guard[c]] = @ + 1] /\ guard' = [guard EXCEPT ![c] = 0]
  BY DEF Lapse
<1>3. /\ guard' \in [Channels -> Prompts \cup {0}] /\ guard'[c] = 0
      /\ \A d \in Channels \ {c} : guard'[d] = guard[d]
  BY <1>1, <1>2
<1>4. lapsed[guard[c]] \in Nat /\ lapsed[guard[c]] + 1 \in Nat
  <2>1. \A p \in Prompts : lapsed[p] \in Nat
    BY <1>1
  <2>2. lapsed[guard[c]] \in Nat
    BY <1>1, <2>1, Zenon
  <2>. QED
    BY <2>2
<1>5. lapsed' \in [Prompts -> Nat] /\ lapsed'[guard[c]] = lapsed[guard[c]] + 1
  BY <1>1, <1>2, <1>4
<1>6. ASSUME NEW p \in Prompts PROVE lapsed'[p] >= lapsed[p]
  <2>1. CASE p = guard[c]
    BY <1>4, <1>5, <2>1
  <2>2. CASE p # guard[c]
    <3>1. lapsed'[p] = lapsed[p] /\ lapsed[p] \in Nat
      BY <1>1, <1>2, <2>2
    <3>. QED
      BY <3>1
  <2>. QED
    BY <2>1, <2>2
<1>. QED
  BY <1>1, <1>3, <1>5, <1>6

(* A prompt with a channel is a prompt.                                    *)
LEMMA GuardedIsPrompt ==
  ASSUME Channel(prompt) # "none" \/ TelegramTurn \/ DiscordTurn, TurnOK
  PROVE  prompt \in Prompts
<1>1. Channel(0) = "none" /\ Channel(prompt) # "none"
  BY DEF TelegramTurn, DiscordTurn, InSight, DiscordInSight, Channel
<1>. QED
  BY <1>1 DEF TurnOK
-----------------------------------------------------------------------------
LEMMA TurnStep ==
  ASSUME TurnOK, GuardNext \/ UNCHANGED guardVars
  PROVE  TurnOK'
<1>1. UNCHANGED <<mode, prompt, running, active, results, long>> => TurnOK'
  BY DEF TurnOK
<1>2. mode' = mode /\ EndsTurn => TurnOK'
  BY DEF TurnOK
<1>3. ASSUME NEW p \in Prompts, Arrives(p) PROVE TurnOK'
  BY <1>3 DEF Arrives, TurnBegins, TurnOK
<1>4. Continues => TurnOK'
  BY DEF Continues, TurnBegins, TurnOK
<1>5. GrowsLong => TurnOK'
  BY DEF GrowsLong, TurnOK
<1>6. ASSUME NEW tool \in Channels, NEW r \in Result, Answer(tool, r) PROVE TurnOK'
  BY <1>6 DEF Answer, TurnOK
<1>7. \A r \in Result : SendDiscord(r) => TurnOK'
  BY <1>6 DEF SendDiscord, Channels
<1>8. \A r \in Result, b \in Body : SendTelegram(b, r) => TurnOK'
  BY <1>6 DEF SendTelegram, Channels
<1>9. LapseTelegram \/ LapseDiscord \/ LapseHeard \/ Transcribed \/ UNCHANGED guardVars
        => UNCHANGED <<mode, prompt, running, active, results, long>>
  BY DEF LapseTelegram, LapseDiscord, Lapse, LapseHeard, Transcribed
<1>10. \/ StopExempt \/ TelegramFails \/ DiscordFails \/ TelegramSatisfied \/ TelegramDelivered \/ TelegramLogs \/ TelegramAllows \/ TelegramRelays
       \/ DiscordSatisfied \/ DiscordRecords \/ DiscordLogs \/ DiscordAllows
       => mode' = mode /\ EndsTurn
  BY DEF StopExempt, TelegramFails, DiscordFails, FailsOpen, TelegramSatisfied, TelegramDelivered, TelegramLogs, TelegramAllows, TelegramRelays,
         DiscordSatisfied, DiscordRecords, DiscordLogs, DiscordAllows
<1>11. TelegramBlocks \/ DiscordBlocks => TurnOK'
  BY DEF TelegramBlocks, DiscordBlocks, TurnOK
<1>. HIDE DEF EndsTurn
<1>. QED
  BY <1>1, <1>2, <1>3, <1>4, <1>5, <1>7, <1>8, <1>9, <1>10, <1>11, GuardStep, Zenon

LEMMA FlagsStep ==
  ASSUME GuardAssumption, TurnOK, FlagsOK, FactsOK, GuardNext \/ UNCHANGED guardVars
  PROVE  FlagsOK'
<1>0. "telegram" \in Channels /\ "discord" \in Channels
  BY DEF Channels
<1>1. UNCHANGED <<flags, stamps, denials, stuck>> => FlagsOK'
  BY DEF FlagsOK
<1>2. ASSUME NEW c \in Channels, Records(c), heard' \in BOOLEAN, UNCHANGED <<stamps, denials, stuck>>
      PROVE  FlagsOK'
  BY <1>2, Recording DEF FlagsOK
<1>3. ASSUME NEW c \in Channels, Lapse(c) PROVE FlagsOK'
  <2>1. UNCHANGED <<heard, stamps, denials, stuck>>
    BY <1>3 DEF Lapse
  <2>. QED
    BY <1>3, <2>1, LapseKeeps DEF FlagsOK
<1>4. LapseTelegram \/ LapseDiscord => FlagsOK'
  BY <1>0, <1>3 DEF LapseTelegram, LapseDiscord
<1>5. LapseHeard => FlagsOK'
  BY DEF LapseHeard, FlagsOK
<1>6. ASSUME Transcribed PROVE FlagsOK'
  <2>1. heard' \in {heard, TRUE} /\ stamps' = stamps + 1 /\ UNCHANGED <<guard, denials, stuck>>
    BY <1>6 DEF Transcribed
  <2>2. heard' \in BOOLEAN
    BY <2>1 DEF FlagsOK
  <2>3. stamps' \in Nat
    BY <2>1 DEF FlagsOK
  <2>. QED
    BY <2>1, <2>2, <2>3 DEF FlagsOK
<1>7. ASSUME NEW r \in Result, NEW b \in Body, SendTelegram(b, r) PROVE FlagsOK'
  <2>1. heard' \in BOOLEAN /\ UNCHANGED <<guard, stamps>>
    BY <1>7 DEF SendTelegram, Answer, HeardAfter
  <2>2. denials' = denials + (IF HeardMissing(b) THEN 1 ELSE 0)
    BY <1>7 DEF SendTelegram
  <2>3. denials' \in Nat
    BY <2>2 DEF FlagsOK
  <2>4. PICK unlinked \in BOOLEAN : stuck' = stuck + (IF HeardMissing(b) /\ ~unlinked THEN 1 ELSE 0)
    BY <1>7 DEF SendTelegram
  <2>5. stuck' \in Nat
    BY <2>4 DEF FlagsOK
  <2>. QED
    BY <2>1, <2>3, <2>5 DEF FlagsOK
<1>8. \A r \in Result : SendDiscord(r) => UNCHANGED <<flags, stamps, denials, stuck>>
  BY DEF SendDiscord, Answer
<1>9. TelegramDelivered \/ DiscordRecords \/ DiscordAllows => FlagsOK'
  BY <1>0, <1>2 DEF TelegramDelivered, DiscordRecords, DiscordAllows, FlagsOK
<1>10. TelegramRelays => FlagsOK'
  <2>1. TelegramRelays => heard' \in BOOLEAN /\ UNCHANGED <<stamps, denials, stuck>>
    BY DEF TelegramRelays, FlagsOK
  <2>. QED
    BY <1>0, <1>2, <2>1, RelayRecords
<1>11. TelegramFails \/ DiscordFails => FlagsOK'
  BY DEF TelegramFails, DiscordFails, FailsOpen, FlagsOK
<1>12. \/ Continues \/ GrowsLong \/ StopExempt \/ TelegramSatisfied \/ TelegramLogs \/ TelegramBlocks \/ TelegramAllows
       \/ DiscordSatisfied \/ DiscordLogs \/ DiscordBlocks \/ UNCHANGED guardVars
       => UNCHANGED <<flags, stamps, denials, stuck>>
  BY DEF Continues, GrowsLong, StopExempt, TelegramSatisfied, TelegramLogs, TelegramBlocks, TelegramAllows,
         DiscordSatisfied, DiscordLogs, DiscordBlocks
<1>13. \A p \in Prompts : Arrives(p) => UNCHANGED <<flags, stamps, denials, stuck>>
  BY DEF Arrives
<1>. QED
  BY <1>1, <1>4, <1>5, <1>6, <1>7, <1>8, <1>9, <1>10, <1>11, <1>12, <1>13, GuardStep, Zenon

LEMMA FactsStep ==
  ASSUME GuardAssumption, TurnOK, FlagsOK, FactsOK, GuardNext \/ UNCHANGED guardVars
  PROVE  FactsOK'
<1>1. UNCHANGED <<counts, blocks, opened, reached, relays, unnoted, lapsed>> => FactsOK'
  BY DEF FactsOK
<1>2. MaxSends \in Nat /\ MaxTurns \in Nat
  BY DEF GuardAssumption
<1>15. ASSUME TurnBegins, UNCHANGED <<sends, reached, relays, unnoted, lapsed>> PROVE FactsOK'
  <2>1. turns' \in 0..MaxTurns /\ blocks' = 0 /\ opened' = FALSE
    BY <1>2, <1>15 DEF TurnBegins, FactsOK
  <2>. QED
    BY <1>15, <2>1 DEF FactsOK
<1>3. ASSUME NEW p \in Prompts, Arrives(p) PROVE FactsOK'
  <2>1. UNCHANGED <<sends, reached, relays, unnoted, lapsed>>
    BY <1>3 DEF Arrives
  <2>2. CASE running
    BY <1>1, <1>3, <2>1, <2>2 DEF Arrives
  <2>3. CASE ~running
    BY <1>3, <1>15, <2>1, <2>3 DEF Arrives
  <2>. QED
    BY <2>2, <2>3
<1>4. Continues => FactsOK'
  BY <1>15 DEF Continues
<1>5. ASSUME NEW c \in Channels, Lapse(c) PROVE FactsOK'
  <2>1. UNCHANGED <<counts, blocks, opened, reached, relays, unnoted>>
    BY <1>5 DEF Lapse
  <2>. QED
    BY <1>5, <2>1, LapseKeeps DEF FactsOK
<1>6. LapseTelegram \/ LapseDiscord => FactsOK'
  BY <1>5 DEF LapseTelegram, LapseDiscord, Channels
<1>7. ASSUME NEW tool \in Channels, NEW r \in Result, Answer(tool, r) PROVE FactsOK'
  <2>1. r.out /\ tool = Channel(prompt) => prompt \in Prompts
    BY GuardedIsPrompt DEF Channels
  <2>2. reached' \subseteq Prompts
    BY <1>7, <2>1 DEF Answer, FactsOK
  <2>3. sends' \in 0..MaxSends
    BY <1>2, <1>7 DEF Answer, FactsOK
  <2>. QED
    BY <1>7, <2>2, <2>3 DEF Answer, FactsOK
<1>8. \A r \in Result : SendDiscord(r) => FactsOK'
  BY <1>7 DEF SendDiscord, Channels
<1>9. \A r \in Result, b \in Body : SendTelegram(b, r) => FactsOK'
  BY <1>7 DEF SendTelegram, Channels
<1>10. ASSUME TelegramBlocks \/ DiscordBlocks PROVE FactsOK'
  <2>1. blocks' = blocks + 1 /\ UNCHANGED <<counts, opened, reached, relays, unnoted, lapsed>>
    BY <1>10 DEF TelegramBlocks, DiscordBlocks
  <2>2. blocks' \in Nat
    BY <2>1 DEF FactsOK
  <2>. QED
    BY <2>1, <2>2 DEF FactsOK
<1>11. ASSUME TelegramRelays PROVE FactsOK'
  <2>1. relays' = [relays EXCEPT ![prompt] = @ + 1] /\ UNCHANGED <<counts, blocks, opened, lapsed>>
    BY <1>11 DEF TelegramRelays
  <2>2. TelegramTurn
    BY <1>11 DEF TelegramRelays, Relaying, TelegramOpen
  <2>3. prompt \in Prompts
    BY <2>2, GuardedIsPrompt
  <2>4. relays \in [Prompts -> Nat] /\ unnoted \in [Prompts -> Nat]
    BY DEF FactsOK
  <2>5. relays[prompt] + 1 \in Nat /\ unnoted[prompt] + 1 \in Nat
    BY <2>3, <2>4
  <2>6. relays' \in [Prompts -> Nat]
    BY <2>1, <2>3, <2>4, <2>5
  <2>7. unnoted' \in {unnoted, [unnoted EXCEPT ![prompt] = @ + 1]}
    BY <1>11 DEF TelegramRelays
  <2>8. unnoted' \in [Prompts -> Nat]
    BY <2>3, <2>4, <2>5, <2>7
  <2>9. reached' \subseteq Prompts
    BY <1>11, <2>3 DEF TelegramRelays, FactsOK
  <2>. QED
    BY <2>1, <2>6, <2>8, <2>9 DEF FactsOK
<1>12. GrowsLong \/ LapseHeard \/ Transcribed \/ UNCHANGED guardVars => UNCHANGED <<counts, blocks, opened, reached, relays, unnoted, lapsed>>
  BY DEF GrowsLong, LapseHeard, Transcribed
<1>13. \/ StopExempt \/ TelegramSatisfied \/ TelegramDelivered \/ TelegramLogs \/ TelegramAllows
       \/ DiscordSatisfied \/ DiscordRecords \/ DiscordLogs \/ DiscordAllows
       => UNCHANGED <<counts, blocks, opened, reached, relays, unnoted, lapsed>>
  BY DEF StopExempt, TelegramSatisfied, TelegramDelivered, TelegramLogs, TelegramAllows,
         DiscordSatisfied, DiscordRecords, DiscordLogs, DiscordAllows
<1>14. TelegramFails \/ DiscordFails => FactsOK'
  BY DEF TelegramFails, DiscordFails, FailsOpen, FactsOK
<1>. QED
  BY <1>1, <1>3, <1>4, <1>6, <1>8, <1>9, <1>10, <1>11, <1>12, <1>13, <1>14, GuardStep, Zenon
-----------------------------------------------------------------------------
LEMMA BlockedStep ==
  ASSUME ActiveIfBlocked, TurnOK, GuardNext \/ UNCHANGED guardVars
  PROVE  ActiveIfBlocked'
<1>1. UNCHANGED <<active, blocks>> => ActiveIfBlocked'
  BY DEF ActiveIfBlocked
<1>2. (\E p \in Prompts : Arrives(p)) \/ Continues => ActiveIfBlocked'
  BY DEF Arrives, Continues, TurnBegins, ActiveIfBlocked
<1>3. TelegramBlocks \/ DiscordBlocks => ActiveIfBlocked'
  BY DEF TelegramBlocks, DiscordBlocks, ActiveIfBlocked
<1>4. GrowsLong \/ LapseTelegram \/ LapseDiscord \/ LapseHeard \/ Transcribed => UNCHANGED <<active, blocks>>
  BY DEF GrowsLong, LapseTelegram, LapseDiscord, Lapse, LapseHeard, Transcribed
<1>5. /\ \A r \in Result : SendDiscord(r) => UNCHANGED <<active, blocks>>
      /\ \A r \in Result, b \in Body : SendTelegram(b, r) => UNCHANGED <<active, blocks>>
  BY DEF SendDiscord, SendTelegram, Answer
<1>6. \/ StopExempt \/ TelegramSatisfied \/ TelegramDelivered \/ TelegramLogs \/ TelegramAllows \/ TelegramRelays
      \/ DiscordSatisfied \/ DiscordRecords \/ DiscordLogs \/ DiscordAllows \/ UNCHANGED guardVars
      \/ TelegramFails \/ DiscordFails
      => UNCHANGED <<active, blocks>>
  BY DEF StopExempt, TelegramFails, DiscordFails, FailsOpen, TelegramSatisfied, TelegramDelivered, TelegramLogs, TelegramAllows, TelegramRelays,
         DiscordSatisfied, DiscordRecords, DiscordLogs, DiscordAllows
<1>. QED
  BY <1>1, <1>2, <1>3, <1>4, <1>5, <1>6, GuardStep, Zenon

LEMMA DeniedStep ==
  ASSUME DeniedOnce, FlagsOK, GuardNext \/ UNCHANGED guardVars
  PROVE  DeniedOnce'
<1>. USE DEF DeniedOnce
<1>1. stamps \in Nat /\ denials \in Nat /\ stuck \in Nat /\ heard \in BOOLEAN
  BY DEF FlagsOK
<1>2. ASSUME heard' = heard \/ ~heard', UNCHANGED <<stamps, denials, stuck>> PROVE DeniedOnce'
  <2>1. CASE heard' = heard
    BY <1>2, <2>1
  <2>2. CASE ~heard'
    BY <1>1, <1>2, <2>2
  <2>. QED
    BY <1>2, <2>1, <2>2
<1>3. Transcribed => DeniedOnce'
  BY <1>1 DEF Transcribed
<1>4. ASSUME NEW r \in Result, NEW b \in Body, SendTelegram(b, r) PROVE DeniedOnce'
  <2>1. PICK unlinked \in BOOLEAN :
          /\ heard' = HeardAfter(b, unlinked)
          /\ stuck' = stuck + (IF HeardMissing(b) /\ ~unlinked THEN 1 ELSE 0)
    BY <1>4 DEF SendTelegram
  <2>2. denials' = denials + (IF HeardMissing(b) THEN 1 ELSE 0) /\ stamps' = stamps
    BY <1>4 DEF SendTelegram, Answer
  <2>5. (heard' => heard /\ ~unlinked) /\ (heard /\ ~unlinked => heard')
    BY <2>1, Zenon DEF HeardAfter
  <2>3. CASE heard
    <3>1. CASE HeardMissing(b) /\ ~unlinked
      <4>1. stuck' = stuck + 1 /\ denials' = denials + 1
        BY <2>1, <2>2, <3>1
      <4>. QED
        BY <1>1, <2>2, <2>3, <4>1
    <3>2. CASE HeardMissing(b) /\ unlinked
      <4>2. ~heard'
        BY <2>5, <3>2, Zenon
      <4>3. stuck' = stuck
        BY <1>1, <2>1, <3>2
      <4>1. stuck' = stuck /\ denials' = denials + 1 /\ ~heard'
        BY <2>2, <3>2, <4>2, <4>3
      <4>. QED
        BY <1>1, <2>2, <2>3, <4>1
    <3>3. CASE ~HeardMissing(b)
      <4>1. stuck' = stuck /\ denials' = denials
        BY <1>1, <2>1, <2>2, <3>3
      <4>. QED
        BY <1>1, <2>2, <2>3, <4>1
    <3>. QED
      BY <3>1, <3>2, <3>3
  <2>4. CASE ~heard
    BY <1>1, <2>1, <2>2, <2>4 DEF HeardAfter, HeardMissing
  <2>. QED
    BY <2>3, <2>4
<1>5. \A p \in Prompts : Arrives(p) => (heard' = heard \/ ~heard') /\ UNCHANGED <<stamps, denials, stuck>>
  BY DEF Arrives
<1>6. Continues \/ GrowsLong \/ LapseTelegram \/ LapseDiscord \/ LapseHeard
        => (heard' = heard \/ ~heard') /\ UNCHANGED <<stamps, denials, stuck>>
  BY DEF Continues, GrowsLong, LapseTelegram, LapseDiscord, Lapse, LapseHeard
<1>7. \A r \in Result : SendDiscord(r) => (heard' = heard \/ ~heard') /\ UNCHANGED <<stamps, denials, stuck>>
  BY DEF SendDiscord, Answer
<1>8. \/ StopExempt \/ TelegramSatisfied \/ TelegramDelivered \/ TelegramLogs \/ TelegramBlocks \/ TelegramAllows
      \/ TelegramRelays \/ DiscordSatisfied \/ DiscordRecords \/ DiscordLogs \/ DiscordBlocks \/ DiscordAllows
      \/ TelegramFails \/ DiscordFails \/ UNCHANGED guardVars
      => (heard' = heard \/ ~heard') /\ UNCHANGED <<stamps, denials, stuck>>
  BY DEF StopExempt, TelegramFails, DiscordFails, FailsOpen, FlagsOK, TelegramSatisfied, TelegramDelivered, TelegramLogs, TelegramBlocks, TelegramAllows, TelegramRelays,
         DiscordSatisfied, DiscordRecords, DiscordLogs, DiscordBlocks, DiscordAllows
<1>. HIDE DEF DeniedOnce
<1>. QED
  BY <1>2, <1>3, <1>4, <1>5, <1>6, <1>7, <1>8, GuardStep, Zenon
-----------------------------------------------------------------------------
(* A turn that a guard looks at is in sight of it.                         *)
LEMMA TurnSeen ==
  /\ TelegramTurn => running /\ ~long /\ InSight = prompt /\ Channel(prompt) = "telegram"
  /\ DiscordTurn => running /\ ~long /\ DiscordInSight = prompt /\ Channel(prompt) = "discord"
<1>1. Channel(0) = "none"
  BY DEF Channel
<1>2. TelegramTurn => ~long
  BY <1>1 DEF TelegramTurn, InSight
<1>3. DiscordTurn => ~long
  BY <1>1 DEF DiscordTurn, DiscordInSight
<1>. QED
  BY <1>2, <1>3 DEF TelegramTurn, DiscordTurn, InSight, DiscordInSight

(* The Stop hooks of one turn leave the prompt and what has arrived alone. *)
LEMMA StopsKeep ==
  ASSUME \/ StopExempt \/ TelegramFails \/ DiscordFails \/ TelegramSatisfied \/ TelegramDelivered \/ TelegramLogs \/ TelegramBlocks \/ TelegramAllows
         \/ TelegramRelays \/ DiscordSatisfied \/ DiscordRecords \/ DiscordLogs \/ DiscordBlocks \/ DiscordAllows
  PROVE  UNCHANGED <<mode, prompt, results, long, lapsed>> /\ reached \subseteq reached'
BY DEF StopExempt, TelegramFails, DiscordFails, FailsOpen, TelegramSatisfied, TelegramDelivered, TelegramLogs, TelegramBlocks, TelegramAllows, TelegramRelays,
       DiscordSatisfied, DiscordRecords, DiscordLogs, DiscordBlocks, DiscordAllows

LEMMA RelayStep ==
  ASSUME GuardAssumption, TurnOK, FlagsOK, FactsOK, RelayLeavesFlag, GuardNext \/ UNCHANGED guardVars
  PROVE  RelayLeavesFlag'
<1>. DEFINE g == guard["telegram"]
            Same == UNCHANGED <<prompt, relays, unnoted>>
<1>0. /\ Prompts \subseteq Nat /\ 0 \notin Prompts /\ prompt \in Nat /\ g \in Nat /\ g \in Prompts \cup {0}
      /\ relays \in [Prompts -> Nat] /\ unnoted \in [Prompts -> Nat] /\ lapsed \in [Prompts -> Nat]
      /\ "telegram" \in Channels /\ "discord" \in Channels
  BY PromptType DEF FactsOK
<1>1. Same /\ UNCHANGED <<guard, lapsed>> => RelayLeavesFlag'
  BY DEF RelayLeavesFlag
<1>2. ASSUME Same, lapsed' = lapsed, guard'["telegram"] = g PROVE RelayLeavesFlag'
  BY <1>2 DEF RelayLeavesFlag
<1>3. ASSUME Same, lapsed' = lapsed, g # prompt, guard'["telegram"] \in {prompt, g, 0} PROVE RelayLeavesFlag'
  <2>1. guard'["telegram"] <= prompt' /\ g < prompt
    BY <1>0, <1>3 DEF RelayLeavesFlag
  <2>2. ASSUME NEW p \in Prompts
        PROVE  relays'[p] <= lapsed'[p] + unnoted'[p] + (IF guard'["telegram"] = p \/ p < prompt' THEN 1 ELSE 0)
    BY <1>0, <1>3, <2>1 DEF RelayLeavesFlag
  <2>. QED
    BY <2>1, <2>2 DEF RelayLeavesFlag
<1>4. ASSUME NEW p \in Prompts, Arrives(p) PROVE RelayLeavesFlag'
  <2>1. prompt' = p /\ prompt < p /\ UNCHANGED <<guard, relays, unnoted, lapsed>>
    BY <1>4 DEF Arrives
  <2>4. g <= prompt /\ guard'["telegram"] = g
    BY <2>1 DEF RelayLeavesFlag
  <2>5. p \in Nat
    BY <1>0
  <2>2. guard'["telegram"] <= prompt' /\ \A q \in Prompts : q < prompt \/ g = q => q < prompt' \/ g = q
    BY <1>0, <2>1, <2>4, <2>5
  <2>3. ASSUME NEW q \in Prompts
        PROVE  relays'[q] <= lapsed'[q] + unnoted'[q] + (IF guard'["telegram"] = q \/ q < prompt' THEN 1 ELSE 0)
    BY <1>0, <2>1, <2>2 DEF RelayLeavesFlag
  <2>. QED
    BY <2>2, <2>3 DEF RelayLeavesFlag
<1>5. ASSUME LapseTelegram PROVE RelayLeavesFlag'
  <2>1. Same /\ guard'["telegram"] = 0
    BY <1>0, <1>5, LapseKeeps DEF LapseTelegram, Lapse
  <2>2. /\ \A p \in Prompts : lapsed'[p] >= lapsed[p]
        /\ lapsed' \in [Prompts -> Nat] /\ lapsed'[g] = lapsed[g] + 1 /\ g \in Prompts
    BY <1>0, <1>5, LapseKeeps DEF LapseTelegram
  <2>3. ASSUME NEW p \in Prompts
        PROVE  relays'[p] <= lapsed'[p] + unnoted'[p] + (IF guard'["telegram"] = p \/ p < prompt' THEN 1 ELSE 0)
    <3>1. CASE p = g
      BY <1>0, <2>1, <2>2, <3>1 DEF RelayLeavesFlag
    <3>2. CASE p # g
      BY <1>0, <2>1, <2>2, <3>2 DEF RelayLeavesFlag
    <3>. QED
      BY <3>1, <3>2
  <2>. QED
    BY <1>0, <2>1, <2>3 DEF RelayLeavesFlag
<1>6. ASSUME LapseDiscord PROVE RelayLeavesFlag'
  <2>1. Same /\ guard'["telegram"] = g
    BY <1>0, <1>6, LapseKeeps DEF LapseDiscord, Lapse
  <2>2. lapsed' \in [Prompts -> Nat] /\ \A p \in Prompts : lapsed'[p] >= lapsed[p]
    BY <1>0, <1>6, LapseKeeps DEF LapseDiscord
  <2>. QED
    BY <1>0, <2>1, <2>2 DEF RelayLeavesFlag
<1>7. ASSUME TelegramDelivered PROVE RelayLeavesFlag'
  <2>1. Same /\ lapsed' = lapsed /\ g # prompt /\ Records("telegram")
    BY <1>7 DEF TelegramDelivered
  <2>. QED
    BY <1>0, <1>3, <2>1, Recording
<1>8. DiscordRecords \/ DiscordAllows => RelayLeavesFlag'
  <2>1. DiscordRecords \/ DiscordAllows => Same /\ lapsed' = lapsed /\ Records("discord")
    BY DEF DiscordRecords, DiscordAllows
  <2>2. Records("discord") => guard'["telegram"] = g
    BY <1>0, Recording
  <2>. QED
    BY <2>1, <2>2, <1>2
<1>9. ASSUME TelegramRelays PROVE RelayLeavesFlag'
  <2>1. prompt \in Prompts /\ g # prompt
    BY <1>9, GuardedIsPrompt DEF TelegramRelays, Relaying, TelegramOpen
  <2>2. UNCHANGED <<prompt, lapsed>> /\ relays' = [relays EXCEPT ![prompt] = @ + 1]
    BY <1>9 DEF TelegramRelays
  <2>3. guard'["telegram"] \in {prompt, g, 0}
    BY <1>0, <1>9, RelayRecords, Recording
  <2>4. g < prompt /\ guard'["telegram"] <= prompt'
    BY <1>0, <2>1, <2>2, <2>3 DEF RelayLeavesFlag
  <2>5. \/ guard'["telegram"] = prompt /\ unnoted' = unnoted
        \/ unnoted' = [unnoted EXCEPT ![prompt] = @ + 1]
    BY <1>0, <1>9 DEF TelegramRelays, RecordedRelay, RecordedPrompt, FlagsOK
  <2>6. relays'[prompt] <= lapsed'[prompt] + unnoted'[prompt] + (IF guard'["telegram"] = prompt THEN 1 ELSE 0)
    BY <1>0, <2>1, <2>2, <2>5 DEF RelayLeavesFlag
  <2>7. ASSUME NEW p \in Prompts, p # prompt
        PROVE  relays'[p] <= lapsed'[p] + unnoted'[p] + (IF guard'["telegram"] = p \/ p < prompt' THEN 1 ELSE 0)
    <3>1. relays'[p] = relays[p] /\ unnoted'[p] = unnoted[p] /\ lapsed'[p] = lapsed[p]
      BY <1>0, <2>2, <2>5, <2>7
    <3>2. g = p => p < prompt'
      BY <2>2, <2>4
    <3>. QED
      BY <1>0, <2>2, <3>1, <3>2 DEF RelayLeavesFlag
  <2>. QED
    BY <1>0, <2>1, <2>2, <2>4, <2>6, <2>7 DEF RelayLeavesFlag
<1>10. Continues \/ GrowsLong \/ LapseHeard \/ Transcribed \/ UNCHANGED guardVars => Same /\ UNCHANGED <<guard, lapsed>>
  BY DEF Continues, GrowsLong, LapseHeard, Transcribed
<1>11. /\ \A r \in Result : SendDiscord(r) => Same /\ UNCHANGED <<guard, lapsed>>
       /\ \A r \in Result, b \in Body : SendTelegram(b, r) => Same /\ UNCHANGED <<guard, lapsed>>
  BY DEF SendDiscord, SendTelegram, Answer
<1>12. \/ StopExempt \/ TelegramSatisfied \/ TelegramLogs \/ TelegramBlocks \/ TelegramAllows
       \/ DiscordSatisfied \/ DiscordLogs \/ DiscordBlocks \/ TelegramFails \/ DiscordFails
       => Same /\ UNCHANGED <<guard, lapsed>>
  BY DEF StopExempt, TelegramSatisfied, TelegramLogs, TelegramBlocks, TelegramAllows,
         DiscordSatisfied, DiscordLogs, DiscordBlocks, TelegramFails, DiscordFails, FailsOpen
<1>. HIDE DEF Same
<1>. QED
  BY <1>1, <1>4, <1>5, <1>6, <1>7, <1>8, <1>9, <1>10, <1>11, <1>12, GuardStep, Zenon

LEMMA SuccessStep ==
  ASSUME SuccessReaches, TurnOK, GuardNext \/ UNCHANGED guardVars
  PROVE  SuccessReaches'
<1>1. UNCHANGED <<prompt, results>> /\ reached \subseteq reached' => SuccessReaches'
  BY DEF SuccessReaches, Channel
<1>2. \A p \in Prompts : Arrives(p) => SuccessReaches'
  BY DEF Arrives, SuccessReaches
<1>3. ASSUME NEW tool, NEW r \in Result, Answer(tool, r) PROVE SuccessReaches'
  <2>1. Successful(r) => r.out
    BY DEF Successful, Result
  <2>2. /\ results' = results \cup {<<tool, r>>} /\ prompt' = prompt
        /\ reached' = reached \cup (IF r.out /\ tool = Channel(prompt) THEN {prompt} ELSE {})
    BY <1>3 DEF Answer
  <2>3. Channel(prompt)' = Channel(prompt)
    BY <2>2 DEF Channel
  <2>4. ASSUME NEW x \in results', x[1] = Channel(prompt), Successful(x[2]) PROVE prompt \in reached'
    <3>1. CASE x \in results
      BY <2>2, <2>4, <3>1 DEF SuccessReaches
    <3>2. CASE x = <<tool, r>>
      <4>1. x[1] = tool /\ x[2] = r
        BY <3>2
      <4>2. tool = Channel(prompt) /\ r.out
        BY <2>1, <2>4, <4>1
      <4>. QED
        BY <2>2, <4>2
    <3>. QED
      BY <2>2, <2>4, <3>1, <3>2
  <2>5. ASSUME NEW x \in results', x[1] = Channel(prompt)', Successful(x[2])' PROVE prompt' \in reached'
    BY <2>2, <2>3, <2>4, <2>5 DEF Successful
  <2>. QED
    BY <2>5 DEF SuccessReaches
<1>4. \A r \in Result : SendDiscord(r) => SuccessReaches'
  BY <1>3 DEF SendDiscord
<1>5. \A r \in Result, b \in Body : SendTelegram(b, r) => SuccessReaches'
  BY <1>3 DEF SendTelegram
<1>6. Continues \/ GrowsLong \/ LapseTelegram \/ LapseDiscord \/ LapseHeard \/ Transcribed \/ UNCHANGED guardVars
        => UNCHANGED <<prompt, results, reached>>
  BY DEF Continues, GrowsLong, LapseTelegram, LapseDiscord, Lapse, LapseHeard, Transcribed
<1>7. \/ StopExempt \/ TelegramSatisfied \/ TelegramDelivered \/ TelegramLogs \/ TelegramBlocks \/ TelegramAllows
      \/ TelegramRelays \/ DiscordSatisfied \/ DiscordRecords \/ DiscordLogs \/ DiscordBlocks \/ DiscordAllows
      \/ TelegramFails \/ DiscordFails
      => UNCHANGED <<prompt, results>> /\ reached \subseteq reached'
  BY StopsKeep
<1>. QED
  BY <1>1, <1>2, <1>4, <1>5, <1>6, <1>7, GuardStep, Zenon

LEMMA FlagStep ==
  ASSUME GuardAssumption, TurnOK, FlagsOK, FactsOK, SuccessReaches, FlagEarned, GuardNext \/ UNCHANGED guardVars
  PROVE  FlagEarned'
<1>0. /\ "telegram" \in Channels /\ "discord" \in Channels /\ guard \in [Channels -> Prompts \cup {0}]
      /\ guard["telegram"] \in Prompts \cup {0} /\ relays \in [Prompts -> Nat]
  BY PromptType DEF FactsOK, FlagsOK
<1>1. ASSUME guard'["telegram"] = guard["telegram"], reached \subseteq reached', UNCHANGED relays PROVE FlagEarned'
  BY <1>1 DEF FlagEarned
<1>2. LapseTelegram => FlagEarned'
  BY <1>0, LapseKeeps DEF LapseTelegram, FlagEarned
<1>3. ASSUME TelegramDelivered PROVE FlagEarned'
  <2>1. prompt \in reached
    BY <1>3, TurnSeen DEF TelegramDelivered, Delivered, SuccessReaches
  <2>2. Records("telegram") /\ UNCHANGED <<reached, relays>>
    BY <1>3 DEF TelegramDelivered
  <2>3. guard'["telegram"] \in {prompt, guard["telegram"], 0}
    BY <1>0, <2>2, Recording
  <2>. QED
    BY <2>1, <2>2, <2>3 DEF FlagEarned
<1>4. ASSUME TelegramRelays PROVE FlagEarned'
  <2>1. TelegramTurn
    BY <1>4 DEF TelegramRelays, Relaying, TelegramOpen
  <2>2. prompt \in Prompts
    BY <2>1, GuardedIsPrompt
  <2>3. relays' = [relays EXCEPT ![prompt] = @ + 1] /\ reached \subseteq reached'
    BY <1>4 DEF TelegramRelays
  <2>4. relays'[prompt] > 0 /\ \A p \in Prompts : relays'[p] >= relays[p] /\ relays[p] \in Nat /\ relays'[p] \in Nat
    BY <1>0, <2>2, <2>3
  <2>5. guard'["telegram"] \in {prompt, guard["telegram"], 0}
    BY <1>0, <1>4, RelayRecords, Recording
  <2>6. CASE guard'["telegram"] = prompt
    BY <2>4, <2>6 DEF FlagEarned
  <2>7. CASE guard'["telegram"] = guard["telegram"]
    BY <1>0, <2>3, <2>4, <2>7 DEF FlagEarned
  <2>8. CASE guard'["telegram"] = 0
    BY <2>8 DEF FlagEarned
  <2>. QED
    BY <2>5, <2>6, <2>7, <2>8
<1>5. LapseDiscord \/ DiscordRecords \/ DiscordAllows => guard'["telegram"] = guard["telegram"] /\ UNCHANGED <<reached, relays>>
  <2>1. LapseDiscord => guard'["telegram"] = guard["telegram"] /\ UNCHANGED <<reached, relays>>
    BY <1>0, LapseKeeps DEF LapseDiscord, Lapse
  <2>2. DiscordRecords \/ DiscordAllows => Records("discord") /\ UNCHANGED <<reached, relays>>
    BY DEF DiscordRecords, DiscordAllows
  <2>3. Records("discord") => guard'["telegram"] = guard["telegram"]
    BY <1>0, Recording
  <2>. QED
    BY <2>1, <2>2, <2>3
<1>6. /\ \A r \in Result : SendDiscord(r) => UNCHANGED <<guard, relays>> /\ reached \subseteq reached'
      /\ \A r \in Result, b \in Body : SendTelegram(b, r) => UNCHANGED <<guard, relays>> /\ reached \subseteq reached'
      /\ \A p \in Prompts : Arrives(p) => UNCHANGED <<guard, relays, reached>>
  BY DEF SendDiscord, SendTelegram, Answer, Arrives
<1>7. Continues \/ GrowsLong \/ LapseHeard \/ Transcribed \/ UNCHANGED guardVars => UNCHANGED <<guard, relays, reached>>
  BY DEF Continues, GrowsLong, LapseHeard, Transcribed
<1>8. \/ StopExempt \/ TelegramSatisfied \/ TelegramLogs \/ TelegramBlocks \/ TelegramAllows
      \/ DiscordSatisfied \/ DiscordLogs \/ DiscordBlocks \/ TelegramFails \/ DiscordFails
      => UNCHANGED <<guard, relays, reached>>
  BY DEF StopExempt, TelegramSatisfied, TelegramLogs, TelegramBlocks, TelegramAllows,
         DiscordSatisfied, DiscordLogs, DiscordBlocks, TelegramFails, DiscordFails, FailsOpen
<1>9. UNCHANGED <<guard, relays, reached>> => FlagEarned'
  BY <1>1
<1>10. LapseDiscord \/ DiscordRecords \/ DiscordAllows => FlagEarned'
  BY <1>1, <1>5
<1>11. /\ \A r \in Result : SendDiscord(r) => FlagEarned'
       /\ \A r \in Result, b \in Body : SendTelegram(b, r) => FlagEarned'
       /\ \A p \in Prompts : Arrives(p) => FlagEarned'
  BY <1>1, <1>6
<1>. QED
  BY <1>2, <1>3, <1>4, <1>7, <1>8, <1>9, <1>10, <1>11, GuardStep, Zenon
-----------------------------------------------------------------------------
LEMMA SilentStep ==
  ASSUME GuardAssumption, TurnOK, FlagsOK, FactsOK, ActiveIfBlocked, SuccessReaches, FlagEarned, NotSilent,
         GuardNext \/ UNCHANGED guardVars
  PROVE  NotSilent'
<1>0. /\ "telegram" \in Channels /\ "discord" \in Channels /\ guard \in [Channels -> Prompts \cup {0}]
      /\ relays \in [Prompts -> Nat]
  BY PromptType DEF FactsOK, FlagsOK
<1>1. running' => NotSilent'
  BY DEF NotSilent
(* What the end of a turn owes: the prompt was answered, or its text was   *)
(* relayed where that is enforced, or its Stop was blocked, or flagged.    *)
<1>2. ASSUME UNCHANGED <<mode, prompt>>, prompt \in reached' PROVE NotSilent'
  BY <1>2 DEF NotSilent
<1>3. ASSUME UNCHANGED <<mode, prompt>>, ~Guarded PROVE NotSilent'
  BY <1>3 DEF NotSilent, Guarded, Channel
<1>4. ASSUME UNCHANGED <<mode, prompt>>, relays'[prompt] > 0, Channel(prompt) = "telegram", mode[1] = "enforce" PROVE NotSilent'
  BY <1>4 DEF NotSilent, Guarded, Channel
<1>22. opened' => NotSilent'
  BY DEF NotSilent
<1>5. ASSUME UNCHANGED <<mode, prompt>>, ~(Channel(prompt) = "telegram" /\ mode[1] = "enforce"),
             blocks' = 1 \/ guard'[Channel(prompt)] = prompt
      PROVE  NotSilent'
  <2>1. Channel(prompt)' = Channel(prompt)
    BY <1>5 DEF Channel
  <2>. QED
    BY <1>5, <2>1 DEF NotSilent
<1>. HIDE DEF EndsTurn, Untouched
<1>6. StopExempt => NotSilent'
  <2>1. ASSUME StopExempt, ~long' PROVE ~Guarded
    <3>1. running /\ ~TelegramTurn /\ ~DiscordTurn /\ ~long
      BY <2>1, StopsKeep DEF StopExempt, TelegramExempt, DiscordExempt
    <3>2. InSight = prompt /\ DiscordInSight = prompt
      BY <3>1 DEF InSight, DiscordInSight
    <3>. QED
      BY <3>1, <3>2 DEF TelegramTurn, DiscordTurn, Guarded
  <2>2. long' => NotSilent'
    BY DEF NotSilent
  <2>. QED
    BY <1>3, <2>1, <2>2, StopsKeep
<1>7. ASSUME TelegramSatisfied PROVE NotSilent'
  <2>1. Channel(prompt) = "telegram" /\ guard["telegram"] = prompt /\ prompt # 0
    BY <1>7, TurnSeen DEF TelegramSatisfied, Channel
  <2>2. UNCHANGED <<mode, prompt, guard, relays>> /\ reached \subseteq reached'
    BY <1>7, StopsKeep DEF TelegramSatisfied
  <2>3. CASE prompt \in reached
    BY <1>2, <2>2, <2>3
  <2>4. CASE relays[prompt] > 0 /\ mode[1] = "enforce"
    BY <1>4, <2>1, <2>2, <2>4
  <2>5. CASE mode[1] # "enforce"
    BY <1>5, <2>1, <2>2, <2>5
  <2>. QED
    BY <2>1, <2>3, <2>4, <2>5 DEF FlagEarned
<1>8. ASSUME TelegramDelivered PROVE NotSilent'
  <2>1. prompt \in reached
    BY <1>8, TurnSeen DEF TelegramDelivered, Delivered, SuccessReaches
  <2>. QED
    BY <1>2, <1>8, <2>1, StopsKeep
<1>9. ASSUME TelegramLogs PROVE NotSilent'
  BY <1>3, <1>9, TurnSeen, StopsKeep DEF TelegramLogs, TelegramOpen, Guarded
<1>10. ASSUME TelegramBlocks \/ DiscordBlocks PROVE NotSilent'
  <2>1. running'
    BY <1>10, TurnSeen DEF TelegramBlocks, DiscordBlocks, TelegramOpen, DiscordOpen
  <2>. QED
    BY <1>1, <2>1
<1>11. ASSUME TelegramAllows PROVE NotSilent'
  <2>1. mode[1] = "block" /\ active /\ UNCHANGED blocks
    BY <1>11 DEF TelegramAllows
  <2>2. blocks' = 1
    BY <2>1 DEF ActiveIfBlocked
  <2>. QED
    BY <1>5, <1>11, <2>1, <2>2, StopsKeep
<1>12. ASSUME TelegramRelays PROVE NotSilent'
  <2>1. TelegramTurn /\ mode[1] = "enforce" /\ relays' = [relays EXCEPT ![prompt] = @ + 1]
    BY <1>12 DEF TelegramRelays, Relaying, TelegramOpen
  <2>2. prompt \in Prompts
    BY <2>1, GuardedIsPrompt
  <2>3. relays'[prompt] = relays[prompt] + 1 /\ relays[prompt] \in Nat
    BY <1>0, <2>1, <2>2
  <2>4. relays'[prompt] > 0
    BY <2>3
  <2>. QED
    BY <1>4, <1>12, <2>1, <2>4, TurnSeen, StopsKeep
<1>13. ASSUME DiscordSatisfied PROVE NotSilent'
  <2>1. guard["discord"] = prompt /\ Channel(prompt) = "discord" /\ UNCHANGED flags
    BY <1>13, TurnSeen DEF DiscordSatisfied
  <2>. QED
    BY <1>5, <1>13, <2>1, StopsKeep
<1>14. ASSUME DiscordRecords PROVE NotSilent'
  <2>1. prompt \in reached
    BY <1>14, TurnSeen DEF DiscordRecords, DiscordDelivered, SuccessReaches
  <2>. QED
    BY <1>2, <1>14, <2>1, StopsKeep
<1>15. ASSUME DiscordLogs PROVE NotSilent'
  BY <1>3, <1>15, TurnSeen, StopsKeep DEF DiscordLogs, DiscordOpen, Guarded
<1>16. ASSUME DiscordAllows PROVE NotSilent'
  <2>1. Channel(prompt) = "discord" /\ active /\ UNCHANGED blocks
    BY <1>16, TurnSeen DEF DiscordAllows, DiscordOpen
  <2>2. blocks' = 1
    BY <2>1 DEF ActiveIfBlocked
  <2>. QED
    BY <1>5, <1>16, <2>1, <2>2, StopsKeep
<1>17. \A p \in Prompts : Arrives(p) => NotSilent'
  BY <1>1 DEF Arrives, TurnBegins, TurnOK
<1>18. Continues \/ GrowsLong \/ Transcribed => NotSilent'
  <2>1. Continues => running'
    BY DEF Continues, TurnBegins
  <2>2. running /\ running' = running => running'
    BY DEF TurnOK
  <2>3. GrowsLong => running /\ running' = running
    BY DEF GrowsLong
  <2>4. ASSUME Transcribed PROVE running /\ running' = running
    <3>1. running
      BY <2>4, Zenon DEF Transcribed
    <3>2. UNCHANGED turn
      BY <2>4, Zenon DEF Transcribed
    <3>. QED
      BY <3>1, <3>2
  <2>. QED
    BY <1>1, <2>1, <2>2, <2>3, <2>4
<1>19. /\ \A r \in Result : SendDiscord(r) => NotSilent'
       /\ \A r \in Result, b \in Body : SendTelegram(b, r) => NotSilent'
  BY <1>1 DEF SendDiscord, SendTelegram, Answer
<1>20. LapseHeard \/ UNCHANGED guardVars => NotSilent'
  BY DEF LapseHeard, NotSilent, Guarded, Channel
<1>21. ASSUME LapseTelegram \/ LapseDiscord PROVE NotSilent'
  <2>0. PICK c \in Channels : Lapse(c)
    BY <1>0, <1>21 DEF LapseTelegram, LapseDiscord
  <2>1. /\ UNCHANGED <<mode, prompt, running, long, blocks, opened, reached, relays>>
        /\ \A d \in Channels : guard[d] # 0 => lapsed'[guard[d]] > 0 \/ guard'[d] = guard[d]
        /\ \A p \in Prompts : lapsed[p] > 0 => lapsed'[p] > 0
    <3>1. UNCHANGED <<mode, prompt, running, long, blocks, opened, reached, relays>>
      BY <2>0 DEF Lapse
    <3>2. lapsed \in [Prompts -> Nat]
      BY DEF FactsOK
    <3>3. /\ \A d \in Channels \ {c} : guard'[d] = guard[d]
          /\ lapsed' \in [Prompts -> Nat] /\ \A p \in Prompts : lapsed'[p] >= lapsed[p]
          /\ guard[c] \in Prompts /\ lapsed'[guard[c]] = lapsed[guard[c]] + 1
      BY <2>0, LapseKeeps
    <3>6. lapsed[guard[c]] \in Nat
      BY <3>2, <3>3
    <3>4. lapsed'[guard[c]] > 0
      BY <3>3, <3>6
    <3>5. \A p \in Prompts : lapsed[p] > 0 => lapsed'[p] > 0
      BY <3>2, <3>3
    <3>. QED
      BY <3>1, <3>3, <3>4, <3>5
  <2>2. Guarded => Channel(prompt) \in Channels
    BY <1>0 DEF Guarded
  <2>3. Channel(prompt)' = Channel(prompt) /\ Guarded' = Guarded
    BY <2>1 DEF Channel, Guarded
  <2>4. prompt # 0 => prompt \in Prompts
    BY DEF TurnOK
  <2>. QED
    BY <2>1, <2>2, <2>3, <2>4 DEF NotSilent
<1>23. TelegramFails \/ DiscordFails => NotSilent'
  BY <1>22 DEF TelegramFails, DiscordFails, FailsOpen
<1>. QED
  BY <1>23, <1>6, <1>7, <1>8, <1>9, <1>10, <1>11, <1>12, <1>13, <1>14, <1>15, <1>16, <1>17, <1>18, <1>19, <1>20, <1>21,
     GuardStep, Zenon
-----------------------------------------------------------------------------
LEMMA GuardStart ==
  ASSUME GuardAssumption, GuardInit
  PROVE  GuardInv
<1>1. TurnOK /\ FlagsOK
  BY DEF GuardInit, TurnOK, FlagsOK
<1>2. FactsOK
  <2>1. sends \in 0..MaxSends /\ turns \in 0..MaxTurns
    BY DEF GuardInit, GuardAssumption
  <2>2. /\ relays \in [Prompts -> Nat] /\ unnoted \in [Prompts -> Nat] /\ lapsed \in [Prompts -> Nat]
        /\ reached \subseteq Prompts /\ blocks \in Nat /\ opened \in BOOLEAN
    BY DEF GuardInit
  <2>. QED
    BY <2>1, <2>2 DEF FactsOK
<1>3. ActiveIfBlocked /\ FlagEarned /\ SuccessReaches /\ NotSilent /\ DeniedOnce
  BY DEF GuardInit, Channels, ActiveIfBlocked, FlagEarned, SuccessReaches, NotSilent, DeniedOnce
<1>4. RelayLeavesFlag
  BY DEF GuardInit, Channels, RelayLeavesFlag
<1>. QED
  BY <1>1, <1>2, <1>3, <1>4 DEF GuardInv, GuardTypeOK

LEMMA GuardKept ==
  ASSUME GuardAssumption, GuardInv, [GuardNext]_guardVars
  PROVE  GuardInv'
<1>1. GuardNext \/ UNCHANGED guardVars
  OBVIOUS
<1>2. TurnOK /\ FlagsOK /\ FactsOK /\ ActiveIfBlocked /\ RelayLeavesFlag /\ FlagEarned /\ SuccessReaches /\ NotSilent /\ DeniedOnce
  BY Zenon DEF GuardInv, GuardTypeOK
<1>3. TurnOK' /\ FlagsOK' /\ FactsOK'
  BY <1>1, <1>2, TurnStep, FlagsStep, FactsStep, Zenon
<1>4. ActiveIfBlocked' /\ RelayLeavesFlag' /\ FlagEarned'
  BY <1>1, <1>2, BlockedStep, RelayStep, FlagStep, Zenon
<1>5. SuccessReaches' /\ NotSilent' /\ DeniedOnce'
  BY <1>1, <1>2, SuccessStep, SilentStep, DeniedStep, Zenon
<1>. QED
  BY <1>3, <1>4, <1>5, Zenon DEF GuardInv, GuardTypeOK

(* The invariant holds of every run of the hooks (tg_reply_guard.py,       *)
(* discord_reply_guard.py, heard_gate.py).                                 *)
THEOREM GuardsSafe == GuardSpec => []GuardInv
<1>1. GuardInit => GuardInv
  BY GuardStart, GuardAssumption
<1>2. GuardInv /\ [GuardNext]_guardVars => GuardInv'
  BY GuardKept, GuardAssumption
<1>. QED
  BY <1>1, <1>2, PTL DEF GuardSpec

(* The variables of the hooks keep their types.                            *)
THEOREM GuardTypes == GuardSpec => []GuardTypeOK
<1>1. GuardInv => GuardTypeOK
  BY DEF GuardInv
<1>. QED
  BY <1>1, GuardsSafe, PTL

(* The two reply guards block at most one Stop of a turn between them      *)
(* (stop_hook_active in tg_reply_guard.py and discord_reply_guard.py).     *)
THEOREM StopsAreBlockedOnce == GuardSpec => []BlockedOnce
<1>1. GuardInv => BlockedOnce
  BY DEF GuardInv, ActiveIfBlocked, BlockedOnce
<1>. QED
  BY <1>1, GuardsSafe, PTL

(* tg_reply_guard.py relays the text of a prompt once, and again only for  *)
(* each flag that went stale and each relay that left no flag.             *)
THEOREM TextIsRelayedOnce == GuardSpec => []RelayedOnce
<1>1. GuardInv => RelayedOnce
  <2>. SUFFICES ASSUME GuardInv, NEW p \in Prompts PROVE relays[p] <= 1 + lapsed[p] + unnoted[p]
    BY DEF RelayedOnce
  <2>1. relays[p] \in Nat /\ lapsed[p] \in Nat /\ unnoted[p] \in Nat
    BY DEF GuardInv, GuardTypeOK, FactsOK
  <2>. QED
    BY <2>1 DEF GuardInv, RelayLeavesFlag
<1>. QED
  BY <1>1, GuardsSafe, PTL

(* heard_gate.py denies at most one send for each transcription, and one   *)
(* more for each denial that could not remove the flag.                    *)
THEOREM TranscriptsDenyOnce == GuardSpec => []DeniedOnce
<1>1. GuardInv => DeniedOnce
  BY DEF GuardInv
<1>. QED
  BY <1>1, GuardsSafe, PTL

(* A guarded message that is in sight never ends its turn unanswered       *)
(* without a blocked Stop, a relay or a guard that failed open (main of    *)
(* both reply guards).                                                     *)
THEOREM GuardedIsNotSilent == GuardSpec => []NotSilent
<1>1. GuardInv => NotSilent
  BY DEF GuardInv
<1>. QED
  BY <1>1, GuardsSafe, PTL
=============================================================================
