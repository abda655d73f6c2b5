----------------------------- MODULE MCServices -----------------------------
(***************************************************************************)
(* The five small components, checked in one run: the first state chooses  *)
(* one of them, and the others stay as they are.                           *)
(***************************************************************************)
EXTENDS SocialVault, ReplyGuards, OperatorDM, NotifyTool, AutoRestart

VARIABLE which

MCAccounts == {<<"instagram", 1>>, <<"threads", 1>>, <<Page, 1>>}
MCSeeds    == {<<"instagram", 1>>, <<Page, 1>>}

MCPrompts    == {1, 2, 3}
MCPromptInfo == << [channel |-> "telegram", voice |-> TRUE],
                   [channel |-> "discord",  voice |-> TRUE],
                   [channel |-> "telegram", voice |-> FALSE] >>
MCModes      == {<<"enforce", "block">>, <<"block", "log">>, <<"log", "off">>}

(* An empty line, one to be cut in two, and the note about a large file,   *)
(* which with the rest of that line fills a chunk exactly.                 *)
MCMessages == {[lines |-> <<0, 5>>, large |-> TRUE, small |-> TRUE, fallback |-> TRUE]}

MCTypesOf == <<ValidTypes, {"STARTED"}>>

MCInit ==
  /\ which \in {"vault", "guards", "dm", "tool", "restart"}
  /\ VaultInit /\ GuardInit /\ DmInit /\ ToolInit /\ RestartInit
  /\ which # "guards" => mode = <<"log", "off">>
  /\ which # "dm"     => disabled = {}
  /\ which # "tool"   => up /\ webhook
  /\ which # "restart" => window

MCNext ==
  \/ which = "vault"   /\ VaultNext   /\ UNCHANGED <<which, guardVars, dmVars, toolVars, restartVars>>
  \/ which = "guards"  /\ GuardNext   /\ UNCHANGED <<which, vaultVars, dmVars, toolVars, restartVars>>
  \/ which = "dm"      /\ DmNext      /\ UNCHANGED <<which, vaultVars, guardVars, toolVars, restartVars>>
  \/ which = "tool"    /\ ToolNext    /\ UNCHANGED <<which, vaultVars, guardVars, dmVars, restartVars>>
  \/ which = "restart" /\ RestartNext /\ UNCHANGED <<which, vaultVars, guardVars, dmVars, toolVars>>

MCSpec == MCInit /\ [][MCNext]_<<which, vaultVars, guardVars, dmVars, toolVars, restartVars>>

(* The variables of all five have their types.                             *)
ServicesTypeOK == VaultTypeOK /\ GuardTypeOK /\ DmTypeOK /\ ToolTypeOK /\ RestartTypeOK
=============================================================================
