---------------------------- MODULE SocialVault ----------------------------
(***************************************************************************)
(* The social service: the vault of access tokens in SQLite, the OAuth     *)
(* logins of the service's request threads, and the daily refresh job, a   *)
(* process of its own that shares only the vault with the service.         *)
(*                                                                         *)
(* Time is counted in days.  An HTTP call of a login or of the job takes   *)
(* 30 seconds at most (_TIMEOUT), so a day does not end during one.        *)
(***************************************************************************)
EXTENDS Integers, FiniteSets

CONSTANTS Accounts,  \* pairs <<platform, account id>>
          Seeds,     \* accounts with a pre-provisioned token in the env file
          States,    \* OAuth state tokens
          Life,      \* days for which the platforms grant a token
          Window,    \* refresh_window_days
          MaxDay     \* bound on the days

Page     == "facebook_page"
Adapters == {"instagram", "threads", Page}
Never    == -1       \* NULL

ASSUME VaultAssumption ==
  /\ Accounts \subseteq Adapters \X Nat /\ Seeds \subseteq Accounts
  /\ Life \in Nat \ {0} /\ Window \in Nat /\ MaxDay \in Nat /\ "seed" \notin States

Days  == 0..MaxDay
Token == [token : States \cup {"seed"}, issued : Days, expires : Nat \cup {Never}, refreshed : Days \cup {Never}]
NoToken == [token |-> "seed", issued |-> 0, expires |-> Never, refreshed |-> MaxDay]
Work(rows, next, ok) == [step |-> "work", rows |-> rows, next |-> next, ok |-> ok]
NoJob   == [step |-> "idle", rows |-> [a \in {} |-> NoToken], next |-> {}, ok |-> TRUE]

VARIABLES
  vault,        \* tokens: a row for each account in its domain
  provisioned,  \* does the env file hold the required keys?
  service,      \* "down", "bare" (up without a configuration) or "ready"
  states,       \* the StateStore: [platform, young] of each state it holds
  login,        \* the exchange of each accepted callback: [platform, left, at]
  job,          \* the refresh job: the rows it has read and is to refresh
  day,
  ran,          \* day of the job's latest run
  (* history *)
  minted,       \* states handed out
  accepted,     \* how often a state was accepted by the callback
  swept,        \* days on which a provisioned job ended with exit code 0
  written       \* day on which a row was written last

server == <<provisioned, service, states, login>>
sweep  == <<job, ran, swept>>
loginHistory  == <<minted, accepted>>
vaultVars == <<vault, server, sweep, day, loginHistory, written>>
-----------------------------------------------------------------------------
(* A Page token does not expire.                                           *)
(* Mutant: it is given the life of the others. *)
GrantedToAll(platform) == day + Life
Granted(platform) == IF platform = Page THEN Never ELSE day + Life

Upsert(a, row) ==
  /\ vault' = [b \in DOMAIN vault \cup {a} |-> IF b = a THEN row ELSE vault[b]]
  /\ written' = [written EXCEPT ![a] = day]

(* tokens_needing_refresh: it expires, soon, and is a day old at least.    *)
Due == {a \in DOMAIN vault :
          /\ vault[a].expires # Never
          /\ vault[a].expires - day < Window
          /\ day - vault[a].issued >= 1}

Calls(platform) == IF platform = Page THEN 3 ELSE 2
-----------------------------------------------------------------------------
VaultInit ==
  /\ vault = [a \in {} |-> NoToken] /\ provisioned = FALSE /\ service = "down"
  /\ states = [s \in {} |-> [platform |-> Page, young |-> TRUE]]
  /\ login = [s \in {} |-> [platform |-> Page, left |-> 0, at |-> 0]]
  /\ job = NoJob /\ day = 0 /\ ran = -1
  /\ minted = {} /\ accepted = [s \in States |-> 0] /\ swept = {}
  /\ written = [a \in Accounts |-> Never]

Provision ==
  /\ ~provisioned /\ provisioned' = TRUE
  /\ UNCHANGED <<vault, service, states, login, sweep, day, loginHistory, written>>

(* Mutant: the start writes every token of the env file. *)
AllSeeds == Seeds
Missing == Seeds \ DOMAIN vault

(* The service starts: a new StateStore, and bootstrap_vault_from_config   *)
(* seeds the accounts that have no row, in one transaction.                *)
Boot ==
  /\ service = "down"
  /\ service' = IF provisioned THEN "ready" ELSE "bare"
  /\ LET new == IF provisioned THEN Missing ELSE {} IN
     /\ vault' = [a \in DOMAIN vault \cup new |->
                    IF a \in new THEN [token |-> "seed", issued |-> day,
                                       expires |-> Granted(a[1]), refreshed |-> Never]
                    ELSE vault[a]]
     /\ written' = [a \in Accounts |-> IF a \in new THEN day ELSE written[a]]
  /\ UNCHANGED <<provisioned, states, login, sweep, day, loginHistory>>

(* It stops or dies: its states and the callbacks in progress are gone.    *)
Down ==
  /\ service # "down" /\ service' = "down"
  /\ states' = [s \in {} |-> [platform |-> Page, young |-> TRUE]]
  /\ login' = [s \in {} |-> [platform |-> Page, left |-> 0, at |-> 0]]
  /\ UNCHANGED <<vault, provisioned, sweep, day, loginHistory, written>>

Generated(s, platform) ==
  [t \in DOMAIN states \cup {s} |-> IF t = s THEN [platform |-> platform, young |-> TRUE] ELSE states[t]]

OAuthStart(s, platform) ==
  /\ service = "ready" /\ s \in States \ minted
  /\ states' = Generated(s, platform)
  /\ minted' = minted \cup {s}
  /\ UNCHANGED <<vault, provisioned, service, login, sweep, day, accepted, written>>

(* Ten minutes pass; nothing removes the state before it is presented.     *)
Outdated(s) ==
  /\ s \in DOMAIN states /\ states[s].young
  /\ states' = [states EXCEPT ![s].young = FALSE]
  /\ UNCHANGED <<vault, provisioned, service, login, sweep, day, loginHistory, written>>

(* Mutant: the state stays in the store. *)
Looked(s) == states
(* What is left of the store once s has been presented.                    *)
Popped(s) == [t \in DOMAIN states \ {s} |-> states[t]]

(* The callback up to validate_and_consume: a state is gone whether or not *)
(* it is too old.  An error of the provider leaves it in the store.        *)
OAuthCallback(s) ==
  /\ service = "ready" /\ s \in DOMAIN states
  /\ states' = Popped(s)
  /\ IF states[s].young
     THEN /\ login' = [t \in DOMAIN login \cup {s} |->
                         IF t = s THEN [platform |-> states[s].platform,
                                        left |-> Calls(states[s].platform), at |-> day]
                         ELSE login[t]]
          /\ accepted' = [accepted EXCEPT ![s] = @ + 1]
     ELSE UNCHANGED <<login, accepted>>
  /\ UNCHANGED <<vault, provisioned, service, sweep, day, minted, written>>

WithoutLogin(s) == [t \in DOMAIN login \ {s} |-> login[t]]

(* One of the calls of exchange_code; a failure ends the callback.         *)
Exchange(s, platform) ==
  /\ s \in DOMAIN login /\ login[s].left > 0 /\ login[s].platform = platform
  /\ login' \in {[login EXCEPT ![s].left = @ - 1], WithoutLogin(s)}
  /\ UNCHANGED <<vault, provisioned, service, states, sweep, day, loginHistory, written>>

(* The code buys a short-lived token, that a long-lived one; for a Page    *)
(* the user's token is then exchanged for that of the configured page.     *)
InstagramExchange(s) == Exchange(s, "instagram")
ThreadsExchange(s)   == Exchange(s, "threads")
PageExchange(s)      == Exchange(s, Page)

(* The account is the one the operator logged in with; a Page token is for *)
(* the configured page.                                                    *)
StoreLogin(s, a) ==
  /\ s \in DOMAIN login /\ login[s].left = 0
  /\ a[1] = login[s].platform /\ (a[1] = Page => a \in Seeds)
  /\ Upsert(a, [token |-> s, issued |-> login[s].at, expires |-> Granted(a[1]), refreshed |-> Never])
  /\ login' = WithoutLogin(s)
  /\ UNCHANGED <<provisioned, service, states, sweep, day, loginHistory>>
-----------------------------------------------------------------------------
(* The timer starts the job once a day; without a configuration it exits.  *)
JobStarts ==
  /\ job = NoJob /\ ran < day /\ ran' = day
  /\ job' = IF provisioned THEN Work([a \in Due |-> vault[a]], {}, TRUE) ELSE NoJob
  /\ UNCHANGED <<vault, server, swept, day, loginHistory, written>>

Rest(a) == [b \in DOMAIN job.rows \ {a} |-> job.rows[b]]

(* The platform answers with a new token for the row that was read.        *)
JobRefreshes(a, platform) ==
  /\ job.step = "work" /\ job.next = {} /\ a \in DOMAIN job.rows /\ a[1] = platform
  /\ job' = Work(job.rows, {a}, job.ok)
  /\ UNCHANGED <<vault, server, ran, swept, day, loginHistory, written>>
InstagramRefresh(a) == JobRefreshes(a, "instagram")
ThreadsRefresh(a)   == JobRefreshes(a, "threads")

(* Mutant: a refresh that failed does not count. *)
ForgetFailure(a) ==
  /\ job.step = "work" /\ a \in DOMAIN job.rows /\ job.next = {}
  /\ job' = Work(Rest(a), {}, job.ok)
  /\ UNCHANGED <<vault, server, ran, swept, day, loginHistory, written>>

(* The platform refuses or cannot be reached: the next row is tried.       *)
JobFails(a) ==
  /\ job.step = "work" /\ a \in DOMAIN job.rows /\ job.next = {}
  /\ job' = Work(Rest(a), {}, FALSE)
  /\ UNCHANGED <<vault, server, ran, swept, day, loginHistory, written>>

(* The refreshed token of the row that was read replaces the row there is. *)
JobStores(a) ==
  /\ job.step = "work" /\ job.next = {a}
  /\ Upsert(a, [token |-> job.rows[a].token, issued |-> day, expires |-> day + Life, refreshed |-> day])
  /\ job' = Work(Rest(a), {}, job.ok)
  /\ UNCHANGED <<server, ran, swept, day, loginHistory>>

JobEnds ==
  /\ job.step = "work" /\ DOMAIN job.rows = {}
  /\ swept' = IF job.ok THEN swept \cup {day} ELSE swept
  /\ job' = NoJob
  /\ UNCHANGED <<vault, server, ran, day, loginHistory, written>>

(* The job dies, also of an answer without access_token, which is no       *)
(* RuntimeError; the other rows wait for the next day.                     *)
JobDies ==
  /\ job.step = "work" /\ job' = NoJob
  /\ UNCHANGED <<vault, server, ran, swept, day, loginHistory, written>>

NextDay ==
  /\ day < MaxDay /\ job = NoJob /\ DOMAIN login = {}
  /\ day' = day + 1
  /\ UNCHANGED <<vault, server, sweep, loginHistory, written>>
-----------------------------------------------------------------------------
VaultNext ==
  \/ Provision \/ Boot \/ Down \/ NextDay
  \/ \E s \in States :
       \/ \E platform \in Adapters : OAuthStart(s, platform)
       \/ Outdated(s) \/ OAuthCallback(s)
       \/ InstagramExchange(s) \/ ThreadsExchange(s) \/ PageExchange(s)
       \/ \E a \in Accounts : StoreLogin(s, a)
  \/ JobStarts \/ JobEnds \/ JobDies
  \/ \E a \in Accounts : InstagramRefresh(a) \/ ThreadsRefresh(a) \/ JobFails(a) \/ JobStores(a)

VaultSpec == VaultInit /\ [][VaultNext]_vaultVars
-----------------------------------------------------------------------------
RowsOK ==
  /\ DOMAIN vault \subseteq Accounts /\ \A a \in DOMAIN vault : vault[a] \in Token
  /\ \A a \in DOMAIN vault : vault[a].expires = Never <=> a[1] = Page
  /\ written \in [Accounts -> Days \cup {Never}] /\ day \in Days
LoginsOK ==
  /\ provisioned \in BOOLEAN /\ service \in {"down", "bare", "ready"}
  /\ minted \subseteq States /\ accepted \in [States -> Nat]
  /\ DOMAIN states \subseteq minted /\ DOMAIN login \subseteq minted
  /\ \A s \in DOMAIN states : states[s] \in [platform : Adapters, young : BOOLEAN]
  /\ \A s \in DOMAIN login : login[s] \in [platform : Adapters, left : 0..3, at : Days]
JobOK ==
  /\ job.step \in {"idle", "work"} /\ job.ok \in BOOLEAN /\ job.next \subseteq DOMAIN job.rows
  /\ DOMAIN job.rows \subseteq Accounts /\ \A a \in DOMAIN job.rows : job.rows[a] \in Token /\ a[1] # Page
  /\ ran \in Days \cup {-1} /\ swept \subseteq Days
VaultTypeOK == RowsOK /\ LoginsOK /\ JobOK

(* A state from /oauth/start is accepted by one callback at most, however  *)
(* often the callback is repeated, and a state in the store has not been   *)
(* accepted: a login cannot be replayed after a failure or a restart.      *)
StateSpentOnce ==
  \A s \in States : accepted[s] <= 1 /\ (accepted[s] = 1 => s \notin DOMAIN states)

(* Once a login or a refresh has written a row, no restart brings the      *)
(* token of the env file back: that token may have been replaced by the    *)
(* platform (bootstrap_vault_from_config beside the two upserts).          *)
IsSeed(a) == vault[a].token = "seed" /\ vault[a].refreshed = Never
NoReturnToSeed ==
  [][\A a \in DOMAIN vault : ~IsSeed(a) => a \in DOMAIN vault' /\ ~IsSeed(a)']_vaultVars

(* When the job of a day ended with exit code 0, no row that was written   *)
(* before that day is left in its refresh window: a token that runs out    *)
(* was refused, or the job failed or did not run, on each of those days.   *)
SweptIsFresh ==
  \A a \in DOMAIN vault : \A d \in swept :
    (written[a] < d /\ vault[a].issued < d /\ vault[a].expires # Never)
      => vault[a].expires - d >= Window
=============================================================================
