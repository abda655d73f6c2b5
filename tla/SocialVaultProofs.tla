------------------------- MODULE SocialVaultProofs -------------------------
(***************************************************************************)
(* What the social vault promises, for every set of accounts, seeds and    *)
(* states and every length of a token's life and of the refresh window.    *)
(***************************************************************************)
EXTENDS SocialVault, TLAPS

(* A state that is in the store, or not minted yet, has not been accepted. *)
Unspent ==
  \A s \in States : /\ accepted[s] \in {0, 1}
                    /\ s \in DOMAIN states \/ s \notin minted => accepted[s] = 0

(* A row that a sweep has to leave outside its window, on day d.           *)
Owed(a, d) ==
  written[a] < d /\ vault[a].issued < d /\ vault[a].expires # Never /\ vault[a].expires - d < Window

(* What the running job still owes is among its rows, unless it has failed.*)
OnTheList ==
  /\ job.step = "work" /\ job.ok => \A a \in DOMAIN vault : Owed(a, day) => a \in DOMAIN job.rows
  /\ \A d \in swept : d <= day

NothingOwed == \A a \in DOMAIN vault : \A d \in swept : ~Owed(a, d)

VaultInv == VaultTypeOK /\ Unspent /\ OnTheList /\ NothingOwed
-----------------------------------------------------------------------------
LEMMA VaultInitInv ==
  ASSUME VaultAssumption, VaultInit
  PROVE  VaultInv
<1>1. DOMAIN vault = {} /\ DOMAIN states = {} /\ DOMAIN login = {} /\ DOMAIN job.rows = {}
  BY DEF VaultInit, NoJob
<1>2. /\ job.step = "idle" /\ job.ok = TRUE /\ job.next = {}
      /\ day \in Days /\ ran = -1 /\ written \in [Accounts -> Days \cup {Never}]
  BY DEF VaultInit, NoJob, VaultAssumption, Days
<1>3. RowsOK
  BY <1>1, <1>2 DEF RowsOK
<1>4. LoginsOK
  BY <1>1 DEF VaultInit, LoginsOK
<1>5. JobOK
  BY <1>1, <1>2 DEF VaultInit, JobOK
<1>6. Unspent
  BY <1>1 DEF VaultInit, Unspent
<1>7. OnTheList /\ NothingOwed
  BY <1>1, <1>2 DEF VaultInit, OnTheList, NothingOwed
<1>. QED
  BY <1>3, <1>4, <1>5, <1>6, <1>7 DEF VaultInv, VaultTypeOK

(* A step preserves P if each action does.                                 *)
LEMMA VaultStep ==
  ASSUME NEW P,
         VaultNext \/ UNCHANGED vaultVars,
         Provision => P, Boot => P, Down => P, NextDay => P,
         \A s \in States, platform \in Adapters : OAuthStart(s, platform) => P,
         \A s \in States : Outdated(s) => P,
         \A s \in States : OAuthCallback(s) => P,
         \A s \in States, platform \in Adapters : Exchange(s, platform) => P,
         \A s \in States, a \in Accounts : StoreLogin(s, a) => P,
         JobStarts => P, JobEnds => P, JobDies => P,
         \A a \in Accounts, platform \in Adapters : JobRefreshes(a, platform) => P,
         \A a \in Accounts : JobFails(a) => P,
         \A a \in Accounts : JobStores(a) => P,
         UNCHANGED vaultVars => P
  PROVE  P
<1>. "instagram" \in Adapters /\ "threads" \in Adapters /\ Page \in Adapters
  BY DEF Adapters
<1>. QED
  BY DEF VaultNext, InstagramExchange, ThreadsExchange, PageExchange, InstagramRefresh, ThreadsRefresh
-----------------------------------------------------------------------------
USE DEF server, sweep, loginHistory, vaultVars

LEMMA UnspentStep ==
  ASSUME LoginsOK, Unspent, VaultNext \/ UNCHANGED vaultVars
  PROVE  Unspent'
<1>. USE DEF LoginsOK, Unspent
<1>1. ASSUME UNCHANGED <<states, loginHistory>> PROVE Unspent'
  BY <1>1
<1>2. Down => Unspent'
  BY DEF Down
<1>3. \A s \in States, platform \in Adapters : OAuthStart(s, platform) => Unspent'
  BY DEF OAuthStart, Generated
<1>4. \A s \in States : Outdated(s) => Unspent'
  BY DEF Outdated
<1>5. \A s \in States : OAuthCallback(s) => Unspent'
  BY DEF OAuthCallback, Popped
<1>6. \A s \in States, platform \in Adapters : Exchange(s, platform) => UNCHANGED <<states, loginHistory>>
  BY DEF Exchange
<1>7. \A s \in States, a \in Accounts : StoreLogin(s, a) => UNCHANGED <<states, loginHistory>>
  BY DEF StoreLogin, Upsert
<1>8. \A a \in Accounts, platform \in Adapters : JobRefreshes(a, platform) => UNCHANGED <<states, loginHistory>>
  BY DEF JobRefreshes
<1>9. \A a \in Accounts : JobFails(a) \/ JobStores(a) => UNCHANGED <<states, loginHistory>>
  BY DEF JobFails, JobStores
<1>10. Provision \/ Boot \/ NextDay \/ JobStarts \/ JobEnds \/ JobDies \/ UNCHANGED vaultVars
         => UNCHANGED <<states, loginHistory>>
  BY DEF Provision, Boot, NextDay, JobStarts, JobEnds, JobDies
<1>. HIDE DEF LoginsOK, Unspent
<1>. QED
  BY <1>1, <1>2, <1>3, <1>4, <1>5, <1>6, <1>7, <1>8, <1>9, <1>10, VaultStep

(* A row that Upsert writes or that is there.                              *)
LEMMA UpsertRows ==
  ASSUME NEW a \in Accounts, NEW row, Upsert(a, row), written \in [Accounts -> Days \cup {Never}]
  PROVE  /\ DOMAIN vault' = DOMAIN vault \cup {a}
         /\ vault'[a] = row /\ written'[a] = day
         /\ \A b \in DOMAIN vault \ {a} : vault'[b] = vault[b]
         /\ \A b \in Accounts \ {a} : written'[b] = written[b]
         /\ written' = [written EXCEPT ![a] = day]
BY DEF Upsert

LEMMA BootRows ==
  ASSUME Boot, VaultAssumption, RowsOK
  PROVE  /\ DOMAIN vault \subseteq DOMAIN vault' /\ DOMAIN vault' \subseteq DOMAIN vault \cup Seeds
         /\ \A a \in DOMAIN vault : vault'[a] = vault[a] /\ written'[a] = written[a]
         /\ \A a \in DOMAIN vault' \ DOMAIN vault :
              /\ vault'[a] = [token |-> "seed", issued |-> day, expires |-> Granted(a[1]), refreshed |-> Never]
              /\ written'[a] = day
         /\ written' \in [Accounts -> Days \cup {Never}]
<1>. DEFINE new == IF provisioned THEN Missing ELSE {}
<1>1. new \subseteq Seeds \ DOMAIN vault
  BY DEF Missing
<1>2. /\ vault' = [a \in DOMAIN vault \cup new |->
                    IF a \in new THEN [token |-> "seed", issued |-> day,
                                       expires |-> Granted(a[1]), refreshed |-> Never]
                    ELSE vault[a]]
      /\ written' = [a \in Accounts |-> IF a \in new THEN day ELSE written[a]]
  BY DEF Boot
<1>. HIDE DEF new
<1>. QED
  BY <1>1, <1>2 DEF VaultAssumption, RowsOK

(* Once a row has been written by a login or a refresh, no step brings the *)
(* token of the env file back.                                             *)
LEMMA NoReturnStep ==
  ASSUME VaultAssumption, RowsOK, VaultNext \/ UNCHANGED vaultVars,
         NEW a \in DOMAIN vault, ~IsSeed(a)
  PROVE  a \in DOMAIN vault' /\ ~IsSeed(a)'
<1>. DEFINE P == a \in DOMAIN vault' /\ ~IsSeed(a)'
<1>1. UNCHANGED vault => P
  BY DEF IsSeed
<1>2. Boot => P
  BY BootRows DEF IsSeed
<1>3. ASSUME NEW s \in States, NEW b \in Accounts, StoreLogin(s, b) PROVE P
  <2>1. Upsert(b, [token |-> s, issued |-> login[s].at, expires |-> Granted(b[1]), refreshed |-> Never])
    BY <1>3 DEF StoreLogin
  <2>2. /\ DOMAIN vault' = DOMAIN vault \cup {b}
        /\ vault'[b] = [token |-> s, issued |-> login[s].at, expires |-> Granted(b[1]), refreshed |-> Never]
        /\ \A c \in DOMAIN vault \ {b} : vault'[c] = vault[c]
    <3>. HIDE DEF P
    <3>1. written \in [Accounts -> Days \cup {Never}]
      BY DEF RowsOK
    <3>. QED
      BY <2>1, <3>1, UpsertRows, Zenon
  <2>3. s # "seed"
    BY DEF VaultAssumption
  <2>. QED
    BY <2>2, <2>3 DEF IsSeed
<1>4. ASSUME NEW b \in Accounts, JobStores(b) PROVE P
  <2>1. Upsert(b, [token |-> job.rows[b].token, issued |-> day, expires |-> day + Life, refreshed |-> day])
    BY <1>4 DEF JobStores
  <2>2. day # Never
    BY DEF RowsOK, Days, Never
  <2>3. /\ DOMAIN vault' = DOMAIN vault \cup {b}
        /\ vault'[b] = [token |-> job.rows[b].token, issued |-> day, expires |-> day + Life, refreshed |-> day]
        /\ \A c \in DOMAIN vault \ {b} : vault'[c] = vault[c]
    <3>. HIDE DEF P
    <3>1. written \in [Accounts -> Days \cup {Never}]
      BY DEF RowsOK
    <3>. QED
      BY <2>1, <3>1, UpsertRows, Zenon
  <2>. QED
    BY <2>2, <2>3 DEF IsSeed
<1>5. Provision \/ Down \/ NextDay \/ JobStarts \/ JobEnds \/ JobDies \/ UNCHANGED vaultVars => UNCHANGED vault
  BY DEF Provision, Down, NextDay, JobStarts, JobEnds, JobDies
<1>6. /\ \A s \in States, platform \in Adapters : OAuthStart(s, platform) => UNCHANGED vault
      /\ \A s \in States, platform \in Adapters : Exchange(s, platform) => UNCHANGED vault
      /\ \A s \in States : Outdated(s) => UNCHANGED vault
      /\ \A s \in States : OAuthCallback(s) => UNCHANGED vault
  BY DEF OAuthStart, Exchange, Outdated, OAuthCallback
<1>7. /\ \A b \in Accounts, platform \in Adapters : JobRefreshes(b, platform) => UNCHANGED vault
      /\ \A b \in Accounts : JobFails(b) => UNCHANGED vault
  BY DEF JobRefreshes, JobFails
<1>. HIDE DEF P
<1>8. P
  BY <1>1, <1>2, <1>3, <1>4, <1>5, <1>6, <1>7, VaultStep, Zenon
<1>. QED
  BY <1>8 DEF P
-----------------------------------------------------------------------------
LEMMA GrantedType ==
  ASSUME VaultAssumption, day \in Days, NEW platform
  PROVE  /\ Granted(platform) \in Nat \cup {Never} /\ (Granted(platform) = Never <=> platform = Page)
         /\ day + Life \in Nat /\ day + Life # Never /\ day \in Nat
BY DEF VaultAssumption, Days, Granted, Never

LEMMA RowsStep ==
  ASSUME VaultAssumption, RowsOK, LoginsOK, JobOK, VaultNext \/ UNCHANGED vaultVars
  PROVE  RowsOK'
<1>1. UNCHANGED <<vault, written, day>> => RowsOK'
  BY DEF RowsOK
<1>2. ASSUME Boot PROVE RowsOK'
  <2>1. UNCHANGED day
    BY <1>2 DEF Boot
  <2>2. ASSUME NEW a \in DOMAIN vault' \ DOMAIN vault
        PROVE  a \in Accounts /\ vault'[a] \in Token /\ (vault'[a].expires = Never <=> a[1] = Page)
    <3>1. vault'[a] = [token |-> "seed", issued |-> day, expires |-> Granted(a[1]), refreshed |-> Never]
      BY <1>2, BootRows
    <3>2. a \in Accounts
      BY <1>2, BootRows DEF VaultAssumption
    <3>. QED
      BY <3>1, <3>2, GrantedType DEF RowsOK, Token
  <2>. QED
    BY <1>2, <2>1, <2>2, BootRows DEF RowsOK
<1>3. ASSUME NEW a \in Accounts, NEW row, Upsert(a, row), UNCHANGED day,
             row \in Token, row.expires = Never <=> a[1] = Page
      PROVE  RowsOK'
  <2>1. /\ DOMAIN vault' = DOMAIN vault \cup {a} /\ vault'[a] = row
        /\ \A b \in DOMAIN vault \ {a} : vault'[b] = vault[b]
        /\ written' = [written EXCEPT ![a] = day]
    BY <1>3, UpsertRows DEF RowsOK
  <2>. QED
    BY <1>3, <2>1 DEF RowsOK
<1>4. ASSUME NEW s \in States, NEW a \in Accounts, StoreLogin(s, a) PROVE RowsOK'
  <2>. DEFINE row == [token |-> s, issued |-> login[s].at, expires |-> Granted(a[1]), refreshed |-> Never]
  <2>1. Upsert(a, row) /\ UNCHANGED day /\ s \in DOMAIN login
    BY <1>4 DEF StoreLogin
  <2>2. login[s].at \in Days
    BY <2>1 DEF LoginsOK
  <2>3. row \in Token /\ (row.expires = Never <=> a[1] = Page)
    BY <2>2, GrantedType DEF RowsOK, Token
  <2>. HIDE DEF row
  <2>. QED
    BY <1>3, <2>1, <2>3
<1>5. ASSUME NEW a \in Accounts, JobStores(a) PROVE RowsOK'
  <2>. DEFINE row == [token |-> job.rows[a].token, issued |-> day, expires |-> day + Life, refreshed |-> day]
  <2>1. Upsert(a, row) /\ UNCHANGED day /\ a \in DOMAIN job.rows
    BY <1>5 DEF JobStores, JobOK
  <2>2. job.rows[a].token \in States \cup {"seed"} /\ a[1] # Page
    BY <2>1 DEF JobOK, Token
  <2>3. row \in Token /\ (row.expires = Never <=> a[1] = Page)
    BY <2>2, GrantedType DEF RowsOK, Token
  <2>. HIDE DEF row
  <2>. QED
    BY <1>3, <2>1, <2>3
<1>6. ASSUME NextDay PROVE RowsOK'
  BY <1>6 DEF NextDay, RowsOK, Days, VaultAssumption
<1>7. Provision \/ Down \/ JobStarts \/ JobEnds \/ JobDies \/ UNCHANGED vaultVars
        => UNCHANGED <<vault, written, day>>
  BY DEF Provision, Down, JobStarts, JobEnds, JobDies
<1>8. /\ \A s \in States, platform \in Adapters : OAuthStart(s, platform) => UNCHANGED <<vault, written, day>>
      /\ \A s \in States, platform \in Adapters : Exchange(s, platform) => UNCHANGED <<vault, written, day>>
      /\ \A s \in States : Outdated(s) => UNCHANGED <<vault, written, day>>
      /\ \A s \in States : OAuthCallback(s) => UNCHANGED <<vault, written, day>>
  BY DEF OAuthStart, Exchange, Outdated, OAuthCallback
<1>9. /\ \A b \in Accounts, platform \in Adapters : JobRefreshes(b, platform) => UNCHANGED <<vault, written, day>>
      /\ \A b \in Accounts : JobFails(b) => UNCHANGED <<vault, written, day>>
  BY DEF JobRefreshes, JobFails
<1>. QED
  BY <1>1, <1>2, <1>4, <1>5, <1>6, <1>7, <1>8, <1>9, VaultStep, Zenon

LEMMA LoginsStep ==
  ASSUME VaultAssumption, RowsOK, LoginsOK, VaultNext \/ UNCHANGED vaultVars
  PROVE  LoginsOK'
<1>1. UNCHANGED <<server, loginHistory>> => LoginsOK'
  BY DEF LoginsOK
<1>2. Provision => LoginsOK'
  BY DEF Provision, LoginsOK
<1>3. Boot => LoginsOK'
  BY DEF Boot, LoginsOK
<1>4. Down => LoginsOK'
  BY DEF Down, LoginsOK
<1>5. \A s \in States, platform \in Adapters : OAuthStart(s, platform) => LoginsOK'
  BY DEF OAuthStart, Generated, LoginsOK
<1>6. ASSUME NEW s \in States, Outdated(s) PROVE LoginsOK'
  <2>1. /\ s \in DOMAIN states /\ states' = [states EXCEPT ![s].young = FALSE]
        /\ \A t \in DOMAIN states : states[t] \in [platform : Adapters, young : BOOLEAN]
    BY <1>6 DEF Outdated, LoginsOK
  <2>2. DOMAIN states' = DOMAIN states
        /\ \A t \in DOMAIN states' : states'[t] \in [platform : Adapters, young : BOOLEAN]
    BY <2>1
  <2>. QED
    BY <1>6, <2>2 DEF Outdated, LoginsOK
<1>7. ASSUME NEW s \in States, OAuthCallback(s) PROVE LoginsOK'
  <2>1. s \in DOMAIN states /\ states[s].platform \in Adapters /\ Calls(states[s].platform) \in 0..3
    BY <1>7 DEF OAuthCallback, LoginsOK, Calls
  <2>2. /\ DOMAIN states' \subseteq minted
        /\ \A t \in DOMAIN states' : states'[t] \in [platform : Adapters, young : BOOLEAN]
    BY <1>7 DEF OAuthCallback, Popped, LoginsOK
  <2>3. /\ DOMAIN login' \subseteq minted
        /\ \A t \in DOMAIN login' : login'[t] \in [platform : Adapters, left : 0..3, at : Days]
    <3>1. CASE states[s].young
      <4>1. login' = [t \in DOMAIN login \cup {s} |->
                         IF t = s THEN [platform |-> states[s].platform,
                                        left |-> Calls(states[s].platform), at |-> day]
                         ELSE login[t]]
        BY <1>7, <3>1 DEF OAuthCallback
      <4>. QED
        BY <2>1, <4>1 DEF LoginsOK, RowsOK
    <3>2. CASE ~states[s].young
      BY <1>7, <3>2 DEF OAuthCallback, LoginsOK
    <3>. QED
      BY <3>1, <3>2
  <2>4. accepted' \in [States -> Nat] /\ UNCHANGED <<provisioned, service, minted>>
    BY <1>7 DEF OAuthCallback, LoginsOK
  <2>. QED
    BY <2>2, <2>3, <2>4 DEF LoginsOK
<1>8. ASSUME NEW s \in States, NEW platform \in Adapters, Exchange(s, platform) PROVE LoginsOK'
  <2>1. s \in DOMAIN login /\ login[s] \in [platform : Adapters, left : 0..3, at : Days] /\ login[s].left > 0
    BY <1>8 DEF Exchange, LoginsOK
  <2>2. login[s].left - 1 \in 0..3
    BY <2>1
  <2>3. CASE login' = [login EXCEPT ![s].left = @ - 1]
    BY <1>8, <2>1, <2>2, <2>3 DEF Exchange, LoginsOK
  <2>4. CASE login' = WithoutLogin(s)
    BY <1>8, <2>4 DEF Exchange, WithoutLogin, LoginsOK
  <2>. QED
    BY <1>8, <2>3, <2>4 DEF Exchange
<1>9. \A s \in States, a \in Accounts : StoreLogin(s, a) => LoginsOK'
  BY DEF StoreLogin, WithoutLogin, LoginsOK
<1>10. NextDay \/ JobStarts \/ JobEnds \/ JobDies \/ UNCHANGED vaultVars => UNCHANGED <<server, loginHistory>>
  BY DEF NextDay, JobStarts, JobEnds, JobDies
<1>11. /\ \A b \in Accounts, platform \in Adapters : JobRefreshes(b, platform) => UNCHANGED <<server, loginHistory>>
       /\ \A b \in Accounts : JobFails(b) => UNCHANGED <<server, loginHistory>>
       /\ \A b \in Accounts : JobStores(b) => UNCHANGED <<server, loginHistory>>
  BY DEF JobRefreshes, JobFails, JobStores
<1>. QED
  BY <1>1, <1>2, <1>3, <1>4, <1>5, <1>6, <1>7, <1>8, <1>9, <1>10, <1>11, VaultStep, Zenon

LEMMA JobStep ==
  ASSUME VaultAssumption, RowsOK, JobOK, VaultNext \/ UNCHANGED vaultVars
  PROVE  JobOK'
<1>1. UNCHANGED sweep => JobOK'
  BY DEF JobOK
<1>2. NoJob.step = "idle" /\ NoJob.ok = TRUE /\ NoJob.next = {} /\ DOMAIN NoJob.rows = {}
  BY DEF NoJob
<1>3. ASSUME JobStarts PROVE JobOK'
  <2>1. CASE provisioned
    <3>1. job' = Work([a \in Due |-> vault[a]], {}, TRUE)
      BY <1>3, <2>1 DEF JobStarts
    <3>2. \A a \in Due : a \in Accounts /\ vault[a] \in Token /\ a[1] # Page
      BY DEF Due, RowsOK
    <3>3. /\ job'.step = "work" /\ job'.ok = TRUE /\ job'.next = {} /\ DOMAIN job'.rows = Due
          /\ \A a \in Due : job'.rows[a] = vault[a]
      BY <3>1 DEF Work
    <3>4. ran' = day /\ day \in Days /\ swept' = swept
      BY <1>3 DEF JobStarts, RowsOK
    <3>. QED
      BY <3>2, <3>3, <3>4 DEF JobOK
  <2>2. CASE ~provisioned
    BY <1>2, <1>3, <2>2 DEF JobStarts, JobOK, RowsOK
  <2>. QED
    BY <2>1, <2>2
<1>4. JobEnds => JobOK'
  BY <1>2 DEF JobEnds, JobOK, RowsOK
<1>5. JobDies => JobOK'
  BY <1>2 DEF JobDies, JobOK
<1>6. \A a \in Accounts, platform \in Adapters : JobRefreshes(a, platform) => JobOK'
  BY DEF JobRefreshes, Work, JobOK
<1>7. \A a \in Accounts : JobFails(a) => JobOK'
  BY DEF JobFails, Work, Rest, JobOK
<1>8. \A a \in Accounts : JobStores(a) => JobOK'
  BY DEF JobStores, Work, Rest, JobOK
<1>9. Provision \/ Boot \/ Down \/ NextDay \/ UNCHANGED vaultVars => UNCHANGED sweep
  BY DEF Provision, Boot, Down, NextDay
<1>10. /\ \A s \in States, platform \in Adapters : OAuthStart(s, platform) => UNCHANGED sweep
       /\ \A s \in States, platform \in Adapters : Exchange(s, platform) => UNCHANGED sweep
       /\ \A s \in States : Outdated(s) => UNCHANGED sweep
       /\ \A s \in States : OAuthCallback(s) => UNCHANGED sweep
       /\ \A s \in States, a \in Accounts : StoreLogin(s, a) => UNCHANGED sweep
  BY DEF OAuthStart, Exchange, Outdated, OAuthCallback, StoreLogin
<1>. QED
  BY <1>1, <1>3, <1>4, <1>5, <1>6, <1>7, <1>8, <1>9, <1>10, VaultStep, Zenon
-----------------------------------------------------------------------------
(* A step on the vault leaves each row as it is, or writes it today: what  *)
(* is written today is owed to no sweep up to today.                       *)
Kept == \A b \in DOMAIN vault' : \/ written'[b] = day
                                 \/ b \in DOMAIN vault /\ vault'[b] = vault[b] /\ written'[b] = written[b]
LEMMA UpsertKeeps ==
  ASSUME RowsOK, NEW a \in Accounts, NEW row, Upsert(a, row)
  PROVE  Kept
<1>1. written \in [Accounts -> Days \cup {Never}] /\ DOMAIN vault \subseteq Accounts
  BY DEF RowsOK
<1>2. /\ DOMAIN vault' = DOMAIN vault \cup {a} /\ written'[a] = day
      /\ \A b \in DOMAIN vault \ {a} : vault'[b] = vault[b]
      /\ \A b \in Accounts \ {a} : written'[b] = written[b]
  BY <1>1, UpsertRows, Zenon
<1>. QED
  BY <1>1, <1>2 DEF Kept

LEMMA BootKeeps ==
  ASSUME VaultAssumption, RowsOK, Boot
  PROVE  Kept
BY BootRows DEF Kept

LEMMA OnTheListStep ==
  ASSUME VaultAssumption, RowsOK, JobOK, OnTheList, VaultNext \/ UNCHANGED vaultVars
  PROVE  OnTheList'
<1>1. UNCHANGED <<vault, written, day, job, swept>> => OnTheList'
  BY DEF OnTheList, Owed
<1>2. ASSUME Kept, UNCHANGED <<day, swept>>,
             job.step # "work" \/ ~job.ok => UNCHANGED job,
             job'.step = "work" /\ job'.ok => job.step = "work" /\ job.ok,
             \A a \in DOMAIN job.rows : a \in DOMAIN job'.rows \/ written'[a] = day
      PROVE  OnTheList'
  <2>1. SUFFICES ASSUME job'.step = "work", job'.ok, NEW a \in DOMAIN vault', Owed(a, day)'
                 PROVE  a \in DOMAIN job'.rows
    BY <1>2 DEF OnTheList
  <2>2. day \in Days /\ day <= day
    BY DEF RowsOK, Days
  <2>3. Owed(a, day)' <=> written'[a] < day /\ vault'[a].issued < day /\ vault'[a].expires # Never
                            /\ vault'[a].expires - day < Window
    BY <1>2 DEF Owed
  <2>4. a \in DOMAIN vault /\ Owed(a, day) /\ written'[a] # day
    BY <1>2, <2>1, <2>2, <2>3 DEF Kept, Owed, RowsOK, Days
  <2>. QED
    BY <1>2, <2>1, <2>4 DEF OnTheList
<1>3. ASSUME Boot PROVE OnTheList'
  <2>1. UNCHANGED <<day, swept, job>>
    BY <1>3 DEF Boot
  <2>. QED
    BY <1>2, <1>3, <2>1, BootKeeps
<1>4. ASSUME NEW s \in States, NEW a \in Accounts, StoreLogin(s, a) PROVE OnTheList'
  <2>1. UNCHANGED <<day, swept, job>> /\ Kept
    BY <1>4, UpsertKeeps DEF StoreLogin
  <2>. QED
    BY <1>2, <2>1
<1>5. ASSUME NEW a \in Accounts, JobStores(a) PROVE OnTheList'
  <2>1. UNCHANGED <<day, swept>> /\ Kept /\ job.step = "work"
    BY <1>5, UpsertKeeps DEF JobStores
  <2>2. job'.step = "work" /\ job'.ok = job.ok /\ DOMAIN job'.rows = DOMAIN job.rows \ {a}
    BY <1>5 DEF JobStores, Work, Rest
  <2>3. written'[a] = day
    BY <1>5 DEF JobStores, Upsert, RowsOK
  <2>4. CASE job.ok
    BY <1>2, <2>1, <2>2, <2>3, <2>4
  <2>5. CASE ~job.ok
    BY <2>1, <2>2, <2>5 DEF OnTheList
  <2>. QED
    BY <2>4, <2>5
<1>6. ASSUME JobStarts PROVE OnTheList'
  <2>1. CASE provisioned
    <3>1. job' = Work([a \in Due |-> vault[a]], {}, TRUE) /\ UNCHANGED <<vault, written, day, swept>>
      BY <1>6, <2>1 DEF JobStarts
    <3>2. \A a \in DOMAIN vault : Owed(a, day) => a \in Due
      BY DEF Owed, Due, RowsOK, Token, Days
    <3>3. DOMAIN job'.rows = Due
      BY <3>1 DEF Work
    <3>. QED
      BY <3>1, <3>2, <3>3 DEF OnTheList, Owed
  <2>2. CASE ~provisioned
    BY <1>6, <2>2 DEF JobStarts, NoJob, OnTheList
  <2>. QED
    BY <2>1, <2>2
<1>7. JobEnds => OnTheList'
  BY DEF JobEnds, NoJob, OnTheList, RowsOK, Days
<1>8. JobDies => OnTheList'
  BY DEF JobDies, NoJob, OnTheList
<1>9. \A a \in Accounts, platform \in Adapters : JobRefreshes(a, platform) => OnTheList'
  BY DEF JobRefreshes, Work, OnTheList, Owed
<1>10. \A a \in Accounts : JobFails(a) => OnTheList'
  BY DEF JobFails, Work, OnTheList
<1>11. ASSUME NextDay PROVE OnTheList'
  <2>1. job.step = "idle" /\ day' = day + 1 /\ UNCHANGED <<job, swept>>
    BY <1>11 DEF NextDay, NoJob
  <2>2. \A d \in swept : d <= day + 1
    BY DEF OnTheList, RowsOK, JobOK, Days
  <2>. QED
    BY <2>1, <2>2 DEF OnTheList
<1>12. Provision \/ Down \/ UNCHANGED vaultVars => UNCHANGED <<vault, written, day, job, swept>>
  BY DEF Provision, Down
<1>13. /\ \A s \in States, platform \in Adapters : OAuthStart(s, platform) => UNCHANGED <<vault, written, day, job, swept>>
       /\ \A s \in States, platform \in Adapters : Exchange(s, platform) => UNCHANGED <<vault, written, day, job, swept>>
       /\ \A s \in States : Outdated(s) => UNCHANGED <<vault, written, day, job, swept>>
       /\ \A s \in States : OAuthCallback(s) => UNCHANGED <<vault, written, day, job, swept>>
  BY DEF OAuthStart, Exchange, Outdated, OAuthCallback
<1>. QED
  BY <1>1, <1>3, <1>4, <1>5, <1>6, <1>7, <1>8, <1>9, <1>10, <1>11, <1>12, <1>13, VaultStep, Zenon

LEMMA NothingOwedStep ==
  ASSUME VaultAssumption, RowsOK, JobOK, OnTheList, NothingOwed, VaultNext \/ UNCHANGED vaultVars
  PROVE  NothingOwed'
<1>1. UNCHANGED <<vault, written, swept>> => NothingOwed'
  BY DEF NothingOwed, Owed
<1>2. ASSUME Kept, UNCHANGED <<day, swept>> PROVE NothingOwed'
  <2>1. SUFFICES ASSUME NEW a \in DOMAIN vault', NEW d \in swept', Owed(a, d)' PROVE FALSE
    BY DEF NothingOwed
  <2>2. d \in swept /\ d \in Days /\ d <= day
    BY <1>2, <2>1 DEF OnTheList, JobOK
  <2>3. a \in DOMAIN vault /\ Owed(a, d)
    BY <1>2, <2>1, <2>2 DEF Kept, Owed, RowsOK, Days
  <2>. QED
    BY <2>2, <2>3 DEF NothingOwed
<1>3. Boot => NothingOwed'
  BY <1>2, BootKeeps DEF Boot
<1>4. \A s \in States, a \in Accounts : StoreLogin(s, a) => NothingOwed'
  BY <1>2, UpsertKeeps DEF StoreLogin
<1>5. \A a \in Accounts : JobStores(a) => NothingOwed'
  BY <1>2, UpsertKeeps DEF JobStores
<1>6. ASSUME JobEnds PROVE NothingOwed'
  <2>1. UNCHANGED <<vault, written>> /\ job.step = "work" /\ DOMAIN job.rows = {}
        /\ swept' = IF job.ok THEN swept \cup {day} ELSE swept
    BY <1>6 DEF JobEnds
  <2>2. job.ok => \A a \in DOMAIN vault : ~Owed(a, day)
    BY <2>1 DEF OnTheList
  <2>3. \A a \in DOMAIN vault : \A d \in swept' : ~Owed(a, d)
    BY <2>1, <2>2 DEF NothingOwed
  <2>. QED
    BY <2>1, <2>3 DEF NothingOwed, Owed
<1>7. Provision \/ Down \/ NextDay \/ JobStarts \/ JobDies \/ UNCHANGED vaultVars => UNCHANGED <<vault, written, swept>>
  BY DEF Provision, Down, NextDay, JobStarts, JobDies
<1>8. /\ \A s \in States, platform \in Adapters : OAuthStart(s, platform) => UNCHANGED <<vault, written, swept>>
      /\ \A s \in States, platform \in Adapters : Exchange(s, platform) => UNCHANGED <<vault, written, swept>>
      /\ \A s \in States : Outdated(s) => UNCHANGED <<vault, written, swept>>
      /\ \A s \in States : OAuthCallback(s) => UNCHANGED <<vault, written, swept>>
  BY DEF OAuthStart, Exchange, Outdated, OAuthCallback
<1>9. /\ \A b \in Accounts, platform \in Adapters : JobRefreshes(b, platform) => UNCHANGED <<vault, written, swept>>
      /\ \A b \in Accounts : JobFails(b) => UNCHANGED <<vault, written, swept>>
  BY DEF JobRefreshes, JobFails
<1>. QED
  BY <1>1, <1>3, <1>4, <1>5, <1>6, <1>7, <1>8, <1>9, VaultStep, Zenon
-----------------------------------------------------------------------------
(* The invariant holds of every behaviour of the vault.                    *)
THEOREM VaultSafe == VaultSpec => []VaultInv
<1>1. VaultInit => VaultInv
  BY VaultAssumption, VaultInitInv
<1>2. VaultInv /\ [VaultNext]_vaultVars => VaultInv'
  <2>. SUFFICES ASSUME VaultInv, VaultNext \/ UNCHANGED vaultVars PROVE VaultInv'
    OBVIOUS
  <2>1. RowsOK /\ LoginsOK /\ JobOK /\ Unspent /\ OnTheList /\ NothingOwed
    BY DEF VaultInv, VaultTypeOK
  <2>2. RowsOK' /\ LoginsOK' /\ JobOK'
    BY <2>1, VaultAssumption, RowsStep, LoginsStep, JobStep
  <2>3. Unspent' /\ OnTheList' /\ NothingOwed'
    BY <2>1, VaultAssumption, UnspentStep, OnTheListStep, NothingOwedStep
  <2>. QED
    BY <2>2, <2>3 DEF VaultInv, VaultTypeOK
<1>. QED
  BY <1>1, <1>2, PTL DEF VaultSpec

(* Every variable of the vault keeps its type, a Page token alone does not *)
(* expire (upsert_token beside the adapters).                              *)
THEOREM VaultTypes == VaultSpec => []VaultTypeOK
<1>1. VaultInv => VaultTypeOK
  BY DEF VaultInv
<1>. QED
  BY <1>1, VaultSafe, PTL

(* No login can be replayed: a state is accepted once, and none that was   *)
(* accepted is in the store (StateStore.validate_and_consume).             *)
THEOREM StatesAreSpentOnce == VaultSpec => []StateSpentOnce
<1>1. VaultInv => StateSpentOnce
  BY DEF VaultInv, Unspent, StateSpentOnce
<1>. QED
  BY <1>1, VaultSafe, PTL

(* A day whose sweep reported success left no row of before that day in    *)
(* the refresh window (refresh.run).                                       *)
THEOREM SweptDaysAreFresh == VaultSpec => []SweptIsFresh
<1>1. ASSUME VaultAssumption, VaultInv PROVE SweptIsFresh
  <2>1. /\ \A a \in DOMAIN vault : vault[a].expires \in Nat \cup {Never}
        /\ swept \subseteq Days
    BY <1>1 DEF VaultInv, VaultTypeOK, RowsOK, JobOK, Token
  <2>2. Window \in Nat /\ \A d \in Days : d \in Nat
    BY <1>1 DEF VaultAssumption, Days
  <2>3. \A a \in DOMAIN vault : \A d \in swept : ~Owed(a, d)
    BY <1>1 DEF VaultInv, NothingOwed
  <2>. QED
    BY <2>1, <2>2, <2>3 DEF SweptIsFresh, Owed
<1>2. VaultInv => SweptIsFresh
  BY <1>1, VaultAssumption
<1>. QED
  BY <1>2, VaultSafe, PTL

(* No step brings the token of the env file back to a row that a login or  *)
(* a refresh has written (bootstrap_vault_from_config).                    *)
THEOREM SeedsNeverReturn == VaultSpec => NoReturnToSeed
<1>1. VaultInv /\ [VaultNext]_vaultVars =>
        [\A a \in DOMAIN vault : ~IsSeed(a) => a \in DOMAIN vault' /\ ~IsSeed(a)']_vaultVars
  BY VaultAssumption, NoReturnStep DEF VaultInv, VaultTypeOK
<1>. QED
  BY <1>1, VaultSafe, PTL DEF VaultSpec, NoReturnToSeed
=============================================================================
