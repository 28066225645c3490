----------------------------- MODULE AccountsProofs -----------------------------
(***************************************************************************)
(* Theorems about Accounts, for any addresses, registrations and clients,  *)
(* any lifetimes of the tokens and any number of changes to accounts and   *)
(* trials.                                                                 *)
(***************************************************************************)
EXTENDS Accounts, TLAPS

Presence == Account \cup {NoAccount}

\* NoAccount is not an account.
LEMMA AccountIsSome == NoAccount \notin Account
BY AccountsAssumption DEF Account

\* A registration that looked at an address has one.
SignupsAddressed == \A s \in Signups : signup[s].state # "new" => signup[s].email \in Emails

AccountsInv == AccountsTypeOK /\ SignupsAddressed

-----------------------------------------------------------------------------
(* Types *)

\* A new account is one.
LEMMA NewAccount ==
    ASSUME NEW s \in Signups
    PROVE  [password |-> s, tier |-> "free", active |-> TRUE, admin |-> FALSE] \in Account
BY AccountsAssumption DEF Account

\* An account that is edited is one, with the password it had.
LEMMA EditedAccount ==
    ASSUME AccountsTypeOK, NEW e \in Emails, NEW tier \in Tiers,
           NEW active \in BOOLEAN, NEW admin \in BOOLEAN, EditAccount(e, tier, active, admin)
    PROVE  /\ accounts' \in [Emails -> Presence]
           /\ \A f \in Emails : accounts[f] # NoAccount =>
                accounts'[f] # NoAccount /\ accounts'[f].password = accounts[f].password
<1> DEFINE new == [accounts[e] EXCEPT !.tier = tier, !.active = active, !.admin = admin]
<1>1. accounts[e] \in Account
  BY DEF AccountsTypeOK, EditAccount
<1>2. new \in Account /\ new.password = accounts[e].password
  BY <1>1 DEF Account
<1>3. accounts' = [accounts EXCEPT ![e] = new]
  BY DEF EditAccount, AccountsTypeOK
<1> HIDE DEF new
<1> QED BY <1>2, <1>3, AccountIsSome DEF AccountsTypeOK, Presence

\* The tokens that are issued are tokens.
LEMMA IssuedTokens ==
    ASSUME AccountsTypeOK, NEW e \in Emails
    PROVE  AccessToken(e) \in Token /\ RefreshToken(e) \in Token
<1>1. /\ hour \in Nat /\ hour <= MaxHour /\ MaxHour \in Nat
      /\ AccessTTL \in Nat /\ RefreshTTL \in Nat
  BY AccountsAssumption DEF AccountsTypeOK
<1>2. /\ hour + AccessTTL \in 0..(MaxHour + AccessTTL + RefreshTTL)
      /\ hour + RefreshTTL \in 0..(MaxHour + AccessTTL + RefreshTTL)
  BY <1>1
<1> QED BY <1>2 DEF AccessToken, RefreshToken, Token

\* What a token stands for, on arrival, is a user.
LEMMA UserType ==
    ASSUME AccountsTypeOK, NEW tok \in tokens \cup {NoToken}
    PROVE  UserOf(tok) \in User
<1>1. CASE Decodes(tok, "access") /\ accounts[tok.sub] # NoAccount
  <2>1. tok.sub \in Emails
    BY <1>1 DEF Decodes, AccountsTypeOK, Token
  <2>2. accounts[tok.sub] \in Account
    BY <1>1, <2>1 DEF AccountsTypeOK
  <2> QED BY <2>1, <2>2 DEF UserOf, User, Account
<1>2. CASE ~(Decodes(tok, "access") /\ accounts[tok.sub] # NoAccount)
  BY <1>2 DEF UserOf, User
<1> QED BY <1>1, <1>2

\* A moment's standing is one.
LEMMA StandingType ==
    ASSUME AccountsTypeOK, NEW e \in Emails
    PROVE  StandingOf(e) \in Standing
BY DEF AccountsTypeOK, StandingOf, Standing

LEMMA AccountsInvInit == AccountsInit => AccountsInv
<1> SUFFICES ASSUME AccountsInit PROVE AccountsInv
  OBVIOUS
<1>1. Idle \in Request
  BY AccountsAssumption DEF Idle, Request, Routes, User
<1>2. hour = 0 /\ hour \in 0..MaxHour /\ changes \in 0..MaxChanges
  BY AccountsAssumption DEF AccountsInit
<1>3. AccountsTypeOK
  BY <1>1, <1>2 DEF AccountsInit, AccountsTypeOK
<1>4. SignupsAddressed
  BY DEF AccountsInit, SignupsAddressed
<1> QED BY <1>3, <1>4 DEF AccountsInv

\* A request that arrives is well typed.
LEMMA ArriveType ==
    ASSUME AccountsTypeOK, NEW c \in Clients, NEW route \in Routes,
           NEW tok \in tokens \cup {NoToken}, NEW e \in Emails, NEW v \in BOOLEAN,
           Arrive(c, route, tok, e, v)
    PROVE  AccountsTypeOK'
<1> DEFINE r == [state |-> IF route = "admin" /\ ~UserOf(tok).admin THEN "refused"
                           ELSE "checked",
                 route |-> route, email |-> e, user |-> UserOf(tok), visitor |-> v,
                 shown |-> {}]
<1>1. r \in Request
  BY UserType DEF Request
<1>2. request' = [request EXCEPT ![c] = r]
  BY DEF Arrive
<1> HIDE DEF r
<1>3. during' \in [Clients -> SUBSET Standing]
  BY StandingType DEF Arrive, AccountsTypeOK
<1>4. request' \in [Clients -> Request]
  BY <1>1, <1>2 DEF AccountsTypeOK
<1> QED BY <1>3, <1>4 DEF Arrive, AccountsTypeOK

\* So is one that is answered.
LEMMA AnswerType ==
    ASSUME AccountsTypeOK, NEW c \in Clients, Answer(c)
    PROVE  AccountsTypeOK'
<1> DEFINE r == request[c]
<1>1. PICK active \in {trial, FALSE} :
        request' = [request EXCEPT ![c] =
           IF r.route = "signals" /\ ~PaywallOpen(r, active)
           THEN [r EXCEPT !.state = "refused"]
           ELSE [r EXCEPT !.state = "served",
                          !.shown = FilterByTier(r.route, r.user.tier)]]
  BY DEF Answer
<1>2. r \in Request
  BY DEF AccountsTypeOK
<1>3. FilterByTier(r.route, r.user.tier) \in SUBSET {"anonymous", "free", "vip1"}
  BY DEF FilterByTier, Schema
<1>4. [r EXCEPT !.state = "refused"] \in Request
  BY <1>2 DEF Request
<1>5. [r EXCEPT !.state = "served", !.shown = FilterByTier(r.route, r.user.tier)] \in Request
  BY <1>2, <1>3 DEF Request
<1>6. request' \in [Clients -> Request]
  BY <1>1, <1>4, <1>5 DEF AccountsTypeOK
<1> QED BY <1>6 DEF Answer, AccountsTypeOK

\* A registration inserts an account only where there is none.
LEMMA InsertChange ==
    ASSUME AccountsInv, NEW s \in Signups, InsertAccount(s)
    PROVE  /\ signup[s].email \in Emails
           /\ accounts' \in [Emails -> Presence]
           /\ \/ /\ accounts[signup[s].email] = NoAccount
                 /\ accounts'[signup[s].email] # NoAccount
                 /\ accounts'[signup[s].email].password = s
                 /\ \A e \in Emails : e # signup[s].email => accounts'[e] = accounts[e]
                 /\ signup' = [signup EXCEPT ![s].state = "registered"]
              \/ UNCHANGED accounts /\ signup' = [signup EXCEPT ![s].state = "error"]
<1> DEFINE new == [password |-> s, tier |-> "free", active |-> TRUE, admin |-> FALSE]
           e == signup[s].email
<1>1. e \in Emails
  BY DEF InsertAccount, AccountsInv, SignupsAddressed
<1>2. new \in Account /\ new.password = s
  BY NewAccount
<1>3. \/ /\ accounts[e] = NoAccount /\ accounts' = [accounts EXCEPT ![e] = new]
         /\ signup' = [signup EXCEPT ![s].state = "registered"]
      \/ UNCHANGED accounts /\ signup' = [signup EXCEPT ![s].state = "error"]
  BY DEF InsertAccount
<1> HIDE DEF new, e
<1>4. accounts' \in [Emails -> Presence]
  BY <1>1, <1>2, <1>3 DEF AccountsInv, AccountsTypeOK, Presence
<1>5. accounts[e] = NoAccount /\ accounts' = [accounts EXCEPT ![e] = new] =>
        /\ accounts'[e] # NoAccount /\ accounts'[e].password = s
        /\ \A f \in Emails : f # e => accounts'[f] = accounts[f]
  BY <1>1, <1>2, AccountIsSome DEF AccountsInv, AccountsTypeOK
<1> QED BY <1>1, <1>3, <1>4, <1>5 DEF e

\* A registration that moves on keeps its address.
LEMMA SignupMoves ==
    ASSUME AccountsInv, NEW s \in Signups, NEW st \in {"registered", "error"},
           signup[s].state = "checked", signup' = [signup EXCEPT ![s].state = st]
    PROVE  /\ signup' \in [Signups -> [state : {"new", "checked", "registered", "conflict", "error"},
                                        email : Emails \cup {NoAccount}]]
           /\ \A t \in Signups : signup'[t].email = signup[t].email
           /\ \A t \in Signups : t # s => signup'[t] = signup[t]
           /\ signup'[s].state = st
<1> DEFINE r == [signup[s] EXCEPT !.state = st]
<1>1. r \in [state : {"new", "checked", "registered", "conflict", "error"},
             email : Emails \cup {NoAccount}]
  BY DEF AccountsInv, AccountsTypeOK
<1>2. r.state = st /\ r.email = signup[s].email
  BY DEF AccountsInv, AccountsTypeOK
<1>3. signup' = [signup EXCEPT ![s] = r]
  OBVIOUS
<1> HIDE DEF r
<1> QED BY <1>1, <1>2, <1>3 DEF AccountsInv, AccountsTypeOK

\* What a request sees of a change is a standing.
LEMMA WitnessType ==
    ASSUME AccountsTypeOK, accounts' \in [Emails -> Presence], trial' \in BOOLEAN, Witness
    PROVE  during' \in [Clients -> SUBSET Standing]
<1>1. ASSUME NEW c \in Clients
      PROVE  during'[c] \in SUBSET Standing
  <2>1. request[c].email \in Emails /\ during[c] \in SUBSET Standing
    BY DEF AccountsTypeOK, Request
  <2>2. [account |-> accounts'[request[c].email], trial |-> trial'] \in Standing
    BY <2>1 DEF Standing, Presence
  <2> QED BY <2>1, <2>2 DEF Witness
<1> QED BY <1>1 DEF Witness

LEMMA AccountsInvStep == AccountsInv /\ [AccountsNext]_accountsVars => AccountsInv'
<1> SUFFICES ASSUME AccountsInv, [AccountsNext]_accountsVars
             PROVE  AccountsInv'
  OBVIOUS
<1> USE AccountsAssumption
<1>0. AccountsTypeOK /\ SignupsAddressed
  BY DEF AccountsInv
<1>1. ASSUME NEW s \in Signups, NEW e \in Emails, CheckEmail(s, e)
      PROVE  AccountsInv'
  BY <1>0, <1>1 DEF CheckEmail, AccountsTypeOK, SignupsAddressed, AccountsInv
<1>2. ASSUME NEW s \in Signups, NEW e \in Emails, Login(s, e)
      PROVE  AccountsInv'
  <2>1. tokens' \subseteq Token
    BY <1>0, <1>2, IssuedTokens DEF Login, AccountsTypeOK
  <2> QED BY <1>0, <1>2, <2>1 DEF Login, AccountsTypeOK, SignupsAddressed, AccountsInv
<1>3. ASSUME NEW s \in Signups, InsertAccount(s)
      PROVE  AccountsInv'
  <2>1. accounts' \in [Emails -> Presence]
    BY <1>3, InsertChange
  <2>2. /\ signup' \in [Signups -> [state : {"new", "checked", "registered", "conflict", "error"},
                                     email : Emails \cup {NoAccount}]]
        /\ SignupsAddressed'
    <3>1. PICK st \in {"registered", "error"} : signup' = [signup EXCEPT ![s].state = st]
      BY <1>3 DEF InsertAccount
    <3>2. signup[s].state = "checked"
      BY <1>3 DEF InsertAccount
    <3> QED BY <1>0, <3>1, <3>2, SignupMoves DEF SignupsAddressed
  <2> QED BY <1>0, <1>3, <2>1, <2>2 DEF InsertAccount, AccountsTypeOK, AccountsInv, Presence
<1>4. ASSUME NEW tok \in tokens, Refresh(tok)
      PROVE  AccountsInv'
  <2>1. tok.sub \in Emails
    BY <1>0 DEF AccountsTypeOK, Token
  <2>2. tokens' \subseteq Token
    BY <1>0, <1>4, <2>1, IssuedTokens DEF Refresh, AccountsTypeOK
  <2> QED BY <1>0, <1>4, <2>2 DEF Refresh, AccountsTypeOK, SignupsAddressed, AccountsInv
<1>5. ASSUME NEW c \in Clients, NEW route \in Routes, NEW tok \in tokens \cup {NoToken},
             NEW e \in Emails, NEW v \in BOOLEAN, Arrive(c, route, tok, e, v)
      PROVE  AccountsInv'
  BY <1>0, <1>5, ArriveType DEF Arrive, SignupsAddressed, AccountsInv
<1>6. ASSUME NEW c \in Clients, Answer(c)
      PROVE  AccountsInv'
  BY <1>0, <1>6, AnswerType DEF Answer, SignupsAddressed, AccountsInv
<1>7. ASSUME NEW e \in Emails, NEW tier \in Tiers, NEW active \in BOOLEAN,
             NEW admin \in BOOLEAN, EditAccount(e, tier, active, admin)
      PROVE  AccountsInv'
  <2>1. accounts' \in [Emails -> Presence]
    BY <1>0, <1>7, EditedAccount
  <2>2. during' \in [Clients -> SUBSET Standing]
    BY <1>0, <1>7, <2>1, WitnessType DEF EditAccount, AccountsTypeOK
  <2>3. changes' \in 0..MaxChanges
    BY <1>0, <1>7 DEF EditAccount, AccountsTypeOK
  <2> QED BY <1>0, <1>7, <2>1, <2>2, <2>3
          DEF EditAccount, AccountsTypeOK, SignupsAddressed, AccountsInv, Presence
<1>8. CASE TrialChanges
  <2>1. trial' \in BOOLEAN /\ UNCHANGED accounts
    BY <1>8 DEF TrialChanges
  <2>2. during' \in [Clients -> SUBSET Standing]
    BY <1>0, <1>8, <2>1, WitnessType DEF TrialChanges, AccountsTypeOK, Presence
  <2>3. changes' \in 0..MaxChanges
    BY <1>0, <1>8 DEF TrialChanges, AccountsTypeOK
  <2> QED BY <1>0, <1>8, <2>1, <2>2, <2>3
          DEF TrialChanges, AccountsTypeOK, SignupsAddressed, AccountsInv
<1>9. CASE HourPasses
  BY <1>0, <1>9 DEF HourPasses, AccountsTypeOK, SignupsAddressed, AccountsInv
<1>10. CASE UNCHANGED accountsVars
  BY <1>0, <1>10 DEF accountsVars, AccountsTypeOK, SignupsAddressed, AccountsInv
<1> QED BY <1>1, <1>2, <1>3, <1>4, <1>5, <1>6, <1>7, <1>8, <1>9, <1>10 DEF AccountsNext

(* Every account, token, registration and request keeps its type.          *)
THEOREM AccountsTypeCorrect == AccountsSpec => []AccountsTypeOK
<1>1. AccountsInv => AccountsTypeOK
  BY DEF AccountsInv
<1> QED BY <1>1, AccountsInvInit, AccountsInvStep, PTL DEF AccountsSpec

-----------------------------------------------------------------------------
(* Of any number of concurrent registrations of one address the one that   *)
(* was told it succeeded owns the account, whoever edits it later.         *)
THEOREM TheRegisteredOwn == AccountsSpec => []RegisteredOwns
<1>1. AccountsInit => RegisteredOwns
  BY DEF AccountsInit, RegisteredOwns
<1>2. ASSUME AccountsInv, RegisteredOwns, [AccountsNext]_accountsVars
      PROVE  RegisteredOwns'
  <2>1. ASSUME NEW s \in Signups, NEW e \in Emails, CheckEmail(s, e)
        PROVE  RegisteredOwns'
    BY <1>2, <2>1 DEF CheckEmail, RegisteredOwns, AccountsInv, AccountsTypeOK
  <2>2. ASSUME NEW s \in Signups, InsertAccount(s)
        PROVE  RegisteredOwns'
    <3> SUFFICES ASSUME NEW t \in Signups, signup'[t].state = "registered"
                 PROVE  /\ accounts'[signup'[t].email] # NoAccount
                        /\ accounts'[signup'[t].email].password = t
      BY DEF RegisteredOwns
    <3>1. PICK st \in {"registered", "error"} : signup' = [signup EXCEPT ![s].state = st]
      BY <2>2 DEF InsertAccount
    <3>2. /\ signup'[t].email = signup[t].email
          /\ t # s => signup'[t] = signup[t]
      BY <1>2, <2>2, <3>1, SignupMoves DEF InsertAccount
    <3>3. t # s => /\ signup[t].email \in Emails
                   /\ accounts[signup[t].email] # NoAccount
                   /\ accounts[signup[t].email].password = t
      BY <1>2, <3>2 DEF RegisteredOwns, AccountsInv, SignupsAddressed
    <3>4. t = s => signup' # [signup EXCEPT ![s].state = "error"]
      BY <1>2, <2>2, SignupMoves DEF InsertAccount
    <3> QED BY <1>2, <2>2, <3>2, <3>3, <3>4, InsertChange
  <2>3. ASSUME NEW e \in Emails, NEW tier \in Tiers, NEW active \in BOOLEAN,
               NEW admin \in BOOLEAN, EditAccount(e, tier, active, admin)
        PROVE  RegisteredOwns'
    <3>1. UNCHANGED signup
      BY <2>3 DEF EditAccount
    <3>2. \A t \in Signups : signup[t].state = "registered" => signup[t].email \in Emails
      BY <1>2 DEF AccountsInv, SignupsAddressed
    <3> QED BY <1>2, <2>3, <3>1, <3>2, EditedAccount DEF RegisteredOwns, AccountsInv
  <2>4. CASE UNCHANGED <<accounts, signup>>
    BY <1>2, <2>4 DEF RegisteredOwns
  <2> QED BY <1>2, <2>1, <2>2, <2>3, <2>4
          DEF AccountsNext, Login, Refresh, Arrive, Answer, TrialChanges, HourPasses, accountsVars
<1> QED BY <1>1, <1>2, AccountsInvInit, AccountsInvStep, PTL DEF AccountsSpec

-----------------------------------------------------------------------------
(* How long a session lasts *)

\* A refresh token ends its own lifetime after the last login, and what was
\* made of it an access token's later.
TokensEnd ==
    /\ \A e \in Emails : lastLogin[e] <= hour
    /\ \A tok \in tokens :
         /\ tok.kind = "refresh" => tok.exp <= lastLogin[tok.sub] + RefreshTTL
         /\ tok.kind = "access" => tok.exp <= lastLogin[tok.sub] + RefreshTTL + AccessTTL

\* A step that issues no token, whether or not time passes.
LEMMA TokensEndKept ==
    ASSUME AccountsInv, TokensEnd, UNCHANGED lastLogin, tokens' \subseteq tokens,
           hour' = hour \/ hour' = hour + 1
    PROVE  TokensEnd'
<1>1. hour \in Nat /\ \A e \in Emails : lastLogin[e] \in Nat
  BY AccountsAssumption DEF AccountsInv, AccountsTypeOK
<1> QED BY <1>1 DEF TokensEnd

LEMMA TokensEndStep ==
    AccountsInv /\ TokensEnd /\ [AccountsNext]_accountsVars => TokensEnd'
<1> SUFFICES ASSUME AccountsInv, TokensEnd, [AccountsNext]_accountsVars
             PROVE  TokensEnd'
  OBVIOUS
<1>0. /\ hour \in Nat /\ \A e \in Emails : lastLogin[e] \in Nat
      /\ \A tok \in tokens : tok.sub \in Emails /\ tok.exp \in Int
      /\ AccessTTL \in Nat /\ RefreshTTL \in Nat /\ lastLogin \in [Emails -> 0..MaxHour]
  BY AccountsAssumption DEF AccountsInv, AccountsTypeOK, Token
<1>1. ASSUME NEW s \in Signups, NEW e \in Emails, Login(s, e)
      PROVE  TokensEnd'
  <2>1. UNCHANGED hour /\ lastLogin' = [lastLogin EXCEPT ![e] = hour]
    BY <1>1 DEF Login
  <2>2. \A f \in Emails : lastLogin'[f] >= lastLogin[f] /\ lastLogin'[f] <= hour
    BY <1>0, <2>1 DEF TokensEnd
  <2>3. \A f \in Emails : lastLogin'[f] \in Nat
    BY <1>0, <2>1
  <2>4. ASSUME NEW tok \in tokens'
        PROVE  /\ tok.kind = "refresh" => tok.exp <= lastLogin'[tok.sub] + RefreshTTL
               /\ tok.kind = "access" =>
                    tok.exp <= lastLogin'[tok.sub] + RefreshTTL + AccessTTL
    <3>1. CASE tok \in tokens
      <4>1. tok.sub \in Emails /\ tok.exp \in Int
        BY <1>0, <3>1
      <4>2. /\ lastLogin[tok.sub] \in Nat /\ lastLogin'[tok.sub] \in Nat
            /\ lastLogin'[tok.sub] >= lastLogin[tok.sub]
        BY <1>0, <2>2, <2>3, <4>1
      <4>3. /\ tok.kind = "refresh" => tok.exp <= lastLogin[tok.sub] + RefreshTTL
            /\ tok.kind = "access" => tok.exp <= lastLogin[tok.sub] + RefreshTTL + AccessTTL
        BY <3>1 DEF TokensEnd
      <4> QED BY <1>0, <4>1, <4>2, <4>3
    <3>2. CASE tok = AccessToken(e)
      BY <1>0, <2>1, <3>2 DEF AccessToken
    <3>3. CASE tok = RefreshToken(e)
      BY <1>0, <2>1, <3>3 DEF RefreshToken
    <3> QED BY <1>1, <3>1, <3>2, <3>3 DEF Login
  <2> QED BY <2>1, <2>2, <2>4 DEF TokensEnd
<1>2. ASSUME NEW tok \in tokens, Refresh(tok)
      PROVE  TokensEnd'
  <2>1. UNCHANGED <<hour, lastLogin>> /\ tokens' = tokens \cup {AccessToken(tok.sub)}
    BY <1>2 DEF Refresh
  <2>2. tok.kind = "refresh" /\ hour < tok.exp
    BY <1>2 DEF Refresh, Decodes
  <2>3. hour + AccessTTL <= lastLogin[tok.sub] + RefreshTTL + AccessTTL
    <3>1. tok.exp <= lastLogin[tok.sub] + RefreshTTL
      BY <2>2 DEF TokensEnd
    <3>2. tok.exp \in Int /\ lastLogin[tok.sub] \in Nat
      BY <1>0
    <3> QED BY <1>0, <2>2, <3>1, <3>2
  <2>4. /\ AccessToken(tok.sub).kind = "access" /\ AccessToken(tok.sub).sub = tok.sub
        /\ AccessToken(tok.sub).exp = hour + AccessTTL
    BY DEF AccessToken
  <2> QED BY <2>1, <2>3, <2>4 DEF TokensEnd
<1>3. CASE HourPasses
  <2>1. tokens' \subseteq tokens /\ UNCHANGED lastLogin /\ hour' = hour + 1
    BY <1>3 DEF HourPasses
  <2> QED BY <2>1, TokensEndKept
<1>4. CASE UNCHANGED <<hour, tokens, lastLogin>>
  BY <1>4, TokensEndKept
<1> QED BY <1>1, <1>2, <1>3, <1>4
        DEF AccountsNext, CheckEmail, InsertAccount, Arrive, Answer, EditAccount,
            TrialChanges, accountsVars

(* No chain of refreshes keeps a session alive longer than one refresh     *)
(* token and one access token after the last use of the password.          *)
THEOREM SessionsDoEnd == AccountsSpec => []SessionsEnd
<1>1. AccountsInit => TokensEnd
  BY DEF AccountsInit, TokensEnd
<1>2. AccountsInv /\ TokensEnd => SessionsEnd
  <2> SUFFICES ASSUME AccountsInv, TokensEnd, NEW tok \in tokens, Decodes(tok, "access")
               PROVE  hour < lastLogin[tok.sub] + RefreshTTL + AccessTTL
    BY DEF SessionsEnd
  <2>1. /\ hour \in Nat /\ lastLogin[tok.sub] \in Nat /\ tok.exp \in Int
        /\ AccessTTL \in Nat /\ RefreshTTL \in Nat
    BY AccountsAssumption DEF AccountsInv, AccountsTypeOK, Token
  <2>2. hour < tok.exp /\ tok.exp <= lastLogin[tok.sub] + RefreshTTL + AccessTTL
    BY DEF Decodes, TokensEnd
  <2> QED BY <2>1, <2>2
<1> QED BY <1>1, <1>2, AccountsInvInit, AccountsInvStep, TokensEndStep, PTL DEF AccountsSpec

-----------------------------------------------------------------------------
(* What a request is shown *)

AllTiers == {"anonymous", "free", "vip1", "vip2"}

LEMMA TierOrder ==
    /\ TierIndex["anonymous"] = 0 /\ TierIndex["free"] = 1
    /\ TierIndex["vip1"] = 2 /\ TierIndex["vip2"] = 3
BY DEF TierIndex

\* The reading of the account a request goes on with is no better than d.
ReadFrom(r, d) ==
    /\ TierIndex[r.user.tier] <= TierIndex[Tier(d)]
    /\ r.route = "admin" => d.account # NoAccount /\ d.account.active /\ d.account.admin

\* A request that is being handled has seen the standing it read, and one with
\* the trial as it is now.
Handled ==
    \A c \in Clients : request[c].state = "checked" =>
      /\ \E d \in during[c] : ReadFrom(request[c], d)
      /\ \E d \in during[c] : d.trial = trial

\* A standing and a user have one of the tiers.
LEMMA TierTypes ==
    /\ \A d \in Standing : Tier(d) \in AllTiers
    /\ \A u \in User : u.tier \in AllTiers
    /\ \A t \in AllTiers : TierIndex[t] \in Nat
<1>1. \A d \in Standing : Tier(d) \in AllTiers
  BY AccountsAssumption DEF Standing, Tier, AllTiers, Account
<1>2. \A u \in User : u.tier \in AllTiers
  <2>1. Anonymous.tier \in AllTiers
    BY DEF Anonymous, AllTiers
  <2>2. \A u \in [email : Emails, tier : Tiers, admin : BOOLEAN] : u.tier \in AllTiers
    BY AccountsAssumption DEF AllTiers
  <2> QED BY <2>1, <2>2 DEF User
<1>3. \A t \in AllTiers : TierIndex[t] \in Nat
  BY TierOrder DEF AllTiers
<1> QED BY <1>1, <1>2, <1>3

\* The user a token stands for is no better than the account it names is now.
LEMMA UserStanding ==
    ASSUME AccountsInv, NEW tok \in tokens \cup {NoToken}, NEW e \in Emails,
           tok # NoToken => e = tok.sub
    PROVE  /\ TierIndex[UserOf(tok).tier] <= TierIndex[Tier(StandingOf(e))]
           /\ UserOf(tok).admin => /\ accounts[e] # NoAccount
                                   /\ accounts[e].active /\ accounts[e].admin
<1>1. Tier(StandingOf(e)) \in AllTiers
  BY StandingType, TierTypes DEF AccountsInv
<1>2. CASE UserOf(tok) = Anonymous
  <2>1. TierIndex[UserOf(tok).tier] = 0 /\ ~UserOf(tok).admin
    BY <1>2, TierOrder DEF Anonymous
  <2>2. TierIndex[Tier(StandingOf(e))] \in Nat
    BY <1>1, TierTypes
  <2> QED BY <2>1, <2>2
<1>3. CASE UserOf(tok) # Anonymous
  <2>1. Decodes(tok, "access") /\ accounts[tok.sub] # NoAccount /\ accounts[tok.sub].active
    BY <1>3 DEF UserOf
  <2>2. tok.sub = e
    BY <2>1 DEF Decodes
  <2>3. UserOf(tok).tier = accounts[e].tier /\ UserOf(tok).admin = accounts[e].admin
    BY <2>1, <2>2 DEF UserOf
  <2>4. Tier(StandingOf(e)) = accounts[e].tier
    BY <2>1, <2>2 DEF Tier, StandingOf
  <2>5. TierIndex[accounts[e].tier] \in Nat
    BY <1>1, <2>4, TierTypes
  <2> QED BY <2>1, <2>2, <2>3, <2>4, <2>5
<1> QED BY <1>2, <1>3

\* A request starts from the standing it finds.
LEMMA ArriveHandled ==
    ASSUME AccountsInv, Handled, ServedAsEntitled, NEW c \in Clients, NEW route \in Routes,
           NEW tok \in tokens \cup {NoToken}, NEW e \in Emails, NEW v \in BOOLEAN,
           Arrive(c, route, tok, e, v)
    PROVE  Handled' /\ ServedAsEntitled'
<1> DEFINE u == UserOf(tok)
           r == [state |-> IF route = "admin" /\ ~u.admin THEN "refused" ELSE "checked",
                 route |-> route, email |-> e, user |-> u, visitor |-> v, shown |-> {}]
           d == StandingOf(e)
<1>1. /\ request' = [request EXCEPT ![c] = r] /\ during' = [during EXCEPT ![c] = {d}]
      /\ UNCHANGED trial
  BY DEF Arrive
<1>2. r.state = "checked" => ReadFrom(r, d)
  <2>1. tok # NoToken => e = tok.sub
    BY DEF Arrive
  <2>2. route = "admin" /\ r.state = "checked" => u.admin
    BY DEF r
  <2> QED BY <2>1, <2>2, UserStanding DEF ReadFrom, StandingOf
<1>3. d.trial = trial /\ r.state # "served"
  BY DEF StandingOf
<1> HIDE DEF r, d
<1>4. request'[c] = r /\ during'[c] = {d}
  BY <1>1 DEF AccountsInv, AccountsTypeOK
<1>5. \A x \in Clients \ {c} : request'[x] = request[x] /\ during'[x] = during[x]
  BY <1>1 DEF AccountsInv, AccountsTypeOK
<1>6. Handled'
  BY <1>1, <1>2, <1>3, <1>4, <1>5 DEF Handled, ReadFrom, Tier
<1>7. ServedAsEntitled'
  BY <1>3, <1>4, <1>5 DEF ServedAsEntitled, Entitled, Tier
<1> QED BY <1>6, <1>7

\* An answer shows what one of the standings allows: the one that was read, or,
\* by a trial, the last one.
LEMMA AnswerEntitled ==
    ASSUME AccountsInv, Handled, NEW c \in Clients, Answer(c),
           request'[c].state = "served"
    PROVE  \E d \in during[c] : Entitled(request'[c], d)
<1> DEFINE r == request[c]
           new == [r EXCEPT !.state = "served", !.shown = FilterByTier(r.route, r.user.tier)]
<1>1. /\ r \in Request /\ r.state = "checked" /\ during[c] \subseteq Standing
      /\ request \in [Clients -> Request]
  BY DEF Answer, AccountsInv, AccountsTypeOK
<1>2. PICK active \in {trial, FALSE} :
        request' = [request EXCEPT ![c] =
           IF r.route = "signals" /\ ~PaywallOpen(r, active)
           THEN [r EXCEPT !.state = "refused"] ELSE new]
  BY DEF Answer
<1>3. [r EXCEPT !.state = "refused"].state = "refused"
  BY <1>1 DEF Request
<1>4. request'[c] = new /\ ~(r.route = "signals" /\ ~PaywallOpen(r, active))
  BY <1>1, <1>2, <1>3
<1>5. new.route = r.route /\ new.shown = FilterByTier(r.route, r.user.tier)
  BY <1>1 DEF Request
<1>6. PICK d \in during[c] : ReadFrom(r, d)
  BY <1>1 DEF Handled
<1>7. PICK d2 \in during[c] : d2.trial = trial
  BY <1>1 DEF Handled
<1>8. /\ r.user.tier \in AllTiers /\ Tier(d) \in AllTiers /\ Tier(d2) \in AllTiers
      /\ TierIndex[r.user.tier] \in Nat /\ TierIndex[Tier(d)] \in Nat
      /\ TierIndex[Tier(d2)] \in Nat
  BY <1>1, <1>6, <1>7, TierTypes DEF Request
<1>9. \A f \in FilterByTier(r.route, r.user.tier) :
        f \in AllTiers /\ TierIndex[f] \in Nat /\ TierIndex[f] <= TierIndex[r.user.tier]
  <2>1. \A f \in Schema(r.route) : f \in AllTiers
    BY DEF Schema, AllTiers
  <2> QED BY <1>8, <2>1, TierTypes DEF FilterByTier
<1> HIDE DEF new, r
<1>10. CASE r.route # "signals" \/ TierIndex[r.user.tier] >= TierIndex["vip1"]
  <2>1. \A f \in new.shown : TierIndex[f] <= TierIndex[Tier(d)]
    BY <1>5, <1>6, <1>8, <1>9 DEF ReadFrom
  <2>2. r.route = "signals" => Tier(d) \in {"vip1", "vip2"}
    BY <1>6, <1>8, <1>10, TierOrder DEF ReadFrom, AllTiers
  <2>3. Entitled(new, d)
    BY <1>5, <1>6, <2>1, <2>2 DEF Entitled, ReadFrom
  <2> QED BY <1>4, <1>6, <2>3
<1>11. CASE r.route = "signals" /\ ~(TierIndex[r.user.tier] >= TierIndex["vip1"])
  <2>1. trial
    <3>1. PaywallOpen(r, active)
      BY <1>4, <1>11
    <3>2. active
      BY <1>11, <3>1 DEF PaywallOpen
    <3>3. active = trial \/ active = FALSE
      BY <1>2
    <3> QED BY <3>2, <3>3
  <2>2. \A f \in new.shown : f = "anonymous"
    BY <1>5, <1>8, <1>9, <1>11, TierOrder DEF FilterByTier, Schema
  <2>3. \A f \in new.shown : TierIndex[f] <= TierIndex[Tier(d2)]
    BY <1>8, <2>2, TierOrder
  <2>4. Entitled(new, d2)
    BY <1>5, <1>7, <1>11, <2>1, <2>3 DEF Entitled
  <2> QED BY <1>4, <1>7, <2>4
<1> QED BY <1>10, <1>11

\* A change that a request sees keeps what it has seen, and adds the trial as it
\* is now.
LEMMA WitnessHandled ==
    ASSUME AccountsInv, Handled, ServedAsEntitled, Witness, UNCHANGED request
    PROVE  Handled' /\ ServedAsEntitled'
<1>1. \A c \in Clients : during[c] \subseteq during'[c]
  BY DEF Witness
<1>2. \A c \in Clients : request[c].state = "checked" =>
        \E d \in during'[c] : d.trial = trial'
  <2> SUFFICES ASSUME NEW c \in Clients, request[c].state = "checked"
               PROVE  \E d \in during'[c] : d.trial = trial'
    OBVIOUS
  <2> DEFINE d == [account |-> accounts'[request[c].email], trial |-> trial']
  <2>1. d \in during'[c]
    BY DEF Witness
  <2>2. d.trial = trial'
    OBVIOUS
  <2> HIDE DEF d
  <2> QED BY <2>1, <2>2
<1>3. Handled'
  BY <1>1, <1>2 DEF Handled, ReadFrom, Tier
<1>4. ServedAsEntitled'
  BY <1>1 DEF ServedAsEntitled, Entitled, Tier
<1> QED BY <1>3, <1>4

LEMMA HandledStep ==
    AccountsInv /\ Handled /\ ServedAsEntitled /\ [AccountsNext]_accountsVars
      => Handled' /\ ServedAsEntitled'
<1> SUFFICES ASSUME AccountsInv, Handled, ServedAsEntitled, [AccountsNext]_accountsVars
             PROVE  Handled' /\ ServedAsEntitled'
  OBVIOUS
<1>1. ASSUME NEW c \in Clients, NEW route \in Routes, NEW tok \in tokens \cup {NoToken},
             NEW e \in Emails, NEW v \in BOOLEAN, Arrive(c, route, tok, e, v)
      PROVE  Handled' /\ ServedAsEntitled'
  BY <1>1, ArriveHandled
<1>2. ASSUME NEW c \in Clients, Answer(c)
      PROVE  Handled' /\ ServedAsEntitled'
  <2>1. UNCHANGED <<during, trial>>
    BY <1>2 DEF Answer
  <2>2. \A x \in Clients \ {c} : request'[x] = request[x]
    BY <1>2 DEF Answer, AccountsInv, AccountsTypeOK
  <2>3. request'[c].state # "checked"
    BY <1>2 DEF Answer, AccountsInv, AccountsTypeOK, Request
  <2>4. Handled'
    BY <2>1, <2>2, <2>3 DEF Handled, ReadFrom, Tier
  <2>5. ServedAsEntitled'
    BY <1>2, <2>1, <2>2, AnswerEntitled DEF ServedAsEntitled, Entitled, Tier
  <2> QED BY <2>4, <2>5
<1>3. ASSUME Witness, UNCHANGED request
      PROVE  Handled' /\ ServedAsEntitled'
  BY <1>3, WitnessHandled
<1>4. CASE UNCHANGED <<request, during, trial>>
  BY <1>4 DEF Handled, ServedAsEntitled, ReadFrom, Entitled, Tier
<1> QED BY <1>1, <1>2, <1>3, <1>4
        DEF AccountsNext, CheckEmail, InsertAccount, Login, Refresh, EditAccount,
            TrialChanges, HourPasses, accountsVars

(* Whatever a request is shown, its account was entitled to while it was   *)
(* handled: for any number of clients, tokens and changes of accounts.     *)
THEOREM RequestsServedAsEntitled == AccountsSpec => []ServedAsEntitled
<1>1. AccountsInit => Handled /\ ServedAsEntitled
  <2>1. AccountsInit => \A c \in Clients : request[c].state = "idle"
    BY DEF AccountsInit, Idle
  <2> QED BY <2>1 DEF Handled, ServedAsEntitled
<1> QED BY <1>1, AccountsInvInit, AccountsInvStep, HandledStep, PTL DEF AccountsSpec
=============================================================================
