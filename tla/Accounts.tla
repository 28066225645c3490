-------------------------------- MODULE Accounts --------------------------------
(***************************************************************************)
(* Accounts, tokens and what a request may see:                            *)
(*                                                                         *)
(*  - AuthService.register reads the email and inserts the account in two  *)
(*    steps, in concurrent requests; the UNIQUE constraint on the email    *)
(*    has the last word;                                                   *)
(*  - login issues an access and a refresh token, refresh a further access *)
(*    token; a token is a signed claim that nothing can take back before   *)
(*    it expires;                                                          *)
(*  - a request reads its account once, when it arrives (deps.py), and is  *)
(*    answered later by that reading, while an administrator changes       *)
(*    accounts and trials come and go: the signals are behind a paywall    *)
(*    (_check_paywall) and single fields of every answer behind a tier     *)
(*    (filter_by_tier).                                                    *)
(*                                                                         *)
(* A password is represented by the registration that chose it, a field by *)
(* the least tier that sees it.                                            *)
(***************************************************************************)
EXTENDS Integers

CONSTANTS
    Emails,
    Signups,     \* registration requests
    Clients,     \* clients, each with one request at a time
    Tiers,       \* the memberships administrators give, of free, vip1 and vip2
    AccessTTL, RefreshTTL,
    MaxHour,     \* bound: the clock
    MaxChanges,  \* bound: changes to accounts and trials while requests run
    NoAccount, NoToken

(* NoAccount is told apart from accounts, which are records. *)
ASSUME AccountsAssumption ==
    /\ Emails # {}
    /\ NoAccount \notin [password : Signups, tier : Tiers, active : BOOLEAN, admin : BOOLEAN]
    /\ "free" \in Tiers /\ Tiers \subseteq {"free", "vip1", "vip2"}
    /\ AccessTTL \in Nat \ {0} /\ RefreshTTL \in Nat \ {0}
    /\ MaxHour \in Nat /\ MaxChanges \in Nat

VARIABLES
    hour,
    accounts,    \* the table users
    signup,      \* the state of each registration
    tokens,      \* the tokens clients have been given
    lastLogin,   \* when each account's password was last given
    request,     \* what each client's request knows
    during,      \* the standings there have been since its arrival
    trial,       \* the visitor has a running trial
    changes

accountsVars == <<hour, accounts, signup, tokens, lastLogin, request, during, trial,
                  changes>>

-----------------------------------------------------------------------------
(* Tiers and fields *)

(* _tier_index: anonymous, free, vip1, vip2 *)
TierIndex ==
    [t \in {"anonymous", "free", "vip1", "vip2"} |->
       CASE t = "anonymous" -> 0 [] t = "free" -> 1 [] t = "vip1" -> 2 [] OTHER -> 3]

(* The classes of fields of the answers of each kind of route.             *)
Schema(route) ==
    CASE route = "figures" -> {"anonymous", "free", "vip1"}
      [] route = "signals" -> {"anonymous", "vip1"}
      [] OTHER -> {"anonymous"}

(* filter_by_tier: a field above the user's tier becomes None.             *)
FilterByTier(route, tier) ==
    {f \in Schema(route) : TierIndex[tier] >= TierIndex[f]}

Routes == {"figures", "signals", "admin"}
Account == [password : Signups, tier : Tiers, active : BOOLEAN,
            admin : BOOLEAN]
(* A token; the membership it claims is read by nobody. *)
Token == [kind : {"access", "refresh"}, sub : Emails,
          exp : 0..(MaxHour + AccessTTL + RefreshTTL)]

(* What a request found when it arrived, and how it was answered. *)
Anonymous == [email |-> NoAccount, tier |-> "anonymous", admin |-> FALSE]
User == {Anonymous} \cup
        [email : Emails, tier : Tiers, admin : BOOLEAN]
Request == [state : {"idle", "checked", "served", "refused"}, route : Routes,
            email : Emails, user : User, visitor : BOOLEAN,
            shown : SUBSET {"anonymous", "free", "vip1"}]

(* What decides at one moment about a request for an account. *)
Standing == [account : Account \cup {NoAccount}, trial : BOOLEAN]
StandingOf(e) == [account |-> accounts[e], trial |-> trial]

Idle == [state |-> "idle", route |-> "figures", email |-> CHOOSE e \in Emails : TRUE,
         user |-> Anonymous, visitor |-> FALSE, shown |-> {}]

AccountsTypeOK ==
    /\ hour \in 0..MaxHour
    /\ accounts \in [Emails -> Account \cup {NoAccount}]
    /\ signup \in [Signups ->
         [state : {"new", "checked", "registered", "conflict", "error"},
          email : Emails \cup {NoAccount}]]
    /\ tokens \subseteq Token
    /\ lastLogin \in [Emails -> 0..MaxHour]
    /\ request \in [Clients -> Request]
    /\ during \in [Clients -> SUBSET Standing]
    /\ trial \in BOOLEAN
    /\ changes \in 0..MaxChanges

AccountsInit ==
    /\ hour = 0
    /\ accounts = [e \in Emails |-> NoAccount]
    /\ signup = [s \in Signups |-> [state |-> "new", email |-> NoAccount]]
    /\ tokens = {}
    /\ lastLogin = [e \in Emails |-> 0]
    /\ request = [c \in Clients |-> Idle]
    /\ during = [c \in Clients |-> {}]
    /\ trial = FALSE
    /\ changes = 0

-----------------------------------------------------------------------------
(* Registration, login and refresh *)

(* The email is looked up; a known one is a conflict. *)
CheckEmail(s, e) ==
    /\ signup[s].state = "new"
    /\ signup' = [signup EXCEPT ![s] =
         [state |-> IF accounts[e] = NoAccount THEN "checked" ELSE "conflict",
          email |-> e]]
    /\ UNCHANGED <<hour, accounts, tokens, lastLogin, request, during, trial, changes>>

(* Slip: the second registration of an email replaces the first. *)
UpsertAccount(s) ==
    LET e == signup[s].email IN
    /\ signup[s].state = "checked"
    /\ accounts' = [accounts EXCEPT ![e] =
         [password |-> s, tier |-> "free", active |-> TRUE, admin |-> FALSE]]
    /\ signup' = [signup EXCEPT ![s].state = "registered"]
    /\ UNCHANGED <<hour, tokens, lastLogin, request, during, trial, changes>>

(* The password is hashed and the account inserted and committed.  The     *)
(* UNIQUE constraint stops a second account, with an error nobody catches. *)
InsertAccount(s) ==
    LET e == signup[s].email IN
    /\ signup[s].state = "checked"
    /\ IF accounts[e] = NoAccount
         THEN /\ accounts' = [accounts EXCEPT ![e] =
                   [password |-> s, tier |-> "free", active |-> TRUE, admin |-> FALSE]]
              /\ signup' = [signup EXCEPT ![s].state = "registered"]
         ELSE /\ signup' = [signup EXCEPT ![s].state = "error"]
              /\ UNCHANGED accounts
    /\ UNCHANGED <<hour, tokens, lastLogin, request, during, trial, changes>>

AccessToken(e) == [kind |-> "access", sub |-> e, exp |-> hour + AccessTTL]

RefreshToken(e) == [kind |-> "refresh", sub |-> e, exp |-> hour + RefreshTTL]

(* decode_token: not expired, and of the expected type. *)
Decodes(tok, kind) == tok # NoToken /\ hour < tok.exp /\ tok.kind = kind

(* Whoever knows the password of an active account gets a pair of tokens.  *)
Login(s, e) ==
    /\ accounts[e] # NoAccount
    /\ accounts[e].password = s /\ accounts[e].active
    /\ tokens' = tokens \cup {AccessToken(e), RefreshToken(e)}
    /\ lastLogin' = [lastLogin EXCEPT ![e] = hour]
    /\ UNCHANGED <<hour, accounts, signup, request, during, trial, changes>>

(* Slip: every refresh gives a new refresh token too. *)
RefreshRotates(tok) ==
    /\ Decodes(tok, "refresh")
    /\ accounts[tok.sub] # NoAccount /\ accounts[tok.sub].active
    /\ tokens' = tokens \cup {AccessToken(tok.sub), RefreshToken(tok.sub)}
    /\ UNCHANGED <<hour, accounts, signup, lastLogin, request, during, trial, changes>>

(* refresh_access_token: an access token by the account as it is now. *)
Refresh(tok) ==
    /\ Decodes(tok, "refresh")
    /\ accounts[tok.sub] # NoAccount /\ accounts[tok.sub].active
    /\ tokens' = tokens \cup {AccessToken(tok.sub)}
    /\ UNCHANGED <<hour, accounts, signup, lastLogin, request, during, trial, changes>>

-----------------------------------------------------------------------------
(* Requests *)

(* Slip: a valid token is enough, is_active is not looked at. *)
UserOfAnyAccount(tok) ==
    IF Decodes(tok, "access") /\ accounts[tok.sub] # NoAccount
    THEN [email |-> tok.sub, tier |-> accounts[tok.sub].tier,
          admin |-> accounts[tok.sub].admin]
    ELSE Anonymous

(* get_optional_user and get_current_user: the account a valid access      *)
(* token names, read from the table now, if it is active.                  *)
UserOf(tok) ==
    IF Decodes(tok, "access") /\ accounts[tok.sub] # NoAccount
    THEN IF accounts[tok.sub].active
         THEN [email |-> tok.sub, tier |-> accounts[tok.sub].tier,
               admin |-> accounts[tok.sub].admin]
         ELSE Anonymous
    ELSE Anonymous

(* A request arrives, with or without a token and a visitor id (which the  *)
(* signals alone look at).  Routes for administrators refuse it at once    *)
(* (401, 403), the others go on with no user.                              *)
Arrive(c, route, tok, e, v) ==
    LET user == UserOf(tok) IN
    /\ request[c].state \in {"idle", "served", "refused"}
    /\ tok # NoToken => e = tok.sub
    /\ v => route = "signals"
    /\ request' = [request EXCEPT ![c] =
         [state |-> IF route = "admin" /\ ~user.admin THEN "refused" ELSE "checked",
          route |-> route, email |-> e, user |-> user, visitor |-> v, shown |-> {}]]
    /\ during' = [during EXCEPT ![c] = {StandingOf(e)}]
    /\ UNCHANGED <<hour, accounts, signup, tokens, lastLogin, trial, changes>>

(* _check_paywall, with what Redis says of the visitor's trial now: a free *)
(* account needs a trial like an anonymous visitor, a paying one does not. *)
PaywallOpen(r, active) ==
    \/ TierIndex[r.user.tier] >= TierIndex["vip1"]
    \/ r.visitor /\ active

(* The request is answered, by the account as it was read on arrival.  A   *)
(* Redis that does not answer counts as no trial.                          *)
Answer(c) ==
    LET r == request[c] IN
    /\ r.state = "checked"
    /\ \E active \in {trial, FALSE} :
         request' = [request EXCEPT ![c] =
           IF r.route = "signals" /\ ~PaywallOpen(r, active)
           THEN [r EXCEPT !.state = "refused"]
           ELSE [r EXCEPT !.state = "served",
                          !.shown = FilterByTier(r.route, r.user.tier)]]
    /\ UNCHANGED <<hour, accounts, signup, tokens, lastLogin, during, trial, changes>>

-----------------------------------------------------------------------------
(* The admin site, trials and time *)

(* A request that is being handled sees a new standing. *)
Witness ==
    during' = [c \in Clients |->
       IF request[c].state = "checked"
       THEN during[c] \cup {[account |-> accounts'[request[c].email], trial |-> trial']}
       ELSE during[c]]

(* UserAdmin: membership, is_active and is_admin may be set to anything.   *)
EditAccount(e, tier, active, admin) ==
    /\ accounts[e] # NoAccount /\ changes < MaxChanges
    /\ accounts' = [accounts EXCEPT ![e].tier = tier, ![e].active = active,
                                    ![e].admin = admin]
    /\ changes' = changes + 1
    /\ UNCHANGED trial
    /\ Witness
    /\ UNCHANGED <<hour, signup, tokens, lastLogin, request>>

(* The visitor's trial begins or expires (module Trials). *)
TrialChanges ==
    /\ changes < MaxChanges
    /\ trial' = ~trial
    /\ changes' = changes + 1
    /\ UNCHANGED accounts
    /\ Witness
    /\ UNCHANGED <<hour, signup, tokens, lastLogin, request>>

(* Time passes; a token long expired is forgotten. *)
HourPasses ==
    /\ hour < MaxHour
    /\ hour' = hour + 1
    /\ tokens' = {tok \in tokens : tok.exp > hour}
    /\ UNCHANGED <<accounts, signup, lastLogin, request, during, trial, changes>>

AccountsNext ==
    \/ \E s \in Signups : \/ \E e \in Emails : CheckEmail(s, e) \/ Login(s, e)
                          \/ InsertAccount(s)
    \/ \E tok \in tokens : Refresh(tok)
    \/ \E c \in Clients : \/ \E route \in Routes, tok \in tokens \cup {NoToken},
                               e \in Emails, v \in BOOLEAN : Arrive(c, route, tok, e, v)
                          \/ Answer(c)
    \/ \E e \in Emails, tier \in Tiers, active, admin \in BOOLEAN :
         EditAccount(e, tier, active, admin)
    \/ TrialChanges
    \/ HourPasses

AccountsSpec == AccountsInit /\ [][AccountsNext]_accountsVars

-----------------------------------------------------------------------------
(* Properties *)

(* Whoever was told that the registration succeeded owns the account: of   *)
(* two concurrent registrations of one email only one is told so, and the  *)
(* other one's password opens nothing.                                     *)
RegisteredOwns ==
    \A s \in Signups :
      signup[s].state = "registered" =>
        /\ accounts[signup[s].email] # NoAccount
        /\ accounts[signup[s].email].password = s

(* No chain of refreshes outlives the last use of the password by more     *)
(* than the life of a refresh token and of an access token.                *)
SessionsEnd ==
    \A tok \in tokens :
      Decodes(tok, "access") => hour < lastLogin[tok.sub] + RefreshTTL + AccessTTL

(* Who may see what, at one moment. *)
Tier(d) == IF d.account = NoAccount THEN "anonymous"
           ELSE IF d.account.active THEN d.account.tier ELSE "anonymous"

Entitled(r, d) ==
    /\ \A f \in r.shown : TierIndex[f] <= TierIndex[Tier(d)]
    /\ r.route = "signals" => d.trial \/ Tier(d) \in {"vip1", "vip2"}
    /\ r.route = "admin" =>
         d.account # NoAccount /\ d.account.active /\ d.account.admin

(* What a request is shown, its account was entitled to at some moment     *)
(* while it was handled: a change of membership, a disabled account or an  *)
(* ended trial binds every request that comes after it, whatever tokens    *)
(* are still about.                                                        *)
ServedAsEntitled ==
    \A c \in Clients : request[c].state = "served" =>
      \E d \in during[c] : Entitled(request[c], d)
=============================================================================
