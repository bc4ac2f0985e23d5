------------------------------ MODULE SsoLinks ------------------------------
(***************************************************************************)
(* Single sign-on: a browser starts an attempt at an identity provider and *)
(* keeps its signed state cookie; the provider's redirect comes back with  *)
(* the attempt's state and a code; the code proves an identity, which is   *)
(* matched to the account bound to it or, the first time, to the one       *)
(* account not yet bound that has a verified address of it                 *)
(* (routers/sso.py, oidc.py, github_login.py, sso_common.py).              *)
(*                                                                         *)
(* The two lookups of resolve_user and its commit are steps of their own:  *)
(* other callbacks and the administrator's changes come in between.        *)
(***************************************************************************)
EXTENDS Naturals, Sequences, FiniteSets

CONSTANTS
  Accounts,    \* users an administrator provisioned
  Emails,      \* their email addresses
  SsoBrowsers, \* each with one callback at a time
  OidcPeople, GithubPeople, \* identities at the two providers
  AllowAdmin,  \* SSO_ALLOW_ADMIN
  NoLink,      \* sso_issuer and sso_subject are NULL
  MaxLogins,   \* bound: attempts started
  MaxChanges   \* bound: changes by the administrator and the providers

ASSUME SsoConstants ==
  /\ AllowAdmin \in BOOLEAN /\ MaxLogins \in Nat /\ MaxChanges \in Nat
  /\ OidcPeople \cap GithubPeople = {} /\ NoLink \notin OidcPeople \cup GithubPeople
  /\ \E e \in [Accounts -> Emails] : \A a, b \in Accounts : e[a] = e[b] => a = b

VARIABLES
  account,   \* the users table, as far as single sign-on reads it
  confirmed, \* the addresses its provider has verified of each identity, of allowed domains
  login,     \* the attempts started: their flow and browser
  codes,     \* the codes the providers gave out and did not redeem yet
  jar,       \* each browser's state cookie per flow: an attempt, or 0
  callback,  \* each browser's callback in progress
  ssoSession,\* what each browser's session cookie says, with its history
  changes    \* changes made so far

ssoVars == <<account, confirmed, login, codes, jar, callback, ssoSession, changes>>

Flows == {"oidc", "github"}
Identities == OidcPeople \cup GithubPeople
People(flow) == IF flow = "oidc" THEN OidcPeople ELSE GithubPeople
NoCallback == [at |-> "idle"]
SignedOut == [account |-> "none"]

\* An OIDC token has one address, verified or of no use; a GitHub account has several.
MayConfirm(i, emails) == i \in OidcPeople => Cardinality(emails) <= 1

\* Each account is provisioned with an address of its own.
FirstEmail ==
  CHOOSE e \in [Accounts -> Emails] : \A a, b \in Accounts : e[a] = e[b] => a = b

SsoInit ==
  /\ account = [a \in Accounts |-> [exists |-> TRUE, email |-> FirstEmail[a], active |-> TRUE,
                                    admin |-> FALSE, sv |-> 1, link |-> NoLink]]
  /\ confirmed \in [Identities -> SUBSET Emails]
  /\ \A i \in Identities : MayConfirm(i, confirmed[i])
  /\ login = <<>> /\ codes = {} /\ changes = 0
  /\ jar = [b \in SsoBrowsers |-> [f \in Flows |-> 0]]
  /\ callback = [b \in SsoBrowsers |-> NoCallback]
  /\ ssoSession = [b \in SsoBrowsers |-> SignedOut]

\* begin_login: a fresh state, nonce and verifier, here the attempt's place in login ...
Attempt(b, flow) == [flow |-> flow, browser |-> b]

\* ... signed into the flow's own cookie (an older one is replaced).
BeginSso(b, flow) ==
  /\ callback[b] = NoCallback /\ Len(login) < MaxLogins
  /\ login' = Append(login, Attempt(b, flow))
  /\ jar' = [jar EXCEPT ![b][flow] = Len(login')]
  /\ UNCHANGED <<account, confirmed, codes, callback, ssoSession, changes>>

\* The person signs in at the provider, which gives a code for the attempt's challenge.
Authorise(n, i) ==
  /\ i \in People(login[n].flow)
  /\ \A c \in codes : c.attempt # n
  /\ codes' = codes \cup {[attempt |-> n, identity |-> i]}
  /\ UNCHANGED <<account, confirmed, login, jar, callback, ssoSession, changes>>

\* The cookie is too old, or the callback is refused before it got anywhere: the
\* provider reports an error, parameters are missing, the address is throttled.
CookieGoes(b, flow) ==
  /\ callback[b] = NoCallback /\ jar[b][flow] # 0
  /\ jar' = [jar EXCEPT ![b][flow] = 0]
  /\ UNCHANGED <<account, confirmed, login, codes, callback, ssoSession, changes>>

\* verify_state: the flow's cookie is of the attempt the redirect names.
VerifyState(b, flow, state) == jar[b][flow] = state /\ login[state].flow = flow

\* Mutant: the code is redeemed without the attempt's verifier and nonce.
AnyCode(b, flow, c) == login[c.attempt].flow = flow

\* The provider redeems a code only with its attempt's verifier, from the cookie ...
VerifierFits(b, flow, c) == c.attempt = jar[b][flow]

\* ... and _verify_id_token wants the attempt's nonce in an OIDC token.
NonceFits(b, flow, c) == flow = "oidc" => c.attempt = jar[b][flow]

\* _exchange_code: the flow's own provider, which redeems a code once.
Redeems(b, flow, c) ==
  login[c.attempt].flow = flow /\ VerifierFits(b, flow, c) /\ NonceFits(b, flow, c)

(***************************************************************************)
(* _callback: whatever browser the redirect is opened in, with whatever    *)
(* state and code.  A refusal takes the cookie away.                       *)
(***************************************************************************)
Callback(b, flow, state, c) ==
  /\ callback[b] = NoCallback /\ jar[b][flow] # 0
  /\ IF VerifyState(b, flow, state) /\ Redeems(b, flow, c) /\ confirmed[c.identity] # {}
       THEN /\ callback' = [callback EXCEPT ![b] =
                 [at |-> "proved", flow |-> flow, identity |-> c.identity,
                  emails |-> confirmed[c.identity], attempt |-> c.attempt,
                  account |-> "none", sv |-> 0, new |-> FALSE]]
            /\ codes' = codes \ {c}
            /\ UNCHANGED jar
       ELSE /\ jar' = [jar EXCEPT ![b][flow] = 0]
            /\ codes' = IF VerifyState(b, flow, state) /\ login[c.attempt].flow = flow
                        THEN codes \ {c} ELSE codes
            /\ UNCHANGED callback
  /\ UNCHANGED <<account, confirmed, login, ssoSession, changes>>

-----------------------------------------------------------------------------
(***************************************************************************)
(* resolve_user.                                                           *)
(***************************************************************************)
MaySignIn(a) == account[a].active /\ (account[a].admin => AllowAdmin)

Bound(i) == {a \in Accounts : account[a].exists /\ account[a].link = i}
ByEmail(emails) ==
  {a \in Accounts : account[a].exists /\ account[a].email \in emails /\ account[a].link = NoLink}

Proceed(b, r) == callback' = [callback EXCEPT ![b] = r]
Refuse(b) ==
  /\ jar' = [jar EXCEPT ![b][callback[b].flow] = 0]
  /\ callback' = [callback EXCEPT ![b] = NoCallback]

\* The account bound to the identity, with the session version its row has now.
MatchIdentity(b) ==
  /\ callback[b].at = "proved"
  /\ LET i == callback[b].identity
     IN  \/ /\ Bound(i) = {}
            /\ Proceed(b, [callback[b] EXCEPT !.at = "unmatched"]) /\ UNCHANGED jar
         \/ \E a \in Bound(i) :
              IF MaySignIn(a)
              THEN /\ Proceed(b, [callback[b] EXCEPT !.at = "known", !.account = a, !.sv = account[a].sv])
                   /\ UNCHANGED jar
              ELSE Refuse(b)
  /\ UNCHANGED <<account, confirmed, login, codes, ssoSession, changes>>

\* Or the only account not yet bound that has one of the addresses.
MatchEmail(b) ==
  /\ callback[b].at = "unmatched"
  /\ LET found == ByEmail(callback[b].emails)
     IN  IF Cardinality(found) = 1 /\ \A a \in found : MaySignIn(a)
         THEN /\ \E a \in found : Proceed(b, [callback[b] EXCEPT !.at = "linking", !.account = a])
              /\ UNCHANGED jar
         ELSE Refuse(b)
  /\ UNCHANGED <<account, confirmed, login, codes, ssoSession, changes>>

\* Mutant: nothing keeps two accounts from the same identity.
NeverTaken(i) == FALSE

\* ux_users_sso_identity.
Taken(i) == Bound(i) # {}

(***************************************************************************)
(* The commit writes the identity by the account's id: the unique index    *)
(* refuses one that is taken, a deleted row fails the request, and the row *)
(* is read again for the session.                                          *)
(***************************************************************************)
CommitLink(b) ==
  /\ callback[b].at = "linking"
  /\ LET a == callback[b].account
         i == callback[b].identity
     IN  CASE ~account[a].exists ->
                callback' = [callback EXCEPT ![b] = NoCallback] /\ UNCHANGED <<account, jar>>
           [] account[a].exists /\ Taken(i) -> Refuse(b) /\ UNCHANGED account
           [] OTHER ->
                /\ account' = [account EXCEPT ![a].link = i]
                /\ Proceed(b, [callback[b] EXCEPT !.at = "linked", !.new = TRUE])
                /\ UNCHANGED jar
  /\ UNCHANGED <<confirmed, login, codes, ssoSession, changes>>

\* Mutant: the row is read again for an account that was bound before, too.
LatestVersion(b) == account[callback[b].account].sv

\* The session version the cookie is made with.
SessionVersion(b) ==
  IF callback[b].new THEN account[callback[b].account].sv ELSE callback[b].sv

\* _set_session_cookie; the state cookie has done its work.
FinishSso(b) ==
  /\ callback[b].at \in {"known", "linked"}
  /\ IF callback[b].new /\ ~account[callback[b].account].exists
       THEN UNCHANGED <<ssoSession, jar>>   \* the row is gone: the request fails
       ELSE /\ ssoSession' = [ssoSession EXCEPT ![b] =
                 [account |-> callback[b].account, sv |-> SessionVersion(b),
                  attempt |-> callback[b].attempt, new |-> callback[b].new]]
            /\ jar' = [jar EXCEPT ![b][callback[b].flow] = 0]
  /\ callback' = [callback EXCEPT ![b] = NoCallback]
  /\ UNCHANGED <<account, confirmed, login, codes, changes>>

-----------------------------------------------------------------------------
(***************************************************************************)
(* update_user (role and activity end the sessions), unlink_sso and        *)
(* delete_user; each one request.  The provider verifies other addresses.  *)
(***************************************************************************)
Changed(a, row) ==
  /\ account[a].exists /\ changes < MaxChanges
  /\ account' = [account EXCEPT ![a] = row] /\ changes' = changes + 1
  /\ UNCHANGED <<confirmed, login, codes, jar, callback, ssoSession>>

\* Mutant: a changed role leaves the sessions alone.
RoleOnly(a) == Changed(a, [account[a] EXCEPT !.admin = ~@])

SetAdmin(a) == Changed(a, [account[a] EXCEPT !.admin = ~@, !.sv = @ + 1])

SetActivity(a) ==
  Changed(a, [account[a] EXCEPT !.active = ~@, !.sv = IF account[a].active THEN @ + 1 ELSE @])

SetEmail(a, e) ==
  /\ \A other \in Accounts : account[other].exists => account[other].email # e
  /\ Changed(a, [account[a] EXCEPT !.email = e])

UnlinkSso(a) == account[a].link # NoLink /\ Changed(a, [account[a] EXCEPT !.link = NoLink])

DropAccount(a) == Changed(a, [account[a] EXCEPT !.exists = FALSE, !.link = NoLink])

ProviderVerifies(i, emails) ==
  /\ emails # confirmed[i] /\ changes < MaxChanges
  /\ MayConfirm(i, emails)
  /\ confirmed' = [confirmed EXCEPT ![i] = emails] /\ changes' = changes + 1
  /\ UNCHANGED <<account, login, codes, jar, callback, ssoSession>>

SsoNext ==
  \/ \E b \in SsoBrowsers :
       \/ \E f \in Flows :
            \/ BeginSso(b, f) \/ CookieGoes(b, f)
            \/ \E n \in 1..Len(login), c \in codes : Callback(b, f, n, c)
       \/ MatchIdentity(b) \/ MatchEmail(b) \/ CommitLink(b) \/ FinishSso(b)
  \/ \E n \in 1..Len(login), i \in Identities : Authorise(n, i)
  \/ \E a \in Accounts :
       \/ SetAdmin(a) \/ SetActivity(a) \/ UnlinkSso(a) \/ DropAccount(a)
       \/ \E e \in Emails : SetEmail(a, e)
  \/ \E i \in Identities, emails \in SUBSET Emails : ProviderVerifies(i, emails)

SsoSpec == SsoInit /\ [][SsoNext]_ssoVars

-----------------------------------------------------------------------------
\* Accounts, cookies and callbacks keep their shapes.
SsoTypes ==
  /\ account \in [Accounts -> [exists : BOOLEAN, email : Emails, active : BOOLEAN,
                               admin : BOOLEAN, sv : Nat, link : Identities \cup {NoLink}]]
  /\ \A b \in SsoBrowsers :
       /\ jar[b] \in [Flows -> 0..Len(login)]
       /\ callback[b].at \in {"idle", "proved", "unmatched", "linking", "known", "linked"}
  /\ codes \subseteq [attempt : 1..Len(login), identity : Identities]

\* A session dependencies.py accepts.
LiveSso(b) ==
  LET s == ssoSession[b] IN
  /\ s # SignedOut /\ account[s.account].exists
  /\ account[s.account].active /\ account[s.account].sv = s.sv

\* However redirects are mixed up between browsers, flows and attempts, a browser is
\* signed in only by an attempt it started itself.
OwnAttempts ==
  \A b \in SsoBrowsers : ssoSession[b] # SignedOut => login[ssoSession[b].attempt].browser = b

\* An identity is never bound to two accounts, whatever callbacks and changes of
\* addresses come between the two lookups and the commit.
OneAccountEach == \A a, b \in Accounts : account[a].link = account[b].link => a = b \/ account[a].link = NoLink

\* A global admin has no working session from an identity that was bound before, even
\* one promoted while the callback was between its checks and the cookie: the cookie
\* has the version read with the role.
AdminsStayOut ==
  \A b \in SsoBrowsers :
     LiveSso(b) /\ account[ssoSession[b].account].admin => AllowAdmin \/ ssoSession[b].new

\* Single sign-on gives a browser the account it may have.
SsoSound == OwnAttempts /\ OneAccountEach /\ AdminsStayOut

\* sso_common.py: "Never creates or re-links anyone".  Two identities with the same
\* verified address, whose callbacks both find the account unbound, break it: the commit
\* does not ask whether it still is (README, Observations).
NeverRelinks ==
  [][\A a \in Accounts : account[a].link # NoLink => account'[a].link \in {account[a].link, NoLink}]_ssoVars

\* README.md: "Global admins cannot use single sign-on unless you set SSO_ALLOW_ADMIN".
\* One promoted between the first sign-in's check and its cookie has a working session:
\* the row, and its session version, is read again after the identity was bound (README,
\* Observations).
AdminsNeverBySso ==
  \A b \in SsoBrowsers : LiveSso(b) /\ account[ssoSession[b].account].admin => AllowAdmin
=============================================================================
