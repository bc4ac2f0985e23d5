------------------------------- MODULE SignIn -------------------------------
(***************************************************************************)
(* One account, signed in to from several browsers at once: the password   *)
(* step, the second factor (TOTP code, recovery code or passkey), the      *)
(* setting up and removing of second factors, and the session version that *)
(* ends older sessions (routers/auth.py, totp.py, passkeys.py,             *)
(* security.py, dependencies.py).                                          *)
(*                                                                         *)
(* A request that needs a second factor first checks what it read of the   *)
(* account without a lock (Begin...), then locks the user's row, reads it  *)
(* again and uses the proof (Finish...): other requests come in between.   *)
(* The requests that take no lock read and write in one step here.         *)
(***************************************************************************)
EXTENDS Naturals, FiniteSets

CONSTANTS
  Browsers,     \* requests in flight at once, each with its cookies
  Passkeys,     \* passkeys the user may register
  Required,     \* REQUIRE_ADMIN_2FA applies to the account
  MaxFailures,  \* totp_user_throttle's max_failures
  LastStep,     \* bound: TOTP time steps whose codes come up
  MaxSecrets,   \* bound: TOTP secrets made
  MaxBatches,   \* bound: batches of recovery codes made
  MaxChallenges,\* bound: passkey challenges made
  MaxVersion    \* bound: session versions

ASSUME SignInConstants ==
  /\ IsFiniteSet(Browsers) /\ Required \in BOOLEAN /\ MaxFailures \in Nat \ {0}
  /\ LastStep \in Nat \ {0} /\ MaxVersion \in Nat \ {0}
  /\ MaxSecrets \in Nat /\ MaxBatches \in Nat /\ MaxChallenges \in Nat

VARIABLES
  acct,     \* the user's row with its passkeys
  cookie,   \* each browser's session and MFA cookies
  request,  \* each browser's request that passed its first checks
  failures, \* totp_user_throttle: recent wrong second factors
  spent,    \* proofs accepted so far
  again     \* proofs accepted a second time

signInVars == <<acct, cookie, request, failures, spent, again>>

Nothing == [kind |-> "none"]
NoSession == [sv |-> 0, proved |-> FALSE]

(***************************************************************************)
(* What a person can show as a second factor.                              *)
(***************************************************************************)
TotpCode(secret, c) == [kind |-> "totp", secret |-> secret, step |-> c]
RecoveryCode(batch) == [kind |-> "recovery_code", batch |-> batch]
Assertion(id, key) == [kind |-> "passkey", id |-> id, key |-> key]

Proofs ==
  {TotpCode(s, c) : s \in 1..MaxSecrets, c \in 1..LastStep}
    \cup {RecoveryCode(n) : n \in 1..MaxBatches}
    \cup {Assertion(i, k) : i \in 1..MaxChallenges, k \in Passkeys}
WrongCode == [kind |-> "wrong"]

TwoFactor(a) == a.totp # 0 \/ a.passkeys # {}
Live(b) == cookie[b].session.sv = acct.sv

(***************************************************************************)
(* match_counter: a code of a time step later than the last one used (one  *)
(* outside the clock's window is a wrong code here).                       *)
(***************************************************************************)
MatchCounter(c, last) == c > last

(***************************************************************************)
(* use_second_factor and verify_assertion, and the row they leave; the     *)
(* pending challenge is taken whatever the outcome.                        *)
(***************************************************************************)
UseSecondFactor(a, p) ==
  \/ p.kind = "totp" /\ a.totp = p.secret /\ MatchCounter(p.step, a.last)
  \/ p.kind = "recovery_code" /\ TwoFactor(a) /\ p.batch \in a.codes

VerifyAssertion(a, p, purpose) ==
  /\ p.kind = "passkey"
  /\ a.challenge = [id |-> p.id, purpose |-> purpose]
  /\ p.key \in a.passkeys

NoChallenge == [id |-> 0, purpose |-> "none"]
TakeChallenge(a, p) == IF p.kind = "passkey" THEN [a EXCEPT !.challenge = NoChallenge] ELSE a

\* Mutant: what was proved is not written down.
ForgetStep(a, p) == IF p.kind = "totp" THEN a ELSE TakeChallenge(a, p)

Spend(a, p) ==
  CASE p.kind = "totp" -> [a EXCEPT !.last = p.step]
    [] p.kind = "recovery_code" -> [a EXCEPT !.codes = @ \ {p.batch}]
    [] OTHER -> TakeChallenge(a, p)

(***************************************************************************)
(* new_recovery_codes (one code stands for the batch), clear and the codes *)
(* that go with the last factor.                                           *)
(***************************************************************************)
NewCodes(a) == [a EXCEPT !.codes = {a.batches + 1}, !.batches = @ + 1, !.shown = TRUE]
DropCodes(a) == [a EXCEPT !.codes = {}, !.shown = FALSE]

Clear(a) ==
  LET off == [a EXCEPT !.totp = 0, !.pending = 0, !.last = 0]
  IN IF a.passkeys = {} THEN DropCodes(off) ELSE off

\* Mutant: the codes stay behind the last factor.
KeepCodes(a, k) == [a EXCEPT !.passkeys = @ \ {k}]

RemoveKey(a, k) ==
  LET off == [a EXCEPT !.passkeys = @ \ {k}]
  IN IF TwoFactor(off) THEN off ELSE DropCodes(off)

Bump(a) == [a EXCEPT !.sv = @ + 1]
Session(a, proved) == [sv |-> a.sv, proved |-> proved]
SetSession(b, s) == cookie' = [cookie EXCEPT ![b] = [session |-> s, mfa |-> 0]]

SignInInit ==
  /\ \E keys \in SUBSET Passkeys :
       acct = [sv |-> 1, totp |-> 1, pending |-> 0, last |-> 0, passkeys |-> keys,
               codes |-> {1}, shown |-> TRUE, challenge |-> NoChallenge,
               secrets |-> 1, batches |-> 1, challenges |-> 0]
  /\ cookie = [b \in Browsers |-> [session |-> NoSession, mfa |-> 0]]
  /\ request = [b \in Browsers |-> Nothing]
  /\ failures = 0
  /\ spent = {}
  /\ again = {}

Idle(b) == request[b] = Nothing

(***************************************************************************)
(* login: the password alone signs in only without a second factor.  The   *)
(* browser has no session that works (one that ended never works again).   *)
(***************************************************************************)
Login(b) ==
  /\ Idle(b) /\ ~Live(b)
  /\ IF TwoFactor(acct)
       THEN cookie' = [cookie EXCEPT ![b] = [session |-> NoSession, mfa |-> acct.sv]]
       ELSE SetSession(b, Session(acct, FALSE))
  /\ UNCHANGED <<acct, request, failures, spent, again>>

(***************************************************************************)
(* The single sign-on callback's session; the provider's own factors count *)
(***************************************************************************)
SsoLogin(b) ==
  /\ Idle(b) /\ ~Live(b)
  /\ SetSession(b, Session(acct, TRUE))
  /\ UNCHANGED <<acct, request, failures, spent, again>>

Logout(b) ==
  /\ Idle(b) /\ Live(b)
  /\ SetSession(b, NoSession)
  /\ UNCHANGED <<acct, request, failures, spent, again>>

PurposeOf(kind) == IF kind = "login" THEN "login" ELSE "step_up"

\* What a request may carry: a proof good at that moment, or some wrong code.
Shown(kind) == {p \in Proofs : \/ UseSecondFactor(acct, p)
                              \/ VerifyAssertion(acct, p, PurposeOf(kind))} \cup {WrongCode}

(***************************************************************************)
(* The first checks of the requests that prove a second factor: the MFA    *)
(* cookie (_mfa_user) or a session, the last factor kept, the throttle.    *)
(***************************************************************************)
MfaUser(b) == cookie[b].mfa = acct.sv /\ TwoFactor(acct)

\* Mutant: guesses are not counted against the person.
NeverThrottled == FALSE

Throttled == failures >= MaxFailures
RefuseLastFactor(left) == Required /\ left = 0
RequestBegins(b, r) ==
  /\ request' = [request EXCEPT ![b] = r]
  /\ UNCHANGED <<acct, cookie, failures, spent, again>>

BeginLoginMfa(b, p) ==
  /\ Idle(b) /\ MfaUser(b) /\ ~Throttled
  /\ RequestBegins(b, [kind |-> "login", proof |-> p])

BeginTotpDisable(b, p) ==
  /\ Idle(b) /\ Live(b) /\ acct.totp # 0 /\ ~Throttled
  /\ ~RefuseLastFactor(Cardinality(acct.passkeys))
  /\ RequestBegins(b, [kind |-> "totp_disable", proof |-> p])

BeginRemovePasskey(b, k, p) ==
  /\ Idle(b) /\ Live(b) /\ k \in acct.passkeys /\ ~Throttled
  /\ ~RefuseLastFactor((IF acct.totp # 0 THEN 1 ELSE 0) + Cardinality(acct.passkeys) - 1)
  /\ RequestBegins(b, [kind |-> "remove_passkey", key |-> k, proof |-> p])

(***************************************************************************)
(* _check_second_factor under the row lock, and what each request does     *)
(* with it.  The failure audit commits, the wrong guess counts.            *)
(***************************************************************************)
Accepted(r) == UseSecondFactor(acct, r.proof) \/ VerifyAssertion(acct, r.proof, PurposeOf(r.kind))
Accept(p) ==
  /\ spent' = spent \cup {p}
  /\ again' = again \cup ({p} \cap spent)

BadSecondFactor(b) ==
  /\ "proof" \in DOMAIN request[b] /\ ~Accepted(request[b])
  /\ acct' = TakeChallenge(acct, request[b].proof)
  /\ failures' = failures + 1
  /\ request' = [request EXCEPT ![b] = Nothing]
  /\ UNCHANGED <<cookie, spent, again>>

\* login_mfa and login_passkey commit the proof ...
LoginMfa(b) ==
  /\ request[b].kind = "login" /\ Accepted(request[b])
  /\ Accept(request[b].proof)
  /\ acct' = Spend(acct, request[b].proof)
  /\ request' = [request EXCEPT ![b] = [kind |-> "signed"]]
  /\ UNCHANGED <<cookie, failures>>

\* ... and _finish_mfa reads the row once more for the session cookie.
FinishMfa(b) ==
  /\ request[b].kind = "signed"
  /\ failures' = 0
  /\ SetSession(b, Session(acct, TRUE))
  /\ request' = [request EXCEPT ![b] = Nothing]
  /\ UNCHANGED <<acct, spent, again>>

TotpDisable(b) ==
  /\ request[b].kind = "totp_disable" /\ Accepted(request[b])
  /\ Accept(request[b].proof)
  /\ acct' = Clear(Spend(acct, request[b].proof))
  /\ request' = [request EXCEPT ![b] = Nothing]
  /\ UNCHANGED <<cookie, failures>>

RemovePasskey(b) ==
  /\ request[b].kind = "remove_passkey" /\ Accepted(request[b])
  /\ IF request[b].key \in acct.passkeys
       THEN /\ Accept(request[b].proof)
            /\ acct' = RemoveKey(Spend(acct, request[b].proof), request[b].key)
       ELSE UNCHANGED <<acct, spent, again>>  \* gone since: the request fails and rolls back
  /\ request' = [request EXCEPT ![b] = Nothing]
  /\ UNCHANGED <<cookie, failures>>

(***************************************************************************)
(* The options of a passkey ceremony put a new challenge in the row (the   *)
(* old one is lost); registering answers it.                               *)
(***************************************************************************)
MayAsk(b, purpose) ==
  IF purpose = "login" THEN MfaUser(b) ELSE Live(b)

StoreChallenge(b, purpose) ==
  /\ Idle(b) /\ MayAsk(b, purpose)
  /\ purpose # "register" => acct.passkeys # {} /\ ~Throttled
  /\ acct.challenges < MaxChallenges
  /\ acct' = [acct EXCEPT !.challenge = [id |-> acct.challenges + 1, purpose |-> purpose],
                          !.challenges = @ + 1]
  /\ UNCHANGED <<cookie, request, failures, spent, again>>

ChallengeExpires ==
  /\ acct.challenge # NoChallenge
  /\ acct' = [acct EXCEPT !.challenge = NoChallenge]
  /\ UNCHANGED <<cookie, request, failures, spent, again>>

BeginAddPasskey(b, k) ==
  /\ Idle(b) /\ Live(b)
  /\ RequestBegins(b, [kind |-> "add_passkey", key |-> k, id |-> acct.challenge.id])

\* Mutant: the first passkey leaves other sessions alone.
AddKeyQuietly(a, k) ==
  LET added == [a EXCEPT !.passkeys = @ \cup {k}]
  IN IF TwoFactor(a) THEN added ELSE NewCodes(added)

AddKey(a, k) ==
  LET added == [a EXCEPT !.passkeys = @ \cup {k}]
  IN IF TwoFactor(a) THEN added ELSE Bump(NewCodes(added))

AddPasskey(b) ==
  /\ request[b].kind = "add_passkey"
  /\ acct.sv < MaxVersion /\ acct.batches < MaxBatches
  /\ LET k == request[b].key
         taken == [acct EXCEPT !.challenge = NoChallenge]
     IN IF acct.challenge = [id |-> request[b].id, purpose |-> "register"] /\ k \notin acct.passkeys
          THEN /\ acct' = AddKey(taken, k)
               /\ IF TwoFactor(acct) THEN UNCHANGED cookie
                                     ELSE SetSession(b, Session(acct', TRUE))
          ELSE acct' = taken /\ UNCHANGED cookie
  /\ request' = [request EXCEPT ![b] = Nothing]
  /\ UNCHANGED <<failures, spent, again>>

(***************************************************************************)
(* Account changes that take no lock.                                      *)
(***************************************************************************)
ChangePassword(b) ==
  /\ Idle(b) /\ Live(b) /\ acct.sv < MaxVersion
  /\ acct' = Bump(acct)
  /\ SetSession(b, [cookie[b].session EXCEPT !.sv = acct'.sv])
  /\ UNCHANGED <<request, failures, spent, again>>

TotpSetup(b) ==
  /\ Idle(b) /\ Live(b) /\ acct.totp = 0 /\ acct.secrets < MaxSecrets
  /\ acct' = [acct EXCEPT !.pending = acct.secrets + 1, !.secrets = @ + 1]
  /\ UNCHANGED <<cookie, request, failures, spent, again>>

Enable(a, c) ==
  LET on == [a EXCEPT !.totp = a.pending, !.pending = 0, !.last = c]
  IN IF TwoFactor(a) THEN on ELSE NewCodes(on)

TotpEnable(b, c) ==
  /\ Idle(b) /\ Live(b) /\ acct.totp = 0 /\ acct.pending # 0 /\ MatchCounter(c, 0)
  /\ acct.sv < MaxVersion /\ acct.batches < MaxBatches
  /\ Accept(TotpCode(acct.pending, c))
  /\ acct' = Bump(Enable(acct, c))
  /\ SetSession(b, Session(acct', TRUE))
  /\ UNCHANGED <<request, failures>>

RegenerateRecoveryCodes(b) ==
  /\ Idle(b) /\ Live(b) /\ TwoFactor(acct) /\ acct.batches < MaxBatches
  /\ acct' = NewCodes(acct)
  /\ UNCHANGED <<cookie, request, failures, spent, again>>

(***************************************************************************)
(* An admin: reset_two_factor (clear_all) and update_user with a password. *)
(***************************************************************************)
ResetTwoFactor ==
  /\ acct.sv < MaxVersion
  /\ TwoFactor(acct) \/ acct.pending # 0 \/ acct.challenge # NoChallenge
  /\ acct' = Bump(Clear([acct EXCEPT !.passkeys = {}, !.challenge = NoChallenge]))
  /\ UNCHANGED <<cookie, request, failures, spent, again>>

AdminSetsPassword ==
  /\ acct.sv < MaxVersion
  /\ acct' = Bump(acct)
  /\ UNCHANGED <<cookie, request, failures, spent, again>>

\* The throttle's window has passed over the wrong guesses.
WindowPasses ==
  /\ failures > 0
  /\ failures' = 0
  /\ UNCHANGED <<acct, cookie, request, spent, again>>

SignInNext ==
  \/ \E b \in Browsers :
       \/ Login(b) \/ SsoLogin(b) \/ Logout(b)
       \/ \E p \in Shown("login") : BeginLoginMfa(b, p)
       \/ \E p \in Shown("totp_disable") :
            \/ BeginTotpDisable(b, p)
            \/ \E k \in Passkeys : BeginRemovePasskey(b, k, p)
       \/ BadSecondFactor(b) \/ LoginMfa(b) \/ FinishMfa(b) \/ TotpDisable(b) \/ RemovePasskey(b)
       \/ \E purpose \in {"login", "step_up", "register"} : StoreChallenge(b, purpose)
       \/ \E k \in Passkeys : BeginAddPasskey(b, k)
       \/ AddPasskey(b) \/ ChangePassword(b) \/ TotpSetup(b)
       \/ \E c \in 1..LastStep : TotpEnable(b, c)
       \/ RegenerateRecoveryCodes(b)
  \/ ChallengeExpires \/ ResetTwoFactor \/ AdminSetsPassword \/ WindowPasses

SignInSpec == SignInInit /\ [][SignInNext]_signInVars

-----------------------------------------------------------------------------
(***************************************************************************)
(* The row and the cookies keep their shapes; a session version is never   *)
(* later than the account's.                                               *)
(***************************************************************************)
SignInTypes ==
  /\ acct.sv \in 1..MaxVersion /\ acct.totp \in 0..acct.secrets /\ acct.passkeys \subseteq Passkeys
  /\ acct.codes \subseteq 1..acct.batches
  /\ \A b \in Browsers : cookie[b].session.sv <= acct.sv /\ cookie[b].mfa <= acct.sv

(***************************************************************************)
(* A TOTP code, a recovery code or a passkey challenge is accepted once,   *)
(* however many requests race with it.                                     *)
(***************************************************************************)
ProofsCountOnce == again = {}

(***************************************************************************)
(* While the account has a second factor, a session that works has proved  *)
(* one (or came from single sign-on): turning the first factor on ends the *)
(* sessions that knew the password alone.                                  *)
(***************************************************************************)
SessionsProved ==
  TwoFactor(acct) => \A b \in Browsers : Live(b) => cookie[b].session.proved

(***************************************************************************)
(* The account has recovery codes (used up or not) exactly while it has a  *)
(* second factor, whatever order factors are added and removed in.         *)
(***************************************************************************)
CodesFollowFactors == acct.shown <=> TwoFactor(acct)

(***************************************************************************)
(* The throttle on wrong second factors holds with requests in flight: at  *)
(* most one more guess per request that passed the check before it.        *)
(***************************************************************************)
GuessesBounded == failures <= MaxFailures + Cardinality(Browsers) - 1

(***************************************************************************)
(* The second factor counts, however browsers overlap: each proof once,    *)
(* every session, with its recovery codes, and against guessing.           *)
(***************************************************************************)
SignInSound == ProofsCountOnce /\ SessionsProved /\ CodesFollowFactors /\ GuessesBounded

(***************************************************************************)
(* "An admin under REQUIRE_ADMIN_2FA keeps at least one second factor":    *)
(* only an admin's reset takes the last one away.  Two removals at once,   *)
(* each leaving the other's factor, break it: the factors are counted      *)
(* before the row is locked (README, Observations).                        *)
(***************************************************************************)
KeepsAFactor ==
  [][Required /\ TwoFactor(acct) /\ ~TwoFactor(acct') => ResetTwoFactor]_signInVars
=============================================================================
