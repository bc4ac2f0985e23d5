---------------------------- MODULE Certificates ----------------------------
(***************************************************************************)
(* Getting a run's SSH certificate signed: app.ssh_certificates.issue asks *)
(* the store for the run's timeout and a grace; a role that allows less    *)
(* says how much, and is asked once more for that.  The role's maximum may *)
(* be changed between the two requests, and the answer is checked.         *)
(***************************************************************************)
EXTENDS Integers

CONSTANTS
    Seconds,        \* what runs ask for, and what a role's maximum may be
    MinSeconds,     \* MIN_SECONDS
    MaxRoleChanges  \* bound: times an operator changes the role

ASSUME CertificatesAssumption ==
    Seconds \subseteq Nat /\ MinSeconds \in Nat /\ MaxRoleChanges \in Nat

VARIABLES
    role,       \* at the store: its maximum TTL, and how often it was changed
    signing,    \* issue(): where it is, what the run needs, what it asks for
    certificate \* what the run is given: its lifetime and whether it was capped

certVars == <<role, signing, certificate>>

NoCertificate == [seconds |-> 0, ours |-> FALSE, capped |-> FALSE]

CertificateTypes ==
    /\ role \in [maximum : Seconds, changes : 0..MaxRoleChanges]
    /\ signing \in [at : {"idle", "asked", "done", "failed"}, wanted : Seconds \union {0},
                    ttl : Seconds \union {0}, capped : BOOLEAN, refusals : 0..2]
    /\ certificate \in [seconds : Seconds \union {0}, ours : BOOLEAN, capped : BOOLEAN]

CertInit ==
    /\ role \in [maximum : Seconds, changes : {0}]
    /\ signing = [at |-> "idle", wanted |-> 0, ttl |-> 0, capped |-> FALSE, refusals |-> 0]
    /\ certificate = NoCertificate

RoleChanges ==
    /\ role.changes < MaxRoleChanges
    /\ role' \in [maximum : Seconds, changes : {role.changes + 1}]
    /\ UNCHANGED <<signing, certificate>>

\* issue: a fresh key pair, and the first request.
AskToSign ==
    /\ signing.at = "idle"
    /\ \E s \in Seconds : signing' = [signing EXCEPT !.at = "asked", !.wanted = s, !.ttl = s]
    /\ UNCHANGED <<role, certificate>>

\* describe: a user certificate of our key, for exactly our principals, signed by its CA.
Describes(ours) == ours

\* The store signs; what it returns may be for another key or other principals.
Signed(ours) ==
    /\ signing.at = "asked" /\ signing.ttl <= role.maximum
    /\ IF Describes(ours)
       THEN /\ signing' = [signing EXCEPT !.at = "done"]
            /\ certificate' = [seconds |-> signing.ttl, ours |-> ours, capped |-> signing.capped]
       ELSE signing' = [signing EXCEPT !.at = "failed"] /\ UNCHANGED certificate
    /\ UNCHANGED role

\* Mutant: any maximum is asked for.
UsableAnyMaximum(m) == TRUE

\* A maximum worth a second request.
Usable(m) == m >= MinSeconds /\ m < signing.wanted

\* TtlTooLong with the role's maximum.
AskAgain ==
    signing' = [signing EXCEPT !.ttl = role.maximum, !.capped = TRUE, !.refusals = @ + 1]

\* _sign_fail: the role allows less than asked for.  A second time it is the answer.
TooLong ==
    /\ signing.at = "asked" /\ signing.ttl > role.maximum
    /\ IF signing.refusals = 0 /\ Usable(role.maximum)
       THEN AskAgain
       ELSE signing' = [signing EXCEPT !.at = "failed", !.refusals = @ + 1]
    /\ UNCHANGED <<role, certificate>>

\* Any other refusal, a store that is down, a deadline that passed.
SigningFails ==
    /\ signing.at = "asked" /\ signing' = [signing EXCEPT !.at = "failed"]
    /\ UNCHANGED <<role, certificate>>

CertNext ==
    \/ RoleChanges \/ AskToSign \/ TooLong \/ SigningFails
    \/ \E ours \in BOOLEAN : Signed(ours)

CertSpec == CertInit /\ [][CertNext]_certVars

-----------------------------------------------------------------------------
\* "valid for `seconds` (or the role's maximum, once, when that is shorter)": however
\* the role changes meanwhile, a run starts with a certificate of its own key that
\* lasts as long as it may run, or with one that is recorded as capped and lasts at
\* least MIN_SECONDS.
LastsOrSaysSo ==
    signing.at = "done" =>
      /\ certificate.ours
      /\ \/ ~certificate.capped /\ certificate.seconds = signing.wanted
         \/ certificate.capped /\ certificate.seconds < signing.wanted /\ certificate.seconds >= MinSeconds
=============================================================================
