----------------------------- MODULE MCGuards ------------------------------
(***************************************************************************)
(* The components whose promises are all about what never happens, for     *)
(* TLC: accounts, single sign-on, access, host keys, moves and             *)
(* certificates of the secret store, the lease's clocks, the sweeper, the  *)
(* allowlist and artifacts.                                                *)
(* They share no variable; a behaviour is one of a single component,       *)
(* chosen in its initial state.                                            *)
(***************************************************************************)
EXTENDS SignIn, Access, HostKeys, StoreMoves, Certificates, LeaseFence, Sweep,
        Allowlist, Artifacts, SsoLinks

CONSTANT key1

VARIABLE component

Components == {"signin", "access", "hostkeys", "moves", "certificates", "fence",
               "sweep", "allowlist", "artifacts", "sso"}

MCInit ==
    /\ component \in Components
    /\ SignInInit /\ AccessInit /\ HostKeyInit /\ MoveInit /\ CertInit
    /\ FenceInit /\ SweepInit /\ PlanInit /\ ArtifactInit /\ SsoInit
    /\ component # "signin" => acct.passkeys = {}
    /\ component # "hostkeys" => \A h \in Hosts : presents[h] = key1
    /\ component # "moves" => \A p \in Paths : kv[p].version = 0
    /\ component # "certificates" => role.maximum = MinSeconds
    /\ component # "fence" => leaseAge = 0 /\ beatAt = Resting(0)
    /\ component # "sso" => \A i \in Identities : confirmed[i] = {}
    /\ component # "sweep" => \A p \in Procs : proc[p] = "none"

MCNext ==
    /\ UNCHANGED component
    /\ IF component = "signin"       THEN SignInNext   ELSE UNCHANGED signInVars
    /\ IF component = "access"       THEN AccessNext   ELSE UNCHANGED accessVars
    /\ IF component = "hostkeys"     THEN HostKeyNext  ELSE UNCHANGED hostKeyVars
    /\ IF component = "moves"        THEN MoveNext     ELSE UNCHANGED moveVars
    /\ IF component = "certificates" THEN CertNext     ELSE UNCHANGED certVars
    /\ IF component = "fence"        THEN FenceNext    ELSE UNCHANGED fenceVars
    /\ IF component = "sweep"        THEN SweepNext    ELSE UNCHANGED sweepVars
    /\ IF component = "allowlist"    THEN PlanNext     ELSE UNCHANGED plan
    /\ IF component = "artifacts"    THEN ArtifactNext ELSE UNCHANGED artifactVars
    /\ IF component = "sso"          THEN SsoNext      ELSE UNCHANGED ssoVars

GuardSpec ==
    MCInit /\ [][MCNext]_<<component, signInVars, accessVars, hostKeyVars, moveVars,
                           certVars, fenceVars, sweepVars, plan, artifactVars, ssoVars>>

\* The state of the component has the types its module gives it.
GuardTypes ==
    /\ component = "signin"       => SignInTypes
    /\ component = "access"       => AccessTypes
    /\ component = "hostkeys"     => HostKeyTypes
    /\ component = "moves"        => MoveTypes
    /\ component = "certificates" => CertificateTypes
    /\ component = "fence"        => FenceTypes
    /\ component = "sweep"        => SweepTypes
    /\ component = "artifacts"    => ArtifactTypes
    /\ component = "sso"          => SsoTypes

\* Every way to sign in gives a browser only what was proved: the second factor counts,
\* however browsers overlap, and an identity at a provider stands for one account.
AccountsSound == SignInSound /\ SsoSound
=============================================================================
