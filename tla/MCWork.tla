------------------------------- MODULE MCWork -------------------------------
(***************************************************************************)
(* The components that promise that work comes to an end, for TLC: the     *)
(* worker's slots, the job process, the egress filter, galaxy installs,    *)
(* playbook checks, notices, the requests to the secret store and the      *)
(* wake-ups.  They share no variable; a behaviour is one of a single       *)
(* component, chosen in its initial state.                                 *)
(***************************************************************************)
EXTENDS WorkerSlots, RunProcess, EgressFilter, GalaxyInstall, Checks, Notices,
        StoreTokens, WakeUps

VARIABLE component

\* The alerts and the outbox of the notices share no variable either.
Components == {"slots", "process", "egress", "install", "checks", "alerts", "outbox",
               "tokens", "wakeups"}

MCInit ==
    /\ component \in Components
    /\ SlotInit /\ ProcessInit /\ EgressInit /\ Init
    /\ CheckInit /\ NoticeInit /\ TokenInit /\ WakeInit
    /\ component # "process" => jobProcess.mode = "run" /\ jobProcess.isolated

MCNext ==
    /\ UNCHANGED component
    /\ IF component = "slots"    THEN SlotNext    ELSE UNCHANGED slotVars
    /\ IF component = "process"  THEN ProcessNext ELSE UNCHANGED processVars
    /\ IF component = "egress"   THEN EgressNext  ELSE UNCHANGED egressVars
    /\ IF component = "install"  THEN Next        ELSE UNCHANGED vars
    /\ IF component = "checks"   THEN CheckNext   ELSE UNCHANGED checkVars
    /\ CASE component = "alerts" -> AlertNext
         [] component = "outbox" -> OutboxNext
         [] OTHER -> UNCHANGED noticeVars
    /\ IF component = "tokens"   THEN TokenNext   ELSE UNCHANGED tokenVars
    /\ IF component = "wakeups"  THEN WakeNext    ELSE UNCHANGED wakeVars

WorkSpec ==
    MCInit /\ [][MCNext]_<<component, slotVars, processVars, egressVars, vars,
                           checkVars, noticeVars, tokenVars, wakeVars>>

\* The state of the component has the types its module gives it.
WorkTypes ==
    /\ component = "slots"   => SlotTypes
    /\ component = "process" => ProcessTypes
    /\ component = "egress"  => EgressTypes
    /\ component = "install" => TypeOK
    /\ component = "checks"  => CheckTypes
    /\ component = "tokens"  => TokenTypes
    /\ component = "wakeups" => WakeTypes
    /\ component \in {"alerts", "outbox"} => NoticeTypes

\* Nobody is told more often than there is something to tell, and nobody who waits for
\* a change sleeps through it.
NoticesReach == NoticesSound /\ NoWakeUpLost

\* Whatever dies, hangs, moves or is lost, what was begun comes to its end: a worker's
\* shutdown, a job's process, the filter's way after the API, installs, checks,
\* deliveries and calls to the secret store, each under its component's fairness.
EverythingEnds ==
    /\ ShutdownEnds /\ ProcessIsJudged /\ FilterFollowsApi /\ EveryInstallEnds
    /\ ChecksEnd /\ DeliveriesEnd /\ CallsEnd
=============================================================================
