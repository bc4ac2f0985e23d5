----------------------------- MODULE Work_proofs -----------------------------
(***************************************************************************)
(* Theorems about the components that promise that work comes to an end,   *)
(* as MCWork composes them: the requests to the secret store, playbook     *)
(* checks, notices, wake-ups and galaxy installs here, the worker from its *)
(* own module.                                                             *)
(***************************************************************************)
EXTENDS MCWork, Worker_proofs, FiniteSetTheorems, WellFoundedInduction

-----------------------------------------------------------------------------
(* Galaxy installs, for any number of installs and jobs.                   *)

\* While an install is marked running no claim is under way, not even one that
\* has only taken the gate: this is what a claim's check for installs rests on.
GateClear ==
    \A i \in Installs, j \in Jobs : status[i] = "running" => job[j] = "idle"

\* What holds whether or not renewals fail.
InstallInv == TypeOK /\ GateClear /\ OneInstallRunning /\ RunningIsLeased

\* A working thread's install is marked running and has its lease.
ThreadInv == \A i \in thread : status[i] = "running" /\ lease[i] = "live"

\* The state before any request satisfies the invariants.
LEMMA InitInv == Init => InstallInv /\ ThreadInv
BY InstallAssumption
   DEF Init, InstallInv, TypeOK, GateClear, OneInstallRunning, RunningIsLeased,
       ThreadInv, Active, Ended

\* Every transaction keeps the invariant of the rows.
LEMMA StepInv == InstallInv /\ [Next]_vars => InstallInv'
<1> SUFFICES ASSUME InstallInv, [Next]_vars PROVE InstallInv'
  OBVIOUS
<1> USE InstallAssumption
    DEF InstallInv, TypeOK, GateClear, OneInstallRunning, RunningIsLeased, Active, Ended
<1>1. ASSUME NEW a \in Admins, CheckActive(a) PROVE InstallInv'
  BY <1>1 DEF CheckActive
<1>2. ASSUME NEW a \in Admins, CreateInstall(a) PROVE InstallInv'
  BY <1>2 DEF CreateInstall, First
<1>3. ASSUME NEW j \in Jobs, ClaimBegin(j) PROVE InstallInv'
  BY <1>3 DEF ClaimBegin, Pending
<1>4. ASSUME NEW j \in Jobs, ClaimEnds(j) PROVE InstallInv'
  BY <1>4 DEF ClaimEnds
<1>5. ASSUME NEW j \in Jobs, JobEnds(j) PROVE InstallInv'
  BY <1>5 DEF JobEnds
<1>6. ASSUME NEW i \in Installs, TryStartInstall(i) PROVE InstallInv'
  BY <1>6 DEF TryStartInstall, Start, First, NoneRunning
<1>7. ASSUME NEW i \in Installs, RenewInstallLease(i) PROVE InstallInv'
  BY <1>7 DEF RenewInstallLease
<1>8. ASSUME NEW i \in Installs, LeaseExpires(i) PROVE InstallInv'
  BY <1>8 DEF LeaseExpires
<1>9. ASSUME NEW i \in Installs, RunInstallEnds(i) PROVE InstallInv'
  BY <1>9 DEF RunInstallEnds
<1>10. ASSUME NEW i \in Installs, ReapInstall(i) PROVE InstallInv'
  BY <1>10 DEF ReapInstall
<1>11. CASE ApiCrash
  BY <1>11 DEF ApiCrash
<1>12. CASE UNCHANGED vars
  BY <1>12 DEF vars
<1> QED
  BY <1>1, <1>2, <1>3, <1>4, <1>5, <1>6, <1>7, <1>8, <1>9, <1>10, <1>11, <1>12 DEF Next

\* If renewals come in time, no transaction takes an install away from a thread.
LEMMA StepThread ==
    ~RenewalsFail /\ InstallInv /\ ThreadInv /\ [Next]_vars => ThreadInv'
<1> SUFFICES ASSUME ~RenewalsFail, InstallInv, ThreadInv, [Next]_vars PROVE ThreadInv'
  OBVIOUS
<1> USE DEF InstallInv, TypeOK, ThreadInv
<1>1. ASSUME NEW a \in Admins, CheckActive(a) PROVE ThreadInv'
  BY <1>1 DEF CheckActive
<1>2. ASSUME NEW a \in Admins, CreateInstall(a) PROVE ThreadInv'
  BY <1>2 DEF CreateInstall, First
<1>3. ASSUME NEW j \in Jobs, ClaimBegin(j) \/ ClaimEnds(j) \/ JobEnds(j) PROVE ThreadInv'
  BY <1>3 DEF ClaimBegin, ClaimEnds, JobEnds
<1>4. ASSUME NEW i \in Installs, TryStartInstall(i) PROVE ThreadInv'
  BY <1>4 DEF TryStartInstall, Start
<1>5. ASSUME NEW i \in Installs, RenewInstallLease(i) PROVE ThreadInv'
  BY <1>5 DEF RenewInstallLease
<1>6. ASSUME NEW i \in Installs, LeaseExpires(i) PROVE ThreadInv'
  BY <1>6 DEF LeaseExpires
<1>7. ASSUME NEW i \in Installs, RunInstallEnds(i) PROVE ThreadInv'
  BY <1>7 DEF RunInstallEnds
<1>8. ASSUME NEW i \in Installs, ReapInstall(i) PROVE ThreadInv'
  BY <1>8 DEF ReapInstall
<1>9. CASE ApiCrash
  BY <1>9 DEF ApiCrash
<1>10. CASE UNCHANGED vars
  BY <1>10 DEF vars
<1> QED
  BY <1>1, <1>2, <1>3, <1>4, <1>5, <1>6, <1>7, <1>8, <1>9, <1>10 DEF Next

\* Only a thread whose install is still running writes an end over another.
LEMMA StepFinal ==
    InstallInv /\ ThreadInv /\ [Next]_vars
      => \A i \in Installs : status[i] \in Ended => status'[i] = status[i]
<1> SUFFICES ASSUME InstallInv, ThreadInv, [Next]_vars,
                    NEW i \in Installs, status[i] \in Ended
             PROVE  status'[i] = status[i]
  OBVIOUS
<1> USE DEF InstallInv, TypeOK, ThreadInv, Ended
<1>1. ASSUME NEW a \in Admins, CheckActive(a) \/ CreateInstall(a) PROVE status'[i] = status[i]
  BY <1>1 DEF CheckActive, CreateInstall, First
<1>2. ASSUME NEW j \in Jobs, ClaimBegin(j) \/ ClaimEnds(j) \/ JobEnds(j)
      PROVE status'[i] = status[i]
  BY <1>2 DEF ClaimBegin, ClaimEnds, JobEnds
<1>3. ASSUME NEW k \in Installs, TryStartInstall(k) PROVE status'[i] = status[i]
  BY <1>3 DEF TryStartInstall, Start, First
<1>4. ASSUME NEW k \in Installs, RenewInstallLease(k) \/ LeaseExpires(k)
      PROVE status'[i] = status[i]
  BY <1>4 DEF RenewInstallLease, LeaseExpires
<1>5. ASSUME NEW k \in Installs, RunInstallEnds(k) PROVE status'[i] = status[i]
  BY <1>5 DEF RunInstallEnds
<1>6. ASSUME NEW k \in Installs, ReapInstall(k) PROVE status'[i] = status[i]
  BY <1>6 DEF ReapInstall
<1>7. CASE ApiCrash \/ UNCHANGED vars
  BY <1>7 DEF ApiCrash, vars
<1> QED
  BY <1>1, <1>2, <1>3, <1>4, <1>5, <1>6, <1>7 DEF Next

-----------------------------------------------------------------------------
\* Rows, leases, threads and jobs keep their types.
THEOREM InstallTypes == Spec => []TypeOK
<1>1. InstallInv => TypeOK
  BY DEF InstallInv
<1> QED
  BY <1>1, InitInv, StepInv, PTL DEF Spec

\* The advisory lock and the two checks behind it keep every kind of running
\* work and running installs apart, crashes and failing renewals included.
THEOREM GateSafe == Spec => []GateExclusive
<1>1. InstallInv => GateExclusive
  BY DEF InstallInv, GateClear, GateExclusive, TypeOK
<1> QED
  BY <1>1, InitInv, StepInv, PTL DEF Spec

\* Although two requests can both queue an install, one at a time is running.
THEOREM InstallsInTurn == Spec => []OneInstallRunning
<1>1. InstallInv => OneInstallRunning
  BY DEF InstallInv
<1> QED
  BY <1>1, InitInv, StepInv, PTL DEF Spec

\* The reaper can always find a running install by its lease.
THEOREM AlwaysLeased == Spec => []RunningIsLeased
<1>1. InstallInv => RunningIsLeased
  BY DEF InstallInv
<1> QED
  BY <1>1, InitInv, StepInv, PTL DEF Spec

\* As long as renewals come in time, ansible-galaxy writes alone.
THEOREM WritesAloneIfRenewed == ASSUME ~RenewalsFail PROVE Spec => []WritesAlone
<1>1. InstallInv /\ ThreadInv => WritesAlone
  BY DEF InstallInv, TypeOK, ThreadInv, GateClear, OneInstallRunning, WritesAlone
<1>2. InstallInv /\ ThreadInv /\ [Next]_vars => (InstallInv /\ ThreadInv)'
  BY StepInv, StepThread
<1> QED
  BY <1>1, <1>2, InitInv, PTL DEF Spec

\* As long as renewals come in time, an install's end is written once.
THEOREM EndWrittenOnce == ASSUME ~RenewalsFail PROVE Spec => InstallEndedIsFinal
<1>1. InstallInv /\ ThreadInv /\ [Next]_vars => (InstallInv /\ ThreadInv)'
  BY StepInv, StepThread
<1>2. InstallInv /\ ThreadInv /\ [Next]_vars
        => [\A i \in Installs : status[i] \in Ended => status'[i] = status[i]]_vars
  BY StepFinal
<1> QED
  BY <1>1, <1>2, InitInv, PTL DEF Spec, InstallEndedIsFinal

\* As long as renewals come in time, an install has the directories to itself.
THEOREM InstallsAreAlone == ASSUME ~RenewalsFail PROVE Spec => InstallsAlone
BY GateSafe, InstallsInTurn, AlwaysLeased, WritesAloneIfRenewed, EndWrittenOnce, PTL
DEF InstallsAlone

-----------------------------------------------------------------------------
(* Requests to the secret store.                                           *)

TokenCalls == [at : {"idle", "login", "child", "send", "ok"} \union Failures,
               kind : {"none", "project", "probe"}, attempt : {0, 1},
               token : {0} \union Tokens, killed : BOOLEAN]

\* A second try, as long as no token died since the first: whatever is cached by now was
\* issued since, and the request goes out under a token, or a child, the store accepts.
SecondTry(t) ==
    /\ call[t].at = "denied" => call[t].killed /\ call[t].attempt = 1
    /\ call[t].attempt = 1 /\ ~call[t].killed =>
         /\ call[t].at = "login" => cached = 0 \/ cached \in alive
         /\ call[t].at \in {"child", "send"} => call[t].token \in alive
         /\ (call[t].at = "send" /\ call[t].kind = "project" /\ ProjectPolicy) => t \in children

TokenInv ==
    /\ cached \in {0} \union Tokens /\ aged \in BOOLEAN /\ alive \subseteq Tokens
    /\ issued \in {0} \union Tokens /\ children \subseteq Threads
    /\ call \in [Threads -> TokenCalls] /\ cached <= issued
    /\ \A t \in Threads : SecondTry(t)

LEMMA TokenStart == TokenInit => TokenInv
<1> SUFFICES ASSUME TokenInit PROVE TokenInv
  OBVIOUS
<1>1. NoCall \in TokenCalls
  BY DEF NoCall, TokenCalls, Failures
<1>2. call \in [Threads -> TokenCalls] /\ \A t \in Threads : call[t].at = "idle" /\ call[t].attempt = 0
  BY <1>1 DEF TokenInit, NoCall
<1>3. \A t \in Threads : SecondTry(t)
  BY <1>2 DEF SecondTry
<1>4. aged \in BOOLEAN
  BY DEF TokenInit
<1>5. /\ cached \in {0} \union Tokens /\ issued \in {0} \union Tokens /\ cached <= issued
      /\ alive \subseteq Tokens /\ children \subseteq Threads
  BY DEF TokenInit
<1> QED
  BY <1>2, <1>3, <1>4, <1>5 DEF TokenInv

\* What a step may do to the call of one thread, the rest seeing only what it shares.
LEMMA OneCallSteps ==
    ASSUME TokenInv, NEW t \in Threads, NEW c \in TokenCalls, call' = [call EXCEPT ![t] = c],
           cached' \in {0} \union Tokens, aged' \in BOOLEAN, alive' \subseteq Tokens,
           issued' \in {0} \union Tokens, cached' <= issued',
           alive \subseteq alive', cached' \in {0, cached} \union alive',
           children' \subseteq Threads, children' \ {t} = children \ {t},
           SecondTry(t)'
    PROVE  TokenInv'
<1>1. call' \in [Threads -> TokenCalls]
  BY DEF TokenInv
<1>2. ASSUME NEW u \in Threads \ {t} PROVE SecondTry(u)'
  <2>1. call'[u] = call[u] /\ SecondTry(u)
    BY DEF TokenInv
  <2>2. u \in children => u \in children'
    OBVIOUS
  <2> QED
    BY <2>1, <2>2 DEF SecondTry
<1> QED
  BY <1>1, <1>2 DEF TokenInv

LEMMA TokenStepKeeps ==
    ASSUME TokenInv, NEW t \in Threads,
           TokenStep(t) \/ \E kind \in {"project", "probe"} : StartCall(t, kind)
    PROVE  TokenInv'
<1>0. /\ cached \in {0} \union Tokens /\ aged \in BOOLEAN /\ alive \subseteq Tokens
      /\ issued \in {0} \union Tokens /\ children \subseteq Threads
      /\ call \in [Threads -> TokenCalls] /\ cached <= issued /\ SecondTry(t)
      /\ call[t] \in TokenCalls /\ Tokens = 1..MaxTokens /\ MaxTokens \in Nat
      /\ issued \in Nat /\ cached \in Nat
  BY StoreTokensAssumption DEF TokenInv, Tokens
<1>f. \A c \in TokenCalls : [call EXCEPT ![t] = c][t] = c
  BY <1>0
<1>1. ASSUME NEW kind \in {"project", "probe"}, StartCall(t, kind) PROVE TokenInv'
  <2> DEFINE c == [NoCall EXCEPT !.at = "login", !.kind = kind]
  <2>1. c \in TokenCalls /\ c.at = "login" /\ c.attempt = 0
    BY DEF NoCall, TokenCalls
  <2>2. call' = [call EXCEPT ![t] = c] /\ UNCHANGED <<cached, aged, alive, issued, children>>
    BY <1>1 DEF StartCall
  <2> HIDE DEF c
  <2>3. SecondTry(t)'
    BY <1>f, <2>1, <2>2 DEF SecondTry
  <2> QED
    BY <1>0, <2>1, <2>2, <2>3, OneCallSteps
<1>2. CASE UseCached(t)
  <2> DEFINE c == AfterLogin(call[t], cached)
  <2>1. /\ c \in TokenCalls /\ c.at \in {"child", "send"} /\ c.attempt = call[t].attempt
        /\ c.killed = call[t].killed /\ c.token = cached /\ c.kind = call[t].kind
        /\ c.at = "send" => ~(c.kind = "project" /\ ProjectPolicy)
    BY <1>0 DEF AfterLogin, TokenCalls
  <2>2. /\ call' = [call EXCEPT ![t] = c] /\ UNCHANGED <<cached, aged, alive, issued, children>>
        /\ call[t].at = "login" /\ cached # 0
    BY <1>2 DEF UseCached
  <2> HIDE DEF c
  <2>3. SecondTry(t)'
    BY <1>0, <1>f, <2>1, <2>2 DEF SecondTry
  <2> QED
    BY <1>0, <2>1, <2>2, <2>3, OneCallSteps
<1>3. CASE ApproleLogin(t)
  <2> DEFINE c == AfterLogin(call[t], issued + 1)
  <2>0. issued + 1 \in Tokens
    BY <1>0, <1>3 DEF ApproleLogin
  <2>1. /\ c \in TokenCalls /\ c.at \in {"child", "send"} /\ c.token = issued + 1
        /\ c.at = "send" => ~(c.kind = "project" /\ ProjectPolicy)
    BY <1>0, <2>0 DEF AfterLogin, TokenCalls
  <2>2. /\ call' = [call EXCEPT ![t] = c] /\ aged' = FALSE /\ children' = children
        /\ issued' = issued + 1 /\ alive' = alive \union {issued + 1} /\ cached' = issued + 1
    BY <1>3 DEF ApproleLogin
  <2> HIDE DEF c
  <2>3. SecondTry(t)'
    BY <1>0, <1>f, <2>1, <2>2 DEF SecondTry
  <2> QED
    <3>1. aged' \in BOOLEAN
      BY <2>2
    <3>2. /\ cached' \in {0} \union Tokens /\ alive' \subseteq Tokens /\ issued' \in {0} \union Tokens
          /\ cached' <= issued' /\ alive \subseteq alive' /\ cached' \in {0, cached} \union alive'
          /\ children' = children
      BY <1>0, <2>0, <2>2
    <3> QED
      BY <1>0, <2>1, <2>2, <2>3, <3>1, <3>2, OneCallSteps
<1>4. ASSUME NEW place \in {"ok", "auth_failed", "unreachable"},
             call' = [call EXCEPT ![t].at = place], UNCHANGED <<cached, aged, alive, issued>>,
             children' \in {children, children \ {t}}
      PROVE  TokenInv'
  <2> DEFINE c == [call[t] EXCEPT !.at = place]
  <2>1. c \in TokenCalls /\ c.at = place
    BY <1>0 DEF TokenCalls, Failures
  <2>2. call' = [call EXCEPT ![t] = c]
    BY <1>0, <1>4
  <2> HIDE DEF c
  <2>3. SecondTry(t)'
    BY <1>0, <1>f, <2>1, <2>2 DEF SecondTry
  <2> QED
    BY <1>0, <1>4, <2>1, <2>2, <2>3, OneCallSteps
<1>5. CASE ChildToken(t)
  <2> DEFINE c == [call[t] EXCEPT !.at = "send"]
  <2>1. /\ c \in TokenCalls /\ c.at = "send" /\ c.token = call[t].token /\ c.attempt = call[t].attempt
        /\ c.killed = call[t].killed
    BY <1>0 DEF TokenCalls
  <2>2. /\ call' = [call EXCEPT ![t] = c] /\ UNCHANGED <<cached, aged, alive, issued>>
        /\ children' = children \union {t} /\ call[t].token \in alive
    BY <1>0, <1>5 DEF ChildToken
  <2> HIDE DEF c
  <2>3. SecondTry(t)'
    BY <1>0, <1>f, <2>1, <2>2 DEF SecondTry
  <2> QED
    BY <1>0, <2>1, <2>2, <2>3, OneCallSteps
<1>6. CASE Refused(t) /\ call[t].attempt = 0
  <2> DEFINE c == [call[t] EXCEPT !.at = "login", !.attempt = 1, !.killed = FALSE]
  <2>1. c \in TokenCalls /\ c.at = "login"
    BY <1>0 DEF TokenCalls
  <2>2. /\ call' = [call EXCEPT ![t] = c] /\ cached' = 0 /\ aged' = FALSE
        /\ UNCHANGED <<alive, issued, children>>
    BY <1>0, <1>6 DEF Refused, LogInOnceMore
  <2> HIDE DEF c
  <2>3. SecondTry(t)'
    BY <1>0, <1>f, <2>1, <2>2 DEF SecondTry
  <2>4. aged' \in BOOLEAN
    BY <2>2
  <2>5. /\ cached' \in {0} \union Tokens /\ cached' <= issued' /\ cached' \in {0, cached} \union alive'
        /\ UNCHANGED <<alive, issued, children>>
    BY <1>0, <2>2
  <2> QED
    BY <1>0, <2>1, <2>2, <2>3, <2>4, <2>5, OneCallSteps
<1>7. CASE Refused(t) /\ call[t].attempt = 1
  <2> DEFINE place == IF call[t].kind = "probe" THEN "auth_failed" ELSE "denied"
             c == [call[t] EXCEPT !.at = place]
  <2>1. /\ c \in TokenCalls /\ c.at \in {"auth_failed", "denied"} /\ c.killed = call[t].killed
        /\ c.attempt = call[t].attempt
    BY <1>0 DEF TokenCalls, Failures
  <2>2. call' = [call EXCEPT ![t] = c] /\ UNCHANGED <<cached, aged, alive, issued, children>>
    BY <1>0, <1>7 DEF Refused
  <2>3. call[t].killed
    BY <1>0, <1>7 DEF Refused, StoreAccepts, SecondTry
  <2> HIDE DEF c
  <2>4. SecondTry(t)'
    BY <1>0, <1>7, <1>f, <2>1, <2>2, <2>3 DEF SecondTry
  <2> QED
    BY <1>0, <2>1, <2>2, <2>4, OneCallSteps
<1>8. call[t].attempt \in {0, 1}
  BY <1>0 DEF TokenCalls
<1>9. CASE NoAnswer(t) \/ Answered(t) \/ \E kind \in {"auth_failed", "unreachable"} : LoginFails(t, kind)
  BY <1>4, <1>9 DEF NoAnswer, Answered, LoginFails
<1> QED
  BY <1>1, <1>2, <1>3, <1>5, <1>6, <1>7, <1>8, <1>9 DEF TokenStep

LEMMA TokenKeeps == ASSUME TokenInv, [TokenNext]_tokenVars PROVE TokenInv'
<1>1. CASE TokenAges
  BY <1>1 DEF TokenAges, TokenInv, SecondTry
<1>2. ASSUME NEW k \in Tokens, TokenDies(k) PROVE TokenInv'
  <2>1. /\ alive' = alive \ {k} /\ children' \subseteq children /\ UNCHANGED <<cached, aged, issued>>
        /\ call' = [t \in Threads |-> [call[t] EXCEPT !.killed = call[t].attempt = 1]]
    BY <1>2 DEF TokenDies
  <2>2. \A t \in Threads : /\ call'[t] \in TokenCalls /\ call'[t].at = call[t].at
                           /\ call'[t].attempt = call[t].attempt
                           /\ call'[t].killed = (call[t].attempt = 1)
    BY <2>1 DEF TokenInv, TokenCalls
  <2>3. call' \in [Threads -> TokenCalls]
    BY <2>1, <2>2
  <2>4. ASSUME NEW t \in Threads PROVE SecondTry(t)'
    BY <2>2 DEF TokenInv, SecondTry
  <2> QED
    BY <2>1, <2>3, <2>4 DEF TokenInv
<1>3. CASE UNCHANGED tokenVars
  BY <1>3 DEF tokenVars, TokenInv, SecondTry
<1> QED
  BY <1>1, <1>2, <1>3, TokenStepKeeps DEF TokenNext

-----------------------------------------------------------------------------
(* Playbook checks.                                                        *)

\* A set of numbers has a least: the new check's id, the oldest candidate.
LEMMA LeastOf == ASSUME NEW T \in SUBSET Nat, T # {} PROVE \E x \in T : \A y \in T : x <= y
<1> DEFINE R == {ss \in Nat \X Nat : ss[1] < ss[2]}
<1>1. OpToRel(<, Nat) = R
  BY DEF OpToRel
<1>2. IsWellFoundedOn(R, Nat)
  BY <1>1, NatLessThanWellFounded, Zenon
<1> HIDE DEF R
<1>3. PICK x \in T : \A y \in T : ~ (<<y, x>> \in R)
  BY <1>2, WFMin
<1>4. \A y \in T : ~(y < x)
  BY <1>3 DEF R
<1> QED
  BY <1>4

CheckRows == [owner : Persons \union {"none"}, text : BOOLEAN, taken : BOOLEAN,
              status : Over \union {"none", "queued", "running", "pruned"}]

\* Ids are given out in order, a person's queued check is their newest, and no two of a
\* person's run.
CheckInv ==
    /\ check \in [CheckIds -> CheckRows] /\ answers \subseteq CheckIds /\ installing \in BOOLEAN
    /\ \A c \in CheckIds : check[c].owner = "none" <=> check[c].status = "none"
    /\ \A c, d \in CheckIds : check[c].status = "none" /\ check[d].status # "none" => d < c
    /\ \A c, d \in CheckIds :
         check[c].status = "queued" /\ check[d].owner = check[c].owner => d <= c
    /\ \A c, d \in CheckIds :
         check[c].status = "running" /\ check[d].status = "running"
         /\ check[d].owner = check[c].owner => c = d
    /\ Cardinality(ChecksIn("running")) <= MaxRunning

\* No outcome that is recorded changes.
Recorded == \A c \in CheckIds : check[c].status \in Over =>
                check'[c].status \in {check[c].status, "pruned"}

LEMMA CheckSets ==
    /\ MaxRunning \in Nat /\ MaxChecks \in Nat /\ IsFiniteSet(CheckIds) /\ CheckIds \subseteq Nat
    /\ \A st : ChecksIn(st) \in SUBSET CheckIds /\ IsFiniteSet(ChecksIn(st))
                   /\ Cardinality(ChecksIn(st)) \in Nat
<1>1. MaxRunning \in Nat /\ MaxChecks \in Nat
  BY CheckAssumption
<1>2. IsFiniteSet(CheckIds) /\ CheckIds \subseteq Nat
  BY <1>1, FS_Interval DEF CheckIds
<1> QED
  BY <1>1, <1>2, FS_Subset, FS_CardinalityType DEF ChecksIn

LEMMA CheckStart == CheckInit => CheckInv
<1> SUFFICES ASSUME CheckInit PROVE CheckInv
  OBVIOUS
<1>1. \A c \in CheckIds : check[c].owner = "none" /\ check[c].status = "none"
  BY DEF CheckInit, NoCheck
<1>2. check \in [CheckIds -> CheckRows]
  BY DEF CheckInit, NoCheck, CheckRows
<1>3. ChecksIn("running") = {}
  BY <1>1 DEF ChecksIn
<1>4. installing \in BOOLEAN
  BY DEF CheckInit
<1>5. Cardinality(ChecksIn("running")) <= MaxRunning
  BY <1>3, FS_EmptySet, CheckSets
<1> QED
  BY <1>1, <1>2, <1>4, <1>5, CheckSets DEF CheckInit, CheckInv

\* A step that only ends checks keeps the bounds.
LEMMA EndingKeeps ==
    ASSUME CheckInv, check' \in [CheckIds -> CheckRows], answers' \subseteq CheckIds,
           installing' \in BOOLEAN,
           \A c \in CheckIds :
             /\ check'[c].owner = check[c].owner
             /\ \/ check'[c].status = check[c].status
                \/ check[c].status # "none" /\ check'[c].status \in Over \union {"pruned"}
    PROVE  CheckInv'
<1>1. ChecksIn("running")' \subseteq ChecksIn("running")
  BY DEF ChecksIn, Over
<1>2. Cardinality(ChecksIn("running"))' <= Cardinality(ChecksIn("running"))
      /\ Cardinality(ChecksIn("running"))' \in Nat
  BY <1>1, CheckSets, FS_Subset, FS_CardinalityType
<1>3. Cardinality(ChecksIn("running"))' <= MaxRunning
  BY <1>2, CheckSets DEF CheckInv
<1> QED
  BY <1>3 DEF CheckInv, Over

LEMMA EndLintRow ==
    ASSUME CheckInv, NEW c \in CheckIds, NEW st \in Over, EndLint(c, st)
    PROVE  /\ check' \in [CheckIds -> CheckRows] /\ check'[c].owner = check[c].owner
           /\ check'[c].status = st /\ \A d \in CheckIds \ {c} : check'[d] = check[d]
BY ZenonT(60) DEF EndLint, CheckInv, CheckRows

LEMMA CheckStepKeeps ==
    ASSUME CheckInv, NEW c \in CheckIds,
           LintJob(c) \/ LintComplete(c) \/ WorkerDropsCheck(c) \/ ReapLint(c) \/ PruneLint(c)
    PROVE  CheckInv' /\ Recorded
<1>0. /\ installing' = installing /\ installing \in BOOLEAN /\ answers' \subseteq CheckIds
      /\ check \in [CheckIds -> CheckRows]
  BY DEF LintJob, LintComplete, WorkerDropsCheck, ReapLint, PruneLint, CheckInv
<1>i. installing' \in BOOLEAN
  BY <1>0
<1>1. ASSUME NEW st \in Over, EndLint(c, st), check[c].status \in {"queued", "running"}
      PROVE  CheckInv' /\ Recorded
  BY <1>0, <1>i, <1>1, EndLintRow, EndingKeeps DEF Recorded, Over
<1>2. CASE UNCHANGED check
  BY <1>0, <1>i, <1>2, EndingKeeps DEF Recorded
<1>3. CASE LintJob(c) /\ check' = [check EXCEPT ![c].taken = TRUE]
  <2>1. check' \in [CheckIds -> CheckRows]
        /\ \A d \in CheckIds : check'[d].owner = check[d].owner /\ check'[d].status = check[d].status
    BY <1>0, <1>3 DEF CheckRows
  <2> QED
    BY <1>0, <1>i, <2>1, EndingKeeps DEF Recorded
<1>4. CASE PruneLint(c)
  <2>1. check' = [check EXCEPT ![c].status = "pruned"] /\ check[c].status \in Over
    BY <1>4 DEF PruneLint
  <2>2. /\ check' \in [CheckIds -> CheckRows] /\ check'[c].status = "pruned"
        /\ check'[c].owner = check[c].owner /\ \A d \in CheckIds \ {c} : check'[d] = check[d]
    BY <1>0, <2>1 DEF CheckRows
  <2> QED
    BY <1>0, <1>i, <2>1, <2>2, EndingKeeps DEF Recorded, Over
<1>5. CASE LintJob(c) /\ check' # [check EXCEPT ![c].taken = TRUE]
  BY <1>1, <1>5 DEF LintJob, Over
<1>6. CASE LintComplete(c)
  BY <1>1, <1>2, <1>6 DEF LintComplete, Owns, Over
<1>7. CASE ReapLint(c)
  BY <1>1, <1>7 DEF ReapLint, ReapableChecks, ChecksIn, Over
<1>8. CASE WorkerDropsCheck(c)
  BY <1>2, <1>8 DEF WorkerDropsCheck
<1> QED
  BY <1>3, <1>4, <1>5, <1>6, <1>7, <1>8

\* A claim: of a person with none running, while fewer than the limit run.
LEMMA ClaimLintKeeps == ASSUME CheckInv, ClaimLint PROVE CheckInv' /\ Recorded
<1>1. PICK c \in Candidates : /\ check' = [check EXCEPT ![c].status = "running"]
                              /\ answers' = answers \union {c}
  BY DEF ClaimLint
<1>2. /\ c \in CheckIds /\ check[c].status = "queued" /\ check \in [CheckIds -> CheckRows]
      /\ Cardinality(ChecksIn("running")) < MaxRunning
      /\ Of(check[c].owner) \intersect ChecksIn("running") = {}
  BY DEF Candidates, ChecksIn, CheckInv
<1>3. /\ check' \in [CheckIds -> CheckRows] /\ check'[c].status = "running"
      /\ check'[c].owner = check[c].owner /\ \A d \in CheckIds \ {c} : check'[d] = check[d]
  BY <1>1, <1>2 DEF CheckRows
<1>4. ChecksIn("running")' = ChecksIn("running") \union {c}
  BY <1>2, <1>3 DEF ChecksIn
<1>5. Cardinality(ChecksIn("running"))' <= MaxRunning
  <2>1. Cardinality(ChecksIn("running") \union {c}) =
          IF c \in ChecksIn("running") THEN Cardinality(ChecksIn("running"))
          ELSE Cardinality(ChecksIn("running")) + 1
    BY CheckSets, FS_AddElement
  <2>2. Cardinality(ChecksIn("running")') = Cardinality(ChecksIn("running") \union {c})
    BY <1>4
  <2> QED
    BY <1>2, <2>1, <2>2, CheckSets
<1>6. \A d \in CheckIds : check[d].status = "running" => check[d].owner # check[c].owner
  BY <1>2 DEF Of, ChecksIn
<1>7. answers' \subseteq CheckIds /\ installing' = installing
  BY <1>1, <1>2 DEF CheckInv, ClaimLint
<1>8. installing' \in BOOLEAN
  BY <1>7 DEF CheckInv
<1>9. /\ \A a \in CheckIds : check'[a].owner = "none" <=> check'[a].status = "none"
      /\ \A a, b \in CheckIds : check'[a].status = "none" /\ check'[b].status # "none" => b < a
      /\ \A a, b \in CheckIds :
           check'[a].status = "queued" /\ check'[b].owner = check'[a].owner => b <= a
  BY <1>2, <1>3 DEF CheckInv
<1>10. \A a, b \in CheckIds :
         check'[a].status = "running" /\ check'[b].status = "running"
         /\ check'[b].owner = check'[a].owner => a = b
  BY <1>2, <1>3, <1>6 DEF CheckInv
<1>11. Recorded
  BY <1>2, <1>3 DEF Recorded, Over
<1> QED
  BY <1>3, <1>5, <1>7, <1>8, <1>9, <1>10, <1>11 DEF CheckInv

\* A request: the newest id of all, in place of the person's queued check.
LEMMA EnqueueKeeps == ASSUME CheckInv, NEW p \in Persons, EnqueueLint(p) PROVE CheckInv' /\ Recorded
<1> DEFINE new == CHOOSE c \in ChecksIn("none") : \A d \in ChecksIn("none") : c <= d
<1>1. /\ new \in CheckIds /\ check[new].status = "none"
  BY LeastOf, CheckSets DEF EnqueueLint, ChecksIn
<1>2. /\ check' = [c \in CheckIds |->
             CASE c = new -> [owner |-> p, status |-> "queued", text |-> TRUE, taken |-> FALSE]
               [] c \in Replaced(p) -> [check[c] EXCEPT !.status = "cancelled", !.text = FALSE]
               [] OTHER -> check[c]]
      /\ UNCHANGED <<answers, installing>>
  BY DEF EnqueueLint
<1> HIDE DEF new
<1>3. check \in [CheckIds -> CheckRows] /\ p # "none"
  BY CheckAssumption DEF CheckInv
<1>4. check'[new].owner = p /\ check'[new].status = "queued" /\ check'[new] \in CheckRows
  <2>0. new \notin Replaced(p)
    BY <1>1 DEF Replaced, ChecksIn
  <2>1. check'[new] = [owner |-> p, status |-> "queued", text |-> TRUE, taken |-> FALSE]
    BY <1>1, <1>2, <2>0
  <2> QED
    BY <2>1 DEF CheckRows
<1>5. ASSUME NEW c \in CheckIds \ {new}
      PROVE  /\ check'[c] \in CheckRows /\ check'[c].owner = check[c].owner
             /\ IF check[c].owner = p /\ check[c].status = "queued"
                THEN check'[c].status = "cancelled" ELSE check'[c].status = check[c].status
  <2>1. c \in Replaced(p) <=> check[c].owner = p /\ check[c].status = "queued"
    BY DEF Replaced, Of, ChecksIn
  <2>2. CASE c \in Replaced(p)
    BY <1>2, <1>3, <2>1, <2>2 DEF CheckRows, Over
  <2>3. CASE c \notin Replaced(p)
    BY <1>2, <1>3, <2>1, <2>3
  <2> QED
    BY <2>2, <2>3
<1>6. check' \in [CheckIds -> CheckRows]
  BY <1>2, <1>4, <1>5
<1>7. ChecksIn("running")' = ChecksIn("running")
  BY <1>1, <1>4, <1>5 DEF ChecksIn
<1>8. Cardinality(ChecksIn("running"))' <= MaxRunning
  BY <1>7 DEF CheckInv
<1>9. \A d \in CheckIds : check[d].status # "none" => d < new
  BY <1>1 DEF CheckInv
<1>10. \A d \in CheckIds \ {new} : check[d].owner = p => d < new
  BY <1>3, <1>9 DEF CheckInv
<1>11. \A a \in CheckIds : check'[a].owner = "none" <=> check'[a].status = "none"
  BY <1>3, <1>4, <1>5 DEF CheckInv
<1>12. \A d \in CheckIds \ {new} : check[d].status = "none" => new < d
  <2>1. new = CHOOSE c \in ChecksIn("none") : \A d \in ChecksIn("none") : c <= d
    BY DEF new
  <2>2. \A d \in ChecksIn("none") : new <= d
    BY <2>1, LeastOf, CheckSets DEF EnqueueLint
  <2> QED
    BY <1>1, <2>2, CheckSets DEF ChecksIn
<1>13. \A a, b \in CheckIds : check'[a].status = "none" /\ check'[b].status # "none" => b < a
  BY <1>4, <1>5, <1>12 DEF CheckInv
<1>14. \A a, b \in CheckIds :
         check'[a].status = "queued" /\ check'[b].owner = check'[a].owner => b <= a
  <2> SUFFICES ASSUME NEW a \in CheckIds, NEW b \in CheckIds, check'[a].status = "queued",
                      check'[b].owner = check'[a].owner
               PROVE  b <= a
    OBVIOUS
  <2>1. CASE a = new
    BY <1>1, <1>4, <1>5, <1>10, <2>1, CheckSets
  <2>2. CASE a # new
    <3>1. check'[a].owner # p /\ check[a].status = "queued"
      BY <1>5, <2>2
    <3> QED
      BY <1>4, <1>5, <2>2, <3>1 DEF CheckInv
  <2> QED
    BY <2>1, <2>2
<1>15. \A a, b \in CheckIds :
         check'[a].status = "running" /\ check'[b].status = "running"
         /\ check'[b].owner = check'[a].owner => a = b
  BY <1>4, <1>5 DEF CheckInv
<1>16. installing' \in BOOLEAN /\ answers' \subseteq CheckIds
  BY <1>2 DEF CheckInv
<1>17. Recorded
  BY <1>1, <1>5 DEF Recorded, Over
<1> QED
  BY <1>6, <1>8, <1>11, <1>13, <1>14, <1>15, <1>16, <1>17 DEF CheckInv

LEMMA CheckKeeps == ASSUME CheckInv, [CheckNext]_checkVars PROVE CheckInv' /\ Recorded
<1>1. CASE InstallWaits
  <2>1. installing' \in BOOLEAN
    BY <1>1 DEF InstallWaits
  <2> QED
    BY <1>1, <2>1, EndingKeeps DEF InstallWaits, Recorded, CheckInv
<1>2. CASE UNCHANGED checkVars
  <2>1. installing' \in BOOLEAN
    BY <1>2 DEF checkVars, CheckInv
  <2> QED
    BY <1>2, <2>1, EndingKeeps DEF checkVars, Recorded, CheckInv
<1> QED
  BY <1>1, <1>2, CheckStepKeeps, ClaimLintKeeps, EnqueueKeeps DEF CheckNext

LEMMA CheckBounds == CheckInv => ChecksWithinBounds
<1> SUFFICES ASSUME CheckInv PROVE ChecksWithinBounds
  OBVIOUS
<1>1. \A p \in Persons : \A c \in Of(p) \intersect ChecksIn("queued"), d \in Of(p) : d <= c
  BY DEF CheckInv, Of, ChecksIn
<1>2. ASSUME NEW p \in Persons PROVE Cardinality(Of(p) \intersect ChecksIn("running")) <= 1
  <2> DEFINE S == Of(p) \intersect ChecksIn("running")
  <2>1. \A c, d \in S : c = d
    BY DEF CheckInv, Of, ChecksIn
  <2>2. CASE S = {}
    BY <2>2, FS_EmptySet
  <2>3. CASE S # {}
    <3>1. PICK c : S = {c}
      BY <2>1, <2>3
    <3> QED
      BY <3>1, FS_Singleton
  <2> QED
    BY <2>2, <2>3
<1> QED
  BY <1>1, <1>2 DEF ChecksWithinBounds, CheckInv

-----------------------------------------------------------------------------
(* Notices.                                                                *)

DeliveryRows ==
    [channel : Channels, key : {"none", "attack"},
     status : Outstanding \union Finished \union {"gone"},
     attempts : Nat, due : BOOLEAN, received : Nat]

Dispatchers == [batch : Seq(Nat), sending : Nat]

RowBound(r) == r.received <= r.attempts /\ r.attempts <= MaxAttempts

\* What is being sent was counted and has not arrived so often yet.
SendingCounted ==
    dispatcher.sending # 0 /\ outbox[dispatcher.sending].status # "gone" =>
        outbox[dispatcher.sending].received < outbox[dispatcher.sending].attempts

\* A row of the batch that may still be sent has an attempt left.
BatchHasAttempts ==
    \A k \in 1..Len(dispatcher.batch) : LET i == dispatcher.batch[k] IN
        outbox[i].status = "sending" /\ dispatcher.sending # i => outbox[i].attempts < MaxAttempts

OutboxTypes ==
    /\ channel \in [Channels -> {"on", "off", "gone"}] /\ paced \subseteq Channels
    /\ outbox \in Seq(DeliveryRows) /\ Len(outbox) <= MaxDeliveries
    /\ dispatcher \in Dispatchers /\ dispatcher.sending \in {0} \union Deliveries
    /\ \A k \in 1..Len(dispatcher.batch) : dispatcher.batch[k] \in Deliveries

OutboxInv ==
    /\ OutboxTypes
    /\ \A i \in Deliveries : RowBound(outbox[i])
    /\ SendingCounted /\ BatchHasAttempts

\* The alert's row stands for an alert that was told and not taken back.
AlertInv ==
    /\ worker \in {"fresh", "silent", "forgotten"} /\ alert \in BOOLEAN /\ sawSilent \in BOOLEAN
    /\ lastRun \in {"success", "failed"} /\ told \in {"none", "offline", "resolved"}
    /\ alert <=> told = "offline"

NoticeInv == OutboxInv /\ AlertInv

LEMMA NoticeStart == NoticeInit => NoticeInv
<1> SUFFICES ASSUME NoticeInit PROVE NoticeInv
  OBVIOUS
<1>1. /\ outbox \in Seq(DeliveryRows) /\ Len(outbox) = 0 /\ Deliveries = {}
      /\ dispatcher \in Dispatchers /\ dispatcher.sending = 0 /\ Len(dispatcher.batch) = 0
  BY DEF NoticeInit, Deliveries, Dispatchers
<1>2. OutboxTypes
  BY <1>1, NoticeAssumption DEF NoticeInit, OutboxTypes
<1>3. OutboxInv
  BY <1>1, <1>2 DEF OutboxInv, SendingCounted, BatchHasAttempts
<1>4. AlertInv
  BY DEF NoticeInit, AlertInv
<1> QED
  BY <1>3, <1>4 DEF NoticeInv

\* Rows are added, or change without being sent, or are deleted.
LEMMA RowsChange ==
    ASSUME OutboxInv, dispatcher' = dispatcher,
           channel' \in [Channels -> {"on", "off", "gone"}], paced' \subseteq Channels,
           outbox' \in Seq(DeliveryRows), Len(outbox) <= Len(outbox'),
           Len(outbox') <= MaxDeliveries,
           \A i \in 1..Len(outbox') : RowBound(outbox'[i]),
           \A i \in Deliveries :
             \/ outbox'[i].status = "gone"
             \/ /\ outbox[i].status # "gone" /\ outbox'[i].status = outbox[i].status
                /\ outbox'[i].attempts = outbox[i].attempts
                /\ outbox'[i].received = outbox[i].received
    PROVE  OutboxInv'
<1>1. Len(outbox) \in Nat /\ Len(outbox') \in Nat /\ Deliveries = 1..Len(outbox)
      /\ Deliveries' = 1..Len(outbox') /\ Deliveries \subseteq Deliveries'
  BY DEF Deliveries, OutboxInv, OutboxTypes
<1>2. OutboxTypes'
  BY <1>1 DEF OutboxInv, OutboxTypes
<1>3. SendingCounted'
  BY <1>1 DEF OutboxInv, OutboxTypes, SendingCounted
<1>4. BatchHasAttempts'
  BY <1>1 DEF OutboxInv, OutboxTypes, BatchHasAttempts
<1> QED
  BY <1>1, <1>2, <1>3, <1>4 DEF OutboxInv

LEMMA SetToSeqOf ==
    ASSUME NEW S, IsFiniteSet(S)
    PROVE  SetToSeq(S) \in Seq(S) /\ Len(SetToSeq(S)) = Cardinality(S) /\ Cardinality(S) \in Nat
<1>1. Cardinality(S) \in Nat /\ ExistsBijection(1..Cardinality(S), S)
  BY FS_CardinalityType
<1>2. \E f \in [1..Cardinality(S) -> S] : IsInjective(f)
  BY <1>1 DEF ExistsBijection, Bijection, Injection
<1>3. SetToSeq(S) \in [1..Cardinality(S) -> S]
  BY <1>2 DEF SetToSeq
<1> QED
  BY <1>1, <1>3

\* What emit adds: rows that nobody has sent.
LEMMA EmitAdds ==
    ASSUME OutboxInv, NEW ev, Emit(ev)
    PROVE  /\ outbox' \in Seq(DeliveryRows) /\ Len(outbox) <= Len(outbox')
           /\ Len(outbox') <= MaxDeliveries
           /\ \A i \in Deliveries : outbox'[i] = outbox[i]
           /\ \A i \in 1..Len(outbox') : RowBound(outbox'[i])
<1> DEFINE to == {c \in Recipients(ev) : ~Duplicate(c, ev)}
           row(c) == [channel |-> c, key |-> IF ev = "attack" THEN ev ELSE "none",
                      status |-> "pending", attempts |-> 0, due |-> TRUE, received |-> 0]
           T == {row(c) : c \in to}
           f == [c \in to |-> row(c)]
<1>1. Len(outbox) + Cardinality(to) <= MaxDeliveries /\ outbox' = outbox \o SetToSeq(T)
  BY DEF Emit
<1>2. to \subseteq Channels /\ IsFiniteSet(to) /\ Cardinality(to) \in Nat
  <2>1. to \subseteq Channels
    BY DEF Recipients
  <2> QED
    BY <2>1, NoticeAssumption, FS_Subset, FS_CardinalityType
<1>3. f \in Surjection(to, T)
  BY DEF Surjection
<1>4. IsFiniteSet(T) /\ Cardinality(T) <= Cardinality(to)
  BY <1>2, <1>3, FS_Surjection
<1>5. \A r \in T : r \in DeliveryRows /\ r.received = 0 /\ r.attempts = 0
  <2>1. (IF ev = "attack" THEN ev ELSE "none") \in {"none", "attack"}
    OBVIOUS
  <2>2. \A c \in Channels, k \in {"none", "attack"} :
          [channel |-> c, key |-> k, status |-> "pending", attempts |-> 0, due |-> TRUE,
           received |-> 0] \in DeliveryRows
    BY DEF DeliveryRows, Outstanding
  <2>3. \A c \in to : row(c) \in DeliveryRows /\ row(c).received = 0 /\ row(c).attempts = 0
    BY <1>2, <2>1, <2>2
  <2> QED
    BY <2>3
<1> DEFINE q == SetToSeq(T)
<1>6. q \in Seq(T) /\ Len(q) = Cardinality(T) /\ Cardinality(T) \in Nat
  BY <1>4, SetToSeqOf
<1>7. outbox \in Seq(DeliveryRows) /\ Len(outbox) \in Nat /\ outbox' = outbox \o q
      /\ Len(outbox) + Cardinality(to) <= MaxDeliveries
  BY <1>1 DEF OutboxInv, OutboxTypes
<1> HIDE DEF q, T, to, row, f
<1>8. q \in Seq(DeliveryRows) /\ \A k \in 1..Len(q) : q[k].received = 0 /\ q[k].attempts = 0
  BY <1>5, <1>6
<1>9. /\ outbox' \in Seq(DeliveryRows) /\ Len(outbox') = Len(outbox) + Len(q)
      /\ \A i \in 1..Len(outbox') :
           outbox'[i] = IF i <= Len(outbox) THEN outbox[i] ELSE q[i - Len(outbox)]
  BY <1>7, <1>8
<1>10. MaxAttempts \in Nat /\ MaxDeliveries \in Nat
  BY NoticeAssumption
<1>11. Len(outbox') <= MaxDeliveries /\ Len(outbox) <= Len(outbox')
  BY <1>2, <1>4, <1>6, <1>7, <1>9, <1>10
<1>12. \A i \in Deliveries : outbox'[i] = outbox[i]
  BY <1>6, <1>7, <1>9 DEF Deliveries
<1>13. ASSUME NEW i \in 1..Len(outbox') PROVE RowBound(outbox'[i])
  <2>1. CASE i <= Len(outbox)
    BY <1>7, <1>9, <2>1 DEF OutboxInv, Deliveries
  <2>2. CASE ~(i <= Len(outbox))
    <3>1. i - Len(outbox) \in 1..Len(q)
      BY <1>6, <1>7, <1>9, <2>2
    <3> QED
      BY <1>8, <1>9, <1>10, <2>2, <3>1, SMTT(40) DEF RowBound
  <2> QED
    BY <2>1, <2>2
<1> QED
  BY <1>9, <1>11, <1>12, <1>13

LEMMA EmitKeeps ==
    ASSUME OutboxInv, UNCHANGED <<channel, paced, dispatcher>>,
           UNCHANGED outbox \/ \E ev \in {"run_failed", "run_recovered", "attack", "offline",
                                          "resolved"} : Emit(ev)
    PROVE  OutboxInv'
<1>1. CASE UNCHANGED outbox
  BY <1>1 DEF OutboxInv, OutboxTypes, SendingCounted, BatchHasAttempts, Deliveries
<1>2. ASSUME NEW ev, Emit(ev) PROVE OutboxInv'
  <2>1. /\ outbox' \in Seq(DeliveryRows) /\ Len(outbox) <= Len(outbox')
        /\ Len(outbox') <= MaxDeliveries
        /\ \A i \in Deliveries : outbox'[i] = outbox[i]
        /\ \A i \in 1..Len(outbox') : RowBound(outbox'[i])
    BY <1>2, EmitAdds
  <2>2. Len(outbox) \in Nat /\ Len(outbox') \in Nat /\ Deliveries' = 1..Len(outbox')
        /\ Deliveries \subseteq Deliveries'
    BY <2>1 DEF Deliveries, OutboxInv, OutboxTypes
  <2>3. OutboxTypes'
    BY <2>1, <2>2 DEF OutboxInv, OutboxTypes
  <2>4. SendingCounted' /\ BatchHasAttempts'
    BY <2>1, <2>2 DEF OutboxInv, OutboxTypes, SendingCounted, BatchHasAttempts
  <2> QED
    BY <2>1, <2>2, <2>3, <2>4 DEF OutboxInv
<1> QED
  BY <1>1, <1>2

LEMMA OutboxFacts ==
    ASSUME OutboxInv
    PROVE  /\ outbox \in Seq(DeliveryRows) /\ Len(outbox) \in Nat /\ Deliveries = 1..Len(outbox)
           /\ channel \in [Channels -> {"on", "off", "gone"}] /\ paced \subseteq Channels
           /\ Len(outbox) <= MaxDeliveries /\ MaxAttempts \in Nat \ {0} /\ MaxDeliveries \in Nat
           /\ \A i \in Deliveries : outbox[i] \in DeliveryRows /\ RowBound(outbox[i])
           /\ dispatcher \in Dispatchers /\ dispatcher.sending \in {0} \union Deliveries
           /\ dispatcher.batch \in Seq(Nat)
           /\ \A k \in 1..Len(dispatcher.batch) : dispatcher.batch[k] \in Deliveries
           /\ SendingCounted /\ BatchHasAttempts
BY NoticeAssumption DEF OutboxInv, OutboxTypes, Deliveries, Dispatchers

\* Replacing one row of the outbox.
LEMMA OneRow ==
    ASSUME OutboxInv, NEW i \in Deliveries, NEW r \in DeliveryRows, outbox' = [outbox EXCEPT ![i] = r]
    PROVE  /\ outbox' \in Seq(DeliveryRows) /\ Len(outbox') = Len(outbox)
           /\ Deliveries' = Deliveries /\ outbox'[i] = r
           /\ \A k \in Deliveries \ {i} : outbox'[k] = outbox[k]
BY OutboxFacts DEF Deliveries

LEMMA GoneRowFacts ==
    ASSUME NEW c \in Channels
    PROVE  GoneRow(c) \in DeliveryRows /\ RowBound(GoneRow(c)) /\ GoneRow(c).status = "gone"
BY NoticeAssumption DEF GoneRow, DeliveryRows, RowBound

\* Channels, tests, pruning and time: no step of the dispatcher.
LEMMA ChannelKeeps == ASSUME OutboxInv, ChannelNext PROVE OutboxInv'
<1> USE OutboxFacts
<1> SUFFICES ASSUME NEW c \in Channels,
                    \/ DeleteChannel(c)
                    \/ \E s \in {"on", "off"} : CreateChannel(c, s) \/ UpdateChannel(c, s)
                    \/ \E ok \in BOOLEAN : TestChannel(c, ok)
             PROVE  OutboxInv'
  BY DEF ChannelNext
<1>1. CASE DeleteChannel(c)
  <2>1. /\ channel' = [channel EXCEPT ![c] = "gone"] /\ paced' = paced \ {c}
        /\ outbox' = [i \in Deliveries |-> IF outbox[i].channel = c THEN GoneRow(c) ELSE outbox[i]]
        /\ dispatcher' = dispatcher
    BY <1>1 DEF DeleteChannel
  <2>2. \A i \in Deliveries : outbox'[i] = IF outbox[i].channel = c THEN GoneRow(c) ELSE outbox[i]
    BY <2>1
  <2>3. \A i \in Deliveries : outbox'[i] \in DeliveryRows /\ RowBound(outbox'[i])
    BY <2>2, GoneRowFacts
  <2>4. outbox' \in Seq(DeliveryRows) /\ Len(outbox') = Len(outbox)
    BY <2>1, <2>3
  <2>5. \A i \in Deliveries :
             \/ outbox'[i].status = "gone"
             \/ /\ outbox[i].status # "gone" /\ outbox'[i].status = outbox[i].status
                /\ outbox'[i].attempts = outbox[i].attempts
                /\ outbox'[i].received = outbox[i].received
    BY <2>2, GoneRowFacts
  <2>6. \A i \in 1..Len(outbox') : RowBound(outbox'[i])
    BY <2>3, <2>4
  <2>7. channel' \in [Channels -> {"on", "off", "gone"}] /\ paced' \subseteq Channels
    BY <2>1
  <2> QED
    BY <2>1, <2>4, <2>5, <2>6, <2>7, RowsChange
<1>2. ASSUME NEW s \in {"on", "off"}, CreateChannel(c, s) \/ UpdateChannel(c, s) PROVE OutboxInv'
  <2>1. channel' = [channel EXCEPT ![c] = s] /\ UNCHANGED <<paced, outbox, dispatcher>>
    BY <1>2 DEF CreateChannel, UpdateChannel
  <2>2. channel' \in [Channels -> {"on", "off", "gone"}]
    BY <2>1
  <2> QED
    BY <2>1, <2>2 DEF OutboxInv, OutboxTypes, SendingCounted, BatchHasAttempts, Deliveries
<1>3. ASSUME NEW ok \in BOOLEAN, TestChannel(c, ok) PROVE OutboxInv'
  <2> DEFINE r == [channel |-> c, key |-> "none", attempts |-> 1, due |-> FALSE,
                   status |-> IF ok THEN "sent" ELSE "failed", received |-> IF ok THEN 1 ELSE 0]
  <2>1. /\ outbox' = Append(outbox, r) /\ Len(outbox) < MaxDeliveries
        /\ paced' = IF ok THEN paced \union {c} ELSE paced
        /\ UNCHANGED <<channel, dispatcher>>
    BY <1>3 DEF TestChannel
  <2>2. r \in DeliveryRows /\ RowBound(r)
    BY NoticeAssumption DEF DeliveryRows, Finished, RowBound
  <2> HIDE DEF r
  <2>3. /\ outbox' \in Seq(DeliveryRows) /\ Len(outbox') = Len(outbox) + 1
        /\ \A i \in 1..Len(outbox') : outbox'[i] = IF i = Len(outbox') THEN r ELSE outbox[i]
    BY <2>1, <2>2
  <2>4. ASSUME NEW i \in 1..Len(outbox') PROVE RowBound(outbox'[i])
    <3>1. CASE i = Len(outbox')
      BY <2>2, <2>3, <3>1
    <3>2. CASE i # Len(outbox')
      <4>1. i \in Deliveries /\ outbox'[i] = outbox[i]
        BY <2>3, <3>2
      <4> QED
        BY <4>1
    <3> QED
      BY <3>1, <3>2
  <2>5. Len(outbox) <= Len(outbox') /\ Len(outbox') <= MaxDeliveries
        /\ Deliveries \subseteq Deliveries' /\ Deliveries' = 1..Len(outbox')
        /\ \A i \in Deliveries : outbox'[i] = outbox[i]
    BY <2>1, <2>3 DEF Deliveries
  <2>6. paced' \subseteq Channels
    BY <2>1
  <2>7. OutboxTypes'
    BY <2>1, <2>3, <2>5, <2>6 DEF OutboxTypes
  <2>8. SendingCounted' /\ BatchHasAttempts'
    BY <2>1, <2>5 DEF SendingCounted, BatchHasAttempts
  <2> QED
    BY <2>4, <2>5, <2>7, <2>8 DEF OutboxInv
<1> QED
  BY <1>1, <1>2, <1>3

LEMMA TimeKeeps ==
    ASSUME OutboxInv,
           \/ \E i \in Deliveries : BecomesDue(i) \/ PruneDelivery(i)
           \/ \E c \in Channels : PacingPasses(c)
    PROVE  OutboxInv'
<1> USE OutboxFacts
<1>1. ASSUME NEW i \in Deliveries, BecomesDue(i) PROVE OutboxInv'
  <2> DEFINE r == [outbox[i] EXCEPT !.due = TRUE]
  <2>1. outbox' = [outbox EXCEPT ![i] = r] /\ UNCHANGED <<channel, paced, dispatcher>>
        /\ outbox[i].status # "gone"
    BY <1>1 DEF BecomesDue, Outstanding
  <2>2. /\ r \in DeliveryRows /\ r.status = outbox[i].status /\ r.attempts = outbox[i].attempts
        /\ r.received = outbox[i].received
    BY DEF DeliveryRows
  <2> HIDE DEF r
  <2>3. /\ outbox' \in Seq(DeliveryRows) /\ Len(outbox') = Len(outbox)
        /\ Deliveries' = Deliveries /\ outbox'[i] = r
        /\ \A k \in Deliveries \ {i} : outbox'[k] = outbox[k]
    BY <2>1, <2>2, OneRow
  <2>4. \A k \in 1..Len(outbox') : RowBound(outbox'[k])
    BY <2>2, <2>3 DEF RowBound
  <2>5. \A k \in Deliveries :
          \/ outbox'[k].status = "gone"
          \/ /\ outbox[k].status # "gone" /\ outbox'[k].status = outbox[k].status
             /\ outbox'[k].attempts = outbox[k].attempts
             /\ outbox'[k].received = outbox[k].received
    BY <2>1, <2>2, <2>3
  <2> QED
    BY <2>1, <2>3, <2>4, <2>5, RowsChange
<1>2. ASSUME NEW i \in Deliveries, PruneDelivery(i) PROVE OutboxInv'
  <2> DEFINE r == GoneRow(outbox[i].channel)
  <2>1. outbox' = [outbox EXCEPT ![i] = r] /\ UNCHANGED <<channel, paced, dispatcher>>
    BY <1>2 DEF PruneDelivery
  <2>2. r \in DeliveryRows /\ r.status = "gone" /\ RowBound(r)
    <3>1. outbox[i].channel \in Channels
      BY DEF DeliveryRows
    <3> QED
      BY <3>1, GoneRowFacts
  <2> HIDE DEF r
  <2>3. /\ outbox' \in Seq(DeliveryRows) /\ Len(outbox') = Len(outbox)
        /\ Deliveries' = Deliveries /\ outbox'[i] = r
        /\ \A k \in Deliveries \ {i} : outbox'[k] = outbox[k]
    BY <2>1, <2>2, OneRow
  <2>4. \A k \in 1..Len(outbox') : RowBound(outbox'[k])
    BY <2>2, <2>3 DEF RowBound
  <2>5. \A k \in Deliveries :
          \/ outbox'[k].status = "gone"
          \/ /\ outbox[k].status # "gone" /\ outbox'[k].status = outbox[k].status
             /\ outbox'[k].attempts = outbox[k].attempts
             /\ outbox'[k].received = outbox[k].received
    BY <2>1, <2>2, <2>3
  <2> QED
    BY <2>1, <2>3, <2>4, <2>5, RowsChange
<1>3. ASSUME NEW c \in Channels, PacingPasses(c) PROVE OutboxInv'
  BY <1>3 DEF PacingPasses, OutboxInv, OutboxTypes, SendingCounted, BatchHasAttempts, Deliveries
<1> QED
  BY <1>1, <1>2, <1>3

\* A function on 1..n is a sequence.
LEMMA FunctionIsSeq ==
    ASSUME NEW T, NEW n \in Nat, NEW f \in [1..n -> T]
    PROVE  f \in Seq(T) /\ Len(f) = n /\ \A k \in 1..Len(f) : f[k] \in T
OBVIOUS

LEMMA SeqOfMore == ASSUME NEW T, NEW U, T \subseteq U, NEW f \in Seq(T) PROVE f \in Seq(U)
OBVIOUS

\* One batch: what it leases has attempts left.
LEMMA ClaimBatchKeeps == ASSUME OutboxInv, ClaimBatch PROVE OutboxInv'
<1> USE OutboxFacts
<1> DEFINE taken == {i \in Deliveries : Claimable(i)}
           spent(i) == outbox[i].attempts >= MaxAttempts
           S == {i \in taken : ~spent(i)}
<1>1. /\ outbox' = [i \in Deliveries |->
             IF i \notin taken THEN outbox[i]
             ELSE IF spent(i) THEN [outbox[i] EXCEPT !.status = "failed"]
             ELSE [outbox[i] EXCEPT !.status = "sending", !.due = FALSE]]
      /\ dispatcher = [batch |-> <<>>, sending |-> 0]
      /\ UNCHANGED <<channel, paced>>
  BY DEF ClaimBatch
<1>2. PICK batch \in OldestFirst(S) : dispatcher' = [dispatcher EXCEPT !.batch = batch]
  BY DEF ClaimBatch
<1>3. \A i \in S : i \in Deliveries /\ outbox[i].attempts < MaxAttempts
  BY DEF DeliveryRows
<1>4. batch \in Seq(S) /\ batch \in Seq(Nat) /\ \A k \in 1..Len(batch) : batch[k] \in S
  <2>0. Deliveries = 1..Len(outbox) /\ Len(outbox) \in Nat
    OBVIOUS
  <2>1. IsFiniteSet(Deliveries) /\ Deliveries \subseteq Nat
    BY <2>0, FS_Interval
  <2>s. S \subseteq Deliveries
    OBVIOUS
  <2>3. batch \in [1..Cardinality(S) -> S]
    BY <1>2 DEF OldestFirst, SetToSeqs
  <2> HIDE DEF S, taken, spent
  <2>2. Cardinality(S) \in Nat
    BY <2>1, <2>s, FS_Subset, FS_CardinalityType
  <2>4. batch \in Seq(S) /\ \A k \in 1..Len(batch) : batch[k] \in S
    BY <2>2, <2>3, FunctionIsSeq
  <2>5. S \subseteq Nat
    BY <2>1, <2>s
  <2>6. batch \in Seq(Nat)
    BY <2>4, <2>5, SeqOfMore
  <2> QED
    BY <2>4, <2>6
<1>5. ASSUME NEW i \in Deliveries
      PROVE  /\ outbox'[i] \in DeliveryRows /\ outbox'[i].attempts = outbox[i].attempts
             /\ outbox'[i].received = outbox[i].received
  <2>0. outbox[i] \in DeliveryRows
    OBVIOUS
  <2>1. CASE i \notin taken
    BY <1>1, <2>1
  <2>2. CASE i \in taken /\ spent(i)
    BY <1>1, <2>0, <2>2 DEF DeliveryRows, Finished
  <2>3. CASE i \in taken /\ ~spent(i)
    BY <1>1, <2>0, <2>3 DEF DeliveryRows, Outstanding
  <2> QED
    BY <2>1, <2>2, <2>3
<1>6. outbox' \in Seq(DeliveryRows) /\ Len(outbox') = Len(outbox) /\ Deliveries' = Deliveries
  <2>1. DOMAIN outbox' = 1..Len(outbox) /\ Len(outbox) \in Nat
    BY <1>1
  <2>2. outbox' \in [1..Len(outbox) -> DeliveryRows]
    <3>1. outbox' = [k \in 1..Len(outbox) |-> outbox'[k]]
      BY <1>1
    <3> QED
      BY <1>5, <2>1, <3>1
  <2>3. outbox' \in Seq(DeliveryRows) /\ Len(outbox') = Len(outbox)
    BY <2>1, <2>2, SMTT(40)
  <2> QED
    BY <2>3 DEF Deliveries
<1> HIDE DEF S, taken, spent
<1>7. dispatcher' \in Dispatchers /\ dispatcher'.sending = 0 /\ dispatcher'.batch = batch
  BY <1>1, <1>2, <1>4 DEF Dispatchers
<1>8. OutboxTypes'
  BY <1>1, <1>3, <1>4, <1>6, <1>7 DEF OutboxTypes
<1>9. SendingCounted' /\ BatchHasAttempts'
  BY <1>3, <1>4, <1>5, <1>7 DEF SendingCounted, BatchHasAttempts
<1>10. \A i \in Deliveries' : RowBound(outbox'[i])
  BY <1>5, <1>6 DEF RowBound
<1> QED
  BY <1>8, <1>9, <1>10 DEF OutboxInv

\* The next of the batch.
LEMMA BatchTail ==
    ASSUME OutboxInv, dispatcher.batch # <<>>
    PROVE  /\ Head(dispatcher.batch) \in Deliveries /\ Head(dispatcher.batch) = dispatcher.batch[1]
           /\ 1 \in 1..Len(dispatcher.batch)
           /\ Tail(dispatcher.batch) \in Seq(Nat)
           /\ \A k \in 1..Len(Tail(dispatcher.batch)) :
                k + 1 \in 1..Len(dispatcher.batch)
                /\ Tail(dispatcher.batch)[k] = dispatcher.batch[k + 1]
<1>1. dispatcher.batch \in Seq(Nat) /\ Len(dispatcher.batch) \in Nat \ {0}
  BY OutboxFacts
<1> QED
  BY <1>1, OutboxFacts

LEMMA SkipKeeps == ASSUME OutboxInv, SkipDelivery PROVE OutboxInv'
<1> USE OutboxFacts
<1> DEFINE i == Head(dispatcher.batch)
<1>1. /\ dispatcher.batch # <<>> /\ dispatcher.sending = 0 /\ UNCHANGED <<channel, paced>>
      /\ dispatcher' = [dispatcher EXCEPT !.batch = Tail(dispatcher.batch)]
      /\ outbox' = IF outbox[i].status # "sending" THEN outbox
                   ELSE [outbox EXCEPT ![i].status =
                           IF channel[outbox[i].channel] = "on" THEN "pending" ELSE "failed"]
  BY DEF SkipDelivery
<1>2. /\ dispatcher' \in Dispatchers /\ dispatcher'.sending = 0
      /\ dispatcher'.batch = Tail(dispatcher.batch)
  BY <1>1, BatchTail DEF Dispatchers
<1>3. i \in Deliveries
  BY <1>1, BatchTail
<1>4. PICK s \in {outbox[i].status, "pending", "failed"} :
        outbox' = [outbox EXCEPT ![i] = [outbox[i] EXCEPT !.status = s]]
  <2>1. CASE outbox[i].status # "sending"
    <3>1. outbox' = [outbox EXCEPT ![i] = [outbox[i] EXCEPT !.status = outbox[i].status]]
      <4>1. outbox[i] = [outbox[i] EXCEPT !.status = outbox[i].status]
        BY <1>3 DEF DeliveryRows
      <4>2. outbox = [outbox EXCEPT ![i] = outbox[i]]
        BY <1>3
      <4> QED
        BY <1>1, <2>1, <4>1, <4>2
    <3> QED
      BY <3>1
  <2>2. CASE outbox[i].status = "sending"
    BY <1>1, <1>3, <2>2
  <2> QED
    BY <2>1, <2>2
<1> DEFINE r == [outbox[i] EXCEPT !.status = s]
<1>5. /\ r \in DeliveryRows /\ r.status = s /\ r.attempts = outbox[i].attempts
      /\ r.received = outbox[i].received
  BY <1>3 DEF DeliveryRows, Outstanding, Finished
<1> HIDE DEF r
<1>6. /\ outbox' \in Seq(DeliveryRows) /\ Len(outbox') = Len(outbox)
      /\ Deliveries' = Deliveries /\ outbox'[i] = r
      /\ \A k \in Deliveries \ {i} : outbox'[k] = outbox[k]
  BY <1>3, <1>4, <1>5, OneRow DEF r
<1>7. OutboxTypes'
  BY <1>1, <1>2, <1>6, BatchTail DEF OutboxTypes
<1>8. SendingCounted'
  BY <1>2 DEF SendingCounted
<1>9. BatchHasAttempts'
  <2> SUFFICES ASSUME NEW k \in 1..Len(Tail(dispatcher.batch)),
                      outbox'[Tail(dispatcher.batch)[k]].status = "sending"
               PROVE  outbox'[Tail(dispatcher.batch)[k]].attempts < MaxAttempts
    BY <1>2 DEF BatchHasAttempts
  <2>1. /\ k + 1 \in 1..Len(dispatcher.batch)
        /\ Tail(dispatcher.batch)[k] = dispatcher.batch[k + 1]
        /\ dispatcher.batch[k + 1] \in Deliveries
    BY <1>1, BatchTail
  <2>2. outbox[dispatcher.batch[k + 1]].status = "sending"
    BY <1>5, <1>6, <2>1
  <2>3. outbox[dispatcher.batch[k + 1]].attempts < MaxAttempts
    <3>1. dispatcher.sending # dispatcher.batch[k + 1]
      BY <1>1, <2>1, SMTT(40)
    <3> QED
      BY <2>1, <2>2, <3>1 DEF BatchHasAttempts
  <2> QED
    BY <1>5, <1>6, <2>1, <2>3
<1>10. \A k \in Deliveries' : RowBound(outbox'[k])
  BY <1>3, <1>5, <1>6 DEF RowBound
<1> QED
  BY <1>7, <1>8, <1>9, <1>10 DEF OutboxInv

LEMMA SendKeeps == ASSUME OutboxInv, StartSending PROVE OutboxInv'
<1> USE OutboxFacts
<1> DEFINE i == Head(dispatcher.batch)
           r == [outbox[i] EXCEPT !.attempts = outbox[i].attempts + 1]
<1>1. /\ dispatcher.batch # <<>> /\ dispatcher.sending = 0 /\ UNCHANGED <<channel, paced>>
      /\ dispatcher' = [batch |-> Tail(dispatcher.batch), sending |-> i]
      /\ outbox' = [outbox EXCEPT ![i] = r] /\ outbox[i].status = "sending"
  BY DEF StartSending, Sendable
<1>2. /\ i \in Deliveries /\ i # 0 /\ i \in Nat /\ i = dispatcher.batch[1] /\ 1 \in 1..Len(dispatcher.batch)
  BY <1>1, BatchTail
<1>3. /\ dispatcher' \in Dispatchers /\ dispatcher'.sending = i
      /\ dispatcher'.batch = Tail(dispatcher.batch)
  BY <1>1, <1>2, BatchTail DEF Dispatchers
<1>4. outbox[i].attempts \in Nat /\ outbox[i].received \in Nat /\ outbox[i].attempts < MaxAttempts
      /\ outbox[i].received <= outbox[i].attempts
  BY <1>1, <1>2 DEF BatchHasAttempts, DeliveryRows, RowBound
<1>5. /\ r \in DeliveryRows /\ r.attempts = outbox[i].attempts + 1
      /\ r.received = outbox[i].received
  <2>1. outbox[i] \in DeliveryRows /\ outbox[i].attempts + 1 \in Nat
    BY <1>2, <1>4
  <2> QED
    BY <2>1 DEF DeliveryRows
<1> HIDE DEF r
<1>6. /\ outbox' \in Seq(DeliveryRows) /\ Len(outbox') = Len(outbox)
      /\ Deliveries' = Deliveries /\ outbox'[i] = r
      /\ \A k \in Deliveries \ {i} : outbox'[k] = outbox[k]
  BY <1>1, <1>2, <1>5, OneRow
<1>7. OutboxTypes'
  BY <1>1, <1>2, <1>3, <1>6, BatchTail DEF OutboxTypes
<1>8. SendingCounted'
  <2>1. outbox'[i].received < outbox'[i].attempts
    BY <1>4, <1>5, <1>6, SMTT(40)
  <2> QED
    BY <1>3, <2>1 DEF SendingCounted
<1>9. BatchHasAttempts'
  <2> SUFFICES ASSUME NEW k \in 1..Len(Tail(dispatcher.batch)),
                      outbox'[Tail(dispatcher.batch)[k]].status = "sending",
                      Tail(dispatcher.batch)[k] # i
               PROVE  outbox'[Tail(dispatcher.batch)[k]].attempts < MaxAttempts
    BY <1>3 DEF BatchHasAttempts
  <2>1. /\ k + 1 \in 1..Len(dispatcher.batch)
        /\ Tail(dispatcher.batch)[k] = dispatcher.batch[k + 1]
        /\ dispatcher.batch[k + 1] \in Deliveries
    BY <1>1, BatchTail
  <2>2. outbox'[dispatcher.batch[k + 1]] = outbox[dispatcher.batch[k + 1]]
    BY <1>6, <2>1
  <2>3. dispatcher.sending # dispatcher.batch[k + 1]
    BY <1>1, <2>1, SMTT(40)
  <2> QED
    BY <2>1, <2>2, <2>3 DEF BatchHasAttempts
<1>10. \A k \in Deliveries' : RowBound(outbox'[k])
  <2>1. r.received <= r.attempts /\ r.attempts <= MaxAttempts
    <3> HIDE DEF r
    <3> QED
      BY <1>4, <1>5, SMTT(40)
  <2>2. outbox'[i] = r
    BY <1>6
  <2>3. RowBound(outbox'[i])
    BY <2>1, <2>2 DEF RowBound
  <2>4. \A k \in Deliveries : RowBound(outbox'[k])
    BY <1>6, <2>3
  <2> QED
    BY <1>6, <2>4
<1> QED
  BY <1>7, <1>8, <1>9, <1>10 DEF OutboxInv

\* The end of a sending, recorded: a row that was retried is not sent again from this
\* batch.
LEMMA RecordKeeps == ASSUME OutboxInv, NEW o \in Outcomes, RecordOutcome(o) PROVE OutboxInv'
<1> DEFINE i == dispatcher.sending
           s == IF o.status = "pending" /\ outbox[i].attempts >= MaxAttempts
                THEN "failed" ELSE o.status
<1>0. /\ o.status \in {"sent", "failed", "pending"} /\ o.arrived \in {0, 1}
      /\ s \in {"sent", "failed", "pending"}
  BY DEF Outcomes
<1>1. /\ i # 0 /\ dispatcher' = [dispatcher EXCEPT !.sending = 0] /\ channel' = channel
      /\ IF outbox[i].status = "gone" THEN UNCHANGED <<outbox, paced>>
         ELSE /\ outbox' = [outbox EXCEPT ![i].status = s, ![i].received = @ + o.arrived]
              /\ paced' = IF o.status = "sent" THEN paced \union {outbox[i].channel} ELSE paced
  BY DEF RecordOutcome
<1>2. i \in Deliveries /\ outbox[i] \in DeliveryRows /\ outbox[i].channel \in Channels
  BY <1>1, OutboxFacts DEF DeliveryRows
<1>3. /\ dispatcher' \in Dispatchers /\ dispatcher'.sending = 0
      /\ dispatcher'.batch = dispatcher.batch
  BY <1>1, OutboxFacts DEF Dispatchers
<1>4. paced' \subseteq Channels
  BY <1>1, <1>2, OutboxFacts
<1> HIDE DEF s
<1>5. CASE outbox[i].status = "gone"
  <2>1. outbox' = outbox /\ Deliveries' = Deliveries
    BY <1>1, <1>5 DEF Deliveries
  <2>2. OutboxTypes'
    BY <1>1, <1>3, <1>4, <2>1, OutboxFacts DEF OutboxTypes
  <2>3. SendingCounted'
    BY <1>3 DEF SendingCounted
  <2>4. BatchHasAttempts'
    BY <1>3, <1>5, <2>1, OutboxFacts DEF BatchHasAttempts
  <2> QED
    BY <2>1, <2>2, <2>3, <2>4, OutboxFacts DEF OutboxInv
<1>6. CASE outbox[i].status # "gone"
  <2> DEFINE r == [outbox[i] EXCEPT !.status = s, !.received = outbox[i].received + o.arrived]
  <2>1. outbox' = [outbox EXCEPT ![i] = r]
    BY <1>1, <1>2, <1>6, OutboxFacts
  <2>2. /\ outbox[i].received \in Nat /\ outbox[i].attempts \in Nat
        /\ outbox[i].received + o.arrived \in Nat
    BY <1>0, <1>2 DEF DeliveryRows
  <2>3. /\ r \in DeliveryRows /\ r.status = s /\ r.attempts = outbox[i].attempts
        /\ r.received = outbox[i].received + o.arrived
    BY <1>0, <1>2, <2>2 DEF DeliveryRows, Outstanding, Finished
  <2>4. outbox[i].received < outbox[i].attempts /\ outbox[i].attempts <= MaxAttempts
    BY <1>1, <1>2, <1>6, OutboxFacts DEF SendingCounted, RowBound
  <2>5. RowBound(r)
    BY <1>0, <2>2, <2>3, <2>4 DEF RowBound
  <2> HIDE DEF r
  <2>6. /\ outbox' \in Seq(DeliveryRows) /\ Len(outbox') = Len(outbox)
        /\ Deliveries' = Deliveries /\ outbox'[i] = r
        /\ \A k \in Deliveries \ {i} : outbox'[k] = outbox[k]
    BY <1>2, <2>1, <2>3, OneRow
  <2>7. OutboxTypes'
    BY <1>1, <1>3, <1>4, <2>6, OutboxFacts DEF OutboxTypes
  <2>8. SendingCounted'
    BY <1>3 DEF SendingCounted
  <2>9. BatchHasAttempts'
    <3> SUFFICES ASSUME NEW k \in 1..Len(dispatcher.batch),
                        outbox'[dispatcher.batch[k]].status = "sending"
                 PROVE  outbox'[dispatcher.batch[k]].attempts < MaxAttempts
      BY <1>3 DEF BatchHasAttempts
    <3>1. dispatcher.batch[k] \in Deliveries /\ dispatcher.batch[k] # i
      BY <1>0, <2>3, <2>6, OutboxFacts
    <3> QED
      BY <2>6, <3>1, OutboxFacts DEF BatchHasAttempts
  <2>10. \A k \in Deliveries' : RowBound(outbox'[k])
    BY <2>5, <2>6, OutboxFacts
  <2> QED
    BY <2>7, <2>8, <2>9, <2>10 DEF OutboxInv
<1> QED
  BY <1>5, <1>6

\* Or not: the process died, perhaps after the message arrived.
LEMMA DiesKeeps == ASSUME OutboxInv, NEW a \in {0, 1}, DispatcherDies(a) PROVE OutboxInv'
<1> DEFINE i == dispatcher.sending
<1>1. /\ dispatcher' = [batch |-> <<>>, sending |-> 0] /\ UNCHANGED <<channel, paced>>
      /\ outbox' = IF i = 0 \/ outbox[i].status = "gone" THEN outbox
                   ELSE [outbox EXCEPT ![i].received = @ + a]
  BY DEF DispatcherDies
<1>2. /\ dispatcher' \in Dispatchers /\ dispatcher'.sending = 0 /\ Len(dispatcher'.batch) = 0
  BY <1>1 DEF Dispatchers
<1>3. SendingCounted' /\ BatchHasAttempts'
  BY <1>2 DEF SendingCounted, BatchHasAttempts
<1>4. CASE i = 0 \/ outbox[i].status = "gone"
  <2>1. outbox' = outbox /\ Deliveries' = Deliveries
    BY <1>1, <1>4 DEF Deliveries
  <2> QED
    BY <1>1, <1>2, <1>3, <2>1, OutboxFacts, SMTT(40) DEF OutboxInv, OutboxTypes
<1>5. CASE i # 0 /\ outbox[i].status # "gone"
  <2> DEFINE r == [outbox[i] EXCEPT !.received = outbox[i].received + a]
  <2>1. i \in Deliveries /\ outbox[i] \in DeliveryRows
    BY <1>5, OutboxFacts
  <2>2. outbox' = [outbox EXCEPT ![i] = r]
    BY <1>1, <1>5, <2>1, OutboxFacts
  <2>3. /\ outbox[i].received \in Nat /\ outbox[i].attempts \in Nat /\ outbox[i].received + a \in Nat
    BY <2>1 DEF DeliveryRows
  <2>4. /\ r \in DeliveryRows /\ r.attempts = outbox[i].attempts
        /\ r.received = outbox[i].received + a
    BY <2>1, <2>3 DEF DeliveryRows
  <2>5. RowBound(r)
    BY <1>5, <2>1, <2>3, <2>4, OutboxFacts DEF SendingCounted, RowBound
  <2> HIDE DEF r
  <2>6. /\ outbox' \in Seq(DeliveryRows) /\ Len(outbox') = Len(outbox)
        /\ Deliveries' = Deliveries /\ outbox'[i] = r
        /\ \A k \in Deliveries \ {i} : outbox'[k] = outbox[k]
    BY <2>1, <2>2, <2>4, OneRow
  <2>7. OutboxTypes'
    BY <1>1, <1>2, <2>6, OutboxFacts DEF OutboxTypes
  <2>8. \A k \in Deliveries' : RowBound(outbox'[k])
    BY <2>5, <2>6, OutboxFacts
  <2> QED
    BY <1>3, <2>7, <2>8 DEF OutboxInv
<1> QED
  BY <1>4, <1>5

-----------------------------------------------------------------------------
(* Alerts, and all of the notices together.                                *)

LEMMA ToldValues == /\ told \in {"none", "resolved"} => Told("offline") = "offline"
                    /\ told = "offline" => Told("resolved") = "resolved"
BY DEF Told

LEMMA NoticeKeeps == ASSUME NoticeInv, [NoticeNext]_noticeVars PROVE NoticeInv'
<1>0. OutboxInv /\ AlertInv
  BY DEF NoticeInv
<1> USE DEF AlertInv
<1>1. CASE ChannelNext
  <2>1. UNCHANGED <<worker, alert, sawSilent, lastRun, told>>
    BY <1>1 DEF ChannelNext, DeleteChannel, CreateChannel, UpdateChannel, TestChannel
  <2> QED
    BY <1>0, <1>1, <2>1, ChannelKeeps DEF NoticeInv
<1>2. CASE WorkerFallsSilent \/ WorkerReportsUnnoticed
  <2>1. /\ UNCHANGED <<channel, paced, outbox, dispatcher, alert, sawSilent, lastRun, told>>
        /\ worker' \in {"silent", "fresh"}
    BY <1>2 DEF WorkerFallsSilent, WorkerReportsUnnoticed
  <2> QED
    BY <1>0, <2>1, EmitKeeps DEF NoticeInv
<1>3. CASE WorkerReports
  <2>1. /\ UNCHANGED <<channel, paced, dispatcher, sawSilent, lastRun>> /\ worker' = "fresh"
        /\ ~alert' /\ alert' \in BOOLEAN
        /\ IF alert THEN Emit("resolved") /\ told' = Told("resolved") ELSE UNCHANGED <<outbox, told>>
    BY <1>3 DEF WorkerReports
  <2>2. told' \in {"none", "resolved"}
    BY <1>0, <2>1, ToldValues
  <2>3. AlertInv'
    BY <1>0, <2>1, <2>2
  <2>4. OutboxInv'
    BY <1>0, <2>1, EmitKeeps
  <2> QED
    BY <2>3, <2>4 DEF NoticeInv
<1>4. CASE ReaperLooks
  <2>1. /\ UNCHANGED <<channel, paced, outbox, dispatcher, worker, alert, lastRun, told>>
        /\ sawSilent' \in BOOLEAN
    BY <1>4 DEF ReaperLooks
  <2> QED
    BY <1>0, <2>1, EmitKeeps DEF NoticeInv
<1>5. CASE ReaperRaises
  <2>1. /\ UNCHANGED <<channel, paced, dispatcher, worker, lastRun>> /\ sawSilent' \in BOOLEAN
        /\ alert' /\ alert' \in BOOLEAN
        /\ IF alert THEN UNCHANGED <<outbox, told>> ELSE Emit("offline") /\ told' = Told("offline")
    BY <1>5 DEF ReaperRaises
  <2>2. told' = "offline"
    BY <1>0, <2>1, ToldValues
  <2>3. AlertInv'
    BY <1>0, <2>1, <2>2
  <2>4. OutboxInv'
    BY <1>0, <2>1, EmitKeeps
  <2> QED
    BY <2>3, <2>4 DEF NoticeInv
<1>6. CASE ForgetWorker
  <2>1. /\ UNCHANGED <<channel, paced, outbox, dispatcher, sawSilent, lastRun>>
        /\ worker' = "forgotten" /\ ~alert' /\ alert' \in BOOLEAN /\ told' = "none"
    BY <1>6 DEF ForgetWorker
  <2> QED
    BY <1>0, <2>1, EmitKeeps DEF NoticeInv
<1>7. ASSUME NEW st \in {"success", "failed"}, RunFinished(st) PROVE NoticeInv'
  <2>1. /\ UNCHANGED <<channel, paced, dispatcher, worker, alert, sawSilent, told>>
        /\ lastRun' = st
        /\ UNCHANGED outbox \/ Emit("run_failed") \/ Emit("run_recovered")
    BY <1>7 DEF RunFinished
  <2> QED
    BY <1>0, <2>1, EmitKeeps DEF NoticeInv
<1>8. CASE AttackSeen
  <2>1. UNCHANGED <<channel, paced, dispatcher, worker, alert, sawSilent, lastRun, told>>
        /\ Emit("attack")
    BY <1>8 DEF AttackSeen
  <2> QED
    BY <1>0, <2>1, EmitKeeps DEF NoticeInv
<1>9. CASE \/ ClaimBatch \/ SkipDelivery \/ StartSending
           \/ \E o \in Outcomes : RecordOutcome(o)
           \/ \E a \in {0, 1} : DispatcherDies(a)
  <2>1. UNCHANGED <<worker, alert, sawSilent, lastRun, told>>
    BY <1>9 DEF ClaimBatch, SkipDelivery, StartSending, RecordOutcome, DispatcherDies
  <2>2. OutboxInv'
    BY <1>0, <1>9, ClaimBatchKeeps, SkipKeeps, SendKeeps, RecordKeeps, DiesKeeps
  <2> QED
    BY <1>0, <2>1, <2>2, SMTT(40) DEF NoticeInv
<1>10. CASE \/ \E i \in Deliveries : BecomesDue(i) \/ PruneDelivery(i)
            \/ \E c \in Channels : PacingPasses(c)
  <2>1. UNCHANGED <<worker, alert, sawSilent, lastRun, told>>
    BY <1>10 DEF BecomesDue, PruneDelivery, PacingPasses
  <2> QED
    BY <1>0, <1>10, <2>1, TimeKeeps DEF NoticeInv
<1>11. CASE UNCHANGED noticeVars
  BY <1>0, <1>11, EmitKeeps DEF noticeVars, NoticeInv
<1> QED
  BY <1>1, <1>2, <1>3, <1>4, <1>5, <1>6, <1>7, <1>8, <1>9, <1>10, <1>11
     DEF NoticeNext, AlertNext, OutboxNext
-----------------------------------------------------------------------------
(* Wake-ups: the two invariants are inductive together.  That whoever has  *)
(* looked is among the listeners is what makes a notify reach it.          *)

Kept == WakeTypes /\ NoWakeUpLost

LEMMA KeptAtFirst == WakeInit => Kept
BY WakeUpConstants DEF WakeInit, Kept, WakeTypes, NoWakeUpLost, AtRest

LEMMA KeptByWriters ==
  ASSUME Kept, NEW w \in Writers, CommitChange(w) \/ Notify(w) \/ NotifyDone(w)
  PROVE  Kept'
<1> USE WakeUpConstants DEF Kept, WakeTypes, NoWakeUpLost, AtRest
<1>1. CASE CommitChange(w) BY <1>1 DEF CommitChange
<1>2. CASE Notify(w) BY <1>2 DEF Notify
<1>3. CASE NotifyDone(w) BY <1>3 DEF NotifyDone
<1> QED BY <1>1, <1>2, <1>3

LEMMA KeptByWaking ==
  ASSUME Kept, NEW l \in Waiters, SetEvent(l) \/ \E w \in Writers : Wake(w, l)
  PROVE  Kept'
<1> USE WakeUpConstants DEF Kept, WakeTypes, NoWakeUpLost, AtRest
<1>1. CASE SetEvent(l) BY <1>1 DEF SetEvent
<1>2. ASSUME NEW w \in Writers, Wake(w, l) PROVE Kept' BY <1>2 DEF Wake
<1> QED BY <1>1, <1>2

LEMMA KeptByWaiters ==
  ASSUME Kept, NEW l \in Waiters,
         Listen(l) \/ Look(l) \/ LookAgain(l) \/ Wait(l) \/ Woken(l) \/ TimesOut(l) \/ StopListening(l)
  PROVE  Kept'
<1> USE WakeUpConstants DEF Kept, WakeTypes, NoWakeUpLost, AtRest
<1>1. CASE Listen(l) BY <1>1 DEF Listen
<1>2. CASE Look(l) BY <1>2 DEF Look
<1>3. CASE LookAgain(l) BY <1>3 DEF LookAgain
<1>4. CASE Wait(l) BY <1>4 DEF Wait
<1>5. CASE Woken(l) BY <1>5 DEF Woken
<1>6. CASE TimesOut(l) BY <1>6 DEF TimesOut
<1>7. CASE StopListening(l) BY <1>7 DEF StopListening
<1> QED BY <1>1, <1>2, <1>3, <1>4, <1>5, <1>6, <1>7

LEMMA KeptByEveryStep == Kept /\ [WakeNext]_wakeVars => Kept'
<1> SUFFICES ASSUME Kept, [WakeNext]_wakeVars PROVE Kept'
    OBVIOUS
<1>1. CASE WakeNext BY <1>1, KeptByWriters, KeptByWaking, KeptByWaiters DEF WakeNext
<1>2. CASE UNCHANGED wakeVars BY <1>2 DEF wakeVars, Kept, WakeTypes, NoWakeUpLost
<1> QED BY <1>1, <1>2

\* Every listener that has looked and not seen all that is committed will be woken
\* without its timeout, whichever threads notify (notify.py).
THEOREM WakeUpsAreKept == WakeSpec => []NoWakeUpLost
<1>1. WakeSpec => []Kept BY KeptAtFirst, KeptByEveryStep, PTL DEF WakeSpec
<1>2. Kept => NoWakeUpLost BY DEF Kept
<1> QED BY <1>1, <1>2, PTL

-----------------------------------------------------------------------------
(* The components together.                                                *)

WorkInv == /\ SlotInv /\ ProcessInv /\ FilterInv /\ InstallInv
           /\ CheckInv /\ NoticeInv /\ TokenInv /\ Kept

workVars == <<component, slotVars, processVars, egressVars, vars,
              checkVars, noticeVars, tokenVars, wakeVars>>

\* A step of the composition is a step of each component, or none of it.
LEMMA EachSteps ==
    ASSUME [MCNext]_workVars
    PROVE  /\ [SlotNext]_slotVars /\ [ProcessNext]_processVars /\ [EgressNext]_egressVars
           /\ [Next]_vars /\ [CheckNext]_checkVars /\ [NoticeNext]_noticeVars
           /\ [TokenNext]_tokenVars /\ [WakeNext]_wakeVars
<1>1. CASE MCNext
  <2>1. /\ [SlotNext]_slotVars /\ [ProcessNext]_processVars /\ [EgressNext]_egressVars
        /\ [Next]_vars /\ [CheckNext]_checkVars /\ [TokenNext]_tokenVars /\ [WakeNext]_wakeVars
    BY <1>1 DEF MCNext
  <2>2. AlertNext \/ OutboxNext \/ UNCHANGED noticeVars
    BY <1>1 DEF MCNext
  <2> QED
    BY <2>1, <2>2 DEF NoticeNext
<1>2. CASE UNCHANGED workVars
  BY <1>2 DEF workVars
<1> QED
  BY <1>1, <1>2

LEMMA WorkInvariant == WorkSpec => []WorkInv
<1>1. MCInit => WorkInv
  BY SlotStart, ProcessStart, FilterStart, InitInv, CheckStart, NoticeStart, TokenStart, KeptAtFirst
     DEF MCInit, WorkInv
<1>2. WorkInv /\ [MCNext]_workVars => WorkInv'
  <2> SUFFICES ASSUME WorkInv, [MCNext]_workVars PROVE WorkInv'
    OBVIOUS
  <2>1. SlotInv' /\ ProcessInv' /\ FilterInv'
    BY EachSteps, SlotKeeps, ProcessKeeps, FilterStep DEF WorkInv
  <2>2. InstallInv' /\ Kept'
    BY EachSteps, StepInv, KeptByEveryStep DEF WorkInv
  <2>3. CheckInv' /\ NoticeInv' /\ TokenInv'
    BY EachSteps, CheckKeeps, NoticeKeeps, TokenKeeps DEF WorkInv
  <2> QED
    BY <2>1, <2>2, <2>3 DEF WorkInv
<1> QED
  BY <1>1, <1>2, PTL DEF WorkSpec, workVars

LEMMA NoticesTyped == ASSUME NoticeInv PROVE NoticeTypes
<1>1. /\ channel \in [Channels -> {"on", "off", "gone"}] /\ paced \subseteq Channels
      /\ Len(outbox) <= MaxDeliveries /\ \A i \in Deliveries : outbox[i] \in DeliveryRows
      /\ dispatcher.sending \in {0} \union Deliveries
  BY OutboxFacts DEF NoticeInv
<1>2. dispatcher.batch \in Seq(Deliveries)
  <2>1. /\ dispatcher.batch \in Seq(Nat)
        /\ \A k \in 1..Len(dispatcher.batch) : dispatcher.batch[k] \in Deliveries
    BY OutboxFacts DEF NoticeInv
  <2>2. Len(dispatcher.batch) \in Nat /\ dispatcher.batch \in [1..Len(dispatcher.batch) -> Deliveries]
    BY <2>1
  <2> QED
    BY <2>2, FunctionIsSeq
<1>3. {alert, sawSilent} \subseteq BOOLEAN
  BY DEF NoticeInv, AlertInv
<1>4. /\ worker \in {"fresh", "silent", "forgotten"} /\ lastRun \in {"success", "failed"}
      /\ told \in {"none", "offline", "resolved", "repeated"}
  BY DEF NoticeInv, AlertInv
<1> QED
  BY <1>1, <1>2, <1>3, <1>4 DEF NoticeTypes, DeliveryRows

LEMMA TokensTyped == ASSUME TokenInv PROVE TokenTypes
<1>1. {0, 1} = 0..1
  OBVIOUS
<1>2. call \in [Threads -> [at : {"idle", "login", "child", "send", "ok"} \union Failures,
                             kind : {"none", "project", "probe"}, attempt : 0..1,
                             token : {0} \union Tokens, killed : BOOLEAN]]
  BY <1>1 DEF TokenInv, TokenCalls
<1>3. aged \in BOOLEAN
  BY DEF TokenInv
<1> QED
  BY <1>2, <1>3 DEF TokenInv, TokenTypes

\* Whichever component runs, for any number of slots, messages, installs, checks,
\* channels, deliveries, threads and listeners, its state keeps its types.
THEOREM WorkIsTyped == WorkSpec => []WorkTypes
<1>1. WorkInv => WorkTypes
  <2> SUFFICES ASSUME WorkInv PROVE WorkTypes
    OBVIOUS
  <2>1. SlotTypes /\ ProcessTypes /\ EgressTypes /\ TypeOK
    BY ProcessTyped DEF WorkInv, SlotInv, FilterInv, Filters, EgressTypes, InstallInv
  <2>2. CheckTypes /\ WakeTypes
    BY DEF WorkInv, CheckInv, CheckRows, CheckTypes, Kept
  <2>3. TokenTypes /\ NoticeTypes
    BY TokensTyped, NoticesTyped DEF WorkInv
  <2> QED
    BY <2>1, <2>2, <2>3 DEF WorkTypes
<1> QED
  BY <1>1, WorkInvariant, PTL

\* A delivery is never sent more often than its attempts, never past the limit, through
\* crashes of the dispatcher at any step; alerts and all-clears of a worker alternate;
\* and nobody who waits sleeps through a change.
THEOREM NoticesAlwaysReach == WorkSpec => []NoticesReach
<1>1. WorkInv => NoticesReach
  BY DEF WorkInv, NoticeInv, OutboxInv, RowBound, AlertInv, NoticesReach, NoticesSound,
         AttemptsBounded, AlertsAlternate, Kept
<1> QED
  BY <1>1, WorkInvariant, PTL

\* A request is answered "denied" only when a token that was in use died meanwhile: the
\* one retry (with_token) is enough for every token that only aged or was cached dead.
THEOREM DenialsStayReal == WorkSpec => []DenialsAreReal
<1>1. WorkInv => DenialsAreReal
  BY DEF WorkInv, TokenInv, SecondTry, DenialsAreReal
<1> QED
  BY <1>1, WorkInvariant, PTL

\* However many ask, whatever dies and in whatever order answers come: one check of a
\* person waits, one runs, no more than the limit run, and a recorded outcome stays.
THEOREM ChecksStaySound == WorkSpec => ChecksSound
<1>1. WorkInv => ChecksWithinBounds
  BY CheckBounds DEF WorkInv
<1>2. WorkInv /\ [MCNext]_workVars => [Recorded]_checkVars
  BY EachSteps, CheckKeeps DEF WorkInv
<1>3. [Recorded]_checkVars <=> [\A c \in CheckIds : check[c].status \in Over =>
                check'[c].status \in {check[c].status, "pruned"}]_checkVars
  BY DEF Recorded
<1> QED
  BY <1>1, <1>2, <1>3, WorkInvariant, PTL DEF ChecksSound, OutcomesStay, WorkSpec, workVars
=============================================================================
