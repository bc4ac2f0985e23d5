---------------------------- MODULE StoreTokens ----------------------------
(***************************************************************************)
(* The secret store client's login (AppRole): one token, cached under a    *)
(* lock and shared by the threads that build jobs, sync git, move secrets  *)
(* and probe.  A token dies at the store at any moment, and a denial looks *)
(* the same: the thread forgets the token and logs in once more.  With a   *)
(* project policy, each request goes out under a child token of one use.   *)
(* The store (external) issues, revokes and checks tokens.                 *)
(***************************************************************************)
EXTENDS Integers, FiniteSets

CONSTANTS
    Threads,
    ProjectPolicy,  \* SECRETS_STORE_PROJECT_POLICY is set
    MaxTokens       \* bound: tokens the store issues

ASSUME StoreTokensAssumption ==
    IsFiniteSet(Threads) /\ ProjectPolicy \in BOOLEAN /\ MaxTokens \in Nat

VARIABLES
    cached,     \* _token (0: none)
    aged,       \* two thirds of its life are gone: refresh_at is past
    alive,      \* tokens the store accepts
    issued,     \* how many it has issued
    children,   \* unused child tokens, each with the thread it is for
    call        \* each thread's request

tokenVars == <<cached, aged, alive, issued, children, call>>

Tokens == 1..MaxTokens
Failures == {"denied", "unreachable", "auth_failed"}
\* killed: a token died since this request was first refused.
NoCall == [at |-> "idle", kind |-> "none", attempt |-> 0, token |-> 0, killed |-> FALSE]

\* Tokens, children and the threads' requests.
TokenTypes ==
    /\ cached \in {0} \union Tokens /\ aged \in BOOLEAN
    /\ alive \subseteq Tokens /\ issued \in {0} \union Tokens
    /\ children \subseteq Threads
    /\ call \in [Threads -> [at : {"idle", "login", "child", "send", "ok"} \union Failures,
                             kind : {"none", "project", "probe"}, attempt : 0..1,
                             token : {0} \union Tokens, killed : BOOLEAN]]
    /\ cached <= issued

TokenInit ==
    /\ cached = 0 /\ aged = FALSE /\ alive = {} /\ issued = 0 /\ children = {}
    /\ call = [t \in Threads |-> NoCall]

\* A read, a write or a signature for a project, or the probe's health check.
StartCall(t, kind) ==
    /\ call[t].at \in {"idle", "ok"} \union Failures
    /\ call' = [call EXCEPT ![t] = [NoCall EXCEPT !.at = "login", !.kind = kind]]
    /\ UNCHANGED <<cached, aged, alive, issued, children>>

\* What follows a token: a project's request takes a child first where a policy is set.
AfterLogin(c, token) ==
    [c EXCEPT !.token = token,
              !.at = IF c.kind = "project" /\ ProjectPolicy THEN "child" ELSE "send"]

\* token(): the cached one until two thirds of its life are gone ...
UseCached(t) ==
    /\ call[t].at = "login" /\ cached # 0 /\ ~aged
    /\ call' = [call EXCEPT ![t] = AfterLogin(call[t], cached)]
    /\ UNCHANGED <<cached, aged, alive, issued, children>>

\* ... else a login, with the lock held.
ApproleLogin(t) ==
    /\ call[t].at = "login" /\ (cached = 0 \/ aged) /\ issued < MaxTokens
    /\ issued' = issued + 1 /\ alive' = alive \union {issued + 1}
    /\ cached' = issued + 1 /\ aged' = FALSE
    /\ call' = [call EXCEPT ![t] = AfterLogin(call[t], issued + 1)]
    /\ UNCHANGED children

\* The store refuses the secret id, its file can't be read, or nothing answers in time.
LoginFails(t, kind) ==
    /\ call[t].at = "login" /\ (cached = 0 \/ aged) /\ kind \in {"auth_failed", "unreachable"}
    /\ call' = [call EXCEPT ![t].at = kind]
    /\ UNCHANGED <<cached, aged, alive, issued, children>>

\* No answer to a request (a refused connection was tried twice), or the deadline passed.
NoAnswer(t) ==
    /\ call[t].at \in {"child", "send"}
    /\ call' = [call EXCEPT ![t].at = "unreachable"]
    /\ children' = children \ {t}
    /\ UNCHANGED <<cached, aged, alive, issued>>

\* A child token for this request and project; the parent may be refused.
ChildToken(t) ==
    /\ call[t].at = "child" /\ call[t].token \in alive
    /\ children' = children \union {t}
    /\ call' = [call EXCEPT ![t].at = "send"]
    /\ UNCHANGED <<cached, aged, alive, issued>>

\* What the store checks when a request arrives: the token is alive; a child's one use.
StoreAccepts(t) ==
    IF call[t].kind = "project" /\ ProjectPolicy THEN t \in children ELSE call[t].token \in alive

Answered(t) ==
    /\ call[t].at = "send" /\ StoreAccepts(t)
    /\ call' = [call EXCEPT ![t].at = "ok"]
    /\ children' = children \ {t}
    /\ UNCHANGED <<cached, aged, alive, issued>>

\* Mutant: tried again with the token that was refused.
RetryCached(t) ==
    /\ call' = [call EXCEPT ![t] = [@ EXCEPT !.at = "login", !.attempt = 1, !.killed = FALSE]]
    /\ UNCHANGED <<cached, aged>>

\* Mutant: nor is the try counted.
RetryUncounted(t) ==
    /\ call' = [call EXCEPT ![t].at = "login"]
    /\ UNCHANGED <<cached, aged>>

\* The refused token is forgotten, whichever is cached by now, and one more login made.
LogInOnceMore(t) ==
    /\ call' = [call EXCEPT ![t] = [@ EXCEPT !.at = "login", !.attempt = 1, !.killed = FALSE]]
    /\ cached' = 0 /\ aged' = FALSE

\* A 403: the first is taken for a dead token, the second is final.
Refused(t) ==
    /\ \/ call[t].at = "child" /\ call[t].token \notin alive
       \/ call[t].at = "send" /\ ~StoreAccepts(t)
    /\ \/ call[t].attempt = 0 /\ LogInOnceMore(t)
       \/ /\ call[t].attempt = 1
          /\ call' = [call EXCEPT ![t].at = IF call[t].kind = "probe" THEN "auth_failed"
                                                                     ELSE "denied"]
          /\ UNCHANGED <<cached, aged>>
    /\ UNCHANGED <<alive, issued, children>>

\* The cached token passes two thirds of its life.
TokenAges ==
    /\ cached # 0 /\ ~aged /\ aged' = TRUE
    /\ UNCHANGED <<cached, alive, issued, children, call>>

\* The store ends a token (revoked, or expired): its children end with it.
TokenDies(k) ==
    /\ k \in alive /\ alive' = alive \ {k}
    /\ children' = {t \in children : call[t].token # k}
    /\ call' = [t \in Threads |-> [call[t] EXCEPT !.killed = call[t].attempt = 1]]
    /\ UNCHANGED <<cached, aged, issued>>

TokenStep(t) ==
    \/ UseCached(t) \/ ApproleLogin(t) \/ NoAnswer(t) \/ ChildToken(t) \/ Answered(t) \/ Refused(t)
    \/ \E kind \in {"auth_failed", "unreachable"} : LoginFails(t, kind)

TokenNext ==
    \/ \E t \in Threads : TokenStep(t) \/ \E kind \in {"project", "probe"} : StartCall(t, kind)
    \/ TokenAges \/ \E k \in Tokens : TokenDies(k)

-----------------------------------------------------------------------------
\* Every request ends: a refused one is tried once more, not for ever.
TokenFairness == \A t \in Threads : WF_tokenVars(TokenStep(t))

\* A request the store's policy allows is refused only when a token died after the
\* refusal that made it log in again: whatever the threads that share the cache forget
\* or replace meanwhile, its second try goes out under a token issued since.
DenialsAreReal ==
    \A t \in Threads : call[t].at = "denied" => call[t].killed

\* Every request ends, with an answer or an error.
CallsEnd ==
    TokenFairness =>
        \A t \in Threads : call[t].at = "login" ~> call[t].at \in {"ok"} \union Failures
=============================================================================
