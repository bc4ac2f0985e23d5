------------------------------ MODULE WakeUps ------------------------------
(***************************************************************************)
(* The in-process wake-ups of one topic (notify.py): whoever commits a     *)
(* change notifies afterwards, from any thread; whoever waits listens      *)
(* first, reads the source of truth and sleeps on its own event loop until *)
(* woken or timed out.  The long-polled claims, the viewers of a log, the  *)
(* dispatcher of notifications and the loop of git syncs all wait so.      *)
(***************************************************************************)
EXTENDS Naturals

CONSTANTS
    Waiters,    \* one Listener each, while they listen
    Writers,    \* threads that commit and notify
    MaxCommits  \* bound: changes committed

ASSUME WakeUpConstants == MaxCommits \in Nat

VARIABLES
    committed,  \* changes of the topic's data committed so far
    writer,     \* each writer: what it does, and whom it has still to wake
    listeners,  \* _listeners of the topic
    wakes,      \* listeners with event.set queued by call_soon_threadsafe
    event,      \* listeners whose event is set
    waiter,     \* each waiter: "away", "looking", "looked" or "asleep"
    seen        \* the changes its last look saw

wakeVars == <<committed, writer, listeners, wakes, event, waiter, seen>>

AtRest == [at |-> "rest", wake |-> {}]

WakeInit ==
    /\ committed = 0 /\ writer = [w \in Writers |-> AtRest]
    /\ listeners = {} /\ wakes = {} /\ event = {}
    /\ waiter = [l \in Waiters |-> "away"] /\ seen = [l \in Waiters |-> 0]

\* Mutant: the topic is notified before the change is committed.
NotifyFirst(w) ==
    /\ committed < MaxCommits
    /\ \/ /\ writer[w] = AtRest /\ UNCHANGED committed
          /\ writer' = [writer EXCEPT ![w] = [at |-> "waking", wake |-> listeners]]
       \/ /\ writer[w] = [at |-> "waking", wake |-> {}] /\ committed' = committed + 1
          /\ writer' = [writer EXCEPT ![w] = AtRest]
    /\ UNCHANGED <<listeners, wakes, event, waiter, seen>>

\* The handler, the reaper or a thread commits; it has yet to notify.
CommitChange(w) ==
    /\ writer[w] = AtRest /\ committed < MaxCommits
    /\ committed' = committed + 1
    /\ writer' = [writer EXCEPT ![w].at = "committed"]
    /\ UNCHANGED <<listeners, wakes, event, waiter, seen>>

\* notify: the list of listeners, under the lock ...
Notify(w) ==
    /\ writer[w].at = "committed"
    /\ writer' = [writer EXCEPT ![w] = [at |-> "waking", wake |-> listeners]]
    /\ UNCHANGED <<committed, listeners, wakes, event, waiter, seen>>

\* ... each woken on its own loop ...
Wake(w, l) ==
    /\ l \in writer[w].wake
    /\ writer' = [writer EXCEPT ![w].wake = @ \ {l}]
    /\ wakes' = wakes \union {l}
    /\ UNCHANGED <<committed, listeners, event, waiter, seen>>

NotifyDone(w) ==
    /\ writer[w] = [at |-> "waking", wake |-> {}]
    /\ writer' = [writer EXCEPT ![w] = AtRest]
    /\ UNCHANGED <<committed, listeners, wakes, event, waiter, seen>>

\* ... which sets the event when it gets to it.
SetEvent(l) ==
    /\ l \in wakes
    /\ wakes' = wakes \ {l} /\ event' = event \union {l}
    /\ UNCHANGED <<committed, writer, listeners, waiter, seen>>

\* A new Listener, before the first look.
Listen(l) ==
    /\ waiter[l] = "away"
    /\ waiter' = [waiter EXCEPT ![l] = "looking"] /\ listeners' = listeners \union {l}
    /\ UNCHANGED <<committed, writer, wakes, event, seen>>

\* A claim, a read of the log, a batch, the due sources: what is committed now.
Look(l) ==
    /\ waiter[l] = "looking"
    /\ waiter' = [waiter EXCEPT ![l] = "looked"] /\ seen' = [seen EXCEPT ![l] = committed]
    /\ UNCHANGED <<committed, writer, listeners, wakes, event>>

\* There was something: look again at once (lines of the log, a full batch).
LookAgain(l) ==
    /\ waiter[l] = "looked" /\ waiter' = [waiter EXCEPT ![l] = "looking"]
    /\ UNCHANGED <<committed, writer, listeners, wakes, event, seen>>

\* Mutant: the event is cleared before the wait instead of after it.
ClearThenWait(l) ==
    /\ waiter[l] = "looked" /\ waiter' = [waiter EXCEPT ![l] = "asleep"]
    /\ event' = event \ {l}
    /\ UNCHANGED <<committed, writer, listeners, wakes, seen>>

\* There was nothing: wait.
Wait(l) ==
    /\ waiter[l] = "looked" /\ waiter' = [waiter EXCEPT ![l] = "asleep"]
    /\ UNCHANGED <<committed, writer, listeners, wakes, event, seen>>

\* wait returns True and clears the event ...
Woken(l) ==
    /\ waiter[l] = "asleep" /\ l \in event
    /\ event' = event \ {l} /\ waiter' = [waiter EXCEPT ![l] = "looking"]
    /\ UNCHANGED <<committed, writer, listeners, wakes, seen>>

\* ... or False, the event as it is.
TimesOut(l) ==
    /\ waiter[l] = "asleep" /\ waiter' = [waiter EXCEPT ![l] = "looking"]
    /\ UNCHANGED <<committed, writer, listeners, wakes, event, seen>>

\* Claimed, finished or disconnected: its Listener is forgotten, wake-ups under way
\* reach nobody.
StopListening(l) ==
    /\ waiter[l] # "away" /\ waiter' = [waiter EXCEPT ![l] = "away"]
    /\ listeners' = listeners \ {l} /\ wakes' = wakes \ {l} /\ event' = event \ {l}
    /\ writer' = [w \in Writers |-> [writer[w] EXCEPT !.wake = @ \ {l}]]
    /\ UNCHANGED <<committed, seen>>

WakeNext ==
    \/ \E w \in Writers :
         CommitChange(w) \/ Notify(w) \/ NotifyDone(w) \/ \E l \in Waiters : Wake(w, l)
    \/ \E l \in Waiters :
         \/ SetEvent(l) \/ Listen(l) \/ Look(l) \/ LookAgain(l) \/ Wait(l)
         \/ Woken(l) \/ TimesOut(l) \/ StopListening(l)

WakeSpec == WakeInit /\ [][WakeNext]_wakeVars

\* A topic's listeners, the wake-ups on their way and what was seen.
WakeTypes ==
    /\ committed \in 0..MaxCommits
    /\ writer \in [Writers -> [at : {"rest", "committed", "waking"}, wake : SUBSET listeners]]
    /\ wakes \union event \subseteq listeners /\ listeners \subseteq Waiters
    /\ waiter \in [Waiters -> {"away", "looking", "looked", "asleep"}]
    /\ seen \in [Waiters -> 0..MaxCommits]
    /\ \A l \in Waiters : waiter[l] = "away" <=> l \notin listeners

\* No wake-up is lost: whoever sleeps, or is about to, with a committed change it has not
\* seen will be woken, without its timeout - by its event, by one on its way, or by a
\* writer that has yet to notify.
NoWakeUpLost ==
    \A l \in Waiters : waiter[l] \in {"looked", "asleep"} /\ seen[l] # committed =>
        \/ l \in event \union wakes
        \/ \E w \in Writers : writer[w].at = "committed" \/ l \in writer[w].wake
=============================================================================
