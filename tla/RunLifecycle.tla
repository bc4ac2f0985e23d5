---------------------------- MODULE RunLifecycle ----------------------------
(***************************************************************************)
(* What the run queue promises, without workers, tokens, leases, locks or  *)
(* the secret store: an inventory is held by at most one run at a time, a  *)
(* run that holds it may give it back only before its job was handed out,  *)
(* its job is handed out at most once, and an ended run stays ended.       *)
(***************************************************************************)
CONSTANTS Runs, Inventories, NoRun, InventoryOf

VARIABLES phase, holder, gone
vars == <<phase, holder, gone>>

Phases == {"new", "waiting", "claimed", "started", "ended"}

Init == /\ phase = [r \in Runs |-> "new"]
        /\ holder = [i \in Inventories |-> NoRun]
        /\ gone = {}

Move(r, from, to) == phase[r] = from /\ phase' = [phase EXCEPT ![r] = to]

Submit(r) == Move(r, "new", "waiting") /\ UNCHANGED <<holder, gone>>

Claim(r) == /\ Move(r, "waiting", "claimed")
            /\ InventoryOf[r] \notin gone /\ holder[InventoryOf[r]] = NoRun
            /\ holder' = [holder EXCEPT ![InventoryOf[r]] = r]
            /\ UNCHANGED gone

Release(r) == holder' = [i \in Inventories |-> IF holder[i] = r THEN NoRun ELSE holder[i]]

GiveBack(r) == Move(r, "claimed", "waiting") /\ Release(r) /\ UNCHANGED gone

Start(r) == Move(r, "claimed", "started") /\ UNCHANGED <<holder, gone>>

End(r) == /\ phase[r] \in {"waiting", "claimed", "started"}
          /\ phase' = [phase EXCEPT ![r] = "ended"]
          /\ Release(r) /\ UNCHANGED gone

\* An inventory that is deleted is held by nobody, and never again.
Remove(i) == /\ gone' = gone \union {i}
             /\ holder' = [holder EXCEPT ![i] = NoRun]
             /\ UNCHANGED phase

Next == \/ \E r \in Runs : Submit(r) \/ Claim(r) \/ GiveBack(r) \/ Start(r) \/ End(r)
        \/ \E i \in Inventories : Remove(i)

Spec == Init /\ [][Next]_vars
=============================================================================
