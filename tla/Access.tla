------------------------------- MODULE Access -------------------------------
(***************************************************************************)
(* Who may do what: users and their global roles, the members of a         *)
(* project, and the project's API keys, which act for the person who made  *)
(* them (routers/users.py, routers/projects.py, permissions.py,            *)
(* scoping.py, api_keys.py, routers/api_keys.py).                          *)
(*                                                                         *)
(* A request authenticates, checks its actor's permission and reads what   *)
(* its own checks need (Begin...), and commits later (Commit...): requests *)
(* of several people overlap.  One project and one key name are enough for *)
(* the races between people, keys and rotations.                           *)
(***************************************************************************)
EXTENDS Naturals, Sequences, FiniteSets

CONSTANTS
  Users,    \* accounts
  First,    \* the global admins there are at the start
  Presets,  \* the key presets used
  MemberRoles, \* the project roles given
  Limits,   \* what a key may be limited to (networks, playbooks, inventories)
  FirstLimits, \* what it is created with: of these, or "none"
  MaxCreated, \* bound: keys made by create_api_key
  MaxKeys   \* bound: keys made, the rotated ones included

ASSUME AccessConstants ==
  /\ First \subseteq Users /\ First # {} /\ "deleted" \notin Users
  /\ FirstLimits \subseteq Limits \cup {"none"}
  /\ MaxKeys \in Nat /\ MaxCreated \in Nat
  /\ Presets \subseteq {"trigger", "read-only"} /\ MemberRoles \subseteq {"admin", "operator", "viewer", "none"}

VARIABLES
  user,     \* the users table, with each user's role in the project
  key,      \* the api_keys table, by id
  doing,    \* what each user's request in flight is about to commit
  wanted    \* the limit last acknowledged for the key's name

accessVars == <<user, key, doing, wanted>>

Quiet == [kind |-> "none"]
NoUser == "deleted"

(***************************************************************************)
(* permissions.py: what the roles and the key presets allow.               *)
(***************************************************************************)
ViewerMay == {"content:read"}
OperatorMay == ViewerMay \cup {"content:write", "secrets:list", "runs:trigger", "vault:encrypt"}
ProjectAdminMay == OperatorMay \cup {"secrets:manage", "members:manage", "api_keys:manage"}
GlobalOnly == {"users:manage", "projects:manage", "galaxy:manage"}

KeyMay(preset) ==
  IF preset = "trigger" THEN {"content:read", "secrets:list", "runs:trigger"} ELSE {"content:read"}

ProjectRoleMay(role) ==
  CASE role = "admin" -> ProjectAdminMay [] role = "operator" -> OperatorMay
    [] role = "viewer" -> ViewerMay [] OTHER -> {}

ProjectPermissions(u) ==
  IF user[u].role = "admin" THEN ProjectAdminMay \cup GlobalOnly ELSE ProjectRoleMay(user[u].member)

Holds(u, permission) == user[u].exists /\ user[u].active /\ permission \in ProjectPermissions(u)

(***************************************************************************)
(* authenticate_api_key: the key is not revoked or expired, and whoever    *)
(* made it is still there, active and in charge of the project's keys.     *)
(***************************************************************************)
\* Mutant: an active creator is enough.
CreatorActive(k) == key[k].creator # NoUser /\ user[key[k].creator].active

CreatorVouches(k) ==
  /\ key[k].creator # NoUser
  /\ user[key[k].creator].active
  /\ "api_keys:manage" \in ProjectPermissions(key[k].creator)

Accepts(k) == key[k].state = "active" /\ CreatorVouches(k)

AccessInit ==
  /\ user = [u \in Users |-> [exists |-> TRUE, active |-> TRUE,
                              role |-> IF u \in First THEN "admin" ELSE "viewer", member |-> "none"]]
  /\ key = <<>>
  /\ doing = [u \in Users |-> Quiet]
  /\ wanted = "none"

Begins(a, r) ==
  /\ doing[a] = Quiet
  /\ doing' = [doing EXCEPT ![a] = r]
  /\ UNCHANGED <<user, key, wanted>>
Ends(a) == doing' = [doing EXCEPT ![a] = Quiet]

(***************************************************************************)
(* update_user (a role, or active or not) and delete_user: not the actor, not  *)
(* the last active admin.                                                  *)
(***************************************************************************)
LastActiveAdmin(t) ==
  /\ user[t].role = "admin" /\ user[t].active
  /\ Cardinality({u \in Users : user[u].exists /\ user[u].role = "admin" /\ user[u].active}) <= 1

BeginSetRole(a, t, role) ==
  /\ Holds(a, "users:manage") /\ user[t].exists /\ role # user[t].role
  /\ t # a /\ ~LastActiveAdmin(t)
  /\ Begins(a, [kind |-> "set_role", target |-> t, role |-> role])

BeginSetActive(a, t, active) ==
  /\ Holds(a, "users:manage") /\ user[t].exists /\ active # user[t].active
  /\ ~active => t # a /\ ~LastActiveAdmin(t)
  /\ Begins(a, [kind |-> "set_active", target |-> t, active |-> active])

\* Only the changed column is written, and to nobody if the row is gone.
CommitUpdateUser(a) ==
  /\ doing[a].kind \in {"set_role", "set_active"}
  /\ LET t == doing[a].target
     IN user' = CASE ~user[t].exists -> user
                  [] doing[a].kind = "set_role" -> [user EXCEPT ![t].role = doing[a].role]
                  [] OTHER -> [user EXCEPT ![t].active = doing[a].active]
  /\ Ends(a)
  /\ UNCHANGED <<key, wanted>>

BeginDeleteUser(a, t) ==
  /\ Holds(a, "users:manage") /\ user[t].exists
  /\ t # a /\ ~LastActiveAdmin(t)
  /\ Begins(a, [kind |-> "delete_user", target |-> t])

\* Mutant: a key keeps the name of a creator who is gone.
KeepCreator(t) == key

\* The rows that refer to the user go, or lose the reference (ON DELETE).
Forget(t) == [k \in DOMAIN key |-> IF key[k].creator = t THEN [key[k] EXCEPT !.creator = NoUser]
                                                         ELSE key[k]]

CommitDeleteUser(a) ==
  /\ doing[a].kind = "delete_user"
  /\ user' = [user EXCEPT ![doing[a].target] =
                [exists |-> FALSE, active |-> FALSE, role |-> "viewer", member |-> "none"]]
  /\ key' = Forget(doing[a].target)
  /\ Ends(a)
  /\ UNCHANGED wanted

(***************************************************************************)
(* set_member, add_member_by_username and remove_member.                   *)
(***************************************************************************)
BeginMember(a, t, role) ==
  /\ Holds(a, "members:manage") /\ user[t].exists
  /\ a = t => user[a].role = "admin"
  /\ role # user[t].member
  /\ Begins(a, [kind |-> "member", target |-> t, role |-> role])

CommitMember(a) ==
  /\ doing[a].kind = "member"
  /\ user' = [user EXCEPT ![doing[a].target].member = IF user[doing[a].target].exists
                                                        THEN doing[a].role ELSE @]
  /\ Ends(a)
  /\ UNCHANGED <<key, wanted>>

(***************************************************************************)
(* The key routes.  The unique index lets one key of a name be unrevoked;  *)
(* a request it refuses changes nothing.                                   *)
(***************************************************************************)
NameTaken == \E k \in DOMAIN key : key[k].state # "revoked"

BeginCreateKey(a, preset, limit) ==
  /\ Holds(a, "api_keys:manage") /\ ~NameTaken
  /\ Cardinality({k \in DOMAIN key : key[k].from = 0}) < MaxCreated
  /\ Begins(a, [kind |-> "create_key", preset |-> preset, limit |-> limit])

\* Mutant: rotating gives the key a fresh limit.
NewKeyUnlimited(a, preset, limit, from) ==
  [creator |-> a, preset |-> preset, limit |-> IF from = 0 THEN limit ELSE "none",
   state |-> "active", from |-> from]

NewKey(a, preset, limit, from) ==
  [creator |-> a, preset |-> preset, limit |-> limit,
   state |-> "active", from |-> from]

CommitCreateKey(a) ==
  /\ doing[a].kind = "create_key"
  /\ IF NameTaken \/ ~user[a].exists
       THEN UNCHANGED <<key, wanted>>
       ELSE /\ key' = Append(key, NewKey(a, doing[a].preset, doing[a].limit, 0))
            /\ wanted' = doing[a].limit
  /\ Ends(a)
  /\ UNCHANGED user

BeginKeyChange(a, k, change) ==
  /\ Holds(a, "api_keys:manage") /\ k \in DOMAIN key
  /\ change.kind = "revoke_key" => key[k].state # "revoked"
  /\ Begins(a, [change EXCEPT !.key = k])

\* rotate_api_key locks the row and looks again before it replaces the key.
CommitRotateKey(a) ==
  /\ doing[a].kind = "rotate_key"
  /\ LET k == doing[a].key
     IN IF key[k].state # "revoked" /\ user[a].exists /\ Len(key) < MaxKeys
          THEN key' = Append([key EXCEPT ![k].state = "revoked"],
                             NewKey(a, key[k].preset, key[k].limit, k))
          ELSE UNCHANGED key
  /\ Ends(a)
  /\ UNCHANGED <<user, wanted>>

CommitKeyLimit(a) ==
  /\ doing[a].kind = "limit_key"
  /\ IF key[doing[a].key].state # "revoked"
       THEN key' = [key EXCEPT ![doing[a].key].limit = doing[a].limit] /\ wanted' = doing[a].limit
       ELSE UNCHANGED <<key, wanted>>
  /\ Ends(a)
  /\ UNCHANGED user

CommitRevokeKey(a) ==
  /\ doing[a].kind = "revoke_key"
  /\ key' = [key EXCEPT ![doing[a].key].state = "revoked"]
  /\ Ends(a)
  /\ UNCHANGED <<user, wanted>>

KeyExpires(k) ==
  /\ key[k].state = "active"
  /\ key' = [key EXCEPT ![k].state = "expired"]
  /\ UNCHANGED <<user, doing, wanted>>

KeyChanges == {[kind |-> "rotate_key", key |-> 0], [kind |-> "revoke_key", key |-> 0]}
                \cup [kind : {"limit_key"}, key : {0}, limit : Limits]

AccessNext ==
  \/ \E a \in Users :
       \/ \E t \in Users :
            \/ \E role \in {"admin", "viewer"} : BeginSetRole(a, t, role)
            \/ \E active \in BOOLEAN : BeginSetActive(a, t, active)
            \/ BeginDeleteUser(a, t)
            \/ \E role \in MemberRoles : BeginMember(a, t, role)
       \/ \E preset \in Presets, limit \in FirstLimits : BeginCreateKey(a, preset, limit)
       \/ \E k \in 1..Len(key), change \in KeyChanges : BeginKeyChange(a, k, change)
       \/ CommitUpdateUser(a) \/ CommitDeleteUser(a) \/ CommitMember(a)
       \/ CommitCreateKey(a) \/ CommitRotateKey(a) \/ CommitKeyLimit(a) \/ CommitRevokeKey(a)
  \/ \E k \in DOMAIN key : KeyExpires(k)

AccessSpec == AccessInit /\ [][AccessNext]_accessVars

-----------------------------------------------------------------------------
(***************************************************************************)
(* Rows and requests keep their shapes; a key's creator exists.            *)
(***************************************************************************)
AccessTypes ==
  /\ \A k \in DOMAIN key : key[k].creator \in Users => user[key[k].creator].exists
  /\ \A u \in Users : user[u].role \in {"admin", "viewer"} /\ user[u].active \in BOOLEAN
  /\ wanted \in Limits \cup {"none"}

(***************************************************************************)
(* A key that is accepted may do no more in the project than the person    *)
(* who made it may at that moment: deactivating, demoting, removing or     *)
(* deleting them suspends it, whatever else was in flight.                 *)
(***************************************************************************)
KeysWithinCreator ==
  \A k \in DOMAIN key : Accepts(k) => KeyMay(key[k].preset) \subseteq ProjectPermissions(key[k].creator)

(***************************************************************************)
(* The limit a person was told is set is on the name's key, rotated or not *)
(***************************************************************************)
LimitsSurvive ==
  \A k \in DOMAIN key : key[k].state # "revoked" => key[k].limit = wanted

(***************************************************************************)
(* A key stays within its creator's permissions and within its limit.      *)
(***************************************************************************)
KeysStayLimited == KeysWithinCreator /\ LimitsSurvive

(***************************************************************************)
(* "Cannot remove the last active admin": some active admin is left.  Not  *)
(* an invariant when two admins demote each other at once: the count is    *)
(* read without a lock (README, Observations).                             *)
(***************************************************************************)
AdminRemains == \E u \in Users : user[u].exists /\ user[u].active /\ user[u].role = "admin"
=============================================================================
