--------------------------- MODULE Accounts_proofs ---------------------------
(***************************************************************************)
(* Theorems about accounts, for any number of people, browsers, keys,      *)
(* codes and attempts: keys stay within their creators and their limits,   *)
(* every second factor counts once, and single sign-on gives a browser     *)
(* the account it may have.                                                *)
(***************************************************************************)
EXTENDS SignIn, Access, SsoLinks, FiniteSetTheorems, SequenceTheorems, TLAPS

-----------------------------------------------------------------------------
(* Keys.  A request in flight names what it will change, so the invariant  *)
(* types the requests too.  The limit that was acknowledged is one only    *)
(* because at most one key of the name is not revoked (OneKeyLeft).        *)

KeyIds == 1..Len(key)

UserRows == [exists : BOOLEAN, active : BOOLEAN, role : {"admin", "viewer"},
             member : {"admin", "operator", "viewer", "none"}]

KeyRows == [creator : Users \cup {NoUser}, preset : Presets, limit : Limits \cup {"none"},
            state : {"active", "expired", "revoked"}, from : Nat]

AccessRequests ==
    {Quiet} \cup [kind : {"set_role"}, target : Users, role : {"admin", "viewer"}]
            \cup [kind : {"set_active"}, target : Users, active : BOOLEAN]
            \cup [kind : {"delete_user"}, target : Users]
            \cup [kind : {"member"}, target : Users, role : MemberRoles]
            \cup [kind : {"create_key"}, preset : Presets, limit : Limits \cup {"none"}]
            \cup [kind : {"rotate_key", "revoke_key"}, key : KeyIds]
            \cup [kind : {"limit_key"}, key : KeyIds, limit : Limits]

CreatorsExist == \A k \in KeyIds : key[k].creator \in Users => user[key[k].creator].exists

OneKeyLeft ==
    \A j, k \in KeyIds : key[j].state # "revoked" /\ key[k].state # "revoked" => j = k

Acknowledged == \A k \in KeyIds : key[k].state # "revoked" => key[k].limit = wanted

AccessInv ==
    /\ user \in [Users -> UserRows] /\ key \in Seq(KeyRows)
    /\ doing \in [Users -> AccessRequests] /\ wanted \in Limits \cup {"none"}
    /\ CreatorsExist /\ OneKeyLeft /\ Acknowledged

LEMMA AccessStart == AccessInit => AccessInv
<1> SUFFICES ASSUME AccessInit PROVE AccessInv
  OBVIOUS
<1>1. user \in [Users -> UserRows]
  BY DEF AccessInit, UserRows
<1>2. key = <<>> /\ KeyIds = {}
  BY DEF AccessInit, KeyIds
<1>3. doing \in [Users -> AccessRequests] /\ wanted = "none"
  BY DEF AccessInit, AccessRequests
<1> QED
  BY <1>1, <1>2, <1>3 DEF AccessInv, CreatorsExist, OneKeyLeft, Acknowledged

\* Requests stay what they are while keys are added.
LEMMA RequestsLast ==
    ASSUME AccessInv, key' \in Seq(KeyRows), Len(key) <= Len(key')
    PROVE  AccessRequests \subseteq AccessRequests'
<1>1. KeyIds \subseteq KeyIds'
  BY DEF KeyIds, AccessInv
<1> QED
  BY <1>1 DEF AccessRequests

LEMMA BeginsKeeps ==
    ASSUME AccessInv, NEW a \in Users, NEW r \in AccessRequests, Begins(a, r)
    PROVE  AccessInv'
<1>1. UNCHANGED <<user, key, wanted>> /\ doing' = [doing EXCEPT ![a] = r]
  BY DEF Begins
<1>2. KeyIds' = KeyIds /\ AccessRequests' = AccessRequests
  BY <1>1 DEF KeyIds, AccessRequests
<1>3. doing' \in [Users -> AccessRequests]'
  BY <1>1, <1>2 DEF AccessInv
<1> QED
  BY <1>1, <1>2, <1>3 DEF AccessInv, CreatorsExist, OneKeyLeft, Acknowledged

\* The commits: each ends the request.
LEMMA EndsTyped ==
    ASSUME AccessInv, NEW a \in Users, Ends(a), key' \in Seq(KeyRows), Len(key) <= Len(key')
    PROVE  doing' \in [Users -> AccessRequests']
BY RequestsLast DEF Ends, AccessInv, AccessRequests

\* What a commit that changes a user's row leaves of it.
LEMMA UserCommitKeeps ==
    ASSUME AccessInv, NEW a \in Users, Ends(a), UNCHANGED <<key, wanted>>,
           user' \in [Users -> UserRows],
           \A u \in Users : user[u].exists => user'[u].exists
    PROVE  AccessInv'
<1>1. key \in Seq(KeyRows) /\ Len(key) \in Nat
  BY DEF AccessInv
<1>2. doing' \in [Users -> AccessRequests']
  BY <1>1, EndsTyped
<1>3. KeyIds' = KeyIds
  BY DEF KeyIds
<1> QED
  BY <1>2, <1>3 DEF AccessInv, CreatorsExist, OneKeyLeft, Acknowledged

LEMMA RequestShapes ==
    ASSUME AccessInv, NEW a \in Users
    PROVE  /\ doing[a] \in AccessRequests
           /\ doing[a].kind \in {"set_role", "set_active", "delete_user", "member"} =>
                doing[a].target \in Users
           /\ doing[a].kind = "set_role" => doing[a].role \in {"admin", "viewer"}
           /\ doing[a].kind = "set_active" => doing[a].active \in BOOLEAN
           /\ doing[a].kind = "member" => doing[a].role \in MemberRoles
           /\ doing[a].kind = "create_key" =>
                doing[a].preset \in Presets /\ doing[a].limit \in Limits \cup {"none"}
           /\ doing[a].kind \in {"rotate_key", "revoke_key", "limit_key"} => doing[a].key \in KeyIds
           /\ doing[a].kind = "limit_key" => doing[a].limit \in Limits
<1>1. doing[a] \in AccessRequests
  BY DEF AccessInv
<1> DEFINE r == doing[a]
<1> HIDE DEF r
<1>2. r \in AccessRequests => 
           /\ r.kind \in {"set_role", "set_active", "delete_user", "member"} =>
                r.target \in Users
           /\ r.kind = "set_role" => r.role \in {"admin", "viewer"}
           /\ r.kind = "set_active" => r.active \in BOOLEAN
           /\ r.kind = "member" => r.role \in MemberRoles
           /\ r.kind = "create_key" =>
                r.preset \in Presets /\ r.limit \in Limits \cup {"none"}
           /\ r.kind \in {"rotate_key", "revoke_key", "limit_key"} => r.key \in KeyIds
           /\ r.kind = "limit_key" => r.limit \in Limits
  BY DEF AccessRequests, Quiet
<1> QED
  BY <1>1, <1>2 DEF r

LEMMA UpdateUserKeeps ==
    ASSUME AccessInv, NEW a \in Users, CommitUpdateUser(a)
    PROVE  AccessInv'
<1> DEFINE t == doing[a].target
<1>1. t \in Users /\ user \in [Users -> UserRows] /\ user[t] \in UserRows
  BY RequestShapes DEF CommitUpdateUser, AccessInv
<1>2. UNCHANGED <<key, wanted>> /\ Ends(a)
  BY DEF CommitUpdateUser
<1>3. \/ user' = user
      \/ doing[a].kind = "set_role" /\ user' = [user EXCEPT ![t].role = doing[a].role]
      \/ doing[a].kind = "set_active" /\ user' = [user EXCEPT ![t].active = doing[a].active]
  BY DEF CommitUpdateUser
<1>4. /\ user' \in [Users -> UserRows]
      /\ \A u \in Users : user[u].exists => user'[u].exists
  <2>1. CASE user' = user
    BY <2>1, <1>1
  <2>2. CASE doing[a].kind = "set_role" /\ user' = [user EXCEPT ![t].role = doing[a].role]
    <3>1. doing[a].role \in {"admin", "viewer"}
      BY <2>2, RequestShapes
    <3> QED
      BY <1>1, <2>2, <3>1 DEF UserRows
  <2>3. CASE doing[a].kind = "set_active" /\ user' = [user EXCEPT ![t].active = doing[a].active]
    <3>1. doing[a].active \in BOOLEAN
      BY <2>3, RequestShapes
    <3> QED
      BY <1>1, <2>3, <3>1 DEF UserRows
  <2> QED
    BY <1>3, <2>1, <2>2, <2>3
<1> QED
  BY <1>2, <1>4, UserCommitKeeps

LEMMA MemberKeeps ==
    ASSUME AccessInv, NEW a \in Users, CommitMember(a)
    PROVE  AccessInv'
<1> DEFINE t == doing[a].target
           role == IF user[t].exists THEN doing[a].role ELSE user[t].member
<1>1. /\ t \in Users /\ user \in [Users -> UserRows] /\ user[t] \in UserRows
      /\ doing[a].role \in MemberRoles
  BY RequestShapes DEF CommitMember, AccessInv
<1>2. UNCHANGED <<key, wanted>> /\ Ends(a) /\ user' = [user EXCEPT ![t].member = role]
  BY DEF CommitMember
<1>3. role \in {"admin", "operator", "viewer", "none"}
  BY <1>1, AccessConstants DEF UserRows
<1> HIDE DEF role, t
<1>4. /\ user' \in [Users -> UserRows]
      /\ \A u \in Users : user[u].exists => user'[u].exists
  BY <1>1, <1>2, <1>3 DEF UserRows
<1> QED
  BY <1>2, <1>4, UserCommitKeeps

LEMMA DeleteUserKeeps ==
    ASSUME AccessInv, NEW a \in Users, CommitDeleteUser(a)
    PROVE  AccessInv'
<1> DEFINE t == doing[a].target
<1>1. /\ t \in Users /\ user \in [Users -> UserRows] /\ key \in Seq(KeyRows) /\ Len(key) \in Nat
      /\ DOMAIN key = KeyIds
  BY RequestShapes DEF CommitDeleteUser, AccessInv, KeyIds
<1>2. /\ user' = [user EXCEPT ![t] =
            [exists |-> FALSE, active |-> FALSE, role |-> "viewer", member |-> "none"]]
      /\ key' = [k \in KeyIds |-> IF key[k].creator = t THEN [key[k] EXCEPT !.creator = NoUser]
                                                        ELSE key[k]]
      /\ Ends(a) /\ wanted' = wanted
  BY <1>1 DEF CommitDeleteUser, Forget
<1> HIDE DEF t
<1>3. \A k \in KeyIds : key[k] \in KeyRows
  BY <1>1, ElementOfSeq DEF KeyIds
<1>4. \A k \in KeyIds :
        /\ key'[k] \in KeyRows /\ key'[k].state = key[k].state /\ key'[k].limit = key[k].limit
        /\ key'[k].creator = IF key[k].creator = t THEN NoUser ELSE key[k].creator
  BY <1>2, <1>3 DEF KeyRows
<1>5. key' \in Seq(KeyRows) /\ Len(key') = Len(key)
  <2>1. key' \in [1..Len(key) -> KeyRows]
    BY <1>2, <1>4 DEF KeyIds
  <2> QED
    BY <1>1, <2>1, SeqDef
<1>6. KeyIds' = KeyIds
  BY <1>5 DEF KeyIds
<1>7. doing' \in [Users -> AccessRequests']
  <2>1. Ends(a) /\ key' \in Seq(KeyRows) /\ Len(key) <= Len(key')
    BY <1>1, <1>2, <1>5, SMTT(40)
  <2> QED
    BY <2>1, EndsTyped
<1>8. user' \in [Users -> UserRows] /\ \A u \in Users \ {t} : user'[u] = user[u]
  BY <1>1, <1>2 DEF UserRows
<1>9. CreatorsExist'
  BY <1>4, <1>6, <1>8, AccessConstants DEF CreatorsExist, NoUser, AccessInv
<1>10. OneKeyLeft' /\ Acknowledged'
  BY <1>2, <1>4, <1>6 DEF OneKeyLeft, Acknowledged, AccessInv
<1> QED
  BY <1>2, <1>5, <1>7, <1>8, <1>9, <1>10 DEF AccessInv

LEMMA NewKeyRow ==
    ASSUME NEW a \in Users, NEW preset \in Presets, NEW limit \in Limits \cup {"none"}, NEW n \in Nat
    PROVE  /\ NewKey(a, preset, limit, n) \in KeyRows /\ NewKey(a, preset, limit, n).creator = a
           /\ NewKey(a, preset, limit, n).limit = limit
BY DEF NewKey, KeyRows

LEMMA CreateKeyKeeps ==
    ASSUME AccessInv, NEW a \in Users, CommitCreateKey(a)
    PROVE  AccessInv'
<1> DEFINE row == NewKey(a, doing[a].preset, doing[a].limit, 0)
           limit == doing[a].limit
<1>1. /\ key \in Seq(KeyRows) /\ Len(key) \in Nat /\ user \in [Users -> UserRows]
      /\ DOMAIN key = KeyIds
  BY DEF AccessInv, KeyIds
<1>2. /\ doing[a].preset \in Presets /\ limit \in Limits \cup {"none"}
  BY RequestShapes DEF CommitCreateKey
<1>3. row \in KeyRows /\ row.creator = a /\ row.limit = limit
  BY <1>2, NewKeyRow
<1>4. UNCHANGED user /\ Ends(a)
  BY DEF CommitCreateKey
<1>5. CASE UNCHANGED <<key, wanted>>
  BY <1>1, <1>4, <1>5, UserCommitKeeps
<1>6. CASE ~NameTaken /\ user[a].exists /\ key' = Append(key, row) /\ wanted' = limit
  <2> HIDE DEF row, limit
  <2>1. /\ key' \in Seq(KeyRows) /\ Len(key') = Len(key) + 1
        /\ \A k \in KeyIds : key'[k] = key[k]
        /\ key'[Len(key) + 1] = row
    BY <1>1, <1>3, <1>6, AppendProperties DEF KeyIds
  <2>2. KeyIds' = KeyIds \cup {Len(key) + 1}
    BY <1>1, <2>1 DEF KeyIds
  <2>3. doing' \in [Users -> AccessRequests']
    BY <1>1, <1>4, <2>1, EndsTyped
  <2>4. \A k \in KeyIds : key'[k].state = "revoked"
    BY <1>1, <1>6, <2>1 DEF NameTaken
  <2>5. CreatorsExist'
    BY <1>3, <1>4, <1>6, <2>1, <2>2 DEF CreatorsExist, AccessInv
  <2>6. OneKeyLeft' /\ Acknowledged'
    BY <1>3, <1>6, <2>1, <2>2, <2>4 DEF OneKeyLeft, Acknowledged
  <2> QED
    BY <1>1, <1>2, <1>4, <1>6, <2>1, <2>3, <2>5, <2>6 DEF AccessInv
<1> QED
  BY <1>5, <1>6 DEF CommitCreateKey

\* A change of one key's row that keeps its creator and does not bring it back.
LEMMA KeyRowChanges ==
    ASSUME AccessInv, NEW k \in KeyIds, NEW row \in KeyRows, key' = [key EXCEPT ![k] = row]
    PROVE  /\ key' \in Seq(KeyRows) /\ Len(key') = Len(key) /\ KeyIds' = KeyIds
           /\ key'[k] = row /\ \A j \in KeyIds \ {k} : key'[j] = key[j]
<1>1. key \in Seq(KeyRows) /\ Len(key) \in Nat
  BY DEF AccessInv
<1>2. /\ key' \in Seq(KeyRows) /\ Len(key') = Len(key)
      /\ \A j \in 1..Len(key) : key'[j] = IF j = k THEN row ELSE key[j]
  BY <1>1, ExceptSeq DEF KeyIds
<1> QED
  BY <1>2 DEF KeyIds

LEMMA KeyRowKeeps ==
    ASSUME AccessInv, NEW k \in KeyIds, NEW row \in KeyRows, key' = [key EXCEPT ![k] = row],
           row.creator = key[k].creator, user' = user,
           doing' = doing \/ \E a \in Users : Ends(a),
           \/ row.state = "revoked" /\ wanted' = wanted
           \/ row.state # "revoked" /\ key[k].state # "revoked" /\ wanted' = row.limit
    PROVE  AccessInv'
<1>1. /\ key' \in Seq(KeyRows) /\ Len(key') = Len(key) /\ KeyIds' = KeyIds
      /\ key'[k] = row /\ \A j \in KeyIds \ {k} : key'[j] = key[j]
  BY KeyRowChanges
<1>2. doing' \in [Users -> AccessRequests']
  <2>1. Len(key) <= Len(key') /\ doing \in [Users -> AccessRequests]
        /\ AccessRequests' = AccessRequests
    BY <1>1 DEF AccessInv, AccessRequests
  <2>2. ASSUME NEW a \in Users, Ends(a) PROVE doing' \in [Users -> AccessRequests']
    BY <1>1, <2>1, <2>2, EndsTyped
  <2> QED
    BY <2>1, <2>2
<1>3. CreatorsExist'
  BY <1>1 DEF CreatorsExist, AccessInv
<1>4. OneKeyLeft'
  BY <1>1 DEF OneKeyLeft, AccessInv
<1>5. wanted' \in Limits \cup {"none"}
  BY DEF AccessInv, KeyRows
<1>6. Acknowledged'
  <2> SUFFICES ASSUME NEW j \in KeyIds, key'[j].state # "revoked" PROVE key'[j].limit = wanted'
    BY <1>1 DEF Acknowledged
  <2>1. CASE j = k
    BY <1>1, <2>1
  <2>2. CASE j # k
    <3>1. key[j].state # "revoked" /\ key'[j] = key[j] /\ key[k].state = "revoked"
      BY <1>1, <2>2 DEF AccessInv, OneKeyLeft
    <3> QED
      BY <3>1 DEF AccessInv, Acknowledged
  <2> QED
    BY <2>1, <2>2
<1> QED
  BY <1>1, <1>2, <1>3, <1>4, <1>5, <1>6 DEF AccessInv

LEMMA KeyIsRow ==
    ASSUME AccessInv, NEW k \in KeyIds
    PROVE  key[k] \in KeyRows
BY ElementOfSeq DEF AccessInv, KeyIds

LEMMA KeyCommitKeeps ==
    ASSUME AccessInv, NEW a \in Users, CommitKeyLimit(a) \/ CommitRevokeKey(a)
    PROVE  AccessInv'
<1> DEFINE k == doing[a].key
<1>1. k \in KeyIds /\ Ends(a) /\ UNCHANGED user
  BY RequestShapes DEF CommitKeyLimit, CommitRevokeKey
<1>2. CASE UNCHANGED <<key, wanted>>
  BY <1>1, <1>2, UserCommitKeeps DEF AccessInv
<1>3. CASE CommitRevokeKey(a)
  <2> DEFINE row == [key[k] EXCEPT !.state = "revoked"]
  <2>1. key' = [key EXCEPT ![k] = row] /\ wanted' = wanted
    BY <1>3 DEF CommitRevokeKey
  <2>2. key[k] \in KeyRows
    BY <1>1, KeyIsRow
  <2>3. row \in KeyRows /\ row.creator = key[k].creator /\ row.state = "revoked"
    BY <2>2 DEF KeyRows
  <2> HIDE DEF row, k
  <2> QED
    BY <1>1, <2>1, <2>3, KeyRowKeeps
<1>4. CASE CommitKeyLimit(a) /\ key[k].state # "revoked"
  <2> DEFINE row == [key[k] EXCEPT !.limit = doing[a].limit]
  <2>1. doing[a].limit \in Limits
    BY <1>4, RequestShapes DEF CommitKeyLimit
  <2>2. key' = [key EXCEPT ![k] = row] /\ wanted' = doing[a].limit
    BY <1>4 DEF CommitKeyLimit, CommitRevokeKey
  <2>3. key[k] \in KeyRows
    BY <1>1, KeyIsRow
  <2>4. row \in KeyRows /\ row.limit = doing[a].limit
        /\ row.creator = key[k].creator /\ row.state = key[k].state
    BY <2>1, <2>3 DEF KeyRows
  <2> HIDE DEF row, k
  <2> QED
    BY <1>1, <1>4, <2>2, <2>4, KeyRowKeeps
<1> QED
  BY <1>2, <1>3, <1>4 DEF CommitKeyLimit

LEMMA ExpiryKeeps ==
    ASSUME AccessInv, NEW k \in DOMAIN key, KeyExpires(k)
    PROVE  AccessInv'
<1> DEFINE row == [key[k] EXCEPT !.state = "expired"]
<1>1. k \in KeyIds
  BY DEF AccessInv, KeyIds
<1>2. key[k].limit = wanted
  BY <1>1 DEF AccessInv, Acknowledged, KeyExpires
<1>3. key' = [key EXCEPT ![k] = row] /\ key[k].state = "active" /\ UNCHANGED <<user, doing, wanted>>
  BY DEF KeyExpires
<1>4. key[k] \in KeyRows
  BY <1>1, KeyIsRow
<1>5. row \in KeyRows /\ row.limit = key[k].limit
      /\ row.creator = key[k].creator /\ row.state = "expired"
  BY <1>4 DEF KeyRows
<1> HIDE DEF row
<1> QED
  BY <1>1, <1>2, <1>3, <1>5, KeyRowKeeps

\* Rotating: the key is revoked, and its successor has its limit.
LEMMA RotateKeeps ==
    ASSUME AccessInv, NEW a \in Users, CommitRotateKey(a)
    PROVE  AccessInv'
<1> DEFINE k == doing[a].key
           old == [key[k] EXCEPT !.state = "revoked"]
           new == NewKey(a, key[k].preset, key[k].limit, k)
           keys == [key EXCEPT ![k] = old]
<1>1. k \in KeyIds /\ Ends(a) /\ UNCHANGED <<user, wanted>>
  BY RequestShapes DEF CommitRotateKey
<1>2. CASE UNCHANGED key
  BY <1>1, <1>2, UserCommitKeeps DEF AccessInv
<1>3. CASE key[k].state # "revoked" /\ user[a].exists /\ key' = Append(keys, new)
  <2>1. key[k] \in KeyRows /\ k \in Nat
    BY <1>1, KeyIsRow DEF KeyIds
  <2>2. /\ old \in KeyRows /\ old.state = "revoked" /\ old.creator = key[k].creator
        /\ key[k].preset \in Presets /\ key[k].limit \in Limits \cup {"none"}
    BY <2>1 DEF KeyRows
  <2>3. new \in KeyRows /\ new.creator = a /\ new.limit = key[k].limit
    BY <2>1, <2>2, NewKeyRow
  <2>4. key[k].limit = wanted
    BY <1>1, <1>3 DEF AccessInv, Acknowledged
  <2> HIDE DEF old, new, k
  <2>5. key \in Seq(KeyRows) /\ Len(key) \in Nat
    BY DEF AccessInv
  <2>6. /\ keys \in Seq(KeyRows) /\ Len(keys) = Len(key)
        /\ keys[k] = old /\ \A j \in KeyIds \ {k} : keys[j] = key[j]
    BY <1>1, <2>2, <2>5, ExceptSeq DEF KeyIds
  <2> HIDE DEF keys
  <2>7. /\ key' \in Seq(KeyRows) /\ Len(key') = Len(key) + 1
        /\ \A j \in KeyIds : key'[j] = keys[j]
        /\ key'[Len(key) + 1] = new
    BY <1>3, <2>3, <2>6, AppendProperties DEF KeyIds
  <2>8. KeyIds' = KeyIds \cup {Len(key) + 1}
    BY <2>5, <2>7 DEF KeyIds
  <2>9. doing' \in [Users -> AccessRequests']
    BY <1>1, <2>5, <2>7, EndsTyped
  <2>10. \A j \in KeyIds : /\ key'[j].creator = key[j].creator
                           /\ key'[j].state = "revoked"
    <3>1. key[k].state # "revoked"
      BY <1>3
    <3>2. \A j \in KeyIds \ {k} : key[j].state = "revoked"
      BY <1>1, <3>1 DEF AccessInv, OneKeyLeft
    <3>3. \A j \in KeyIds : keys[j].creator = key[j].creator /\ keys[j].state = "revoked"
      BY <2>2, <2>6, <3>2
    <3> QED
      BY <2>7, <3>3
  <2>11. CreatorsExist'
    BY <1>1, <1>3, <2>3, <2>7, <2>8, <2>10 DEF CreatorsExist, AccessInv
  <2>12. OneKeyLeft' /\ Acknowledged'
    BY <1>1, <2>3, <2>4, <2>7, <2>8, <2>10 DEF OneKeyLeft, Acknowledged
  <2> QED
    BY <1>1, <2>7, <2>9, <2>11, <2>12 DEF AccessInv
<1> QED
  BY <1>2, <1>3 DEF CommitRotateKey

LEMMA AccessKeeps == AccessInv /\ [AccessNext]_accessVars => AccessInv'
<1> SUFFICES ASSUME AccessInv, [AccessNext]_accessVars PROVE AccessInv'
  OBVIOUS
<1>1. CASE UNCHANGED accessVars
  BY <1>1 DEF accessVars, AccessInv, KeyIds, AccessRequests, CreatorsExist, OneKeyLeft, Acknowledged
<1>2. ASSUME NEW a \in Users, NEW t \in Users, NEW role \in {"admin", "viewer"}, BeginSetRole(a, t, role)
      PROVE  AccessInv'
  <2> DEFINE r == [kind |-> "set_role", target |-> t, role |-> role]
  <2>1. r \in AccessRequests /\ Begins(a, r)
    BY <1>2 DEF BeginSetRole, AccessRequests
  <2> QED
    BY <2>1, BeginsKeeps
<1>3. ASSUME NEW a \in Users, NEW t \in Users, NEW active \in BOOLEAN, BeginSetActive(a, t, active)
      PROVE  AccessInv'
  <2> DEFINE r == [kind |-> "set_active", target |-> t, active |-> active]
  <2>1. r \in AccessRequests /\ Begins(a, r)
    BY <1>3 DEF BeginSetActive, AccessRequests
  <2> QED
    BY <2>1, BeginsKeeps
<1>4. ASSUME NEW a \in Users, NEW t \in Users, BeginDeleteUser(a, t)
      PROVE  AccessInv'
  <2> DEFINE r == [kind |-> "delete_user", target |-> t]
  <2>1. r \in AccessRequests /\ Begins(a, r)
    BY <1>4 DEF BeginDeleteUser, AccessRequests
  <2> QED
    BY <2>1, BeginsKeeps
<1>5. ASSUME NEW a \in Users, NEW t \in Users, NEW role \in MemberRoles, BeginMember(a, t, role)
      PROVE  AccessInv'
  <2> DEFINE r == [kind |-> "member", target |-> t, role |-> role]
  <2>1. r \in AccessRequests /\ Begins(a, r)
    BY <1>5 DEF BeginMember, AccessRequests
  <2> QED
    BY <2>1, BeginsKeeps
<1>6. ASSUME NEW a \in Users, NEW preset \in Presets, NEW limit \in FirstLimits,
             BeginCreateKey(a, preset, limit)
      PROVE  AccessInv'
  <2> DEFINE r == [kind |-> "create_key", preset |-> preset, limit |-> limit]
  <2>1. r \in AccessRequests /\ Begins(a, r)
    BY <1>6, AccessConstants DEF BeginCreateKey, AccessRequests
  <2> QED
    BY <2>1, BeginsKeeps
<1>7. ASSUME NEW a \in Users, NEW k \in KeyIds, NEW change \in KeyChanges, BeginKeyChange(a, k, change)
      PROVE  AccessInv'
  <2> DEFINE r == [change EXCEPT !.key = k]
  <2>1. Begins(a, r)
    BY <1>7 DEF BeginKeyChange
  <2>2. r \in AccessRequests
    <3>1. CASE change \in [kind : {"limit_key"}, key : {0}, limit : Limits]
      <4>1. r \in [kind : {"limit_key"}, key : KeyIds, limit : Limits]
        BY <3>1
      <4> QED
        BY <4>1 DEF AccessRequests
    <3>2. CASE change \in [kind : {"rotate_key", "revoke_key"}, key : {0}]
      <4>1. r \in [kind : {"rotate_key", "revoke_key"}, key : KeyIds]
        BY <3>2
      <4> QED
        BY <4>1 DEF AccessRequests
    <3>3. \/ change \in [kind : {"limit_key"}, key : {0}, limit : Limits]
          \/ change \in [kind : {"rotate_key", "revoke_key"}, key : {0}]
      BY <1>7 DEF KeyChanges
    <3> QED
      BY <3>1, <3>2, <3>3
  <2> QED
    BY <2>1, <2>2, BeginsKeeps
<1>8. ASSUME NEW a \in Users,
             \/ CommitUpdateUser(a) \/ CommitDeleteUser(a) \/ CommitMember(a)
             \/ CommitCreateKey(a) \/ CommitRotateKey(a) \/ CommitKeyLimit(a) \/ CommitRevokeKey(a)
      PROVE  AccessInv'
  BY <1>8, UpdateUserKeeps, DeleteUserKeeps, MemberKeeps, CreateKeyKeeps, RotateKeeps, KeyCommitKeeps
<1> QED
  BY <1>1, <1>2, <1>3, <1>4, <1>5, <1>6, <1>7, <1>8, ExpiryKeeps DEF AccessNext, KeyIds

LEMMA AccessTyped == AccessInv => AccessTypes
<1> SUFFICES ASSUME AccessInv PROVE AccessTypes
  OBVIOUS
<1>1. DOMAIN key = KeyIds
  BY DEF AccessInv, KeyIds
<1>2. \A u \in Users : user[u].role \in {"admin", "viewer"} /\ user[u].active \in BOOLEAN
  BY DEF AccessInv, UserRows
<1> QED
  BY <1>1, <1>2 DEF AccessInv, CreatorsExist, AccessTypes

LEMMA KeysLimited == AccessInv => KeysStayLimited
<1> SUFFICES ASSUME AccessInv PROVE KeysStayLimited
  OBVIOUS
<1>1. DOMAIN key = KeyIds
  BY DEF AccessInv, KeyIds
<1>2. LimitsSurvive
  BY <1>1 DEF AccessInv, Acknowledged, LimitsSurvive
<1>3. ASSUME NEW k \in KeyIds, Accepts(k)
      PROVE  KeyMay(key[k].preset) \subseteq ProjectPermissions(key[k].creator)
  <2>1. "api_keys:manage" \in ProjectPermissions(key[k].creator)
    BY <1>3 DEF Accepts, CreatorVouches
  <2>2. ProjectAdminMay \subseteq ProjectPermissions(key[k].creator)
    BY <2>1 DEF ProjectPermissions, ProjectRoleMay, OperatorMay, ViewerMay
  <2>3. KeyMay(key[k].preset) \subseteq ProjectAdminMay
    BY DEF KeyMay, ProjectAdminMay, OperatorMay, ViewerMay
  <2> QED
    BY <2>2, <2>3
<1> QED
  BY <1>1, <1>2, <1>3 DEF KeysStayLimited, KeysWithinCreator

\* A key that is accepted may do no more than its creator may now, and has the limit that
\* was last acknowledged, whatever changes of users, members and keys overlap
\* (authenticate_api_key, rotate_api_key).
THEOREM KeysNeverOutgrow == AccessSpec => []KeysStayLimited
<1>1. AccessSpec => []AccessInv
  BY AccessStart, AccessKeeps, PTL DEF AccessSpec
<1> QED
  BY <1>1, KeysLimited, PTL

-----------------------------------------------------------------------------
(* Single sign-on.  A browser's state cookies, its callback and its        *)
(* session all come from attempts it started; a callback or session of an  *)
(* identity bound before has a session version read together with the      *)
(* role, so it ends when the role changes (StaysOut); a bound account is   *)
(* one that exists, which is what the unique index is asked about.         *)

Attempts == 1..Len(login)

AttemptRows == [flow : Flows, browser : SsoBrowsers]

AccountRows == [exists : BOOLEAN, email : Emails, active : BOOLEAN,
                admin : BOOLEAN, sv : Nat, link : Identities \cup {NoLink}]

CallbackRows ==
    [at : {"proved", "unmatched", "linking", "known", "linked"}, flow : Flows,
     identity : Identities, emails : SUBSET Emails, attempt : Nat,
     account : Accounts \cup {"none"}, sv : Nat, new : BOOLEAN]

SessionRows == [account : Accounts, sv : Nat, attempt : Nat, new : BOOLEAN]

Started(b, n) == n \in Attempts /\ login[n].browser = b

StaysOut(a, v) ==
    v <= account[a].sv /\ (v = account[a].sv /\ account[a].admin => AllowAdmin)

CallbackOk(b, c) ==
    \/ c = NoCallback
    \/ /\ c \in CallbackRows /\ Started(b, c.attempt)
       /\ c.at \in {"linking", "known", "linked"} => c.account \in Accounts
       /\ c.at = "known" => StaysOut(c.account, c.sv)
       /\ IF c.at = "linked" THEN c.new ELSE ~c.new

SessionOk(b, s) ==
    \/ s = SignedOut
    \/ s \in SessionRows /\ Started(b, s.attempt) /\ (~s.new => StaysOut(s.account, s.sv))

CookiesOk(b, j) ==
    /\ j \in [Flows -> {0} \cup Attempts]
    /\ \A f \in Flows : j[f] # 0 => Started(b, j[f])

LinkedExist == \A a \in Accounts : account[a].link # NoLink => account[a].exists

SsoInv ==
    /\ account \in [Accounts -> AccountRows] /\ LinkedExist /\ OneAccountEach
    /\ confirmed \in [Identities -> SUBSET Emails] /\ login \in Seq(AttemptRows)
    /\ codes \subseteq [attempt : Attempts, identity : Identities]
    /\ DOMAIN jar = SsoBrowsers /\ DOMAIN callback = SsoBrowsers /\ DOMAIN ssoSession = SsoBrowsers
    /\ \A b \in SsoBrowsers :
         CookiesOk(b, jar[b]) /\ CallbackOk(b, callback[b]) /\ SessionOk(b, ssoSession[b])

LEMMA SsoStart == SsoInit => SsoInv
<1> SUFFICES ASSUME SsoInit PROVE SsoInv
  OBVIOUS
<1>1. FirstEmail \in [Accounts -> Emails]
  BY SsoConstants DEF FirstEmail
<1> DEFINE row(a) == [exists |-> TRUE, email |-> FirstEmail[a], active |-> TRUE,
                      admin |-> FALSE, sv |-> 1, link |-> NoLink]
<1>2. account = [a \in Accounts |-> row(a)]
  BY DEF SsoInit
<1>3. \A a \in Accounts : row(a) \in AccountRows /\ row(a).link = NoLink
  BY <1>1 DEF AccountRows
<1> HIDE DEF row
<1>4. account \in [Accounts -> AccountRows] /\ LinkedExist /\ OneAccountEach
  BY <1>2, <1>3 DEF LinkedExist, OneAccountEach
<1>5. login = <<>> /\ login \in Seq(AttemptRows) /\ Attempts = {} /\ codes = {}
  BY DEF SsoInit, Attempts
<1>6. /\ DOMAIN jar = SsoBrowsers /\ DOMAIN callback = SsoBrowsers /\ DOMAIN ssoSession = SsoBrowsers
      /\ confirmed \in [Identities -> SUBSET Emails]
  BY DEF SsoInit
<1>7. ASSUME NEW b \in SsoBrowsers
      PROVE  CookiesOk(b, jar[b]) /\ CallbackOk(b, callback[b]) /\ SessionOk(b, ssoSession[b])
  BY DEF SsoInit, CookiesOk, CallbackOk, SessionOk
<1> QED
  BY <1>4, <1>5, <1>6, <1>7 DEF SsoInv

\* Attempts are only added; a changed role ends the sessions there were.
LoginsLast ==
    login' \in Seq(AttemptRows) /\ Len(login) <= Len(login') /\ \A n \in Attempts : login'[n] = login[n]

VersionsGrow ==
    \A a \in Accounts :
      /\ account[a].sv <= account'[a].sv
      /\ account'[a].sv = account[a].sv /\ account'[a].admin => account[a].admin

LEMMA StartedLasts ==
    ASSUME SsoInv, LoginsLast
    PROVE  /\ Attempts \subseteq Attempts' /\ \A b \in SsoBrowsers : \A n : Started(b, n) => Started(b, n)'
<1>1. Len(login) \in Nat /\ Len(login') \in Nat
  BY DEF SsoInv, LoginsLast
<1>2. Attempts \subseteq Attempts'
  BY <1>1 DEF Attempts, LoginsLast
<1> QED
  BY <1>2 DEF Started, LoginsLast

LEMMA StaysOutLasts ==
    ASSUME SsoInv, VersionsGrow, account' \in [Accounts -> AccountRows],
           NEW a \in Accounts, NEW v \in Nat, StaysOut(a, v)
    PROVE  StaysOut(a, v)'
<1>1. account[a].sv \in Nat /\ account'[a].sv \in Nat
  BY DEF SsoInv, AccountRows
<1>2. /\ v <= account[a].sv /\ (v = account[a].sv /\ account[a].admin => AllowAdmin)
      /\ account[a].sv <= account'[a].sv
      /\ account'[a].sv = account[a].sv /\ account'[a].admin => account[a].admin
  BY DEF StaysOut, VersionsGrow
<1>3. v <= account'[a].sv /\ (v = account'[a].sv => v = account[a].sv /\ account[a].sv = account'[a].sv)
  BY <1>1, <1>2
<1>4. v = account'[a].sv /\ account'[a].admin => AllowAdmin
  BY <1>2, <1>3
<1> QED
  BY <1>3, <1>4 DEF StaysOut

\* What browsers have stays right while attempts are added and accounts change.
LEMMA BrowsersKeep ==
    ASSUME SsoInv, LoginsLast, VersionsGrow, account' \in [Accounts -> AccountRows],
           NEW b \in SsoBrowsers
    PROVE  /\ \A j : CookiesOk(b, j) => CookiesOk(b, j)'
           /\ \A c : CallbackOk(b, c) => CallbackOk(b, c)'
           /\ \A s : SessionOk(b, s) => SessionOk(b, s)'
<1>1. /\ Attempts \subseteq Attempts' /\ \A n : Started(b, n) => Started(b, n)'
  BY StartedLasts
<1>2. ASSUME NEW j, CookiesOk(b, j) PROVE CookiesOk(b, j)'
  BY <1>1, <1>2 DEF CookiesOk
<1>3. ASSUME NEW c, CallbackOk(b, c) PROVE CallbackOk(b, c)'
  <2>1. CASE c = NoCallback
    BY <2>1 DEF CallbackOk
  <2>2. CASE c # NoCallback
    <3>1. /\ c \in CallbackRows /\ Started(b, c.attempt)
          /\ c.at \in {"linking", "known", "linked"} => c.account \in Accounts
          /\ c.at = "known" => StaysOut(c.account, c.sv)
          /\ IF c.at = "linked" THEN c.new ELSE ~c.new
      BY <1>3, <2>2 DEF CallbackOk
    <3>2. Started(b, c.attempt)'
      BY <1>1, <3>1
    <3>3. c.sv \in Nat
      BY <3>1 DEF CallbackRows
    <3>4. c.at = "known" => StaysOut(c.account, c.sv)'
      BY <3>1, <3>3, StaysOutLasts
    <3> QED
      BY <3>1, <3>2, <3>4 DEF CallbackOk
  <2> QED
    BY <2>1, <2>2
<1>4. ASSUME NEW s, SessionOk(b, s) PROVE SessionOk(b, s)'
  <2>1. CASE s = SignedOut
    BY <2>1 DEF SessionOk
  <2>2. CASE s # SignedOut
    <3>1. s \in SessionRows /\ Started(b, s.attempt) /\ (~s.new => StaysOut(s.account, s.sv))
      BY <1>4, <2>2 DEF SessionOk
    <3>2. s.sv \in Nat /\ s.account \in Accounts /\ Started(b, s.attempt)'
      BY <1>1, <3>1 DEF SessionRows
    <3>3. ~s.new => StaysOut(s.account, s.sv)'
      BY <3>1, <3>2, StaysOutLasts
    <3> QED
      BY <3>1, <3>2, <3>3 DEF SessionOk
  <2> QED
    BY <2>1, <2>2
<1> QED
  BY <1>2, <1>3, <1>4

\* Every browser keeps what it had or gets something right.
LEMMA BrowsersStep ==
    ASSUME SsoInv, LoginsLast, VersionsGrow, account' \in [Accounts -> AccountRows],
           LinkedExist', OneAccountEach', confirmed' \in [Identities -> SUBSET Emails],
           codes' \subseteq [attempt : Attempts', identity : Identities],
           DOMAIN jar' = SsoBrowsers, DOMAIN callback' = SsoBrowsers, DOMAIN ssoSession' = SsoBrowsers,
           \A o \in SsoBrowsers :
             /\ jar'[o] = jar[o] \/ CookiesOk(o, jar[o])'
             /\ callback'[o] = callback[o] \/ CallbackOk(o, callback[o])'
             /\ ssoSession'[o] = ssoSession[o] \/ SessionOk(o, ssoSession[o])'
    PROVE  SsoInv'
<1>1. ASSUME NEW o \in SsoBrowsers
      PROVE  (CookiesOk(o, jar[o]) /\ CallbackOk(o, callback[o]) /\ SessionOk(o, ssoSession[o]))'
  <2>1. CookiesOk(o, jar[o]) /\ CallbackOk(o, callback[o]) /\ SessionOk(o, ssoSession[o])
    BY DEF SsoInv
  <2>2. /\ \A j : CookiesOk(o, j) => CookiesOk(o, j)'
        /\ \A c : CallbackOk(o, c) => CallbackOk(o, c)'
        /\ \A s : SessionOk(o, s) => SessionOk(o, s)'
    BY BrowsersKeep
  <2>3. CookiesOk(o, jar[o])'
    <3>1. CASE jar'[o] = jar[o]
      BY <2>1, <2>2, <3>1 DEF CookiesOk, Started
    <3> QED
      BY <3>1
  <2>4. CallbackOk(o, callback[o])'
    <3>1. CASE callback'[o] = callback[o]
      BY <2>1, <2>2, <3>1 DEF CallbackOk, Started, StaysOut
    <3> QED
      BY <3>1
  <2>5. SessionOk(o, ssoSession[o])'
    <3>1. CASE ssoSession'[o] = ssoSession[o]
      BY <2>1, <2>2, <3>1 DEF SessionOk, Started, StaysOut
    <3> QED
      BY <3>1
  <2> QED
    BY <2>3, <2>4, <2>5
<1>2. login' \in Seq(AttemptRows)
  BY DEF LoginsLast
<1> QED
  BY <1>1, <1>2 DEF SsoInv

\* The accounts and attempts are as they were.
LEMMA AccountsStand ==
    ASSUME SsoInv, UNCHANGED <<account, login>>
    PROVE  /\ LoginsLast /\ VersionsGrow /\ account' \in [Accounts -> AccountRows]
           /\ LinkedExist' /\ OneAccountEach' /\ Attempts' = Attempts
<1>1. login' \in Seq(AttemptRows) /\ Len(login) \in Nat /\ Attempts' = Attempts
  BY DEF SsoInv, Attempts
<1>2. \A a \in Accounts : account[a].sv \in Nat
  BY DEF SsoInv, AccountRows
<1>3. LoginsLast
  BY <1>1 DEF LoginsLast
<1>4. VersionsGrow
  BY <1>2 DEF VersionsGrow
<1> QED
  BY <1>1, <1>3, <1>4 DEF SsoInv, LinkedExist, OneAccountEach

LEMMA BeginSsoKeeps ==
    ASSUME SsoInv, NEW b \in SsoBrowsers, NEW f \in Flows, BeginSso(b, f)
    PROVE  SsoInv'
<1>1. /\ login' = Append(login, Attempt(b, f)) /\ jar' = [jar EXCEPT ![b][f] = Len(login')]
      /\ UNCHANGED <<account, confirmed, codes, callback, ssoSession>>
  BY DEF BeginSso
<1>2. Attempt(b, f) \in AttemptRows /\ Attempt(b, f).browser = b
  BY DEF Attempt, AttemptRows
<1>3. login \in Seq(AttemptRows) /\ Len(login) \in Nat
  BY DEF SsoInv
<1>4. /\ login' \in Seq(AttemptRows) /\ Len(login') = Len(login) + 1
      /\ \A n \in 1..Len(login) : login'[n] = login[n]
      /\ login'[Len(login) + 1] = Attempt(b, f)
  BY <1>1, <1>2, <1>3, AppendProperties
<1>5. LoginsLast /\ Attempts' = Attempts \cup {Len(login')}
  BY <1>3, <1>4 DEF LoginsLast, Attempts
<1>6. /\ VersionsGrow /\ account' \in [Accounts -> AccountRows]
      /\ LinkedExist' /\ OneAccountEach'
  <2>1. \A a \in Accounts : account[a].sv \in Nat
    BY DEF SsoInv, AccountRows
  <2>2. VersionsGrow
    BY <1>1, <2>1 DEF VersionsGrow
  <2> QED
    BY <1>1, <2>2 DEF SsoInv, LinkedExist, OneAccountEach
<1>7. codes' \subseteq [attempt : Attempts', identity : Identities]
  BY <1>1, <1>5 DEF SsoInv
<1>8. CookiesOk(b, jar[b])'
  <2>1. CookiesOk(b, jar[b]) /\ b \in DOMAIN jar
    BY DEF SsoInv
  <2>2. jar[b] \in [Flows -> {0} \cup Attempts]
    BY <2>1 DEF CookiesOk
  <2>3. jar'[b] = [jar[b] EXCEPT ![f] = Len(login')]
    BY <1>1, <2>1
  <2>4. jar'[b] \in [Flows -> {0} \cup Attempts']
    BY <1>5, <2>2, <2>3
  <2>5. Started(b, Len(login))'
    BY <1>2, <1>3, <1>4, <1>5 DEF Started
  <2>6. \A g \in Flows : jar'[b][g] # 0 => Started(b, jar[b][g])'
    <3>1. SUFFICES ASSUME NEW g \in Flows, jar'[b][g] # 0 PROVE Started(b, jar[b][g])'
      OBVIOUS
    <3>2. CASE g = f
      <4>1. jar'[b][g] = Len(login')
        BY <2>2, <2>3, <3>2
      <4> QED
        BY <2>5, <4>1 DEF Started
    <3>3. CASE g # f
      <4>1. jar'[b][g] = jar[b][g]
        BY <2>2, <2>3, <3>3
      <4>2. Started(b, jar[b][g])
        BY <2>1, <3>1, <4>1 DEF CookiesOk
      <4> QED
        BY <1>5, <4>1, <4>2 DEF Started, LoginsLast
    <3> QED
      BY <3>2, <3>3
  <2> QED
    BY <2>4, <2>6 DEF CookiesOk
<1>9. \A o \in SsoBrowsers : jar'[o] = jar[o] \/ CookiesOk(o, jar[o])'
  <2>1. \A o \in SsoBrowsers \ {b} : jar'[o] = jar[o]
    BY <1>1 DEF SsoInv
  <2> QED
    BY <1>8, <2>1
<1>10. /\ DOMAIN jar' = SsoBrowsers /\ DOMAIN callback' = SsoBrowsers /\ DOMAIN ssoSession' = SsoBrowsers
       /\ confirmed' \in [Identities -> SUBSET Emails]
  BY <1>1 DEF SsoInv
<1> QED
  BY <1>1, <1>5, <1>6, <1>7, <1>9, <1>10, BrowsersStep

\* A state cookie that goes away.
LEMMA CookieCleared ==
    ASSUME SsoInv, NEW b \in SsoBrowsers, NEW f \in Flows, Attempts' = Attempts, login' = login,
           jar' = [jar EXCEPT ![b][f] = 0]
    PROVE  /\ DOMAIN jar' = SsoBrowsers
           /\ \A o \in SsoBrowsers : jar'[o] = jar[o] \/ CookiesOk(o, jar[o])'
<1>1. CookiesOk(b, jar[b]) /\ b \in DOMAIN jar /\ DOMAIN jar = SsoBrowsers
  BY DEF SsoInv
<1>2. DOMAIN jar' = SsoBrowsers /\ jar'[b] = [jar[b] EXCEPT ![f] = 0]
      /\ \A o \in SsoBrowsers \ {b} : jar'[o] = jar[o]
  BY <1>1
<1>3. CookiesOk(b, jar[b])'
  <2>1. jar'[b] \in [Flows -> {0} \cup Attempts']
    BY <1>1, <1>2 DEF CookiesOk
  <2>2. \A g \in Flows : jar'[b][g] # 0 => jar'[b][g] = jar[b][g] /\ Started(b, jar[b][g])
    BY <1>1, <1>2 DEF CookiesOk
  <2>3. \A g \in Flows : jar'[b][g] # 0 => Started(b, jar[b][g])'
    BY <2>2 DEF Started
  <2> QED
    BY <2>1, <2>3 DEF CookiesOk
<1> QED
  BY <1>2, <1>3

\* A callback that ends or goes on, of browser b.
LEMMA CallbackSteps ==
    ASSUME SsoInv, NEW b \in SsoBrowsers, NEW c, callback' = [callback EXCEPT ![b] = c],
           CallbackOk(b, c)'
    PROVE  /\ DOMAIN callback' = SsoBrowsers
           /\ \A o \in SsoBrowsers : callback'[o] = callback[o] \/ CallbackOk(o, callback[o])'
<1>1. /\ DOMAIN callback' = SsoBrowsers /\ callback'[b] = c
      /\ \A o \in SsoBrowsers \ {b} : callback'[o] = callback[o]
  BY DEF SsoInv
<1>2. CallbackOk(b, callback[b])'
  BY <1>1 DEF CallbackOk, StaysOut, Started
<1> QED
  BY <1>1, <1>2

LEMMA CookieGoesKeeps ==
    ASSUME SsoInv, NEW b \in SsoBrowsers, NEW f \in Flows, CookieGoes(b, f)
    PROVE  SsoInv'
<1>1. /\ jar' = [jar EXCEPT ![b][f] = 0]
      /\ UNCHANGED <<account, confirmed, login, codes, callback, ssoSession>>
  BY DEF CookieGoes
<1>2. /\ LoginsLast /\ VersionsGrow /\ account' \in [Accounts -> AccountRows]
      /\ LinkedExist' /\ OneAccountEach' /\ Attempts' = Attempts
  BY <1>1, AccountsStand
<1>3. /\ DOMAIN jar' = SsoBrowsers
      /\ \A o \in SsoBrowsers : jar'[o] = jar[o] \/ CookiesOk(o, jar[o])'
  BY <1>1, <1>2, CookieCleared
<1>4. /\ DOMAIN callback' = SsoBrowsers /\ DOMAIN ssoSession' = SsoBrowsers
      /\ confirmed' \in [Identities -> SUBSET Emails]
      /\ codes' \subseteq [attempt : Attempts', identity : Identities]
  BY <1>1, <1>2 DEF SsoInv
<1> QED
  BY <1>1, <1>2, <1>3, <1>4, BrowsersStep

\* A callback that goes on with what it found.
LEMMA LookupKeeps ==
    ASSUME SsoInv, NEW b \in SsoBrowsers, NEW c, Proceed(b, c), CallbackOk(b, c),
           UNCHANGED <<account, confirmed, login, jar, ssoSession>>, codes' \subseteq codes
    PROVE  SsoInv'
<1>1. /\ LoginsLast /\ VersionsGrow /\ account' \in [Accounts -> AccountRows]
      /\ LinkedExist' /\ OneAccountEach' /\ Attempts' = Attempts
  BY AccountsStand
<1>2. CallbackOk(b, c)' /\ callback' = [callback EXCEPT ![b] = c]
  BY <1>1, BrowsersKeep DEF Proceed
<1>3. /\ DOMAIN callback' = SsoBrowsers
      /\ \A o \in SsoBrowsers : callback'[o] = callback[o] \/ CallbackOk(o, callback[o])'
  BY <1>2, CallbackSteps
<1>4. /\ DOMAIN ssoSession' = SsoBrowsers /\ confirmed' \in [Identities -> SUBSET Emails]
      /\ DOMAIN jar' = SsoBrowsers
      /\ codes' \subseteq [attempt : Attempts', identity : Identities]
  BY <1>1 DEF SsoInv
<1> QED
  BY <1>1, <1>3, <1>4, BrowsersStep

LEMMA CallbackKeeps ==
    ASSUME SsoInv, NEW b \in SsoBrowsers, NEW f \in Flows, NEW n, NEW code \in codes,
           Callback(b, f, n, code)
    PROVE  SsoInv'
<1>1. UNCHANGED <<account, confirmed, login, ssoSession>> /\ jar[b][f] # 0
  BY DEF Callback
<1>2. /\ LoginsLast /\ VersionsGrow /\ account' \in [Accounts -> AccountRows]
      /\ LinkedExist' /\ OneAccountEach' /\ Attempts' = Attempts
  BY <1>1, AccountsStand
<1>3. /\ DOMAIN ssoSession' = SsoBrowsers /\ DOMAIN jar = SsoBrowsers /\ DOMAIN callback = SsoBrowsers
      /\ confirmed' \in [Identities -> SUBSET Emails]
      /\ code.attempt \in Attempts /\ code.identity \in Identities
      /\ confirmed[code.identity] \in SUBSET Emails
  BY <1>1 DEF SsoInv
<1>4. codes' \subseteq codes /\ codes' \subseteq [attempt : Attempts', identity : Identities]
  <2>1. codes' \subseteq codes
    BY DEF Callback
  <2> QED
    BY <1>2, <2>1 DEF SsoInv
<1> DEFINE c == [at |-> "proved", flow |-> f, identity |-> code.identity,
                 emails |-> confirmed[code.identity], attempt |-> code.attempt,
                 account |-> "none", sv |-> 0, new |-> FALSE]
<1>5. CASE jar' = jar /\ Redeems(b, f, code) /\ callback' = [callback EXCEPT ![b] = c]
  <2>1. code.attempt = jar[b][f]
    BY <1>5 DEF Redeems, VerifierFits
  <2>2. Started(b, code.attempt)
    BY <1>1, <2>1 DEF SsoInv, CookiesOk
  <2>3. code.attempt \in Nat
    BY <1>3 DEF Attempts
  <2>4. c \in CallbackRows /\ c.attempt = code.attempt /\ c.at = "proved" /\ ~c.new
    BY <1>3, <2>3 DEF CallbackRows
  <2> HIDE DEF c
  <2>5. CallbackOk(b, c) /\ Proceed(b, c)
    BY <1>5, <2>2, <2>4 DEF CallbackOk, Proceed
  <2> QED
    BY <1>1, <1>4, <1>5, <2>5, LookupKeeps
<1>6. CASE jar' = [jar EXCEPT ![b][f] = 0] /\ callback' = callback
  <2>1. /\ DOMAIN jar' = SsoBrowsers
        /\ \A o \in SsoBrowsers : jar'[o] = jar[o] \/ CookiesOk(o, jar[o])'
    BY <1>1, <1>2, <1>6, CookieCleared
  <2> QED
    BY <1>1, <1>2, <1>3, <1>4, <1>6, <2>1, BrowsersStep
<1> QED
  BY <1>5, <1>6 DEF Callback

\* A callback that is refused, while accounts stand.
LEMMA RefuseKeeps ==
    ASSUME SsoInv, NEW b \in SsoBrowsers, callback[b] # NoCallback, Refuse(b),
           UNCHANGED <<account, confirmed, login, codes, ssoSession>>
    PROVE  SsoInv'
<1>1. callback[b] \in CallbackRows
  BY DEF SsoInv, CallbackOk
<1>2. callback[b].flow \in Flows
  BY <1>1 DEF CallbackRows
<1>3. /\ LoginsLast /\ VersionsGrow /\ account' \in [Accounts -> AccountRows]
      /\ LinkedExist' /\ OneAccountEach' /\ Attempts' = Attempts
  BY AccountsStand
<1>4. /\ DOMAIN jar' = SsoBrowsers
      /\ \A o \in SsoBrowsers : jar'[o] = jar[o] \/ CookiesOk(o, jar[o])'
  <2>1. jar' = [jar EXCEPT ![b][callback[b].flow] = 0]
    BY DEF Refuse
  <2> QED
    BY <1>2, <1>3, <2>1, CookieCleared
<1>5. CallbackOk(b, NoCallback)'
  BY DEF CallbackOk
<1>6. callback' = [callback EXCEPT ![b] = NoCallback]
  BY DEF Refuse
<1>7. /\ DOMAIN callback' = SsoBrowsers
      /\ \A o \in SsoBrowsers : callback'[o] = callback[o] \/ CallbackOk(o, callback[o])'
  BY <1>5, <1>6, CallbackSteps
<1>8. /\ DOMAIN ssoSession' = SsoBrowsers /\ confirmed' \in [Identities -> SUBSET Emails]
      /\ codes' \subseteq [attempt : Attempts', identity : Identities]
  BY <1>3 DEF SsoInv
<1> QED
  BY <1>3, <1>4, <1>7, <1>8, BrowsersStep

LEMMA CallbackIs ==
    ASSUME SsoInv, NEW b \in SsoBrowsers, callback[b].at # "idle"
    PROVE  /\ callback[b] # NoCallback /\ callback[b] \in CallbackRows
           /\ Started(b, callback[b].attempt) /\ callback[b].identity \in Identities
           /\ callback[b].at \in {"linking", "known", "linked"} => callback[b].account \in Accounts
           /\ callback[b].at = "known" => StaysOut(callback[b].account, callback[b].sv)
           /\ IF callback[b].at = "linked" THEN callback[b].new ELSE ~callback[b].new
<1>1. callback[b] # NoCallback
  BY DEF NoCallback
<1>2. callback[b] \in CallbackRows
  BY <1>1 DEF SsoInv, CallbackOk
<1>3. callback[b].identity \in Identities
  BY <1>2 DEF CallbackRows
<1> QED
  BY <1>1, <1>2, <1>3 DEF SsoInv, CallbackOk

LEMMA MatchKeeps ==
    ASSUME SsoInv, NEW b \in SsoBrowsers, MatchIdentity(b) \/ MatchEmail(b)
    PROVE  SsoInv'
<1>1. callback[b].at \in {"proved", "unmatched"}
      /\ UNCHANGED <<account, confirmed, login, codes, ssoSession>>
  BY DEF MatchIdentity, MatchEmail
<1>2. callback[b] # NoCallback /\ callback[b] \in CallbackRows /\ Started(b, callback[b].attempt)
      /\ ~callback[b].new
  BY <1>1, CallbackIs
<1>3. CASE Refuse(b)
  BY <1>1, <1>2, <1>3, RefuseKeeps
<1>4. CASE jar' = jar /\ Proceed(b, [callback[b] EXCEPT !.at = "unmatched"])
  <2> DEFINE c == [callback[b] EXCEPT !.at = "unmatched"]
  <2>1. c \in CallbackRows /\ c.at = "unmatched" /\ c.attempt = callback[b].attempt
        /\ c.new = callback[b].new
    BY <1>2 DEF CallbackRows
  <2>2. CallbackOk(b, c) /\ Proceed(b, c)
    BY <1>2, <1>4, <2>1 DEF CallbackOk
  <2> HIDE DEF c
  <2> QED
    BY <1>1, <1>4, <2>2, LookupKeeps
<1>5. ASSUME jar' = jar, NEW a \in Accounts, MaySignIn(a), MatchIdentity(b),
             Proceed(b, [callback[b] EXCEPT !.at = "known", !.account = a, !.sv = account[a].sv])
      PROVE  SsoInv'
  <2> DEFINE c == [callback[b] EXCEPT !.at = "known", !.account = a, !.sv = account[a].sv]
  <2>1. account[a].sv \in Nat
    BY DEF SsoInv, AccountRows
  <2>3. /\ c \in CallbackRows /\ c.at = "known" /\ c.attempt = callback[b].attempt
        /\ c.account = a /\ c.sv = account[a].sv /\ c.new = callback[b].new
    BY <1>2, <2>1 DEF CallbackRows
  <2>4. StaysOut(a, account[a].sv)
    BY <1>5, <2>1 DEF StaysOut, MaySignIn
  <2>5. CallbackOk(b, c) /\ Proceed(b, c)
    BY <1>2, <1>5, <2>3, <2>4 DEF CallbackOk
  <2> HIDE DEF c
  <2> QED
    BY <1>1, <1>5, <2>5, LookupKeeps
<1>6. ASSUME jar' = jar, NEW a \in Accounts,
             Proceed(b, [callback[b] EXCEPT !.at = "linking", !.account = a])
      PROVE  SsoInv'
  <2> DEFINE c == [callback[b] EXCEPT !.at = "linking", !.account = a]
  <2>1. /\ c \in CallbackRows /\ c.at = "linking" /\ c.attempt = callback[b].attempt /\ c.account = a
        /\ c.new = callback[b].new
    BY <1>2 DEF CallbackRows
  <2>2. CallbackOk(b, c) /\ Proceed(b, c)
    BY <1>2, <1>6, <2>1 DEF CallbackOk
  <2> HIDE DEF c
  <2> QED
    BY <1>1, <1>6, <2>2, LookupKeeps
<1>7. \A i : Bound(i) \subseteq Accounts
  BY DEF Bound
<1>8. \A emails : ByEmail(emails) \subseteq Accounts
  BY DEF ByEmail
<1>9. CASE MatchIdentity(b)
  BY <1>3, <1>4, <1>5, <1>7, <1>9 DEF MatchIdentity
<1>10. CASE MatchEmail(b)
  BY <1>3, <1>6, <1>8, <1>10 DEF MatchEmail
<1> QED
  BY <1>9, <1>10

\* A row that keeps its version, or ends the sessions with it, and is not bound anew.
LEMMA RowStands ==
    ASSUME SsoInv, NEW a \in Accounts, NEW row \in AccountRows, account' = [account EXCEPT ![a] = row],
           account[a].sv <= row.sv, row.sv = account[a].sv /\ row.admin => account[a].admin,
           row.link # NoLink => row.exists
    PROVE  /\ account' \in [Accounts -> AccountRows] /\ VersionsGrow /\ LinkedExist'
           /\ account'[a] = row /\ \A o \in Accounts \ {a} : account'[o] = account[o]
<1>1. /\ account' \in [Accounts -> AccountRows]
      /\ account'[a] = row /\ \A o \in Accounts \ {a} : account'[o] = account[o]
  BY DEF SsoInv
<1>2. \A o \in Accounts : account[o].sv \in Nat
  BY DEF SsoInv, AccountRows
<1>3. VersionsGrow
  BY <1>1, <1>2 DEF VersionsGrow
<1>4. LinkedExist'
  BY <1>1 DEF SsoInv, LinkedExist
<1> QED
  BY <1>1, <1>3, <1>4

LEMMA ChangedKeeps ==
    ASSUME SsoInv, NEW a \in Accounts, NEW row \in AccountRows, Changed(a, row),
           account[a].sv <= row.sv, row.sv = account[a].sv /\ row.admin => account[a].admin,
           row.link \in {account[a].link, NoLink}, row.link # NoLink => row.exists
    PROVE  SsoInv'
<1>1. account' = [account EXCEPT ![a] = row]
      /\ UNCHANGED <<confirmed, login, codes, jar, callback, ssoSession>>
  BY DEF Changed
<1>2. /\ account' \in [Accounts -> AccountRows] /\ VersionsGrow /\ LinkedExist'
      /\ account'[a] = row /\ \A o \in Accounts \ {a} : account'[o] = account[o]
  BY <1>1, RowStands
<1>3. OneAccountEach'
  BY <1>2 DEF SsoInv, OneAccountEach
<1>4. LoginsLast /\ Attempts' = Attempts
  BY <1>1 DEF LoginsLast, Attempts, SsoInv
<1>5. /\ DOMAIN ssoSession' = SsoBrowsers /\ confirmed' \in [Identities -> SUBSET Emails]
      /\ DOMAIN jar' = SsoBrowsers /\ DOMAIN callback' = SsoBrowsers
      /\ codes' \subseteq [attempt : Attempts', identity : Identities]
  BY <1>1, <1>4 DEF SsoInv
<1> QED
  BY <1>1, <1>2, <1>3, <1>4, <1>5, BrowsersStep

LEMMA AdministratorKeeps ==
    ASSUME SsoInv, NEW a \in Accounts,
           \/ SetAdmin(a) \/ SetActivity(a) \/ UnlinkSso(a) \/ DropAccount(a)
           \/ \E e \in Emails : SetEmail(a, e)
    PROVE  SsoInv'
<1>1. account[a] \in AccountRows /\ (account[a].link # NoLink => account[a].exists)
  BY DEF SsoInv, LinkedExist
<1>2. account[a].sv \in Nat
  BY <1>1 DEF AccountRows
<1>3. CASE SetAdmin(a)
  <2> DEFINE v == account[a].sv + 1
             other == ~account[a].admin
             row == [account[a] EXCEPT !.admin = other, !.sv = v]
  <2>1. v \in Nat /\ account[a].sv <= v /\ v # account[a].sv
    BY <1>2
  <2>2. other \in BOOLEAN
    OBVIOUS
  <2>3. Changed(a, row)
    BY <1>3 DEF SetAdmin
  <2> HIDE DEF v, other
  <2>4. row \in AccountRows /\ row.sv = v /\ row.link = account[a].link
        /\ row.exists = account[a].exists
    BY <1>1, <2>1, <2>2 DEF AccountRows
  <2> HIDE DEF row
  <2> QED
    BY <1>1, <2>1, <2>3, <2>4, ChangedKeeps
<1>4. CASE SetActivity(a)
  <2> DEFINE v == IF account[a].active THEN account[a].sv + 1 ELSE account[a].sv
             row == [account[a] EXCEPT !.active = ~account[a].active, !.sv = v]
  <2>1. v \in Nat /\ account[a].sv <= v
    BY <1>2
  <2>2. Changed(a, row)
    BY <1>4 DEF SetActivity
  <2> HIDE DEF v
  <2>3. row \in AccountRows /\ row.sv = v /\ row.link = account[a].link
        /\ row.exists = account[a].exists /\ row.admin = account[a].admin
    BY <1>1, <2>1 DEF AccountRows
  <2> HIDE DEF row
  <2> QED
    BY <1>1, <2>1, <2>2, <2>3, ChangedKeeps
<1>5. CASE UnlinkSso(a)
  <2> DEFINE row == [account[a] EXCEPT !.link = NoLink]
  <2>1. row \in AccountRows /\ row.sv = account[a].sv /\ row.link = NoLink
        /\ row.admin = account[a].admin
    BY <1>1 DEF AccountRows
  <2>2. Changed(a, row)
    BY <1>5 DEF UnlinkSso
  <2> HIDE DEF row
  <2>3. account[a].sv <= row.sv
    BY <1>2, <2>1
  <2> QED
    BY <1>1, <2>1, <2>2, <2>3, ChangedKeeps
<1>6. CASE DropAccount(a)
  <2> DEFINE row == [account[a] EXCEPT !.exists = FALSE, !.link = NoLink]
  <2>1. row \in AccountRows /\ row.sv = account[a].sv /\ row.link = NoLink
        /\ row.admin = account[a].admin
    BY <1>1 DEF AccountRows
  <2>2. Changed(a, row)
    BY <1>6 DEF DropAccount
  <2> HIDE DEF row
  <2>3. account[a].sv <= row.sv
    BY <1>2, <2>1
  <2> QED
    BY <1>1, <2>1, <2>2, <2>3, ChangedKeeps
<1>7. ASSUME NEW e \in Emails, SetEmail(a, e) PROVE SsoInv'
  <2> DEFINE row == [account[a] EXCEPT !.email = e]
  <2>1. row \in AccountRows /\ row.sv = account[a].sv /\ row.link = account[a].link
        /\ row.admin = account[a].admin /\ row.exists = account[a].exists
    BY <1>1 DEF AccountRows
  <2>2. Changed(a, row)
    BY <1>7 DEF SetEmail
  <2> HIDE DEF row
  <2>3. account[a].sv <= row.sv
    BY <1>2, <2>1
  <2> QED
    BY <1>1, <2>1, <2>2, <2>3, ChangedKeeps
<1> QED
  BY <1>3, <1>4, <1>5, <1>6, <1>7

LEMMA CommitLinkKeeps ==
    ASSUME SsoInv, NEW b \in SsoBrowsers, CommitLink(b)
    PROVE  SsoInv'
<1> DEFINE a == callback[b].account
           i == callback[b].identity
           row == [account[a] EXCEPT !.link = i]
           c == [callback[b] EXCEPT !.at = "linked", !.new = TRUE]
<1>1. callback[b].at = "linking" /\ UNCHANGED <<confirmed, login, codes, ssoSession>>
  BY DEF CommitLink
<1>2. /\ callback[b] # NoCallback /\ callback[b] \in CallbackRows /\ Started(b, callback[b].attempt)
      /\ i \in Identities /\ a \in Accounts
  BY <1>1, CallbackIs
<1>3. CASE callback' = [callback EXCEPT ![b] = NoCallback] /\ UNCHANGED <<account, jar>>
  <2>1. CallbackOk(b, NoCallback) /\ Proceed(b, NoCallback)
    BY <1>3 DEF CallbackOk, Proceed
  <2> QED
    BY <1>1, <1>3, <2>1, LookupKeeps
<1>4. CASE Refuse(b) /\ UNCHANGED account
  BY <1>1, <1>2, <1>4, RefuseKeeps
<1>5. CASE /\ account[a].exists /\ ~Taken(i) /\ account' = [account EXCEPT ![a] = row]
           /\ Proceed(b, c) /\ UNCHANGED jar
  <2>1. account[a] \in AccountRows /\ account[a].sv \in Nat
    BY <1>2 DEF SsoInv, AccountRows
  <2>2. /\ row \in AccountRows /\ row.link = i /\ row.sv = account[a].sv
        /\ row.admin = account[a].admin /\ row.exists = account[a].exists
    BY <1>2, <2>1 DEF AccountRows
  <2>3. /\ c \in CallbackRows /\ c.attempt = callback[b].attempt /\ c.at = "linked" /\ c.new
        /\ c.account = a
    BY <1>2 DEF CallbackRows
  <2>4. CallbackOk(b, c)
    BY <1>2, <2>3 DEF CallbackOk
  <2> HIDE DEF row, c, a, i
  <2>5. /\ account' \in [Accounts -> AccountRows] /\ VersionsGrow /\ LinkedExist'
        /\ account'[a] = row /\ \A o \in Accounts \ {a} : account'[o] = account[o]
    <3>1. account[a].sv <= row.sv
      BY <2>1, <2>2
    <3> QED
      BY <1>2, <1>5, <2>2, <3>1, RowStands
  <2>6. OneAccountEach'
    <3>1. \A o \in Accounts : account[o].link # i
      BY <1>2, <1>5, SsoConstants DEF Taken, Bound, SsoInv, LinkedExist, Identities
    <3> QED
      BY <2>2, <2>5, <3>1 DEF SsoInv, OneAccountEach
  <2>7. LoginsLast /\ Attempts' = Attempts
    BY <1>1 DEF LoginsLast, Attempts, SsoInv
  <2>8. /\ DOMAIN ssoSession' = SsoBrowsers /\ confirmed' \in [Identities -> SUBSET Emails]
        /\ DOMAIN jar' = SsoBrowsers
        /\ codes' \subseteq [attempt : Attempts', identity : Identities]
    BY <1>1, <1>5, <2>7 DEF SsoInv
  <2>9. /\ DOMAIN callback' = SsoBrowsers
        /\ \A o \in SsoBrowsers : callback'[o] = callback[o] \/ CallbackOk(o, callback[o])'
    <3>1. ASSUME NEW d, d = c
          PROVE  /\ DOMAIN callback' = SsoBrowsers
                 /\ \A o \in SsoBrowsers : callback'[o] = callback[o] \/ CallbackOk(o, callback[o])'
      <4>1. CallbackOk(b, d) /\ callback' = [callback EXCEPT ![b] = d]
        BY <1>5, <2>4, <3>1 DEF Proceed
      <4>2. CallbackOk(b, d)'
        BY <2>5, <2>7, <4>1, BrowsersKeep
      <4> QED
        BY <4>1, <4>2, CallbackSteps
    <3> QED
      BY <3>1
  <2> QED
    BY <1>1, <1>5, <2>5, <2>6, <2>7, <2>8, <2>9, BrowsersStep
<1> QED
  BY <1>3, <1>4, <1>5 DEF CommitLink

LEMMA FinishKeeps ==
    ASSUME SsoInv, NEW b \in SsoBrowsers, FinishSso(b)
    PROVE  SsoInv'
<1> DEFINE s == [account |-> callback[b].account, sv |-> SessionVersion(b),
                 attempt |-> callback[b].attempt, new |-> callback[b].new]
<1>1. /\ callback[b].at \in {"known", "linked"} /\ UNCHANGED <<account, confirmed, login, codes>>
      /\ callback' = [callback EXCEPT ![b] = NoCallback]
  BY DEF FinishSso
<1>2. /\ callback[b] \in CallbackRows /\ Started(b, callback[b].attempt)
      /\ callback[b].account \in Accounts
      /\ ~callback[b].new => StaysOut(callback[b].account, callback[b].sv)
  BY <1>1, CallbackIs
<1>3. /\ callback[b].flow \in Flows /\ callback[b].new \in BOOLEAN /\ callback[b].sv \in Nat
      /\ callback[b].attempt \in Nat
  BY <1>2 DEF CallbackRows
<1>4. /\ LoginsLast /\ VersionsGrow /\ account' \in [Accounts -> AccountRows]
      /\ LinkedExist' /\ OneAccountEach' /\ Attempts' = Attempts
  BY <1>1, AccountsStand
<1>5. /\ DOMAIN callback' = SsoBrowsers
      /\ \A o \in SsoBrowsers : callback'[o] = callback[o] \/ CallbackOk(o, callback[o])'
  <2>1. CallbackOk(b, NoCallback)'
    BY DEF CallbackOk
  <2> QED
    BY <1>1, <2>1, CallbackSteps
<1>6. /\ DOMAIN jar' = SsoBrowsers
      /\ \A o \in SsoBrowsers : jar'[o] = jar[o] \/ CookiesOk(o, jar[o])'
  <2>1. CASE jar' = jar
    BY <2>1 DEF SsoInv
  <2>2. CASE jar' = [jar EXCEPT ![b][callback[b].flow] = 0]
    BY <1>1, <1>3, <1>4, <2>2, CookieCleared
  <2> QED
    BY <2>1, <2>2 DEF FinishSso
<1>7. /\ DOMAIN ssoSession' = SsoBrowsers
      /\ \A o \in SsoBrowsers : ssoSession'[o] = ssoSession[o] \/ SessionOk(o, ssoSession[o])'
  <2>1. CASE ssoSession' = ssoSession
    BY <2>1 DEF SsoInv
  <2>2. CASE ssoSession' = [ssoSession EXCEPT ![b] = s]
    <3>1. account[callback[b].account].sv \in Nat
      BY <1>2 DEF SsoInv, AccountRows
    <3>2. SessionVersion(b) \in Nat /\ (~callback[b].new => SessionVersion(b) = callback[b].sv)
      BY <1>3, <3>1 DEF SessionVersion
    <3>3. /\ s \in SessionRows /\ s.attempt = callback[b].attempt /\ s.new = callback[b].new
          /\ s.account = callback[b].account /\ s.sv = SessionVersion(b)
      BY <1>2, <1>3, <3>2 DEF SessionRows
    <3> HIDE DEF s
    <3>4. SessionOk(b, s)
      BY <1>2, <3>2, <3>3 DEF SessionOk
    <3>5. ASSUME NEW d, d = s PROVE SessionOk(b, ssoSession[b])'
      <4>1. SessionOk(b, d)'
        BY <1>4, <3>4, <3>5, BrowsersKeep
      <4>2. ssoSession'[b] = d
        BY <2>2, <3>5 DEF SsoInv
      <4> QED
        BY <4>1, <4>2 DEF SessionOk, Started, StaysOut
    <3>6. SessionOk(b, ssoSession[b])'
      BY <3>5
    <3>7. DOMAIN ssoSession' = SsoBrowsers /\ \A o \in SsoBrowsers \ {b} : ssoSession'[o] = ssoSession[o]
      BY <2>2 DEF SsoInv
    <3> QED
      BY <3>6, <3>7
  <2> QED
    BY <2>1, <2>2 DEF FinishSso
<1>8. /\ confirmed' \in [Identities -> SUBSET Emails]
      /\ codes' \subseteq [attempt : Attempts', identity : Identities]
  BY <1>1, <1>4 DEF SsoInv
<1> QED
  BY <1>4, <1>5, <1>6, <1>7, <1>8, BrowsersStep

LEMMA ProvidersKeep ==
    ASSUME SsoInv,
           \/ \E n \in Attempts, i \in Identities : Authorise(n, i)
           \/ \E i \in Identities, emails \in SUBSET Emails : ProviderVerifies(i, emails)
           \/ UNCHANGED ssoVars
    PROVE  SsoInv'
<1>1. UNCHANGED <<account, login, jar, callback, ssoSession>>
  BY DEF Authorise, ProviderVerifies, ssoVars
<1>2. /\ LoginsLast /\ VersionsGrow /\ account' \in [Accounts -> AccountRows]
      /\ LinkedExist' /\ OneAccountEach' /\ Attempts' = Attempts
  BY <1>1, AccountsStand
<1>3. codes' \subseteq [attempt : Attempts', identity : Identities]
  <2>1. CASE codes' = codes
    BY <1>2, <2>1 DEF SsoInv
  <2>2. ASSUME NEW n \in Attempts, NEW i \in Identities, Authorise(n, i)
        PROVE  codes' \subseteq [attempt : Attempts', identity : Identities]
    BY <1>2, <2>2 DEF SsoInv, Authorise
  <2> QED
    BY <2>1, <2>2 DEF ProviderVerifies, ssoVars
<1>4. confirmed' \in [Identities -> SUBSET Emails]
  BY DEF SsoInv, Authorise, ProviderVerifies, ssoVars
<1>5. DOMAIN ssoSession' = SsoBrowsers /\ DOMAIN jar' = SsoBrowsers /\ DOMAIN callback' = SsoBrowsers
  BY <1>1 DEF SsoInv
<1> QED
  BY <1>1, <1>2, <1>3, <1>4, <1>5, BrowsersStep

LEMMA SsoKeeps == SsoInv /\ [SsoNext]_ssoVars => SsoInv'
BY BeginSsoKeeps, CookieGoesKeeps, CallbackKeeps, MatchKeeps, CommitLinkKeeps, FinishKeeps,
   AdministratorKeeps, ProvidersKeep DEF SsoNext, Attempts

LEMMA SsoTyped == SsoInv => SsoTypes
<1> SUFFICES ASSUME SsoInv PROVE SsoTypes
  OBVIOUS
<1>1. account \in [Accounts -> [exists : BOOLEAN, email : Emails, active : BOOLEAN,
                                admin : BOOLEAN, sv : Nat, link : Identities \cup {NoLink}]]
  BY DEF SsoInv, AccountRows
<1>2. codes \subseteq [attempt : 1..Len(login), identity : Identities]
  BY DEF SsoInv, Attempts
<1>3. ASSUME NEW b \in SsoBrowsers
      PROVE  /\ jar[b] \in [Flows -> 0..Len(login)]
             /\ callback[b].at \in {"idle", "proved", "unmatched", "linking", "known", "linked"}
  <2>1. {0} \cup Attempts = 0..Len(login)
    BY DEF SsoInv, Attempts
  <2>2. jar[b] \in [Flows -> 0..Len(login)]
    BY <2>1 DEF SsoInv, CookiesOk
  <2>3. CASE callback[b] = NoCallback
    BY <2>2, <2>3 DEF NoCallback
  <2>4. CASE callback[b] \in CallbackRows
    BY <2>2, <2>4 DEF CallbackRows
  <2> QED
    BY <2>3, <2>4 DEF SsoInv, CallbackOk
<1> QED
  BY <1>1, <1>2, <1>3 DEF SsoTypes

LEMMA SsoIsSound == SsoInv => SsoSound
<1> SUFFICES ASSUME SsoInv PROVE SsoSound
  OBVIOUS
<1>1. OwnAttempts
  BY DEF OwnAttempts, SsoInv, SessionOk, Started
<1>2. AdminsStayOut
  BY DEF AdminsStayOut, LiveSso, SsoInv, SessionOk, StaysOut
<1> QED
  BY <1>1, <1>2 DEF SsoSound, SsoInv

\* Whatever redirects, callbacks and changes of accounts overlap, a browser is signed in by
\* its own attempt, an identity is bound to one account, and a promotion ends the sessions
\* of an identity bound before (verify_state, ux_users_sso_identity, resolve_user).
THEOREM SsoStaysSound == SsoSpec => []SsoSound
<1>1. SsoSpec => []SsoInv
  BY SsoStart, SsoKeeps, PTL DEF SsoSpec
<1> QED
  BY <1>1, SsoIsSound, PTL

-----------------------------------------------------------------------------
(* The second factor.  A proof cannot count twice because the row keeps,   *)
(* for every proof that counted, what refuses it: a later time step, a     *)
(* batch without the code, a challenge with another number; and secrets,   *)
(* batches and challenges are numbered, so that new ones are fresh         *)
(* (SpentOk).  A session is of the row's version only if it proved a       *)
(* factor while there is one (CookieOk).  A wrong guess was in flight      *)
(* when it was let in, so guesses made and in flight are bounded together. *)

Guessing == {b \in Browsers : request[b].kind \in {"login", "totp_disable", "remove_passkey"}}

TotpProofs == [kind : {"totp"}, secret : Nat \ {0}, step : Nat]
RecoveryProofs == [kind : {"recovery_code"}, batch : Nat \ {0}]
PasskeyProofs == [kind : {"passkey"}, id : Nat \ {0}, key : Passkeys]
ProofShapes == TotpProofs \cup RecoveryProofs \cup PasskeyProofs

SignInRequests ==
    {Nothing} \cup [kind : {"signed"}]
      \cup [kind : {"login", "totp_disable"}, proof : ProofShapes \cup {WrongCode}]
      \cup [kind : {"remove_passkey"}, key : Passkeys, proof : ProofShapes \cup {WrongCode}]
      \cup [kind : {"add_passkey"}, key : Passkeys, id : Nat]

AcctRows ==
    [sv : Nat, totp : Nat, pending : Nat, last : Nat, passkeys : SUBSET Passkeys, codes : SUBSET Nat,
     shown : BOOLEAN, challenge : [id : Nat, purpose : {"none", "login", "step_up", "register"}],
     secrets : Nat, batches : Nat, challenges : Nat]

CookieRows == [session : [sv : Nat, proved : BOOLEAN], mfa : Nat]

AcctOk(a) ==
    /\ a \in AcctRows /\ a.sv \in 1..MaxVersion
    /\ a.totp <= a.secrets /\ a.pending <= a.secrets /\ (a.pending = 0 \/ a.totp = 0)
    /\ \A n \in a.codes : 1 <= n /\ n <= a.batches
    /\ a.challenge.id <= a.challenges
    /\ a.shown <=> TwoFactor(a)

SpentOk(a, S) ==
    /\ S \subseteq ProofShapes
    /\ \A p \in S :
         /\ p.kind = "totp" =>
              p.secret <= a.secrets /\ p.secret # a.pending /\ (p.secret = a.totp => p.step <= a.last)
         /\ p.kind = "recovery_code" => p.batch <= a.batches /\ p.batch \notin a.codes
         /\ p.kind = "passkey" => p.id <= a.challenges /\ p.id # a.challenge.id

CookieOk(c, a) ==
    /\ c.session.sv <= a.sv /\ c.mfa <= a.sv
    /\ TwoFactor(a) /\ c.session.sv = a.sv => c.session.proved

GuessBound == failures + Cardinality(Guessing) <= MaxFailures + Cardinality(Browsers) - 1

SignInInv ==
    /\ AcctOk(acct) /\ SpentOk(acct, spent) /\ again = {}
    /\ cookie \in [Browsers -> CookieRows] /\ \A b \in Browsers : CookieOk(cookie[b], acct)
    /\ request \in [Browsers -> SignInRequests] /\ failures \in Nat /\ GuessBound

LEMMA ProofsHaveShapes == Proofs \subseteq ProofShapes
BY SignInConstants DEF Proofs, ProofShapes, TotpCode, RecoveryCode, Assertion, TotpProofs,
                       RecoveryProofs, PasskeyProofs

LEMMA ProofShape ==
    ASSUME NEW p \in ProofShapes
    PROVE  /\ p.kind = "totp" => p.secret \in Nat /\ p.secret # 0 /\ p.step \in Nat
           /\ p.kind = "recovery_code" => p.batch \in Nat /\ p.batch # 0
           /\ p.kind = "passkey" => p.id \in Nat /\ p.id # 0 /\ p.key \in Passkeys
           /\ p.kind \in {"totp", "recovery_code", "passkey"}
BY DEF ProofShapes, TotpProofs, RecoveryProofs, PasskeyProofs

LEMMA AcctFields ==
    ASSUME NEW a \in AcctRows
    PROVE  /\ a.sv \in Nat /\ a.totp \in Nat /\ a.pending \in Nat /\ a.last \in Nat
           /\ a.passkeys \in SUBSET Passkeys /\ a.codes \in SUBSET Nat /\ a.shown \in BOOLEAN
           /\ a.challenge \in [id : Nat, purpose : {"none", "login", "step_up", "register"}]
           /\ a.challenge.id \in Nat
           /\ a.secrets \in Nat /\ a.batches \in Nat /\ a.challenges \in Nat
BY DEF AcctRows

LEMMA NoChallengeOk ==
    /\ NoChallenge \in [id : Nat, purpose : {"none", "login", "step_up", "register"}]
    /\ NoChallenge.id = 0
BY DEF NoChallenge

LEMMA GuessSets ==
    /\ IsFiniteSet(Browsers) /\ Cardinality(Browsers) \in Nat /\ IsFiniteSet(Guessing)
    /\ Cardinality(Guessing) \in Nat /\ Cardinality(Guessing) <= Cardinality(Browsers)
    /\ MaxFailures \in Nat /\ MaxFailures >= 1
<1>1. IsFiniteSet(Browsers) /\ Guessing \subseteq Browsers /\ MaxFailures \in Nat /\ MaxFailures >= 1
  BY SignInConstants DEF Guessing
<1> QED
  BY <1>1, FS_CardinalityType, FS_Subset

LEMMA SignInStart == SignInInit => SignInInv
<1> SUFFICES ASSUME SignInInit PROVE SignInInv
  OBVIOUS
<1>1. PICK keys \in SUBSET Passkeys :
        acct = [sv |-> 1, totp |-> 1, pending |-> 0, last |-> 0, passkeys |-> keys,
                codes |-> {1}, shown |-> TRUE, challenge |-> NoChallenge,
                secrets |-> 1, batches |-> 1, challenges |-> 0]
  BY DEF SignInInit
<1>2. acct \in AcctRows
  BY <1>1, NoChallengeOk DEF AcctRows
<1>3. /\ acct.sv = 1 /\ acct.totp = 1 /\ acct.pending = 0 /\ acct.codes = {1} /\ acct.shown
      /\ acct.challenge = NoChallenge /\ acct.secrets = 1 /\ acct.batches = 1 /\ acct.challenges = 0
  BY <1>1
<1>4. AcctOk(acct)
  <2>1. 1 \in 1..MaxVersion
    BY SignInConstants
  <2> QED
    BY <1>2, <1>3, <2>1, NoChallengeOk DEF AcctOk, TwoFactor
<1>5. SpentOk(acct, spent) /\ again = {} /\ failures = 0
  BY DEF SignInInit, SpentOk
<1>6. cookie \in [Browsers -> CookieRows] /\ \A b \in Browsers : CookieOk(cookie[b], acct)
  <2>1. \A b \in Browsers : cookie[b] = [session |-> NoSession, mfa |-> 0]
    BY DEF SignInInit
  <2>2. [session |-> NoSession, mfa |-> 0] \in CookieRows
    BY DEF NoSession, CookieRows
  <2>3. \A b \in Browsers : cookie[b].session.sv = 0 /\ cookie[b].mfa = 0
    BY <2>1 DEF NoSession
  <2>4. \A b \in Browsers : CookieOk(cookie[b], acct)
    BY <1>3, <2>3 DEF CookieOk
  <2> QED
    BY <2>2, <2>4 DEF SignInInit
<1>7. request \in [Browsers -> SignInRequests] /\ \A b \in Browsers : request[b].kind = "none"
  BY DEF SignInInit, SignInRequests, Nothing
<1>8. Guessing = {}
  BY <1>7 DEF Guessing
<1>9. GuessBound
  BY <1>5, <1>8, FS_EmptySet, GuessSets DEF GuessBound
<1> QED
  BY <1>4, <1>5, <1>6, <1>7, <1>9 DEF SignInInv

\* What each operation on the row leaves of it.
LEMMA TakeChallengeRow ==
    ASSUME NEW a \in AcctRows, NEW p
    PROVE  LET r == TakeChallenge(a, p) IN
           /\ r \in AcctRows /\ r.sv = a.sv /\ r.totp = a.totp /\ r.pending = a.pending
           /\ r.last = a.last /\ r.passkeys = a.passkeys /\ r.codes = a.codes /\ r.shown = a.shown
           /\ r.challenge = (IF p.kind = "passkey" THEN NoChallenge ELSE a.challenge)
           /\ r.secrets = a.secrets /\ r.batches = a.batches /\ r.challenges = a.challenges
BY NoChallengeOk DEF TakeChallenge, AcctRows

LEMMA SpendRow ==
    ASSUME NEW a \in AcctRows, NEW p \in ProofShapes
    PROVE  LET r == Spend(a, p) IN
           /\ r \in AcctRows /\ r.sv = a.sv /\ r.totp = a.totp /\ r.pending = a.pending
           /\ r.last = (IF p.kind = "totp" THEN p.step ELSE a.last) /\ r.passkeys = a.passkeys
           /\ r.codes = (IF p.kind = "recovery_code" THEN a.codes \ {p.batch} ELSE a.codes)
           /\ r.shown = a.shown
           /\ r.challenge = (IF p.kind = "passkey" THEN NoChallenge ELSE a.challenge)
           /\ r.secrets = a.secrets /\ r.batches = a.batches /\ r.challenges = a.challenges
<1>0. p.kind \in {"totp", "recovery_code", "passkey"} /\ (p.kind = "totp" => p.step \in Nat)
  BY ProofShape
<1>1. CASE p.kind = "totp"
  <2> DEFINE n == p.step
             r == [a EXCEPT !.last = n]
  <2>1. Spend(a, p) = r /\ n \in Nat
    BY <1>0, <1>1 DEF Spend
  <2> HIDE DEF n
  <2>2. /\ r \in AcctRows /\ r.sv = a.sv /\ r.totp = a.totp /\ r.pending = a.pending
        /\ r.last = n /\ r.passkeys = a.passkeys /\ r.codes = a.codes
        /\ r.shown = a.shown /\ r.challenge = a.challenge
        /\ r.secrets = a.secrets /\ r.batches = a.batches /\ r.challenges = a.challenges
    BY <2>1 DEF AcctRows
  <2> HIDE DEF r
  <2> QED
    BY <1>1, <2>1, <2>2 DEF n
<1>2. CASE p.kind = "recovery_code"
  <2> DEFINE C == a.codes \ {p.batch}
             r == [a EXCEPT !.codes = C]
  <2>1. Spend(a, p) = r /\ C \in SUBSET Nat
    BY <1>2, AcctFields DEF Spend
  <2> HIDE DEF C
  <2>2. /\ r \in AcctRows /\ r.sv = a.sv /\ r.totp = a.totp /\ r.pending = a.pending
        /\ r.last = a.last /\ r.passkeys = a.passkeys /\ r.codes = C
        /\ r.shown = a.shown /\ r.challenge = a.challenge
        /\ r.secrets = a.secrets /\ r.batches = a.batches /\ r.challenges = a.challenges
    BY <2>1 DEF AcctRows
  <2> HIDE DEF r
  <2> QED
    BY <1>2, <2>1, <2>2 DEF C
<1>3. CASE p.kind = "passkey"
  <2> DEFINE r == TakeChallenge(a, p)
  <2>1. Spend(a, p) = r
    BY <1>3 DEF Spend
  <2>2. /\ r \in AcctRows /\ r.sv = a.sv /\ r.totp = a.totp /\ r.pending = a.pending
        /\ r.last = a.last /\ r.passkeys = a.passkeys /\ r.codes = a.codes /\ r.shown = a.shown
        /\ r.challenge = (IF p.kind = "passkey" THEN NoChallenge ELSE a.challenge)
        /\ r.secrets = a.secrets /\ r.batches = a.batches /\ r.challenges = a.challenges
    BY TakeChallengeRow
  <2> HIDE DEF r
  <2>3. r.challenge = NoChallenge /\ p.kind # "totp" /\ p.kind # "recovery_code"
    BY <1>3, <2>2
  <2> QED
    BY <1>3, <2>1, <2>2, <2>3
<1> QED
  BY <1>0, <1>1, <1>2, <1>3

\* A proof that is accepted has not counted before, and will not count again.
LEMMA SpendCounts ==
    ASSUME NEW a, NEW S, NEW p \in ProofShapes \cup {WrongCode}, NEW purpose, AcctOk(a), SpentOk(a, S),
           UseSecondFactor(a, p) \/ VerifyAssertion(a, p, purpose)
    PROVE  /\ p \notin S /\ p \in ProofShapes /\ AcctOk(Spend(a, p))
           /\ SpentOk(Spend(a, p), S \cup {p})
           /\ Spend(a, p).sv = a.sv /\ Spend(a, p).totp = a.totp /\ Spend(a, p).passkeys = a.passkeys
           /\ TwoFactor(Spend(a, p)) <=> TwoFactor(a)
<1>1. p \in ProofShapes
  BY DEF UseSecondFactor, VerifyAssertion, WrongCode
<1>2. a \in AcctRows
  BY DEF AcctOk
<1>3. /\ a.sv \in Nat /\ a.totp \in Nat /\ a.pending \in Nat /\ a.last \in Nat
      /\ a.codes \in SUBSET Nat /\ a.challenge.id \in Nat
      /\ a.secrets \in Nat /\ a.batches \in Nat /\ a.challenges \in Nat
  BY <1>2, AcctFields
<1>4. /\ p.kind = "totp" => p.secret \in Nat /\ p.secret # 0 /\ p.step \in Nat
      /\ p.kind = "recovery_code" => p.batch \in Nat /\ p.batch # 0
      /\ p.kind = "passkey" => p.id \in Nat /\ p.id # 0
      /\ p.kind \in {"totp", "recovery_code", "passkey"}
  BY <1>1, ProofShape
<1>5. /\ p.kind = "totp" => a.totp = p.secret /\ p.step > a.last
      /\ p.kind = "recovery_code" => p.batch \in a.codes
      /\ p.kind = "passkey" => a.challenge.id = p.id
  BY DEF UseSecondFactor, VerifyAssertion, MatchCounter
<1>6. p \notin S
  BY <1>3, <1>4, <1>5 DEF SpentOk
<1> DEFINE r == Spend(a, p)
<1>7. /\ r \in AcctRows /\ r.sv = a.sv /\ r.totp = a.totp /\ r.pending = a.pending
      /\ r.last = (IF p.kind = "totp" THEN p.step ELSE a.last) /\ r.passkeys = a.passkeys
      /\ r.codes = (IF p.kind = "recovery_code" THEN a.codes \ {p.batch} ELSE a.codes)
      /\ r.shown = a.shown
      /\ r.challenge = (IF p.kind = "passkey" THEN NoChallenge ELSE a.challenge)
      /\ r.secrets = a.secrets /\ r.batches = a.batches /\ r.challenges = a.challenges
  BY <1>1, <1>2, SpendRow
<1> HIDE DEF r
<1>8. TwoFactor(r) <=> TwoFactor(a)
  BY <1>7 DEF TwoFactor
<1>9. r.challenge.id = (IF p.kind = "passkey" THEN 0 ELSE a.challenge.id)
  BY <1>7, NoChallengeOk
<1>10. AcctOk(r)
  <2>1. /\ r.totp <= r.secrets /\ r.pending <= r.secrets /\ (r.pending = 0 \/ r.totp = 0)
        /\ r.sv \in 1..MaxVersion
    BY <1>7 DEF AcctOk
  <2>2. \A n \in r.codes : 1 <= n /\ n <= r.batches
    BY <1>7 DEF AcctOk
  <2>3. r.challenge.id <= r.challenges
    BY <1>3, <1>7, <1>9 DEF AcctOk
  <2>4. r.shown <=> TwoFactor(r)
    BY <1>7, <1>8 DEF AcctOk
  <2> QED
    BY <1>7, <2>1, <2>2, <2>3, <2>4 DEF AcctOk
<1>11. SpentOk(r, S \cup {p})
  <2>1. S \cup {p} \subseteq ProofShapes
    BY <1>1 DEF SpentOk
  <2>2. ASSUME NEW q \in S \cup {p}
        PROVE  /\ q.kind = "totp" =>
                    q.secret <= r.secrets /\ q.secret # r.pending /\ (q.secret = r.totp => q.step <= r.last)
               /\ q.kind = "recovery_code" => q.batch <= r.batches /\ q.batch \notin r.codes
               /\ q.kind = "passkey" => q.id <= r.challenges /\ q.id # r.challenge.id
    <3>1. CASE q = p
      <4>1. CASE p.kind = "totp"
        BY <1>3, <1>4, <1>5, <1>7, <3>1, <4>1 DEF AcctOk
      <4>2. CASE p.kind = "recovery_code"
        BY <1>3, <1>4, <1>5, <1>7, <3>1, <4>2 DEF AcctOk
      <4>3. CASE p.kind = "passkey"
        BY <1>3, <1>4, <1>5, <1>7, <1>9, <3>1, <4>3 DEF AcctOk
      <4> QED
        BY <1>4, <4>1, <4>2, <4>3
    <3>2. CASE q \in S
      <4>1. q \in ProofShapes
        BY <3>2 DEF SpentOk
      <4>2. /\ q.kind = "totp" => q.secret \in Nat /\ q.secret # 0 /\ q.step \in Nat
            /\ q.kind = "recovery_code" => q.batch \in Nat
            /\ q.kind = "passkey" => q.id \in Nat /\ q.id # 0
        BY <4>1, ProofShape
      <4>3. /\ q.kind = "totp" =>
                 q.secret <= a.secrets /\ q.secret # a.pending /\ (q.secret = a.totp => q.step <= a.last)
            /\ q.kind = "recovery_code" => q.batch <= a.batches /\ q.batch \notin a.codes
            /\ q.kind = "passkey" => q.id <= a.challenges /\ q.id # a.challenge.id
        BY <3>2 DEF SpentOk
      <4>4. a.last <= r.last
        BY <1>3, <1>4, <1>5, <1>7
      <4>5. r.last \in Nat
        BY <1>3, <1>4, <1>7
      <4>6. q.kind = "totp" =>
                 q.secret <= r.secrets /\ q.secret # r.pending /\ (q.secret = r.totp => q.step <= r.last)
        BY <1>3, <1>7, <4>2, <4>3, <4>4, <4>5
      <4>7. q.kind = "recovery_code" => q.batch <= r.batches /\ q.batch \notin r.codes
        BY <1>7, <4>3
      <4>8. q.kind = "passkey" => q.id <= r.challenges /\ q.id # r.challenge.id
        BY <1>7, <1>9, <4>2, <4>3
      <4> QED
        BY <4>6, <4>7, <4>8
    <3> QED
      BY <3>1, <3>2
  <2> QED
    BY <2>1, <2>2 DEF SpentOk
<1> QED
  BY <1>1, <1>6, <1>7, <1>8, <1>10, <1>11 DEF r

\* A change of the row under which nothing that counted becomes good again.
NothingReturns(a, r) ==
    /\ a.secrets <= r.secrets /\ a.batches <= r.batches /\ a.challenges <= r.challenges
    /\ r.pending = a.pending \/ r.pending = 0 \/ a.secrets < r.pending
    /\ r.totp = 0 \/ (r.totp = a.totp /\ a.last <= r.last) \/ r.totp = a.pending
    /\ \A n \in r.codes : n \in a.codes \/ a.batches < n
    /\ r.challenge.id = a.challenge.id \/ r.challenge.id = 0 \/ a.challenges < r.challenge.id

LEMMA SpentStays ==
    ASSUME NEW a \in AcctRows, NEW r \in AcctRows, NEW S, SpentOk(a, S), NothingReturns(a, r)
    PROVE  SpentOk(r, S)
<1>1. /\ a.totp \in Nat /\ a.pending \in Nat /\ a.last \in Nat
      /\ a.codes \in SUBSET Nat /\ a.challenge.id \in Nat
      /\ a.secrets \in Nat /\ a.batches \in Nat /\ a.challenges \in Nat
  BY AcctFields
<1>2. /\ r.totp \in Nat /\ r.pending \in Nat /\ r.last \in Nat
      /\ r.codes \in SUBSET Nat /\ r.challenge.id \in Nat
      /\ r.secrets \in Nat /\ r.batches \in Nat /\ r.challenges \in Nat
  BY AcctFields
<1>3. ASSUME NEW q \in S
      PROVE  /\ q.kind = "totp" =>
                  q.secret <= r.secrets /\ q.secret # r.pending /\ (q.secret = r.totp => q.step <= r.last)
             /\ q.kind = "recovery_code" => q.batch <= r.batches /\ q.batch \notin r.codes
             /\ q.kind = "passkey" => q.id <= r.challenges /\ q.id # r.challenge.id
  <2>1. q \in ProofShapes
    BY DEF SpentOk
  <2>2. /\ q.kind = "totp" => q.secret \in Nat /\ q.secret # 0 /\ q.step \in Nat
        /\ q.kind = "recovery_code" => q.batch \in Nat
        /\ q.kind = "passkey" => q.id \in Nat /\ q.id # 0
    BY <2>1, ProofShape
  <2>3. /\ q.kind = "totp" =>
             q.secret <= a.secrets /\ q.secret # a.pending /\ (q.secret = a.totp => q.step <= a.last)
        /\ q.kind = "recovery_code" => q.batch <= a.batches /\ q.batch \notin a.codes
        /\ q.kind = "passkey" => q.id <= a.challenges /\ q.id # a.challenge.id
    BY DEF SpentOk
  <2>4. q.kind = "totp" =>
             q.secret <= r.secrets /\ q.secret # r.pending /\ (q.secret = r.totp => q.step <= r.last)
    BY <1>1, <1>2, <2>2, <2>3 DEF NothingReturns
  <2>5. q.kind = "recovery_code" => q.batch <= r.batches /\ q.batch \notin r.codes
    BY <1>1, <1>2, <2>2, <2>3 DEF NothingReturns
  <2>6. q.kind = "passkey" => q.id <= r.challenges /\ q.id # r.challenge.id
    BY <1>1, <1>2, <2>2, <2>3 DEF NothingReturns
  <2> QED
    BY <2>4, <2>5, <2>6
<1> QED
  BY <1>3 DEF SpentOk

\* The row after an operation, with the same version or the next.
RowGoesOn(a, r) == AcctOk(r) /\ NothingReturns(a, r)

LEMMA TakenGoesOn ==
    ASSUME NEW a, NEW r \in AcctRows, AcctOk(a), r.sv = a.sv, r.totp = a.totp, r.pending = a.pending,
           r.last = a.last, r.passkeys = a.passkeys, r.codes = a.codes, r.shown = a.shown,
           r.challenge = a.challenge \/ r.challenge = NoChallenge, r.secrets = a.secrets,
           r.batches = a.batches, r.challenges = a.challenges
    PROVE  RowGoesOn(a, r) /\ (TwoFactor(r) <=> TwoFactor(a))
<1>1. a \in AcctRows
  BY DEF AcctOk
<1>2. /\ a.last \in Nat /\ a.challenge.id \in Nat /\ a.secrets \in Nat /\ a.batches \in Nat
      /\ a.challenges \in Nat
  BY <1>1, AcctFields
<1>3. r.challenge.id = a.challenge.id \/ r.challenge.id = 0
  BY NoChallengeOk
<1>4. TwoFactor(r) <=> TwoFactor(a)
  BY DEF TwoFactor
<1>5. r.challenge.id <= r.challenges
  BY <1>2, <1>3 DEF AcctOk
<1>6. AcctOk(r)
  <2>1. r.shown <=> TwoFactor(r)
    BY <1>4 DEF AcctOk
  <2>2. \A n \in r.codes : 1 <= n /\ n <= r.batches
    BY DEF AcctOk
  <2>3. r.totp <= r.secrets /\ r.pending <= r.secrets /\ (r.pending = 0 \/ r.totp = 0) /\ r.sv \in 1..MaxVersion
    BY DEF AcctOk
  <2> QED
    BY <1>5, <2>1, <2>2, <2>3 DEF AcctOk
<1>7. NothingReturns(a, r)
  BY <1>2, <1>3 DEF NothingReturns
<1> QED
  BY <1>4, <1>6, <1>7 DEF RowGoesOn

LEMMA ClearGoesOn ==
    ASSUME NEW a \in AcctRows, a.sv \in 1..MaxVersion,
           \A n \in a.codes : 1 <= n /\ n <= a.batches, a.challenge.id <= a.challenges,
           a.passkeys # {} => a.shown
    PROVE  /\ RowGoesOn(a, Clear(a)) /\ Clear(a).sv = a.sv
           /\ TwoFactor(Clear(a)) => a.passkeys # {}
<1>1. /\ a.last \in Nat /\ a.challenge.id \in Nat /\ a.secrets \in Nat /\ a.batches \in Nat
      /\ a.challenges \in Nat
  BY AcctFields
<1> DEFINE off == [a EXCEPT !.totp = 0, !.pending = 0, !.last = 0]
           r == Clear(a)
<1>2. /\ off \in AcctRows /\ off.sv = a.sv /\ off.totp = 0 /\ off.pending = 0
      /\ off.passkeys = a.passkeys /\ off.codes = a.codes /\ off.shown = a.shown
      /\ off.challenge = a.challenge
      /\ off.secrets = a.secrets /\ off.batches = a.batches /\ off.challenges = a.challenges
  BY DEF AcctRows
<1>3. r = IF a.passkeys = {} THEN [off EXCEPT !.codes = {}, !.shown = FALSE] ELSE off
  BY DEF Clear, DropCodes
<1> HIDE DEF off, r
<1>4. /\ r \in AcctRows /\ r.sv = a.sv /\ r.totp = 0 /\ r.pending = 0 /\ r.passkeys = a.passkeys
      /\ r.codes \subseteq a.codes /\ r.challenge = a.challenge
      /\ r.secrets = a.secrets /\ r.batches = a.batches /\ r.challenges = a.challenges
      /\ IF a.passkeys = {} THEN ~r.shown ELSE r.shown
  <2>1. CASE a.passkeys = {}
    BY <1>2, <1>3, <2>1 DEF AcctRows
  <2>2. CASE a.passkeys # {}
    BY <1>2, <1>3, <2>2
  <2> QED
    BY <2>1, <2>2
<1>5. TwoFactor(r) <=> a.passkeys # {}
  BY <1>4 DEF TwoFactor
<1>6. AcctOk(r)
  <2>1. r.shown <=> TwoFactor(r)
    BY <1>4, <1>5
  <2>2. \A n \in r.codes : 1 <= n /\ n <= r.batches
    BY <1>4
  <2>3. /\ r.totp <= r.secrets /\ r.pending <= r.secrets /\ (r.pending = 0 \/ r.totp = 0)
        /\ r.challenge.id <= r.challenges /\ r.sv \in 1..MaxVersion
    BY <1>1, <1>4
  <2> QED
    BY <1>4, <2>1, <2>2, <2>3 DEF AcctOk
<1>7. NothingReturns(a, r)
  BY <1>1, <1>4 DEF NothingReturns
<1> QED
  BY <1>4, <1>5, <1>6, <1>7 DEF RowGoesOn, r

LEMMA BumpGoesOn ==
    ASSUME NEW a, NEW r, RowGoesOn(a, r), r.sv < MaxVersion
    PROVE  /\ RowGoesOn(a, Bump(r)) /\ Bump(r).sv = r.sv + 1
           /\ TwoFactor(Bump(r)) <=> TwoFactor(r)
<1>1. r \in AcctRows /\ AcctOk(r) /\ r.sv \in 1..MaxVersion /\ MaxVersion \in Nat
  BY SignInConstants DEF RowGoesOn, AcctOk
<1> DEFINE v == r.sv + 1
           n == [r EXCEPT !.sv = v]
<1>2. v \in Nat /\ v \in 1..MaxVersion
  BY <1>1
<1>3. Bump(r) = n
  BY DEF Bump
<1> HIDE DEF v
<1>4. /\ n \in AcctRows /\ n.sv = v /\ n.totp = r.totp /\ n.pending = r.pending /\ n.last = r.last
      /\ n.passkeys = r.passkeys /\ n.codes = r.codes /\ n.shown = r.shown
      /\ n.challenge = r.challenge
      /\ n.secrets = r.secrets /\ n.batches = r.batches /\ n.challenges = r.challenges
  BY <1>1, <1>2 DEF AcctRows
<1> HIDE DEF n
<1>5. TwoFactor(n) <=> TwoFactor(r)
  BY <1>4 DEF TwoFactor
<1>6. NothingReturns(a, n)
  BY <1>4 DEF RowGoesOn, NothingReturns
<1>7. AcctOk(n)
  <2>1. n.shown <=> TwoFactor(n)
    BY <1>1, <1>4, <1>5 DEF AcctOk
  <2>2. /\ n.sv \in 1..MaxVersion /\ n.totp <= n.secrets /\ n.pending <= n.secrets
        /\ (n.pending = 0 \/ n.totp = 0) /\ n.challenge.id <= n.challenges
        /\ \A m \in n.codes : 1 <= m /\ m <= n.batches
    BY <1>1, <1>2, <1>4 DEF AcctOk
  <2> QED
    BY <1>4, <2>1, <2>2 DEF AcctOk
<1> QED
  BY <1>3, <1>4, <1>5, <1>6, <1>7 DEF RowGoesOn, v

LEMMA NewCodesGoOn ==
    ASSUME NEW a \in AcctRows, a.sv \in 1..MaxVersion, a.totp <= a.secrets, a.pending <= a.secrets,
           a.pending = 0 \/ a.totp = 0, a.challenge.id <= a.challenges, TwoFactor(a)
    PROVE  /\ RowGoesOn(a, NewCodes(a)) /\ NewCodes(a).sv = a.sv /\ TwoFactor(NewCodes(a))
<1>1. /\ a.last \in Nat /\ a.challenge.id \in Nat /\ a.secrets \in Nat /\ a.batches \in Nat
      /\ a.challenges \in Nat /\ a.pending \in Nat /\ a.totp \in Nat
  BY AcctFields
<1> DEFINE m == a.batches + 1
           r == [a EXCEPT !.codes = {m}, !.batches = m, !.shown = TRUE]
<1>2. NewCodes(a) = r
  BY DEF NewCodes
<1>3. m \in Nat /\ a.batches < m /\ 1 <= m /\ a.batches <= m
  BY <1>1
<1> HIDE DEF m
<1>4. /\ r \in AcctRows /\ r.sv = a.sv /\ r.totp = a.totp /\ r.pending = a.pending
      /\ r.last = a.last /\ r.passkeys = a.passkeys /\ r.codes = {m} /\ r.shown = TRUE
      /\ r.challenge = a.challenge
      /\ r.secrets = a.secrets /\ r.batches = m /\ r.challenges = a.challenges
  BY <1>3 DEF AcctRows
<1> HIDE DEF r
<1>5. TwoFactor(r)
  BY <1>4 DEF TwoFactor
<1>6. NothingReturns(a, r)
  BY <1>1, <1>3, <1>4 DEF NothingReturns
<1>7. AcctOk(r)
  <2>1. r.shown <=> TwoFactor(r)
    BY <1>4, <1>5
  <2>2. /\ r.sv \in 1..MaxVersion /\ r.totp <= r.secrets /\ r.pending <= r.secrets
        /\ (r.pending = 0 \/ r.totp = 0) /\ r.challenge.id <= r.challenges
        /\ \A n \in r.codes : 1 <= n /\ n <= r.batches
    BY <1>3, <1>4
  <2> QED
    BY <1>4, <2>1, <2>2 DEF AcctOk
<1> QED
  BY <1>2, <1>4, <1>5, <1>6, <1>7 DEF RowGoesOn

LEMMA RemoveKeyGoesOn ==
    ASSUME NEW a, NEW k, AcctOk(a)
    PROVE  /\ RowGoesOn(a, RemoveKey(a, k)) /\ RemoveKey(a, k).sv = a.sv
           /\ TwoFactor(RemoveKey(a, k)) => TwoFactor(a)
<1>0. a \in AcctRows
  BY DEF AcctOk
<1>1. /\ a.last \in Nat /\ a.challenge.id \in Nat /\ a.secrets \in Nat /\ a.batches \in Nat
      /\ a.challenges \in Nat /\ a.passkeys \in SUBSET Passkeys
  BY <1>0, AcctFields
<1> DEFINE ks == a.passkeys \ {k}
           off == [a EXCEPT !.passkeys = ks]
           r == RemoveKey(a, k)
<1>2. ks \in SUBSET Passkeys /\ (ks # {} => a.passkeys # {})
  BY <1>1
<1>3. r = IF TwoFactor(off) THEN off ELSE [off EXCEPT !.codes = {}, !.shown = FALSE]
  BY DEF RemoveKey, DropCodes
<1> HIDE DEF ks
<1>4. /\ off \in AcctRows /\ off.sv = a.sv /\ off.totp = a.totp /\ off.pending = a.pending
      /\ off.last = a.last /\ off.passkeys = ks /\ off.codes = a.codes /\ off.shown = a.shown
      /\ off.challenge = a.challenge
      /\ off.secrets = a.secrets /\ off.batches = a.batches /\ off.challenges = a.challenges
  BY <1>0, <1>2 DEF AcctRows
<1> HIDE DEF off, r
<1>5. TwoFactor(off) => TwoFactor(a)
  BY <1>2, <1>4 DEF TwoFactor
<1>6. /\ r \in AcctRows /\ r.sv = a.sv /\ r.totp = a.totp /\ r.pending = a.pending
      /\ r.last = a.last /\ r.passkeys = ks /\ r.codes \subseteq a.codes /\ r.challenge = a.challenge
      /\ r.secrets = a.secrets /\ r.batches = a.batches /\ r.challenges = a.challenges
      /\ IF TwoFactor(off) THEN r.shown ELSE ~r.shown
  <2>1. CASE TwoFactor(off)
    <3>1. a.shown
      BY <1>5, <2>1 DEF AcctOk
    <3> QED
      BY <1>3, <1>4, <2>1, <3>1
  <2>2. CASE ~TwoFactor(off)
    BY <1>3, <1>4, <2>2 DEF AcctRows
  <2> QED
    BY <2>1, <2>2
<1>7. TwoFactor(r) <=> TwoFactor(off)
  BY <1>4, <1>6 DEF TwoFactor
<1>8. NothingReturns(a, r)
  BY <1>1, <1>6 DEF NothingReturns
<1>9. AcctOk(r)
  <2>1. r.shown <=> TwoFactor(r)
    BY <1>6, <1>7
  <2>2. /\ r.sv \in 1..MaxVersion /\ r.totp <= r.secrets /\ r.pending <= r.secrets
        /\ (r.pending = 0 \/ r.totp = 0) /\ r.challenge.id <= r.challenges
        /\ \A n \in r.codes : 1 <= n /\ n <= r.batches
    BY <1>6 DEF AcctOk
  <2> QED
    BY <1>6, <2>1, <2>2 DEF AcctOk
<1> QED
  BY <1>5, <1>6, <1>7, <1>8, <1>9 DEF RowGoesOn, r

LEMMA AddKeyGoesOn ==
    ASSUME NEW a, NEW k \in Passkeys, AcctOk(a), a.sv < MaxVersion
    PROVE  /\ RowGoesOn(a, AddKey(a, k)) /\ TwoFactor(AddKey(a, k))
           /\ AddKey(a, k).sv = IF TwoFactor(a) THEN a.sv ELSE a.sv + 1
<1>0. a \in AcctRows
  BY DEF AcctOk
<1>1. /\ a.last \in Nat /\ a.challenge.id \in Nat /\ a.secrets \in Nat /\ a.batches \in Nat
      /\ a.challenges \in Nat /\ a.passkeys \in SUBSET Passkeys /\ a.sv \in Nat
  BY <1>0, AcctFields
<1> DEFINE ks == a.passkeys \cup {k}
           r == [a EXCEPT !.passkeys = ks]
<1>2. ks \in SUBSET Passkeys /\ ks # {}
  BY <1>1
<1>3. AddKey(a, k) = IF TwoFactor(a) THEN r ELSE Bump(NewCodes(r))
  BY DEF AddKey
<1> HIDE DEF ks
<1>4. /\ r \in AcctRows /\ r.sv = a.sv /\ r.totp = a.totp /\ r.pending = a.pending
      /\ r.last = a.last /\ r.passkeys = ks /\ r.codes = a.codes /\ r.shown = a.shown
      /\ r.challenge = a.challenge
      /\ r.secrets = a.secrets /\ r.batches = a.batches /\ r.challenges = a.challenges
  BY <1>0, <1>2 DEF AcctRows
<1> HIDE DEF r
<1>5. TwoFactor(r)
  BY <1>2, <1>4 DEF TwoFactor
<1>6. /\ r.sv \in 1..MaxVersion /\ r.totp <= r.secrets /\ r.pending <= r.secrets
      /\ (r.pending = 0 \/ r.totp = 0) /\ r.challenge.id <= r.challenges
      /\ \A n \in r.codes : 1 <= n /\ n <= r.batches
  BY <1>4 DEF AcctOk
<1>7. CASE TwoFactor(a)
  <2>1. NothingReturns(a, r)
    BY <1>1, <1>4 DEF NothingReturns
  <2>2. r.shown <=> TwoFactor(r)
    BY <1>4, <1>5, <1>7 DEF AcctOk
  <2>3. AcctOk(r)
    BY <1>4, <1>6, <2>2 DEF AcctOk
  <2> QED
    BY <1>3, <1>4, <1>5, <1>7, <2>1, <2>3 DEF RowGoesOn
<1>8. CASE ~TwoFactor(a)
  <2>1. RowGoesOn(r, NewCodes(r)) /\ NewCodes(r).sv = r.sv /\ TwoFactor(NewCodes(r))
    BY <1>4, <1>5, <1>6, NewCodesGoOn
  <2>2. RowGoesOn(a, NewCodes(r)) /\ NewCodes(r).sv = a.sv
    BY <1>4, <2>1 DEF RowGoesOn, NothingReturns
  <2>3. RowGoesOn(a, Bump(NewCodes(r))) /\ Bump(NewCodes(r)).sv = NewCodes(r).sv + 1
        /\ TwoFactor(Bump(NewCodes(r)))
    BY <2>1, <2>2, BumpGoesOn
  <2> QED
    BY <1>3, <1>8, <2>2, <2>3
<1> QED
  BY <1>7, <1>8

LEMMA EnableGoesOn ==
    ASSUME NEW a, NEW c \in Nat, AcctOk(a), a.totp = 0, a.pending # 0, a.sv < MaxVersion
    PROVE  LET r == Bump(Enable(a, c)) IN
           /\ RowGoesOn(a, r) /\ r.sv = a.sv + 1 /\ TwoFactor(r)
           /\ r.totp = a.pending /\ r.pending = 0 /\ r.last = c /\ r.secrets = a.secrets
<1>0. a \in AcctRows
  BY DEF AcctOk
<1>1. /\ a.last \in Nat /\ a.challenge.id \in Nat /\ a.secrets \in Nat /\ a.batches \in Nat
      /\ a.challenges \in Nat /\ a.pending \in Nat /\ a.sv \in Nat
  BY <1>0, AcctFields
<1> DEFINE n == a.pending
           on == [a EXCEPT !.totp = n, !.pending = 0, !.last = c]
           e == Enable(a, c)
<1>2. e = IF TwoFactor(a) THEN on ELSE NewCodes(on)
  BY DEF Enable
<1>3. n \in Nat /\ n = a.pending
  BY <1>1
<1> HIDE DEF n
<1>4. /\ on \in AcctRows /\ on.sv = a.sv /\ on.totp = n /\ on.pending = 0 /\ on.last = c
      /\ on.passkeys = a.passkeys /\ on.codes = a.codes /\ on.shown = a.shown
      /\ on.challenge = a.challenge
      /\ on.secrets = a.secrets /\ on.batches = a.batches /\ on.challenges = a.challenges
  BY <1>0, <1>3 DEF AcctRows
<1> HIDE DEF on, e
<1>5. TwoFactor(on)
  BY <1>3, <1>4 DEF TwoFactor
<1>6. /\ on.sv \in 1..MaxVersion /\ on.totp <= on.secrets /\ on.pending <= on.secrets
      /\ (on.pending = 0 \/ on.totp = 0) /\ on.challenge.id <= on.challenges
      /\ \A m \in on.codes : 1 <= m /\ m <= on.batches
  BY <1>1, <1>3, <1>4 DEF AcctOk
<1>7. /\ RowGoesOn(a, e) /\ e.sv = a.sv /\ TwoFactor(e)
      /\ e.totp = n /\ e.pending = 0 /\ e.last = c /\ e.secrets = a.secrets
  <2>1. CASE TwoFactor(a)
    <3>1. NothingReturns(a, on)
      BY <1>1, <1>3, <1>4 DEF NothingReturns
    <3>2. on.shown <=> TwoFactor(on)
      BY <1>4, <1>5, <2>1 DEF AcctOk
    <3>3. AcctOk(on)
      BY <1>4, <1>6, <3>2 DEF AcctOk
    <3> QED
      BY <1>2, <1>4, <1>5, <2>1, <3>1, <3>3 DEF RowGoesOn
  <2>2. CASE ~TwoFactor(a)
    <3>1. e = NewCodes(on) /\ RowGoesOn(on, e) /\ e.sv = on.sv /\ TwoFactor(e)
      BY <1>2, <1>4, <1>5, <1>6, <2>2, NewCodesGoOn
    <3>2. e.totp = n /\ e.pending = 0 /\ e.last = c /\ e.secrets = a.secrets
      BY <1>4, <3>1 DEF NewCodes, AcctRows
    <3>3. NothingReturns(a, e)
      <4>1. NothingReturns(on, e)
        BY <3>1 DEF RowGoesOn
      <4>2. /\ a.secrets <= e.secrets /\ a.batches <= e.batches /\ a.challenges <= e.challenges
            /\ e.pending = 0 /\ e.totp = a.pending
        BY <1>1, <1>3, <1>4, <3>2, <4>1 DEF NothingReturns
      <4>3. /\ \A m \in e.codes : m \in a.codes \/ a.batches < m
            /\ e.challenge.id = a.challenge.id \/ e.challenge.id = 0 \/ a.challenges < e.challenge.id
        BY <1>4, <4>1 DEF NothingReturns
      <4> QED
        BY <4>2, <4>3 DEF NothingReturns
    <3> QED
      BY <1>4, <3>1, <3>2, <3>3 DEF RowGoesOn
  <2> QED
    BY <2>1, <2>2
<1>8. /\ RowGoesOn(a, Bump(e)) /\ Bump(e).sv = e.sv + 1 /\ TwoFactor(Bump(e))
  BY <1>7, BumpGoesOn
<1>9. /\ Bump(e).totp = e.totp /\ Bump(e).pending = e.pending /\ Bump(e).last = e.last
      /\ Bump(e).secrets = e.secrets
  <2>1. e \in AcctRows
    BY <1>7 DEF RowGoesOn, AcctOk
  <2> QED
    BY <2>1 DEF Bump, AcctRows
<1> QED
  BY <1>3, <1>7, <1>8, <1>9 DEF e

\* Cookies stay right while the row does not gain a factor, and end with its version.
LEMMA CookiesKeep ==
    ASSUME SignInInv, AcctOk(acct)',
           \/ acct'.sv = acct.sv /\ (TwoFactor(acct) \/ ~TwoFactor(acct'))
           \/ acct'.sv = acct.sv + 1,
           \A o \in Browsers : cookie'[o] = cookie[o] \/ CookieOk(cookie[o], acct)'
    PROVE  \A o \in Browsers : CookieOk(cookie[o], acct)'
<1> SUFFICES ASSUME NEW o \in Browsers, cookie'[o] = cookie[o] PROVE CookieOk(cookie[o], acct)'
  OBVIOUS
<1>1. acct.sv \in Nat /\ cookie[o] \in CookieRows /\ CookieOk(cookie[o], acct)
  BY AcctFields DEF SignInInv, AcctOk
<1>2. cookie[o].session.sv \in Nat /\ cookie[o].mfa \in Nat
  BY <1>1 DEF CookieRows
<1>3. cookie[o].session.sv <= acct'.sv /\ cookie[o].mfa <= acct'.sv
  BY <1>1, <1>2 DEF CookieOk
<1>4. TwoFactor(acct') /\ cookie[o].session.sv = acct'.sv => cookie[o].session.proved
  <2>1. CASE acct'.sv = acct.sv /\ (TwoFactor(acct) \/ ~TwoFactor(acct'))
    BY <1>1, <2>1 DEF CookieOk
  <2>2. CASE acct'.sv = acct.sv + 1
    <3>1. cookie[o].session.sv # acct'.sv
      BY <1>1, <1>2, <2>2 DEF CookieOk
    <3> QED
      BY <3>1
  <2> QED
    BY <2>1, <2>2
<1> QED
  BY <1>3, <1>4 DEF CookieOk, TwoFactor

\* Fewer guesses in flight and no more made.
LEMMA GuessesKeep ==
    ASSUME SignInInv, failures' \in Nat, failures' <= failures,
           \A b \in Browsers : request'[b] = request[b] \/ b \notin Guessing'
    PROVE  GuessBound'
<1>1. Guessing' \subseteq Guessing
  BY DEF Guessing
<1>2. Cardinality(Guessing') <= Cardinality(Guessing) /\ Cardinality(Guessing') \in Nat
  BY <1>1, GuessSets, FS_Subset, FS_CardinalityType
<1>3. failures + Cardinality(Guessing) <= MaxFailures + Cardinality(Browsers) - 1 /\ failures \in Nat
  BY DEF SignInInv, GuessBound
<1>4. failures' + Cardinality(Guessing') <= MaxFailures + Cardinality(Browsers) - 1
  BY <1>2, <1>3, GuessSets
<1> QED
  BY <1>4 DEF GuessBound

\* The steps that leave the requests and the guesses alone, and accept no proof.
LEMMA RowSteps ==
    ASSUME SignInInv, RowGoesOn(acct, acct'), UNCHANGED <<spent, again>>,
           \/ acct'.sv = acct.sv /\ (TwoFactor(acct) \/ ~TwoFactor(acct'))
           \/ acct'.sv = acct.sv + 1,
           cookie' \in [Browsers -> CookieRows],
           \A o \in Browsers : cookie'[o] = cookie[o] \/ CookieOk(cookie[o], acct)',
           request' \in [Browsers -> SignInRequests], failures' \in Nat, GuessBound'
    PROVE  SignInInv'
<1>1. AcctOk(acct)' /\ acct \in AcctRows /\ acct' \in AcctRows /\ NothingReturns(acct, acct')
  BY DEF RowGoesOn, SignInInv, AcctOk, TwoFactor
<1>2. SpentOk(acct, spent)'
  <2>1. SpentOk(acct', spent)
    BY <1>1, SpentStays DEF SignInInv
  <2> QED
    BY <2>1 DEF SpentOk
<1>3. \A o \in Browsers : CookieOk(cookie[o], acct)'
  BY <1>1, CookiesKeep
<1> QED
  BY <1>1, <1>2, <1>3 DEF SignInInv

LEMMA CookieSet ==
    ASSUME SignInInv, NEW b \in Browsers, NEW c \in CookieRows, cookie' = [cookie EXCEPT ![b] = c],
           AcctOk(acct)', c.session.sv <= acct'.sv, c.mfa <= acct'.sv,
           c.session.sv = acct'.sv => c.session.proved \/ ~TwoFactor(acct')
    PROVE  /\ cookie' \in [Browsers -> CookieRows]
           /\ \A o \in Browsers : cookie'[o] = cookie[o] \/ CookieOk(cookie[o], acct)'
<1>1. /\ cookie' \in [Browsers -> CookieRows] /\ cookie'[b] = c
      /\ \A o \in Browsers \ {b} : cookie'[o] = cookie[o]
  BY DEF SignInInv
<1>2. CookieOk(cookie[b], acct)'
  BY <1>1 DEF CookieOk, TwoFactor
<1> QED
  BY <1>1, <1>2

LEMMA SessionSet ==
    ASSUME SignInInv, NEW b \in Browsers, NEW s \in [sv : Nat, proved : BOOLEAN], SetSession(b, s),
           AcctOk(acct)', s.sv <= acct'.sv, s.sv = acct'.sv => s.proved \/ ~TwoFactor(acct')
    PROVE  /\ cookie' \in [Browsers -> CookieRows]
           /\ \A o \in Browsers : cookie'[o] = cookie[o] \/ CookieOk(cookie[o], acct)'
<1> DEFINE c == [session |-> s, mfa |-> 0]
<1>1. c \in CookieRows /\ c.session = s /\ c.mfa = 0
  BY DEF CookieRows
<1>2. cookie' = [cookie EXCEPT ![b] = c]
  BY DEF SetSession
<1> HIDE DEF c
<1>3. acct'.sv \in Nat
  BY AcctFields DEF AcctOk
<1>4. c.mfa <= acct'.sv
  BY <1>1, <1>3
<1> QED
  BY <1>1, <1>2, <1>4, CookieSet

LEMMA SameRow == SignInInv => /\ RowGoesOn(acct, acct) /\ acct \in AcctRows /\ AcctOk(acct)
                              /\ acct.sv \in Nat /\ 1 <= acct.sv /\ acct.sv <= MaxVersion
<1> SUFFICES ASSUME SignInInv PROVE /\ RowGoesOn(acct, acct) /\ acct \in AcctRows /\ AcctOk(acct)
                              /\ acct.sv \in Nat /\ 1 <= acct.sv /\ acct.sv <= MaxVersion
  OBVIOUS
<1>1. AcctOk(acct) /\ acct \in AcctRows
  BY DEF SignInInv, AcctOk
<1>2. acct.sv \in 1..MaxVersion /\ MaxVersion \in Nat
  BY <1>1, SignInConstants DEF AcctOk
<1> QED
  BY <1>1, <1>2, TakenGoesOn

LEMMA SameRequests ==
    ASSUME SignInInv, UNCHANGED request, failures' = failures \/ failures' = 0
    PROVE  request' \in [Browsers -> SignInRequests] /\ failures' \in Nat /\ GuessBound'
<1>1. failures \in Nat
  BY DEF SignInInv
<1>2. failures' \in Nat /\ failures' <= failures
  BY <1>1
<1> QED
  BY <1>2, GuessesKeep DEF SignInInv

LEMMA SameCookies ==
    ASSUME SignInInv, UNCHANGED cookie
    PROVE  /\ cookie' \in [Browsers -> CookieRows]
           /\ \A o \in Browsers : cookie'[o] = cookie[o] \/ CookieOk(cookie[o], acct)'
BY DEF SignInInv

LEMMA SessionsKeep ==
    ASSUME SignInInv, NEW b \in Browsers, Login(b) \/ SsoLogin(b) \/ Logout(b)
    PROVE  SignInInv'
<1>1. UNCHANGED <<acct, request, failures, spent, again>>
  BY DEF Login, SsoLogin, Logout
<1>2. /\ RowGoesOn(acct, acct') /\ acct \in AcctRows /\ AcctOk(acct)' /\ acct'.sv = acct.sv
      /\ (TwoFactor(acct) \/ ~TwoFactor(acct')) /\ acct.sv \in Nat /\ 1 <= acct.sv
  BY <1>1, SameRow DEF AcctOk, TwoFactor
<1>3. request' \in [Browsers -> SignInRequests] /\ failures' \in Nat /\ GuessBound'
  BY <1>1, SameRequests
<1>4. /\ cookie' \in [Browsers -> CookieRows]
      /\ \A o \in Browsers : cookie'[o] = cookie[o] \/ CookieOk(cookie[o], acct)'
  <2>1. CASE SetSession(b, NoSession)
    <3>1. NoSession \in [sv : Nat, proved : BOOLEAN] /\ NoSession.sv = 0
      BY DEF NoSession
    <3>2. NoSession.sv <= acct'.sv /\ NoSession.sv # acct'.sv
      BY <1>2, <3>1
    <3> QED
      BY <1>2, <2>1, <3>1, <3>2, SessionSet
  <2>2. ASSUME NEW p \in BOOLEAN, p \/ ~TwoFactor(acct), SetSession(b, Session(acct, p))
        PROVE  /\ cookie' \in [Browsers -> CookieRows]
               /\ \A o \in Browsers : cookie'[o] = cookie[o] \/ CookieOk(cookie[o], acct)'
    <3> DEFINE s == Session(acct, p)
    <3>1. s \in [sv : Nat, proved : BOOLEAN] /\ s.sv = acct.sv /\ s.proved = p
      BY <1>2 DEF Session
    <3>2. SetSession(b, s)
      BY <2>2
    <3> HIDE DEF s
    <3>3. s.sv <= acct'.sv
      BY <1>2, <3>1
    <3>4. s.proved \/ ~TwoFactor(acct')
      BY <1>1, <2>2, <3>1
    <3> QED
      BY <1>2, <3>1, <3>2, <3>3, <3>4, SessionSet
  <2>3. CASE cookie' = [cookie EXCEPT ![b] = [session |-> NoSession, mfa |-> acct.sv]]
    <3> DEFINE c == [session |-> NoSession, mfa |-> acct.sv]
    <3>1. c \in CookieRows /\ c.session.sv = 0 /\ c.mfa = acct.sv
      BY <1>2 DEF CookieRows, NoSession
    <3>2. cookie' = [cookie EXCEPT ![b] = c]
      BY <2>3
    <3> HIDE DEF c
    <3>3. c.session.sv <= acct'.sv /\ c.mfa <= acct'.sv /\ c.session.sv # acct'.sv
      BY <1>2, <3>1
    <3> QED
      BY <1>2, <3>1, <3>2, <3>3, CookieSet
  <2> QED
    BY <2>1, <2>2, <2>3 DEF Login, SsoLogin, Logout
<1> QED
  BY <1>1, <1>2, <1>3, <1>4, RowSteps

\* A request passes its first checks: none of its guesses has been made.
LEMMA RequestBeginsKeeps ==
    ASSUME SignInInv, NEW b \in Browsers, NEW r \in SignInRequests, RequestBegins(b, r),
           r.kind = "add_passkey" \/ ~Throttled
    PROVE  SignInInv'
<1>1. request' = [request EXCEPT ![b] = r] /\ UNCHANGED <<acct, cookie, failures, spent, again>>
  BY DEF RequestBegins
<1>2. /\ RowGoesOn(acct, acct') /\ acct'.sv = acct.sv
      /\ (TwoFactor(acct) \/ ~TwoFactor(acct'))
  BY <1>1, SameRow DEF TwoFactor
<1>3. request' \in [Browsers -> SignInRequests] /\ failures' \in Nat /\ failures \in Nat
  BY <1>1 DEF SignInInv
<1>4. GuessBound'
  <2>1. CASE r.kind = "add_passkey"
    <3>1. \A o \in Browsers : request'[o] = request[o] \/ o \notin Guessing'
      BY <1>1, <2>1 DEF Guessing, SignInInv
    <3>2. failures' <= failures
      BY <1>1, <1>3
    <3> QED
      BY <1>3, <3>1, <3>2, GuessesKeep
  <2>2. CASE ~Throttled
    <3>1. failures' <= MaxFailures - 1
      BY <1>1, <1>3, <2>2, GuessSets DEF Throttled
    <3>2. Guessing' \subseteq Browsers
      BY DEF Guessing
    <3>3. Cardinality(Guessing') <= Cardinality(Browsers) /\ Cardinality(Guessing') \in Nat
      BY <3>2, GuessSets, FS_Subset, FS_CardinalityType
    <3>4. failures' + Cardinality(Guessing') <= MaxFailures + Cardinality(Browsers) - 1
      BY <1>3, <3>1, <3>3, GuessSets
    <3> QED
      BY <3>4 DEF GuessBound
  <2> QED
    BY <2>1, <2>2
<1>5. /\ cookie' \in [Browsers -> CookieRows]
      /\ \A o \in Browsers : cookie'[o] = cookie[o] \/ CookieOk(cookie[o], acct)'
  BY <1>1, SameCookies
<1> QED
  BY <1>1, <1>2, <1>3, <1>4, <1>5, RowSteps

LEMMA BeginningsKeep ==
    ASSUME SignInInv, NEW b \in Browsers,
           \/ \E p \in Shown("login") : BeginLoginMfa(b, p)
           \/ \E p \in Shown("totp_disable") :
                BeginTotpDisable(b, p) \/ \E k \in Passkeys : BeginRemovePasskey(b, k, p)
           \/ \E k \in Passkeys : BeginAddPasskey(b, k)
    PROVE  SignInInv'
<1>1. \A kind : Shown(kind) \subseteq ProofShapes \cup {WrongCode}
  BY ProofsHaveShapes DEF Shown
<1>2. ASSUME NEW p \in ProofShapes \cup {WrongCode}, NEW kind \in {"login", "totp_disable"}, ~Throttled,
             RequestBegins(b, [kind |-> kind, proof |-> p])
      PROVE  SignInInv'
  <2> DEFINE r == [kind |-> kind, proof |-> p]
  <2>1. r \in SignInRequests /\ RequestBegins(b, r)
    BY <1>2 DEF SignInRequests
  <2> HIDE DEF r
  <2> QED
    BY <1>2, <2>1, RequestBeginsKeeps
<1>3. ASSUME NEW p \in ProofShapes \cup {WrongCode}, NEW k \in Passkeys, BeginRemovePasskey(b, k, p)
      PROVE  SignInInv'
  <2> DEFINE r == [kind |-> "remove_passkey", key |-> k, proof |-> p]
  <2>1. r \in SignInRequests /\ RequestBegins(b, r) /\ ~Throttled
    BY <1>3 DEF SignInRequests, BeginRemovePasskey
  <2> HIDE DEF r
  <2> QED
    BY <2>1, RequestBeginsKeeps
<1>4. ASSUME NEW k \in Passkeys, BeginAddPasskey(b, k) PROVE SignInInv'
  <2> DEFINE r == [kind |-> "add_passkey", key |-> k, id |-> acct.challenge.id]
  <2>1. acct.challenge.id \in Nat
    BY SameRow, AcctFields
  <2>2. r \in SignInRequests /\ RequestBegins(b, r) /\ r.kind = "add_passkey"
    BY <1>4, <2>1 DEF SignInRequests, BeginAddPasskey
  <2> HIDE DEF r
  <2> QED
    BY <2>2, RequestBeginsKeeps
<1> QED
  BY <1>1, <1>2, <1>3, <1>4 DEF BeginLoginMfa, BeginTotpDisable

LEMMA RequestFacts ==
    ASSUME SignInInv, NEW b \in Browsers
    PROVE  /\ request[b].kind \in {"login", "totp_disable", "remove_passkey"} =>
                request[b].proof \in ProofShapes \cup {WrongCode}
           /\ "proof" \in DOMAIN request[b] =>
                request[b].kind \in {"login", "totp_disable", "remove_passkey"}
           /\ request[b].kind \in {"remove_passkey", "add_passkey"} => request[b].key \in Passkeys
<1> DEFINE r == request[b]
<1>1. r \in SignInRequests
  BY DEF SignInInv
<1> HIDE DEF r
<1>2. /\ r.kind \in {"login", "totp_disable", "remove_passkey"} =>
           r.proof \in ProofShapes \cup {WrongCode}
      /\ r.kind \in {"remove_passkey", "add_passkey"} => r.key \in Passkeys
  BY <1>1 DEF SignInRequests, Nothing
<1>3. "proof" \in DOMAIN r => r.kind \in {"login", "totp_disable", "remove_passkey"}
  BY <1>1 DEF SignInRequests, Nothing
<1> QED
  BY <1>2, <1>3 DEF r

LEMMA RequestEnds ==
    ASSUME SignInInv, NEW b \in Browsers, NEW r \in {Nothing, [kind |-> "signed"]},
           request' = [request EXCEPT ![b] = r], failures' = failures \/ failures' = 0
    PROVE  request' \in [Browsers -> SignInRequests] /\ failures' \in Nat /\ GuessBound'
<1>1. r \in SignInRequests /\ r.kind \in {"none", "signed"}
  BY DEF SignInRequests, Nothing
<1>2. /\ request' \in [Browsers -> SignInRequests] /\ request'[b] = r
      /\ \A o \in Browsers \ {b} : request'[o] = request[o]
  BY <1>1 DEF SignInInv
<1>3. \A o \in Browsers : request'[o] = request[o] \/ o \notin Guessing'
  BY <1>1, <1>2 DEF Guessing
<1>4. failures \in Nat
  BY DEF SignInInv
<1>5. failures' \in Nat /\ failures' <= failures
  BY <1>4
<1> QED
  BY <1>2, <1>3, <1>5, GuessesKeep

\* A request whose proof counts.
LEMMA ProofSteps ==
    ASSUME SignInInv, NEW p, p \notin spent, Accept(p), AcctOk(acct)', SpentOk(acct', spent \cup {p}),
           \/ acct'.sv = acct.sv /\ (TwoFactor(acct) \/ ~TwoFactor(acct'))
           \/ acct'.sv = acct.sv + 1,
           cookie' \in [Browsers -> CookieRows],
           \A o \in Browsers : cookie'[o] = cookie[o] \/ CookieOk(cookie[o], acct)',
           request' \in [Browsers -> SignInRequests], failures' \in Nat, GuessBound'
    PROVE  SignInInv'
<1>1. again' = {} /\ spent' = spent \cup {p}
  BY DEF Accept, SignInInv
<1>2. SpentOk(acct, spent)'
  BY <1>1 DEF SpentOk
<1>3. \A o \in Browsers : CookieOk(cookie[o], acct)'
  BY CookiesKeep
<1> QED
  BY <1>1, <1>2, <1>3 DEF SignInInv

\* What a request may be asked about: its proof counts now, and only now.
LEMMA AcceptedCounts ==
    ASSUME SignInInv, NEW b \in Browsers, Accepted(request[b]),
           request[b].kind \in {"login", "totp_disable", "remove_passkey"}
    PROVE  LET p == request[b].proof
               r == Spend(acct, p)
           IN  /\ p \notin spent /\ AcctOk(r) /\ SpentOk(r, spent \cup {p})
               /\ r.sv = acct.sv /\ (TwoFactor(r) <=> TwoFactor(acct))
<1> DEFINE p == request[b].proof
           q == PurposeOf(request[b].kind)
<1>1. p \in ProofShapes \cup {WrongCode}
  BY RequestFacts
<1>2. UseSecondFactor(acct, p) \/ VerifyAssertion(acct, p, q)
  BY DEF Accepted
<1>3. AcctOk(acct) /\ SpentOk(acct, spent)
  BY DEF SignInInv
<1> HIDE DEF p, q
<1>4. /\ p \notin spent /\ AcctOk(Spend(acct, p)) /\ SpentOk(Spend(acct, p), spent \cup {p})
      /\ Spend(acct, p).sv = acct.sv /\ (TwoFactor(Spend(acct, p)) <=> TwoFactor(acct))
  BY <1>1, <1>2, <1>3, SpendCounts, ZenonT(60)
<1> QED
  BY <1>4 DEF p

LEMMA LoginMfaKeeps ==
    ASSUME SignInInv, NEW b \in Browsers, LoginMfa(b)
    PROVE  SignInInv'
<1> DEFINE p == request[b].proof
<1>1. /\ Accept(p) /\ acct' = Spend(acct, p) /\ request' = [request EXCEPT ![b] = [kind |-> "signed"]]
      /\ UNCHANGED <<cookie, failures>>
  BY DEF LoginMfa
<1>2. /\ p \notin spent /\ AcctOk(Spend(acct, p)) /\ SpentOk(Spend(acct, p), spent \cup {p})
      /\ Spend(acct, p).sv = acct.sv /\ (TwoFactor(Spend(acct, p)) <=> TwoFactor(acct))
  BY AcceptedCounts DEF LoginMfa
<1>3. request' \in [Browsers -> SignInRequests] /\ failures' \in Nat /\ GuessBound'
  BY <1>1, RequestEnds
<1>4. /\ cookie' \in [Browsers -> CookieRows]
      /\ \A o \in Browsers : cookie'[o] = cookie[o] \/ CookieOk(cookie[o], acct)'
  BY <1>1, SameCookies
<1> HIDE DEF p
<1>5. /\ AcctOk(acct)' /\ SpentOk(acct', spent \cup {p}) /\ acct'.sv = acct.sv
      /\ (TwoFactor(acct) \/ ~TwoFactor(acct'))
  BY <1>1, <1>2 DEF AcctOk, TwoFactor
<1> QED
  BY <1>1, <1>2, <1>3, <1>4, <1>5, ProofSteps

LEMMA BadGuessKeeps ==
    ASSUME SignInInv, NEW b \in Browsers, BadSecondFactor(b)
    PROVE  SignInInv'
<1> DEFINE p == request[b].proof
           r == TakeChallenge(acct, p)
<1>1. /\ acct' = r /\ failures' = failures + 1 /\ request' = [request EXCEPT ![b] = Nothing]
      /\ UNCHANGED <<cookie, spent, again>> /\ "proof" \in DOMAIN request[b]
  BY DEF BadSecondFactor
<1>2. RowGoesOn(acct, r) /\ (TwoFactor(r) <=> TwoFactor(acct)) /\ r.sv = acct.sv
  <2>1. /\ r \in AcctRows /\ r.sv = acct.sv /\ r.totp = acct.totp /\ r.pending = acct.pending
        /\ r.last = acct.last /\ r.passkeys = acct.passkeys /\ r.codes = acct.codes
        /\ r.shown = acct.shown
        /\ r.challenge = (IF p.kind = "passkey" THEN NoChallenge ELSE acct.challenge)
        /\ r.secrets = acct.secrets /\ r.batches = acct.batches /\ r.challenges = acct.challenges
    BY SameRow, TakeChallengeRow
  <2> HIDE DEF r
  <2>2. r.challenge = acct.challenge \/ r.challenge = NoChallenge
    BY <2>1
  <2> QED
    BY <2>1, <2>2, SameRow, TakenGoesOn
<1>3. b \in Guessing
  BY <1>1, RequestFacts DEF Guessing
<1>4. request' \in [Browsers -> SignInRequests] /\ failures' \in Nat /\ failures \in Nat
  BY <1>1 DEF SignInInv, SignInRequests
<1>5. GuessBound'
  <2>1. Guessing' = Guessing \ {b}
    <3>1. request'[b] = Nothing /\ \A o \in Browsers \ {b} : request'[o] = request[o]
      BY <1>1 DEF SignInInv
    <3> QED
      BY <3>1 DEF Guessing, Nothing
  <2>2. Cardinality(Guessing') = Cardinality(Guessing) - 1
    BY <1>3, <2>1, GuessSets, FS_RemoveElement
  <2>3. failures + Cardinality(Guessing) <= MaxFailures + Cardinality(Browsers) - 1
    BY DEF SignInInv, GuessBound
  <2>4. failures' + Cardinality(Guessing') <= MaxFailures + Cardinality(Browsers) - 1
    BY <1>1, <1>4, <2>2, <2>3, GuessSets
  <2> QED
    BY <2>4 DEF GuessBound
<1>6. /\ cookie' \in [Browsers -> CookieRows]
      /\ \A o \in Browsers : cookie'[o] = cookie[o] \/ CookieOk(cookie[o], acct)'
  BY <1>1, SameCookies
<1> HIDE DEF p, r
<1>7. RowGoesOn(acct, acct') /\ acct'.sv = acct.sv /\ (TwoFactor(acct) \/ ~TwoFactor(acct'))
  BY <1>1, <1>2
<1> QED
  BY <1>1, <1>4, <1>5, <1>6, <1>7, RowSteps

\* The row is cleared or a key removed after its proof was spent.
LEMMA RemovalKeeps ==
    ASSUME SignInInv, NEW b \in Browsers, TotpDisable(b) \/ RemovePasskey(b)
    PROVE  SignInInv'
<1> DEFINE p == request[b].proof
           a == Spend(acct, p)
<1>1. request' = [request EXCEPT ![b] = Nothing] /\ UNCHANGED <<cookie, failures>>
  BY DEF TotpDisable, RemovePasskey
<1>2. /\ p \notin spent /\ AcctOk(a) /\ SpentOk(a, spent \cup {p})
      /\ a.sv = acct.sv /\ (TwoFactor(a) <=> TwoFactor(acct))
  BY AcceptedCounts DEF TotpDisable, RemovePasskey
<1>3. request' \in [Browsers -> SignInRequests] /\ failures' \in Nat /\ GuessBound'
  BY <1>1, RequestEnds
<1>4. /\ cookie' \in [Browsers -> CookieRows]
      /\ \A o \in Browsers : cookie'[o] = cookie[o] \/ CookieOk(cookie[o], acct)'
  BY <1>1, SameCookies
<1>5. ASSUME NEW r, acct' = r, Accept(p), RowGoesOn(a, r), r.sv = a.sv, TwoFactor(r) => TwoFactor(a)
      PROVE  SignInInv'
  <2>1. a \in AcctRows /\ r \in AcctRows /\ NothingReturns(a, r)
    BY <1>2, <1>5 DEF RowGoesOn, AcctOk
  <2> HIDE DEF p, a
  <2>2. SpentOk(r, spent \cup {p})
    BY <1>2, <2>1, SpentStays
  <2>3. /\ AcctOk(acct)' /\ SpentOk(acct', spent \cup {p}) /\ acct'.sv = acct.sv
        /\ (TwoFactor(acct) \/ ~TwoFactor(acct'))
    BY <1>2, <1>5, <2>2 DEF AcctOk, TwoFactor, RowGoesOn
  <2> QED
    BY <1>2, <1>3, <1>4, <1>5, <2>3, ProofSteps
<1>6. CASE TotpDisable(b)
  <2>1. acct' = Clear(a) /\ Accept(p)
    BY <1>6 DEF TotpDisable
  <2> HIDE DEF p, a
  <2>2. /\ RowGoesOn(a, Clear(a)) /\ Clear(a).sv = a.sv /\ (TwoFactor(Clear(a)) => a.passkeys # {})
    BY <1>2, ClearGoesOn DEF AcctOk, TwoFactor
  <2>3. TwoFactor(Clear(a)) => TwoFactor(a)
    BY <2>2 DEF TwoFactor
  <2> QED
    BY <1>5, <2>1, <2>2, <2>3
<1>7. CASE RemovePasskey(b) /\ request[b].key \in acct.passkeys
  <2> DEFINE k == request[b].key
  <2>1. acct' = RemoveKey(a, k) /\ Accept(p)
    BY <1>7 DEF RemovePasskey
  <2> HIDE DEF p, a, k
  <2>2. /\ RowGoesOn(a, RemoveKey(a, k)) /\ RemoveKey(a, k).sv = a.sv
        /\ TwoFactor(RemoveKey(a, k)) => TwoFactor(a)
    BY <1>2, RemoveKeyGoesOn
  <2> QED
    BY <1>5, <2>1, <2>2
<1>8. CASE UNCHANGED <<acct, spent, again>>
  <2>1. RowGoesOn(acct, acct') /\ acct'.sv = acct.sv /\ (TwoFactor(acct) \/ ~TwoFactor(acct'))
    BY <1>8, SameRow DEF TwoFactor
  <2> QED
    BY <1>3, <1>4, <1>8, <2>1, RowSteps
<1> QED
  BY <1>6, <1>7, <1>8 DEF RemovePasskey

LEMMA FinishMfaKeeps ==
    ASSUME SignInInv, NEW b \in Browsers, FinishMfa(b)
    PROVE  SignInInv'
<1> DEFINE s == Session(acct, TRUE)
<1>1. /\ failures' = 0 /\ SetSession(b, s) /\ request' = [request EXCEPT ![b] = Nothing]
      /\ UNCHANGED <<acct, spent, again>>
  BY DEF FinishMfa
<1>2. /\ RowGoesOn(acct, acct') /\ AcctOk(acct)' /\ acct'.sv = acct.sv /\ acct.sv \in Nat
      /\ (TwoFactor(acct) \/ ~TwoFactor(acct'))
  BY <1>1, SameRow DEF AcctOk, TwoFactor
<1>3. request' \in [Browsers -> SignInRequests] /\ failures' \in Nat /\ GuessBound'
  BY <1>1, RequestEnds
<1>4. s \in [sv : Nat, proved : BOOLEAN] /\ s.sv = acct.sv /\ s.proved
  BY <1>2 DEF Session
<1> HIDE DEF s
<1>5. s.sv <= acct'.sv
  BY <1>2, <1>4
<1>6. /\ cookie' \in [Browsers -> CookieRows]
      /\ \A o \in Browsers : cookie'[o] = cookie[o] \/ CookieOk(cookie[o], acct)'
  BY <1>1, <1>2, <1>4, <1>5, SessionSet
<1> QED
  BY <1>1, <1>2, <1>3, <1>6, RowSteps

\* Steps that change only the row.
LEMMA OnlyRow ==
    ASSUME SignInInv, NEW r, acct' = r, RowGoesOn(acct, r),
           \/ r.sv = acct.sv /\ (TwoFactor(acct) \/ ~TwoFactor(r))
           \/ r.sv = acct.sv + 1,
           UNCHANGED <<cookie, request, failures, spent, again>>
    PROVE  SignInInv'
<1>1. request' \in [Browsers -> SignInRequests] /\ failures' \in Nat /\ GuessBound'
  BY SameRequests
<1>2. /\ cookie' \in [Browsers -> CookieRows]
      /\ \A o \in Browsers : cookie'[o] = cookie[o] \/ CookieOk(cookie[o], acct)'
  BY SameCookies
<1>3. /\ RowGoesOn(acct, acct')
      /\ \/ acct'.sv = acct.sv /\ (TwoFactor(acct) \/ ~TwoFactor(acct'))
         \/ acct'.sv = acct.sv + 1
  OBVIOUS
<1> QED
  BY <1>1, <1>2, <1>3, RowSteps

LEMMA ChallengesKeep ==
    ASSUME SignInInv,
           \/ ChallengeExpires
           \/ \E b \in Browsers : \E purpose \in {"login", "step_up", "register"} :
                StoreChallenge(b, purpose)
    PROVE  SignInInv'
<1>0. /\ acct.challenges \in Nat /\ acct.secrets \in Nat /\ acct.batches \in Nat /\ acct.last \in Nat
      /\ acct.challenge.id \in Nat /\ acct \in AcctRows /\ AcctOk(acct)
  BY SameRow, AcctFields
<1>1. CASE ChallengeExpires
  <2> DEFINE r == [acct EXCEPT !.challenge = NoChallenge]
  <2>1. acct' = r /\ UNCHANGED <<cookie, request, failures, spent, again>>
    BY <1>1 DEF ChallengeExpires
  <2>2. /\ r \in AcctRows /\ r.sv = acct.sv /\ r.totp = acct.totp /\ r.pending = acct.pending
        /\ r.last = acct.last /\ r.passkeys = acct.passkeys /\ r.codes = acct.codes
        /\ r.shown = acct.shown /\ r.challenge = NoChallenge
        /\ r.secrets = acct.secrets /\ r.batches = acct.batches /\ r.challenges = acct.challenges
    BY <1>0, NoChallengeOk DEF AcctRows
  <2> HIDE DEF r
  <2>3. RowGoesOn(acct, r) /\ (TwoFactor(r) <=> TwoFactor(acct))
    BY <1>0, <2>2, TakenGoesOn
  <2> QED
    BY <2>1, <2>2, <2>3, OnlyRow
<1>2. ASSUME NEW b \in Browsers, NEW purpose \in {"login", "step_up", "register"},
             StoreChallenge(b, purpose)
      PROVE  SignInInv'
  <2> DEFINE n == acct.challenges + 1
             ch == [id |-> n, purpose |-> purpose]
             r == [acct EXCEPT !.challenge = ch, !.challenges = n]
  <2>1. acct' = r /\ UNCHANGED <<cookie, request, failures, spent, again>>
    BY <1>2 DEF StoreChallenge
  <2>2. n \in Nat /\ acct.challenges < n
    BY <1>0
  <2> HIDE DEF n
  <2>3. ch \in [id : Nat, purpose : {"none", "login", "step_up", "register"}] /\ ch.id = n
    BY <2>2
  <2> HIDE DEF ch
  <2>4. /\ r \in AcctRows /\ r.sv = acct.sv /\ r.totp = acct.totp /\ r.pending = acct.pending
        /\ r.last = acct.last /\ r.passkeys = acct.passkeys /\ r.codes = acct.codes
        /\ r.shown = acct.shown /\ r.challenge = ch
        /\ r.secrets = acct.secrets /\ r.batches = acct.batches /\ r.challenges = n
    BY <1>0, <2>2, <2>3 DEF AcctRows
  <2> HIDE DEF r
  <2>5. TwoFactor(r) <=> TwoFactor(acct)
    BY <2>4 DEF TwoFactor
  <2>6. AcctOk(r)
    <3>1. r.shown <=> TwoFactor(r)
      BY <1>0, <2>4, <2>5 DEF AcctOk
    <3>2. /\ r.sv \in 1..MaxVersion /\ r.totp <= r.secrets /\ r.pending <= r.secrets
          /\ (r.pending = 0 \/ r.totp = 0) /\ \A m \in r.codes : 1 <= m /\ m <= r.batches
      BY <1>0, <2>4 DEF AcctOk
    <3>3. r.challenge.id <= r.challenges
      BY <2>2, <2>3, <2>4
    <3> QED
      BY <2>4, <3>1, <3>2, <3>3 DEF AcctOk
  <2>7. NothingReturns(acct, r)
    BY <1>0, <2>2, <2>3, <2>4 DEF NothingReturns
  <2> QED
    BY <2>1, <2>4, <2>5, <2>6, <2>7, OnlyRow DEF RowGoesOn
<1> QED
  BY <1>1, <1>2

LEMMA SetupKeeps ==
    ASSUME SignInInv, NEW b \in Browsers, TotpSetup(b)
    PROVE  SignInInv'
<1>0. /\ acct.challenges \in Nat /\ acct.secrets \in Nat /\ acct.batches \in Nat /\ acct.last \in Nat
      /\ acct.challenge.id \in Nat /\ acct \in AcctRows /\ AcctOk(acct)
  BY SameRow, AcctFields
<1> DEFINE n == acct.secrets + 1
           r == [acct EXCEPT !.pending = n, !.secrets = n]
<1>1. acct' = r /\ UNCHANGED <<cookie, request, failures, spent, again>> /\ acct.totp = 0
  BY DEF TotpSetup
<1>2. n \in Nat /\ acct.secrets < n
  BY <1>0
<1> HIDE DEF n
<1>3. /\ r \in AcctRows /\ r.sv = acct.sv /\ r.totp = acct.totp /\ r.pending = n
      /\ r.last = acct.last /\ r.passkeys = acct.passkeys /\ r.codes = acct.codes
      /\ r.shown = acct.shown /\ r.challenge = acct.challenge
      /\ r.secrets = n /\ r.batches = acct.batches /\ r.challenges = acct.challenges
  BY <1>0, <1>2 DEF AcctRows
<1> HIDE DEF r
<1>4. TwoFactor(r) <=> TwoFactor(acct)
  BY <1>3 DEF TwoFactor
<1>5. AcctOk(r)
  <2>1. r.shown <=> TwoFactor(r)
    BY <1>0, <1>3, <1>4 DEF AcctOk
  <2>2. /\ r.sv \in 1..MaxVersion /\ r.challenge.id <= r.challenges
        /\ \A m \in r.codes : 1 <= m /\ m <= r.batches
    BY <1>0, <1>3 DEF AcctOk
  <2>3. r.totp <= r.secrets /\ r.pending <= r.secrets /\ r.totp = 0
    BY <1>1, <1>2, <1>3
  <2> QED
    BY <1>3, <2>1, <2>2, <2>3 DEF AcctOk
<1>6. NothingReturns(acct, r)
  BY <1>0, <1>1, <1>2, <1>3 DEF NothingReturns
<1> QED
  BY <1>1, <1>3, <1>4, <1>5, <1>6, OnlyRow DEF RowGoesOn

LEMMA AdminsKeep ==
    ASSUME SignInInv,
           \/ ResetTwoFactor \/ AdminSetsPassword
           \/ \E b \in Browsers : RegenerateRecoveryCodes(b)
    PROVE  SignInInv'
<1>0. acct \in AcctRows /\ AcctOk(acct) /\ RowGoesOn(acct, acct)
  BY SameRow
<1>1. UNCHANGED <<cookie, request, failures, spent, again>>
  BY DEF ResetTwoFactor, AdminSetsPassword, RegenerateRecoveryCodes
<1>2. CASE ResetTwoFactor
  <2> DEFINE a == [acct EXCEPT !.passkeys = {}, !.challenge = NoChallenge]
             c == Clear(a)
  <2>1. acct' = Bump(c) /\ acct.sv < MaxVersion
    BY <1>2 DEF ResetTwoFactor
  <2>2. /\ a \in AcctRows /\ a.sv = acct.sv /\ a.totp = acct.totp /\ a.pending = acct.pending
        /\ a.last = acct.last /\ a.passkeys = {} /\ a.codes = acct.codes
        /\ a.challenge = NoChallenge
        /\ a.secrets = acct.secrets /\ a.batches = acct.batches /\ a.challenges = acct.challenges
    BY <1>0, NoChallengeOk DEF AcctRows
  <2> HIDE DEF a
  <2>3. a.challenge.id = 0 /\ a.challenge.id <= a.challenges
    BY <2>2, NoChallengeOk, AcctFields
  <2>4. RowGoesOn(a, c) /\ c.sv = a.sv
    BY <1>0, <2>2, <2>3, ClearGoesOn DEF AcctOk
  <2> HIDE DEF c
  <2>5. RowGoesOn(acct, c)
    <3>1. /\ c.challenge.id = acct.challenge.id \/ c.challenge.id = 0
             \/ acct.challenges < c.challenge.id
      BY <2>2, <2>3, <2>4 DEF RowGoesOn, NothingReturns
    <3> QED
      BY <2>2, <2>4, <3>1 DEF RowGoesOn, NothingReturns
  <2>6. RowGoesOn(acct, Bump(c)) /\ Bump(c).sv = c.sv + 1
    BY <2>1, <2>2, <2>4, <2>5, BumpGoesOn
  <2> QED
    BY <1>1, <2>1, <2>2, <2>4, <2>6, OnlyRow
<1>3. CASE AdminSetsPassword
  <2>1. acct' = Bump(acct) /\ acct.sv < MaxVersion
    BY <1>3 DEF AdminSetsPassword
  <2>2. RowGoesOn(acct, Bump(acct)) /\ Bump(acct).sv = acct.sv + 1
    BY <1>0, <2>1, BumpGoesOn
  <2> QED
    BY <1>1, <2>1, <2>2, OnlyRow
<1>4. ASSUME NEW b \in Browsers, RegenerateRecoveryCodes(b) PROVE SignInInv'
  <2>1. acct' = NewCodes(acct) /\ TwoFactor(acct)
    BY <1>4 DEF RegenerateRecoveryCodes
  <2>2. RowGoesOn(acct, NewCodes(acct)) /\ NewCodes(acct).sv = acct.sv
    BY <1>0, <2>1, NewCodesGoOn DEF AcctOk
  <2> QED
    BY <1>1, <2>1, <2>2, OnlyRow
<1> QED
  BY <1>2, <1>3, <1>4

\* A session of the next version, for the browser whose request changed it.
LEMMA NextSession ==
    ASSUME SignInInv, NEW b \in Browsers, NEW s, SetSession(b, s), AcctOk(acct)',
           s \in [sv : Nat, proved : BOOLEAN], s.sv = acct'.sv, s.proved \/ ~TwoFactor(acct')
    PROVE  /\ cookie' \in [Browsers -> CookieRows]
           /\ \A o \in Browsers : cookie'[o] = cookie[o] \/ CookieOk(cookie[o], acct)'
<1>1. s.sv <= acct'.sv
  OBVIOUS
<1> QED
  BY <1>1, SessionSet

LEMMA AddPasskeyKeeps ==
    ASSUME SignInInv, NEW b \in Browsers, AddPasskey(b)
    PROVE  SignInInv'
<1> DEFINE a == [acct EXCEPT !.challenge = NoChallenge]
           k == request[b].key
           s == Session(acct', TRUE)
<1>0. acct \in AcctRows /\ AcctOk(acct) /\ acct.sv \in Nat
  BY SameRow
<1>1. /\ request' = [request EXCEPT ![b] = Nothing] /\ UNCHANGED <<failures, spent, again>>
      /\ acct.sv < MaxVersion
      /\ \/ acct' = AddKey(a, k) /\ (IF TwoFactor(acct) THEN UNCHANGED cookie ELSE SetSession(b, s))
         \/ acct' = a /\ UNCHANGED cookie
  BY DEF AddPasskey
<1>2. k \in Passkeys
  BY RequestFacts DEF AddPasskey
<1>3. /\ a \in AcctRows /\ a.sv = acct.sv /\ a.totp = acct.totp /\ a.pending = acct.pending
      /\ a.last = acct.last /\ a.passkeys = acct.passkeys /\ a.codes = acct.codes
      /\ a.shown = acct.shown /\ a.challenge = NoChallenge
      /\ a.secrets = acct.secrets /\ a.batches = acct.batches /\ a.challenges = acct.challenges
  BY <1>0, NoChallengeOk DEF AcctRows
<1> HIDE DEF a, k
<1>4. RowGoesOn(acct, a) /\ AcctOk(a) /\ (TwoFactor(a) <=> TwoFactor(acct))
  BY <1>0, <1>3, TakenGoesOn DEF RowGoesOn
<1>5. request' \in [Browsers -> SignInRequests] /\ failures' \in Nat /\ GuessBound'
  BY <1>1, RequestEnds
<1>6. CASE acct' = a /\ UNCHANGED cookie
  <2>1. /\ cookie' \in [Browsers -> CookieRows]
        /\ \A o \in Browsers : cookie'[o] = cookie[o] \/ CookieOk(cookie[o], acct)'
    BY <1>6, SameCookies
  <2>2. RowGoesOn(acct, acct') /\ acct'.sv = acct.sv /\ (TwoFactor(acct) \/ ~TwoFactor(acct'))
    BY <1>3, <1>4, <1>6
  <2> QED
    BY <1>1, <1>5, <2>1, <2>2, RowSteps
<1>7. CASE acct' = AddKey(a, k) /\ (IF TwoFactor(acct) THEN UNCHANGED cookie ELSE SetSession(b, s))
  <2>1. /\ RowGoesOn(a, acct') /\ TwoFactor(acct')
        /\ acct'.sv = IF TwoFactor(acct) THEN acct.sv ELSE acct.sv + 1
    BY <1>1, <1>2, <1>3, <1>4, <1>7, AddKeyGoesOn
  <2>2. RowGoesOn(acct, acct')
    <3>1. acct'.challenge.id = acct.challenge.id \/ acct'.challenge.id = 0
             \/ acct.challenges < acct'.challenge.id
      BY <1>3, <2>1, NoChallengeOk DEF RowGoesOn, NothingReturns
    <3> QED
      BY <1>3, <2>1, <3>1 DEF RowGoesOn, NothingReturns
  <2>3. AcctOk(acct)' /\ acct'.sv \in Nat
    BY <1>0, <2>1, <2>2 DEF RowGoesOn, AcctOk, TwoFactor
  <2>4. /\ cookie' \in [Browsers -> CookieRows]
        /\ \A o \in Browsers : cookie'[o] = cookie[o] \/ CookieOk(cookie[o], acct)'
    <3>1. CASE TwoFactor(acct)
      BY <1>7, <3>1, SameCookies
    <3>2. CASE ~TwoFactor(acct)
      <4>1. s \in [sv : Nat, proved : BOOLEAN] /\ s.sv = acct'.sv /\ s.proved /\ SetSession(b, s)
        BY <1>7, <2>3, <3>2 DEF Session
      <4> HIDE DEF s
      <4> QED
        BY <2>3, <4>1, NextSession
    <3> QED
      BY <3>1, <3>2
  <2>5. \/ acct'.sv = acct.sv /\ (TwoFactor(acct) \/ ~TwoFactor(acct'))
        \/ acct'.sv = acct.sv + 1
    BY <2>1
  <2> QED
    BY <1>1, <1>5, <2>2, <2>4, <2>5, RowSteps
<1> QED
  BY <1>1, <1>6, <1>7

LEMMA ChangePasswordKeeps ==
    ASSUME SignInInv, NEW b \in Browsers, ChangePassword(b)
    PROVE  SignInInv'
<1> DEFINE s == [cookie[b].session EXCEPT !.sv = acct'.sv]
<1>0. acct \in AcctRows /\ AcctOk(acct) /\ acct.sv \in Nat /\ RowGoesOn(acct, acct)
  BY SameRow
<1>1. /\ acct' = Bump(acct) /\ acct.sv < MaxVersion /\ Live(b) /\ SetSession(b, s)
      /\ UNCHANGED <<request, failures, spent, again>>
  BY DEF ChangePassword
<1>2. RowGoesOn(acct, acct') /\ acct'.sv = acct.sv + 1 /\ (TwoFactor(acct') <=> TwoFactor(acct))
  BY <1>0, <1>1, BumpGoesOn
<1>3. AcctOk(acct)' /\ acct'.sv \in Nat
  BY <1>0, <1>2 DEF RowGoesOn, AcctOk, TwoFactor
<1>4. /\ cookie' \in [Browsers -> CookieRows]
      /\ \A o \in Browsers : cookie'[o] = cookie[o] \/ CookieOk(cookie[o], acct)'
  <2>1. cookie[b] \in CookieRows /\ CookieOk(cookie[b], acct)
    BY DEF SignInInv
  <2>2. cookie[b].session \in [sv : Nat, proved : BOOLEAN]
    BY <2>1 DEF CookieRows
  <2>3. TwoFactor(acct) => cookie[b].session.proved
    BY <1>1, <2>1 DEF CookieOk, Live
  <2>4. s \in [sv : Nat, proved : BOOLEAN] /\ s.sv = acct'.sv /\ s.proved = cookie[b].session.proved
    BY <1>3, <2>2
  <2>5. s.proved \/ ~TwoFactor(acct')
    BY <1>2, <2>3, <2>4
  <2> HIDE DEF s
  <2> QED
    BY <1>1, <1>3, <2>4, <2>5, NextSession
<1>5. request' \in [Browsers -> SignInRequests] /\ failures' \in Nat /\ GuessBound'
  BY <1>1, SameRequests
<1> QED
  BY <1>1, <1>2, <1>4, <1>5, RowSteps

LEMMA TotpEnableKeeps ==
    ASSUME SignInInv, NEW b \in Browsers, NEW c \in 1..LastStep, TotpEnable(b, c)
    PROVE  SignInInv'
<1> DEFINE s == Session(acct', TRUE)
           p == TotpCode(acct.pending, c)
<1>0. acct \in AcctRows /\ AcctOk(acct) /\ acct.sv \in Nat /\ acct.pending \in Nat
      /\ acct.secrets \in Nat /\ c \in Nat
  BY SameRow, AcctFields
<1>1. /\ acct' = Bump(Enable(acct, c)) /\ acct.sv < MaxVersion /\ acct.totp = 0 /\ acct.pending # 0
      /\ Accept(p) /\ SetSession(b, s) /\ UNCHANGED <<request, failures>>
  BY DEF TotpEnable
<1>2. /\ RowGoesOn(acct, acct') /\ acct'.sv = acct.sv + 1 /\ TwoFactor(acct')
      /\ acct'.totp = acct.pending /\ acct'.pending = 0 /\ acct'.last = c
      /\ acct'.secrets = acct.secrets
  BY <1>0, <1>1, EnableGoesOn
<1>3. AcctOk(acct)' /\ acct'.sv \in Nat /\ acct' \in AcctRows
  BY <1>0, <1>2 DEF RowGoesOn, AcctOk, TwoFactor
<1>4. /\ cookie' \in [Browsers -> CookieRows]
      /\ \A o \in Browsers : cookie'[o] = cookie[o] \/ CookieOk(cookie[o], acct)'
  <2>1. s \in [sv : Nat, proved : BOOLEAN] /\ s.sv = acct'.sv /\ s.proved
    BY <1>3 DEF Session
  <2> HIDE DEF s
  <2> QED
    BY <1>1, <1>3, <2>1, NextSession
<1>5. /\ p \in ProofShapes /\ p.kind = "totp" /\ p.secret = acct.pending /\ p.step = c
  BY <1>0, <1>1 DEF TotpCode, ProofShapes, TotpProofs
<1> HIDE DEF p
<1>6. p \notin spent
  BY <1>5 DEF SignInInv, SpentOk
<1>7. SpentOk(acct', spent \cup {p})
  <2>1. SpentOk(acct', spent)
    BY <1>0, <1>2, <1>3, SpentStays DEF SignInInv, RowGoesOn
  <2>2. p.secret <= acct'.secrets /\ p.secret # acct'.pending /\ p.step <= acct'.last
    BY <1>0, <1>1, <1>2, <1>5 DEF AcctOk
  <2> QED
    BY <1>5, <2>1, <2>2 DEF SpentOk
<1>8. request' \in [Browsers -> SignInRequests] /\ failures' \in Nat /\ GuessBound'
  BY <1>1, SameRequests
<1> QED
  BY <1>1, <1>2, <1>3, <1>4, <1>6, <1>7, <1>8, ProofSteps

LEMMA WindowKeeps ==
    ASSUME SignInInv, WindowPasses \/ UNCHANGED signInVars
    PROVE  SignInInv'
<1>1. UNCHANGED <<acct, cookie, request, spent, again>> /\ (failures' = 0 \/ failures' = failures)
  BY DEF WindowPasses, signInVars
<1>2. RowGoesOn(acct, acct') /\ acct'.sv = acct.sv /\ (TwoFactor(acct) \/ ~TwoFactor(acct'))
  BY <1>1, SameRow
<1>3. request' \in [Browsers -> SignInRequests] /\ failures' \in Nat /\ GuessBound'
  BY <1>1, SameRequests
<1>4. /\ cookie' \in [Browsers -> CookieRows]
      /\ \A o \in Browsers : cookie'[o] = cookie[o] \/ CookieOk(cookie[o], acct)'
  BY <1>1, SameCookies
<1> QED
  BY <1>1, <1>2, <1>3, <1>4, RowSteps

LEMMA SignInKeeps == SignInInv /\ [SignInNext]_signInVars => SignInInv'
BY SessionsKeep, BeginningsKeep, BadGuessKeeps, LoginMfaKeeps, FinishMfaKeeps, RemovalKeeps,
   ChallengesKeep, AddPasskeyKeeps, ChangePasswordKeeps, SetupKeeps, TotpEnableKeeps, AdminsKeep,
   WindowKeeps DEF SignInNext

LEMMA SignInTyped == SignInInv => SignInTypes
<1> SUFFICES ASSUME SignInInv PROVE SignInTypes
  OBVIOUS
<1>1. AcctOk(acct) /\ acct \in AcctRows
  BY SameRow
<1>2. /\ acct.totp \in Nat /\ acct.secrets \in Nat /\ acct.batches \in Nat
      /\ acct.codes \in SUBSET Nat /\ acct.passkeys \in SUBSET Passkeys
  BY <1>1, AcctFields
<1>3. acct.sv \in 1..MaxVersion /\ acct.totp \in 0..acct.secrets
  BY <1>1, <1>2 DEF AcctOk
<1>4. acct.codes \subseteq 1..acct.batches
  BY <1>1, <1>2 DEF AcctOk
<1>5. \A b \in Browsers : cookie[b].session.sv <= acct.sv /\ cookie[b].mfa <= acct.sv
  BY DEF SignInInv, CookieOk
<1> QED
  BY <1>2, <1>3, <1>4, <1>5 DEF SignInTypes

LEMMA SignInIsSound == SignInInv => SignInSound
<1> SUFFICES ASSUME SignInInv PROVE SignInSound
  OBVIOUS
<1>1. ProofsCountOnce
  BY DEF SignInInv, ProofsCountOnce
<1>2. SessionsProved
  BY DEF SignInInv, CookieOk, SessionsProved, Live
<1>3. CodesFollowFactors
  BY DEF SignInInv, AcctOk, CodesFollowFactors
<1>4. GuessesBounded
  <2>1. failures \in Nat /\ failures + Cardinality(Guessing) <= MaxFailures + Cardinality(Browsers) - 1
    BY DEF SignInInv, GuessBound
  <2>2. failures <= MaxFailures + Cardinality(Browsers) - 1
    BY <2>1, GuessSets
  <2> QED
    BY <2>2 DEF GuessesBounded
<1> QED
  BY <1>1, <1>2, <1>3, <1>4 DEF SignInSound

\* However many browsers race, a TOTP code, a recovery code or a challenge is accepted once, a
\* working session has proved a factor while there is one, recovery codes follow the factors
\* and guesses are bounded (use_second_factor, _check_second_factor, totp_user_throttle).
THEOREM SignInStaysSound == SignInSpec => []SignInSound
<1>1. SignInSpec => []SignInInv
  BY SignInStart, SignInKeeps, PTL DEF SignInSpec
<1> QED
  BY <1>1, SignInIsSound, PTL
=============================================================================
