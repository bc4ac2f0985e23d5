---------------------------- MODULE StoreMoves -----------------------------
(***************************************************************************)
(* Moving a secret from AnsiDeck's database to the secret store, and       *)
(* pointing a reference elsewhere: each takes several calls of the store   *)
(* with no transaction open, then locks the row and wants it unchanged.    *)
(* Meanwhile others move, edit, delete or re-encrypt the same row, move to *)
(* the same path, operators write and delete secrets, and answers are      *)
(* lost.  A path keeps KV v2's version count (external).                   *)
(***************************************************************************)
EXTENDS Integers, FiniteSets

CONSTANTS
    Secrets,        \* credentials and vault passwords of a project; each is its own value
    Paths,
    Requests,       \* requests being served
    MaxKvVersion,     \* bound: versions of a path an operator writes over
    MaxRotations    \* bound: re-encryptions of a row

ASSUME StoreMovesAssumption ==
    /\ IsFiniteSet(Secrets) /\ IsFiniteSet(Paths) /\ {MaxKvVersion, MaxRotations} \subseteq Nat
    /\ Secrets \intersect {"other", "deleted"} = {}

VARIABLES
    secretRow,  \* where each secret is: "here" (under a key epoch), "store" at a path, "gone"
    kv,         \* the store: each path's value and version count
    move,       \* requests in flight
    meant       \* the value each row stands for: its own, or what it was pointed at

moveVars == <<secretRow, kv, move, meant>>

Values == Secrets \union {"other", "deleted"}
NoMove == [at |-> "idle", kind |-> "none", row |-> "none", path |-> "none", before |-> "none",
           version |-> 0]
Here(epoch) == [at |-> "here", path |-> "none", epoch |-> epoch]
InStore(p) == [at |-> "store", path |-> p, epoch |-> 0]

\* Rows, the store and the requests in flight.
MoveTypes ==
    /\ \A r \in Secrets : \/ secretRow[r] \in {Here(e) : e \in 0..MaxRotations}
                          \/ secretRow[r] \in {InStore(p) : p \in Paths}
                          \/ secretRow[r].at = "gone"
    /\ kv \in [Paths -> [value : Values, version : Nat]]
    /\ \A m \in Requests : /\ move[m].at \in {"idle", "reading", "creating", "comparing", "saving"}
                           /\ move[m].at # "idle" => move[m].row \in Secrets /\ move[m].path \in Paths
    /\ meant \in [Secrets -> Values]

MoveInit ==
    /\ secretRow = [r \in Secrets |-> Here(0)]
    /\ \E taken \in SUBSET Paths :
         kv = [p \in Paths |-> IF p \in taken THEN [value |-> "other", version |-> 1]
                                              ELSE [value |-> "deleted", version |-> 0]]
    /\ move = [m \in Requests |-> NoMove] /\ meant = [r \in Secrets |-> r]

MoveEnds(m) == move' = [move EXCEPT ![m] = NoMove]
GoesOn(m, at) == move' = [move EXCEPT ![m].at = at]

\* move_to_store of a row stored here, edit_reference of one in the store: the row is
\* read, and the transaction closed before the store is asked.
StartMove(m, r, p) ==
    /\ move[m] = NoMove /\ secretRow[r].at \in {"here", "store"}
    /\ move' = [move EXCEPT ![m] =
         [at |-> "reading", row |-> r, path |-> p, before |-> secretRow[r], version |-> 0,
          kind |-> IF secretRow[r].at = "here" THEN "move" ELSE "edit"]]
    /\ UNCHANGED <<secretRow, kv, meant>>

\* A read works: an edit may go on, a move must find nothing there.
ReadWorks(m) ==
    /\ move[m].at = "reading" /\ kv[move[m].path].value # "deleted"
    /\ IF move[m].kind = "edit" THEN GoesOn(m, "saving") ELSE MoveEnds(m)
    /\ UNCHANGED <<secretRow, kv, meant>>

ReadFindsNothing(m) ==
    /\ move[m].at = "reading" /\ kv[move[m].path].value = "deleted"
    /\ IF move[m].kind = "move" THEN GoesOn(m, "creating") ELSE MoveEnds(m)
    /\ UNCHANGED <<secretRow, kv, meant>>

\* Mutant: written without check-and-set.
PutAnyway(p) == TRUE

\* Check-and-set 0: the path never had a version, not even a deleted one.
MayCreate(p) == kv[p].version = 0

\* The new secret is written; its answer may be lost.
CreateSecret(m, heard) ==
    LET p == move[m].path IN
    /\ move[m].at = "creating" /\ MayCreate(p)
    /\ kv' = [kv EXCEPT ![p] = [value |-> move[m].row, version |-> @.version + 1]]
    /\ IF heard THEN move' = [move EXCEPT ![m].at = "comparing", ![m].version = kv'[p].version]
                ELSE MoveEnds(m)
    /\ UNCHANGED <<secretRow, meant>>

CreateRefused(m) ==
    /\ move[m].at = "creating" /\ ~MayCreate(move[m].path) /\ MoveEnds(m)
    /\ UNCHANGED <<secretRow, kv, meant>>

\* Mutant: believed without reading it back.
MatchesAnyway(m) == TRUE

\* What is read back is the value and the version written.
Matches(m) == kv[move[m].path] = [value |-> move[m].row, version |-> move[m].version]

ReadBack(m) ==
    /\ move[m].at = "comparing"
    /\ IF Matches(m) THEN GoesOn(m, "saving") ELSE MoveEnds(m)
    /\ UNCHANGED <<secretRow, kv, meant>>

\* A call of the store fails.
StoreFails(m) ==
    /\ move[m].at \in {"reading", "creating", "comparing"} /\ MoveEnds(m)
    /\ UNCHANGED <<secretRow, kv, meant>>

\* The row, locked, is as the request first read it: the same ciphertext, or reference.
Unchanged(m) == secretRow[move[m].row] = move[m].before

\* The reference is kept instead of the ciphertext.
SaveReference(m) ==
    LET r == move[m].row
        p == move[m].path IN
    /\ move[m].at = "saving" /\ Unchanged(m)
    /\ secretRow' = [secretRow EXCEPT ![r] = InStore(p)]
    /\ meant' = IF move[m].kind = "edit" THEN [meant EXCEPT ![r] = kv[p].value] ELSE meant
    /\ MoveEnds(m) /\ UNCHANGED kv

RowChanged(m) ==
    /\ move[m].at = "saving" /\ ~Unchanged(m) /\ MoveEnds(m)
    /\ UNCHANGED <<secretRow, kv, meant>>

\* reencrypt_all, one row: another ciphertext of the same value.
Reencrypt(r) ==
    /\ secretRow[r].at = "here" /\ secretRow[r].epoch < MaxRotations
    /\ secretRow' = [secretRow EXCEPT ![r].epoch = @ + 1]
    /\ UNCHANGED <<kv, move, meant>>

DeleteSecret(r) ==
    /\ secretRow[r].at # "gone"
    /\ secretRow' = [secretRow EXCEPT ![r] = [at |-> "gone", path |-> "none", epoch |-> 0]]
    /\ UNCHANGED <<kv, move, meant>>

\* An operator writes or deletes a secret no row refers to, before a request has read
\* it: what he does to one that is in use is his own doing.
Operator(p, value) ==
    /\ \A r \in Secrets : secretRow[r] # InStore(p)
    /\ \A m \in Requests : move[m].at = "saving" => move[m].path # p
    /\ value = "deleted" => kv[p].value # "deleted"
    /\ value = "other" => kv[p].version < MaxKvVersion
    /\ kv' = [kv EXCEPT ![p] = [value |-> value,
                                version |-> @.version + (IF value = "other" THEN 1 ELSE 0)]]
    /\ UNCHANGED <<secretRow, move, meant>>

MoveNext ==
    \/ \E m \in Requests : \/ \E r \in Secrets, p \in Paths : StartMove(m, r, p)
                           \/ ReadWorks(m) \/ ReadFindsNothing(m) \/ CreateRefused(m)
                           \/ \E heard \in BOOLEAN : CreateSecret(m, heard)
                           \/ ReadBack(m) \/ StoreFails(m) \/ SaveReference(m) \/ RowChanged(m)
    \/ \E r \in Secrets : Reencrypt(r) \/ DeleteSecret(r)
    \/ \E p \in Paths, v \in {"other", "deleted"} : Operator(p, v)

-----------------------------------------------------------------------------
\* A secret already in the store is never overwritten: AnsiDeck's value only ever
\* becomes the first version of a path, whoever got there between its read and its write.
NeverOverwrites ==
    [][\A p \in Paths : kv'[p] # kv[p] /\ kv'[p].value \in Secrets => kv[p].version = 0]_moveVars

\* The copy here is dropped only when the store holds it: every row that is left gives
\* the value it stands for, through concurrent moves, edits and lost answers.
NothingLost ==
    \A r \in Secrets : secretRow[r].at = "store" => kv[secretRow[r].path].value = meant[r]

\* A move takes nothing from the rows and nothing from the store.
MovesSafe == []NothingLost /\ NeverOverwrites
=============================================================================
