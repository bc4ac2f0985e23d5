------------------------------ MODULE Allowlist ------------------------------
(***************************************************************************)
(* The allowlist of a run on an inventory that restricts egress, from the  *)
(* hosts' variables (the API: egress_allowlist) over names and addresses   *)
(* (the worker: resolve_allowlist) to the disjoint elements nft wants      *)
(* (_disjoint, slot_ruleset).  Addresses and ports are small numbers.      *)
(***************************************************************************)
EXTENDS Integers, FiniteSets, SequencesExt

CONSTANTS
    Names,              \* host names of the inventory
    JumpName,           \* the jump host some hosts name in their ssh arguments
    LastAddress,        \* addresses are 0..LastAddress
    LastPort,           \* ports are 1..LastPort; ssh is port 1
    MaxEntries          \* port entries given to _disjoint at once

ASSUME AllowlistAssumption ==
    /\ JumpName \notin Names
    /\ LastAddress \in Nat \ 0..2 /\ LastPort \in Nat \ 0..1 /\ MaxEntries \in Nat

VARIABLE plan   \* the allowlist that was worked out, and from what

Addresses == 0..LastAddress
Ports == 1..LastPort
\* Networks: blocks of 1, 2 and 4 addresses at a multiple of their size.
Networks == {s \in Addresses \X Addresses :
                s[2] - s[1] + 1 \in {1, 2, 4} /\ s[1] % (s[2] - s[1] + 1) = 0}
PortRanges == {r \in Ports \X Ports : r[1] <= r[2]}

PlanInit == plan = [at |-> "none"]

-----------------------------------------------------------------------------
(* What a restricted job needs: egress_allowlist.                            *)

\* A host as its merged variables have it: how it connects, the name or template
\* its address comes from, and what its ssh arguments say.
HostVars ==
    [connection : {"ssh", "local", "other"},
     address : Names \union {"template"},
     args : {"none", "jump", "proxy"}]

\* egress_target
Target(v) ==
    IF v.connection = "local" THEN [status |-> "local"]
    ELSE IF v.connection = "other" \/ v.address = "template" THEN [status |-> "unknown"]
    ELSE [status |-> IF v.args = "none" THEN "ok" ELSE "indirect",
          address |-> v.address,
          jumps |-> IF v.args = "jump" THEN {JumpName} ELSE {}]

\* job_egress: refused when a host's address isn't known.
JobEgress(hosts) ==
    LET targets == {Target(hosts[i]) : i \in DOMAIN hosts}
        placed == {t \in targets : t.status \in {"ok", "indirect"}} IN
    IF \E t \in targets : t.status = "unknown" THEN [refused |-> TRUE]
    ELSE [refused |-> FALSE,
          hosts |-> {[name |-> t.address, required |-> t.status = "ok"] : t \in placed},
          jumps |-> UNION {t.jumps : t \in placed}]

\* Mutant: a host that does not resolve is left out.
NoProblems(spec, lookup) == {}

\* Names that must resolve and don't.
Problems(spec, lookup) ==
    {h.name : h \in {g \in spec.hosts : g.required /\ lookup[g.name] = {}}}
      \union {j \in spec.jumps : lookup[j] = {}}

\* resolve_allowlist: hosts on every port, jump hosts on their ssh port, extra
\* entries (networks, or networks with ports) as they are.
ResolveAllowlist(spec, lookup, extra) ==
    [hosts |-> {<<a, a>> : a \in UNION {lookup[h.name] : h \in spec.hosts}}
                 \union {e[1] : e \in {x \in extra : x[2] = <<0, 0>>}},
     ports |-> {<<<<a, a>>, <<1, 1>>>> : a \in UNION {lookup[j] : j \in spec.jumps}}
                 \union {e \in extra : e[2] # <<0, 0>>}]

-----------------------------------------------------------------------------
(* _merge and _disjoint.                                                     *)

Below(p, q) == p[1] < q[1] \/ (p[1] = q[1] /\ p[2] < q[2])

\* sorted(S)
InOrder(S) ==
    [i \in 1..Cardinality(S) |->
        CHOOSE p \in S : Cardinality({q \in S : Below(q, p)}) = i - 1]

Joined(merged, r) ==
    LET n == Len(merged) IN
    IF n > 0 /\ r[1] <= merged[n][2] + 1
    THEN [merged EXCEPT ![n] = <<@[1], IF r[2] > @[2] THEN r[2] ELSE @[2]>>]
    ELSE Append(merged, r)

Merge(ranges) == FoldLeft(Joined, <<>>, InOrder(ranges))

Inside(span, spans) == \E s \in ToSet(spans) : s[1] <= span[1] /\ span[2] <= s[2]

\* Mutant: a piece joins its neighbour whatever ports that one has.
JoinPieces(pieces, p) ==
    LET n == Len(pieces) IN
    IF n > 0 /\ pieces[n].span[2] + 1 = p.span[1]
    THEN [pieces EXCEPT ![n].span = <<@[1], p.span[2]>>]
    ELSE Append(pieces, p)

\* Neighbouring pieces with the same ports join.
AddPiece(pieces, p) ==
    LET n == Len(pieces) IN
    IF p.ports = <<>> THEN pieces
    ELSE IF n > 0 /\ pieces[n].span[2] + 1 = p.span[1] /\ pieces[n].ports = p.ports
         THEN [pieces EXCEPT ![n].span = <<@[1], p.span[2]>>]
         ELSE Append(pieces, p)

\* Where the addresses are cut: at every entry's ends.
Cuts(entries) ==
    InOrder({<<c, 0>> : c \in {e[1][1] : e \in entries} \union {e[1][2] + 1 : e \in entries}})

\* What lies between two cuts, with the ports of the entries over it.
PieceAt(entries, cuts, i) ==
    LET span == <<cuts[i][1], cuts[i + 1][1] - 1>> IN
    [span |-> span,
     ports |-> Merge({e[2] : e \in {f \in entries : Inside(span, <<f[1]>>)}})]

\* The entries of one protocol that the hosts' networks do not hold, as elements.
Disjoint(hosts, entries) ==
    LET spans == Merge(hosts)
        left == {e \in entries : ~Inside(e[1], spans)}
        cuts == Cuts(left)
        pieces == FoldLeft(AddPiece, <<>>,
                           [i \in 1..Len(cuts) - 1 |-> PieceAt(left, cuts, i)]) IN
    UNION {{<<p.span, r>> : r \in ToSet(p.ports)} : p \in ToSet(pieces)}

-----------------------------------------------------------------------------
(* A restricted run is planned: the API's part, then the worker's.           *)

Lookups == [Names \union {JumpName} -> {{}, {0}, {1, 2}}]
Extras == {{}, {<<<<2, 3>>, <<0, 0>>>>}, {<<<<0, 1>>, <<2, LastPort>>>>}}

PlanRun ==
    /\ plan.at = "none"
    /\ \E one, two \in HostVars, lookup \in Lookups, extra \in Extras :
         LET spec == JobEgress(<<one, two>>) IN
         plan' = IF spec.refused \/ Problems(spec, lookup) # {}
                 THEN [at |-> "refused"]
                 ELSE LET allowed == ResolveAllowlist(spec, lookup, extra) IN
                      [at |-> "planned", vars |-> {one, two}, lookup |-> lookup, extra |-> extra,
                       hosts |-> allowed.hosts, ports |-> allowed.ports,
                       elements |-> Disjoint(allowed.hosts, allowed.ports)]

\* Any few overlapping networks and port ranges (extra entries are the user's).
PlanEntries ==
    /\ plan.at = "none"
    /\ \E host \in {{}} \union {{n} : n \in Networks},
          given \in [1..MaxEntries -> Networks \X PortRanges] :
         plan' = [at |-> "entries", hosts |-> host, ports |-> Range(given),
                  elements |-> Disjoint(host, Range(given))]

PlanNext == PlanRun \/ PlanEntries

-----------------------------------------------------------------------------
Has(span, a) == span[1] <= a /\ a <= span[2]

\* What the slot's table accepts (slot_ruleset).
AcceptsEntry(a, port) ==
    \/ \E s \in plan.hosts : Has(s, a)
    \/ \E e \in plan.elements : Has(e[1], a) /\ Has(e[2], port)

\* nft gets elements that don't overlap, and accepts exactly what the entries say,
\* however networks and port ranges overlap.
ElementsExact ==
    plan.at \in {"planned", "entries"} =>
      /\ \A d, e \in plan.elements : d # e =>
           ~\E a \in Addresses, p \in Ports :
              Has(d[1], a) /\ Has(d[2], p) /\ Has(e[1], a) /\ Has(e[2], p)
      /\ \A a \in Addresses, p \in Ports :
           AcceptsEntry(a, p) <=> \/ \E s \in plan.hosts : Has(s, a)
                             \/ \E e \in plan.ports : Has(e[1], a) /\ Has(e[2], p)

\* A restricted run that starts reaches every host it connects to directly, and
\* the jump host of every other one; nothing but those, what its indirect hosts
\* resolve to and the extra entries is open to it.
RunReachesItsHosts ==
    plan.at = "planned" =>
      /\ \A v \in plan.vars :
           /\ v.connection # "local" /\ v.args = "none" =>
                /\ plan.lookup[v.address] # {}
                /\ \A a \in plan.lookup[v.address], p \in Ports : AcceptsEntry(a, p)
           /\ v.connection # "local" /\ v.args = "jump" =>
                \E a \in plan.lookup[JumpName] : AcceptsEntry(a, 1)
      /\ \A a \in Addresses, p \in Ports : AcceptsEntry(a, p) =>
           \/ \E v \in plan.vars : v.connection # "local" /\ a \in plan.lookup[v.address]
           \/ p = 1 /\ a \in plan.lookup[JumpName] /\ \E v \in plan.vars : v.args = "jump"
           \/ \E e \in plan.extra : Has(e[1], a) /\ (e[2] = <<0, 0>> \/ Has(e[2], p))

\* The table is exactly what the plan says, and the plan what the run needs.
AllowlistExact == ElementsExact /\ RunReachesItsHosts
=============================================================================
