--------------------------- MODULE LintRun_proofs ---------------------------
(***************************************************************************)
(* Proofs about LintRun, for any NetBoxes, writes by others and commands:  *)
(* no standing fault is missed, nothing that is excused is reported, and   *)
(* exit status 0 means that nothing was wrong all through the run.         *)
(***************************************************************************)
EXTENDS LintRun, FiniteSetTheorems, FunctionTheorems, TLAPS

-----------------------------------------------------------------------------
\* Sets and chunks.

\* SetToSeq() lists all of a finite set.
LEMMA SetToSeqCovers ==
    ASSUME NEW S, IsFiniteSet(S)
    PROVE  \A v \in S : \E i \in DOMAIN SetToSeq(S) : SetToSeq(S)[i] = v
<1> DEFINE list == SetToSeq(S)
<1>1. Cardinality(S) \in Nat /\ ExistsBijection(1 .. Cardinality(S), S)
  BY FS_CardinalityType
<1>2. \E f \in [1 .. Cardinality(S) -> S] : IsInjective(f)
  BY <1>1 DEF ExistsBijection, Bijection, Injection
<1>3. list \in [1 .. Cardinality(S) -> S] /\ IsInjective(list)
  BY <1>2 DEF SetToSeq
<1>4. list \in Injection(1 .. Cardinality(S), S)
  BY <1>3 DEF Injection
<1>5. Cardinality(1 .. Cardinality(S)) = Cardinality(S)
  BY <1>1, FS_Interval
<1>6. list \in Surjection(1 .. Cardinality(S), S)
  BY <1>4, <1>5, FS_Injection
<1> QED
  BY <1>3, <1>6 DEF Surjection

\* Each value is in one of the chunks that in_chunks() makes.
LEMMA ChunksCover ==
    ASSUME NEW values, IsFiniteSet(values), NEW v \in values
    PROVE  \E chunk \in InChunks(values) : v \in chunk
<1> DEFINE list == SetToSeq(values)
           chunk(n) == {list[i] : i \in {i \in DOMAIN list : (i - 1) \div FILTER_CHUNK = n}}
<1>1. PICK i \in DOMAIN list : list[i] = v
  BY SetToSeqCovers
<1>2. v \in chunk((i - 1) \div FILTER_CHUNK)
  BY <1>1
<1>3. chunk((i - 1) \div FILTER_CHUNK) \in InChunks(values)
  BY <1>1 DEF InChunks
<1> QED
  BY <1>2, <1>3

LEMMA ImageIsFinite ==
    ASSUME NEW S, IsFiniteSet(S), NEW f, DOMAIN f = S
    PROVE  IsFiniteSet({f[x] : x \in S})
<1> DEFINE T == {f[x] : x \in S}
           g == [x \in S |-> f[x]]
<1>1. g \in Surjection(S, T)
  BY DEF Surjection
<1> QED
  BY <1>1, FS_Surjection

-----------------------------------------------------------------------------
\* Claims that stand.

\* A fault that stands in some NetBoxes is, for one and the same reason, a fault
\* of each of them; and there is one.
LEMMA FaultStands ==
    ASSUME NEW cmd, NEW nbs, NEW x \in StandingFaults(cmd, nbs)
    PROVE  \E claim : claim[1] = x /\ \A nb \in nbs : claim \in Faults(cmd, nb)
BY DEF StandingFaults, Standing

LEMMA ExcuseStands ==
    ASSUME NEW cmd, NEW nbs, NEW x \in StandingExcuses(cmd, nbs)
    PROVE  \E claim : claim[1] = x /\ \A nb \in nbs : claim \in Excuses(cmd, nb)
BY DEF StandingExcuses, Standing

\* What stands in more NetBoxes stands in fewer of them.
LEMMA FewerFaultsStand ==
    ASSUME NEW cmd, NEW nbs, NEW more, nbs \subseteq more, nbs # {}
    PROVE  StandingFaults(cmd, more) \subseteq StandingFaults(cmd, nbs)
<1> SUFFICES ASSUME NEW x \in StandingFaults(cmd, more)
             PROVE  x \in StandingFaults(cmd, nbs)
  OBVIOUS
<1>1. PICK claim : claim[1] = x /\ \A nb \in more : claim \in Faults(cmd, nb)
  BY FaultStands
<1>2. \A nb \in nbs : claim \in Faults(cmd, nb)
  BY <1>1
<1>3. claim \in UNION {Faults(cmd, nb) : nb \in nbs}
  BY <1>2
<1> QED
  BY <1>1, <1>2, <1>3 DEF StandingFaults, Standing

\* What a command reports of a NetBox that was as in nbs at each of its listings.
Right(cmd, nbs, seen) ==
    /\ StandingFaults(cmd, nbs) \subseteq Find(cmd, seen)
    /\ StandingExcuses(cmd, nbs) \cap Find(cmd, seen) = {}

-----------------------------------------------------------------------------
\* The IPAM lints.

LEMMA EmptyPrefixesAreRight ==
    ASSUME NEW cmd, cmd.name = "empty-prefixes", NEW nbs, NEW seen,
           seen[1] \in nbs, seen[2] \in nbs
    PROVE  Right(cmd, nbs, seen)
<1> DEFINE one == seen[1].prefixes
           two == seen[2].addresses
<1>1. Find(cmd, seen) = EmptyPrefixes(one, two, cmd)
  BY DEF Find
<1>2. \A nb : Faults(cmd, nb) =
          {<<p, nb.prefixes[p]>> : p \in
              {p \in DOMAIN nb.prefixes : /\ PrefixIsAsked(cmd, nb.prefixes[p])
                                          /\ Fillings(nb, nb.prefixes[p]) = {}}}
  BY DEF Faults
<1>3. \A nb : Excuses(cmd, nb) =
          {<<p, <<"not-asked", nb.prefixes[p]>>>> : p \in
              {p \in DOMAIN nb.prefixes : ~PrefixIsAsked(cmd, nb.prefixes[p])}} \cup
          UNION {{<<p, <<"filled", nb.prefixes[p], filling>>>> :
                      filling \in Fillings(nb, nb.prefixes[p])} : p \in DOMAIN nb.prefixes}
  BY DEF Excuses
<1>4. ASSUME NEW x \in StandingFaults(cmd, nbs)
      PROVE  x \in Find(cmd, seen)
  <2>1. PICK claim : claim[1] = x /\ \A nb \in nbs : claim \in Faults(cmd, nb)
    BY <1>4, FaultStands
  <2>2. PICK p \in DOMAIN one : /\ claim = <<p, one[p]>>
                                /\ PrefixIsAsked(cmd, one[p])
                                /\ Fillings(seen[1], one[p]) = {}
    BY <1>2, <2>1
  <2>3. PICK q : claim = <<q, seen[2].prefixes[q]>> /\ Fillings(seen[2], seen[2].prefixes[q]) = {}
    BY <1>2, <2>1
  <2>4. p = x /\ q = p /\ Fillings(seen[2], one[p]) = {}
    BY <2>1, <2>2, <2>3
  <2>5. ~HasChildPrefix(one, one[p])
    BY <2>2 DEF Fillings, HasChildPrefix
  <2>6. ~HasAddressIn(two, one[p])
    BY <2>4 DEF Fillings, HasAddressIn
  <2> QED
    BY <1>1, <2>2, <2>4, <2>5, <2>6 DEF EmptyPrefixes, PrefixIsAsked, IsEmptyPrefix
<1>5. ASSUME NEW x \in StandingExcuses(cmd, nbs), x \in Find(cmd, seen)
      PROVE  FALSE
  <2>1. PICK claim : claim[1] = x /\ \A nb \in nbs : claim \in Excuses(cmd, nb)
    BY <1>5, ExcuseStands
  <2>2. /\ x \in DOMAIN one /\ PrefixIsAsked(cmd, one[x])
        /\ ~HasChildPrefix(one, one[x]) /\ ~HasAddressIn(two, one[x])
    BY <1>1, <1>5 DEF EmptyPrefixes, PrefixIsAsked, IsEmptyPrefix
  <2>3. PICK filling \in Fillings(seen[1], one[x]) : claim = <<x, <<"filled", one[x], filling>>>>
    <3>1. CASE \E p \in DOMAIN one : ~PrefixIsAsked(cmd, one[p])
                                     /\ claim = <<p, <<"not-asked", one[p]>>>>
      BY <2>1, <2>2, <3>1
    <3>2. CASE \E p \in DOMAIN one : \E filling \in Fillings(seen[1], one[p]) :
                   claim = <<p, <<"filled", one[p], filling>>>>
      BY <2>1, <3>2
    <3> QED
      BY <1>3, <2>1, <3>1, <3>2
  <2>4. claim[2][1] = "filled" /\ claim[2][2] = one[x] /\ claim[2][3] = filling
    BY <2>3
  <2>5. filling \in Fillings(seen[2], one[x])
    <3>1. CASE \E q : claim = <<q, <<"not-asked", seen[2].prefixes[q]>>>>
      BY <2>4, <3>1
    <3>2. CASE \E q : \E other \in Fillings(seen[2], seen[2].prefixes[q]) :
                   claim = <<q, <<"filled", seen[2].prefixes[q], other>>>>
      BY <2>4, <3>2
    <3> QED
      BY <1>3, <2>1, <3>1, <3>2
  <2>6. CASE filling[1] = "prefix"
    <3>1. PICK p \in DOMAIN one : one[p].vrf = one[x].vrf /\ Inside(one[p].net, one[x].net)
      BY <2>3, <2>6 DEF Fillings
    <3> QED
      BY <2>2, <3>1 DEF HasChildPrefix
  <2>7. CASE filling[1] # "prefix"
    <3>1. PICK a \in DOMAIN two : two[a].vrf = one[x].vrf /\ Covers(one[x].net, two[a].addr)
      BY <2>5, <2>7 DEF Fillings
    <3> QED
      BY <2>2, <3>1 DEF HasAddressIn
  <2> QED
    BY <2>6, <2>7
<1> QED
  BY <1>4, <1>5 DEF Right

LEMMA UnparentedIpsAreRight ==
    ASSUME NEW cmd, cmd.name = "unparented-ips", NEW nbs, NEW seen,
           seen[1] \in nbs, seen[2] \in nbs
    PROVE  Right(cmd, nbs, seen)
<1> DEFINE one == seen[1].prefixes
           two == seen[2].addresses
<1>1. Find(cmd, seen) = UnparentedIps(one, two, cmd)
  BY DEF Find
<1>2. \A nb : Faults(cmd, nb) =
          {<<a, nb.addresses[a]>> : a \in
              {a \in DOMAIN nb.addresses :
                  /\ OfFamily(nb.addresses[a].addr.version, cmd.family)
                  /\ Parents(nb, nb.addresses[a]) = {}}}
  BY DEF Faults
<1>3. \A nb : Excuses(cmd, nb) =
          UNION {{<<a, <<nb.addresses[a], p, nb.prefixes[p]>>>> :
                      p \in Parents(nb, nb.addresses[a])} : a \in DOMAIN nb.addresses}
  BY DEF Excuses
<1>4. \A address :
          Parents(seen[1], address) = {} <=>
              CoveringPrefixlens(one, address, DEFAULT_MIN_PREFIXLEN[address.addr.version]) = {}
  BY DEF Parents, CoveringPrefixlens
<1>5. ASSUME NEW x \in StandingFaults(cmd, nbs)
      PROVE  x \in Find(cmd, seen)
  <2>1. PICK claim : claim[1] = x /\ \A nb \in nbs : claim \in Faults(cmd, nb)
    BY <1>5, FaultStands
  <2>2. PICK a \in DOMAIN two : /\ claim = <<a, two[a]>>
                                /\ OfFamily(two[a].addr.version, cmd.family)
    BY <1>2, <2>1
  <2>3. PICK b : /\ claim = <<b, seen[1].addresses[b]>>
                 /\ Parents(seen[1], seen[1].addresses[b]) = {}
    BY <1>2, <2>1
  <2>4. a = x /\ Parents(seen[1], two[x]) = {}
    BY <2>1, <2>2, <2>3
  <2> QED
    BY <1>1, <1>4, <2>2, <2>4 DEF UnparentedIps
<1>6. ASSUME NEW x \in StandingExcuses(cmd, nbs), x \in Find(cmd, seen)
      PROVE  FALSE
  <2>1. PICK claim : claim[1] = x /\ \A nb \in nbs : claim \in Excuses(cmd, nb)
    BY <1>6, ExcuseStands
  <2>2. x \in DOMAIN two /\ Parents(seen[1], two[x]) = {}
    BY <1>1, <1>4, <1>6 DEF UnparentedIps
  <2>3. PICK a \in DOMAIN two : \E p : claim = <<a, <<two[a], p, seen[2].prefixes[p]>>>>
    BY <1>3, <2>1
  <2>4. PICK b : \E p \in Parents(seen[1], seen[1].addresses[b]) :
            claim = <<b, <<seen[1].addresses[b], p, one[p]>>>>
    BY <1>3, <2>1
  <2>5. a = x /\ two[x] = seen[1].addresses[b]
    BY <2>1, <2>3, <2>4
  <2> QED
    BY <2>2, <2>4, <2>5
<1> QED
  BY <1>5, <1>6 DEF Right

-----------------------------------------------------------------------------
\* The lints that make a single listing: they report exactly what is a fault.

OneListing == {"duplicate-prefixes", "duplicate-ips", "subinterface-parents"}

LEMMA ExactIsRight ==
    ASSUME NEW cmd, cmd.name \in OneListing, NEW nbs, NEW seen, seen[1] \in nbs,
           Find(cmd, seen) = {fault[1] : fault \in Faults(cmd, seen[1])}
    PROVE  Right(cmd, nbs, seen)
<1>1. \A nb : Excuses(cmd, nb) =
          (Subjects(cmd, nb) \ {fault[1] : fault \in Faults(cmd, nb)}) \X {"in-order"}
  BY DEF OneListing, Excuses
<1>2. ASSUME NEW x \in StandingFaults(cmd, nbs)
      PROVE  x \in Find(cmd, seen)
  BY FaultStands
<1>3. ASSUME NEW x \in StandingExcuses(cmd, nbs), x \in Find(cmd, seen)
      PROVE  FALSE
  <2>1. PICK claim : claim[1] = x /\ \A nb \in nbs : claim \in Excuses(cmd, nb)
    BY <1>3, ExcuseStands
  <2>2. claim[1] \notin {fault[1] : fault \in Faults(cmd, seen[1])}
    BY <1>1, <2>1
  <2> QED
    BY <1>3, <2>1, <2>2
<1> QED
  BY <1>2, <1>3 DEF Right

Values(S, f) == {f[x] : x \in S}
Pairs(S, f, g) == {<<f[x], g[x]>> : x \in S}
Firsts(claims) == {claim[1] : claim \in claims}

LEMMA FirstsOfPairs ==
    ASSUME NEW S, NEW f, NEW g
    PROVE  Firsts(Pairs(S, f, g)) = Values(S, f)
<1>1. ASSUME NEW v \in Firsts(Pairs(S, f, g))
      PROVE  v \in Values(S, f)
  <2>1. PICK claim \in Pairs(S, f, g) : v = claim[1]
    BY DEF Firsts
  <2>2. PICK x \in S : claim = <<f[x], g[x]>>
    BY DEF Pairs
  <2> QED
    BY <2>1, <2>2 DEF Values
<1>2. ASSUME NEW x \in S
      PROVE  f[x] \in Firsts(Pairs(S, f, g))
  <2>1. <<f[x], g[x]>> \in Pairs(S, f, g) /\ <<f[x], g[x]>>[1] = f[x]
    BY DEF Pairs
  <2> QED
    BY <2>1 DEF Firsts
<1> QED
  BY <1>1, <1>2 DEF Values

\* find_in_multiple_vrfs() for a table, given the value and the VRF of each row.
Twice(S, value, vrf) == {x \in S : \E y \in S : value[y] = value[x] /\ vrf[y] # vrf[x]}

LEMMA InMultipleVrfsIs ==
    ASSUME NEW S, NEW value, NEW vrf
    PROVE  InMultipleVrfs(Pairs(S, value, vrf)) = Values(Twice(S, value, vrf), value)
<1> DEFINE pairs == Pairs(S, value, vrf)
           found == {q \in pairs : \E r \in pairs : r[1] = q[1] /\ r[2] # q[2]}
<1>1. ASSUME NEW v \in {q[1] : q \in found}
      PROVE  v \in Values(Twice(S, value, vrf), value)
  <2>1. PICK q \in pairs, r \in pairs : v = q[1] /\ r[1] = q[1] /\ r[2] # q[2]
    OBVIOUS
  <2>2. PICK x \in S : q = <<value[x], vrf[x]>>
    BY DEF Pairs
  <2>3. PICK y \in S : r = <<value[y], vrf[y]>>
    BY DEF Pairs
  <2> QED
    BY <2>1, <2>2, <2>3 DEF Twice, Values
<1>2. ASSUME NEW x \in Twice(S, value, vrf)
      PROVE  value[x] \in {q[1] : q \in found}
  <2>1. PICK y \in S : value[y] = value[x] /\ vrf[y] # vrf[x]
    BY DEF Twice
  <2>2. <<value[x], vrf[x]>> \in pairs /\ <<value[y], vrf[y]>> \in pairs
    BY DEF Pairs, Twice
  <2>3. <<value[x], vrf[x]>> \in found
    BY <2>1, <2>2
  <2> QED
    BY <2>3
<1>3. InMultipleVrfs(pairs) = {q[1] : q \in found}
  BY DEF InMultipleVrfs
<1> QED
  BY <1>1, <1>2, <1>3 DEF Values

LEMMA DuplicatePrefixesAreRight ==
    ASSUME NEW cmd, cmd.name = "duplicate-prefixes", NEW nbs, NEW seen, seen[1] \in nbs
    PROVE  Right(cmd, nbs, seen)
<1> DEFINE one == seen[1].prefixes
           rows == {p \in DOMAIN one : OfFamily(one[p].net.version, cmd.family)}
           value == [p \in DOMAIN one |-> one[p].net]
           vrf == [p \in DOMAIN one |-> one[p].vrf]
           why == [p \in DOMAIN one |-> "twice"]
           twice == Twice(rows, value, vrf)
<1>1. Find(cmd, seen) = InMultipleVrfs({<<one[p].net, one[p].vrf>> : p \in rows})
  BY DEF Find, DuplicatePrefixes
<1>2. {<<one[p].net, one[p].vrf>> : p \in rows} = Pairs(rows, value, vrf)
  BY DEF Pairs
<1>3. Find(cmd, seen) = Values(twice, value)
  BY <1>1, <1>2, InMultipleVrfsIs
<1>4. Faults(cmd, seen[1]) =
          {<<one[p].net, "twice">> : p \in
              {p \in DOMAIN one :
                  /\ OfFamily(one[p].net.version, cmd.family)
                  /\ \E q \in DOMAIN one : one[q].net = one[p].net /\ one[q].vrf # one[p].vrf}}
  BY DEF Faults
<1>5. twice = {p \in DOMAIN one :
                  /\ OfFamily(one[p].net.version, cmd.family)
                  /\ \E q \in DOMAIN one : one[q].net = one[p].net /\ one[q].vrf # one[p].vrf}
  BY DEF Twice
<1>6. {<<one[p].net, "twice">> : p \in twice} = Pairs(twice, value, why)
  BY DEF Pairs, Twice
<1>7. Find(cmd, seen) = Firsts(Faults(cmd, seen[1]))
  <2> HIDE DEF twice, value, why
  <2>1. Faults(cmd, seen[1]) = Pairs(twice, value, why)
    BY <1>4, <1>5, <1>6
  <2> QED
    BY <1>3, <2>1, FirstsOfPairs
<1> QED
  BY <1>7, ExactIsRight DEF OneListing, Firsts

LEMMA DuplicateIpsAreRight ==
    ASSUME NEW cmd, cmd.name = "duplicate-ips", NEW nbs, NEW seen, seen[1] \in nbs
    PROVE  Right(cmd, nbs, seen)
<1> DEFINE one == seen[1].addresses
           rows == {a \in DOMAIN one : OfFamily(one[a].addr.version, cmd.family)}
           value == [a \in DOMAIN one |-> one[a].addr]
           vrf == [a \in DOMAIN one |-> one[a].vrf]
           why == [a \in DOMAIN one |-> "twice"]
           twice == Twice(rows, value, vrf)
<1>1. Find(cmd, seen) = InMultipleVrfs({<<one[a].addr, one[a].vrf>> : a \in rows})
  BY DEF Find, DuplicateIps
<1>2. {<<one[a].addr, one[a].vrf>> : a \in rows} = Pairs(rows, value, vrf)
  BY DEF Pairs
<1>3. Find(cmd, seen) = Values(twice, value)
  BY <1>1, <1>2, InMultipleVrfsIs
<1>4. Faults(cmd, seen[1]) =
          {<<one[a].addr, "twice">> : a \in
              {a \in DOMAIN one :
                  /\ OfFamily(one[a].addr.version, cmd.family)
                  /\ \E b \in DOMAIN one : one[b].addr = one[a].addr /\ one[b].vrf # one[a].vrf}}
  BY DEF Faults
<1>5. twice = {a \in DOMAIN one :
                  /\ OfFamily(one[a].addr.version, cmd.family)
                  /\ \E b \in DOMAIN one : one[b].addr = one[a].addr /\ one[b].vrf # one[a].vrf}
  BY DEF Twice
<1>6. {<<one[a].addr, "twice">> : a \in twice} = Pairs(twice, value, why)
  BY DEF Pairs, Twice
<1>7. Find(cmd, seen) = Firsts(Faults(cmd, seen[1]))
  <2> HIDE DEF twice, value, why
  <2>1. Faults(cmd, seen[1]) = Pairs(twice, value, why)
    BY <1>4, <1>5, <1>6
  <2> QED
    BY <1>3, <2>1, FirstsOfPairs
<1> QED
  BY <1>7, ExactIsRight DEF OneListing, Firsts

\* wrong_parent() asks for the interface that the name names, a fault is about the
\* parent that there is: the same, as names are unique.
LEMMA SubinterfaceParentsAreRight ==
    ASSUME NEW cmd, cmd.name = "subinterface-parents", NEW nbs, NEW seen,
           seen[1] \in nbs, Holds(seen[1])
    PROVE  Right(cmd, nbs, seen)
<1> DEFINE ifaces == seen[1].ifaces
           wanted(i) == {j \in DOMAIN ifaces : ifaces[j].sub = None /\ Key(ifaces[j]) = Key(ifaces[i])}
           wrong(i) == \/ ifaces[i].parent = None
                       \/ Key(ifaces[ifaces[i].parent]) # Key(ifaces[i])
                       \/ ifaces[ifaces[i].parent].sub # None
<1>1. Find(cmd, seen) = {i \in DOMAIN ifaces : ifaces[i].sub # None /\ WrongParent(ifaces, i)}
  BY DEF Find, SubinterfaceParents
<1>2. {fault[1] : fault \in Faults(cmd, seen[1])} =
          {i \in DOMAIN ifaces : ifaces[i].sub # None /\ wrong(i)}
  <2> DEFINE bad == {i \in DOMAIN ifaces : ifaces[i].sub # None /\ wrong(i)}
             self == [i \in DOMAIN ifaces |-> i]
             why == [i \in DOMAIN ifaces |-> "wrong-parent"]
  <2>1. Faults(cmd, seen[1]) = {<<i, "wrong-parent">> : i \in bad}
    BY DEF Faults
  <2> HIDE DEF wrong
  <2>2. {<<i, "wrong-parent">> : i \in bad} = Pairs(bad, self, why) /\ Values(bad, self) = bad
    BY DEF Pairs, Values
  <2>3. Firsts(Faults(cmd, seen[1])) = bad
    BY <2>1, <2>2, FirstsOfPairs
  <2> QED
    BY <2>3 DEF Firsts
<1>3. ASSUME NEW i \in DOMAIN ifaces
      PROVE  WrongParent(ifaces, i) <=> wrong(i)
  <2>1. ifaces[i].parent = None \/ ifaces[i].parent \in DOMAIN ifaces
    BY DEF Holds
  <2>2. WrongParent(ifaces, i) <=>
            wanted(i) = {} \/ ifaces[i].parent = None \/ ifaces[i].parent \notin wanted(i)
    BY DEF WrongParent
  <2> QED
    BY <2>1, <2>2
<1>4. Find(cmd, seen) = {fault[1] : fault \in Faults(cmd, seen[1])}
  BY <1>1, <1>2, <1>3
<1> QED
  BY <1>4, ExactIsRight DEF OneListing

-----------------------------------------------------------------------------
\* unattached-interfaces.

LEMMA LooksUnusedIs ==
    ASSUME NEW nb, NEW i, NEW cmd
    PROVE  LooksUnused(nb, i, cmd) = {} <=>
               WantsACable(nb.ifaces[i]) /\ nb.ifaces[i].base \notin cmd.exclude
<1> DEFINE iface == nb.ifaces[i]
<1>1. /\ "cabled" \in LooksUnused(nb, i, cmd) <=> iface.cable
      /\ "marked" \in LooksUnused(nb, i, cmd) <=> iface.marked
      /\ "disabled" \in LooksUnused(nb, i, cmd) <=> ~iface.enabled
      /\ "no-port" \in LooksUnused(nb, i, cmd) <=> iface.kind # "physical"
      /\ "sub" \in LooksUnused(nb, i, cmd) <=> iface.sub # None \/ iface.parent # None
      /\ "skipped" \in LooksUnused(nb, i, cmd) <=> iface.base \in SKIPPED_NAMES \cup cmd.exclude
  BY DEF LooksUnused
<1>2. LooksUnused(nb, i, cmd) \subseteq
          {"cabled", "marked", "disabled", "no-port", "sub", "skipped"}
  BY DEF LooksUnused
<1> QED
  BY <1>1, <1>2 DEF WantsACable, PortFilters, IsSubinterface

\* What interfaces_by_key() finds.
LEMMA InterfacesByKeyFinds ==
    ASSUME NEW ifaces, NEW keys, IsFiniteSet(keys),
           NEW i \in DOMAIN ifaces, ifaces[i].sub = None, Key(ifaces[i]) \in keys
    PROVE  i \in InterfacesByKey(ifaces, keys)
<1>1. PICK chunk \in InChunks(keys) : Key(ifaces[i]) \in chunk
  BY ChunksCover
<1>2. /\ ifaces[i].device \in {key[1] : key \in chunk}
      /\ ifaces[i].base \in {key[2] : key \in chunk}
  <2>1. Key(ifaces[i])[1] = ifaces[i].device /\ Key(ifaces[i])[2] = ifaces[i].base
    BY DEF Key
  <2> QED
    BY <1>1, <2>1
<1> QED
  BY <1>1, <1>2 DEF InterfacesByKey, Matches

LEMMA LagMembersFinds ==
    ASSUME NEW ifaces, NEW lags, IsFiniteSet(lags),
           NEW i \in DOMAIN ifaces, ifaces[i].lag \in lags
    PROVE  i \in LagMembers(ifaces, lags)
BY ChunksCover DEF LagMembers, Matches

LEMMA HoldersAreFinite ==
    ASSUME NEW nb, IsNetBox(nb)
    PROVE  IsFiniteSet(Holders(nb))
<1> DEFINE S == {a \in DOMAIN nb.addresses : nb.addresses[a].on # None}
           f == [a \in S |-> Key(nb.ifaces[nb.addresses[a].on])]
<1>1. IsFiniteSet(S)
  BY FS_Subset DEF IsNetBox, Tables
<1>2. IsFiniteSet({f[a] : a \in S})
  <2> HIDE DEF S
  <2>1. DOMAIN f = S
    OBVIOUS
  <2> HIDE DEF f
  <2> QED
    BY <1>1, <2>1, ImageIsFinite
<1> QED
  BY <1>2 DEF Holders

\* What counts on a port, or on the LAG that it is in, is what addresses_of() finds.
LEMMA CountingIs ==
    ASSUME NEW nb, Holds(nb), NEW i \in DOMAIN nb.ifaces, NEW other, other.ifaces = nb.ifaces
    PROVE  HasAddresses(i, other, Holders(nb)) <=> Counting(nb, i) # {}
<1> DEFINE ifaces == nb.ifaces
           lag == ifaces[i].lag
<1>1. HasAddresses(i, other, Holders(nb)) <=>
          \/ Key(ifaces[i]) \in Holders(nb)
          \/ lag # None /\ <<ifaces[i].device, ifaces[lag].base>> \in Holders(nb)
  BY DEF HasAddresses
<1>2. \A key : key \in Holders(nb) <=>
          \E a \in DOMAIN nb.addresses : /\ nb.addresses[a].on # None
                                         /\ key = Key(ifaces[nb.addresses[a].on])
  BY DEF Holders
<1>3. lag # None => <<ifaces[i].device, ifaces[lag].base>> = Key(ifaces[lag])
  BY DEF Holds, Key
<1>4. Counting(nb, i) # {} <=>
          \E a \in DOMAIN nb.addresses :
              /\ nb.addresses[a].on # None
              /\ \/ Key(ifaces[nb.addresses[a].on]) = Key(ifaces[i])
                 \/ lag # None /\ Key(ifaces[nb.addresses[a].on]) = Key(ifaces[lag])
  BY DEF Counting
<1> QED
  BY <1>1, <1>2, <1>3, <1>4

\* A port that wants a cable all the time, and that has an address on it, on its
\* subinterfaces or on its LAG, is in one of the three listings.
LEMMA PortIsListed ==
    ASSUME NEW nb, NEW two, NEW three, NEW four, IsNetBox(nb), IsNetBox(three),
           two.ifaces = nb.ifaces, three.ifaces = nb.ifaces, four.ifaces = nb.ifaces,
           NEW i \in DOMAIN nb.ifaces, WantsACable(nb.ifaces[i]), Counting(nb, i) # {}
    PROVE  i \in DOMAIN PortsHoldingAddresses(Holders(nb), two, three, four)
<1> DEFINE ifaces == nb.ifaces
           holders == Holders(nb)
           own == {j \in InterfacesByKey(ifaces, holders) : PortFilters(ifaces[j])}
           lags == {j \in InterfacesByKey(ifaces, holders) : ifaces[j].kind = "lag"}
           members == {j \in LagMembers(ifaces, lags) : PortFilters(ifaces[j])}
<1>1. PICK a \in DOMAIN nb.addresses :
          /\ nb.addresses[a].on # None
          /\ \/ Key(ifaces[nb.addresses[a].on]) = Key(ifaces[i])
             \/ ifaces[i].lag # None /\ Key(ifaces[nb.addresses[a].on]) = Key(ifaces[ifaces[i].lag])
  BY DEF Counting
<1>2. Key(ifaces[nb.addresses[a].on]) \in holders
  BY <1>1 DEF Holders
<1>3. PortFilters(ifaces[i]) /\ ifaces[i].sub = None
  BY DEF WantsACable, IsSubinterface
<1>4. DOMAIN PortsHoldingAddresses(holders, two, three, four) = own \cup members
  BY DEF PortsHoldingAddresses
<1>5. IsFiniteSet(holders)
  BY HoldersAreFinite
<1>6. CASE Key(ifaces[nb.addresses[a].on]) = Key(ifaces[i])
  <2>1. i \in InterfacesByKey(ifaces, holders)
    BY <1>2, <1>3, <1>5, <1>6, InterfacesByKeyFinds
  <2> QED
    BY <1>3, <1>4, <2>1
<1>7. CASE /\ ifaces[i].lag # None
           /\ Key(ifaces[nb.addresses[a].on]) = Key(ifaces[ifaces[i].lag])
  <2>1. /\ ifaces[i].lag \in DOMAIN ifaces
        /\ ifaces[ifaces[i].lag].kind = "lag"
        /\ ifaces[ifaces[i].lag].sub = None
    BY <1>7 DEF IsNetBox, Holds
  <2>2. ifaces[i].lag \in InterfacesByKey(ifaces, holders)
    BY <1>2, <1>5, <1>7, <2>1, InterfacesByKeyFinds
  <2>3. IsFiniteSet(lags)
    <3>1. lags \subseteq DOMAIN ifaces
      BY DEF InterfacesByKey
    <3>2. IsFiniteSet(DOMAIN ifaces)
      BY DEF IsNetBox, Tables
    <3> QED
      BY <3>1, <3>2, FS_Subset
  <2>4. i \in LagMembers(ifaces, lags)
    BY <2>1, <2>2, <2>3, LagMembersFinds
  <2> QED
    BY <1>3, <1>4, <2>4
<1> QED
  BY <1>1, <1>6, <1>7

\* A port in one of the three listings is as one of them has it.
LEMMA PortIsAsListed ==
    ASSUME NEW holders, NEW two, NEW three, NEW four,
           NEW i \in DOMAIN PortsHoldingAddresses(holders, two, three, four)
    PROVE  LET port == PortsHoldingAddresses(holders, two, three, four)[i]
           IN  port \in {two, four} /\ i \in DOMAIN port.ifaces
BY DEF PortsHoldingAddresses, InterfacesByKey, LagMembers

LEMMA UnattachedInterfacesAreRight ==
    ASSUME NEW cmd, cmd.name = "unattached-interfaces", cmd.requireIp \in BOOLEAN,
           NEW nbs, \A nb \in nbs : IsNetBox(nb),
           NEW seen, \A k \in 1 .. Listings(cmd) : seen[k] \in nbs
    PROVE  Right(cmd, nbs, seen)
<1> DEFINE inUse(nb) ==
               {<<i, <<"in-use">>>> : i \in
                   {i \in DOMAIN nb.ifaces : LooksUnused(nb, i, cmd) = {} /\ ~cmd.requireIp}}
           addressed(nb) ==
               UNION {{<<i, <<"address", a, nb.ifaces, nb.addresses[a]>>>> : a \in Counting(nb, i)} :
                   i \in {i \in DOMAIN nb.ifaces : LooksUnused(nb, i, cmd) = {}}}
           unused(nb) ==
               UNION {{<<i, <<why>>>> : why \in LooksUnused(nb, i, cmd)} : i \in DOMAIN nb.ifaces}
           bare(nb) ==
               {<<i, <<"no-address", nb.ifaces>>>> : i \in
                   {i \in DOMAIN nb.ifaces : cmd.requireIp /\ Counting(nb, i) = {}}}
           ports == IF cmd.requireIp
                    THEN PortsHoldingAddresses(Holders(seen[1]), seen[2], seen[3], seen[4])
                    ELSE [i \in {i \in DOMAIN seen[1].ifaces : PortFilters(seen[1].ifaces[i])}
                             |-> seen[1]]
<1>1. Listings(cmd) = IF cmd.requireIp THEN 4 ELSE 1
  BY DEF Listings
<1>2. Find(cmd, seen) = UnattachedInterfaces(seen, cmd)
  BY DEF Find
<1>3. \A nb : Faults(cmd, nb) = inUse(nb) \cup addressed(nb)
  BY DEF Faults
<1>4. \A nb : Excuses(cmd, nb) = bare(nb) \cup unused(nb)
  BY DEF Excuses
<1>5. \A i : i \in Find(cmd, seen) <=>
          /\ i \in DOMAIN ports
          /\ LooksUnused(ports[i], i, cmd) = {}
          /\ cmd.requireIp => HasAddresses(i, ports[i], Holders(seen[1]))
  <2> HIDE DEF ports
  <2>1. Find(cmd, seen) =
            {i \in DOMAIN ports :
                /\ WantsACable(ports[i].ifaces[i])
                /\ ports[i].ifaces[i].base \notin cmd.exclude
                /\ cmd.requireIp => HasAddresses(i, ports[i], Holders(seen[1]))}
    <3> USE DEF ports
    <3> QED
      BY <1>2 DEF UnattachedInterfaces
  <2> QED
    BY <2>1, LooksUnusedIs
<1>6. ASSUME NEW i \in DOMAIN ports
      PROVE  ports[i] \in nbs /\ i \in DOMAIN ports[i].ifaces
  <2>1. CASE cmd.requireIp
    <3>1. seen[2] \in nbs /\ seen[4] \in nbs
      BY <1>1, <2>1
    <3>2. ports = PortsHoldingAddresses(Holders(seen[1]), seen[2], seen[3], seen[4])
      BY <2>1
    <3> HIDE DEF ports
    <3> QED
      BY <3>1, <3>2, PortIsAsListed
  <2>2. CASE ~cmd.requireIp
    BY <1>1, <2>2
  <2> QED
    BY <2>1, <2>2
<1>7. ASSUME NEW x \in StandingFaults(cmd, nbs)
      PROVE  x \in Find(cmd, seen)
  <2>1. PICK claim : claim[1] = x /\ \A nb \in nbs : claim \in Faults(cmd, nb)
    BY <1>7, FaultStands
  <2>2. \A nb \in nbs : x \in DOMAIN nb.ifaces /\ LooksUnused(nb, x, cmd) = {}
    <3> SUFFICES ASSUME NEW nb \in nbs
                 PROVE  x \in DOMAIN nb.ifaces /\ LooksUnused(nb, x, cmd) = {}
      OBVIOUS
    <3>1. CASE claim \in inUse(nb)
      BY <2>1, <3>1
    <3>2. CASE claim \in addressed(nb)
      BY <2>1, <3>2
    <3> QED
      BY <1>3, <2>1, <3>1, <3>2
  <2>3. CASE ~cmd.requireIp
    <3>1. seen[1] \in nbs
      BY <1>1, <2>3
    <3>2. PortFilters(seen[1].ifaces[x])
      BY <2>2, <3>1, LooksUnusedIs DEF WantsACable
    <3>3. x \in DOMAIN ports /\ ports[x] = seen[1]
      BY <2>2, <2>3, <3>1, <3>2
    <3> QED
      BY <1>5, <2>2, <2>3, <3>1, <3>3
  <2>4. CASE cmd.requireIp
    <3>1. seen[1] \in nbs /\ seen[2] \in nbs /\ seen[3] \in nbs /\ seen[4] \in nbs
      BY <1>1, <2>4
    <3>2. ASSUME NEW nb \in nbs
          PROVE  \E a \in Counting(nb, x) :
                     claim = <<x, <<"address", a, nb.ifaces, nb.addresses[a]>>>>
      <4>1. claim \in addressed(nb)
        BY <1>3, <2>1, <2>4
      <4> QED
        BY <2>1, <4>1
    <3>3. \A nb \in nbs : nb.ifaces = claim[2][3]
      BY <3>2
    <3>4. /\ seen[2].ifaces = seen[1].ifaces
          /\ seen[3].ifaces = seen[1].ifaces
          /\ seen[4].ifaces = seen[1].ifaces
      BY <3>1, <3>3
    <3>5. Counting(seen[1], x) # {} /\ x \in DOMAIN seen[1].ifaces
      BY <2>2, <3>1, <3>2
    <3>6. WantsACable(seen[1].ifaces[x])
      BY <2>2, <3>1, LooksUnusedIs
    <3>7. ports = PortsHoldingAddresses(Holders(seen[1]), seen[2], seen[3], seen[4])
      BY <2>4
    <3> HIDE DEF ports
    <3>8. x \in DOMAIN ports
      BY <3>1, <3>4, <3>5, <3>6, <3>7, PortIsListed
    <3>9. ports[x] \in nbs
      BY <1>6, <3>8
    <3>10. HasAddresses(x, ports[x], Holders(seen[1]))
      <4>1. ports[x].ifaces = seen[1].ifaces
        BY <3>1, <3>3, <3>9
      <4>2. Holds(seen[1])
        BY <3>1 DEF IsNetBox
      <4> QED
        BY <3>5, <4>1, <4>2, CountingIs
    <3> QED
      BY <1>5, <2>2, <3>8, <3>9, <3>10
  <2> QED
    BY <2>3, <2>4
<1>8. ASSUME NEW x \in StandingExcuses(cmd, nbs), x \in Find(cmd, seen)
      PROVE  FALSE
  <2>1. PICK claim : claim[1] = x /\ \A nb \in nbs : claim \in Excuses(cmd, nb)
    BY <1>8, ExcuseStands
  <2>2. /\ x \in DOMAIN ports /\ ports[x] \in nbs /\ x \in DOMAIN ports[x].ifaces
        /\ LooksUnused(ports[x], x, cmd) = {}
        /\ cmd.requireIp => HasAddresses(x, ports[x], Holders(seen[1]))
    BY <1>5, <1>6, <1>8
  <2> HIDE DEF ports
  <2>3. claim \in bare(ports[x])
    <3>1. claim \notin unused(ports[x])
      BY <2>1, <2>2
    <3> QED
      BY <1>4, <2>1, <2>2, <3>1
  <2>4. cmd.requireIp /\ claim = <<x, <<"no-address", ports[x].ifaces>>>>
    BY <2>1, <2>3
  <2>5. seen[1] \in nbs
    BY <1>1, <2>4
  <2>6. claim \in bare(seen[1])
    <3>1. claim \notin unused(seen[1])
      <4>1. claim[2][1] = "no-address"
        BY <2>4
      <4>2. \A i : "no-address" \notin LooksUnused(seen[1], i, cmd)
        BY DEF LooksUnused
      <4> QED
        BY <4>1, <4>2
    <3> QED
      BY <1>4, <2>1, <2>5, <3>1
  <2>7. PICK i \in DOMAIN seen[1].ifaces : /\ Counting(seen[1], i) = {}
                                           /\ claim = <<i, <<"no-address", seen[1].ifaces>>>>
    BY <2>6
  <2>8. i = x /\ ports[x].ifaces = seen[1].ifaces
    BY <2>4, <2>7
  <2>9. Holds(seen[1])
    BY <2>5 DEF IsNetBox
  <2> QED
    BY <2>2, <2>4, <2>7, <2>8, <2>9, CountingIs
<1> QED
  BY <1>7, <1>8 DEF Right

-----------------------------------------------------------------------------
\* device-bmcs.

\* A chunk has values in it, and no others than those that were asked for.
LEMMA ChunksAreOfValues ==
    ASSUME NEW values, IsFiniteSet(values), NEW chunk \in InChunks(values)
    PROVE  chunk # {} /\ chunk \subseteq values
<1> DEFINE list == SetToSeq(values)
<1>1. PICK i \in DOMAIN list :
          chunk = {list[j] : j \in {j \in DOMAIN list :
                       (j - 1) \div FILTER_CHUNK = (i - 1) \div FILTER_CHUNK}}
  BY DEF InChunks
<1>2. list \in [1 .. Cardinality(values) -> values]
  <2>1. Cardinality(values) \in Nat /\ ExistsBijection(1 .. Cardinality(values), values)
    BY FS_CardinalityType
  <2>2. \E f \in [1 .. Cardinality(values) -> values] : IsInjective(f)
    BY <2>1 DEF ExistsBijection, Bijection, Injection
  <2> QED
    BY <2>2 DEF SetToSeq
<1> HIDE DEF list
<1> QED
  BY <1>1, <1>2

\* The interface of the oob_ip of a device, as it was listed, at the addresses
\* that were listed later.
LEMMA OobInterfacesIs ==
    ASSUME NEW one, NEW two, IsNetBox(one), Holds(two), NEW d \in DOMAIN one.devices, NEW i
    PROVE  i \in OobInterfaces(one.devices, two, d) <=>
               /\ one.devices[d].oob # None /\ one.devices[d].oob \in DOMAIN two.addresses
               /\ two.addresses[one.devices[d].oob].on = i
               /\ i \in DOMAIN two.ifaces /\ two.ifaces[i].device = d
<1> DEFINE devices == one.devices
           oob == devices[d].oob
           oobs == {devices[e].oob : e \in DOMAIN devices} \ {None}
           ips == UNION {{a \in DOMAIN two.addresses : Matches(a, chunk)} : chunk \in InChunks(oobs)}
<1>1. IsFiniteSet(oobs)
  <2> DEFINE f == [e \in DOMAIN devices |-> devices[e].oob]
  <2>1. IsFiniteSet(DOMAIN devices) /\ DOMAIN f = DOMAIN devices
    BY DEF IsNetBox, Tables
  <2>2. {devices[e].oob : e \in DOMAIN devices} = {f[e] : e \in DOMAIN devices}
    OBVIOUS
  <2>3. IsFiniteSet({f[e] : e \in DOMAIN devices})
    <3> HIDE DEF f
    <3> QED
      BY <2>1, ImageIsFinite
  <2> QED
    BY <2>2, <2>3, FS_Subset
<1>2. oob \in ips <=> oob # None /\ oob \in DOMAIN two.addresses
  <2>1. ASSUME oob \in ips
        PROVE  oob # None /\ oob \in DOMAIN two.addresses
    <3>1. PICK chunk \in InChunks(oobs) : oob \in DOMAIN two.addresses /\ Matches(oob, chunk)
      BY <2>1
    <3>2. chunk # {} /\ chunk \subseteq oobs
      BY <1>1, <3>1, ChunksAreOfValues
    <3> QED
      BY <3>1, <3>2 DEF Matches
  <2>2. ASSUME oob # None, oob \in DOMAIN two.addresses
        PROVE  oob \in ips
    <3>1. oob \in oobs
      BY <2>2
    <3>2. PICK chunk \in InChunks(oobs) : oob \in chunk
      BY <1>1, <3>1, ChunksCover
    <3>3. oob \in {a \in DOMAIN two.addresses : Matches(a, chunk)}
      BY <2>2, <3>2 DEF Matches
    <3> HIDE DEF oobs, oob
    <3> QED
      BY <3>2, <3>3
  <2> QED
    BY <2>1, <2>2
<1>3. i \in OobInterfaces(devices, two, d) <=>
          /\ oob \in ips /\ two.addresses[oob].on = i
          /\ i # None /\ two.ifaces[i].device = d
  BY DEF OobInterfaces
<1>4. oob \in DOMAIN two.addresses => two.addresses[oob].on \in DOMAIN two.ifaces \cup {None}
  BY DEF Holds
<1>5. None \notin DOMAIN two.ifaces
  BY DEF Holds
<1> QED
  BY <1>2, <1>3, <1>4, <1>5

BmcsOf(seen, d) ==
    NamedInterfaces(seen[3], d) \cup MgmtOnlyInterfaces(seen[4], d)
        \cup OobInterfaces(seen[1].devices, seen[2], d)
Unflagged(seen, d, i) ==
    LET iface == IF i \in NamedInterfaces(seen[3], d) THEN seen[3].ifaces[i]
                 ELSE IF i \in MgmtOnlyInterfaces(seen[4], d) THEN seen[4].ifaces[i]
                 ELSE seen[2].ifaces[i]
    IN  /\ Named(iface)
        /\ IF i \in NamedInterfaces(seen[3], d) \cup MgmtOnlyInterfaces(seen[4], d)
           THEN ~iface.mgmt_only
           ELSE i \in DOMAIN seen[5].ifaces /\ ~seen[5].ifaces[i].mgmt_only

LEMMA DeviceBmcsIs ==
    ASSUME NEW seen, NEW x
    PROVE  x \in DeviceBmcs(seen) <=>
               \E d \in DOMAIN seen[1].devices :
                   \/ x = <<"device", d>> /\ BmcsOf(seen, d) = {} /\ WantsABmc(seen[1], d)
                   \/ \E i \in BmcsOf(seen, d) :
                          /\ x = <<"interface", i>>
                          /\ MacsAreWrong(seen[5], i) \/ Unflagged(seen, d, i)
BY DEF DeviceBmcs, BmcsOf, Unflagged

LEMMA BmcForIs ==
    ASSUME NEW nb, NEW i
    PROVE  /\ BmcFor(nb, i) \subseteq {"named", "flagged", "oob"}
           /\ "named" \in BmcFor(nb, i) <=> Named(nb.ifaces[i])
           /\ "flagged" \in BmcFor(nb, i) <=> nb.ifaces[i].mgmt_only
           /\ "oob" \in BmcFor(nb, i) <=>
                  /\ nb.devices[nb.ifaces[i].device].oob # None
                  /\ nb.addresses[nb.devices[nb.ifaces[i].device].oob].on = i
BY DEF BmcFor

LEMMA OobIsListed ==
    ASSUME NEW one, NEW two, IsNetBox(one), IsNetBox(two), NEW i \in DOMAIN two.ifaces,
           "oob" \in BmcFor(two, i), NEW d \in DOMAIN one.devices,
           two.ifaces[i].device = d, two.devices[d] = one.devices[d]
    PROVE  i \in OobInterfaces(one.devices, two, d)
<1>1. one.devices[d].oob # None /\ two.addresses[one.devices[d].oob].on = i
  BY BmcForIs
<1>2. Holds(two)
  BY DEF IsNetBox
<1>3. one.devices[d].oob \in DOMAIN two.addresses
  <2>1. d \in DOMAIN two.devices
    BY <1>2 DEF Holds
  <2>2. two.devices[d].oob \in DOMAIN two.addresses \cup {None}
    BY <1>2, <2>1 DEF Holds
  <2> QED
    BY <1>1, <2>2
<1> QED
  BY <1>1, <1>2, <1>3, OobInterfacesIs

\* For each reason that makes an interface a BMC, device-bmcs makes a listing; it
\* finds one that is a BMC for that reason, if its device was listed at first.
LEMMA BmcIsListed ==
    ASSUME NEW seen, \A k \in 1 .. 5 : IsNetBox(seen[k]), NEW i, NEW why,
           \A k \in 2 .. 4 : i \in DOMAIN seen[k].ifaces /\ why \in BmcFor(seen[k], i),
           \A k \in 2 .. 4 : /\ seen[k].ifaces[i].device \in DOMAIN seen[1].devices
                             /\ seen[k].devices[seen[k].ifaces[i].device]
                                    = seen[1].devices[seen[k].ifaces[i].device]
    PROVE  \E k \in 2 .. 4 : i \in BmcsOf(seen, seen[k].ifaces[i].device)
<1> DEFINE Good(k) == /\ i \in DOMAIN seen[k].ifaces /\ why \in BmcFor(seen[k], i)
                      /\ seen[k].ifaces[i].device \in DOMAIN seen[1].devices
                      /\ seen[k].devices[seen[k].ifaces[i].device]
                             = seen[1].devices[seen[k].ifaces[i].device]
<1>0. /\ 2 \in 2 .. 4 /\ 3 \in 2 .. 4 /\ 4 \in 2 .. 4
      /\ Good(2) /\ Good(3) /\ Good(4)
      /\ IsNetBox(seen[1]) /\ IsNetBox(seen[2])
  <2>1. /\ 1 \in 1 .. 5 /\ 2 \in 1 .. 5
        /\ 2 \in 2 .. 4 /\ 3 \in 2 .. 4 /\ 4 \in 2 .. 4
    OBVIOUS
  <2> QED
    BY <2>1
<1>1. CASE why = "named"
  <2>1. i \in NamedInterfaces(seen[3], seen[3].ifaces[i].device)
    BY <1>0, <1>1, BmcForIs DEF NamedInterfaces
  <2> QED
    BY <1>0, <2>1 DEF BmcsOf
<1>2. CASE why = "flagged"
  <2>1. i \in MgmtOnlyInterfaces(seen[4], seen[4].ifaces[i].device)
    BY <1>0, <1>2, BmcForIs DEF MgmtOnlyInterfaces
  <2> QED
    BY <1>0, <2>1 DEF BmcsOf
<1>3. CASE why = "oob"
  <2>1. i \in OobInterfaces(seen[1].devices, seen[2], seen[2].ifaces[i].device)
    BY <1>0, <1>3, OobIsListed
  <2> QED
    BY <1>0, <2>1 DEF BmcsOf
<1>4. why \in {"named", "flagged", "oob"}
  <2>1. why \in BmcFor(seen[2], i)
    BY <1>0
  <2> QED
    BY <2>1, BmcForIs
<1> QED
  BY <1>1, <1>2, <1>3, <1>4

\* What device-bmcs takes for a BMC was one at the listing that has it.
LEMMA BmcWasOne ==
    ASSUME NEW seen, \A k \in 1 .. 5 : IsNetBox(seen[k]),
           NEW d \in DOMAIN seen[1].devices, NEW i \in BmcsOf(seen, d)
    PROVE  \/ /\ i \in NamedInterfaces(seen[3], d) /\ i \in DOMAIN seen[3].ifaces
              /\ seen[3].ifaces[i].device = d /\ "named" \in BmcFor(seen[3], i)
           \/ /\ i \in MgmtOnlyInterfaces(seen[4], d) /\ i \in DOMAIN seen[4].ifaces
              /\ seen[4].ifaces[i].device = d /\ "flagged" \in BmcFor(seen[4], i)
           \/ /\ i \in DOMAIN seen[2].ifaces /\ seen[2].ifaces[i].device = d
              /\ seen[2].devices[d].oob = seen[1].devices[d].oob => "oob" \in BmcFor(seen[2], i)
<1>1. CASE i \in NamedInterfaces(seen[3], d)
  BY <1>1, BmcForIs DEF NamedInterfaces
<1>2. CASE i \in MgmtOnlyInterfaces(seen[4], d)
  BY <1>2, BmcForIs DEF MgmtOnlyInterfaces
<1>3. CASE i \in OobInterfaces(seen[1].devices, seen[2], d)
  <2>1. IsNetBox(seen[1]) /\ Holds(seen[2])
    BY DEF IsNetBox
  <2>2. /\ seen[1].devices[d].oob # None
        /\ seen[2].addresses[seen[1].devices[d].oob].on = i
        /\ i \in DOMAIN seen[2].ifaces /\ seen[2].ifaces[i].device = d
    BY <1>3, <2>1, OobInterfacesIs
  <2> QED
    BY <2>2, BmcForIs
<1> QED
  BY <1>1, <1>2, <1>3 DEF BmcsOf

LEMMA DeviceBmcsAreRight ==
    ASSUME NEW cmd, cmd.name = "device-bmcs",
           NEW nbs, \A nb \in nbs : IsNetBox(nb),
           NEW seen, \A k \in 1 .. 5 : seen[k] \in nbs
    PROVE  Right(cmd, nbs, seen)
<1> DEFINE noBmc(nb) ==
               {<<<<"device", d>>, <<"no-bmc", nb.devices[d]>>>> : d \in
                   {d \in DOMAIN nb.devices :
                       /\ InterfacesOf(nb, d) # {} /\ ~nb.devices[d].bays
                       /\ \A i \in InterfacesOf(nb, d) : BmcFor(nb, i) = {}}}
           notFlagged(nb) ==
               {<<<<"interface", i>>, <<"not-flagged", DOMAIN nb.devices>>>> : i \in
                   {i \in DOMAIN nb.ifaces : Named(nb.ifaces[i]) /\ ~nb.ifaces[i].mgmt_only}}
           wrongMacs(nb) ==
               UNION {{<<<<"interface", i>>, <<why, nb.devices>>>> : why \in BmcFor(nb, i)} :
                   i \in {i \in DOMAIN nb.ifaces : Cardinality(MacsOn(nb, i)) # 1}}
           noMachine(nb) ==
               {<<<<"device", d>>, <<"no-machine">>>> : d \in
                   {d \in DOMAIN nb.devices : InterfacesOf(nb, d) = {} \/ nb.devices[d].bays}}
           notABmc(nb) ==
               {<<<<"interface", i>>, <<"no-bmc", nb.ifaces[i], nb.devices>>>> : i \in
                   {i \in DOMAIN nb.ifaces : BmcFor(nb, i) = {}}}
           fine(nb) ==
               {<<<<"interface", i>>, <<"fine", nb.ifaces[i]>>>> : i \in
                   {i \in DOMAIN nb.ifaces :
                       /\ Cardinality(MacsOn(nb, i)) = 1
                       /\ Named(nb.ifaces[i]) => nb.ifaces[i].mgmt_only}}
           flagged(iface) == Named(iface) => iface.mgmt_only
           aBmc(nb) ==
               UNION {{<<<<"device", nb.ifaces[i].device>>,
                         <<"bmc", nb.devices[nb.ifaces[i].device], i, why>>>> :
                             why \in BmcFor(nb, i)} : i \in DOMAIN nb.ifaces}
<1>1. Find(cmd, seen) = DeviceBmcs(seen)
  BY DEF Find
<1>2. \A nb : Faults(cmd, nb) = noBmc(nb) \cup notFlagged(nb) \cup wrongMacs(nb)
  BY DEF Faults
<1>3. \A nb : Excuses(cmd, nb) = noMachine(nb) \cup notABmc(nb) \cup fine(nb) \cup aBmc(nb)
  BY DEF Excuses
<1>4. /\ seen[1] \in nbs /\ seen[2] \in nbs /\ seen[3] \in nbs
      /\ seen[4] \in nbs /\ seen[5] \in nbs
      /\ \A k \in 1 .. 5 : IsNetBox(seen[k])
      /\ \A nb \in nbs : Holds(nb)
  <2>1. /\ 1 \in 1 .. 5 /\ 2 \in 1 .. 5 /\ 3 \in 1 .. 5 /\ 4 \in 1 .. 5 /\ 5 \in 1 .. 5
    OBVIOUS
  <2> QED
    BY <2>1 DEF IsNetBox
\* The claims, one kind at a time.
<1>5. \A nb, claim : claim \in noBmc(nb) =>
          LET d == claim[1][2]
          IN  /\ claim[2][1] = "no-bmc" /\ claim[1] = <<"device", d>>
              /\ claim[2][2] = nb.devices[d] /\ d \in DOMAIN nb.devices
              /\ InterfacesOf(nb, d) # {} /\ ~nb.devices[d].bays
              /\ \A i \in InterfacesOf(nb, d) : BmcFor(nb, i) = {}
  OBVIOUS
<1>6. \A nb, claim : claim \in notFlagged(nb) =>
          LET i == claim[1][2]
          IN  /\ claim[2][1] = "not-flagged" /\ claim[1] = <<"interface", i>>
              /\ claim[2][2] = DOMAIN nb.devices /\ i \in DOMAIN nb.ifaces
              /\ Named(nb.ifaces[i]) /\ ~nb.ifaces[i].mgmt_only
  OBVIOUS
<1>7. \A nb, claim : claim \in wrongMacs(nb) =>
          LET i == claim[1][2]
          IN  /\ claim[2][1] \in BmcFor(nb, i) /\ claim[1] = <<"interface", i>>
              /\ claim[2][2] = nb.devices /\ i \in DOMAIN nb.ifaces
              /\ Cardinality(MacsOn(nb, i)) # 1
  OBVIOUS
<1>8. \A nb, i : BmcFor(nb, i) \subseteq {"named", "flagged", "oob"}
  BY BmcForIs
<1>9. \A nb, claim : claim \in noMachine(nb) =>
          LET d == claim[1][2]
          IN  /\ claim[2][1] = "no-machine" /\ claim[1] = <<"device", d>>
              /\ InterfacesOf(nb, d) = {} \/ nb.devices[d].bays
  OBVIOUS
<1>10. \A nb, claim : claim \in notABmc(nb) =>
           LET i == claim[1][2]
           IN  /\ claim[2][1] = "no-bmc" /\ claim[1] = <<"interface", i>>
               /\ claim[2][2] = nb.ifaces[i] /\ claim[2][3] = nb.devices
               /\ BmcFor(nb, i) = {}
  OBVIOUS
<1>11. \A nb, claim : claim \in fine(nb) =>
           LET i == claim[1][2]
           IN  /\ claim[2][1] = "fine" /\ claim[1] = <<"interface", i>>
               /\ claim[2][2] = nb.ifaces[i]
               /\ Cardinality(MacsOn(nb, i)) = 1 /\ flagged(nb.ifaces[i])
  OBVIOUS
<1>12. \A nb, claim : claim \in aBmc(nb) =>
           LET d == claim[1][2]
               i == claim[2][3]
           IN  /\ claim[2][1] = "bmc" /\ claim[1] = <<"device", d>>
               /\ i \in DOMAIN nb.ifaces /\ nb.ifaces[i].device = d
               /\ claim[2][2] = nb.devices[d] /\ claim[2][4] \in BmcFor(nb, i)
  OBVIOUS
<1> HIDE DEF noBmc, notFlagged, wrongMacs, noMachine, notABmc, fine, aBmc, flagged
<1>13. ASSUME NEW x \in StandingFaults(cmd, nbs)
       PROVE  x \in Find(cmd, seen)
  <2>1. PICK claim : claim[1] = x /\ \A nb \in nbs : claim \in Faults(cmd, nb)
    BY <1>13, FaultStands
  <2>2. \A nb \in nbs : claim \in noBmc(nb) \/ claim \in notFlagged(nb) \/ claim \in wrongMacs(nb)
    BY <1>2, <2>1
  <2>3. CASE claim[2][1] = "no-bmc"
    <3> DEFINE d == x[2]
    <3>1. \A nb \in nbs : claim \in noBmc(nb)
      BY <1>6, <1>7, <1>8, <2>2, <2>3
    <3>2. \A nb \in nbs :
              /\ x = <<"device", d>> /\ claim[2][2] = nb.devices[d] /\ d \in DOMAIN nb.devices
              /\ InterfacesOf(nb, d) # {} /\ ~nb.devices[d].bays
              /\ \A i \in InterfacesOf(nb, d) : BmcFor(nb, i) = {}
      BY <1>5, <2>1, <3>1
    <3> HIDE DEF d
    <3>3. d \in DOMAIN seen[1].devices /\ seen[2].devices[d] = seen[1].devices[d]
      BY <1>4, <3>2
    <3>4. ASSUME NEW i \in BmcsOf(seen, d)
          PROVE  FALSE
      <4>1. PICK nb \in nbs : i \in InterfacesOf(nb, d) /\ BmcFor(nb, i) # {}
        BY <1>4, <3>3, BmcWasOne DEF InterfacesOf
      <4> QED
        BY <3>2, <4>1
    <3>5. WantsABmc(seen[1], d)
      BY <1>4, <3>2 DEF WantsABmc, InterfacesOf
    <3> QED
      BY <1>1, <1>4, <3>2, <3>3, <3>4, <3>5, DeviceBmcsIs
  <2>4. CASE claim[2][1] = "not-flagged"
    <3> DEFINE i == x[2]
               d == seen[3].ifaces[i].device
    <3>1. \A nb \in nbs : claim \in notFlagged(nb)
      BY <1>5, <1>7, <1>8, <2>2, <2>4
    <3>2. \A nb \in nbs :
              /\ x = <<"interface", i>> /\ claim[2][2] = DOMAIN nb.devices
              /\ i \in DOMAIN nb.ifaces /\ Named(nb.ifaces[i]) /\ ~nb.ifaces[i].mgmt_only
      BY <1>6, <2>1, <3>1
    <3>3. d \in DOMAIN seen[1].devices
      <4>1. Holds(seen[3]) /\ i \in DOMAIN seen[3].ifaces
        BY <1>4, <3>2
      <4>2. d \in DOMAIN seen[3].devices
        BY <4>1 DEF Holds
      <4> QED
        BY <1>4, <3>2, <4>2
    <3>4. i \in NamedInterfaces(seen[3], d)
      BY <1>4, <3>2 DEF NamedInterfaces
    <3>5. i \in BmcsOf(seen, d) /\ Unflagged(seen, d, i)
      BY <1>4, <3>2, <3>4 DEF BmcsOf, Unflagged
    <3>6. x = <<"interface", i>>
      BY <1>4, <3>2
    <3> HIDE DEF d, i
    <3> QED
      BY <1>1, <3>3, <3>5, <3>6, DeviceBmcsIs
  <2>5. CASE claim[2][1] \notin {"no-bmc", "not-flagged"}
    <3> DEFINE i == x[2]
               why == claim[2][1]
    <3>1. \A nb \in nbs : claim \in wrongMacs(nb)
      BY <1>5, <1>6, <2>2, <2>5
    <3>2. \A nb \in nbs :
              /\ x = <<"interface", i>> /\ claim[2][2] = nb.devices
              /\ i \in DOMAIN nb.ifaces /\ why \in BmcFor(nb, i)
              /\ Cardinality(MacsOn(nb, i)) # 1
      BY <1>7, <2>1, <3>1
    <3> HIDE DEF i, why
    <3>3. \A nb \in nbs : /\ nb.devices = seen[1].devices
                          /\ nb.ifaces[i].device \in DOMAIN seen[1].devices
      <4>1. \A nb \in nbs : nb.devices = seen[1].devices
        BY <1>4, <3>2
      <4>2. \A nb \in nbs : nb.ifaces[i].device \in DOMAIN nb.devices
        BY <1>4, <3>2 DEF Holds
      <4> QED
        BY <4>1, <4>2
    <3>4. \A k \in 2 .. 4 : seen[k] \in nbs
      <4>1. \A k \in 2 .. 4 : k \in 1 .. 5
        OBVIOUS
      <4> QED
        BY <4>1
    <3>5. PICK k \in 2 .. 4 : i \in BmcsOf(seen, seen[k].ifaces[i].device)
      <4>1. \A k \in 2 .. 4 : i \in DOMAIN seen[k].ifaces /\ why \in BmcFor(seen[k], i)
        BY <3>2, <3>4
      <4>2. \A k \in 2 .. 4 : /\ seen[k].ifaces[i].device \in DOMAIN seen[1].devices
                              /\ seen[k].devices[seen[k].ifaces[i].device]
                                     = seen[1].devices[seen[k].ifaces[i].device]
        BY <3>3, <3>4
      <4> QED
        BY <1>4, <4>1, <4>2, BmcIsListed
    <3>6. MacsAreWrong(seen[5], i)
      BY <1>4, <3>2 DEF MacsAreWrong, MacsOn
    <3>7. x = <<"interface", i>> /\ seen[k].ifaces[i].device \in DOMAIN seen[1].devices
      BY <1>4, <3>2, <3>3, <3>4
    <3> QED
      BY <1>1, <3>5, <3>6, <3>7, DeviceBmcsIs
  <2> QED
    BY <2>3, <2>4, <2>5
<1>14. ASSUME NEW x \in StandingExcuses(cmd, nbs), x \in Find(cmd, seen)
       PROVE  FALSE
  <2>1. PICK claim : claim[1] = x /\ \A nb \in nbs : claim \in Excuses(cmd, nb)
    BY <1>14, ExcuseStands
  <2>2. \A nb \in nbs : \/ claim \in noMachine(nb) \/ claim \in notABmc(nb)
                        \/ claim \in fine(nb) \/ claim \in aBmc(nb)
    BY <1>3, <2>1
  <2>3. PICK d \in DOMAIN seen[1].devices :
            \/ x = <<"device", d>> /\ BmcsOf(seen, d) = {} /\ WantsABmc(seen[1], d)
            \/ \E i \in BmcsOf(seen, d) : /\ x = <<"interface", i>>
                                          /\ MacsAreWrong(seen[5], i) \/ Unflagged(seen, d, i)
    BY <1>1, <1>14, DeviceBmcsIs
  <2>8. x[1] = "device" => x[2] = d /\ BmcsOf(seen, d) = {} /\ WantsABmc(seen[1], d)
    <3>1. CASE x = <<"device", d>> /\ BmcsOf(seen, d) = {} /\ WantsABmc(seen[1], d)
      BY <3>1
    <3>2. ASSUME NEW i \in BmcsOf(seen, d), x = <<"interface", i>>,
                 MacsAreWrong(seen[5], i) \/ Unflagged(seen, d, i)
          PROVE  x[1] # "device"
      BY <3>2
    <3> QED
      BY <2>3, <3>1, <3>2
  <2>9. x[1] = "interface" =>
            /\ x[2] \in BmcsOf(seen, d)
            /\ MacsAreWrong(seen[5], x[2]) \/ Unflagged(seen, d, x[2])
    <3>1. CASE x = <<"device", d>>
      BY <3>1
    <3>2. ASSUME NEW i \in BmcsOf(seen, d), x = <<"interface", i>>,
                 MacsAreWrong(seen[5], i) \/ Unflagged(seen, d, i)
          PROVE  /\ x[2] \in BmcsOf(seen, d)
                 /\ MacsAreWrong(seen[5], x[2]) \/ Unflagged(seen, d, x[2])
      <4>1. x[2] = i
        BY <3>2
      <4> QED
        BY <3>2, <4>1
    <3> QED
      BY <2>3, <3>1, <3>2
  <2>4. CASE claim[2][1] = "no-machine"
    <3>1. claim \in noMachine(seen[1])
      BY <1>4, <1>10, <1>11, <1>12, <2>2, <2>4
    <3>2. x = <<"device", x[2]>> /\ (InterfacesOf(seen[1], x[2]) = {} \/ seen[1].devices[x[2]].bays)
      BY <1>9, <2>1, <3>1
    <3>3. x[1] = "device"
      BY <3>2
    <3> QED
      BY <2>8, <3>2, <3>3 DEF WantsABmc, InterfacesOf
  <2>5. CASE claim[2][1] = "bmc"
    <3> DEFINE i == claim[2][3]
               why == claim[2][4]
    <3>1. \A nb \in nbs : claim \in aBmc(nb)
      BY <1>9, <1>10, <1>11, <2>2, <2>5
    <3>2. \A nb \in nbs :
              /\ x = <<"device", x[2]>>
              /\ i \in DOMAIN nb.ifaces /\ nb.ifaces[i].device = x[2]
              /\ claim[2][2] = nb.devices[x[2]] /\ why \in BmcFor(nb, i)
      BY <1>12, <2>1, <3>1
    <3> HIDE DEF i, why
    <3>3. x[2] = d /\ BmcsOf(seen, d) = {}
      <4>1. x = <<"device", x[2]>>
        BY <1>4, <3>2
      <4>2. x[1] = "device"
        BY <4>1
      <4> QED
        BY <2>8, <4>2
    <3>4. \A nb \in nbs : /\ nb.ifaces[i].device = d /\ nb.devices[d] = seen[1].devices[d]
      BY <1>4, <3>2, <3>3
    <3>5. \A k \in 2 .. 4 : seen[k] \in nbs
      <4>1. \A k \in 2 .. 4 : k \in 1 .. 5
        OBVIOUS
      <4> QED
        BY <4>1
    <3>6. PICK k \in 2 .. 4 : i \in BmcsOf(seen, seen[k].ifaces[i].device)
      <4>1. \A k \in 2 .. 4 : i \in DOMAIN seen[k].ifaces /\ why \in BmcFor(seen[k], i)
        BY <3>2, <3>5
      <4>2. \A k \in 2 .. 4 : /\ seen[k].ifaces[i].device \in DOMAIN seen[1].devices
                              /\ seen[k].devices[seen[k].ifaces[i].device]
                                     = seen[1].devices[seen[k].ifaces[i].device]
        BY <3>4, <3>5
      <4> QED
        BY <1>4, <4>1, <4>2, BmcIsListed
    <3> QED
      BY <3>3, <3>4, <3>5, <3>6
  <2>6. CASE claim[2][1] = "no-bmc"
    <3> DEFINE i == x[2]
    <3>1. \A nb \in nbs : claim \in notABmc(nb)
      BY <1>9, <1>11, <1>12, <2>2, <2>6
    <3>2. \A nb \in nbs : /\ x = <<"interface", i>> /\ claim[2][2] = nb.ifaces[i]
                          /\ claim[2][3] = nb.devices /\ BmcFor(nb, i) = {}
      BY <1>10, <2>1, <3>1
    <3>3. i \in BmcsOf(seen, d)
      <4>1. x = <<"interface", i>>
        BY <1>4, <3>2
      <4>2. x[1] = "interface"
        BY <4>1
      <4> QED
        BY <2>9, <4>2
    <3>4. seen[2].devices = seen[1].devices
      BY <1>4, <3>2
    <3> HIDE DEF i
    <3>5. \E nb \in nbs : BmcFor(nb, i) # {}
      BY <1>4, <3>3, <3>4, BmcWasOne
    <3> QED
      BY <3>2, <3>5
  <2>7. CASE claim[2][1] = "fine"
    <3> DEFINE i == x[2]
    <3>1. \A nb \in nbs : claim \in fine(nb)
      BY <1>9, <1>10, <1>12, <2>2, <2>7
    <3>2. \A nb \in nbs : /\ x = <<"interface", i>> /\ claim[2][2] = nb.ifaces[i]
                          /\ Cardinality(MacsOn(nb, i)) = 1 /\ flagged(nb.ifaces[i])
      BY <1>11, <2>1, <3>1
    <3>3. MacsAreWrong(seen[5], i) \/ Unflagged(seen, d, i)
      <4>1. x = <<"interface", i>>
        BY <1>4, <3>2
      <4>2. x[1] = "interface"
        BY <4>1
      <4> QED
        BY <2>9, <4>2
    <3> HIDE DEF i
    <3>4. ~MacsAreWrong(seen[5], i)
      BY <1>4, <3>2 DEF MacsAreWrong, MacsOn
    <3>5. /\ seen[2].ifaces[i] = seen[5].ifaces[i] /\ seen[3].ifaces[i] = seen[5].ifaces[i]
          /\ seen[4].ifaces[i] = seen[5].ifaces[i]
          /\ flagged(seen[5].ifaces[i])
      BY <1>4, <3>2
    <3>6. ~Unflagged(seen, d, i)
      BY <3>5 DEF Unflagged, flagged
    <3> QED
      BY <3>3, <3>4, <3>6
  <2> QED
    BY <1>4, <1>9, <1>10, <1>11, <1>12, <2>2, <2>4, <2>5, <2>6, <2>7
<1> QED
  BY <1>13, <1>14 DEF Right

-----------------------------------------------------------------------------
\* All of the commands.

LEMMA EveryCommandIsRight ==
    ASSUME NEW cmd, IsCommand(cmd),
           NEW nbs, \A nb \in nbs : IsNetBox(nb),
           NEW seen, \A k \in 1 .. Listings(cmd) : seen[k] \in nbs
    PROVE  Right(cmd, nbs, seen)
<1>1. /\ cmd.name \in {"empty-prefixes", "unparented-ips"} => Listings(cmd) = 2
      /\ cmd.name = "device-bmcs" => Listings(cmd) = 5
      /\ cmd.name \in OneListing => Listings(cmd) = 1
  BY DEF Listings, OneListing
<1>2. CASE cmd.name \in {"empty-prefixes", "unparented-ips"}
  <2>1. seen[1] \in nbs /\ seen[2] \in nbs
    BY <1>1, <1>2
  <2> QED
    BY <1>2, <2>1, EmptyPrefixesAreRight, UnparentedIpsAreRight
<1>3. CASE cmd.name \in OneListing
  <2>1. seen[1] \in nbs /\ Holds(seen[1])
    BY <1>1, <1>3 DEF IsNetBox
  <2> QED
    BY <1>3, <2>1, DuplicatePrefixesAreRight, DuplicateIpsAreRight, SubinterfaceParentsAreRight
    DEF OneListing
<1>4. CASE cmd.name = "unattached-interfaces"
  BY <1>4, UnattachedInterfacesAreRight DEF IsCommand
<1>5. CASE cmd.name = "device-bmcs"
  BY <1>1, <1>5, DeviceBmcsAreRight
<1> QED
  BY <1>2, <1>3, <1>4, <1>5 DEF IsCommand, LintNames, OneListing

LEMMA MultipleVrfsAreFinite ==
    ASSUME NEW S, IsFiniteSet(S), NEW value, NEW vrf
    PROVE  IsFiniteSet(InMultipleVrfs(Pairs(S, value, vrf)))
<1> DEFINE T == Twice(S, value, vrf)
           f == [x \in T |-> value[x]]
<1>1. IsFiniteSet(T)
  BY FS_Subset DEF Twice
<1>2. Values(T, value) = {f[x] : x \in T}
  BY DEF Values
<1>3. IsFiniteSet({f[x] : x \in T})
  <2>1. DOMAIN f = T
    OBVIOUS
  <2> HIDE DEF f, T
  <2> QED
    BY <1>1, <2>1, ImageIsFinite
<1> QED
  BY <1>2, <1>3, InMultipleVrfsIs

LEMMA DuplicatesAreFinite ==
    ASSUME NEW cmd, NEW nb, IsNetBox(nb)
    PROVE  /\ IsFiniteSet(DuplicatePrefixes(nb.prefixes, cmd))
           /\ IsFiniteSet(DuplicateIps(nb.addresses, cmd))
<1>1. IsFiniteSet(DOMAIN nb.prefixes) /\ IsFiniteSet(DOMAIN nb.addresses)
  BY DEF IsNetBox, Tables
<1>2. IsFiniteSet(DuplicatePrefixes(nb.prefixes, cmd))
  <2> DEFINE rows == {p \in DOMAIN nb.prefixes : OfFamily(nb.prefixes[p].net.version, cmd.family)}
             value == [p \in DOMAIN nb.prefixes |-> nb.prefixes[p].net]
             vrf == [p \in DOMAIN nb.prefixes |-> nb.prefixes[p].vrf]
  <2>1. IsFiniteSet(rows)
    BY <1>1, FS_Subset
  <2>2. {<<nb.prefixes[p].net, nb.prefixes[p].vrf>> : p \in rows} = Pairs(rows, value, vrf)
    BY DEF Pairs
  <2> QED
    BY <2>1, <2>2, MultipleVrfsAreFinite DEF DuplicatePrefixes
<1>3. IsFiniteSet(DuplicateIps(nb.addresses, cmd))
  <2> DEFINE rows == {a \in DOMAIN nb.addresses : OfFamily(nb.addresses[a].addr.version, cmd.family)}
             value == [a \in DOMAIN nb.addresses |-> nb.addresses[a].addr]
             vrf == [a \in DOMAIN nb.addresses |-> nb.addresses[a].vrf]
  <2>1. IsFiniteSet(rows)
    BY <1>1, FS_Subset
  <2>2. {<<nb.addresses[a].addr, nb.addresses[a].vrf>> : a \in rows} = Pairs(rows, value, vrf)
    BY DEF Pairs
  <2> QED
    BY <2>1, <2>2, MultipleVrfsAreFinite DEF DuplicateIps
<1> QED
  BY <1>2, <1>3

LEMMA ReportedBmcsAreFinite ==
    ASSUME NEW seen, \A k \in 1 .. 5 : IsNetBox(seen[k])
    PROVE  IsFiniteSet(DeviceBmcs(seen))
<1> DEFINE D == DOMAIN seen[1].devices
           I == DOMAIN seen[2].ifaces \cup DOMAIN seen[3].ifaces \cup DOMAIN seen[4].ifaces
           f == [d \in D |-> <<"device", d>>]
           g == [i \in I |-> <<"interface", i>>]
<1>1. IsNetBox(seen[1]) /\ IsNetBox(seen[2]) /\ IsNetBox(seen[3]) /\ IsNetBox(seen[4])
  <2>1. 1 \in 1 .. 5 /\ 2 \in 1 .. 5 /\ 3 \in 1 .. 5 /\ 4 \in 1 .. 5
    OBVIOUS
  <2> QED
    BY <2>1
<1>2. IsFiniteSet(D) /\ IsFiniteSet(I)
  <2>1. /\ IsFiniteSet(D) /\ IsFiniteSet(DOMAIN seen[2].ifaces)
        /\ IsFiniteSet(DOMAIN seen[3].ifaces) /\ IsFiniteSet(DOMAIN seen[4].ifaces)
    BY <1>1 DEF IsNetBox, Tables
  <2> QED
    BY <2>1, FS_Union
<1>3. IsFiniteSet({f[d] : d \in D}) /\ IsFiniteSet({g[i] : i \in I})
  <2>1. DOMAIN f = D /\ DOMAIN g = I
    OBVIOUS
  <2> HIDE DEF f, g, D, I
  <2> QED
    BY <1>2, <2>1, ImageIsFinite
<1>4. \A d \in D : BmcsOf(seen, d) \subseteq I
  BY <1>1, OobInterfacesIs DEF BmcsOf, NamedInterfaces, MgmtOnlyInterfaces, IsNetBox
<1>5. DeviceBmcs(seen) \subseteq {f[d] : d \in D} \cup {g[i] : i \in I}
  <2> SUFFICES ASSUME NEW x \in DeviceBmcs(seen)
               PROVE  x \in {f[d] : d \in D} \cup {g[i] : i \in I}
    OBVIOUS
  <2>1. PICK d \in D : x = <<"device", d>> \/ \E i \in BmcsOf(seen, d) : x = <<"interface", i>>
    BY DeviceBmcsIs
  <2> QED
    BY <1>4, <2>1
<1>6. IsFiniteSet({f[d] : d \in D} \cup {g[i] : i \in I})
  BY <1>3, FS_Union
<1> HIDE DEF f, g, D, I
<1> QED
  BY <1>5, <1>6, FS_Subset

\* Findings can be counted.
LEMMA FindingsAreFinite ==
    ASSUME NEW cmd, IsCommand(cmd),
           NEW seen, \A k \in 1 .. Listings(cmd) : IsNetBox(seen[k])
    PROVE  IsFiniteSet(Find(cmd, seen))
<1>1. Listings(cmd) \in 1 .. 5
  BY DEF Listings, IsCommand
<1>2. /\ IsNetBox(seen[1])
      /\ IsFiniteSet(DOMAIN seen[1].prefixes) /\ IsFiniteSet(DOMAIN seen[1].ifaces)
  BY <1>1 DEF IsNetBox, Tables
<1>3. CASE cmd.name = "empty-prefixes"
  <2>1. Find(cmd, seen) \subseteq DOMAIN seen[1].prefixes
    BY <1>3 DEF Find, EmptyPrefixes
  <2> QED
    BY <1>2, <2>1, FS_Subset
<1>4. CASE cmd.name = "unparented-ips"
  <2>1. Find(cmd, seen) \subseteq DOMAIN seen[2].addresses
    BY <1>4 DEF Find, UnparentedIps
  <2>2. IsNetBox(seen[2])
    <3>1. Listings(cmd) = 2
      BY <1>4 DEF Listings
    <3> QED
      BY <3>1
  <2>3. IsFiniteSet(DOMAIN seen[2].addresses)
    BY <2>2 DEF IsNetBox, Tables
  <2> QED
    BY <2>1, <2>3, FS_Subset
<1>5. CASE cmd.name = "duplicate-prefixes"
  <2>1. Find(cmd, seen) = DuplicatePrefixes(seen[1].prefixes, cmd)
    BY <1>5 DEF Find
  <2> QED
    BY <1>2, <2>1, DuplicatesAreFinite
<1>6. CASE cmd.name = "duplicate-ips"
  <2>1. Find(cmd, seen) = DuplicateIps(seen[1].addresses, cmd)
    BY <1>6 DEF Find
  <2> QED
    BY <1>2, <2>1, DuplicatesAreFinite
<1>7. CASE cmd.name = "subinterface-parents"
  <2>1. Find(cmd, seen) \subseteq DOMAIN seen[1].ifaces
    BY <1>7 DEF Find, SubinterfaceParents
  <2> QED
    BY <1>2, <2>1, FS_Subset
<1>8. CASE cmd.name = "device-bmcs"
  <2>1. Find(cmd, seen) = DeviceBmcs(seen) /\ Listings(cmd) = 5
    BY <1>8 DEF Find, Listings
  <2> QED
    BY <2>1, ReportedBmcsAreFinite
<1>9. CASE cmd.name = "unattached-interfaces"
  <2>1. Find(cmd, seen) = UnattachedInterfaces(seen, cmd)
    BY <1>9 DEF Find
  <2>2. CASE ~cmd.requireIp
    <3>1. Find(cmd, seen) \subseteq DOMAIN seen[1].ifaces
      BY <2>1, <2>2 DEF UnattachedInterfaces
    <3> QED
      BY <1>2, <3>1, FS_Subset
  <2>3. CASE cmd.requireIp
    <3>1. Listings(cmd) = 4
      BY <1>9, <2>3 DEF Listings
    <3>2. IsFiniteSet(DOMAIN seen[2].ifaces) /\ IsFiniteSet(DOMAIN seen[4].ifaces)
      BY <3>1 DEF IsNetBox, Tables
    <3>3. IsFiniteSet(DOMAIN seen[2].ifaces \cup DOMAIN seen[4].ifaces)
      BY <3>2, FS_Union
    <3>4. Find(cmd, seen) \subseteq
              DOMAIN PortsHoldingAddresses(Holders(seen[1]), seen[2], seen[3], seen[4])
      BY <2>1, <2>3 DEF UnattachedInterfaces
    <3>5. Find(cmd, seen) \subseteq DOMAIN seen[2].ifaces \cup DOMAIN seen[4].ifaces
      BY <3>4, PortIsAsListed
    <3> QED
      BY <3>3, <3>5, FS_Subset
  <2> QED
    BY <2>2, <2>3
<1> QED
  BY <1>3, <1>4, <1>5, <1>6, <1>7, <1>8, <1>9 DEF IsCommand, LintNames

-----------------------------------------------------------------------------
\* The run.

Reported == Len(asked) - Len(todo)

\* Every NetBox that a listing showed is one of those since the command began, and
\* there are no findings only as long as nothing that was reported on was wrong all
\* the time.
WorldOK ==
    /\ \A nb \in ever : IsNetBox(nb)
    /\ during \subseteq ever /\ db \in during
ListOK ==
    /\ asked \in Seq({asked[k] : k \in DOMAIN asked})
    /\ \A k \in DOMAIN asked : IsCommand(asked[k])
    /\ todo \in Seq({asked[k] : k \in DOMAIN asked})
    /\ Len(todo) <= Len(asked)
    /\ \A k \in 1 .. Len(todo) : todo[k] = asked[Reported + k]
    /\ reads \in Seq(during)
CountOK ==
    /\ findings \in Nat
    /\ findings = 0 => \A k \in 1 .. Reported : StandingFaults(asked[k], ever) = {}
ReportOK ==
    report # NoReport =>
        /\ StandingFaults(report.cmd, report.during) \subseteq report.found
        /\ StandingExcuses(report.cmd, report.during) \cap report.found = {}
ExitOK == pc = "clean" => findings = 0 /\ todo = << >>

IInv == WorldOK /\ ListOK /\ CountOK /\ ReportOK /\ ExitOK

LEMMA InitIsOK == Init => IInv
<1> SUFFICES ASSUME Init
             PROVE  IInv
  OBVIOUS
<1>1. PICK s \in Situations : db = s.db /\ asked = s.cmds
  BY DEF Init
<1>2. /\ IsNetBox(s.db)
      /\ s.cmds \in Seq({s.cmds[k] : k \in DOMAIN s.cmds})
      /\ \A k \in DOMAIN s.cmds : IsCommand(s.cmds[k])
  BY SituationsAssumption
<1>3. WorldOK
  BY <1>1, <1>2 DEF Init, WorldOK
<1>4. ListOK
  <2>1. Len(asked) \in Nat
    BY <1>1, <1>2
  <2> QED
    BY <1>1, <1>2, <2>1 DEF Init, ListOK, Reported
<1>5. CountOK
  <2>1. Len(asked) \in Nat
    BY <1>1, <1>2
  <2> QED
    BY <2>1 DEF Init, CountOK, Reported
<1>6. ReportOK /\ ExitOK
  BY DEF Init, ReportOK, ExitOK
<1> QED
  BY <1>3, <1>4, <1>5, <1>6 DEF IInv

LEMMA ReportIsOK == IInv /\ Report => IInv'
<1> SUFFICES ASSUME IInv, Report
             PROVE  IInv'
  OBVIOUS
<1> DEFINE cmd == Head(todo)
           found == Find(cmd, reads)
<1> USE DEF IInv
<1>1. /\ todo # << >> /\ Len(reads) = Listings(cmd)
      /\ report' = [cmd |-> cmd, found |-> found, during |-> during]
      /\ findings' = findings + Cardinality(found)
      /\ todo' = Tail(todo) /\ reads' = << >> /\ during' = {db}
      /\ UNCHANGED <<db, asked, pc, ever>> /\ pc = "run"
  BY DEF Report
<1>2. /\ Len(asked) \in Nat /\ Len(todo) \in Nat \ {0} /\ Reported \in Nat
      /\ Len(todo') = Len(todo) - 1 /\ Reported' = Reported + 1
      /\ cmd = todo[1] /\ cmd = asked[Reported + 1] /\ Reported + 1 \in DOMAIN asked
  <2> DEFINE S == {asked[k] : k \in DOMAIN asked}
  <2>1. asked \in Seq(S) /\ todo \in Seq(S) /\ Len(todo) <= Len(asked)
    BY DEF ListOK
  <2> HIDE DEF S
  <2>2. /\ Len(asked) \in Nat /\ Len(todo) \in Nat \ {0} /\ Len(Tail(todo)) = Len(todo) - 1
        /\ DOMAIN asked = 1 .. Len(asked) /\ cmd = todo[1]
    BY <1>1, <2>1
  <2>3. Reported \in Nat /\ Reported' = Reported + 1 /\ Reported + 1 \in 1 .. Len(asked)
    BY <1>1, <2>1, <2>2 DEF Reported
  <2>4. todo[1] = asked[Reported + 1]
    BY <2>2 DEF ListOK
  <2> QED
    BY <1>1, <2>2, <2>3, <2>4
<1>3. IsCommand(cmd)
  BY <1>2 DEF ListOK
<1>4. \A k \in 1 .. Listings(cmd) : reads[k] \in during /\ IsNetBox(reads[k])
  <2>1. \A k \in 1 .. Len(reads) : reads[k] \in during
    BY DEF ListOK
  <2> QED
    BY <1>1, <2>1 DEF WorldOK
<1> HIDE DEF cmd, found
<1>5. Right(cmd, during, reads)
  BY <1>3, <1>4, EveryCommandIsRight DEF WorldOK
<1>6. IsFiniteSet(found)
  BY <1>3, <1>4, FindingsAreFinite DEF found
<1>7. WorldOK'
  BY <1>1 DEF WorldOK
<1>8. ListOK'
  <2>1. todo' \in Seq({asked[k] : k \in DOMAIN asked})
    BY <1>1 DEF ListOK
  <2>2. \A k \in 1 .. Len(todo') : todo'[k] = todo[k + 1] /\ k + 1 \in 1 .. Len(todo)
    BY <1>1, <1>2 DEF ListOK
  <2>3. \A k \in 1 .. Len(todo') : todo'[k] = asked[Reported' + k]
    <3> SUFFICES ASSUME NEW k \in 1 .. Len(todo')
                 PROVE  todo'[k] = asked[Reported' + k]
      OBVIOUS
    <3>1. todo'[k] = todo[k + 1] /\ k + 1 \in 1 .. Len(todo)
      BY <2>2
    <3>2. todo[k + 1] = asked[Reported + (k + 1)]
      BY <3>1 DEF ListOK
    <3>3. Reported + (k + 1) = Reported' + k
      BY <1>2
    <3> QED
      BY <3>1, <3>2, <3>3
  <2>4. reads' \in Seq(during')
    BY <1>1
  <2> QED
    BY <1>1, <1>2, <2>1, <2>3, <2>4 DEF ListOK
<1>9. CountOK'
  <2>1. Cardinality(found) \in Nat
    BY <1>6, FS_CardinalityType
  <2>2. findings' \in Nat
    BY <1>1, <2>1 DEF CountOK
  <2>3. ASSUME findings' = 0, NEW k \in 1 .. Reported'
        PROVE  StandingFaults(asked[k], ever) = {}
    <3>1. findings = 0 /\ Cardinality(found) = 0
      BY <1>1, <2>1, <2>3 DEF CountOK
    <3>2. CASE k \in 1 .. Reported
      BY <3>1, <3>2 DEF CountOK
    <3>3. CASE k = Reported + 1
      <4>1. found = {}
        BY <1>6, <3>1, FS_EmptySet
      <4>2. StandingFaults(cmd, during) = {}
        BY <1>5, <4>1 DEF Right, found
      <4>3. StandingFaults(cmd, ever) \subseteq StandingFaults(cmd, during)
        BY FewerFaultsStand DEF WorldOK
      <4> QED
        BY <1>2, <3>3, <4>2, <4>3
    <3> QED
      BY <1>2, <3>2, <3>3
  <2> QED
    BY <1>1, <2>2, <2>3 DEF CountOK
<1>10. ReportOK'
  <2>1. report'.cmd = cmd /\ report'.found = found /\ report'.during = during
    BY <1>1
  <2> QED
    BY <1>5, <2>1 DEF ReportOK, Right, found
<1>11. ExitOK'
  BY <1>1 DEF ExitOK
<1> QED
  BY <1>7, <1>8, <1>9, <1>10, <1>11

\* Whatever others write, NetBox sees to what it does.
LEMMA WriteIsOK == ASSUME NEW write, IInv, SomeoneWrites(write) PROVE IInv'
<1> USE DEF IInv
<1>1. /\ db' = [db EXCEPT ![write[1]] = Written(@, write[2], write[3])]
      /\ Holds(db') /\ during' = during \cup {db'} /\ ever' = ever \cup {db'}
      /\ UNCHANGED run /\ pc = "run"
  BY DEF SomeoneWrites
<1>2. IsNetBox(db')
  <2>1. IsNetBox(db)
    BY DEF WorldOK
  <2>2. DOMAIN db' = Tables
    BY <1>1, <2>1 DEF IsNetBox
  <2>3. ASSUME NEW table \in Tables
        PROVE  IsFiniteSet(DOMAIN db'[table])
    <3>1. IsFiniteSet(DOMAIN db[table]) /\ table \in DOMAIN db
      BY <2>1 DEF IsNetBox
    <3>2. CASE table = write[1]
      <4>1. db'[table] = Written(db[table], write[2], write[3])
        BY <1>1, <3>1, <3>2
      <4>2. DOMAIN db'[table] \subseteq DOMAIN db[table] \cup {write[2]}
        BY <4>1 DEF Written
      <4> QED
        <5>1. IsFiniteSet(DOMAIN db[table] \cup {write[2]})
          BY <3>1, FS_AddElement
        <5> QED
          BY <4>2, <5>1, FS_Subset
    <3>3. CASE table # write[1]
      <4>1. db'[table] = db[table]
        BY <1>1, <3>1, <3>3
      <4> QED
        BY <3>1, <4>1
    <3> QED
      BY <3>2, <3>3
  <2> QED
    BY <1>1, <2>2, <2>3 DEF IsNetBox
<1>3. WorldOK'
  BY <1>1, <1>2 DEF WorldOK
<1>4. ListOK'
  <2>1. reads \in Seq(during')
    BY <1>1 DEF ListOK
  <2> QED
    BY <1>1, <2>1 DEF run, ListOK, Reported
<1>5. CountOK'
  <2>1. \A cmd : StandingFaults(cmd, ever') \subseteq StandingFaults(cmd, ever)
    BY <1>1, FewerFaultsStand DEF WorldOK
  <2> QED
    BY <1>1, <2>1 DEF run, CountOK, Reported
<1>6. ReportOK' /\ ExitOK'
  BY <1>1 DEF run, ReportOK, ExitOK
<1> QED
  BY <1>3, <1>4, <1>5, <1>6

LEMMA StepIsOK == IInv /\ [Next]_vars => IInv'
<1> SUFFICES ASSUME IInv, [Next]_vars
             PROVE  IInv'
  OBVIOUS
<1>1. CASE Read
  <2>1. ListOK'
    <3>1. reads' \in Seq(during')
      BY <1>1 DEF Read, IInv, ListOK, WorldOK
    <3> QED
      BY <1>1, <3>1 DEF Read, IInv, ListOK, Reported
  <2> QED
    BY <1>1, <2>1 DEF Read, IInv, WorldOK, CountOK, Reported, ReportOK, ExitOK
<1>2. CASE ReadFails
  BY <1>2 DEF ReadFails, IInv, WorldOK, ListOK, CountOK, Reported, ReportOK, ExitOK
<1>3. CASE Report
  BY <1>3, ReportIsOK
<1>4. CASE Exit
  <2>1. UNCHANGED <<db, asked, todo, reads, findings, report, during, ever>>
    BY <1>4 DEF Exit
  <2>2. WorldOK' /\ ListOK' /\ CountOK' /\ ReportOK'
    BY <2>1 DEF IInv, WorldOK, ListOK, CountOK, Reported, ReportOK
  <2>3. ExitOK'
    BY <1>4 DEF Exit, ExitOK
  <2> QED
    BY <2>2, <2>3 DEF IInv
<1>5. CASE \E write \in limits.writes : SomeoneWrites(write)
  BY <1>5, WriteIsOK
<1>6. CASE UNCHANGED vars
  BY <1>6 DEF vars, run, IInv, WorldOK, ListOK, CountOK, Reported, ReportOK, ExitOK
<1> QED
  BY <1>1, <1>2, <1>3, <1>4, <1>5, <1>6 DEF Next

LEMMA AlwaysOK == Spec => []IInv
BY InitIsOK, StepIsOK, PTL DEF Spec

\* However the listings of a command fit together, it reports what is wrong all the
\* time that it reads (the find() of each lint).
THEOREM FaultsAreReported == Spec => []StandingFaultsAreReported
<1>1. IInv => StandingFaultsAreReported
  BY DEF IInv, ReportOK, StandingFaultsAreReported
<1> QED
  BY <1>1, AlwaysOK, PTL

\* And it does not report what is in order all that time.
THEOREM ExcusesAreHeard == Spec => []NothingExcusedIsReported
<1>1. IInv => NothingExcusedIsReported
  BY DEF IInv, ReportOK, NothingExcusedIsReported
<1> QED
  BY <1>1, AlwaysOK, PTL

\* Exit status 0 of nblint means that nothing its commands are about was wrong all
\* through the run (main()).
THEOREM CleanIsClean == Spec => []CleanMeansClean
<1>1. IInv => CleanMeansClean
  <2> SUFFICES ASSUME IInv, pc = "clean"
               PROVE  \A k \in DOMAIN asked : StandingFaults(asked[k], ever) = {}
    BY DEF CleanMeansClean
  <2> DEFINE S == {asked[k] : k \in DOMAIN asked}
  <2>1. asked \in Seq(S) /\ findings = 0 /\ todo = << >>
    BY DEF IInv, ExitOK, ListOK
  <2>2. \A k \in 1 .. Reported : StandingFaults(asked[k], ever) = {}
    BY <2>1 DEF IInv, CountOK
  <2> HIDE DEF S
  <2>3. DOMAIN asked = 1 .. Len(asked) /\ Reported = Len(asked)
    BY <2>1 DEF Reported
  <2> QED
    BY <2>2, <2>3
<1> QED
  BY <1>1, AlwaysOK, PTL
=============================================================================
