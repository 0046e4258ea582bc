-------------------------- MODULE DispatchSigning_proofs --------------------------
(***************************************************************************)
(* Proof that every row is signed with a client of its own chain that is   *)
(* no older than its block's runtime, for any chains, upgrades and calls,  *)
(* and that a fuel tank call is sent as the runtime's grammar reads it or  *)
(* refused unsigned, for calls of any length and for any limit on their    *)
(* nesting.                                                                *)
(*                                                                         *)
(* The second is about what a recursive walk and a recursive grammar       *)
(* compute.  Induction is over sets of numbers (SetInduction), as the      *)
(* theorem for a predicate cannot be instantiated: Through, AfterMany,     *)
(* Measure, CallEnds and Concatenated first get the equations they are     *)
(* defined by, and CallsAgree then shows level by level that the walk ends *)
(* where the grammar does.  What follows a call is of a fixed size, and    *)
(* is compared token by token.                                             *)
(***************************************************************************)
EXTENDS DispatchSigning, WellFoundedInduction, SequenceTheorems, TLAPS

-----------------------------------------------------------------------------
(* The clients.                                                            *)

\* A cached client is of the chain it is cached for.
ClientsInPlace ==
    \A c \in Chains : METADATA[c] # NoClient => METADATA[c].chain = c

\* A chain's runtime is upgraded no further than its last, and its client is of
\* one that it has had.
WithinUpgrades ==
    \A c \in Chains :
        /\ runtime[c] <= LastSpec[c]
        /\ METADATA[c] # NoClient => METADATA[c].spec <= runtime[c]

\* What a batch knows of a chain's block: the runtime has not gone back since,
\* and a chain whose prefetch succeeded has a client for it.
BlocksHaveClients ==
    /\ phase = "metadata" => asked \in Client /\ asked.spec <= runtime[asked.chain]
    /\ \A c \in Chains : block_info[c] # 0 =>
           METADATA[c] \in Client /\ METADATA[c].spec >= block_info[c]

\* The client at hand is still the cached one: none is replaced in the loop.
RowAtHand ==
    last # NoRow =>
        /\ phase = "batch" /\ todo = {}
        /\ last.chain \in Chains /\ block_info[last.chain] # 0
        /\ last.client = METADATA[last.chain]

CacheInv ==
    /\ TypeOK
    /\ ClientsInPlace
    /\ WithinUpgrades
    /\ BlocksHaveClients
    /\ RowAtHand

LEMMA NoClientIsNone == NoClient \notin Client
BY DEF NoClient, Client, Spec_version

LEMMA InvGivesClient == CacheInv => ClientOfTheBlock
BY NoClientIsNone DEF CacheInv, ClientsInPlace, BlocksHaveClients, RowAtHand,
   ClientOfTheBlock

LEMMA InitEstablishesInv == Init => CacheInv
BY CacheAssumption DEF Init, CacheInv, TypeOK, ClientsInPlace, WithinUpgrades,
   BlocksHaveClients, RowAtHand, NoBlocks, Spec_version

LEMMA NextKeepsInv == CacheInv /\ [Next]_vars => CacheInv'
<1> SUFFICES ASSUME CacheInv, [Next]_vars PROVE CacheInv'
  OBVIOUS
<1> USE NoClientIsNone DEF CacheInv, TypeOK, ClientsInPlace, WithinUpgrades,
        BlocksHaveClients, RowAtHand, batchVars
<1>1. ASSUME NEW c \in Chains, Upgrade(c) PROVE CacheInv'
  <2>1. /\ runtime[c] < LastSpec[c] /\ runtime' = [runtime EXCEPT ![c] = @ + 1]
        /\ UNCHANGED <<METADATA, batchVars, last>>
    BY <1>1 DEF Upgrade
  <2>2. runtime' \in [Chains -> Spec_version] /\ \A d \in Chains : runtime[d] <= runtime'[d]
    BY <2>1 DEF Spec_version
  <2>3. TypeOK' /\ ClientsInPlace' /\ RowAtHand'
    BY <2>1, <2>2
  <2>4. BlocksHaveClients'
    BY <2>1, <2>2 DEF Client, Spec_version
  <2>5. \A d \in Chains : runtime'[d] <= LastSpec[d]
    <3> TAKE d \in Chains
    <3>1. runtime[d] \in Nat /\ LastSpec[d] \in Nat /\ runtime[d] <= LastSpec[d]
      BY CacheAssumption DEF Spec_version
    <3>2. CASE d = c
      BY <2>1, <3>1, <3>2
    <3>3. CASE d # c
      BY <2>1, <3>1, <3>3
    <3> QED BY <3>2, <3>3
  <2>6. WithinUpgrades'
    <3> SUFFICES ASSUME NEW d \in Chains, METADATA[d] # NoClient
                 PROVE  METADATA[d].spec <= runtime'[d]
      BY <2>1, <2>5
    <3>1. METADATA[d].spec \in Nat /\ METADATA[d].spec <= runtime[d]
      BY DEF Client, Spec_version
    <3>2. runtime[d] \in Nat /\ runtime'[d] \in Nat /\ runtime[d] <= runtime'[d]
      BY <2>2 DEF Spec_version
    <3> QED BY <3>1, <3>2
  <2> QED BY <2>3, <2>4, <2>6
<1>2. ASSUME NEW chains \in SUBSET Chains, Receive(chains) PROVE CacheInv'
  BY <1>2 DEF Receive, NoBlocks
<1>3. ASSUME NEW c \in Chains, BlockAnswered(c) PROVE CacheInv'
  <2>1. CASE NeedsUpdate(METADATA[c], runtime[c])
    <3>1. asked' = [chain |-> c, spec |-> runtime[c]] /\ asked' \in Client
      BY <1>3, <2>1 DEF BlockAnswered, Client
    <3>2. /\ phase = "batch" /\ phase' = "metadata" /\ c \in todo
          /\ UNCHANGED <<runtime, METADATA, batch, todo, block_info, failed_chains, last>>
      BY <1>3, <2>1 DEF BlockAnswered
    <3> QED BY <3>1, <3>2 DEF Client, Spec_version
  <2>2. CASE ~NeedsUpdate(METADATA[c], runtime[c])
    <3>1. /\ phase = "batch" /\ c \in todo /\ todo' = todo \ {c}
          /\ block_info' = [block_info EXCEPT ![c] = runtime[c]]
          /\ UNCHANGED <<runtime, METADATA, phase, batch, asked, failed_chains, last>>
      BY <1>3, <2>2 DEF BlockAnswered
    <3>2. METADATA[c] \in Client /\ METADATA[c].spec >= runtime[c]
      BY <2>2 DEF NeedsUpdate, Client, Spec_version
    <3> QED BY <3>1, <3>2 DEF Spec_version
  <2> QED BY <2>1, <2>2
<1>4. ASSUME NEW c \in Chains, BlockFails(c) PROVE CacheInv'
  BY <1>4 DEF BlockFails
<1>5. CASE MetadataAnswered
  <2> DEFINE a == asked.chain
             client == [chain |-> a, spec |-> runtime[a]]
  <2>1. /\ phase = "metadata" /\ phase' = "batch" /\ a \in todo /\ a \in Chains
        /\ METADATA' = [METADATA EXCEPT ![a] = client]
        /\ block_info' = [block_info EXCEPT ![a] = asked.spec]
        /\ todo' = todo \ {a} /\ asked' = NoClient
        /\ UNCHANGED <<runtime, batch, failed_chains, last>>
    BY <1>5 DEF MetadataAnswered
  <2>2. client \in Client /\ asked.spec \in Nat /\ client.spec >= asked.spec
    BY <2>1 DEF Client, Spec_version
  <2> HIDE DEF client
  <2>3. TypeOK'
    BY <2>1, <2>2
  <2>4. ClientsInPlace'
    BY <2>1 DEF client
  <2>5. BlocksHaveClients'
    BY <2>1, <2>2
  <2>6. RowAtHand'
    BY <2>1
  <2>7. WithinUpgrades'
    BY <2>1, <2>2 DEF client, Spec_version
  <2> QED BY <2>3, <2>4, <2>5, <2>6, <2>7
<1>6. CASE MetadataFails
  BY <1>6 DEF MetadataFails
<1>7. ASSUME NEW c \in Chains, NEW payload \in Payloads, NEW fuelTank \in BOOLEAN,
             SignRow(c, payload, fuelTank)
      PROVE  CacheInv'
  <2>1. /\ phase = "batch" /\ todo = {} /\ block_info[c] # 0
        /\ last'.chain = c /\ last'.client = METADATA[c]
        /\ UNCHANGED <<runtime, METADATA, batchVars>>
    BY <1>7 DEF SignRow
  <2> QED BY <2>1
<1>8. CASE NextRow
  BY <1>8 DEF NextRow
<1>9. CASE BatchDone
  BY <1>9 DEF BatchDone, NoBlocks
<1>10. CASE Restart
  BY <1>10 DEF Restart, NoBlocks
<1>11. CASE UNCHANGED vars
  BY <1>11 DEF vars
<1> QED
  BY <1>1, <1>2, <1>3, <1>4, <1>5, <1>6, <1>7, <1>8, <1>9, <1>10, <1>11 DEF Next

-----------------------------------------------------------------------------
(* Induction, and what the recursive functions of the model are.           *)

\* Induction over the naturals, for a set instead of a predicate.
LEMMA SetInduction ==
    ASSUME NEW S \in SUBSET Nat, 0 \in S, \A n \in S : n + 1 \in S
    PROVE  S = Nat
<1> DEFINE T == Nat \ S
           R == {ss \in Nat \X Nat : ss[1] < ss[2]}
<1> SUFFICES ASSUME T # {} PROVE FALSE
  OBVIOUS
<1>1. IsWellFoundedOn(R, Nat)
  BY NatLessThanWellFounded DEF OpToRel
<1>2. PICK x \in T : \A y \in T : ~(<<y, x>> \in R)
  <2>1. T \subseteq Nat /\ T # {}
    OBVIOUS
  <2> HIDE DEF R, T
  <2> QED BY <1>1, <2>1, WFMin
<1>3. x - 1 \in T /\ <<x - 1, x>> \in R
  OBVIOUS
<1> QED BY <1>2, <1>3

\* Through goes from one value to the next, and stops at an error.
LEMMA ThroughIs ==
    ASSUME NEW ends, NEW ids, NEW from, Len(ids) \in Nat
    PROVE  /\ Through(ends, ids, from)[0] = from
           /\ \A n \in 1 .. Len(ids) :
                  Through(ends, ids, from)[n] =
                      IF Through(ends, ids, from)[n - 1] = Refused THEN Refused
                      ELSE ends[ids[n]][Through(ends, ids, from)[n - 1]]
<1> DEFINE Step(n, before) == IF before = Refused THEN Refused ELSE ends[ids[n]][before]
           Is(f, m) == f = [n \in 0 .. m |-> IF n = 0 THEN from ELSE Step(n, f[n - 1])]
           S == {m \in Nat : \E f : Is(f, m)}
           at == Through(ends, ids, from)
<1>1. at = CHOOSE f : Is(f, Len(ids))
  BY DEF Through
<1> HIDE DEF Step, at
<1>2. \E f : Is(f, 0)
  <2> DEFINE h == [n \in 0 .. 0 |-> from]
  <2>1. Is(h, 0)
    OBVIOUS
  <2> HIDE DEF Is, h
  <2> QED BY <2>1
<1>3. ASSUME NEW m \in Nat, NEW f, Is(f, m) PROVE \E h : Is(h, m + 1)
  <2> DEFINE h == [n \in 0 .. m + 1 |-> IF n = m + 1 THEN Step(m + 1, f[m]) ELSE f[n]]
  <2>1. \A n \in 0 .. m + 1 : h[n] = IF n = 0 THEN from ELSE Step(n, h[n - 1])
    BY <1>3
  <2>2. Is(h, m + 1)
    BY <2>1
  <2> HIDE DEF Is, h
  <2> QED BY <2>2
<1> HIDE DEF Is
<1>4. S = Nat
  <2>1. 0 \in S /\ \A m \in S : m + 1 \in S
    BY <1>2, <1>3
  <2> HIDE DEF S
  <2> QED BY <2>1, SetInduction DEF S
<1>5. Is(at, Len(ids))
  BY <1>1, <1>4
<1>6. at[0] = from /\ \A n \in 1 .. Len(ids) : at[n] = Step(n, at[n - 1])
  BY <1>5 DEF Is
<1> QED BY <1>6 DEF Step, at

\* It starts where it is told to.
LEMMA ThroughStarts ==
    ASSUME NEW ends, NEW ids, NEW from, Len(ids) \in Nat
    PROVE  Through(ends, ids, from)[0] = from
BY ThroughIs

\* And goes on from value to value, unless one is refused.
LEMMA ThroughSteps ==
    ASSUME NEW ends, NEW ids, NEW from, Len(ids) \in Nat, NEW n \in 1 .. Len(ids)
    PROVE  Through(ends, ids, from)[n] =
               IF Through(ends, ids, from)[n - 1] = Refused THEN Refused
               ELSE ends[ids[n]][Through(ends, ids, from)[n - 1]]
BY ThroughIs

\* AfterMany collects the ends of one more value in each step.
LEMMA AfterManyIs ==
    ASSUME NEW ends, NEW from, NEW k \in Nat
    PROVE  /\ AfterMany(ends, k, from)[0] = {from}
           /\ \A n \in 1 .. k :
                  AfterMany(ends, k, from)[n] =
                      UNION {ends[p] : p \in AfterMany(ends, k, from)[n - 1]}
<1> DEFINE start == {from}
           Step(before) == UNION {ends[p] : p \in before}
           Is(f, m) == f = [n \in 0 .. m |-> IF n = 0 THEN start ELSE Step(f[n - 1])]
           S == {m \in Nat : \E f : Is(f, m)}
           after == AfterMany(ends, k, from)
<1>1. after = CHOOSE f : Is(f, k)
  BY DEF AfterMany
<1> HIDE DEF Step, after, start
<1>2. \E f : Is(f, 0)
  <2> DEFINE h == [n \in 0 .. 0 |-> start]
  <2>1. Is(h, 0)
    OBVIOUS
  <2> HIDE DEF Is, h
  <2> QED BY <2>1
<1>3. ASSUME NEW m \in Nat, NEW f, Is(f, m) PROVE \E h : Is(h, m + 1)
  <2> DEFINE h == [n \in 0 .. m + 1 |-> IF n = m + 1 THEN Step(f[m]) ELSE f[n]]
  <2>1. \A n \in 0 .. m + 1 : h[n] = IF n = 0 THEN start ELSE Step(h[n - 1])
    BY <1>3
  <2>2. Is(h, m + 1)
    BY <2>1
  <2> HIDE DEF Is, h
  <2> QED BY <2>2
<1> HIDE DEF Is
<1>4. S = Nat
  <2>1. 0 \in S /\ \A m \in S : m + 1 \in S
    BY <1>2, <1>3
  <2> HIDE DEF S
  <2> QED BY <2>1, SetInduction DEF S
<1>5. Is(after, k)
  BY <1>1, <1>4
<1>6. after[0] = start /\ \A n \in 1 .. k : after[n] = Step(after[n - 1])
  BY <1>5 DEF Is
<1> QED BY <1>6 DEF Step, after, start

\* No value at all ends where it starts.
LEMMA AfterManyStarts ==
    ASSUME NEW ends, NEW from, NEW k \in Nat
    PROVE  AfterMany(ends, k, from)[0] = {from}
BY AfterManyIs

\* Each level of the walk visits the items of the level below.
LEMMA MeasureIs ==
    ASSUME NEW spec, NEW tx
    PROVE  /\ \A id \in TypeIds : \A at \in Positions(tx) :
                  Measure(spec, tx)[0][id][at] = Refused
           /\ \A n \in 1 .. MAX_NESTING + 1 :
                  Measure(spec, tx)[n] = VisitItems(spec, tx, Measure(spec, tx)[n - 1])
<1> DEFINE none == [id \in TypeIds |-> [at \in Positions(tx) |-> Refused]]
           Step(before) == VisitItems(spec, tx, before)
           Is(f, m) == f = [n \in 0 .. m |-> IF n = 0 THEN none ELSE Step(f[n - 1])]
           S == {m \in Nat : \E f : Is(f, m)}
           ends == Measure(spec, tx)
<1>1. ends = CHOOSE f : Is(f, MAX_NESTING + 1)
  BY DEF Measure
<1> HIDE DEF Step, ends, none
<1>2. \E f : Is(f, 0)
  <2> DEFINE h == [n \in 0 .. 0 |-> none]
  <2>1. Is(h, 0)
    OBVIOUS
  <2> HIDE DEF Is, h
  <2> QED BY <2>1
<1>3. ASSUME NEW m \in Nat, NEW f, Is(f, m) PROVE \E h : Is(h, m + 1)
  <2> DEFINE h == [n \in 0 .. m + 1 |-> IF n = m + 1 THEN Step(f[m]) ELSE f[n]]
  <2>1. \A n \in 0 .. m + 1 : h[n] = IF n = 0 THEN none ELSE Step(h[n - 1])
    BY <1>3
  <2>2. Is(h, m + 1)
    BY <2>1
  <2> HIDE DEF Is, h
  <2> QED BY <2>2
<1> HIDE DEF Is
<1>4. S = Nat
  <2>1. 0 \in S /\ \A m \in S : m + 1 \in S
    BY <1>2, <1>3
  <2> HIDE DEF S
  <2> QED BY <2>1, SetInduction DEF S
<1>5. Is(ends, MAX_NESTING + 1)
  BY <1>1, <1>4, NestingAssumption
<1>6. ends[0] = none /\ \A n \in 1 .. MAX_NESTING + 1 : ends[n] = Step(ends[n - 1])
  BY <1>5, NestingAssumption DEF Is
<1> QED BY <1>6 DEF Step, ends, none

\* The grammar of calls, by the levels that are left.
LEMMA CallEndsIs ==
    ASSUME NEW tx, NEW n \in 0 .. MAX_NESTING + 1, NEW p \in Positions(tx)
    PROVE  CallEnds(tx)[n][p] =
               IF n < CALL_LEVELS THEN {}
               ELSE RemarkEnds(tx, n, p) \cup BatchEnds(tx, CallEnds(tx)[n - CALL_LEVELS], p)
<1> DEFINE none == [q \in Positions(tx) |-> {}]
           Step(l, before) ==
               [q \in Positions(tx) |-> RemarkEnds(tx, l, q) \cup BatchEnds(tx, before, q)]
           Is(f, m) == f = [l \in 0 .. m |-> IF l < 3 THEN none ELSE Step(l, f[l - 3])]
           S == {m \in Nat : \E f : Is(f, m)}
           ends == CallEnds(tx)
<1>1. ends = CHOOSE f : Is(f, MAX_NESTING + 1)
  <2> DEFINE Raw(f, l) == [q \in Positions(tx) |->
                IF l < CALL_LEVELS THEN {}
                ELSE RemarkEnds(tx, l, q) \cup BatchEnds(tx, f[l - CALL_LEVELS], q)]
  <2>1. \A f : \A l \in Nat : Raw(f, l) = IF l < 3 THEN none ELSE Step(l, f[l - 3])
    BY DEF CALL_LEVELS
  <2>2. ends = CHOOSE f : f = [l \in 0 .. MAX_NESTING + 1 |-> Raw(f, l)]
    BY DEF CallEnds
  <2> HIDE DEF Raw, none, Step
  <2>3. \A f : [l \in 0 .. MAX_NESTING + 1 |-> Raw(f, l)]
             = [l \in 0 .. MAX_NESTING + 1 |-> IF l < 3 THEN none ELSE Step(l, f[l - 3])]
    BY <2>1, NestingAssumption
  <2> QED BY <2>2, <2>3
<1> HIDE DEF Step, ends, none
<1>2. \E f : Is(f, 0)
  <2> DEFINE h == [l \in 0 .. 0 |-> none]
  <2>1. Is(h, 0)
    OBVIOUS
  <2> HIDE DEF Is, h
  <2> QED BY <2>1
<1>3. ASSUME NEW m \in Nat, NEW f, Is(f, m) PROVE \E h : Is(h, m + 1)
  <2> DEFINE h == [l \in 0 .. m + 1 |->
                       IF l = m + 1
                       THEN IF m + 1 < 3 THEN none ELSE Step(m + 1, f[m - 2])
                       ELSE f[l]]
  <2>1. \A l \in 0 .. m + 1 : h[l] = IF l < 3 THEN none ELSE Step(l, h[l - 3])
    BY <1>3
  <2>2. Is(h, m + 1)
    BY <2>1
  <2> HIDE DEF Is, h
  <2> QED BY <2>2
<1> HIDE DEF Is
<1>4. S = Nat
  <2>1. 0 \in S /\ \A m \in S : m + 1 \in S
    BY <1>2, <1>3
  <2> HIDE DEF S
  <2> QED BY <2>1, SetInduction DEF S
<1>5. Is(ends, MAX_NESTING + 1)
  BY <1>1, <1>4, NestingAssumption
<1>6. \A l \in 0 .. MAX_NESTING + 1 : ends[l] = IF l < 3 THEN none ELSE Step(l, ends[l - 3])
  BY <1>5, NestingAssumption DEF Is
<1> QED BY <1>6 DEF Step, ends, none, CALL_LEVELS

\* Concatenated appends one value after the other.
LEMMA ConcatenatedIs ==
    ASSUME NEW values, Len(values) \in Nat
    PROVE  \E first :
               /\ Concatenated(values) = first[Len(values)]
               /\ first[0] = <<>>
               /\ \A n \in 1 .. Len(values) : first[n] = first[n - 1] \o values[n]
<1> DEFINE empty == <<>>
           Step(n, before) == before \o values[n]
           Is(f, m) == f = [n \in 0 .. m |-> IF n = 0 THEN empty ELSE Step(n, f[n - 1])]
           S == {m \in Nat : \E f : Is(f, m)}
           first == CHOOSE f : Is(f, Len(values))
<1>1. Concatenated(values) = first[Len(values)]
  BY DEF Concatenated
<1> HIDE DEF Step, empty, first
<1>2. \E f : Is(f, 0)
  <2> DEFINE h == [n \in 0 .. 0 |-> empty]
  <2>1. Is(h, 0)
    OBVIOUS
  <2> HIDE DEF Is, h
  <2> QED BY <2>1
<1>3. ASSUME NEW m \in Nat, NEW f, Is(f, m) PROVE \E h : Is(h, m + 1)
  <2> DEFINE h == [n \in 0 .. m + 1 |-> IF n = m + 1 THEN Step(m + 1, f[m]) ELSE f[n]]
  <2>1. \A n \in 0 .. m + 1 : h[n] = IF n = 0 THEN empty ELSE Step(n, h[n - 1])
    BY <1>3
  <2>2. Is(h, m + 1)
    BY <2>1
  <2> HIDE DEF Is, h
  <2> QED BY <2>2
<1> HIDE DEF Is
<1>4. S = Nat
  <2>1. 0 \in S /\ \A m \in S : m + 1 \in S
    BY <1>2, <1>3
  <2> HIDE DEF S
  <2> QED BY <2>1, SetInduction DEF S
<1>5. Is(first, Len(values))
  BY <1>4 DEF first
<1>6. first[0] = empty /\ \A n \in 1 .. Len(values) : first[n] = Step(n, first[n - 1])
  BY <1>5 DEF Is
<1> QED BY <1>1, <1>6 DEF Step, empty

-----------------------------------------------------------------------------
(* One level of the visitor, for each kind of type.                        *)

\* The types of the registry.
LEMMA TypesAre ==
    ASSUME NEW spec
    PROVE  /\ \A id \in {"tank_id", "u32", "added", "byte", "bytes64"} :
                  TypeOf(spec, id) = Token(8)
           /\ \A id \in {"use_none_origin", "create_account"} : TypeOf(spec, id) = Token(2)
           /\ TypeOf(spec, "rule_set_id") =
                  IF spec = Legacy THEN Token(8) ELSE OptionOf("u32")
           /\ TypeOf(spec, "call") = Variant(<< <<"system">>, <<"utility">> >>)
           /\ TypeOf(spec, "system") = Variant(<< <<"bytes">> >>)
           /\ TypeOf(spec, "utility") = Variant(<< <<"calls">> >>)
           /\ TypeOf(spec, "bytes") = Sequence("byte")
           /\ TypeOf(spec, "calls") = Sequence("call")
           /\ TypeOf(spec, "settings") = OptionOf("dispatch_settings")
           /\ TypeOf(spec, "dispatch_settings") = Composite(SettingsFields(spec))
           /\ TypeOf(spec, "signature") =
                  IF spec = Retyped THEN Token(2) ELSE OptionOf("expirable")
           /\ TypeOf(spec, "expirable") = Composite(<<"bytes64", "u32">>)
BY DEF TypeOf

\* A level visits a value with the levels below it.
LEMMA VisitItemsIs ==
    ASSUME NEW spec, NEW tx, NEW nested, NEW id \in TypeIds, NEW at \in Positions(tx)
    PROVE  VisitItems(spec, tx, nested)[id][at] = Visit(spec, tx, nested, id, at)
BY DEF VisitItems

\* A position is a number, and so is the token after it.
LEMMA PositionIs ==
    ASSUME NEW tx \in Seq(Tokens), NEW at \in Positions(tx)
    PROVE  /\ at \in Nat \ {0} /\ at + 1 # Refused /\ Len(tx) \in Nat
           /\ at <= Len(tx) => tx[at] \in Nat /\ at + 1 \in Positions(tx)
<1>1. at \in Nat \ {0} /\ at <= Len(tx) + 1 /\ Len(tx) \in Nat
  BY DEF Positions
<1>2. at + 1 # Refused
  BY <1>1 DEF Refused
<1>3. ASSUME at <= Len(tx) PROVE tx[at] \in Nat /\ at + 1 \in Positions(tx)
  <2>1. tx[at] \in Tokens
    BY <1>1, <1>3
  <2>2. at + 1 \in 1 .. Len(tx) + 1
    BY <1>1, <1>3
  <2> QED BY <2>1, <2>2 DEF Tokens, Positions
<1> QED BY <1>1, <1>2, <1>3

\* A token is one of those below its bound.
LEMMA VisitToken ==
    ASSUME NEW spec, NEW tx, NEW nested, NEW id, NEW at \in Positions(tx), NEW n,
           TypeOf(spec, id) = Token(n)
    PROVE  Visit(spec, tx, nested, id, at) =
               IF at <= Len(tx) /\ tx[at] < n THEN at + 1 ELSE Refused
BY DEF Visit, Token, Refused, Positions

\* A struct ends where its fields do.
LEMMA VisitComposite ==
    ASSUME NEW spec, NEW tx, NEW nested, NEW id, NEW at, NEW ids,
           TypeOf(spec, id) = Composite(ids)
    PROVE  Visit(spec, tx, nested, id, at) = Through(nested, ids, at)[Len(ids)]
BY DEF Visit, Composite

\* The fields of a variant follow its index.
LEMMA VisitVariant ==
    ASSUME NEW spec, NEW tx \in Seq(Tokens), NEW nested, NEW id,
           NEW at \in Positions(tx), NEW cases, TypeOf(spec, id) = Variant(cases)
    PROVE  Visit(spec, tx, nested, id, at) =
               IF at <= Len(tx) /\ tx[at] < Len(cases)
               THEN Through(nested, cases[tx[at] + 1], at + 1)[Len(cases[tx[at] + 1])]
               ELSE Refused
BY DEF Visit, Variant, Positions

\* A sequence's items follow their number.
LEMMA VisitSequence ==
    ASSUME NEW spec, NEW tx \in Seq(Tokens), NEW nested, NEW id,
           NEW at \in Positions(tx), NEW item, TypeOf(spec, id) = Sequence(item)
    PROVE  Visit(spec, tx, nested, id, at) =
               IF at <= Len(tx)
               THEN Through(nested, [i \in 1 .. tx[at] |-> item], at + 1)[tx[at]]
               ELSE Refused
<1> DEFINE items == [i \in 1 .. tx[at] |-> item]
<1>1. CASE at <= Len(tx)
  <2>1. Len(items) = tx[at]
    BY <1>1 DEF Tokens, Positions
  <2>2. Visit(spec, tx, nested, id, at) = Through(nested, items, at + 1)[Len(items)]
    <3> DEFINE same == [i \in 1 .. tx[at] |-> TypeOf(spec, id).item]
    <3>1. TypeOf(spec, id).kind = "sequence" /\ same = items
      BY DEF Sequence
    <3>2. TypeOf(spec, id).kind = "sequence" /\ ~(at > Len(tx))
      BY <1>1, <3>1 DEF Positions
    <3>3. Visit(spec, tx, nested, id, at) = Through(nested, same, at + 1)[Len(same)]
      BY <3>2, Zenon DEF Visit
    <3> QED BY <3>1, <3>3
  <2> HIDE DEF items
  <2>3. Visit(spec, tx, nested, id, at) = Through(nested, items, at + 1)[tx[at]]
    BY <2>1, <2>2
  <2> QED BY <1>1, <2>3 DEF items
<1>2. CASE ~(at <= Len(tx))
  BY <1>2 DEF Visit, Sequence, Positions
<1> QED BY <1>1, <1>2

\* One value, and none.
LEMMA ThroughOne ==
    ASSUME NEW ends, NEW id, NEW from, from # Refused
    PROVE  /\ Through(ends, <<>>, from)[Len(<<>>)] = from
           /\ Through(ends, <<id>>, from)[Len(<<id>>)] = ends[id][from]
<1> DEFINE none == <<>>
           one == <<id>>
<1>1. Len(none) = 0 /\ Len(one) = 1 /\ one[1] = id
  OBVIOUS
<1> HIDE DEF none, one
<1>2. Through(ends, none, from)[0] = from
  BY <1>1, ThroughStarts
<1>3. Through(ends, one, from)[0] = from
  BY <1>1, ThroughStarts
<1>4. Through(ends, one, from)[1] = ends[id][from]
  BY <1>1, <1>3, ThroughSteps
<1>5. /\ Through(ends, none, from)[Len(none)] = from
      /\ Through(ends, one, from)[Len(one)] = ends[id][from]
  BY <1>1, <1>2, <1>4
<1> QED BY <1>5 DEF none, one

\* An option.
LEMMA VisitOption ==
    ASSUME NEW spec, NEW tx \in Seq(Tokens), NEW nested, NEW id,
           NEW at \in Positions(tx), NEW inner, TypeOf(spec, id) = OptionOf(inner)
    PROVE  Visit(spec, tx, nested, id, at) =
               IF at <= Len(tx) /\ tx[at] = 0 THEN at + 1
               ELSE IF at <= Len(tx) /\ tx[at] = 1 THEN nested[inner][at + 1]
               ELSE Refused
<1> DEFINE cases == << <<>>, <<inner>> >>
           End(i) == Through(nested, cases[i], at + 1)[Len(cases[i])]
<1>1. at \in Nat /\ at + 1 # Refused /\ (at <= Len(tx) => tx[at] \in Nat)
  BY PositionIs
<1>2. End(1) = at + 1 /\ End(2) = nested[inner][at + 1]
  <2>1. cases[1] = <<>> /\ cases[2] = <<inner>>
    OBVIOUS
  <2>2. /\ Through(nested, <<>>, at + 1)[Len(<<>>)] = at + 1
        /\ Through(nested, <<inner>>, at + 1)[Len(<<inner>>)] = nested[inner][at + 1]
    BY <1>1, ThroughOne
  <2> HIDE DEF cases
  <2> QED BY <2>1, <2>2
<1>3. Visit(spec, tx, nested, id, at) =
          IF at <= Len(tx) /\ tx[at] < 2 THEN End(tx[at] + 1) ELSE Refused
  <2>1. TypeOf(spec, id) = Variant(cases) /\ Len(cases) = 2
    BY DEF OptionOf
  <2> HIDE DEF cases
  <2>2. Visit(spec, tx, nested, id, at) =
            IF at <= Len(tx) /\ tx[at] < Len(cases) THEN End(tx[at] + 1) ELSE Refused
    BY <2>1, VisitVariant
  <2> HIDE DEF End
  <2> QED BY <2>1, <2>2
<1> HIDE DEF End
<1> QED BY <1>1, <1>2, <1>3

-----------------------------------------------------------------------------
(* The walk, type by type.                                                 *)

\* Nothing ends without a level left.
LEMMA MeasureNone ==
    ASSUME NEW spec, NEW tx, NEW id \in TypeIds, NEW at \in Positions(tx)
    PROVE  Measure(spec, tx)[0][id][at] = Refused
BY MeasureIs

\* A value ends where its visitor says.
LEMMA MeasureVisits ==
    ASSUME NEW spec, NEW tx, NEW id \in TypeIds, NEW at \in Positions(tx),
           NEW n \in 1 .. MAX_NESTING + 1
    PROVE  Measure(spec, tx)[n][id][at] = Visit(spec, tx, Measure(spec, tx)[n - 1], id, at)
<1>1. Measure(spec, tx)[n] = VisitItems(spec, tx, Measure(spec, tx)[n - 1])
  BY MeasureIs
<1> QED BY <1>1, VisitItemsIs

\* And a level further down.
LEMMA MeasureVisitsBelow ==
    ASSUME NEW spec, NEW tx, NEW id \in TypeIds, NEW at \in Positions(tx),
           NEW n \in 2 .. MAX_NESTING + 1
    PROVE  Measure(spec, tx)[n - 1][id][at] = Visit(spec, tx, Measure(spec, tx)[n - 2], id, at)
<1> DEFINE m == n - 1
<1>1. m \in 1 .. MAX_NESTING + 1 /\ m - 1 = n - 2
  BY NestingAssumption
<1> HIDE DEF m
<1>2. Measure(spec, tx)[m][id][at] = Visit(spec, tx, Measure(spec, tx)[m - 1], id, at)
  BY <1>1, MeasureVisits
<1> QED BY <1>1, <1>2 DEF m

\* Values that are one token.
LEMMA TokensEnd ==
    ASSUME NEW spec, NEW tx \in Seq(Tokens), NEW at \in Positions(tx),
           NEW n \in 1 .. MAX_NESTING + 1
    PROVE  /\ \A id \in {"tank_id", "u32", "added", "byte", "bytes64"} :
                  Measure(spec, tx)[n][id][at] = IF at <= Len(tx) THEN at + 1 ELSE Refused
           /\ \A id \in {"use_none_origin", "create_account"} :
                  Measure(spec, tx)[n][id][at] =
                      IF at <= Len(tx) /\ tx[at] < 2 THEN at + 1 ELSE Refused
<1>1. at <= Len(tx) => tx[at] < 8
  BY DEF Tokens, Positions
<1>2. ASSUME NEW id \in {"tank_id", "u32", "added", "byte", "bytes64"}
      PROVE  Measure(spec, tx)[n][id][at] = IF at <= Len(tx) THEN at + 1 ELSE Refused
  <2>1. id \in TypeIds /\ TypeOf(spec, id) = Token(8)
    BY TypesAre DEF TypeIds
  <2>2. Measure(spec, tx)[n][id][at] = Visit(spec, tx, Measure(spec, tx)[n - 1], id, at)
    BY <2>1, MeasureVisits
  <2> QED BY <1>1, <2>1, <2>2, VisitToken
<1>3. ASSUME NEW id \in {"use_none_origin", "create_account"}
      PROVE  Measure(spec, tx)[n][id][at] =
                 IF at <= Len(tx) /\ tx[at] < 2 THEN at + 1 ELSE Refused
  <2>1. id \in TypeIds /\ TypeOf(spec, id) = Token(2)
    BY TypesAre DEF TypeIds
  <2>2. Measure(spec, tx)[n][id][at] = Visit(spec, tx, Measure(spec, tx)[n - 1], id, at)
    BY <2>1, MeasureVisits
  <2> QED BY <2>1, <2>2, VisitToken
<1> QED BY <1>2, <1>3

\* So many bytes, if there are as many.
LEMMA BytesEnd ==
    ASSUME NEW spec, NEW tx \in Seq(Tokens), NEW at \in Positions(tx),
           NEW n \in 1 .. MAX_NESTING + 1
    PROVE  Measure(spec, tx)[n]["bytes"][at] =
               IF /\ at <= Len(tx)
                  /\ at + tx[at] <= Len(tx)
                  /\ tx[at] > 0 => n > 1
               THEN at + 1 + tx[at] ELSE Refused
<1> DEFINE M == Measure(spec, tx)
           k == tx[at]
           bytes == [i \in 1 .. k |-> "byte"]
           ends == Through(M[n - 1], bytes, at + 1)
           End(i) == IF at + i <= Len(tx) /\ (i > 0 => n > 1) THEN at + 1 + i ELSE Refused
           S == {i \in Nat : i <= k => ends[i] = End(i)}
<1>1. M[n]["bytes"][at] = IF at <= Len(tx) THEN ends[k] ELSE Refused
  <2>1. "bytes" \in TypeIds /\ TypeOf(spec, "bytes") = Sequence("byte")
    BY TypesAre DEF TypeIds
  <2>2. M[n]["bytes"][at] = Visit(spec, tx, M[n - 1], "bytes", at)
    BY <2>1, MeasureVisits
  <2> HIDE DEF M
  <2>3. Visit(spec, tx, M[n - 1], "bytes", at) = IF at <= Len(tx) THEN ends[k] ELSE Refused
    BY <2>1, VisitSequence
  <2> QED BY <2>2, <2>3
<1>2. CASE at <= Len(tx)
  <2>1. k \in Nat /\ at \in Nat /\ Len(tx) \in Nat
    BY <1>2 DEF Tokens, Positions
  <2> HIDE DEF M, k
  <2>2. /\ ends[0] = at + 1
        /\ \A i \in 1 .. k : ends[i] = IF ends[i - 1] = Refused THEN Refused
                                       ELSE M[n - 1]["byte"][ends[i - 1]]
    <3>1. Len(bytes) = k /\ \A i \in 1 .. k : bytes[i] = "byte"
      BY <2>1
    <3> HIDE DEF bytes
    <3>2. ends[0] = at + 1
      BY <2>1, <3>1, ThroughStarts
    <3>3. ASSUME NEW i \in 1 .. k
          PROVE  ends[i] = IF ends[i - 1] = Refused THEN Refused
                           ELSE M[n - 1]["byte"][ends[i - 1]]
      <4>1. Len(bytes) \in Nat /\ i \in 1 .. Len(bytes) /\ bytes[i] = "byte"
        BY <2>1, <3>1
      <4>2. ends[i] = IF ends[i - 1] = Refused THEN Refused
                      ELSE M[n - 1][bytes[i]][ends[i - 1]]
        BY <4>1, ThroughSteps
      <4> QED BY <4>1, <4>2
    <3> QED BY <3>2, <3>3
  <2>3. \A p \in Positions(tx) :
            M[n - 1]["byte"][p] = IF n > 1 /\ p <= Len(tx) THEN p + 1 ELSE Refused
    <3>1. CASE n = 1
      <4>1. "byte" \in TypeIds
        BY DEF TypeIds
      <4> QED BY <3>1, <4>1, MeasureNone DEF M
    <3>2. CASE n > 1
      <4>1. n - 1 \in 1 .. MAX_NESTING + 1
        BY <3>2, NestingAssumption
      <4> QED BY <3>2, <4>1, TokensEnd DEF M
    <3> QED BY <3>1, <3>2, NestingAssumption
  <2> HIDE DEF ends, bytes
  <2>4. 0 \in S
    BY <1>2, <2>1, <2>2
  <2>5. ASSUME NEW i \in S PROVE i + 1 \in S
    <3> SUFFICES ASSUME i + 1 <= k PROVE ends[i + 1] = End(i + 1)
      OBVIOUS
    <3>1. ends[i] = End(i) /\ i \in Nat /\ i + 1 \in 1 .. k
      BY <2>1
    <3>2. ends[i + 1] = IF ends[i] = Refused THEN Refused ELSE M[n - 1]["byte"][ends[i]]
      BY <2>2, <3>1
    <3>3. CASE End(i) = Refused
      BY <2>1, <3>1, <3>2, <3>3 DEF Refused
    <3>4. CASE End(i) # Refused
      <4>1. ends[i] = at + 1 + i /\ at + i <= Len(tx) /\ ends[i] \in Positions(tx)
        BY <2>1, <3>1, <3>4 DEF Positions, Refused
      <4>2. ends[i + 1] = IF n > 1 /\ at + 1 + i <= Len(tx) THEN at + 2 + i ELSE Refused
        BY <2>1, <2>3, <3>1, <3>2, <3>4, <4>1
      <4> QED BY <2>1, <3>1, <4>2
    <3> QED BY <3>3, <3>4
  <2>6. S = Nat
    <3> HIDE DEF S
    <3> QED BY <2>4, <2>5, SetInduction DEF S
  <2>7. ends[k] = End(k)
    BY <2>1, <2>6
  <2> QED BY <1>1, <1>2, <2>7 DEF k, M, ends, bytes
<1>3. CASE ~(at <= Len(tx))
  BY <1>1, <1>3
<1> QED BY <1>2, <1>3

-----------------------------------------------------------------------------
(* Calls.                                                                  *)

\* A pallet, or a call of a pallet, that is the only one.
LEMMA VisitOnly ==
    ASSUME NEW spec, NEW tx \in Seq(Tokens), NEW nested, NEW id,
           NEW at \in Positions(tx), NEW inner, TypeOf(spec, id) = Variant(<< <<inner>> >>)
    PROVE  Visit(spec, tx, nested, id, at) =
               IF at <= Len(tx) /\ tx[at] = 0 THEN nested[inner][at + 1] ELSE Refused
<1> DEFINE cases == << <<inner>> >>
           End(i) == Through(nested, cases[i], at + 1)[Len(cases[i])]
<1>1. at \in Nat /\ at + 1 # Refused /\ (at <= Len(tx) => tx[at] \in Nat)
  BY PositionIs
<1>2. End(1) = nested[inner][at + 1]
  <2>1. cases[1] = <<inner>>
    OBVIOUS
  <2>2. Through(nested, <<inner>>, at + 1)[Len(<<inner>>)] = nested[inner][at + 1]
    BY <1>1, ThroughOne
  <2> HIDE DEF cases
  <2> QED BY <2>1, <2>2
<1>3. Visit(spec, tx, nested, id, at) =
          IF at <= Len(tx) /\ tx[at] < 1 THEN End(tx[at] + 1) ELSE Refused
  <2>1. TypeOf(spec, id) = Variant(cases) /\ Len(cases) = 1
    OBVIOUS
  <2> HIDE DEF cases
  <2>2. Visit(spec, tx, nested, id, at) =
            IF at <= Len(tx) /\ tx[at] < Len(cases) THEN End(tx[at] + 1) ELSE Refused
    BY <2>1, VisitVariant
  <2> HIDE DEF End
  <2> QED BY <2>1, <2>2
<1> HIDE DEF End
<1> QED BY <1>1, <1>2, <1>3

\* One of two.
LEMMA VisitEither ==
    ASSUME NEW spec, NEW tx \in Seq(Tokens), NEW nested, NEW id, NEW at \in Positions(tx),
           NEW first, NEW second, TypeOf(spec, id) = Variant(<< <<first>>, <<second>> >>)
    PROVE  Visit(spec, tx, nested, id, at) =
               IF at <= Len(tx) /\ tx[at] = 0 THEN nested[first][at + 1]
               ELSE IF at <= Len(tx) /\ tx[at] = 1 THEN nested[second][at + 1]
               ELSE Refused
<1> DEFINE cases == << <<first>>, <<second>> >>
           End(i) == Through(nested, cases[i], at + 1)[Len(cases[i])]
<1>1. at \in Nat /\ at + 1 # Refused /\ (at <= Len(tx) => tx[at] \in Nat)
  BY PositionIs
<1>2. End(1) = nested[first][at + 1] /\ End(2) = nested[second][at + 1]
  <2>1. cases[1] = <<first>> /\ cases[2] = <<second>>
    OBVIOUS
  <2>2. /\ Through(nested, <<first>>, at + 1)[Len(<<first>>)] = nested[first][at + 1]
        /\ Through(nested, <<second>>, at + 1)[Len(<<second>>)] = nested[second][at + 1]
    BY <1>1, ThroughOne
  <2> HIDE DEF cases
  <2> QED BY <2>1, <2>2
<1>3. Visit(spec, tx, nested, id, at) =
          IF at <= Len(tx) /\ tx[at] < 2 THEN End(tx[at] + 1) ELSE Refused
  <2>1. TypeOf(spec, id) = Variant(cases) /\ Len(cases) = 2
    OBVIOUS
  <2> HIDE DEF cases
  <2>2. Visit(spec, tx, nested, id, at) =
            IF at <= Len(tx) /\ tx[at] < Len(cases) THEN End(tx[at] + 1) ELSE Refused
    BY <2>1, VisitVariant
  <2> HIDE DEF End
  <2> QED BY <2>1, <2>2
<1> HIDE DEF End
<1> QED BY <1>1, <1>2, <1>3

\* A call with fewer than three levels ends nowhere, and with more it is a remark
\* or a batch of calls three levels below.
LEMMA CallWalk ==
    ASSUME NEW spec, NEW tx \in Seq(Tokens), NEW at \in Positions(tx),
           NEW n \in 0 .. MAX_NESTING + 1
    PROVE  Measure(spec, tx)[n]["call"][at] =
               IF n < 3 \/ at + 2 > Len(tx) THEN Refused
               ELSE IF tx[at] = 0 /\ tx[at + 1] = 0
                    THEN IF at + 2 + tx[at + 2] <= Len(tx) /\ (tx[at + 2] > 0 => n > 3)
                         THEN at + 3 + tx[at + 2] ELSE Refused
               ELSE IF tx[at] = 1 /\ tx[at + 1] = 0
                    THEN Through(Measure(spec, tx)[n - 3],
                                 [i \in 1 .. tx[at + 2] |-> "call"], at + 3)[tx[at + 2]]
               ELSE Refused
<1> DEFINE M == Measure(spec, tx)
           Calls(l, p) == Through(M[l - 1], [i \in 1 .. tx[p] |-> "call"], p + 1)[tx[p]]
<1>1. /\ {"call", "system", "utility", "bytes", "calls"} \subseteq TypeIds
      /\ TypeOf(spec, "call") = Variant(<< <<"system">>, <<"utility">> >>)
      /\ TypeOf(spec, "system") = Variant(<< <<"bytes">> >>)
      /\ TypeOf(spec, "utility") = Variant(<< <<"calls">> >>)
      /\ TypeOf(spec, "calls") = Sequence("call")
  BY TypesAre DEF TypeIds
<1>2. at \in Nat \ {0} /\ Len(tx) \in Nat /\ n \in Nat
  BY DEF Positions
<1>3. ASSUME NEW l \in 1 .. MAX_NESTING + 1, NEW p \in Positions(tx)
      PROVE  /\ M[l]["call"][p] = IF p <= Len(tx) /\ tx[p] = 0 THEN M[l - 1]["system"][p + 1]
                                  ELSE IF p <= Len(tx) /\ tx[p] = 1
                                       THEN M[l - 1]["utility"][p + 1]
                                  ELSE Refused
             /\ M[l]["system"][p] = IF p <= Len(tx) /\ tx[p] = 0
                                    THEN M[l - 1]["bytes"][p + 1] ELSE Refused
             /\ M[l]["utility"][p] = IF p <= Len(tx) /\ tx[p] = 0
                                     THEN M[l - 1]["calls"][p + 1] ELSE Refused
             /\ M[l]["calls"][p] = IF p <= Len(tx) THEN Calls(l, p) ELSE Refused
  <2> DEFINE w == M[l - 1]
  <2>1. \A id \in {"call", "system", "utility", "calls"} :
            M[l][id][p] = Visit(spec, tx, w, id, p)
    BY <1>1, MeasureVisits
  <2> HIDE DEF M, w
  <2>2. Visit(spec, tx, w, "call", p) = IF p <= Len(tx) /\ tx[p] = 0 THEN w["system"][p + 1]
                                        ELSE IF p <= Len(tx) /\ tx[p] = 1
                                             THEN w["utility"][p + 1]
                                        ELSE Refused
    BY <1>1, VisitEither
  <2>3. /\ Visit(spec, tx, w, "system", p) = IF p <= Len(tx) /\ tx[p] = 0
                                             THEN w["bytes"][p + 1] ELSE Refused
        /\ Visit(spec, tx, w, "utility", p) = IF p <= Len(tx) /\ tx[p] = 0
                                              THEN w["calls"][p + 1] ELSE Refused
    BY <1>1, VisitOnly
  <2>4. Visit(spec, tx, w, "calls", p) = IF p <= Len(tx) THEN Calls(l, p) ELSE Refused
    BY <1>1, VisitSequence DEF w
  <2> HIDE DEF Calls
  <2>5. \A id \in {"call", "system", "utility", "calls"} :
            M[l][id][p] = Visit(spec, tx, M[l - 1], id, p)
    BY <2>1 DEF w
  <2> QED BY <2>2, <2>3, <2>4, <2>5 DEF w
<1>4. \A p \in Positions(tx) : \A id \in {"call", "system", "utility", "bytes", "calls"} :
          M[0][id][p] = Refused
  BY <1>1, MeasureNone
<1>5. \A p \in Positions(tx) : p <= Len(tx) => p + 1 \in Positions(tx)
  BY DEF Positions
<1>6. ASSUME NEW l \in 1 .. MAX_NESTING + 1, NEW p \in Positions(tx)
      PROVE  M[l]["bytes"][p] =
                 IF p <= Len(tx) /\ p + tx[p] <= Len(tx) /\ (tx[p] > 0 => l > 1)
                 THEN p + 1 + tx[p] ELSE Refused
  BY BytesEnd
<1> HIDE DEF M, Calls
<1>7. CASE n < 3
  <2>1. CASE n = 0
    BY <1>4, <1>7, <2>1 DEF M
  <2>2. CASE n = 1
    BY <1>3, <1>4, <1>5, <1>7, <2>2, NestingAssumption DEF M
  <2>3. CASE n = 2
    <3>1. \A p \in Positions(tx) : \A id \in {"system", "utility"} : M[1][id][p] = Refused
      BY <1>3, <1>4, <1>5, NestingAssumption
    <3> QED BY <1>3, <1>5, <1>7, <2>3, <3>1, NestingAssumption DEF M
  <2> QED BY <1>2, <1>7, <2>1, <2>2, <2>3
<1>8. CASE ~(n < 3)
  <2>1. n \in 1 .. MAX_NESTING + 1 /\ n - 1 \in 1 .. MAX_NESTING + 1
        /\ n - 2 \in 1 .. MAX_NESTING + 1 /\ n - 1 - 1 = n - 2 /\ n - 2 - 1 = n - 3
    BY <1>2, <1>8, NestingAssumption
  <2>2. CASE at > Len(tx)
    BY <1>2, <1>3, <2>1, <2>2 DEF M
  <2>3. CASE at = Len(tx)
    <3>1. at + 1 \in Positions(tx) /\ ~(at + 1 <= Len(tx))
      BY <1>2, <2>3 DEF Positions
    <3>2. \A id \in {"system", "utility"} : M[n - 1][id][at + 1] = Refused
      BY <1>3, <2>1, <3>1
    <3>3. M[n]["call"][at] = IF at <= Len(tx) /\ tx[at] = 0 THEN M[n - 1]["system"][at + 1]
                             ELSE IF at <= Len(tx) /\ tx[at] = 1
                                  THEN M[n - 1]["utility"][at + 1]
                             ELSE Refused
      BY <1>3, <2>1
    <3>4. M[n]["call"][at] = Refused
      BY <3>2, <3>3
    <3> QED BY <1>2, <2>3, <3>4 DEF M
  <2>4. CASE at = Len(tx) - 1
    <3>1. at + 1 \in Positions(tx) /\ at + 2 \in Positions(tx) /\ ~(at + 2 <= Len(tx))
      BY <1>2, <2>4 DEF Positions
    <3>2. \A id \in {"bytes", "calls"} : M[n - 2][id][at + 2] = Refused
      BY <1>3, <1>6, <2>1, <3>1
    <3>3. \A id \in {"system", "utility"} : M[n - 1][id][at + 1] = Refused
      BY <1>2, <1>3, <2>1, <3>1, <3>2
    <3> QED BY <1>2, <1>3, <2>1, <2>4, <3>3 DEF M
  <2>5. CASE at + 2 <= Len(tx)
    <3>1. at + 1 \in Positions(tx) /\ at + 2 \in Positions(tx)
          /\ at <= Len(tx) /\ at + 1 <= Len(tx)
      BY <1>2, <2>5 DEF Positions
    <3>2. M[n]["call"][at] = IF tx[at] = 0 THEN M[n - 1]["system"][at + 1]
                             ELSE IF tx[at] = 1 THEN M[n - 1]["utility"][at + 1]
                             ELSE Refused
      BY <1>3, <2>1, <3>1
    <3>3. /\ M[n - 1]["system"][at + 1] =
                 IF tx[at + 1] = 0 THEN M[n - 2]["bytes"][at + 2] ELSE Refused
          /\ M[n - 1]["utility"][at + 1] =
                 IF tx[at + 1] = 0 THEN M[n - 2]["calls"][at + 2] ELSE Refused
      BY <1>2, <1>3, <2>1, <3>1
    <3>4. M[n - 2]["calls"][at + 2] =
              Through(M[n - 3], [i \in 1 .. tx[at + 2] |-> "call"], at + 3)[tx[at + 2]]
      <4>1. M[n - 2]["calls"][at + 2] = Calls(n - 2, at + 2) /\ at + 2 + 1 = at + 3
        BY <1>2, <1>3, <2>1, <2>5, <3>1
      <4> QED BY <2>1, <4>1 DEF Calls
    <3>5. M[n - 2]["bytes"][at + 2] =
              IF at + 2 + tx[at + 2] <= Len(tx) /\ (tx[at + 2] > 0 => n > 3)
              THEN at + 3 + tx[at + 2] ELSE Refused
      <4>1. tx[at + 2] \in Nat
        BY <1>2, <2>5, <3>1 DEF Tokens
      <4> QED BY <1>2, <1>6, <2>1, <2>5, <3>1, <4>1
    <3> DEFINE calls == Through(M[n - 3], [i \in 1 .. tx[at + 2] |-> "call"], at + 3)[tx[at + 2]]
    <3> HIDE DEF calls
    <3>6. M[n - 2]["calls"][at + 2] = calls
      BY <3>4 DEF calls
    <3>7. M[n]["call"][at] =
              IF tx[at] = 0 /\ tx[at + 1] = 0
              THEN IF at + 2 + tx[at + 2] <= Len(tx) /\ (tx[at + 2] > 0 => n > 3)
                   THEN at + 3 + tx[at + 2] ELSE Refused
              ELSE IF tx[at] = 1 /\ tx[at + 1] = 0 THEN calls ELSE Refused
      BY <3>2, <3>3, <3>5, <3>6
    <3> QED BY <1>2, <1>8, <2>5, <3>7 DEF calls, M
  <2> QED BY <1>2, <2>2, <2>3, <2>4, <2>5
<1> QED BY <1>7, <1>8

\* A walk and a set of ends: at most one value ends, and the walk finds it.
AgreeAt(tx, end, set) == end \in Positions(tx) \cup {Refused} /\ set = {end} \ {Refused}

Agree(tx, ends, sets) == \A p \in Positions(tx) : AgreeAt(tx, ends[p], sets[p])

\* Walking over k values in a row, and collecting where they can end.
Walks(at, ends, k, from) ==
    /\ at[0] = from
    /\ \A i \in 1 .. k : at[i] = IF at[i - 1] = Refused THEN Refused ELSE ends[at[i - 1]]

Collects(after, sets, k, from) ==
    /\ after[0] = {from}
    /\ \A i \in 1 .. k : after[i] = UNION {sets[p] : p \in after[i - 1]}

\* A walk over a sequence of values of one type.
LEMMA ThroughWalks ==
    ASSUME NEW ends, NEW id, NEW k \in Nat, NEW from, NEW ids, Len(ids) = k,
           \A i \in 1 .. k : ids[i] = id
    PROVE  Walks(Through(ends, ids, from), ends[id], k, from)
<1>1. Through(ends, ids, from)[0] = from
  BY ThroughStarts
<1>2. ASSUME NEW i \in 1 .. k
      PROVE  Through(ends, ids, from)[i] =
                 IF Through(ends, ids, from)[i - 1] = Refused THEN Refused
                 ELSE ends[id][Through(ends, ids, from)[i - 1]]
  <2>1. Len(ids) \in Nat /\ i \in 1 .. Len(ids) /\ ids[i] = id
    OBVIOUS
  <2>2. Through(ends, ids, from)[i] =
            IF Through(ends, ids, from)[i - 1] = Refused THEN Refused
            ELSE ends[ids[i]][Through(ends, ids, from)[i - 1]]
    BY <2>1, ThroughSteps
  <2> QED BY <2>1, <2>2
<1> QED BY <1>1, <1>2 DEF Walks

\* Values of one kind are collected one by one.
LEMMA AfterManyCollects ==
    ASSUME NEW sets, NEW from, NEW k \in Nat
    PROVE  Collects(AfterMany(sets, k, from), sets, k, from)
<1>1. AfterMany(sets, k, from)[0] = {from}
  BY AfterManyStarts
<1>2. ASSUME NEW i \in 1 .. k
      PROVE  AfterMany(sets, k, from)[i] =
                 UNION {sets[p] : p \in AfterMany(sets, k, from)[i - 1]}
  BY AfterManyIs
<1> QED BY <1>1, <1>2 DEF Collects

\* As many values in a row end in one place or in none.
LEMMA RowsAgree ==
    ASSUME NEW tx, NEW ends, NEW sets, NEW at, NEW after, NEW k, NEW from,
           k \in Nat, from \in Positions(tx), Agree(tx, ends, sets),
           Walks(at, ends, k, from), Collects(after, sets, k, from)
    PROVE  AgreeAt(tx, at[k], after[k])
<1> DEFINE Same(i) == at[i] \in Positions(tx) \cup {Refused} /\ after[i] = {at[i]} \ {Refused}
           S == {i \in Nat : i <= k => Same(i)}
<1>1. at[0] = from /\ after[0] = {from}
  BY DEF Walks, Collects
<1>2. ASSUME NEW i \in 1 .. k
      PROVE  /\ at[i] = IF at[i - 1] = Refused THEN Refused ELSE ends[at[i - 1]]
             /\ after[i] = UNION {sets[p] : p \in after[i - 1]}
  BY DEF Walks, Collects
<1>4. 0 \in S
  BY <1>1 DEF Positions, Refused
<1>5. ASSUME NEW i \in S PROVE i + 1 \in S
  <2> SUFFICES ASSUME i + 1 <= k PROVE Same(i + 1)
    OBVIOUS
  <2>1. Same(i) /\ i + 1 \in 1 .. k
    OBVIOUS
  <2>2. at[i + 1] = IF at[i] = Refused THEN Refused ELSE ends[at[i]]
    BY <1>2, <2>1
  <2>3. after[i + 1] = UNION {sets[p] : p \in after[i]}
    BY <1>2, <2>1
  <2>4. CASE at[i] = Refused
    BY <2>1, <2>2, <2>3, <2>4
  <2>5. CASE at[i] # Refused
    <3>1. after[i] = {at[i]} /\ at[i] \in Positions(tx)
      BY <2>1, <2>5
    <3>2. after[i + 1] = sets[at[i]]
      BY <2>3, <3>1
    <3> QED BY <2>2, <2>5, <3>1, <3>2 DEF Agree, AgreeAt
  <2> QED BY <2>4, <2>5
<1>6. S = Nat
  <2> HIDE DEF S
  <2> QED BY <1>4, <1>5, SetInduction DEF S
<1>7. Same(k)
  BY <1>6
<1> QED BY <1>7 DEF AgreeAt

\* The walk finds the end of every call that the grammar allows, and of no other,
\* with however many levels left to nest in (Measure, fuel_tank.rs:156-263).
THEOREM CallsAgree ==
    ASSUME NEW spec, NEW tx \in Seq(Tokens), NEW at \in Positions(tx),
           NEW n \in 0 .. MAX_NESTING + 1
    PROVE  /\ Measure(spec, tx)[n]["call"][at] \in Positions(tx) \cup {Refused}
           /\ CallEnds(tx)[n][at] = {Measure(spec, tx)[n]["call"][at]} \ {Refused}
<1> DEFINE M == Measure(spec, tx)
           C == CallEnds(tx)
           Same(l) == Agree(tx, M[l]["call"], C[l])
           S == {m \in Nat : \A l \in 0 .. m : l <= MAX_NESTING + 1 => Same(l)}
<1>1. ASSUME NEW l \in 0 .. MAX_NESTING + 1, l < 3 PROVE Same(l)
  <2> SUFFICES ASSUME NEW p \in Positions(tx) PROVE M[l]["call"][p] = Refused /\ C[l][p] = {}
    BY DEF Agree, AgreeAt
  <2>1. M[l]["call"][p] = Refused
    BY <1>1, CallWalk
  <2>2. C[l][p] = {}
    BY <1>1, CallEndsIs DEF CALL_LEVELS
  <2> QED BY <2>1, <2>2
<1>2. ASSUME NEW l \in 3 .. MAX_NESTING + 1, Same(l - 3) PROVE Same(l)
  <2> SUFFICES ASSUME NEW p \in Positions(tx)
               PROVE  /\ M[l]["call"][p] \in Positions(tx) \cup {Refused}
                      /\ C[l][p] = {M[l]["call"][p]} \ {Refused}
    BY DEF Agree, AgreeAt
  <2> DEFINE k == tx[p + 2]
             calls == [i \in 1 .. k |-> "call"]
             row == Through(M[l - 3], calls, p + 3)[k]
  <2>1. /\ l \in 0 .. MAX_NESTING + 1 /\ ~(l < 3) /\ l \in Nat
        /\ p \in Nat \ {0} /\ Len(tx) \in Nat
    BY DEF Positions
  <2>2. M[l]["call"][p] =
            IF p + 2 > Len(tx) THEN Refused
            ELSE IF tx[p] = 0 /\ tx[p + 1] = 0
                 THEN IF p + 2 + k <= Len(tx) /\ (k > 0 => l > 3) THEN p + 3 + k ELSE Refused
            ELSE IF tx[p] = 1 /\ tx[p + 1] = 0 THEN row
            ELSE Refused
    BY <2>1, CallWalk
  <2>3. C[l][p] = RemarkEnds(tx, l, p) \cup BatchEnds(tx, C[l - 3], p)
    BY <2>1, CallEndsIs DEF CALL_LEVELS
  <2>4. CASE p + 2 > Len(tx)
    <3>1. C[l][p] = {}
      BY <2>1, <2>3, <2>4 DEF RemarkEnds, BatchEnds
    <3> QED BY <2>2, <2>4, <3>1
  <2>5. CASE p + 2 <= Len(tx)
    <3>1. k \in Nat /\ p + 3 \in Positions(tx)
      BY <2>1, <2>5 DEF Tokens, Positions
    <3>2. CASE tx[p] = 0 /\ tx[p + 1] = 0
      <4>1. BatchEnds(tx, C[l - 3], p) = {}
        BY <3>2 DEF BatchEnds
      <4>2. RemarkEnds(tx, l, p) =
                IF p + 2 + k <= Len(tx) /\ (k > 0 => l > 3) THEN {p + 3 + k} ELSE {}
        BY <2>1, <2>5, <3>1, <3>2 DEF RemarkEnds, CALL_LEVELS, Positions
      <4> HIDE DEF M, C, k
      <4>3. CASE p + 2 + k <= Len(tx) /\ (k > 0 => l > 3)
        <5>1. M[l]["call"][p] = p + 3 + k /\ C[l][p] = {p + 3 + k}
          BY <2>1, <2>2, <2>3, <2>5, <3>2, <4>1, <4>2, <4>3
        <5> QED BY <2>1, <3>1, <4>3, <5>1 DEF Positions, Refused
      <4>4. CASE ~(p + 2 + k <= Len(tx) /\ (k > 0 => l > 3))
        <5>1. M[l]["call"][p] = Refused /\ C[l][p] = {}
          BY <2>1, <2>2, <2>3, <2>5, <3>2, <4>1, <4>2, <4>4
        <5> QED BY <5>1
      <4> QED BY <4>3, <4>4
    <3>3. CASE tx[p] = 1 /\ tx[p + 1] = 0
      <4>1. RemarkEnds(tx, l, p) = {}
        BY <3>3 DEF RemarkEnds
      <4>2. BatchEnds(tx, C[l - 3], p) = AfterMany(C[l - 3], k, p + 3)[k]
        BY <2>5, <3>3 DEF BatchEnds
      <4>3. /\ row \in Positions(tx) \cup {Refused}
            /\ AfterMany(C[l - 3], k, p + 3)[k] = {row} \ {Refused}
        <5> DEFINE walk == Through(M[l - 3], calls, p + 3)
                   after == AfterMany(C[l - 3], k, p + 3)
                   ends == M[l - 3]["call"]
                   sets == C[l - 3]
        <5>1. Len(calls) = k /\ \A i \in 1 .. k : calls[i] = "call"
          BY <3>1
        <5> HIDE DEF M, C, k, calls
        <5>2. Walks(walk, ends, k, p + 3)
          BY <3>1, <5>1, ThroughWalks
        <5>3. Collects(after, sets, k, p + 3)
          BY <3>1, AfterManyCollects
        <5>4. Agree(tx, ends, sets)
          BY <1>2
        <5> HIDE DEF walk, after, ends, sets
        <5>5. AgreeAt(tx, walk[k], after[k])
          BY <3>1, <5>2, <5>3, <5>4, RowsAgree
        <5> QED BY <5>5 DEF AgreeAt, walk, after
      <4> HIDE DEF M, C, row
      <4>4. M[l]["call"][p] = row
        BY <2>1, <2>2, <2>5, <3>3
      <4> QED BY <2>3, <4>1, <4>2, <4>3, <4>4
    <3>4. CASE ~(tx[p] \in {0, 1} /\ tx[p + 1] = 0)
      <4>1. RemarkEnds(tx, l, p) = {} /\ BatchEnds(tx, C[l - 3], p) = {}
        BY <3>4 DEF RemarkEnds, BatchEnds
      <4> HIDE DEF M, C, row
      <4>2. M[l]["call"][p] = Refused
        BY <2>1, <2>2, <2>5, <3>4
      <4> QED BY <2>3, <4>1, <4>2
    <3> QED BY <3>2, <3>3, <3>4
  <2> QED BY <2>1, <2>4, <2>5
<1> HIDE DEF Same
<1>3. 0 \in S
  BY <1>1, NestingAssumption
<1>4. ASSUME NEW m \in S PROVE m + 1 \in S
  <2> SUFFICES ASSUME m + 1 <= MAX_NESTING + 1 PROVE Same(m + 1)
    OBVIOUS
  <2>1. CASE m + 1 < 3
    BY <1>1, <2>1, NestingAssumption
  <2>2. CASE ~(m + 1 < 3)
    <3>1. m + 1 \in 3 .. MAX_NESTING + 1 /\ m + 1 - 3 \in 0 .. m /\ m + 1 - 3 <= MAX_NESTING + 1
      BY <2>2, NestingAssumption
    <3>2. Same(m + 1 - 3)
      BY <3>1
    <3> QED BY <1>2, <3>1, <3>2
  <2> QED BY <2>1, <2>2
<1>5. S = Nat
  <2> HIDE DEF S
  <2> QED BY <1>3, <1>4, SetInduction DEF S
<1>6. Same(n)
  <2>1. n \in Nat /\ n \in 0 .. n /\ n <= MAX_NESTING + 1
    BY NestingAssumption
  <2> QED BY <1>5, <2>1
<1> QED BY <1>6 DEF Same, Agree, AgreeAt

-----------------------------------------------------------------------------
(* The settings.                                                           *)

\* The expiry block follows the 64 bytes.
LEMMA SignatureEnds ==
    ASSUME NEW spec, NEW tx \in Seq(Tokens), NEW at \in Positions(tx),
           NEW n \in 3 .. MAX_NESTING + 1
    PROVE  Measure(spec, tx)[n]["signature"][at] =
               IF spec = Retyped
               THEN IF at <= Len(tx) /\ tx[at] < 2 THEN at + 1 ELSE Refused
               ELSE IF at <= Len(tx) /\ tx[at] = 0 THEN at + 1
               ELSE IF at + 2 <= Len(tx) /\ tx[at] = 1 THEN at + 3
               ELSE Refused
<1> DEFINE M == Measure(spec, tx)
<1>1. /\ n \in 1 .. MAX_NESTING + 1 /\ n - 1 \in 1 .. MAX_NESTING + 1
      /\ n - 2 \in 1 .. MAX_NESTING + 1 /\ n - 1 - 1 = n - 2
      /\ at \in Nat \ {0} /\ Len(tx) \in Nat
  BY NestingAssumption DEF Positions
<1>2. "signature" \in TypeIds /\ "expirable" \in TypeIds
  BY DEF TypeIds
<1>3. M[n]["signature"][at] = Visit(spec, tx, M[n - 1], "signature", at)
  BY <1>1, <1>2, MeasureVisits
<1>4. CASE spec = Retyped
  <2>1. TypeOf(spec, "signature") = Token(2)
    BY <1>4, TypesAre
  <2>2. Visit(spec, tx, M[n - 1], "signature", at) =
            IF at <= Len(tx) /\ tx[at] < 2 THEN at + 1 ELSE Refused
    BY <2>1, VisitToken
  <2> QED BY <1>3, <1>4, <2>2
<1>5. CASE spec # Retyped
  <2>1. TypeOf(spec, "signature") = OptionOf("expirable")
    BY <1>5, TypesAre
  <2>2. Visit(spec, tx, M[n - 1], "signature", at) =
            IF at <= Len(tx) /\ tx[at] = 0 THEN at + 1
            ELSE IF at <= Len(tx) /\ tx[at] = 1 THEN M[n - 1]["expirable"][at + 1]
            ELSE Refused
    BY <2>1, VisitOption
  <2>3. ASSUME at <= Len(tx)
        PROVE  M[n - 1]["expirable"][at + 1] = IF at + 2 <= Len(tx) THEN at + 3 ELSE Refused
    <3> DEFINE both == <<"bytes64", "u32">>
               ends == Through(M[n - 2], both, at + 1)
    <3>1. at + 1 \in Positions(tx)
      BY <1>1, <2>3 DEF Positions
    <3>2. Len(both) = 2 /\ both[1] = "bytes64" /\ both[2] = "u32"
      OBVIOUS
    <3>3. TypeOf(spec, "expirable") = Composite(both)
      BY TypesAre
    <3>4. M[n - 1]["expirable"][at + 1] = Visit(spec, tx, M[n - 2], "expirable", at + 1)
      <4>1. n \in 2 .. MAX_NESTING + 1
        BY <1>1, NestingAssumption
      <4> QED BY <1>2, <3>1, <4>1, MeasureVisitsBelow
    <3>5. \A id \in {"bytes64", "u32"} : \A p \in Positions(tx) :
              M[n - 2][id][p] = IF p <= Len(tx) THEN p + 1 ELSE Refused
      BY <1>1, TokensEnd
    <3> HIDE DEF both, M
    <3>6. M[n - 1]["expirable"][at + 1] = ends[2]
      <4>1. Visit(spec, tx, M[n - 2], "expirable", at + 1) = ends[Len(both)]
        BY <3>3, VisitComposite
      <4> QED BY <3>2, <3>4, <4>1
    <3>7. ends[0] = at + 1
      BY <3>2, ThroughStarts
    <3>8. \A i \in 1 .. 2 : ends[i] = IF ends[i - 1] = Refused THEN Refused
                                      ELSE M[n - 2][both[i]][ends[i - 1]]
      <4>1. Len(both) \in Nat
        BY <3>2
      <4> TAKE i \in 1 .. 2
      <4>2. i \in 1 .. Len(both)
        BY <3>2
      <4> QED BY <4>1, <4>2, ThroughSteps
    <3> HIDE DEF ends
    <3>9. ends[1] = IF at + 1 <= Len(tx) THEN at + 2 ELSE Refused
      <4>1. ends[1] = IF ends[0] = Refused THEN Refused ELSE M[n - 2]["bytes64"][ends[0]]
        BY <3>2, <3>8
      <4> QED BY <1>1, <3>1, <3>5, <3>7, <4>1 DEF Refused
    <3>10. ends[2] = IF at + 2 <= Len(tx) THEN at + 3 ELSE Refused
      <4>1. ends[2] = IF ends[1] = Refused THEN Refused ELSE M[n - 2]["u32"][ends[1]]
        BY <3>2, <3>8
      <4>2. at + 1 <= Len(tx) => at + 2 \in Positions(tx)
        BY <1>1 DEF Positions
      <4> QED BY <1>1, <3>5, <3>9, <4>1, <4>2 DEF Refused
    <3> QED BY <3>6, <3>10
  <2> HIDE DEF M
  <2>4. CASE at <= Len(tx) /\ tx[at] = 1
    BY <1>1, <1>3, <1>5, <2>2, <2>3, <2>4 DEF M
  <2>5. CASE ~(at <= Len(tx) /\ tx[at] = 1)
    BY <1>1, <1>3, <1>5, <2>2, <2>5 DEF M
  <2> QED BY <2>4, <2>5
<1> QED BY <1>4, <1>5

\* How many fields follow the signature.
FieldsAfter(spec) == IF spec = Legacy THEN 0 ELSE IF spec = Extended THEN 2 ELSE 1

\* What the settings' fields from p on read as, with so many tokens of signature.
Reads(spec, tx, p, n) ==
    /\ n \in {1, 3}
    /\ p + n + FieldsAfter(spec) <= Len(tx)
    /\ tx[p] < 2
    /\ IF spec = Retyped THEN n = 1 /\ tx[p + 1] < 2
       ELSE tx[p + 1] = IF n = 1 THEN 0 ELSE 1
    /\ spec # Legacy => tx[p + 1 + n] < 2

\* The fields, in their order.
LEMMA FieldsAre ==
    ASSUME NEW spec
    PROVE  /\ Len(SettingsFields(spec)) = 2 + FieldsAfter(spec)
           /\ SettingsFields(spec)[1] = "use_none_origin"
           /\ SettingsFields(spec)[2] = "signature"
           /\ spec # Legacy => SettingsFields(spec)[3] = "create_account"
           /\ spec = Extended => SettingsFields(spec)[4] = "added"
<1>1. CASE spec = Legacy
  BY <1>1 DEF SettingsFields, FieldsAfter, Legacy, Extended
<1>2. CASE spec = Extended
  BY <1>2 DEF SettingsFields, FieldsAfter, Legacy, Extended
<1>3. CASE spec \notin {Legacy, Extended}
  <2>1. SettingsFields(spec) = <<"use_none_origin", "signature", "create_account">>
    BY <1>3 DEF SettingsFields
  <2>2. FieldsAfter(spec) = 1
    BY <1>3 DEF FieldsAfter
  <2> QED BY <1>3, <2>1, <2>2
<1> QED BY <1>1, <1>2, <1>3

\* The walk over the fields, field by field, whatever level is left.
LEMMA FieldByField ==
    ASSUME NEW spec, NEW tx \in Seq(Tokens), NEW p \in Positions(tx),
           NEW l \in 3 .. MAX_NESTING + 1
    PROVE  LET at == Through(Measure(spec, tx)[l], SettingsFields(spec), p)
               M  == Measure(spec, tx)[l]
           IN  /\ at[0] = p
               /\ at[1] = IF p <= Len(tx) /\ tx[p] < 2 THEN p + 1 ELSE Refused
               /\ at[2] = IF at[1] = Refused THEN Refused ELSE M["signature"][at[1]]
               /\ spec # Legacy =>
                      at[3] = IF at[2] = Refused THEN Refused ELSE M["create_account"][at[2]]
               /\ spec = Extended =>
                      at[4] = IF at[3] = Refused THEN Refused ELSE M["added"][at[3]]
<1> DEFINE M == Measure(spec, tx)[l]
           fields == SettingsFields(spec)
           at == Through(M, fields, p)
<1>1. /\ Len(fields) \in Nat /\ Len(fields) >= 2
      /\ spec # Legacy => Len(fields) >= 3
      /\ spec = Extended => Len(fields) >= 4
  BY FieldsAre DEF FieldsAfter, Legacy, Extended
<1>2. /\ fields[1] = "use_none_origin" /\ fields[2] = "signature"
      /\ spec # Legacy => fields[3] = "create_account"
      /\ spec = Extended => fields[4] = "added"
  BY FieldsAre
<1>3. M["use_none_origin"][p] = IF p <= Len(tx) /\ tx[p] < 2 THEN p + 1 ELSE Refused
  BY TokensEnd, NestingAssumption
<1> HIDE DEF M, fields
<1>4. at[0] = p
  BY <1>1, ThroughStarts
<1>5. ASSUME NEW i \in 1 .. Len(fields)
      PROVE  at[i] = IF at[i - 1] = Refused THEN Refused ELSE M[fields[i]][at[i - 1]]
  BY <1>1, ThroughSteps
<1> HIDE DEF at
<1>6. at[1] = IF p <= Len(tx) /\ tx[p] < 2 THEN p + 1 ELSE Refused
  <2>1. 1 \in 1 .. Len(fields) /\ p # Refused
    BY <1>1 DEF Positions, Refused
  <2>2. at[1] = IF at[0] = Refused THEN Refused ELSE M[fields[1]][at[0]]
    BY <1>5, <2>1
  <2> QED BY <1>2, <1>3, <1>4, <2>1, <2>2
<1>7. at[2] = IF at[1] = Refused THEN Refused ELSE M["signature"][at[1]]
  <2>1. 2 \in 1 .. Len(fields)
    BY <1>1
  <2>2. at[2] = IF at[1] = Refused THEN Refused ELSE M[fields[2]][at[1]]
    BY <1>5, <2>1
  <2> QED BY <1>2, <2>2
<1>8. ASSUME spec # Legacy
      PROVE  at[3] = IF at[2] = Refused THEN Refused ELSE M["create_account"][at[2]]
  <2>1. 3 \in 1 .. Len(fields)
    BY <1>1, <1>8
  <2>2. at[3] = IF at[2] = Refused THEN Refused ELSE M[fields[3]][at[2]]
    BY <1>5, <2>1
  <2> QED BY <1>2, <1>8, <2>2
<1>9. ASSUME spec = Extended
      PROVE  at[4] = IF at[3] = Refused THEN Refused ELSE M["added"][at[3]]
  <2>1. 4 \in 1 .. Len(fields)
    BY <1>1, <1>9
  <2>2. at[4] = IF at[3] = Refused THEN Refused ELSE M[fields[4]][at[3]]
    BY <1>5, <2>1
  <2> QED BY <1>2, <1>9, <2>2
<1> QED BY <1>4, <1>6, <1>7, <1>8, <1>9 DEF at, M, fields

\* The walk over the fields finds what they read as, and refuses all else.
LEMMA FieldsWalk ==
    ASSUME NEW spec, NEW tx \in Seq(Tokens), NEW p \in Positions(tx),
           NEW l \in 3 .. MAX_NESTING + 1
    PROVE  LET at == Through(Measure(spec, tx)[l], SettingsFields(spec), p)
           IN  /\ at[0] = p
               /\ \A n \in {1, 3} : Reads(spec, tx, p, n) =>
                      /\ at[1] = p + 1
                      /\ at[2] = p + 1 + n
                      /\ spec # Legacy => at[3] = p + 2 + n
                      /\ spec = Extended => at[4] = p + 3 + n
               /\ \/ \E n \in {1, 3} : Reads(spec, tx, p, n)
                  \/ at[2 + FieldsAfter(spec)] = Refused
<1> DEFINE M == Measure(spec, tx)[l]
           at == Through(M, SettingsFields(spec), p)
           Signature1(q) == IF spec = Retyped THEN tx[q] < 2 ELSE tx[q] = 0
           Signature3(q) == spec # Retyped /\ tx[q] = 1
<1>1. l \in 1 .. MAX_NESTING + 1
  BY NestingAssumption
<1>2. /\ p \in Nat \ {0} /\ Len(tx) \in Nat
      /\ \A q \in 1 .. Len(tx) : tx[q] \in Nat /\ q \in Positions(tx) /\ q + 1 \in Positions(tx)
  BY DEF Positions, Tokens
<1>3. ASSUME NEW q \in Positions(tx)
      PROVE  /\ M["signature"][q] = IF q <= Len(tx) /\ Signature1(q) THEN q + 1
                                    ELSE IF q + 2 <= Len(tx) /\ Signature3(q) THEN q + 3
                                    ELSE Refused
             /\ M["create_account"][q] = IF q <= Len(tx) /\ tx[q] < 2 THEN q + 1 ELSE Refused
             /\ M["added"][q] = IF q <= Len(tx) THEN q + 1 ELSE Refused
  <2>1. M["signature"][q] =
            IF spec = Retyped
            THEN IF q <= Len(tx) /\ tx[q] < 2 THEN q + 1 ELSE Refused
            ELSE IF q <= Len(tx) /\ tx[q] = 0 THEN q + 1
            ELSE IF q + 2 <= Len(tx) /\ tx[q] = 1 THEN q + 3
            ELSE Refused
    BY SignatureEnds
  <2>2. /\ M["create_account"][q] = IF q <= Len(tx) /\ tx[q] < 2 THEN q + 1 ELSE Refused
        /\ M["added"][q] = IF q <= Len(tx) THEN q + 1 ELSE Refused
    BY <1>1, TokensEnd
  <2> HIDE DEF M
  <2> QED BY <2>1, <2>2
<1>4. /\ at[0] = p
      /\ at[1] = IF p <= Len(tx) /\ tx[p] < 2 THEN p + 1 ELSE Refused
      /\ at[2] = IF at[1] = Refused THEN Refused ELSE M["signature"][at[1]]
      /\ spec # Legacy =>
             at[3] = IF at[2] = Refused THEN Refused ELSE M["create_account"][at[2]]
      /\ spec = Extended =>
             at[4] = IF at[3] = Refused THEN Refused ELSE M["added"][at[3]]
  BY FieldByField
<1>5. Reads(spec, tx, p, 1) <=>
          /\ p + 1 + FieldsAfter(spec) <= Len(tx) /\ tx[p] < 2 /\ Signature1(p + 1)
          /\ spec # Legacy => tx[p + 2] < 2
  BY <1>2 DEF Reads
<1>6. Reads(spec, tx, p, 3) <=>
          /\ p + 3 + FieldsAfter(spec) <= Len(tx) /\ tx[p] < 2 /\ Signature3(p + 1)
          /\ spec # Legacy => tx[p + 4] < 2
  BY <1>2 DEF Reads
<1> HIDE DEF M, at, Signature1, Signature3
<1>7. \A q : ~(Signature1(q) /\ Signature3(q))
  BY DEF Signature1, Signature3
<1>8. CASE ~(p + 1 <= Len(tx) /\ tx[p] < 2)
  <2>1. at[2] = Refused
    BY <1>2, <1>3, <1>4, <1>8
  <2>2. ~Reads(spec, tx, p, 1) /\ ~Reads(spec, tx, p, 3)
    BY <1>2, <1>5, <1>6, <1>8 DEF FieldsAfter
  <2>3. at[2 + FieldsAfter(spec)] = Refused
    BY <1>4, <2>1 DEF FieldsAfter, Legacy, Extended
  <2> QED BY <1>4, <2>2, <2>3 DEF at, M
<1>9. ASSUME NEW n \in {1, 3}, at[2] = p + 1 + n, p + n <= Len(tx),
             Reads(spec, tx, p, n) <=> /\ p + n + FieldsAfter(spec) <= Len(tx)
                                       /\ spec # Legacy => tx[p + 1 + n] < 2
      PROVE  /\ Reads(spec, tx, p, n) => /\ spec # Legacy => at[3] = p + 2 + n
                                         /\ spec = Extended => at[4] = p + 3 + n
             /\ ~Reads(spec, tx, p, n) => at[2 + FieldsAfter(spec)] = Refused
  <2>1. p + 1 + n \in Positions(tx) /\ at[2] # Refused
    BY <1>2, <1>9 DEF Positions, Refused
  <2>2. CASE spec = Legacy
    <3>1. FieldsAfter(spec) = 0 /\ spec # Extended
      BY <2>2 DEF FieldsAfter, Legacy, Extended
    <3>2. Reads(spec, tx, p, n)
      BY <1>2, <1>9, <2>2, <3>1
    <3> QED BY <2>2, <3>1, <3>2
  <2>3. CASE spec # Legacy
    <3>1. at[3] = IF p + 1 + n <= Len(tx) /\ tx[p + 1 + n] < 2 THEN p + 2 + n ELSE Refused
      <4>1. at[3] = M["create_account"][p + 1 + n]
        BY <1>4, <1>9, <2>1, <2>3
      <4> QED BY <1>2, <1>3, <2>1, <4>1
    <3>2. CASE spec # Extended
      <4>1. FieldsAfter(spec) = 1
        BY <2>3, <3>2 DEF FieldsAfter
      <4>2. p + n + FieldsAfter(spec) = p + 1 + n
        BY <1>2, <4>1
      <4>3. /\ Reads(spec, tx, p, n) => at[3] = p + 2 + n
            /\ ~Reads(spec, tx, p, n) => at[3] = Refused
        <5> HIDE DEF Reads
        <5> QED BY <1>9, <2>3, <3>1, <4>2
      <4>4. 2 + FieldsAfter(spec) = 3
        BY <4>1
      <4> QED BY <3>2, <4>3, <4>4
    <3>3. CASE spec = Extended
      <4>1. FieldsAfter(spec) = 2
        BY <2>3, <3>3 DEF FieldsAfter
      <4>2. CASE p + 1 + n <= Len(tx) /\ tx[p + 1 + n] < 2
        <5>1. at[3] = p + 2 + n /\ p + 2 + n \in Positions(tx) /\ at[3] # Refused
          BY <1>2, <3>1, <4>2 DEF Positions, Refused
        <5>2. at[4] = M["added"][p + 2 + n]
          BY <1>4, <3>3, <5>1
        <5>3. at[4] = IF p + 2 + n <= Len(tx) THEN p + 3 + n ELSE Refused
          BY <1>2, <1>3, <5>1, <5>2
        <5>7. p + n + FieldsAfter(spec) = p + 2 + n
          BY <1>2, <4>1
        <5>4. Reads(spec, tx, p, n) => at[3] = p + 2 + n /\ at[4] = p + 3 + n
          BY <1>9, <2>3, <5>1, <5>3, <5>7
        <5>5. ~Reads(spec, tx, p, n) => at[4] = Refused
          BY <1>9, <4>2, <5>3, <5>7
        <5>6. 2 + FieldsAfter(spec) = 4
          BY <4>1
        <5> QED BY <5>4, <5>5, <5>6
      <4>3. CASE ~(p + 1 + n <= Len(tx) /\ tx[p + 1 + n] < 2)
        <5>1. at[4] = Refused
          BY <1>4, <3>1, <3>3, <4>3
        <5> QED BY <1>2, <1>9, <2>3, <4>1, <4>3, <5>1
      <4> QED BY <4>2, <4>3
    <3> QED BY <3>2, <3>3
  <2> QED BY <2>2, <2>3
<1>10. ASSUME p + 1 <= Len(tx), tx[p] < 2
       PROVE  /\ at[1] = p + 1
              /\ at[2] = IF Signature1(p + 1) THEN p + 2
                         ELSE IF p + 3 <= Len(tx) /\ Signature3(p + 1) THEN p + 4
                         ELSE Refused
  <2>1. at[1] = p + 1 /\ p + 1 \in Positions(tx) /\ at[1] # Refused
    BY <1>2, <1>4, <1>10 DEF Refused
  <2>2. at[2] = M["signature"][p + 1]
    BY <1>4, <2>1
  <2> QED BY <1>2, <1>3, <1>10, <2>1, <2>2
<1>11. CASE p + 1 <= Len(tx) /\ tx[p] < 2
  <2>1. CASE Signature1(p + 1)
    <3>1. at[1] = p + 1 /\ at[2] = p + 1 + 1 /\ ~Reads(spec, tx, p, 3)
      BY <1>2, <1>6, <1>7, <1>10, <1>11, <2>1
    <3>2. /\ Reads(spec, tx, p, 1) => /\ spec # Legacy => at[3] = p + 2 + 1
                                      /\ spec = Extended => at[4] = p + 3 + 1
          /\ ~Reads(spec, tx, p, 1) => at[2 + FieldsAfter(spec)] = Refused
      <4>1. Reads(spec, tx, p, 1) <=> /\ p + 1 + FieldsAfter(spec) <= Len(tx)
                                      /\ spec # Legacy => tx[p + 1 + 1] < 2
        BY <1>2, <1>5, <1>11, <2>1
      <4> QED BY <1>9, <1>11, <3>1, <4>1
    <3> QED BY <1>4, <3>1, <3>2 DEF at, M
  <2>2. CASE p + 3 <= Len(tx) /\ Signature3(p + 1)
    <3>1. at[1] = p + 1 /\ at[2] = p + 1 + 3 /\ ~Reads(spec, tx, p, 1)
      BY <1>2, <1>5, <1>7, <1>10, <1>11, <2>2
    <3>2. /\ Reads(spec, tx, p, 3) => /\ spec # Legacy => at[3] = p + 2 + 3
                                      /\ spec = Extended => at[4] = p + 3 + 3
          /\ ~Reads(spec, tx, p, 3) => at[2 + FieldsAfter(spec)] = Refused
      <4>1. Reads(spec, tx, p, 3) <=> /\ p + 3 + FieldsAfter(spec) <= Len(tx)
                                      /\ spec # Legacy => tx[p + 1 + 3] < 2
        BY <1>2, <1>6, <1>11, <2>2
      <4> QED BY <1>9, <2>2, <3>1, <4>1
    <3> QED BY <1>4, <3>1, <3>2 DEF at, M
  <2>3. CASE ~Signature1(p + 1) /\ ~(p + 3 <= Len(tx) /\ Signature3(p + 1))
    <3>1. at[2] = Refused
      BY <1>10, <1>11, <2>3
    <3>2. ~Reads(spec, tx, p, 1) /\ ~Reads(spec, tx, p, 3)
      BY <1>2, <1>5, <1>6, <2>3 DEF FieldsAfter
    <3>3. at[2 + FieldsAfter(spec)] = Refused
      BY <1>4, <3>1 DEF FieldsAfter, Legacy, Extended
    <3> QED BY <1>4, <3>2, <3>3 DEF at, M
  <2> QED BY <2>1, <2>2, <2>3
<1> QED BY <1>8, <1>11

-----------------------------------------------------------------------------
(* The settings as the grammar reads them.                                 *)

\* A slice of a call.
LEMMA Slice ==
    ASSUME NEW tx \in Seq(Tokens), NEW a \in Nat \ {0}, NEW b \in Nat, b <= Len(tx)
    PROVE  /\ SubSeq(tx, a, b) \in Seq(Tokens)
           /\ Len(SubSeq(tx, a, b)) = IF a <= b THEN b - a + 1 ELSE 0
           /\ \A i \in 1 .. b - a + 1 : SubSeq(tx, a, b)[i] = tx[a + i - 1]
<1>1. \A i \in a .. b : tx[i] \in Tokens
  OBVIOUS
<1>2. a \in Int /\ b \in Int
  OBVIOUS
<1> QED BY <1>1, <1>2, SubSeqProperties

\* A slice of nothing.
LEMMA SliceNone ==
    ASSUME NEW tx, NEW a \in Nat, NEW b \in Nat, b < a
    PROVE  SubSeq(tx, a, b) = <<>>
BY SubSeqEmpty

\* A slice of one token.
LEMMA SliceOne ==
    ASSUME NEW tx \in Seq(Tokens), NEW a \in 1 .. Len(tx)
    PROVE  SubSeq(tx, a, a) = <<tx[a]>> /\ SubSeq(tx, a, a) \in Seq(Tokens)
<1> DEFINE s == SubSeq(tx, a, a)
<1>1. s \in Seq(Tokens) /\ Len(s) = 1 /\ s[1] = tx[a]
  BY Slice
<1> HIDE DEF s
<1>2. s = <<tx[a]>>
  BY <1>1
<1> QED BY <1>1, <1>2 DEF s

\* A slice of three tokens, as many as a signature with its expiry block has.
LEMMA SliceThree ==
    ASSUME NEW tx \in Seq(Tokens), NEW a \in Nat \ {0}, a + 2 <= Len(tx)
    PROVE  /\ SubSeq(tx, a, a + 2) = <<tx[a], tx[a + 1], tx[a + 2]>>
           /\ SubSeq(tx, a, a + 2) \in Seq(Tokens)
<1> DEFINE s == SubSeq(tx, a, a + 2)
<1>1. s \in Seq(Tokens) /\ Len(s) = 3 /\ s[1] = tx[a] /\ s[2] = tx[a + 1] /\ s[3] = tx[a + 2]
  BY Slice
<1> HIDE DEF s
<1>2. s = <<tx[a], tx[a + 1], tx[a + 2]>>
  BY <1>1
<1> QED BY <1>1, <1>2 DEF s

\* Some settings, with so many tokens of signature, if they end with the call.
FieldsAt(spec, tx, q, n) ==
    [flag      |-> SubSeq(tx, q + 1, q + 1),
     signature |-> SubSeq(tx, q + 2, q + 1 + n),
     create    |-> SubSeq(tx, q + 2 + n, q + 1 + n + (IF spec = Legacy THEN 0 ELSE 1)),
     added     |-> SubSeq(tx, q + 2 + n + (IF spec = Legacy THEN 0 ELSE 1), Len(tx))]

\* They end with the call.
ReadsToEnd(spec, tx, q, n) ==
    tx[q] = 1 /\ Reads(spec, tx, q + 1, n) /\ q + 1 + n + FieldsAfter(spec) = Len(tx)

\* A signature of either size is one the runtime has.
LEMMA SignatureRead ==
    ASSUME NEW spec, NEW tx \in Seq(Tokens), NEW a \in Nat \ {0}, NEW n \in {1, 3},
           a + n <= Len(tx) + 1
    PROVE  SubSeq(tx, a, a + n - 1) \in Signatures(spec) <=>
               IF spec = Retyped THEN n = 1 /\ tx[a] < 2
               ELSE tx[a] = IF n = 1 THEN 0 ELSE 1
<1>1. CASE n = 1
  <2>1. a \in 1 .. Len(tx) /\ a + n - 1 = a /\ tx[a] \in Tokens
    BY <1>1
  <2>2. SubSeq(tx, a, a + n - 1) = <<tx[a]>>
    BY <2>1, SliceOne
  <2>3. CASE spec = Retyped
    <3>1. <<tx[a]>> \in Bits <=> tx[a] < 2
      BY <2>1 DEF Bits, Tokens
    <3>2. Signatures(spec) = Bits
      BY <2>3 DEF Signatures
    <3> QED BY <1>1, <2>2, <2>3, <3>1, <3>2
  <2>4. CASE spec # Retyped
    <3>1. \A s, e : <<tx[a]>> # <<1, s, e>>
      OBVIOUS
    <3>2. <<tx[a]>> \in Signatures(spec) <=> <<tx[a]>> = <<0>>
      BY <2>4, <3>1 DEF Signatures
    <3> QED BY <1>1, <2>2, <2>4, <3>2
  <2> QED BY <2>3, <2>4
<1>2. CASE n = 3
  <2>1. /\ a + n - 1 = a + 2 /\ a + 2 <= Len(tx)
        /\ tx[a] \in Tokens /\ tx[a + 1] \in Tokens /\ tx[a + 2] \in Tokens
    BY <1>2
  <2>2. SubSeq(tx, a, a + n - 1) = <<tx[a], tx[a + 1], tx[a + 2]>>
    BY <2>1, SliceThree
  <2> QED BY <1>2, <2>1, <2>2 DEF Signatures, Bits
<1> QED BY <1>1, <1>2

\* A single token is a word.
LEMMA OneToken ==
    ASSUME NEW s \in Seq(Tokens), Len(s) = 1 PROVE s \in Words
<1>1. s = <<s[1]>> /\ s[1] \in Tokens
  OBVIOUS
<1> QED BY <1>1 DEF Words

\* What the grammar takes for settings is what the fields read as.
LEMMA SettingsRead ==
    ASSUME NEW spec, NEW tx \in Seq(Tokens), NEW q \in 1 .. Len(tx), tx[q] # 0, NEW s
    PROVE  s \in SettingsAt(spec, tx, q) <=>
               \E n \in {1, 3} : ReadsToEnd(spec, tx, q, n) /\ s = FieldsAt(spec, tx, q, n)
<1> DEFINE created == IF spec = Legacy THEN 0 ELSE 1
           Fits(n) == q + 1 + n + created <= Len(tx)
<1>1. s \in SettingsAt(spec, tx, q) <=>
          \E n \in {1, 3} : /\ Fits(n) /\ s = FieldsAt(spec, tx, q, n)
                            /\ tx[q] = 1 /\ s \in Settings(spec)
  BY DEF SettingsAt, FieldsAt
<1>2. ASSUME NEW n \in {1, 3}
      PROVE  Fits(n) /\ FieldsAt(spec, tx, q, n) \in Settings(spec) <=>
                 Reads(spec, tx, q + 1, n) /\ q + 1 + n + FieldsAfter(spec) = Len(tx)
  <2>1. q \in Nat \ {0} /\ Len(tx) \in Nat /\ n \in Nat \ {0} /\ created \in {0, 1}
    OBVIOUS
  <2>2. CASE Fits(n)
    <3>1. q + 1 \in 1 .. Len(tx) /\ q + 2 \in Nat \ {0} /\ q + 2 + n <= Len(tx) + 1
      BY <2>1, <2>2
    <3>2. SubSeq(tx, q + 1, q + 1) \in Bits <=> tx[q + 1] < 2
      <4>1. SubSeq(tx, q + 1, q + 1) = <<tx[q + 1]>> /\ tx[q + 1] \in Tokens
        BY <3>1, SliceOne
      <4> QED BY <4>1 DEF Bits, Tokens
    <3>3. SubSeq(tx, q + 2, q + 1 + n) \in Signatures(spec) <=>
              IF spec = Retyped THEN n = 1 /\ tx[q + 2] < 2
              ELSE tx[q + 2] = IF n = 1 THEN 0 ELSE 1
      <4>1. q + 1 + n = q + 2 + n - 1
        BY <2>1
      <4> QED BY <3>1, <4>1, SignatureRead
    <3>4. SubSeq(tx, q + 2 + n, q + 1 + n + created) \in
              (IF spec = Legacy THEN {<<>>} ELSE Bits) <=> (spec # Legacy => tx[q + 2 + n] < 2)
      <4>1. CASE spec = Legacy
        <5>1. SubSeq(tx, q + 2 + n, q + 1 + n + created) = <<>>
          BY <2>1, <4>1, SliceNone
        <5> QED BY <4>1, <5>1
      <4>2. CASE spec # Legacy
        <5>1. q + 1 + n + created = q + 2 + n /\ q + 2 + n \in 1 .. Len(tx)
          BY <2>1, <2>2, <4>2
        <5>2. /\ SubSeq(tx, q + 2 + n, q + 1 + n + created) = <<tx[q + 2 + n]>>
              /\ tx[q + 2 + n] \in Tokens
          BY <5>1, SliceOne
        <5> QED BY <4>2, <5>2 DEF Bits, Tokens
      <4> QED BY <4>1, <4>2
    <3>5. SubSeq(tx, q + 2 + n + created, Len(tx)) \in
              (IF spec = Extended THEN Words ELSE {<<>>})
              <=> q + 1 + n + FieldsAfter(spec) = Len(tx)
      <4> DEFINE rest == SubSeq(tx, q + 2 + n + created, Len(tx))
      <4>1. /\ rest \in Seq(Tokens)
            /\ Len(rest) = Len(tx) - (q + 1 + n + created)
        <5>1. q + 2 + n + created \in Nat \ {0}
          BY <2>1
        <5>2. /\ rest \in Seq(Tokens)
              /\ Len(rest) = IF q + 2 + n + created <= Len(tx)
                             THEN Len(tx) - (q + 2 + n + created) + 1 ELSE 0
          BY <2>1, <5>1, Slice
        <5>3. q + 2 + n + created = q + 1 + n + created + 1 /\ q + 1 + n + created \in Nat
          BY <2>1
        <5> HIDE DEF rest, created
        <5> DEFINE c == q + 1 + n + created
        <5>4. c <= Len(tx) /\ c \in Nat /\ q + 2 + n + created = c + 1
          BY <2>2, <5>3
        <5> HIDE DEF c
        <5>5. Len(rest) = Len(tx) - c
          BY <2>1, <5>2, <5>4
        <5> QED BY <5>2, <5>5 DEF c
      <4> HIDE DEF rest
      <4>2. rest = <<>> <=> Len(rest) = 0
        BY <4>1, EmptySeq
      <4>3. rest \in Words <=> Len(rest) = 1
        <5>1. ASSUME Len(rest) = 1 PROVE rest \in Words
          BY <4>1, <5>1, OneToken
        <5>2. ASSUME rest \in Words PROVE Len(rest) = 1
          BY <5>2 DEF Words
        <5> QED BY <5>1, <5>2
      <4>4. CASE spec = Extended
        <5>1. FieldsAfter(spec) = 2 /\ created = 1
          BY <4>4 DEF FieldsAfter, Legacy, Extended
        <5>2. Len(rest) = 1 <=> q + 1 + n + FieldsAfter(spec) = Len(tx)
          BY <2>1, <4>1, <5>1
        <5> QED BY <4>3, <4>4, <5>2 DEF rest
      <4>5. CASE spec # Extended
        <5>1. FieldsAfter(spec) = created
          BY <4>5 DEF FieldsAfter
        <5>2. Len(rest) = 0 <=> q + 1 + n + FieldsAfter(spec) = Len(tx)
          BY <2>1, <4>1, <5>1
        <5> QED BY <4>2, <4>5, <5>2 DEF rest
      <4> QED BY <4>4, <4>5
    <3>6. FieldsAt(spec, tx, q, n) \in Settings(spec) <=>
              /\ SubSeq(tx, q + 1, q + 1) \in Bits
              /\ SubSeq(tx, q + 2, q + 1 + n) \in Signatures(spec)
              /\ SubSeq(tx, q + 2 + n, q + 1 + n + created) \in
                     (IF spec = Legacy THEN {<<>>} ELSE Bits)
              /\ SubSeq(tx, q + 2 + n + created, Len(tx)) \in
                     (IF spec = Extended THEN Words ELSE {<<>>})
      BY DEF FieldsAt, Settings
    <3>7. Reads(spec, tx, q + 1, n) <=>
              /\ q + 1 + n + FieldsAfter(spec) <= Len(tx)
              /\ tx[q + 1] < 2
              /\ IF spec = Retyped THEN n = 1 /\ tx[q + 2] < 2
                 ELSE tx[q + 2] = IF n = 1 THEN 0 ELSE 1
              /\ spec # Legacy => tx[q + 2 + n] < 2
      <4>1. q + 1 + 1 = q + 2 /\ q + 1 + 1 + n = q + 2 + n
        BY <2>1
      <4> QED BY <4>1 DEF Reads
    <3>8. q + 1 + n + FieldsAfter(spec) = Len(tx) => q + 1 + n + FieldsAfter(spec) <= Len(tx)
      BY <2>1
    <3> QED BY <2>2, <3>2, <3>3, <3>4, <3>5, <3>6, <3>7, <3>8
  <2>3. CASE ~Fits(n)
    <3>1. ~(q + 1 + n + FieldsAfter(spec) = Len(tx))
      BY <2>1, <2>3 DEF FieldsAfter
    <3> QED BY <2>3, <3>1
  <2> QED BY <2>2, <2>3
<1> HIDE DEF Fits
<1>3. ASSUME NEW n \in {1, 3}
      PROVE  /\ Fits(n) /\ s = FieldsAt(spec, tx, q, n) /\ tx[q] = 1 /\ s \in Settings(spec) <=>
                    ReadsToEnd(spec, tx, q, n) /\ s = FieldsAt(spec, tx, q, n)
  BY <1>2 DEF ReadsToEnd
<1> QED BY <1>1, <1>3

-----------------------------------------------------------------------------
(* The arguments.                                                          *)

\* A rule set is one token, or an option of one.
LEMMA RuleSetEnds ==
    ASSUME NEW spec, NEW tx \in Seq(Tokens), NEW p \in Positions(tx),
           NEW l \in 2 .. MAX_NESTING + 1
    PROVE  Measure(spec, tx)[l]["rule_set_id"][p] =
               IF spec = Legacy THEN IF p <= Len(tx) THEN p + 1 ELSE Refused
               ELSE IF p <= Len(tx) /\ tx[p] = 0 THEN p + 1
               ELSE IF p + 1 <= Len(tx) /\ tx[p] = 1 THEN p + 2
               ELSE Refused
<1> DEFINE M == Measure(spec, tx)
<1>1. l \in 1 .. MAX_NESTING + 1 /\ l - 1 \in 1 .. MAX_NESTING + 1
  BY NestingAssumption
<1>2. "rule_set_id" \in TypeIds
  BY DEF TypeIds
<1>3. M[l]["rule_set_id"][p] = Visit(spec, tx, M[l - 1], "rule_set_id", p)
  BY <1>1, <1>2, MeasureVisits
<1>4. p \in Nat \ {0} /\ Len(tx) \in Nat /\ (p <= Len(tx) => p + 1 \in Positions(tx))
  BY PositionIs
<1>5. CASE spec = Legacy
  <2>1. TypeOf(spec, "rule_set_id") = Token(8)
    BY <1>5, TypesAre
  <2>2. Visit(spec, tx, M[l - 1], "rule_set_id", p) =
            IF p <= Len(tx) /\ tx[p] < 8 THEN p + 1 ELSE Refused
    BY <2>1, VisitToken
  <2>3. p <= Len(tx) => tx[p] < 8
    BY <1>4 DEF Tokens
  <2> HIDE DEF M
  <2> QED BY <1>3, <1>5, <2>2, <2>3 DEF M
<1>6. CASE spec # Legacy
  <2>1. TypeOf(spec, "rule_set_id") = OptionOf("u32")
    BY <1>6, TypesAre
  <2>2. Visit(spec, tx, M[l - 1], "rule_set_id", p) =
            IF p <= Len(tx) /\ tx[p] = 0 THEN p + 1
            ELSE IF p <= Len(tx) /\ tx[p] = 1 THEN M[l - 1]["u32"][p + 1]
            ELSE Refused
    BY <2>1, VisitOption
  <2>3. p <= Len(tx) =>
            M[l - 1]["u32"][p + 1] = IF p + 1 <= Len(tx) THEN p + 2 ELSE Refused
    <3> SUFFICES ASSUME p <= Len(tx)
                 PROVE  M[l - 1]["u32"][p + 1] = IF p + 1 <= Len(tx) THEN p + 2 ELSE Refused
      OBVIOUS
    <3> DEFINE a == p + 1
    <3>1. a \in Positions(tx) /\ a + 1 = p + 2
      BY <1>4
    <3> HIDE DEF a
    <3>2. M[l - 1]["u32"][a] = IF a <= Len(tx) THEN a + 1 ELSE Refused
      BY <1>1, <3>1, TokensEnd
    <3> QED BY <3>1, <3>2 DEF a
  <2>4. p + 1 <= Len(tx) => p <= Len(tx)
    BY <1>4
  <2> HIDE DEF M
  <2>5. Measure(spec, tx)[l]["rule_set_id"][p] = Visit(spec, tx, M[l - 1], "rule_set_id", p)
    BY <1>3 DEF M
  <2> QED BY <1>6, <2>2, <2>3, <2>4, <2>5
<1> QED BY <1>5, <1>6

\* The settings are None, or Some with their fields two levels down.
LEMMA SettingsEnd ==
    ASSUME NEW spec, NEW tx \in Seq(Tokens), NEW p \in Positions(tx)
    PROVE  Measure(spec, tx)[MAX_NESTING + 1]["settings"][p] =
               IF p <= Len(tx) /\ tx[p] = 0 THEN p + 1
               ELSE IF p <= Len(tx) /\ tx[p] = 1
               THEN Through(Measure(spec, tx)[MAX_NESTING - 1], SettingsFields(spec), p + 1)
                        [2 + FieldsAfter(spec)]
               ELSE Refused
<1> DEFINE M == Measure(spec, tx)
           l == MAX_NESTING + 1
           fields == SettingsFields(spec)
<1>1. /\ l \in 1 .. MAX_NESTING + 1 /\ l \in 2 .. MAX_NESTING + 1
      /\ l - 2 = MAX_NESTING - 1
  BY NestingAssumption
<1>2. "settings" \in TypeIds /\ "dispatch_settings" \in TypeIds
  BY DEF TypeIds
<1>3. /\ TypeOf(spec, "settings") = OptionOf("dispatch_settings")
      /\ TypeOf(spec, "dispatch_settings") = Composite(fields)
  BY TypesAre
<1>4. Len(fields) = 2 + FieldsAfter(spec)
  BY FieldsAre
<1> HIDE DEF l, fields
<1>5. M[l]["settings"][p] = Visit(spec, tx, M[l - 1], "settings", p)
  BY <1>1, <1>2, MeasureVisits
<1>6. Visit(spec, tx, M[l - 1], "settings", p) =
          IF p <= Len(tx) /\ tx[p] = 0 THEN p + 1
          ELSE IF p <= Len(tx) /\ tx[p] = 1 THEN M[l - 1]["dispatch_settings"][p + 1]
          ELSE Refused
  BY <1>3, VisitOption
<1>7. ASSUME p <= Len(tx)
      PROVE  M[l - 1]["dispatch_settings"][p + 1] =
                 Through(M[l - 2], fields, p + 1)[2 + FieldsAfter(spec)]
  <2>1. p + 1 \in Positions(tx)
    BY <1>7, PositionIs
  <2>2. M[l - 1]["dispatch_settings"][p + 1] =
            Visit(spec, tx, M[l - 2], "dispatch_settings", p + 1)
    BY <1>1, <1>2, <2>1, MeasureVisitsBelow
  <2>3. Visit(spec, tx, M[l - 2], "dispatch_settings", p + 1) =
            Through(M[l - 2], fields, p + 1)[Len(fields)]
    BY <1>3, VisitComposite
  <2> QED BY <1>4, <2>2, <2>3
<1>8. M[l - 2] = M[MAX_NESTING - 1]
  BY <1>1
<1> HIDE DEF M
<1>9. M[l]["settings"][p] =
          IF p <= Len(tx) /\ tx[p] = 0 THEN p + 1
          ELSE IF p <= Len(tx) /\ tx[p] = 1
          THEN Through(M[MAX_NESTING - 1], fields, p + 1)[2 + FieldsAfter(spec)]
          ELSE Refused
  BY <1>5, <1>6, <1>7, <1>8
<1> QED BY <1>9 DEF M, l, fields

\* Where the arguments end, one after the other.
LEMMA ArgsEnd ==
    ASSUME NEW spec, NEW tx \in Seq(Tokens), Len(tx) >= 2
    PROVE  LET at == Decoded(spec, tx, Args, 3)
               M  == Measure(spec, tx)[MAX_NESTING + 1]
           IN  /\ at[2] = IF 4 <= Len(tx) /\ (spec = Legacy \/ tx[4] = 0) THEN 5
                          ELSE IF spec # Legacy /\ 5 <= Len(tx) /\ tx[4] = 1 THEN 6
                          ELSE Refused
               /\ at[3] = IF at[2] = Refused THEN Refused ELSE M["call"][at[2]]
               /\ at[4] = IF at[3] = Refused THEN Refused ELSE M["settings"][at[3]]
<1> DEFINE M == Measure(spec, tx)[MAX_NESTING + 1]
           ids == Args
           at == Through(M, ids, 3)
           l == MAX_NESTING + 1
<1>1. l \in 1 .. MAX_NESTING + 1 /\ l \in 2 .. MAX_NESTING + 1 /\ 3 \in Positions(tx)
  BY NestingAssumption DEF Positions
<1>2. /\ Len(ids) = 4
      /\ ids[1] = "tank_id" /\ ids[2] = "rule_set_id" /\ ids[3] = "call" /\ ids[4] = "settings"
  BY DEF Args
<1>3. M["tank_id"][3] = IF 3 <= Len(tx) THEN 4 ELSE Refused
  <2> HIDE DEF l
  <2>1. Measure(spec, tx)[l]["tank_id"][3] = IF 3 <= Len(tx) THEN 3 + 1 ELSE Refused
    BY <1>1, TokensEnd
  <2> QED BY <2>1 DEF l
<1>4. ASSUME 3 <= Len(tx)
      PROVE  M["rule_set_id"][4] =
                 IF spec = Legacy THEN IF 4 <= Len(tx) THEN 5 ELSE Refused
                 ELSE IF 4 <= Len(tx) /\ tx[4] = 0 THEN 5
                 ELSE IF 5 <= Len(tx) /\ tx[4] = 1 THEN 6
                 ELSE Refused
  <2>1. 4 \in Positions(tx)
    BY <1>4 DEF Positions
  <2> HIDE DEF l
  <2>2. Measure(spec, tx)[l]["rule_set_id"][4] =
            IF spec = Legacy THEN IF 4 <= Len(tx) THEN 4 + 1 ELSE Refused
            ELSE IF 4 <= Len(tx) /\ tx[4] = 0 THEN 4 + 1
            ELSE IF 4 + 1 <= Len(tx) /\ tx[4] = 1 THEN 4 + 2
            ELSE Refused
    BY <1>1, <2>1, RuleSetEnds
  <2> QED BY <2>2 DEF l
<1> HIDE DEF M, ids, l
<1>5. at[0] = 3
  BY <1>2, ThroughStarts
<1>6. ASSUME NEW i \in 1 .. Len(ids)
      PROVE  at[i] = IF at[i - 1] = Refused THEN Refused ELSE M[ids[i]][at[i - 1]]
  <2>1. Len(ids) \in Nat
    BY <1>2
  <2> QED BY <2>1, ThroughSteps
<1> HIDE DEF at
<1>7. at[1] = IF at[0] = Refused THEN Refused ELSE M["tank_id"][at[0]]
  <2>1. 1 \in 1 .. Len(ids)
    BY <1>2
  <2>2. at[1] = IF at[0] = Refused THEN Refused ELSE M[ids[1]][at[0]]
    BY <1>6, <2>1
  <2> QED BY <1>2, <2>2
<1>8. at[2] = IF at[1] = Refused THEN Refused ELSE M["rule_set_id"][at[1]]
  <2>1. 2 \in 1 .. Len(ids)
    BY <1>2
  <2>2. at[2] = IF at[1] = Refused THEN Refused ELSE M[ids[2]][at[1]]
    BY <1>6, <2>1
  <2> QED BY <1>2, <2>2
<1>9. at[3] = IF at[2] = Refused THEN Refused ELSE M["call"][at[2]]
  <2>1. 3 \in 1 .. Len(ids)
    BY <1>2
  <2>2. at[3] = IF at[2] = Refused THEN Refused ELSE M[ids[3]][at[2]]
    BY <1>6, <2>1
  <2> QED BY <1>2, <2>2
<1>10. at[4] = IF at[3] = Refused THEN Refused ELSE M["settings"][at[3]]
  <2>1. 4 \in 1 .. Len(ids)
    BY <1>2
  <2>2. at[4] = IF at[3] = Refused THEN Refused ELSE M[ids[4]][at[3]]
    BY <1>6, <2>1
  <2> QED BY <1>2, <2>2
<1>11. at[1] = IF 3 <= Len(tx) THEN 4 ELSE Refused
  BY <1>3, <1>5, <1>7 DEF Refused
<1>12. at[2] = IF 4 <= Len(tx) /\ (spec = Legacy \/ tx[4] = 0) THEN 5
               ELSE IF spec # Legacy /\ 5 <= Len(tx) /\ tx[4] = 1 THEN 6
               ELSE Refused
  <2>1. Len(tx) \in Nat
    OBVIOUS
  <2>2. CASE 3 <= Len(tx)
    <3>1. at[2] = M["rule_set_id"][4]
      BY <1>8, <1>11, <2>2 DEF Refused
    <3> QED BY <1>4, <2>1, <2>2, <3>1
  <2>3. CASE ~(3 <= Len(tx))
    <3>1. at[2] = Refused
      BY <1>8, <1>11, <2>3
    <3> QED BY <2>1, <2>3, <3>1
  <2> QED BY <2>2, <2>3
<1>13. at = Decoded(spec, tx, Args, 3)
  BY DEF at, M, ids, Decoded
<1> QED BY <1>9, <1>10, <1>12, <1>13 DEF M

\* The inner call and the settings as the code finds them, in a dispatch.
Finds(spec, tx, c, q) ==
    LET at == Decoded(spec, tx, Args, 3)
    IN  /\ CallName(spec, tx) \in {"dispatch", "dispatch_and_touch"}
        /\ c = at[2] /\ c # Refused
        /\ q = at[3] /\ q # Refused /\ q <= Len(tx)

\* A dispatch by its index.
LEMMA DispatchNamed ==
    ASSUME NEW spec, NEW tx \in Seq(Tokens)
    PROVE  CallName(spec, tx) \in {"dispatch", "dispatch_and_touch"} <=>
               /\ Len(tx) >= 2
               /\ tx[1] = 2
               /\ tx[2] \in (IF spec = Legacy THEN {0, 1} ELSE {0})
<1>1. CASE Len(tx) < 2
  <2>1. CallName(spec, tx) = "none"
    BY <1>1 DEF CallName
  <2>2. Len(tx) \in Nat
    OBVIOUS
  <2> QED BY <1>1, <2>1, <2>2
<1>2. CASE Len(tx) >= 2
  <2>1. Len(tx) \in Nat /\ tx[1] \in Tokens /\ tx[2] \in Tokens
    BY <1>2
  <2>2. CASE tx[1] = 2 /\ tx[2] = 0
    BY <1>2, <2>1, <2>2 DEF CallName
  <2>3. CASE tx[1] = 2 /\ tx[2] = 1 /\ spec = Legacy
    BY <1>2, <2>1, <2>3 DEF CallName
  <2>4. CASE ~(tx[1] = 2 /\ tx[2] = 0) /\ ~(tx[1] = 2 /\ tx[2] = 1 /\ spec = Legacy)
    BY <1>2, <2>1, <2>4 DEF CallName
  <2> QED BY <2>2, <2>3, <2>4
<1> QED BY <1>1, <1>2

\* What the grammar takes for a rule set, before an inner call that starts at c.
LEMMA RuleSetRead ==
    ASSUME NEW spec, NEW tx \in Seq(Tokens), NEW c \in CallStarts, c <= Len(tx)
    PROVE  SubSeq(tx, 4, c - 1) \in RuleSets(spec) <=>
               IF c = 5 THEN spec = Legacy \/ tx[4] = 0
               ELSE spec # Legacy /\ tx[4] = 1
<1>1. Len(tx) \in Nat /\ c \in {5, 6}
  BY DEF CallStarts
<1>2. CASE c = 5
  <2>1. 4 \in 1 .. Len(tx) /\ c - 1 = 4 /\ tx[4] \in Tokens
    BY <1>1, <1>2
  <2>2. SubSeq(tx, 4, c - 1) = <<tx[4]>>
    BY <2>1, SliceOne
  <2>3. \A w : <<tx[4]>> # <<1, w>>
    OBVIOUS
  <2>4. CASE spec = Legacy
    <3>1. <<tx[4]>> \in RuleSets(spec)
      BY <2>1, <2>4 DEF RuleSets, Words
    <3> QED BY <1>2, <2>2, <2>4, <3>1
  <2>5. CASE spec # Legacy
    <3>1. <<tx[4]>> \in RuleSets(spec) <=> <<tx[4]>> = <<0>>
      BY <2>3, <2>5 DEF RuleSets
    <3>2. <<tx[4]>> = <<0>> <=> tx[4] = 0
      OBVIOUS
    <3> QED BY <1>2, <2>2, <2>5, <3>1, <3>2
  <2> QED BY <2>4, <2>5
<1>3. CASE c = 6
  <2>1. c - 1 = 5 /\ tx[4] \in Tokens /\ tx[5] \in Tokens
    BY <1>1, <1>3
  <2>2. SubSeq(tx, 4, c - 1) = <<tx[4], tx[5]>>
    <3> DEFINE s == SubSeq(tx, 4, 5)
    <3>1. Len(s) = 2 /\ s[1] = tx[4] /\ s[2] = tx[5] /\ s \in Seq(Tokens)
      BY <1>1, <1>3, Slice
    <3> HIDE DEF s
    <3>2. s = <<tx[4], tx[5]>>
      BY <3>1
    <3> QED BY <2>1, <3>2 DEF s
  <2>3. \A w : <<tx[4], tx[5]>> # <<w>>
    OBVIOUS
  <2>4. <<tx[4], tx[5]>> \in RuleSets(spec) <=> spec # Legacy /\ tx[4] = 1
    BY <2>1, <2>3 DEF RuleSets, Words
  <2>5. SubSeq(tx, 4, c - 1) \in RuleSets(spec) <=> <<tx[4], tx[5]>> \in RuleSets(spec)
    BY <2>2
  <2>6. c # 5
    BY <1>3
  <2> QED BY <2>4, <2>5, <2>6
<1> QED BY <1>1, <1>2, <1>3

\* The code finds the inner call and the settings where the grammar has them.
LEMMA StartsAgree ==
    ASSUME NEW spec, NEW tx \in Seq(Tokens), NEW c, NEW q
    PROVE  c \in CallStarts /\ q \in SettingsStarts(spec, tx, c) <=> Finds(spec, tx, c, q)
<1> DEFINE at == Decoded(spec, tx, Args, 3)
           M == Measure(spec, tx)[MAX_NESTING + 1]
           Named == CallName(spec, tx) \in {"dispatch", "dispatch_and_touch"}
           Indexed == tx[1] = 2 /\ tx[2] \in (IF spec = Legacy THEN {0, 1} ELSE {0})
           Ends(p) == CallEnds(tx)[MAX_NESTING + 1][p]
<1>1. Named <=> Len(tx) >= 2 /\ Indexed
  BY DispatchNamed
<1>2. ASSUME Len(tx) >= 2
      PROVE  /\ at[2] = IF 4 <= Len(tx) /\ (spec = Legacy \/ tx[4] = 0) THEN 5
                        ELSE IF spec # Legacy /\ 5 <= Len(tx) /\ tx[4] = 1 THEN 6
                        ELSE Refused
             /\ at[3] = IF at[2] = Refused THEN Refused ELSE M["call"][at[2]]
  <2>1. at[2] = IF 4 <= Len(tx) /\ (spec = Legacy \/ tx[4] = 0) THEN 5
                ELSE IF spec # Legacy /\ 5 <= Len(tx) /\ tx[4] = 1 THEN 6
                ELSE Refused
    BY <1>2, ArgsEnd
  <2>2. at[3] = IF at[2] = Refused THEN Refused ELSE M["call"][at[2]]
    BY <1>2, ArgsEnd
  <2> HIDE DEF at, M
  <2> QED BY <2>1, <2>2
<1>3. ASSUME NEW p \in CallStarts, p <= Len(tx) + 1
      PROVE  /\ Ends(p) = {M["call"][p]} \ {Refused}
             /\ M["call"][p] # Refused => p <= Len(tx)
  <2> DEFINE n == MAX_NESTING + 1
  <2>1. n \in 0 .. MAX_NESTING + 1 /\ p \in Positions(tx) /\ p \in Nat /\ Len(tx) \in Nat
    BY <1>3, NestingAssumption DEF Positions, CallStarts
  <2> HIDE DEF n
  <2>2. CallEnds(tx)[n][p] = {Measure(spec, tx)[n]["call"][p]} \ {Refused}
    BY <2>1, CallsAgree
  <2>3. p + 2 > Len(tx) => Measure(spec, tx)[n]["call"][p] = Refused
    BY <2>1, CallWalk
  <2>4. Measure(spec, tx)[n]["call"][p] # Refused => p <= Len(tx)
    BY <2>1, <2>3
  <2> QED BY <2>2, <2>4 DEF n
<1>4. c \in CallStarts /\ q \in SettingsStarts(spec, tx, c) <=>
          /\ c \in CallStarts /\ c <= Len(tx) /\ Indexed
          /\ SubSeq(tx, 4, c - 1) \in RuleSets(spec)
          /\ q \in Ends(c) /\ q <= Len(tx)
  BY DEF SettingsStarts
<1>5. c \in CallStarts /\ c <= Len(tx) => Len(tx) >= 2
  BY DEF CallStarts
<1>6. Finds(spec, tx, c, q) <=>
          Named /\ c = at[2] /\ c # Refused /\ q = at[3] /\ q # Refused /\ q <= Len(tx)
  BY DEF Finds
<1> HIDE DEF at, M, Named, Indexed, Ends
<1>7. ASSUME c \in CallStarts, c <= Len(tx), Named
      PROVE  SubSeq(tx, 4, c - 1) \in RuleSets(spec) <=> c = at[2]
  <2>1. /\ SubSeq(tx, 4, c - 1) \in RuleSets(spec) <=>
               IF c = 5 THEN spec = Legacy \/ tx[4] = 0
               ELSE spec # Legacy /\ tx[4] = 1
    BY <1>7, RuleSetRead
  <2>2. Len(tx) \in Nat /\ c \in {5, 6}
    BY <1>7 DEF CallStarts
  <2> QED BY <1>1, <1>2, <1>7, <2>1, <2>2 DEF Refused
<1>8. ASSUME c \in CallStarts, q \in SettingsStarts(spec, tx, c) PROVE Finds(spec, tx, c, q)
  <2>1. /\ c \in CallStarts /\ c <= Len(tx) /\ Indexed
        /\ SubSeq(tx, 4, c - 1) \in RuleSets(spec)
        /\ q \in Ends(c) /\ q <= Len(tx)
    BY <1>4, <1>8
  <2>2. Named /\ c = at[2]
    BY <1>1, <1>5, <1>7, <2>1
  <2>3. c \in {5, 6} /\ Len(tx) \in Nat /\ c <= Len(tx) + 1
    BY <2>1 DEF CallStarts
  <2>4. q = M["call"][c] /\ q # Refused
    BY <1>3, <2>1, <2>3
  <2>5. q = at[3] /\ c # Refused
    BY <1>2, <1>5, <2>1, <2>2, <2>3, <2>4 DEF Refused
  <2> QED BY <1>6, <2>1, <2>2, <2>4, <2>5
<1>9. ASSUME Finds(spec, tx, c, q) PROVE c \in CallStarts /\ q \in SettingsStarts(spec, tx, c)
  <2>1. Named /\ c = at[2] /\ c # Refused /\ q = at[3] /\ q # Refused /\ q <= Len(tx)
    BY <1>6, <1>9
  <2>2. Len(tx) >= 2 /\ Indexed /\ Len(tx) \in Nat
    BY <1>1, <2>1
  <2>3. c \in CallStarts /\ c <= Len(tx) + 1
    <3>2. at[2] = IF 4 <= Len(tx) /\ (spec = Legacy \/ tx[4] = 0) THEN 5
                  ELSE IF spec # Legacy /\ 5 <= Len(tx) /\ tx[4] = 1 THEN 6
                  ELSE Refused
      BY <1>2, <2>2
    <3>1. (c = 5 /\ 4 <= Len(tx)) \/ (c = 6 /\ 5 <= Len(tx))
      BY <2>1, <3>2
    <3> QED BY <2>2, <3>1 DEF CallStarts
  <2>4. q = M["call"][c]
    BY <1>2, <2>1, <2>2
  <2>5. q \in Ends(c) /\ c <= Len(tx)
    BY <1>3, <2>1, <2>3, <2>4
  <2>6. SubSeq(tx, 4, c - 1) \in RuleSets(spec)
    BY <1>7, <2>1, <2>3, <2>5
  <2> QED BY <1>4, <2>1, <2>2, <2>3, <2>5, <2>6
<1> QED BY <1>8, <1>9

-----------------------------------------------------------------------------
(* The settings' values.                                                   *)

\* The values of some settings' fields, in their order.
Values(spec, s) ==
    IF spec = Legacy THEN <<s.flag, s.signature>>
    ELSE IF spec = Extended THEN <<s.flag, s.signature, s.create, s.added>>
    ELSE <<s.flag, s.signature, s.create>>

\* What None stands for in a runtime whose fields all have a default.
Default(spec) ==
    [flag |-> <<0>>, signature |-> <<0>>, added |-> <<>>,
     create |-> IF spec = Legacy THEN <<>> ELSE <<0>>]

\* The settings end with the call if there are none, or if they read to the end.
LEMMA SettingsEndRead ==
    ASSUME NEW spec, NEW tx \in Seq(Tokens), NEW q \in 1 .. Len(tx)
    PROVE  Measure(spec, tx)[MAX_NESTING + 1]["settings"][q] = Len(tx) + 1 <=>
               \/ tx[q] = 0 /\ q = Len(tx)
               \/ \E n \in {1, 3} : ReadsToEnd(spec, tx, q, n)
<1> DEFINE l == MAX_NESTING - 1
           at == Through(Measure(spec, tx)[l], SettingsFields(spec), q + 1)
           end == Measure(spec, tx)[MAX_NESTING + 1]["settings"][q]
           k == 2 + FieldsAfter(spec)
<1>1. /\ q \in Nat \ {0} /\ Len(tx) \in Nat /\ q \in Positions(tx) /\ q + 1 \in Positions(tx)
      /\ l \in 3 .. MAX_NESTING + 1
  BY NestingAssumption DEF Positions
<1>2. end = IF tx[q] = 0 THEN q + 1 ELSE IF tx[q] = 1 THEN at[k] ELSE Refused
  <2>1. end = IF q <= Len(tx) /\ tx[q] = 0 THEN q + 1
              ELSE IF q <= Len(tx) /\ tx[q] = 1 THEN at[k]
              ELSE Refused
    BY <1>1, SettingsEnd
  <2> HIDE DEF end, at, k
  <2> QED BY <2>1
<1> HIDE DEF end, l
<1>3. \A n \in {1, 3} : Reads(spec, tx, q + 1, n) => at[k] = q + 2 + n + FieldsAfter(spec)
  <2> SUFFICES ASSUME NEW n \in {1, 3}, Reads(spec, tx, q + 1, n)
               PROVE  at[k] = q + 2 + n + FieldsAfter(spec)
    OBVIOUS
  <2>1. /\ at[2] = q + 1 + 1 + n
        /\ spec # Legacy => at[3] = q + 1 + 2 + n
        /\ spec = Extended => at[4] = q + 1 + 3 + n
    BY <1>1, FieldsWalk
  <2> HIDE DEF at
  <2>2. CASE spec = Legacy
    <3>1. FieldsAfter(spec) = 0
      BY <2>2 DEF FieldsAfter
    <3> QED BY <1>1, <2>1, <3>1
  <2>3. CASE spec = Extended
    <3>1. FieldsAfter(spec) = 2
      BY <2>3 DEF FieldsAfter, Legacy, Extended
    <3> QED BY <1>1, <2>1, <2>3, <3>1
  <2>4. CASE spec # Legacy /\ spec # Extended
    <3>1. FieldsAfter(spec) = 1
      BY <2>4 DEF FieldsAfter
    <3> QED BY <1>1, <2>1, <2>4, <3>1
  <2> QED BY <2>2, <2>3, <2>4
<1>4. (\E n \in {1, 3} : Reads(spec, tx, q + 1, n)) \/ at[k] = Refused
  BY <1>1, FieldsWalk
<1> HIDE DEF at, k
<1>5. FieldsAfter(spec) \in Nat
  BY DEF FieldsAfter
<1>6. CASE tx[q] = 0
  <2>1. \A n : ~ReadsToEnd(spec, tx, q, n)
    BY <1>6 DEF ReadsToEnd
  <2>2. end = q + 1
    BY <1>2, <1>6
  <2>3. end = Len(tx) + 1 <=> q = Len(tx)
    BY <1>1, <2>2
  <2> QED BY <1>6, <2>1, <2>3 DEF end
<1>7. CASE tx[q] = 1
  <2>1. end = at[k]
    BY <1>2, <1>7
  <2>2. ASSUME NEW n \in {1, 3}, ReadsToEnd(spec, tx, q, n) PROVE end = Len(tx) + 1
    <3>1. Reads(spec, tx, q + 1, n) /\ q + 1 + n + FieldsAfter(spec) = Len(tx)
      BY <2>2 DEF ReadsToEnd
    <3>2. end = q + 2 + n + FieldsAfter(spec)
      BY <1>3, <2>1, <3>1
    <3> QED BY <1>1, <1>5, <3>1, <3>2
  <2>3. ASSUME end = Len(tx) + 1 PROVE \E n \in {1, 3} : ReadsToEnd(spec, tx, q, n)
    <3>1. at[k] # Refused
      BY <1>1, <2>1, <2>3 DEF Refused
    <3>2. PICK n \in {1, 3} : Reads(spec, tx, q + 1, n)
      BY <1>4, <3>1
    <3>3. q + 2 + n + FieldsAfter(spec) = Len(tx) + 1
      BY <1>3, <2>1, <2>3, <3>2
    <3>4. q + 1 + n + FieldsAfter(spec) = Len(tx)
      BY <1>1, <1>5, <3>3
    <3> QED BY <1>7, <3>2, <3>4 DEF ReadsToEnd
  <2> QED BY <1>7, <2>2, <2>3 DEF end
<1>8. CASE tx[q] \notin {0, 1}
  <2>1. \A n : ~ReadsToEnd(spec, tx, q, n)
    BY <1>8 DEF ReadsToEnd
  <2>2. end # Len(tx) + 1
    BY <1>1, <1>2, <1>8 DEF Refused
  <2> QED BY <1>8, <2>1, <2>2 DEF end
<1> QED BY <1>6, <1>7, <1>8

\* Where the settings' fields end, and their values, when decoded from p on.
FieldsEnd(spec, tx, p) ==
    Decoded(spec, tx, SettingsFields(spec), p)[Len(SettingsFields(spec))]

Slices(spec, tx, p) ==
    [i \in 1 .. Len(SettingsFields(spec)) |->
        SubSeq(tx, Decoded(spec, tx, SettingsFields(spec), p)[i - 1],
                   Decoded(spec, tx, SettingsFields(spec), p)[i] - 1)]

\* The fields from p on, with so many tokens of signature.
FieldsFrom(tx, p, n) ==
    [flag      |-> SubSeq(tx, p, p),
     signature |-> SubSeq(tx, p + 1, p + n),
     create    |-> SubSeq(tx, p + 1 + n, p + 1 + n),
     added     |-> SubSeq(tx, p + 2 + n, p + 2 + n)]

\* The values of the fields that a walk goes over.
LEMMA ValuesWalked ==
    ASSUME NEW spec, NEW tx \in Seq(Tokens), NEW p \in Positions(tx), NEW n \in {1, 3},
           Reads(spec, tx, p, n)
    PROVE  /\ FieldsEnd(spec, tx, p) # Refused
           /\ Slices(spec, tx, p) = Values(spec, FieldsFrom(tx, p, n))
<1> DEFINE l == MAX_NESTING + 1
           at == Through(Measure(spec, tx)[l], SettingsFields(spec), p)
           k == Len(SettingsFields(spec))
           Value(i) == SubSeq(tx, at[i - 1], at[i] - 1)
           values == [i \in 1 .. k |-> Value(i)]
           s == FieldsFrom(tx, p, n)
<1>1. p \in Nat \ {0} /\ l \in 3 .. MAX_NESTING + 1 /\ k = 2 + FieldsAfter(spec)
  BY NestingAssumption, FieldsAre DEF Positions
<1> HIDE DEF l
<1>2. /\ at[0] = p /\ at[1] = p + 1 /\ at[2] = p + 1 + n
      /\ spec # Legacy => at[3] = p + 2 + n
      /\ spec = Extended => at[4] = p + 3 + n
  BY <1>1, FieldsWalk
<1> HIDE DEF at
<1>3. /\ Value(1) = s.flag /\ Value(2) = s.signature
      /\ spec # Legacy => Value(3) = s.create
      /\ spec = Extended => Value(4) = s.added
  <2>1. /\ 1 - 1 = 0 /\ 2 - 1 = 1 /\ 3 - 1 = 2 /\ 4 - 1 = 3
        /\ p + 1 - 1 = p /\ p + 1 + n - 1 = p + n /\ p + 2 + n - 1 = p + 1 + n
        /\ p + 3 + n - 1 = p + 2 + n
    BY <1>1
  <2>6. \A i, a, b : at[i - 1] = a /\ at[i] - 1 = b => Value(i) = SubSeq(tx, a, b)
    OBVIOUS
  <2> HIDE DEF Value
  <2>2. Value(1) = s.flag
    <3>1. at[1 - 1] = p /\ at[1] - 1 = p
      BY <1>1, <1>2, <2>1
    <3>2. Value(1) = SubSeq(tx, p, p)
      BY <2>6, <3>1
    <3> QED BY <3>2 DEF FieldsFrom
  <2>3. Value(2) = s.signature
    <3>1. at[2 - 1] = p + 1 /\ at[2] - 1 = p + n
      BY <1>1, <1>2, <2>1
    <3>2. Value(2) = SubSeq(tx, p + 1, p + n)
      BY <2>6, <3>1
    <3> QED BY <3>2 DEF FieldsFrom
  <2>4. ASSUME spec # Legacy PROVE Value(3) = s.create
    <3>1. at[3 - 1] = p + 1 + n /\ at[3] - 1 = p + 1 + n
      BY <1>1, <1>2, <2>1, <2>4
    <3>2. Value(3) = SubSeq(tx, p + 1 + n, p + 1 + n)
      BY <2>6, <3>1
    <3> QED BY <3>2 DEF FieldsFrom
  <2>5. ASSUME spec = Extended PROVE Value(4) = s.added
    <3>1. spec # Legacy
      BY <2>5 DEF Extended, Legacy
    <3>2. at[4 - 1] = p + 2 + n /\ at[4] - 1 = p + 2 + n
      BY <1>1, <1>2, <2>1, <2>5, <3>1
    <3>3. Value(4) = SubSeq(tx, p + 2 + n, p + 2 + n)
      BY <2>6, <3>2
    <3> QED BY <3>3 DEF FieldsFrom
  <2> QED BY <2>2, <2>3, <2>4, <2>5
<1> HIDE DEF Value, s, k
<1>4. values = Values(spec, s) /\ at[k] # Refused
  <2>1. CASE spec = Legacy
    <3>1. k = 2
      BY <1>1, <2>1 DEF FieldsAfter
    <3>2. values = <<s.flag, s.signature>>
      BY <1>3, <3>1
    <3>3. values = Values(spec, s)
      BY <2>1, <3>2 DEF Values
    <3>4. at[k] = p + 1 + n
      BY <1>2, <3>1
    <3> QED BY <1>1, <3>3, <3>4 DEF Refused
  <2>2. CASE spec = Extended
    <3>1. k = 4 /\ spec # Legacy
      BY <1>1, <2>2 DEF FieldsAfter, Legacy, Extended
    <3>2. values = <<s.flag, s.signature, s.create, s.added>>
      BY <1>3, <2>2, <3>1
    <3>3. values = Values(spec, s)
      BY <2>2, <3>1, <3>2 DEF Values
    <3>4. at[k] = p + 3 + n
      BY <1>2, <2>2, <3>1
    <3> QED BY <1>1, <3>3, <3>4 DEF Refused
  <2>3. CASE spec # Legacy /\ spec # Extended
    <3>1. k = 3
      BY <1>1, <2>3 DEF FieldsAfter
    <3>2. values = <<s.flag, s.signature, s.create>>
      BY <1>3, <2>3, <3>1
    <3>3. values = Values(spec, s)
      BY <2>3, <3>2 DEF Values
    <3>4. at[k] = p + 2 + n
      BY <1>2, <2>3, <3>1
    <3> QED BY <1>1, <3>3, <3>4 DEF Refused
  <2> QED BY <2>1, <2>2, <2>3
<1>5. values = Slices(spec, tx, p) /\ at[k] = FieldsEnd(spec, tx, p)
  BY DEF at, k, l, Value, Decoded, Slices, FieldsEnd
<1> QED BY <1>4, <1>5 DEF s

\* Settings that are there are decoded from the call.
LEMMA SomeSettings ==
    ASSUME NEW spec, NEW tx, NEW q, tx[q] # 0
    PROVE  dispatch_settings(spec, tx, q) =
               IF FieldsEnd(spec, tx, q + 1) = Refused THEN NoValues
               ELSE Slices(spec, tx, q + 1)
BY DEF dispatch_settings, FieldsEnd, Slices

\* A field without a default.
Unknown(spec) ==
    \E i \in 1 .. Len(SettingsFields(spec)) :
        /\ SettingsFields(spec)[i] # "signature"
        /\ ~HasZeroDefault(spec, SettingsFields(spec)[i])

\* The others are decoded from the defaults, if there are any.
LEMMA NoneSettings ==
    ASSUME NEW spec, NEW tx, NEW q, tx[q] = 0
    PROVE  dispatch_settings(spec, tx, q) =
               IF FieldsEnd(spec, DEFAULT_SETTINGS, 2) = Refused \/ Unknown(spec)
               THEN NoValues
               ELSE Slices(spec, DEFAULT_SETTINGS, 2)
BY DEF dispatch_settings, Unknown, FieldsEnd, Slices

\* Only the further field has none.
LEMMA UnknownFields ==
    ASSUME NEW spec PROVE Unknown(spec) <=> spec = Extended
<1> DEFINE fields == SettingsFields(spec)
<1>1. \A id \in {"use_none_origin", "create_account"} : HasZeroDefault(spec, id)
  BY TypesAre DEF HasZeroDefault
<1>2. ~HasZeroDefault(spec, "added")
  <2>1. TypeOf(spec, "added") = [kind |-> "token", below |-> 8]
    BY TypesAre DEF Token
  <2> QED BY <2>1 DEF HasZeroDefault, Token
<1>3. /\ Len(fields) = 2 + FieldsAfter(spec)
      /\ fields[1] = "use_none_origin" /\ fields[2] = "signature"
      /\ spec # Legacy => fields[3] = "create_account"
      /\ spec = Extended => fields[4] = "added"
  BY FieldsAre
<1>4. Unknown(spec) <=>
          \E i \in 1 .. Len(fields) : fields[i] # "signature" /\ ~HasZeroDefault(spec, fields[i])
  BY DEF Unknown
<1> HIDE DEF fields
<1>5. CASE spec = Extended
  <2>1. Len(fields) = 4
    BY <1>3, <1>5 DEF FieldsAfter, Legacy, Extended
  <2>2. 4 \in 1 .. Len(fields)
    BY <2>1
  <2>3. fields[4] = "added" /\ fields[4] # "signature"
    BY <1>3, <1>5
  <2> QED BY <1>2, <1>4, <1>5, <2>2, <2>3
<1>6. CASE spec # Extended
  <2>1. ASSUME NEW i \in 1 .. Len(fields)
        PROVE  fields[i] = "signature" \/ HasZeroDefault(spec, fields[i])
    <3>1. i = 1 \/ i = 2 \/ (i = 3 /\ spec # Legacy)
      BY <1>3, <1>6 DEF FieldsAfter
    <3> QED BY <1>1, <1>3, <3>1
  <2> QED BY <1>4, <1>6, <2>1
<1> QED BY <1>5, <1>6

\* The defaults are calls' tokens, and read as settings of a single token each.
LEMMA DefaultsRead ==
    ASSUME NEW spec
    PROVE  /\ DEFAULT_SETTINGS \in Seq(Tokens) /\ 2 \in Positions(DEFAULT_SETTINGS)
           /\ Reads(spec, DEFAULT_SETTINGS, 2, 1)
           /\ \A i \in 2 .. 9 : SubSeq(DEFAULT_SETTINGS, i, i) = <<0>>
<1> DEFINE d == DEFAULT_SETTINGS
<1>1. d \in Seq(Tokens) /\ Len(d) = 9 /\ \A i \in 2 .. 9 : d[i] = 0
  BY DEF DEFAULT_SETTINGS, Tokens
<1> HIDE DEF d
<1>2. 2 \in Positions(d)
  BY <1>1 DEF Positions
<1>3. Reads(spec, d, 2, 1)
  <2>1. d[2] = 0 /\ d[2 + 1] = 0 /\ d[2 + 1 + 1] = 0
    BY <1>1
  <2>2. 2 + 1 + FieldsAfter(spec) <= Len(d)
    BY <1>1 DEF FieldsAfter
  <2> QED BY <2>1, <2>2 DEF Reads
<1>4. ASSUME NEW i \in 2 .. 9 PROVE SubSeq(d, i, i) = <<0>>
  <2>1. i \in 1 .. Len(d) /\ d[i] = 0
    BY <1>1
  <2>2. SubSeq(d, i, i) = <<d[i]>>
    BY <1>1, <2>1, SliceOne
  <2> QED BY <2>1, <2>2
<1> QED BY <1>1, <1>2, <1>3, <1>4 DEF d

\* Values are those of the fields a runtime has.
LEMMA ValuesDiffer ==
    ASSUME NEW spec, NEW s, NEW t, s.flag = t.flag, s.signature = t.signature,
           spec # Legacy => s.create = t.create, spec = Extended => s.added = t.added
    PROVE  Values(spec, s) = Values(spec, t) /\ Values(spec, s) # NoValues
BY DEF Values, NoValues

\* None is decoded as the defaults.
LEMMA NoneDecoded ==
    ASSUME NEW spec, NEW tx, NEW q, tx[q] = 0
    PROVE  dispatch_settings(spec, tx, q) =
               IF spec = Extended THEN NoValues ELSE Values(spec, Default(spec))
<1> DEFINE d == DEFAULT_SETTINGS
           s == FieldsFrom(d, 2, 1)
<1>1. /\ d \in Seq(Tokens) /\ 2 \in Positions(d) /\ Reads(spec, d, 2, 1)
      /\ \A i \in 2 .. 9 : SubSeq(d, i, i) = <<0>>
  BY DefaultsRead
<1>2. dispatch_settings(spec, tx, q) =
          IF FieldsEnd(spec, d, 2) = Refused \/ spec = Extended THEN NoValues
          ELSE Slices(spec, d, 2)
  BY NoneSettings, UnknownFields
<1> HIDE DEF d
<1>3. FieldsEnd(spec, d, 2) # Refused /\ Slices(spec, d, 2) = Values(spec, s)
  BY <1>1, ValuesWalked
<1>4. /\ s.flag = <<0>> /\ s.signature = <<0>> /\ s.create = <<0>>
  BY <1>1 DEF FieldsFrom
<1>5. /\ Default(spec).flag = <<0>> /\ Default(spec).signature = <<0>>
      /\ spec # Legacy => Default(spec).create = <<0>>
  BY DEF Default
<1> HIDE DEF s
<1>6. spec # Extended => Values(spec, s) = Values(spec, Default(spec))
  BY <1>4, <1>5, ValuesDiffer
<1> QED BY <1>2, <1>3, <1>6

\* Settings that read to the end are decoded as what they read as.
LEMMA SomeDecoded ==
    ASSUME NEW spec, NEW tx \in Seq(Tokens), NEW q \in 1 .. Len(tx), NEW n \in {1, 3},
           ReadsToEnd(spec, tx, q, n)
    PROVE  dispatch_settings(spec, tx, q) = Values(spec, FieldsAt(spec, tx, q, n))
<1> DEFINE p == q + 1
           s == FieldsFrom(tx, p, n)
           t == FieldsAt(spec, tx, q, n)
<1>1. /\ q \in Nat \ {0} /\ Len(tx) \in Nat /\ p \in Positions(tx)
      /\ tx[q] # 0 /\ Reads(spec, tx, p, n) /\ q + 1 + n + FieldsAfter(spec) = Len(tx)
  BY DEF ReadsToEnd, Positions
<1>2. dispatch_settings(spec, tx, q) =
          IF FieldsEnd(spec, tx, p) = Refused THEN NoValues ELSE Slices(spec, tx, p)
  BY <1>1, SomeSettings
<1>3. s.flag = t.flag /\ s.signature = t.signature
  <2>1. p + 1 = q + 2 /\ p + n = q + 1 + n
    BY <1>1
  <2> QED BY <2>1 DEF FieldsAt, FieldsFrom
<1>4. ASSUME spec # Legacy PROVE s.create = t.create
  <2>1. p + 1 + n = q + 2 + n /\ p + 1 + n = q + 1 + n + 1
    BY <1>1
  <2> QED BY <1>4, <2>1 DEF FieldsAt, FieldsFrom
<1>5. ASSUME spec = Extended PROVE s.added = t.added
  <2>1. FieldsAfter(spec) = 2 /\ spec # Legacy
    BY <1>5 DEF FieldsAfter, Legacy, Extended
  <2>2. p + 2 + n = q + 2 + n + 1 /\ p + 2 + n = Len(tx)
    BY <1>1, <2>1
  <2> QED BY <2>1, <2>2 DEF FieldsAt, FieldsFrom
<1> HIDE DEF p
<1>6. FieldsEnd(spec, tx, p) # Refused /\ Slices(spec, tx, p) = Values(spec, s)
  BY <1>1, ValuesWalked
<1> HIDE DEF s, t
<1>7. Values(spec, s) = Values(spec, t)
  BY <1>3, <1>4, <1>5, ValuesDiffer
<1> QED BY <1>2, <1>6, <1>7 DEF t

\* The grammar's None.
LEMMA NoneRead ==
    ASSUME NEW spec, NEW tx, NEW q, tx[q] = 0
    PROVE  SettingsAt(spec, tx, q) =
               IF q = Len(tx) /\ spec # Extended THEN {Default(spec)} ELSE {}
<1>1. SettingsAt(spec, tx, q) = IF q = Len(tx) THEN Defaults(spec) ELSE {}
  BY DEF SettingsAt
<1>2. Defaults(spec) = IF spec = Extended THEN {} ELSE {Default(spec)}
  BY DEF Defaults, Default
<1> QED BY <1>1, <1>2

\* Settings of the grammar are of the runtime's types.
LEMMA SettingsTyped ==
    ASSUME NEW spec, NEW tx \in Seq(Tokens), NEW q \in 1 .. Len(tx),
           NEW s \in SettingsAt(spec, tx, q)
    PROVE  s \in Settings(spec)
<1>1. CASE tx[q] = 0
  <2>1. s = Default(spec) /\ spec # Extended
    BY <1>1, NoneRead
  <2>2. <<0>> \in Bits /\ <<0>> \in Signatures(spec)
    BY DEF Bits, Signatures
  <2> QED BY <2>1, <2>2 DEF Default, Settings
<1>2. CASE tx[q] # 0
  BY <1>2 DEF SettingsAt
<1> QED BY <1>1, <1>2

\* Settings of the grammar end with the call, and are what the code decodes.
LEMMA ReadIsDecoded ==
    ASSUME NEW spec, NEW tx \in Seq(Tokens), NEW q \in 1 .. Len(tx),
           NEW s \in SettingsAt(spec, tx, q)
    PROVE  /\ Measure(spec, tx)[MAX_NESTING + 1]["settings"][q] = Len(tx) + 1
           /\ dispatch_settings(spec, tx, q) = Values(spec, s)
<1>1. CASE tx[q] = 0
  <2>1. q = Len(tx) /\ s = Default(spec) /\ spec # Extended
    BY <1>1, NoneRead
  <2> QED BY <1>1, <2>1, NoneDecoded, SettingsEndRead
<1>2. CASE tx[q] # 0
  <2>1. PICK n \in {1, 3} : ReadsToEnd(spec, tx, q, n) /\ s = FieldsAt(spec, tx, q, n)
    BY <1>2, SettingsRead
  <2>2. dispatch_settings(spec, tx, q) = Values(spec, s)
    BY <2>1, SomeDecoded
  <2> QED BY <2>1, <2>2, SettingsEndRead
<1> QED BY <1>1, <1>2

\* And what the code decodes up to the end of the call is what the grammar has.
LEMMA DecodedIsRead ==
    ASSUME NEW spec, NEW tx \in Seq(Tokens), NEW q \in 1 .. Len(tx),
           Measure(spec, tx)[MAX_NESTING + 1]["settings"][q] = Len(tx) + 1,
           dispatch_settings(spec, tx, q) # NoValues
    PROVE  \E s : s \in SettingsAt(spec, tx, q)
<1>1. CASE tx[q] = 0
  <2>1. spec # Extended
    BY <1>1, NoneDecoded
  <2>2. \A n : ~ReadsToEnd(spec, tx, q, n)
    BY <1>1 DEF ReadsToEnd
  <2>3. q = Len(tx)
    BY <2>2, SettingsEndRead
  <2> QED BY <1>1, <2>1, <2>3, NoneRead
<1>2. CASE tx[q] # 0
  <2>1. PICK n \in {1, 3} : ReadsToEnd(spec, tx, q, n)
    BY <1>2, SettingsEndRead
  <2> QED BY <1>2, <2>1, SettingsRead
<1> QED BY <1>1, <1>2

-----------------------------------------------------------------------------
(* Encoding.                                                               *)

\* Values joined one by one to what precedes them.
Joins(x, v, y) == y[0] = x /\ \A n \in 1 .. Len(v) : y[n] = y[n - 1] \o v[n]

\* That is as good as joining them to each other first.
LEMMA JoinedAtOnce ==
    ASSUME NEW x, NEW v, NEW y, x \in Seq(Tokens), v \in Seq(Seq(Tokens)), Joins(x, v, y)
    PROVE  x \o Concatenated(v) = y[Len(v)] /\ y[Len(v)] \in Seq(Tokens)
<1> DEFINE k == Len(v)
<1>1. k \in Nat /\ \A n \in 1 .. k : v[n] \in Seq(Tokens)
  OBVIOUS
<1>2. PICK f : /\ Concatenated(v) = f[k]
               /\ f[0] = <<>>
               /\ \A n \in 1 .. k : f[n] = f[n - 1] \o v[n]
  BY <1>1, ConcatenatedIs
<1>3. y[0] = x /\ \A n \in 1 .. k : y[n] = y[n - 1] \o v[n]
  BY DEF Joins
<1> HIDE DEF k
<1> DEFINE Both(n, m) == f[n] = f[m] \o v[n] /\ y[n] = y[m] \o v[n]
<1>8. \A n, m : n \in 1 .. k /\ m = n - 1 => Both(n, m)
  BY <1>2, <1>3
<1> HIDE DEF Both
<1> DEFINE Same(n) == f[n] \in Seq(Tokens) /\ y[n] \in Seq(Tokens) /\ x \o f[n] = y[n]
           S == {n \in Nat : n <= k => Same(n)}
<1>4. 0 \in S
  <2>1. <<>> \in Seq(Tokens) /\ x \o <<>> = x
    BY ConcatEmptySeq
  <2> QED BY <1>2, <1>3, <2>1
<1>5. ASSUME NEW n \in S PROVE n + 1 \in S
  <2> SUFFICES ASSUME n + 1 <= k PROVE Same(n + 1)
    OBVIOUS
  <2> DEFINE p == f[n]
             q == y[n]
             w == v[n + 1]
  <2>1. n + 1 \in 1 .. k /\ n + 1 - 1 = n /\ n <= k
    BY <1>1
  <2>2. p \in Seq(Tokens) /\ q \in Seq(Tokens) /\ x \o p = q
    BY <2>1
  <2>3. f[n + 1] = p \o w /\ y[n + 1] = q \o w /\ w \in Seq(Tokens)
    <3> DEFINE j == n + 1
    <3>1. j \in 1 .. k /\ n = j - 1
      BY <2>1
    <3> HIDE DEF j
    <3>2. Both(j, n)
      BY <1>8, <3>1
    <3>3. Both(n + 1, n)
      BY <3>2 DEF j
    <3> QED BY <1>1, <2>1, <3>3 DEF Both
  <2> HIDE DEF p, q, w
  <2>4. (x \o p) \o w = x \o (p \o w)
    <3>1. p \in Seq(Tokens) /\ w \in Seq(Tokens)
      BY <2>2, <2>3
    <3> QED BY <3>1, ConcatAssociative
  <2>5. p \o w \in Seq(Tokens) /\ q \o w \in Seq(Tokens)
    BY <2>2, <2>3, ConcatProperties
  <2> QED BY <2>2, <2>3, <2>4, <2>5
<1>6. S = Nat
  <2> HIDE DEF S
  <2> QED BY <1>4, <1>5, SetInduction DEF S
<1>7. Same(k)
  <2>1. k \in S
    BY <1>1, <1>6
  <2> HIDE DEF Same
  <2> QED BY <2>1
<1> QED BY <1>2, <1>7 DEF k

\* The signature is the second field.
LEMMA SignatureSecond ==
    ASSUME NEW spec
    PROVE  (CHOOSE i \in 1 .. Len(SettingsFields(spec)) :
                SettingsFields(spec)[i] = "signature") = 2
<1> DEFINE fields == SettingsFields(spec)
<1>1. /\ Len(fields) = 2 + FieldsAfter(spec)
      /\ fields[1] = "use_none_origin" /\ fields[2] = "signature"
      /\ spec # Legacy => fields[3] = "create_account"
      /\ spec = Extended => fields[4] = "added"
  BY FieldsAre
<1> HIDE DEF fields
<1>2. 2 \in 1 .. Len(fields) /\ fields[2] = "signature"
  BY <1>1 DEF FieldsAfter
<1>3. ASSUME NEW i \in 1 .. Len(fields), fields[i] = "signature" PROVE i = 2
  <2>1. i = 1 \/ i = 2 \/ (i = 3 /\ spec # Legacy) \/ (i = 4 /\ spec = Extended)
    BY <1>1 DEF FieldsAfter, Legacy, Extended
  <2> QED BY <1>1, <1>3, <2>1
<1>4. (CHOOSE i \in 1 .. Len(fields) : fields[i] = "signature") = 2
  BY <1>2, <1>3
<1> QED BY <1>4 DEF fields

\* The settings with another signature.
Signed(s, n) == [s EXCEPT !.signature = <<1, n, Expiry>>]

\* Bits are tokens.
LEMMA BitsAreTokens == ASSUME NEW b \in Bits PROVE b \in Seq(Tokens)
<1>1. PICK i \in {0, 1} : b = <<i>>
  BY DEF Bits
<1>2. i \in Tokens
  BY DEF Tokens
<1> QED BY <1>1, <1>2

\* So are words.
LEMMA WordsAreTokens == ASSUME NEW w \in Words PROVE w \in Seq(Tokens)
<1>1. PICK i \in Tokens : w = <<i>>
  BY DEF Words
<1> QED BY <1>1

\* Settings of the grammar are encoded as themselves but for the signature, and
\* not at all without room for one.
LEMMA Encodes ==
    ASSUME NEW spec, spec # Retyped, NEW s \in Settings(spec), NEW n \in Tokens
    PROVE  /\ encode_settings(spec, Values(spec, s), n) = Encoded(Signed(s, n))
           /\ Encoded(Signed(s, n)) \in Seq(Tokens)
<1> DEFINE one == <<1>>
           new == <<1, n, Expiry>>
           f == s.flag
           c == s.create
           a == s.added
           values == [Values(spec, s) EXCEPT ![2] = new]
<1>1. /\ one \in Seq(Tokens) /\ new \in Seq(Tokens) /\ f \in Seq(Tokens)
      /\ IF spec = Legacy THEN c = <<>> ELSE c \in Bits
      /\ IF spec = Extended THEN a \in Words ELSE a = <<>>
  <2>1. one \in Seq(Tokens)
    BY DEF Tokens
  <2>2. new \in Seq(Tokens)
    BY DEF Tokens, Expiry
  <2>3. /\ f \in Bits
        /\ c \in IF spec = Legacy THEN {<<>>} ELSE Bits
        /\ a \in IF spec = Extended THEN Words ELSE {<<>>}
    BY DEF Settings
  <2> HIDE DEF f, c, a, new, one
  <2>4. f \in Seq(Tokens)
    BY <2>3, BitsAreTokens
  <2>5. IF spec = Legacy THEN c = <<>> ELSE c \in Bits
    BY <2>3
  <2>6. IF spec = Extended THEN a \in Words ELSE a = <<>>
    BY <2>3
  <2> QED BY <2>1, <2>2, <2>4, <2>5, <2>6
<1>2. c \in Seq(Tokens) /\ a \in Seq(Tokens)
  <2> HIDE DEF c, a
  <2>1. <<>> \in Seq(Tokens)
    OBVIOUS
  <2>2. c \in Bits \/ c = <<>>
    BY <1>1
  <2>3. a \in Words \/ a = <<>>
    BY <1>1
  <2>4. c \in Seq(Tokens)
    BY <2>1, <2>2, BitsAreTokens
  <2>5. a \in Seq(Tokens)
    BY <2>1, <2>3, WordsAreTokens
  <2> QED BY <2>4, <2>5
<1>3. encode_settings(spec, Values(spec, s), n) = one \o Concatenated(values)
  <2>1. TypeOf(spec, "signature") = OptionOf("expirable")
    BY TypesAre
  <2> HIDE DEF values
  <2> QED BY <2>1, SignatureSecond DEF encode_settings, values
<1>4. Encoded(Signed(s, n)) = (((one \o f) \o new) \o c) \o a
  <2>1. /\ Signed(s, n).flag = f /\ Signed(s, n).signature = new
        /\ Signed(s, n).create = c /\ Signed(s, n).added = a
    BY DEF Signed, Settings
  <2> HIDE DEF f, new, c, a
  <2> QED BY <2>1 DEF Encoded
<1> HIDE DEF one, new, f, c, a
<1>5. /\ ((one \o f) \o new) \in Seq(Tokens) /\ ((one \o f) \o new) \o c \in Seq(Tokens)
      /\ (((one \o f) \o new) \o c) \o a \in Seq(Tokens)
  BY <1>1, <1>2, ConcatProperties
<1>6. \A e \in Seq(Tokens) : e \o <<>> = e
  BY ConcatEmptySeq
<1> DEFINE y == [i \in 0 .. 4 |->
                    IF i = 0 THEN one
                    ELSE IF i = 1 THEN one \o f
                    ELSE IF i = 2 THEN (one \o f) \o new
                    ELSE IF i = 3 THEN ((one \o f) \o new) \o c
                    ELSE (((one \o f) \o new) \o c) \o a]
<1>7. /\ values = IF spec = Legacy THEN <<f, new>>
                  ELSE IF spec = Extended THEN <<f, new, c, a>>
                  ELSE <<f, new, c>>
      /\ values \in Seq(Seq(Tokens))
  <2>1. values = IF spec = Legacy THEN <<f, new>>
                 ELSE IF spec = Extended THEN <<f, new, c, a>>
                 ELSE <<f, new, c>>
    BY DEF Values, f, c, a
  <2> HIDE DEF values
  <2> QED BY <1>1, <1>2, <2>1
<1> HIDE DEF values
<1>8. Joins(one, values, y)
  <2>1. /\ y[0] = one /\ y[1] = y[0] \o f /\ y[2] = y[1] \o new /\ y[3] = y[2] \o c
        /\ y[4] = y[3] \o a
    OBVIOUS
  <2> HIDE DEF y
  <2>2. ASSUME NEW i \in 1 .. Len(values) PROVE y[i] = y[i - 1] \o values[i]
    <3>1. CASE spec = Legacy
      <4>1. values = <<f, new>>
        BY <1>7, <3>1
      <4>2. (i = 1 /\ i - 1 = 0 /\ values[i] = f) \/ (i = 2 /\ i - 1 = 1 /\ values[i] = new)
        BY <4>1
      <4> QED BY <2>1, <4>2
    <3>2. CASE spec = Extended
      <4>1. values = <<f, new, c, a>>
        BY <1>7, <3>2 DEF Legacy, Extended
      <4>2. \/ i = 1 /\ i - 1 = 0 /\ values[i] = f
            \/ i = 2 /\ i - 1 = 1 /\ values[i] = new
            \/ i = 3 /\ i - 1 = 2 /\ values[i] = c
            \/ i = 4 /\ i - 1 = 3 /\ values[i] = a
        BY <4>1
      <4> QED BY <2>1, <4>2
    <3>3. CASE spec # Legacy /\ spec # Extended
      <4>1. values = <<f, new, c>>
        BY <1>7, <3>3
      <4>2. \/ i = 1 /\ i - 1 = 0 /\ values[i] = f
            \/ i = 2 /\ i - 1 = 1 /\ values[i] = new
            \/ i = 3 /\ i - 1 = 2 /\ values[i] = c
        BY <4>1
      <4> QED BY <2>1, <4>2
    <3> QED BY <3>1, <3>2, <3>3
  <2> QED BY <2>1, <2>2 DEF Joins
<1>9. one \o Concatenated(values) = y[Len(values)]
  <2> HIDE DEF y
  <2>1. one \in Seq(Tokens) /\ values \in Seq(Seq(Tokens))
    BY <1>1, <1>7
  <2> QED BY <1>8, <2>1, JoinedAtOnce
<1>10. y[Len(values)] = (((one \o f) \o new) \o c) \o a
  <2>1. CASE spec = Legacy
    <3>1. Len(values) = 2 /\ c = <<>> /\ a = <<>>
      BY <1>1, <1>7, <2>1 DEF Legacy, Extended
    <3> QED BY <1>5, <1>6, <3>1
  <2>2. CASE spec = Extended
    <3>1. Len(values) = 4
      BY <1>7, <2>2 DEF Legacy, Extended
    <3> QED BY <3>1
  <2>3. CASE spec # Legacy /\ spec # Extended
    <3>1. Len(values) = 3 /\ a = <<>>
      BY <1>1, <1>7, <2>3
    <3> QED BY <1>5, <1>6, <3>1
  <2> QED BY <2>1, <2>2, <2>3
<1> QED BY <1>3, <1>4, <1>5, <1>9, <1>10

-----------------------------------------------------------------------------
(* Signing.                                                                *)

\* Ends that are never before where they start.
Advance(tx, sets) == \A p \in Positions(tx) : \A q \in sets[p] : q \in Positions(tx) /\ q >= p

\* As many calls in a row end no earlier than they start.
LEMMA RowsAdvance ==
    ASSUME NEW tx, NEW sets, NEW after, NEW k, NEW from, k \in Nat, from \in Positions(tx),
           Advance(tx, sets), Collects(after, sets, k, from)
    PROVE  \A q \in after[k] : q \in Positions(tx) /\ q >= from
<1> DEFINE Beyond(i) == \A q \in after[i] : q \in Positions(tx) /\ q >= from
           S == {i \in Nat : i <= k => Beyond(i)}
<1>1. after[0] = {from} /\ \A i \in 1 .. k : after[i] = UNION {sets[p] : p \in after[i - 1]}
  BY DEF Collects
<1>2. Positions(tx) \subseteq Int
  BY DEF Positions
<1>3. 0 \in S
  BY <1>1, <1>2
<1>4. ASSUME NEW i \in S PROVE i + 1 \in S
  <2> SUFFICES ASSUME i + 1 <= k PROVE Beyond(i + 1)
    OBVIOUS
  <2>1. Beyond(i) /\ i + 1 \in 1 .. k /\ i + 1 - 1 = i
    OBVIOUS
  <2>2. after[i + 1] = UNION {sets[p] : p \in after[i]}
    BY <1>1, <2>1
  <2> SUFFICES ASSUME NEW q \in after[i + 1] PROVE q \in Positions(tx) /\ q >= from
    OBVIOUS
  <2>3. PICK p \in after[i] : q \in sets[p]
    BY <2>2
  <2>4. p \in Positions(tx) /\ p >= from
    BY <2>1
  <2>5. q \in Positions(tx) /\ q >= p
    BY <2>3, <2>4 DEF Advance
  <2> QED BY <1>2, <2>4, <2>5
<1>5. S = Nat
  <2> HIDE DEF S
  <2> QED BY <1>3, <1>4, SetInduction DEF S
<1>6. k \in S
  BY <1>5
<1> QED BY <1>6

\* A call ends no earlier than it starts.
LEMMA CallsAdvance ==
    ASSUME NEW tx \in Seq(Tokens), NEW n \in 0 .. MAX_NESTING + 1
    PROVE  Advance(tx, CallEnds(tx)[n])
<1> DEFINE C == CallEnds(tx)
           Good(l) == Advance(tx, C[l])
           S == {m \in Nat : \A l \in 0 .. m : l <= MAX_NESTING + 1 => Good(l)}
<1>1. ASSUME NEW l \in 0 .. MAX_NESTING + 1, l < 3 PROVE Good(l)
  <2>1. \A p \in Positions(tx) : C[l][p] = {}
    BY <1>1, CallEndsIs DEF CALL_LEVELS
  <2> QED BY <2>1 DEF Advance
<1>2. ASSUME NEW l \in 3 .. MAX_NESTING + 1, Good(l - 3) PROVE Good(l)
  <2> SUFFICES ASSUME NEW p \in Positions(tx), NEW q \in C[l][p]
               PROVE  q \in Positions(tx) /\ q >= p
    BY DEF Advance
  <2>1. l \in 0 .. MAX_NESTING + 1 /\ ~(l < 3) /\ p \in Nat /\ Len(tx) \in Nat
    BY DEF Positions
  <2>2. C[l][p] = RemarkEnds(tx, l, p) \cup BatchEnds(tx, C[l - 3], p)
    BY <2>1, CallEndsIs DEF CALL_LEVELS
  <2>3. CASE q \in RemarkEnds(tx, l, p)
    <3>1. q \in Positions(tx) /\ q = p + 3 + tx[p + 2] /\ p + 2 \in 1 .. Len(tx)
      BY <2>1, <2>3 DEF RemarkEnds
    <3>2. tx[p + 2] \in Nat
      BY <3>1 DEF Tokens
    <3> QED BY <2>1, <3>1, <3>2
  <2>4. CASE q \in BatchEnds(tx, C[l - 3], p)
    <3> DEFINE k == tx[p + 2]
               sets == C[l - 3]
               after == AfterMany(sets, k, p + 3)
    <3>1. p + 2 \in 1 .. Len(tx) /\ q \in after[k]
      BY <2>1, <2>4 DEF BatchEnds
    <3>2. k \in Nat /\ p + 3 \in Positions(tx)
      BY <2>1, <3>1 DEF Tokens, Positions
    <3> HIDE DEF k
    <3>3. Collects(after, sets, k, p + 3)
      BY <3>2, AfterManyCollects
    <3>4. Advance(tx, sets)
      BY <1>2
    <3> HIDE DEF after, sets
    <3>5. q \in Positions(tx) /\ q >= p + 3
      BY <3>1, <3>2, <3>3, <3>4, RowsAdvance
    <3> QED BY <2>1, <3>5 DEF Positions
  <2> QED BY <2>2, <2>3, <2>4
<1> HIDE DEF Good
<1>3. 0 \in S
  BY <1>1, NestingAssumption
<1>4. ASSUME NEW m \in S PROVE m + 1 \in S
  <2> SUFFICES ASSUME m + 1 <= MAX_NESTING + 1 PROVE Good(m + 1)
    OBVIOUS
  <2>1. CASE m + 1 < 3
    BY <1>1, <2>1, NestingAssumption
  <2>2. CASE ~(m + 1 < 3)
    <3>1. m + 1 \in 3 .. MAX_NESTING + 1 /\ m + 1 - 3 \in 0 .. m /\ m + 1 - 3 <= MAX_NESTING + 1
      BY <2>2, NestingAssumption
    <3>2. Good(m + 1 - 3)
      BY <3>1
    <3> QED BY <1>2, <3>1, <3>2
  <2> QED BY <2>1, <2>2
<1>5. S = Nat
  <2> HIDE DEF S
  <2> QED BY <1>3, <1>4, SetInduction DEF S
<1>6. Good(n)
  <2>1. n \in Nat /\ n \in 0 .. n /\ n <= MAX_NESTING + 1
    BY NestingAssumption
  <2> QED BY <1>5, <2>1
<1> QED BY <1>6 DEF Good

\* What sign_dispatch finds, and whether it goes on with it.
At(spec, tx)     == Decoded(spec, tx, Args, 3)
Found(spec, tx)  == dispatch_settings(spec, tx, At(spec, tx)[3])
Accept(spec, tx) == ~Refuses(spec, tx, At(spec, tx), Found(spec, tx))

\* A position in the middle of a call, found for it.
Lies(spec, tx, c, q) ==
    /\ c \in CallStarts /\ c = At(spec, tx)[2]
    /\ q \in 5 .. Len(tx) /\ q = At(spec, tx)[3]

\* Settings the grammar has lie in the call, after its index.
LEMMA ReadLies ==
    ASSUME NEW spec, NEW tx \in Seq(Tokens), NEW c \in CallStarts,
           NEW q \in SettingsStarts(spec, tx, c)
    PROVE  /\ Lies(spec, tx, c, q)
           /\ CallName(spec, tx) \in {"dispatch", "dispatch_and_touch"}
<1> DEFINE n == MAX_NESTING + 1
<1>1. Finds(spec, tx, c, q)
  BY StartsAgree
<1>2. /\ c = At(spec, tx)[2] /\ q = At(spec, tx)[3]
      /\ CallName(spec, tx) \in {"dispatch", "dispatch_and_touch"}
  BY <1>1 DEF Finds, At
<1>3. c <= Len(tx) /\ q \in CallEnds(tx)[n][c] /\ q <= Len(tx)
  BY DEF SettingsStarts
<1>4. n \in 0 .. MAX_NESTING + 1 /\ c \in {5, 6} /\ c \in Positions(tx) /\ Len(tx) \in Nat
  BY <1>3, NestingAssumption DEF CallStarts, Positions
<1> HIDE DEF n
<1>5. q \in Positions(tx) /\ q >= c
  <2>1. Advance(tx, CallEnds(tx)[n])
    BY <1>4, CallsAdvance
  <2> QED BY <1>3, <1>4, <2>1 DEF Advance
<1>6. q \in 5 .. Len(tx)
  BY <1>3, <1>4, <1>5 DEF Positions
<1> QED BY <1>2, <1>6 DEF Lies

\* A call that has a reading is accepted, and decoded as that reading.
LEMMA ReadIsAccepted ==
    ASSUME NEW spec, NEW tx \in Seq(Tokens), NEW c \in CallStarts,
           NEW q \in SettingsStarts(spec, tx, c), NEW s \in SettingsAt(spec, tx, q)
    PROVE  /\ Accept(spec, tx)
           /\ Lies(spec, tx, c, q)
           /\ Found(spec, tx) = Values(spec, s)
<1> DEFINE M == Measure(spec, tx)[MAX_NESTING + 1]
           at == At(spec, tx)
<1>1. /\ Lies(spec, tx, c, q)
      /\ CallName(spec, tx) \in {"dispatch", "dispatch_and_touch"}
  BY ReadLies
<1>2. q \in 1 .. Len(tx) /\ q # Refused /\ q = at[3] /\ Len(tx) >= 2
  BY <1>1 DEF Lies, Refused
<1>3. at[4] = IF at[3] = Refused THEN Refused ELSE M["settings"][at[3]]
  BY <1>2, ArgsEnd DEF At
<1>4. M["settings"][q] = Len(tx) + 1 /\ dispatch_settings(spec, tx, q) = Values(spec, s)
  BY <1>2, ReadIsDecoded
<1> HIDE DEF M, at
<1>5. at[4] = Len(tx) + 1
  BY <1>2, <1>3, <1>4
<1>6. Found(spec, tx) = Values(spec, s)
  BY <1>2, <1>4 DEF Found, at
<1>7. Values(spec, s) # NoValues
  BY DEF Values, NoValues
<1>8. ~Refuses(spec, tx, at, Found(spec, tx))
  BY <1>1, <1>5, <1>6, <1>7 DEF Refuses
<1> QED BY <1>1, <1>6, <1>8 DEF Accept, at

\* A call that is accepted has a reading.
LEMMA AcceptedIsRead ==
    ASSUME NEW spec, NEW tx \in Seq(Tokens), Accept(spec, tx)
    PROVE  \E c \in CallStarts : \E q \in SettingsStarts(spec, tx, c) :
               \E s : s \in SettingsAt(spec, tx, q)
<1> DEFINE l == MAX_NESTING + 1
           M == Measure(spec, tx)[l]
           at == At(spec, tx)
           c == at[2]
           q == at[3]
<1>1. /\ CallName(spec, tx) \in {"dispatch", "dispatch_and_touch"}
      /\ at[4] = Len(tx) + 1
      /\ dispatch_settings(spec, tx, q) # NoValues
  BY DEF Accept, Refuses, Found
<1>2. Len(tx) >= 2 /\ Len(tx) \in Nat
  BY <1>1, DispatchNamed
<1>3. at[2] = IF 4 <= Len(tx) /\ (spec = Legacy \/ tx[4] = 0) THEN 5
              ELSE IF spec # Legacy /\ 5 <= Len(tx) /\ tx[4] = 1 THEN 6
              ELSE Refused
  BY <1>2, ArgsEnd DEF At
<1>4. at[3] = IF at[2] = Refused THEN Refused ELSE M["call"][at[2]]
  BY <1>2, ArgsEnd DEF At
<1>5. at[4] = IF at[3] = Refused THEN Refused ELSE M["settings"][at[3]]
  BY <1>2, ArgsEnd DEF At
<1>6. l \in 0 .. MAX_NESTING + 1
  BY NestingAssumption
<1> HIDE DEF at, l
<1>7. q # Refused /\ M["settings"][q] = Len(tx) + 1
  BY <1>1, <1>2, <1>5 DEF Refused
<1>8. c # Refused /\ q = M["call"][c]
  BY <1>4, <1>7
<1>9. (c = 5 /\ 4 <= Len(tx)) \/ (c = 6 /\ 5 <= Len(tx))
  BY <1>3, <1>8
<1>10. c \in Positions(tx)
  BY <1>2, <1>9 DEF Positions
<1> HIDE DEF c, q
<1>11. q \in Positions(tx)
  <2>1. M["call"][c] \in Positions(tx) \cup {Refused}
    BY <1>6, <1>10, CallsAgree
  <2> QED BY <1>7, <1>8, <2>1
<1>12. q \in 1 .. Len(tx)
  <2>1. CASE q <= Len(tx)
    BY <1>11, <2>1 DEF Positions
  <2>2. CASE ~(q <= Len(tx))
    <3>1. M["settings"][q] = Refused
      BY <1>11, <2>2, SettingsEnd DEF l
    <3> QED BY <1>2, <1>7, <3>1 DEF Refused
  <2> QED BY <2>1, <2>2
<1>13. Finds(spec, tx, c, q)
  BY <1>1, <1>7, <1>8, <1>12 DEF Finds, At, at, c, q
<1>14. c \in CallStarts /\ q \in SettingsStarts(spec, tx, c)
  BY <1>13, StartsAgree
<1>15. \E s : s \in SettingsAt(spec, tx, q)
  <2>1. Measure(spec, tx)[MAX_NESTING + 1]["settings"][q] = Len(tx) + 1
    BY <1>7 DEF l
  <2>2. dispatch_settings(spec, tx, q) # NoValues
    BY <1>1 DEF q
  <2> QED BY <1>12, <2>1, <2>2, DecodedIsRead
<1> QED BY <1>14, <1>15

\* The message and the payload of a call that is not refused.
LEMMA SignDispatchIs ==
    ASSUME NEW spec, NEW tx
    PROVE  sign_dispatch(spec, tx) =
               IF ~Accept(spec, tx) \/ encode_settings(spec, Found(spec, tx), 0) = <<>>
               THEN RefusedCall
               ELSE [message |-> SubSeq(tx, At(spec, tx)[2], At(spec, tx)[3] - 1)
                                     \o <<PublicKey, Expiry>>,
                     payload |-> SubSeq(tx, 1, At(spec, tx)[3] - 1)
                                     \o encode_settings(spec, Found(spec, tx), Signature)]
BY DEF sign_dispatch, Accept, Found, At

\* A runtime whose signature is no option of one has no room for it.
LEMMA RetypedHasNoRoom ==
    ASSUME NEW v, NEW n PROVE encode_settings(Retyped, v, n) = <<>>
<1>1. TypeOf(Retyped, "signature") = [kind |-> "token", below |-> 2]
  BY TypesAre DEF Token
<1>2. OptionOf("expirable").kind = "variant"
  BY DEF OptionOf, Variant
<1>3. TypeOf(Retyped, "signature") # OptionOf("expirable")
  BY <1>1, <1>2
<1> QED BY <1>3 DEF encode_settings

\* Any other has, and something is encoded.
LEMMA OthersHaveRoom ==
    ASSUME NEW spec, spec # Retyped, NEW s \in Settings(spec), NEW n \in Tokens
    PROVE  encode_settings(spec, Values(spec, s), n) # <<>>
<1> DEFINE e == encode_settings(spec, Values(spec, s), n)
           one == <<1>>
           p == Signed(s, n)
<1>1. e = Encoded(p) /\ e \in Seq(Tokens)
  BY Encodes
<1>2. Encoded(p) = (((one \o p.flag) \o p.signature) \o p.create) \o p.added
  BY DEF Encoded
<1>3. p.flag \in Seq(Tokens) /\ p.signature \in Seq(Tokens)
  <2>1. p.flag = s.flag /\ s.flag \in Bits /\ p.signature = <<1, n, Expiry>>
    BY DEF Signed, Settings
  <2>2. <<1, n, Expiry>> \in Seq(Tokens)
    BY DEF Tokens, Expiry
  <2> HIDE DEF p
  <2> QED BY <2>1, <2>2, BitsAreTokens
<1>4. p.create \in Seq(Tokens) /\ p.added \in Seq(Tokens)
  <2>1. /\ p.create \in IF spec = Legacy THEN {<<>>} ELSE Bits
        /\ p.added \in IF spec = Extended THEN Words ELSE {<<>>}
    BY DEF Signed, Settings
  <2> HIDE DEF p
  <2>2. <<>> \in Seq(Tokens)
    OBVIOUS
  <2>3. p.create \in Bits \/ p.create = <<>>
    BY <2>1
  <2>4. p.added \in Words \/ p.added = <<>>
    BY <2>1
  <2>5. p.create \in Seq(Tokens)
    BY <2>2, <2>3, BitsAreTokens
  <2>6. p.added \in Seq(Tokens)
    BY <2>2, <2>4, WordsAreTokens
  <2> QED BY <2>5, <2>6
<1>5. one \in Seq(Tokens) /\ Len(one) = 1
  BY DEF Tokens
<1> HIDE DEF e, p, one
<1>6. Len(e) >= 1
  <2> DEFINE a == one \o p.flag
             b == a \o p.signature
             c == b \o p.create
  <2>1. a \in Seq(Tokens) /\ Len(a) = Len(one) + Len(p.flag) /\ Len(p.flag) \in Nat
    BY <1>3, <1>5, ConcatProperties, LenProperties
  <2> HIDE DEF a
  <2>2. b \in Seq(Tokens) /\ Len(b) = Len(a) + Len(p.signature) /\ Len(p.signature) \in Nat
    BY <1>3, <2>1, ConcatProperties, LenProperties
  <2> HIDE DEF b
  <2>3. c \in Seq(Tokens) /\ Len(c) = Len(b) + Len(p.create) /\ Len(p.create) \in Nat
    BY <1>4, <2>2, ConcatProperties, LenProperties
  <2> HIDE DEF c
  <2>4. Len(c \o p.added) = Len(c) + Len(p.added) /\ Len(p.added) \in Nat
    BY <1>4, <2>3, ConcatProperties, LenProperties
  <2>5. e = c \o p.added
    BY <1>1, <1>2 DEF a, b, c
  <2>6. Len(c) = 1 + Len(p.flag) + Len(p.signature) + Len(p.create)
    BY <1>5, <2>1, <2>2, <2>3
  <2> HIDE DEF c
  <2>7. Len(e) = Len(c) + Len(p.added)
    BY <2>4, <2>5
  <2> DEFINE w == Len(p.flag)
             x == Len(p.signature)
             y == Len(p.create)
             z == Len(p.added)
  <2>8. Len(e) = 1 + w + x + y + z /\ w \in Nat /\ x \in Nat /\ y \in Nat /\ z \in Nat
    BY <2>1, <2>2, <2>3, <2>4, <2>6, <2>7
  <2> HIDE DEF w, x, y, z
  <2> QED BY <2>8
<1>7. Len(<<>>) = 0
  OBVIOUS
<1> QED BY <1>6, <1>7 DEF e

\* What replaces a call's settings leaves it the call it is.
LEMMA StaysTheCall ==
    ASSUME NEW spec, NEW tx \in Seq(Tokens), NEW q \in 5 .. Len(tx), NEW e \in Seq(Tokens),
           CallName(spec, tx) \in {"dispatch", "dispatch_and_touch"}
    PROVE  /\ IsCall(spec, SubSeq(tx, 1, q - 1) \o e)
           /\ SubSeq(tx, 1, q - 1) \o e # <<>>
<1> DEFINE a == SubSeq(tx, 1, q - 1)
           new == a \o e
<1>1. q - 1 \in Nat /\ q - 1 <= Len(tx) /\ q - 1 >= 4 /\ Len(tx) \in Nat
  OBVIOUS
<1>2. /\ a \in Seq(Tokens) /\ Len(a) = q - 1
      /\ \A i \in 1 .. q - 1 : a[i] = tx[i]
  <2> DEFINE b == q - 1
  <2>1. b \in Nat /\ b <= Len(tx) /\ 1 <= b /\ b - 1 + 1 = b /\ \A i \in 1 .. b : 1 + i - 1 = i
    BY <1>1
  <2> HIDE DEF b
  <2>2. /\ SubSeq(tx, 1, b) \in Seq(Tokens)
        /\ Len(SubSeq(tx, 1, b)) = IF 1 <= b THEN b - 1 + 1 ELSE 0
        /\ \A i \in 1 .. b - 1 + 1 : SubSeq(tx, 1, b)[i] = tx[1 + i - 1]
    BY <2>1, Slice
  <2>3. \A i \in 1 .. b : SubSeq(tx, 1, b)[i] = tx[i]
    BY <2>1, <2>2
  <2> QED BY <2>1, <2>2, <2>3 DEF b
<1> HIDE DEF a
<1>3. /\ new \in Seq(Tokens) /\ Len(new) = Len(a) + Len(e) /\ Len(e) \in Nat
      /\ \A i \in 1 .. Len(a) + Len(e) : new[i] = IF i <= Len(a) THEN a[i] ELSE e[i - Len(a)]
  BY <1>2, ConcatProperties, LenProperties
<1> HIDE DEF new
<1>4. Len(new) >= 2 /\ new[1] = tx[1] /\ new[2] = tx[2]
  BY <1>1, <1>2, <1>3
<1>5. /\ Len(tx) >= 2
      /\ tx[1] = 2
      /\ tx[2] \in (IF spec = Legacy THEN {0, 1} ELSE {0})
  BY DispatchNamed
<1>6. CallName(spec, new) \in {"dispatch", "dispatch_and_touch"}
  BY <1>3, <1>4, <1>5, DispatchNamed
<1>7. IsCall(spec, new)
  BY <1>4, <1>6 DEF IsCall
<1>8. new # <<>>
  BY <1>4
<1> QED BY <1>7, <1>8 DEF new, a

\* What is signed and sent for a call: one of its readings, with a signature.
SignedAsRead(spec, tx, signed) ==
    \E c \in CallStarts : \E q \in SettingsStarts(spec, tx, c) :
    \E s \in SettingsAt(spec, tx, q) :
        /\ signed.message = SubSeq(tx, c, q - 1) \o <<PublicKey, Expiry>>
        /\ signed.payload = SubSeq(tx, 1, q - 1) \o Encoded(Signed(s, Signature))

\* A call has no reading.
Unread(spec, tx) ==
    \A c \in CallStarts : \A q \in SettingsStarts(spec, tx, c) : SettingsAt(spec, tx, q) = {}

\* A call that the runtime can read, and whose settings have room for a
\* signature, is signed as it is read (sign_dispatch, fuel_tank.rs:25-102).
THEOREM ReadIsSigned ==
    ASSUME NEW spec, NEW tx \in Seq(Tokens), spec # Retyped, ~Unread(spec, tx)
    PROVE  /\ SignedAsRead(spec, tx, sign_dispatch(spec, tx))
           /\ IsCall(spec, sign_dispatch(spec, tx).payload)
           /\ sign_dispatch(spec, tx).payload # <<>>
<1>1. PICK c \in CallStarts :
          \E q \in SettingsStarts(spec, tx, c) : SettingsAt(spec, tx, q) # {}
  BY DEF Unread
<1>2. PICK q \in SettingsStarts(spec, tx, c) : SettingsAt(spec, tx, q) # {}
  BY <1>1
<1>3. PICK s : s \in SettingsAt(spec, tx, q)
  BY <1>2
<1>4. Accept(spec, tx) /\ Lies(spec, tx, c, q) /\ Found(spec, tx) = Values(spec, s)
  BY <1>3, ReadIsAccepted
<1>5. CallName(spec, tx) \in {"dispatch", "dispatch_and_touch"}
  BY ReadLies
<1>6. /\ c = At(spec, tx)[2] /\ q = At(spec, tx)[3] /\ q \in 5 .. Len(tx)
  BY <1>4 DEF Lies
<1>7. s \in Settings(spec)
  <2>1. q \in 1 .. Len(tx)
    BY <1>6
  <2> QED BY <1>3, <2>1, SettingsTyped
<1>8. encode_settings(spec, Found(spec, tx), 0) # <<>>
  <2>1. 0 \in Tokens
    BY DEF Tokens
  <2> QED BY <1>4, <1>7, <2>1, OthersHaveRoom
<1>9. /\ encode_settings(spec, Found(spec, tx), Signature) = Encoded(Signed(s, Signature))
      /\ Encoded(Signed(s, Signature)) \in Seq(Tokens)
  <2>1. Signature \in Tokens
    BY DEF Tokens, Signature
  <2> QED BY <1>4, <1>7, <2>1, Encodes
<1>10. sign_dispatch(spec, tx) =
          [message |-> SubSeq(tx, c, q - 1) \o <<PublicKey, Expiry>>,
           payload |-> SubSeq(tx, 1, q - 1) \o Encoded(Signed(s, Signature))]
  BY <1>4, <1>6, <1>8, <1>9, SignDispatchIs
<1>11. /\ sign_dispatch(spec, tx).message = SubSeq(tx, c, q - 1) \o <<PublicKey, Expiry>>
       /\ sign_dispatch(spec, tx).payload =
              SubSeq(tx, 1, q - 1) \o Encoded(Signed(s, Signature))
  <2> DEFINE message == SubSeq(tx, c, q - 1) \o <<PublicKey, Expiry>>
             payload == SubSeq(tx, 1, q - 1) \o Encoded(Signed(s, Signature))
  <2>1. sign_dispatch(spec, tx) = [message |-> message, payload |-> payload]
    BY <1>10
  <2> HIDE DEF message, payload
  <2>2. sign_dispatch(spec, tx).message = message /\ sign_dispatch(spec, tx).payload = payload
    BY <2>1
  <2> QED BY <2>2 DEF message, payload
<1>12. SignedAsRead(spec, tx, sign_dispatch(spec, tx))
  BY <1>3, <1>11 DEF SignedAsRead
<1>13. /\ IsCall(spec, SubSeq(tx, 1, q - 1) \o Encoded(Signed(s, Signature)))
       /\ SubSeq(tx, 1, q - 1) \o Encoded(Signed(s, Signature)) # <<>>
  BY <1>5, <1>6, <1>9, StaysTheCall
<1> QED BY <1>11, <1>12, <1>13

\* Any other is refused before anything is signed (fuel_tank.rs:90-96).
THEOREM UnreadIsRefused ==
    ASSUME NEW spec, NEW tx \in Seq(Tokens), spec = Retyped \/ Unread(spec, tx)
    PROVE  sign_dispatch(spec, tx).message = <<>> /\ sign_dispatch(spec, tx).payload = <<>>
<1>1. ~Accept(spec, tx) \/ encode_settings(spec, Found(spec, tx), 0) = <<>>
  <2>1. CASE spec = Retyped
    BY <2>1, RetypedHasNoRoom
  <2>2. CASE Unread(spec, tx)
    BY <2>2, AcceptedIsRead DEF Unread
  <2> QED BY <2>1, <2>2
<1>2. sign_dispatch(spec, tx) = RefusedCall
  BY <1>1, SignDispatchIs
<1> QED BY <1>2 DEF RefusedCall

-----------------------------------------------------------------------------
(* The rows.                                                               *)

\* A fuel tank row at hand is one of the Platform's calls, with what came of it.
RowSigned ==
    last # NoRow /\ last.fuelTank =>
        /\ last.payload \in Payloads
        /\ last.message = SignDispatch(last.client.spec, last.payload).message
        /\ LET signed == SignDispatch(last.client.spec, last.payload).payload
           IN  last.sent = IF signed # <<>> /\ KnownCall(last.client.spec, signed)
                           THEN signed ELSE <<>>

\* It stays that from row to row.
LEMMA RowsAreSigned == Spec => []RowSigned
<1>1. Init => RowSigned
  BY DEF Init, RowSigned
<1>2. RowSigned /\ [Next]_vars => RowSigned'
  <2> SUFFICES ASSUME RowSigned, [Next]_vars PROVE RowSigned'
    OBVIOUS
  <2>1. ASSUME last' = last PROVE RowSigned'
    BY <2>1 DEF RowSigned
  <2>2. ASSUME last' = NoRow PROVE RowSigned'
    BY <2>2 DEF RowSigned
  <2>3. ASSUME NEW c \in Chains, NEW payload \in Payloads, NEW fuelTank \in BOOLEAN,
               SignRow(c, payload, fuelTank)
        PROVE  RowSigned'
    <3>1. CASE fuelTank
      <4> DEFINE signed == SignDispatch(METADATA[c].spec, payload)
      <4>1. last' = [chain |-> c, client |-> METADATA[c], fuelTank |-> fuelTank,
                     payload |-> payload, message |-> signed.message,
                     sent |-> IF /\ signed.payload # <<>>
                                 /\ KnownCall(METADATA[c].spec, signed.payload)
                              THEN signed.payload ELSE <<>>]
        BY <2>3, <3>1 DEF SignRow
      <4> QED BY <4>1 DEF RowSigned
    <3>2. CASE ~fuelTank
      <4>1. ~last'.fuelTank
        BY <2>3, <3>2 DEF SignRow
      <4> QED BY <4>1 DEF RowSigned
    <3> QED BY <3>1, <3>2
  <2>4. CASE \/ \E c \in Chains : Upgrade(c)
             \/ \E chains \in SUBSET Chains \ {{}} : Receive(chains)
             \/ \E c \in Chains : BlockAnswered(c) \/ BlockFails(c)
             \/ MetadataAnswered \/ MetadataFails \/ BatchDone \/ UNCHANGED vars
    <3>1. last' = last
      BY <2>4 DEF Upgrade, Receive, BlockAnswered, BlockFails, MetadataAnswered,
         MetadataFails, BatchDone, vars
    <3> QED BY <2>1, <3>1
  <2>5. CASE NextRow \/ Restart
    <3>1. last' = NoRow
      BY <2>5 DEF NextRow, Restart
    <3> QED BY <2>2, <3>1
  <2> QED BY <2>3, <2>4, <2>5 DEF Next
<1> QED BY <1>1, <1>2, PTL DEF Spec

\* It was signed as FuelTank signs for a runtime that its chain has had.
LEMMA RowByFuelTank ==
    ASSUME CacheInv, RowSigned, Dispatched,
           NEW spec, spec = last.client.spec, NEW tx, tx = last.payload
    PROVE  /\ tx \in Seq(Tokens)
           /\ last.message = sign_dispatch(spec, tx).message
           /\ last.sent = IF /\ sign_dispatch(spec, tx).payload # <<>>
                             /\ IsCall(spec, sign_dispatch(spec, tx).payload)
                          THEN sign_dispatch(spec, tx).payload ELSE <<>>
<1> DEFINE c == last.chain
           signed == sign_dispatch(spec, tx)
<1>1. /\ c \in Chains /\ block_info[c] # 0 /\ last.client = METADATA[c]
      /\ tx \in Payloads
  BY DEF CacheInv, RowAtHand, Dispatched, RowSigned
<1>2. METADATA[c] \in Client /\ METADATA[c].spec <= runtime[c] /\ runtime[c] <= LastSpec[c]
  BY <1>1, NoClientIsNone DEF CacheInv, BlocksHaveClients, WithinUpgrades
<1>3. runtime[c] \in Nat /\ LastSpec[c] \in Nat
  BY <1>1, CacheAssumption DEF CacheInv, TypeOK, Spec_version
<1>4. spec \in 1 .. LastSpec[c]
  BY <1>1, <1>2, <1>3 DEF Client, Spec_version
<1>5. /\ SignDispatch(spec, tx) = signed
      /\ KnownCall(spec, signed.payload) <=> IsCall(spec, signed.payload)
  BY <1>1, <1>4, SigningAssumption
<1> HIDE DEF signed
<1>6. /\ last.message = signed.message
      /\ last.sent = IF signed.payload # <<>> /\ IsCall(spec, signed.payload)
                     THEN signed.payload ELSE <<>>
  BY <1>5 DEF RowSigned, Dispatched
<1>7. tx \in Seq(Tokens)
  BY <1>1, PayloadAssumption
<1> QED BY <1>6, <1>7 DEF signed

\* A row that is sent has a reading, and what is signed and sent is that reading.
LEMMA SentAsRead == CacheInv /\ RowSigned => DispatchReadsAsSigned
<1> SUFFICES ASSUME CacheInv, RowSigned PROVE DispatchReadsAsSigned
  OBVIOUS
<1> SUFFICES ASSUME Dispatched, last.sent # <<>>
             PROVE  SignedAsRead(last.client.spec, last.payload,
                                 [message |-> last.message, payload |-> last.sent])
  BY DEF DispatchReadsAsSigned, SignedAsRead, Signed
<1> DEFINE spec == last.client.spec
           tx == last.payload
           signed == sign_dispatch(spec, tx)
<1>1. /\ tx \in Seq(Tokens) /\ last.message = signed.message
      /\ last.sent = signed.payload /\ signed.payload # <<>>
  <2> HIDE DEF spec, tx
  <2>1. spec = last.client.spec /\ tx = last.payload
    BY DEF spec, tx
  <2> QED BY <2>1, RowByFuelTank
<1> HIDE DEF spec, tx
<1>2. spec # Retyped /\ ~Unread(spec, tx)
  BY <1>1, UnreadIsRefused
<1>3. SignedAsRead(spec, tx, signed)
  BY <1>1, <1>2, ReadIsSigned
<1> QED BY <1>1, <1>3 DEF SignedAsRead, spec, tx

\* A row that is not sent was not signed, and has no reading or no room.
LEMMA UnsentUnsigned == CacheInv /\ RowSigned => OnlyRefusedUnsigned
<1> SUFFICES ASSUME CacheInv, RowSigned PROVE OnlyRefusedUnsigned
  OBVIOUS
<1> SUFFICES ASSUME Dispatched, last.sent = <<>>
             PROVE  /\ last.message = <<>>
                    /\ last.client.spec = Retyped \/ Unread(last.client.spec, last.payload)
  BY DEF OnlyRefusedUnsigned, Unread
<1> DEFINE spec == last.client.spec
           tx == last.payload
           signed == sign_dispatch(spec, tx)
<1>1. /\ tx \in Seq(Tokens) /\ last.message = signed.message
      /\ ~(signed.payload # <<>> /\ IsCall(spec, signed.payload))
  <2> HIDE DEF spec, tx
  <2>1. spec = last.client.spec /\ tx = last.payload
    BY DEF spec, tx
  <2> QED BY <2>1, RowByFuelTank
<1> HIDE DEF spec, tx
<1>2. spec = Retyped \/ Unread(spec, tx)
  BY <1>1, ReadIsSigned
<1>3. signed.message = <<>>
  BY <1>1, <1>2, UnreadIsRefused
<1> QED BY <1>1, <1>2, <1>3 DEF spec, tx

-----------------------------------------------------------------------------
(* The theorems.                                                           *)

\* The types, and the client and the block behind every row.
THEOREM CacheInvariance == Spec => []CacheInv
BY InitEstablishesInv, NextKeepsInv, PTL DEF Spec

\* No row is signed with another chain's client, or with one older than the
\* runtime of its block: a failed refresh takes the chain out of the batch
\* (transaction.rs:787-804).
THEOREM RowsUseTheBlocksClient == Spec => []ClientOfTheBlock
BY CacheInvariance, InvGivesClient, PTL

\* What is sent for a fuel tank call reads, under the runtime it was signed for,
\* as the Platform's call with nothing but the signature replaced, and the whole
\* of its inner call was signed (fuel_tank.rs:25-102): for calls of any length,
\* for any limit on their nesting, and whatever runtime they were encoded for.
THEOREM DispatchesReadAsSigned == Spec => []DispatchReadsAsSigned
BY CacheInvariance, RowsAreSigned, SentAsRead, PTL

\* Nothing is signed for a call that is then refused, and none is refused that
\* the runtime could read and hold the signature of (fuel_tank.rs:90-96).
THEOREM RefusalsAreUnsigned == Spec => []OnlyRefusedUnsigned
BY CacheInvariance, RowsAreSigned, UnsentUnsigned, PTL
=================================================================================
