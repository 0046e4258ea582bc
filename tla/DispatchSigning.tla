----------------------------- MODULE DispatchSigning -----------------------------
(***************************************************************************)
(* The rows of MetadataCache signed by the functions of FuelTank: what the *)
(* runtime reads in a call that was signed for it, and which calls are     *)
(* refused.  The reference is the runtime's grammar of a call, written     *)
(* independently of the walk the code does.                                *)
(***************************************************************************)
EXTENDS MetadataCache, FuelTank

\* Payloads are tokens.
ASSUME PayloadAssumption == Payloads \subseteq Seq(Tokens)

\* The functions the rows are signed with are FuelTank's.
ASSUME SigningAssumption ==
    \A c \in Chains : \A spec \in 1 .. LastSpec[c], tx \in Payloads :
        LET signed == sign_dispatch(spec, tx)
        IN  /\ SignDispatch(spec, tx) = signed
            /\ KnownCall(spec, signed.payload) <=> IsCall(spec, signed.payload)

-----------------------------------------------------------------------------
(* The grammar.                                                            *)

\* Where n values in a row can end, if one that starts at p can end in ends[p].
AfterMany(ends, n, from) ==
    LET after[i \in 0 .. n] ==
            IF i = 0 THEN {from} ELSE UNION {ends[p] : p \in after[i - 1]}
    IN  after

\* A call is three types deep, and what is in it begins below that.
CALL_LEVELS == 3

\* A remark of some bytes.
RemarkEnds(tx, levels, p) ==
    {q \in Positions(tx) :
        /\ p + 2 <= Len(tx)
        /\ tx[p] = 0 /\ tx[p + 1] = 0
        /\ q = p + 3 + tx[p + 2]
        /\ tx[p + 2] > 0 => levels > CALL_LEVELS}

\* A batch of some calls.
BatchEnds(tx, nested, p) ==
    IF p + 2 <= Len(tx) /\ tx[p] = 1 /\ tx[p + 1] = 0
    THEN AfterMany(nested, tx[p + 2], p + 3)[tx[p + 2]] ELSE {}

\* Where a call can end that starts at p and may nest in so many levels.
CallEnds(tx) ==
    LET ends[levels \in 0 .. MAX_NESTING + 1] ==
            [p \in Positions(tx) |->
                IF levels < CALL_LEVELS THEN {}
                ELSE RemarkEnds(tx, levels, p)
                         \cup BatchEnds(tx, ends[levels - CALL_LEVELS], p)]
    IN  ends

Bits  == {<<b>> : b \in {0, 1}}
Words == {<<w>> : w \in Tokens}

RuleSets(spec) == IF spec = Legacy THEN Words ELSE {<<0>>} \cup {<<1, w>> : w \in Tokens}

Signatures(spec) ==
    IF spec = Retyped THEN Bits
    ELSE {<<0>>} \cup {<<1, s, e>> : s \in Tokens, e \in Tokens}

\* What some settings can say, as records of encoded values.  A runtime without
\* a field has nothing for it.
Settings(spec) ==
    [flag : Bits, signature : Signatures(spec),
     create : IF spec = Legacy THEN {<<>>} ELSE Bits,
     added  : IF spec = Extended THEN Words ELSE {<<>>}]

Encoded(s) == <<1>> \o s.flag \o s.signature \o s.create \o s.added

\* What None stands for, if all of it is known.
Defaults(spec) ==
    IF spec = Extended THEN {}
    ELSE {[flag |-> <<0>>, signature |-> <<0>>, added |-> <<>>,
           create |-> IF spec = Legacy THEN <<>> ELSE <<0>>]}

\* What the tokens from p on say as settings, with a signature of either size.
SettingsAt(spec, tx, p) ==
    LET created == IF spec = Legacy THEN 0 ELSE 1
        Fields(n) == [flag      |-> SubSeq(tx, p + 1, p + 1),
                      signature |-> SubSeq(tx, p + 2, p + 1 + n),
                      create    |-> SubSeq(tx, p + 2 + n, p + 1 + n + created),
                      added     |-> SubSeq(tx, p + 2 + n + created, Len(tx))]
    IN  IF tx[p] = 0 THEN IF p = Len(tx) THEN Defaults(spec) ELSE {}
        ELSE {s \in {Fields(n) : n \in {m \in {1, 3} : p + 1 + m + created <= Len(tx)}} :
                 tx[p] = 1 /\ s \in Settings(spec)}

\* Where the settings can start if tx is a dispatch from a fuel tank whose inner
\* call starts at p: after the call's index, the tank and a rule set.
SettingsStarts(spec, tx, p) ==
    IF /\ p <= Len(tx)
       /\ tx[1] = 2
       /\ tx[2] \in (IF spec = Legacy THEN {0, 1} ELSE {0})
       /\ SubSeq(tx, 4, p - 1) \in RuleSets(spec)
    THEN {q \in CallEnds(tx)[MAX_NESTING + 1][p] : q <= Len(tx)} ELSE {}

\* Where the inner call can start.
CallStarts == {5, 6}

-----------------------------------------------------------------------------
(* Properties.                                                             *)

Dispatched == last # NoRow /\ last.fuelTank

\* A fuel tank call that is sent reads, under the runtime it was signed for, as
\* the Platform's call with nothing but the settings' signature replaced, and
\* the signature is over the whole inner call of that reading: also for a row
\* encoded for the runtime before an upgrade (fuel_tank.rs:25-28).
DispatchReadsAsSigned ==
    Dispatched /\ last.sent # <<>> =>
        \E call \in CallStarts :
        \E settings \in SettingsStarts(last.client.spec, last.payload, call) :
        \E s \in SettingsAt(last.client.spec, last.payload, settings) :
            /\ last.message =
                   SubSeq(last.payload, call, settings - 1) \o <<PublicKey, Expiry>>
            /\ last.sent = SubSeq(last.payload, 1, settings - 1)
                   \o Encoded([s EXCEPT !.signature = <<1, Signature, Expiry>>])

\* The fuel tank's signer signs for no call that is then refused, and a call is
\* refused only if the runtime could not read it, cannot hold the signature or
\* gives a field no known default (fuel_tank.rs:90-96, and the test
\* refuses_settings_it_cannot_fill_in_before_signing).
OnlyRefusedUnsigned ==
    Dispatched /\ last.sent = <<>> =>
        /\ last.message = <<>>
        /\ \/ last.client.spec = Retyped
           \/ \A call \in CallStarts :
              \A settings \in SettingsStarts(last.client.spec, last.payload, call) :
                  SettingsAt(last.client.spec, last.payload, settings) = {}
==================================================================================
