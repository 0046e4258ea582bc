--------------------------- MODULE MCDispatchSigning ---------------------------
(* A chain whose runtime goes through all four layouts and one that is      *)
(* upgraded to the current layout.  The Platform's rows are encoded for any *)
(* of the layouts, whatever the runtime is by then, or garbled.             *)
EXTENDS DispatchSigning, SequencesExt

CONSTANTS x, y

MCChains   == {x, y}
MCLastSpec == [c \in MCChains |-> IF c = x THEN Retyped ELSE Current]

Remark(bytes) == <<0, 0, Len(bytes)>> \o bytes
Batch(calls)  == <<1, 0, Len(calls)>> \o FlattenSeq(calls)

\* The last one is nested too deep.
MCCalls ==
    {Remark(<<>>), Remark(<<0, 1>>), Batch(<<Remark(<<>>), Remark(<<>>)>>),
     Batch(<<Batch(<<>>)>>), Batch(<<Remark(<<1>>)>>)}

MCSettings(spec) ==
    {<<0>>} \cup {Encoded(s) : s \in {t \in Settings(spec) :
        /\ t.signature \in {<<0>>, <<1, 4, 3>>}
        /\ t.added \in {<<>>, <<1>>}}}

MCRuleSets(spec) == RuleSets(spec) \cap {<<0>>, <<1>>, <<1, 0>>}

Encodings(spec) ==
    {<<2, d, 3>> \o r \o c \o s :
        d \in (IF spec = Legacy THEN {0, 1} ELSE {0}),
        r \in MCRuleSets(spec), c \in MCCalls, s \in MCSettings(spec)}

WellFormed == UNION {Encodings(spec) : spec \in Legacy .. Retyped}

MCPayloads ==
    LET some == {tx \in WellFormed : tx[2] = 0 /\ Last(tx) = 0}
    IN  WellFormed \cup {Front(tx) : tx \in some} \cup {tx \o <<0>> : tx \in some}
            \cup {<<>>, <<2>>, <<2, 2, 0>>, <<0, 0, 0>>}
================================================================================
