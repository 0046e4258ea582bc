----------------------- MODULE MCTransactionProcessor -----------------------
(* Two signers on one chain, the first with two pending rows, and a third   *)
(* signer on another chain.                                                 *)
EXTENDS TransactionProcessor

CONSTANTS a1, a2, b1, c1, a, b, c, x, y

MCRows    == {a1, a2, b1, c1}
MCKeys    == {a, b, c}
MCChains  == {x, y}
MCKeyOf   == [r \in MCRows |-> IF r \in {a1, a2} THEN a ELSE IF r = b1 THEN b ELSE c]
MCMaxNonce == [k \in MCKeys |-> IF k = a THEN 2 ELSE 1]
MCChainOf == [k \in MCKeys |-> IF k = c THEN y ELSE x]
=============================================================================
