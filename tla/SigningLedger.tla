---------------------------- MODULE SigningLedger ----------------------------
(***************************************************************************)
(* What the daemon promises the Platform about nonces, without its cache,  *)
(* its channel or its retries: pending transactions are signed at most     *)
(* once each, every signing account uses the nonces that follow the ones   *)
(* already used, and it leaves no gap and repeats none                     *)
(* (src/src/transaction.rs:173-181 and 315-322).                           *)
(***************************************************************************)
EXTENDS Integers

CONSTANTS
    Rows,          \* pending transactions, by uuid
    Keys,          \* (network, chain, signer) triples
    KeyOf          \* the key a row is signed with

VARIABLES
    accepted,      \* the nonce a row was accepted with, or NoNonce
    nextNonce      \* of each key, the nonce after the highest one in use

NoNonce == -1

LedgerInit ==
    /\ accepted = [r \in Rows |-> NoNonce]
    /\ nextNonce = [k \in Keys |-> 0]

\* A set of pending rows is accepted at once.  Row by row the nonces of a key
\* are different, and together they are exactly the next ones.
AcceptBatch(batch) ==
    /\ batch # {}
    /\ \A r \in batch : accepted[r] = NoNonce /\ accepted'[r] # NoNonce
    /\ \A r \in Rows \ batch : accepted'[r] = accepted[r]
    /\ \A r, s \in batch :
           KeyOf[r] = KeyOf[s] /\ accepted'[r] = accepted'[s] => r = s
    /\ nextNonce' \in [Keys -> Nat]
    /\ \A k \in Keys : nextNonce'[k] >= nextNonce[k]
    /\ \A k \in Keys :
           {accepted'[r] : r \in {s \in batch : KeyOf[s] = k}}
               = nextNonce[k] .. nextNonce'[k] - 1

\* The account is also used outside this wallet.
UsedElsewhere(k) ==
    /\ nextNonce' = [nextNonce EXCEPT ![k] = @ + 1]
    /\ UNCHANGED accepted

LedgerNext ==
    \/ \E batch \in SUBSET Rows : AcceptBatch(batch)
    \/ \E k \in Keys : UsedElsewhere(k)

LedgerSpec == LedgerInit /\ [][LedgerNext]_<<accepted, nextNonce>>
=============================================================================
