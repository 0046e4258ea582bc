------------------------- MODULE TransactionProcessor -------------------------
(***************************************************************************)
(* The transaction processor, TransactionProcessor::launch_job_scheduler   *)
(* and transaction_handler (src/src/transaction.rs:751-1144): its nonce    *)
(* cache, the signing of a page, and the SignTransactions mutation with    *)
(* its transport retries, against a Platform that may lose requests and    *)
(* responses.  The poller is reduced to the tick it sends and the          *)
(* acknowledgement it waits for.                                           *)
(*                                                                         *)
(* The Platform is external.  It accepts a request as a whole and ignores  *)
(* the rows of it that it has already accepted.  GetAccountNonce may lag   *)
(* behind what it accepted, as far back as the chain's own nonce, for an   *)
(* account that has a slot in the cache (transaction.rs:821-823 and the    *)
(* test at 1446-1479).  An account without one is assumed to be answered   *)
(* with the nonce after its highest accepted one: the cache has nothing to *)
(* set against a late answer then, and the code relies on the Platform to  *)
(* consider recently submitted extrinsics (815-817, 1084-1092).            *)
(***************************************************************************)
EXTENDS Integers, FiniteSets, FiniteSetsExt

CONSTANTS
    Rows,               \* pending transactions, by uuid
    Chains,             \* (network, chain) pairs
    Keys,               \* (network, chain, signer) triples: NonceKey
    KeyOf,              \* the key each row is signed with
    ChainOf,            \* the chain of each key
    PageSize,           \* TRANSACTION_PAGE_SIZE, 25 in the code
    MaxAttempts,        \* transport attempts of a mutation, 7 in the code
    MayAnswerFalse,     \* whether SignTransactions may answer false
    MaxNonce            \* bound per key on nonces used elsewhere or refused

ASSUME ProcessorAssumption ==
    /\ KeyOf \in [Rows -> Keys]
    /\ ChainOf \in [Keys -> Chains]
    /\ IsFiniteSet(Rows)
    /\ PageSize \in Nat \ {0}
    /\ MaxAttempts \in Nat \ {0}
    /\ MayAnswerFalse \in BOOLEAN
    /\ MaxNonce \in [Keys -> Nat]

VARIABLES
    (* the Platform *)
    accepted,       \* the nonce each row was accepted with, or NoNonce
    nextNonce,      \* of each key, the nonce after the highest one in use
    onChain,        \* of each key, GetAccountNonce answers no less than this
    (* the poller and the channel of capacity one *)
    channel,        \* the tick in the channel, if any
    awaiting,       \* the poller awaits an acknowledgement
    (* the processor *)
    phase,          \* "recv", "prefetch", "sign" or "submit"
    nonces,         \* the persistent nonce cache, NoNonce where absent
    todo,           \* rows of the batch not yet signed or skipped
    unready,        \* keys whose prefetch failed in this batch
    signed,         \* inputs: the nonce of each row signed in this batch
    committed,      \* committed_keys
    skipped,        \* some row of the batch was not signed
    attempts        \* failed transport attempts of the mutation

platformVars  == <<accepted, nextNonce, onChain>>
pollerVars    == <<channel, awaiting>>
processorVars == <<phase, nonces, todo, unready, signed, committed, skipped,
                   attempts>>
vars == <<platformVars, pollerVars, processorVars>>

NoNonce == -1
NoTick == [batch |-> {}, idle |-> {}]     \* never sent
Nonce == Nat \cup {NoNonce}

ProcessorTick == [batch : SUBSET Rows, idle : SUBSET Chains]

TypeOK ==
    /\ accepted \in [Rows -> Nonce]
    /\ nextNonce \in [Keys -> Nat]
    /\ onChain \in [Keys -> Nat]
    /\ channel \in ProcessorTick
    /\ awaiting \in BOOLEAN
    /\ phase \in {"recv", "prefetch", "sign", "submit"}
    /\ nonces \in [Keys -> Nonce]
    /\ todo \subseteq Rows
    /\ unready \subseteq Keys
    /\ signed \in [Rows -> Nonce]
    /\ committed \subseteq Keys
    /\ skipped \in BOOLEAN
    /\ attempts \in 0 .. MaxAttempts - 1

NoneSigned == [r \in Rows |-> NoNonce]
EmptyCache == [k \in Keys |-> NoNonce]

Init ==
    /\ accepted = NoneSigned
    /\ nextNonce = [k \in Keys |-> 0]
    /\ onChain = [k \in Keys |-> 0]
    /\ channel = NoTick
    /\ awaiting = FALSE
    /\ phase = "recv"
    /\ nonces = EmptyCache
    /\ todo = {}
    /\ unready = {}
    /\ signed = NoneSigned
    /\ committed = {}
    /\ skipped = FALSE
    /\ attempts = 0

Pending == {r \in Rows : accepted[r] = NoNonce}
KeysOf(rows) == {KeyOf[r] : r \in rows}
SignedRows == {r \in Rows : signed[r] # NoNonce}

-----------------------------------------------------------------------------
(* The poller's side of a tick.                                            *)

\* Mutant: the poller fetches as soon as the channel has room.
SendTickUnacknowledged(rows, idle) ==
    /\ channel = NoTick
    /\ rows \subseteq Pending
    /\ Cardinality(rows) <= PageSize
    /\ rows # {} \/ idle # {}
    /\ channel' = [batch |-> rows, idle |-> idle]
    /\ awaiting' = TRUE
    /\ UNCHANGED <<platformVars, processorVars>>

\* get_pending_transactions and send_tick_and_wait: the page is read and sent
\* only when no acknowledgement is outstanding.
SendTick(rows, idle) ==
    /\ ~awaiting
    /\ rows \subseteq Pending
    /\ Cardinality(rows) <= PageSize
    /\ rows # {} \/ idle # {}
    /\ channel' = [batch |-> rows, idle |-> idle]
    /\ awaiting' = TRUE
    /\ UNCHANGED <<platformVars, processorVars>>

-----------------------------------------------------------------------------
(* The processor.                                                          *)

\* Leaving transaction_handler: the inputs are dropped and the poller is
\* acknowledged, whatever the outcome.
Acknowledge ==
    /\ awaiting' = FALSE
    /\ phase' = "recv"
    /\ todo' = {}
    /\ unready' = {}
    /\ signed' = NoneSigned
    /\ committed' = {}
    /\ skipped' = FALSE
    /\ attempts' = 0

\* evict_idle_chains
EvictIdleChains(idle) ==
    [k \in Keys |-> IF ChainOf[k] \in idle THEN NoNonce ELSE nonces[k]]

\* launch_job_scheduler takes the tick: idle chains first, then the batch.
ReceiveTick ==
    /\ phase = "recv"
    /\ channel # NoTick
    /\ channel' = NoTick
    /\ nonces' = EvictIdleChains(channel.idle)
    /\ IF channel.batch = {}
       THEN Acknowledge
       ELSE /\ phase' = "prefetch"
            /\ todo' = channel.batch
            /\ UNCHANGED <<awaiting, unready, signed, committed, skipped, attempts>>
    /\ UNCHANGED platformVars

\* GetAccountNonce of a key: late for one with a slot, or not.
MayAnswer(k) ==
    IF nonces[k] = NoNonce THEN {nextNonce[k]} ELSE onChain[k] .. nextNonce[k]

\* What the queries of a batch are answered.
NonceAnswers ==
    {answer \in [Keys -> UNION {MayAnswer(k) : k \in Keys}] :
        \A k \in Keys : answer[k] \in MayAnswer(k)}

\* Mutant: the cached slot gives way to the Platform's answer.
TrustPlatform(slot, platformNonce) == platformNonce

\* Mutant: a cached slot is trusted, whatever the Platform answers.
TrustCache(slot, platformNonce) == IF slot = NoNonce THEN platformNonce ELSE slot

\* Seed an absent slot; rebase a present one to max(slot, platformNonce).
Rebase(slot, platformNonce) ==
    IF slot < platformNonce THEN platformNonce ELSE slot

\* Block info and metadata fail for failedChains, GetAccountNonce for
\* failedKeys; every other key of the batch is seeded or rebased, once.
Prefetch(failedChains, failedKeys) ==
    LET failed == {k \in Keys : ChainOf[k] \in failedChains} \cup failedKeys
        ready  == KeysOf(todo) \ failed
    IN  /\ phase = "prefetch"
        /\ unready' = failed
        /\ \E answer \in NonceAnswers :
               nonces' = [k \in Keys |->
                             IF k \in ready THEN Rebase(nonces[k], answer[k])
                             ELSE nonces[k]]
        /\ phase' = "sign"
        /\ UNCHANGED <<platformVars, pollerVars, todo, signed, committed,
                       skipped, attempts>>

\* One row of the signing loop that gets through: the slot's nonce is used and
\* the slot advanced.
SignRow(r) ==
    LET k == KeyOf[r]
    IN  /\ phase = "sign"
        /\ r \in todo
        /\ k \notin unready
        /\ signed' = [signed EXCEPT ![r] = nonces[k]]
        /\ nonces' = [nonces EXCEPT ![k] = @ + 1]
        /\ committed' = committed \cup {k}
        /\ todo' = todo \ {r}
        /\ UNCHANGED <<platformVars, pollerVars, phase, unready, skipped, attempts>>

\* Mutant: the nonce of a row that fails to sign is used up.
SkipRowBurningNonce(r) ==
    /\ phase = "sign"
    /\ r \in todo
    /\ todo' = todo \ {r}
    /\ skipped' = TRUE
    /\ nonces' = [nonces EXCEPT ![KeyOf[r]] = IF @ = NoNonce THEN @ ELSE @ + 1]
    /\ UNCHANGED <<platformVars, pollerVars, phase, unready, signed, committed,
                   attempts>>

\* One row that is skipped: its prefetch failed, or its client, fuel-tank
\* dispatch, payload or signature did.  The slot is not advanced.
SkipRow(r) ==
    /\ phase = "sign"
    /\ r \in todo
    /\ todo' = todo \ {r}
    /\ skipped' = TRUE
    /\ UNCHANGED <<platformVars, pollerVars, phase, nonces, unready, signed,
                   committed, attempts>>

\* Every row was skipped: BatchOutcome::Skipped.
NothingToSubmit ==
    /\ phase = "sign"
    /\ todo = {}
    /\ SignedRows = {}
    /\ Acknowledge
    /\ UNCHANGED <<platformVars, channel, nonces>>

\* The SignTransactions mutation is sent.
Submit ==
    /\ phase = "sign"
    /\ todo = {}
    /\ SignedRows # {}
    /\ phase' = "submit"
    /\ UNCHANGED <<platformVars, pollerVars, nonces, todo, unready, signed,
                   committed, skipped, attempts>>

\* Mutant: a failed submission leaves the advanced slots in the cache.
EvictNothing(keys) == nonces

\* evict_nonce_keys
EvictNonceKeys(keys) == [k \in Keys |-> IF k \in keys THEN NoNonce ELSE nonces[k]]

\* The Platform processes the request.  GetAccountNonce need not know at once.
Accept ==
    LET fresh(k) == {r \in SignedRows \cap Pending : KeyOf[r] = k}
    IN  /\ accepted' = [r \in Rows |-> IF accepted[r] = NoNonce THEN signed[r]
                                       ELSE accepted[r]]
        /\ nextNonce' = [k \in Keys |->
                            Max({nextNonce[k]} \cup {signed[r] + 1 : r \in fresh(k)})]
        /\ UNCHANGED onChain

AcceptOrNot == Accept \/ UNCHANGED platformVars

\* Mutant: one attempt more than the retry strategy allows.
AttemptLostOnceMore ==
    /\ phase = "submit"
    /\ attempts < MaxAttempts
    /\ attempts' = attempts + 1
    /\ UNCHANGED <<platformVars, pollerVars, phase, nonces, todo, unready,
                   signed, committed, skipped>>

\* Mutant: the transport is retried without a limit.
AttemptLostForever ==
    /\ phase = "submit"
    /\ AcceptOrNot
    /\ attempts' = 1 - attempts
    /\ UNCHANGED <<pollerVars, phase, nonces, todo, unready, signed, committed,
                   skipped>>

\* A transport error, before or after the Platform processed the request, that
\* the retry strategy answers with another attempt of the same body.
AttemptLost ==
    /\ phase = "submit"
    /\ attempts < MaxAttempts - 1
    /\ AcceptOrNot
    /\ attempts' = attempts + 1
    /\ UNCHANGED <<pollerVars, phase, nonces, todo, unready, signed, committed,
                   skipped>>

\* The last transport error, a status other than 200, an unreadable body or
\* GraphQL errors: BatchOutcome::SubmissionFailed.
SubmissionFails ==
    /\ phase = "submit"
    /\ AcceptOrNot
    /\ nonces' = EvictNonceKeys(committed)
    /\ Acknowledge
    /\ UNCHANGED channel

\* The Platform answers true: Completed, or PartialProgress when skipped.
SubmissionSucceeds ==
    /\ phase = "submit"
    /\ Accept
    /\ Acknowledge
    /\ UNCHANGED <<channel, nonces>>

\* The Platform answers false, accepting nothing.  sign_transactions does not
\* look at the answer: the outcome is that of a success.
SubmissionRefused ==
    /\ MayAnswerFalse
    /\ phase = "submit"
    /\ \A k \in committed : nonces[k] <= MaxNonce[k]
    /\ UNCHANGED platformVars
    /\ Acknowledge
    /\ UNCHANGED <<channel, nonces>>

\* The process exits at any point and is restarted by its supervisor with
\* everything it kept in memory lost.
Restart ==
    /\ Acknowledge
    /\ channel' = NoTick
    /\ nonces' = EmptyCache
    /\ UNCHANGED platformVars

\* The account is used outside the daemon while no tick is in flight.  On the
\* chain that takes the account's nonces in order, so everything accepted before
\* is on it too.
UsedElsewhere(k) ==
    /\ ~awaiting
    /\ nextNonce[k] < MaxNonce[k]
    /\ nextNonce' = [nextNonce EXCEPT ![k] = @ + 1]
    /\ onChain' = [onChain EXCEPT ![k] = nextNonce[k] + 1]
    /\ UNCHANGED <<accepted, pollerVars, processorVars>>

-----------------------------------------------------------------------------
\* A step of the processor's task.
Process ==
    \/ ReceiveTick
    \/ \E failedChains \in SUBSET Chains, failedKeys \in SUBSET Keys :
           Prefetch(failedChains, failedKeys)
    \/ \E r \in Rows : SignRow(r) \/ SkipRow(r)
    \/ NothingToSubmit
    \/ Submit
    \/ AttemptLost
    \/ SubmissionFails
    \/ SubmissionSucceeds
    \/ SubmissionRefused

Next ==
    \/ \E rows \in SUBSET Rows, idle \in SUBSET Chains : SendTick(rows, idle)
    \/ Process
    \/ Restart
    \/ \E k \in Keys : UsedElsewhere(k)

Spec == Init /\ [][Next]_vars

\* The processor is a task of its own, and each request it awaits is answered
\* or ends in an error after 30 seconds (global.rs:8-14).
FairSpec == Spec /\ WF_vars(Process)

-----------------------------------------------------------------------------
(* Properties.                                                             *)

\* Between ticks no cached slot is past the nonce after the account's highest
\* accepted one, whatever GetAccountNonce answers by then: whatever became of
\* the last submission, the increments made for it are either real or gone
\* (evict_nonce_keys, transaction.rs:1084-1092 and 1176-1184).
CacheNeverAhead ==
    phase = "recv" => \A k \in Keys : nonces[k] <= nextNonce[k]

\* No row is signed again after the Platform accepted it, whatever is lost on
\* the way (ProcessorTick and create_job, transaction.rs:173-181, 320-325).
AcceptedNeverResigned == phase = "sign" => todo \cup SignedRows \subseteq Pending

\* What is submitted extends the account's nonces without a gap: each nonce
\* follows the highest one in use or one in the same request, unless the request
\* has already been accepted.  So a slot is neither lost to a late answer nor
\* kept from a current one (transaction.rs:815-828, 1446-1479).
NoFutureNonce ==
    phase = "submit" =>
        \A r \in SignedRows \cap Pending :
            \/ signed[r] = nextNonce[KeyOf[r]]
            \/ \E s \in SignedRows : KeyOf[s] = KeyOf[r] /\ signed[s] = signed[r] - 1

\* No two accepted rows of an account share a nonce, even when the Platform
\* refuses submissions that the daemon takes for successes.
UniqueNonces ==
    \A r, s \in Rows \ Pending :
        KeyOf[r] = KeyOf[s] /\ accepted[r] = accepted[s] => r = s

\* The poller waits for the processor, and gets its acknowledgement whatever is
\* lost or fails: no request is retried without end (global.rs:8-14, "would
\* stall the transaction poller indefinitely"; launch_job_scheduler).
EveryTickAcknowledged == awaiting ~> ~awaiting

Ledger == INSTANCE SigningLedger
    WITH Rows <- Rows, Keys <- Keys, KeyOf <- KeyOf,
         accepted <- accepted, nextNonce <- nextNonce

\* The processor implements the ledger: every row accepted at most once, and
\* the nonces of an account used in order, without gap or repetition.
ImplementsLedger == Ledger!LedgerSpec
=============================================================================
