-------------------------- MODULE UniqueNonces_proofs --------------------------
(***************************************************************************)
(* Proof that no two accepted rows of an account share a nonce, also when  *)
(* the Platform refuses submissions the daemon takes for successes and the *)
(* cache runs ahead of it.  The invariant of TransactionProcessor_proofs   *)
(* does not hold then; a weaker one does.                                  *)
(***************************************************************************)
EXTENDS TransactionProcessor_proofs

\* Used nonces are below the Platform's next one.
AcceptedBelow == \A r \in Rows \ Pending : accepted[r] < nextNonce[KeyOf[r]]

\* A request not accepted yet uses nonces from the Platform's next one to just
\* below the slot, and the last of them is used.
FreshRequest ==
    /\ SignedRows \subseteq Pending
    /\ \A r \in SignedRows :
           nextNonce[KeyOf[r]] <= signed[r] /\ signed[r] < nonces[KeyOf[r]]
    /\ \A k \in committed : \E r \in SignedOf(k) : signed[r] = nonces[k] - 1

AcceptedRequest == phase = "submit" /\ SignedRows \cap Pending = {}

NonceInv ==
    /\ TypeOK
    /\ OneTick
    /\ BatchShape
    /\ SlotsNotBehind
    /\ FreshRequest \/ AcceptedRequest
    /\ SignedOnce
    /\ AcceptedBelow
    /\ UniqueNonces

\* Leaving the handler forgets the request.
LEMMA AcknowledgeRestoresNonces ==
    ASSUME NonceInv, Acknowledge, channel' = NoTick,
           accepted' \in [Rows -> Nonce], nextNonce' \in [Keys -> Nat],
           onChain' \in [Keys -> Nat], nonces' \in [Keys -> Nonce], AcceptedBelow', UniqueNonces'
    PROVE  NonceInv'
<1>1. TypeOK'
  BY AttemptsStartAtZero, NoTickIsATick, NoneSignedType
     DEF NonceInv, TypeOK, Acknowledge
<1>2. SignedRows' = {} /\ committed' = {} /\ todo' = {}
  BY DEF SignedRows, Acknowledge, NoneSigned
<1>3. OneTick' /\ BatchShape' /\ SlotsNotBehind'
  BY <1>2 DEF OneTick, BatchShape, SlotsNotBehind, Acknowledge, KeysOf, NoTick
<1>4. FreshRequest' /\ SignedOnce'
  BY <1>2 DEF FreshRequest, SignedOnce
<1> QED BY <1>1, <1>3, <1>4 DEF NonceInv

LEMMA NonceInvInit == Init => NonceInv
<1> SUFFICES ASSUME Init PROVE NonceInv
  OBVIOUS
<1>1. TypeOK /\ OneTick /\ BatchShape /\ SignedOnce
  BY ProcessorInvInit DEF ProcessorInv
<1>2. SignedRows = {} /\ committed = {} /\ todo = {} /\ Rows \ Pending = {}
  BY DEF Init, SignedRows, NoneSigned, Pending
<1> QED BY <1>1, <1>2 DEF NonceInv, SlotsNotBehind, FreshRequest, AcceptedBelow, UniqueNonces

\* A tick that is sent, or taken.
LEMMA TickKeepsNonces ==
    ASSUME NonceInv,
           \/ \E rows \in SUBSET Rows, idle \in SUBSET Chains : SendTick(rows, idle)
           \/ ReceiveTick
    PROVE  NonceInv'
<1>1. ASSUME NEW rows \in SUBSET Rows, NEW idle \in SUBSET Chains, SendTick(rows, idle)
      PROVE  NonceInv'
  <2>1. phase = "recv"
    BY <1>1 DEF SendTick, NonceInv, TypeOK, OneTick
  <2>2. TypeOK'
    BY <1>1 DEF SendTick, NonceInv, TypeOK, ProcessorTick, platformVars, processorVars
  <2>3. SignedRows' = SignedRows /\ Pending' = Pending /\ UNCHANGED <<platformVars, processorVars>>
    BY <1>1 DEF SendTick, SignedRows, Pending, platformVars, processorVars
  <2>4. OneTick' /\ BatchShape' /\ SlotsNotBehind'
    BY <1>1, <2>1, <2>3
       DEF SendTick, NonceInv, OneTick, BatchShape, SlotsNotBehind, platformVars, processorVars
  <2>5. (FreshRequest \/ AcceptedRequest)' /\ SignedOnce' /\ AcceptedBelow' /\ UniqueNonces'
    BY <2>3 DEF NonceInv, FreshRequest, AcceptedRequest, SignedOnce, SignedOf, AcceptedBelow,
                UniqueNonces, platformVars, processorVars
  <2> QED BY <2>2, <2>4, <2>5 DEF NonceInv
<1>2. CASE ReceiveTick
  <2>1. /\ SignedRows = {} /\ committed = {} /\ todo = {}
        /\ channel.batch \subseteq Pending /\ channel.batch \subseteq Rows
    BY <1>2 DEF ReceiveTick, NonceInv, BatchShape, OneTick, KeysOf, TypeOK, ProcessorTick
  <2>2. /\ nonces' \in [Keys -> Nonce] /\ nextNonce' = nextNonce /\ accepted' = accepted
        /\ onChain' = onChain
    BY <1>2 DEF ReceiveTick, EvictIdleChains, Nonce, NonceInv, TypeOK, platformVars
  <2>3. AcceptedBelow' /\ UniqueNonces'
    BY <2>2 DEF NonceInv, AcceptedBelow, UniqueNonces, Pending
  <2>4. CASE channel.batch = {}
    BY <1>2, <2>2, <2>3, <2>4, AcknowledgeRestoresNonces DEF ReceiveTick, NonceInv, TypeOK
  <2>5. CASE channel.batch # {}
    <3>1. /\ phase' = "prefetch" /\ todo' = channel.batch /\ channel' = NoTick
          /\ signed' = signed /\ committed' = committed /\ awaiting' = awaiting
          /\ unready' = unready /\ skipped' = skipped /\ attempts' = attempts
      BY <1>2, <2>5 DEF ReceiveTick
    <3>2. SignedRows' = {} /\ Pending' = Pending
      BY <2>1, <2>2, <3>1 DEF SignedRows, Pending
    <3>3. TypeOK'
      BY <2>1, <2>2, <3>1, NoTickIsATick DEF NonceInv, TypeOK
    <3>4. awaiting
      BY <1>2 DEF ReceiveTick, NonceInv, OneTick, TypeOK
    <3>5. OneTick' /\ BatchShape'
      BY <2>1, <3>1, <3>2, <3>4 DEF OneTick, NoTick, BatchShape, KeysOf
    <3>6. SlotsNotBehind' /\ FreshRequest' /\ SignedOnce'
      BY <2>1, <3>1, <3>2 DEF SlotsNotBehind, FreshRequest, SignedOnce
    <3> QED BY <2>3, <3>3, <3>5, <3>6 DEF NonceInv
  <2> QED BY <2>4, <2>5
<1> QED BY <1>1, <1>2

\* A prefetch leaves no slot it is going to use behind the Platform.
LEMMA PrefetchKeepsNonces ==
    ASSUME NonceInv, SlotOrChain, NEW failedChains \in SUBSET Chains,
           NEW failedKeys \in SUBSET Keys, Prefetch(failedChains, failedKeys)
    PROVE  NonceInv'
<1>1. /\ phase = "prefetch" /\ phase' = "sign"
      /\ todo' = todo /\ signed' = signed /\ committed' = committed
      /\ accepted' = accepted /\ nextNonce' = nextNonce /\ onChain' = onChain
      /\ channel' = channel /\ awaiting' = awaiting
      /\ skipped' = skipped /\ attempts' = attempts
  BY DEF Prefetch, platformVars, pollerVars
<1>2. /\ unready' \subseteq Keys /\ nonces' \in [Keys -> Nonce]
      /\ \A r \in todo : KeyOf[r] \notin unready' =>
             nextNonce[KeyOf[r]] <= nonces'[KeyOf[r]]
  BY PrefetchedSlots DEF NonceInv
<1>3. SignedRows = {} /\ SignedRows' = {} /\ Pending' = Pending /\ committed = {}
  BY <1>1 DEF NonceInv, BatchShape, SignedRows, Pending, KeysOf
<1>4. TypeOK'
  BY <1>1, <1>2 DEF NonceInv, TypeOK
<1>5. OneTick' /\ BatchShape'
  BY <1>1, <1>3 DEF NonceInv, OneTick, BatchShape, KeysOf
<1>6. SlotsNotBehind'
  BY <1>1, <1>2 DEF SlotsNotBehind
<1>7. FreshRequest' /\ SignedOnce'
  BY <1>1, <1>3 DEF FreshRequest, SignedOnce
<1>8. AcceptedBelow' /\ UniqueNonces'
  BY <1>1, <1>3 DEF NonceInv, AcceptedBelow, UniqueNonces
<1> QED BY <1>4, <1>5, <1>6, <1>7, <1>8 DEF NonceInv

\* Signing a row takes the slot's nonce, which no row of the request has yet.
LEMMA SigningKeepsNonces ==
    ASSUME NonceInv, NEW r \in Rows, SignRow(r)
    PROVE  NonceInv'
<1> DEFINE k == KeyOf[r]
<1>1. /\ phase = "sign" /\ phase' = "sign" /\ r \in todo /\ k \notin unready
      /\ signed' = [signed EXCEPT ![r] = nonces[k]]
      /\ nonces' = [nonces EXCEPT ![k] = @ + 1]
      /\ committed' = committed \cup {k} /\ todo' = todo \ {r}
      /\ accepted' = accepted /\ nextNonce' = nextNonce /\ onChain' = onChain
      /\ channel' = channel /\ awaiting' = awaiting
      /\ unready' = unready /\ skipped' = skipped /\ attempts' = attempts
  BY DEF SignRow, platformVars, pollerVars
<1>2. /\ nonces \in [Keys -> Nonce] /\ nextNonce \in [Keys -> Nat]
      /\ signed \in [Rows -> Nonce] /\ todo \subseteq Rows /\ committed \subseteq Keys
  BY DEF NonceInv, TypeOK
<1>3. k \in Keys
  BY ProcessorAssumption
<1>4. /\ r \notin SignedRows /\ r \in Pending /\ committed = KeysOf(SignedRows)
      /\ todo \subseteq Pending /\ todo \cap SignedRows = {}
  BY <1>1 DEF NonceInv, BatchShape
<1>5. FreshRequest
  BY <1>1 DEF NonceInv, AcceptedRequest
<1>6. nextNonce[k] \in Nat /\ nonces[k] \in Nat /\ nextNonce[k] <= nonces[k]
  BY <1>1, <1>2, <1>3 DEF NonceInv, SlotsNotBehind, Nonce, NoNonce
<1>7. \A q \in Rows : KeyOf[q] \in Keys /\ (KeyOf[q] = k <=> KeyOf[q] = KeyOf[r])
  BY ProcessorAssumption
<1> HIDE DEF k
<1>8. SignedRows' = SignedRows \cup {r} /\ Pending' = Pending
  BY <1>1, <1>2, <1>6 DEF SignedRows, Pending, NoNonce
<1>9. \A q \in SignedRows : signed'[q] = signed[q] /\ signed[q] \in Nat
  BY <1>1, <1>2, <1>4 DEF SignedRows, Nonce
<1>10. signed'[r] = nonces[k] /\ nonces'[k] = nonces[k] + 1
  BY <1>1, <1>2, <1>3
<1>11. \A j \in Keys \ {k} : nonces'[j] = nonces[j]
  BY <1>1, <1>2
<1>12. TypeOK'
  BY <1>1, <1>2, <1>3, <1>6 DEF NonceInv, TypeOK, Nonce
<1>13. OneTick' /\ BatchShape'
  BY <1>1, <1>4, <1>8 DEF NonceInv, OneTick, BatchShape, KeysOf, k
<1>14. SlotsNotBehind'
  <2> SUFFICES ASSUME NEW q \in todo, KeyOf[q] \notin unready
               PROVE  nextNonce[KeyOf[q]] <= nonces'[KeyOf[q]]
    BY <1>1 DEF SlotsNotBehind
  <2>1. KeyOf[q] \in Keys /\ nextNonce[KeyOf[q]] <= nonces[KeyOf[q]]
    BY <1>1, <1>2, <1>7 DEF NonceInv, SlotsNotBehind
  <2>2. CASE KeyOf[q] = k
    BY <1>6, <1>10, <2>2
  <2>3. CASE KeyOf[q] # k
    BY <1>11, <2>1, <2>3
  <2> QED BY <2>2, <2>3
<1>15. \A q \in SignedRows : nextNonce[KeyOf[q]] <= signed[q] /\ signed[q] < nonces'[KeyOf[q]]
  <2> SUFFICES ASSUME NEW q \in SignedRows
               PROVE  nextNonce[KeyOf[q]] <= signed[q] /\ signed[q] < nonces'[KeyOf[q]]
    OBVIOUS
  <2>1. /\ KeyOf[q] \in Keys /\ signed[q] \in Nat
        /\ nextNonce[KeyOf[q]] <= signed[q] /\ signed[q] < nonces[KeyOf[q]]
    BY <1>5, <1>7, <1>9 DEF FreshRequest, SignedRows
  <2>2. CASE KeyOf[q] = k
    BY <1>6, <1>10, <2>1, <2>2
  <2>3. CASE KeyOf[q] # k
    BY <1>11, <2>1, <2>3
  <2> QED BY <2>1, <2>2, <2>3
<1>16. \A j \in committed' : \E q \in SignedOf(j)' : signed'[q] = nonces'[j] - 1
  <2> SUFFICES ASSUME NEW j \in committed'
               PROVE  \E q \in SignedOf(j)' : signed'[q] = nonces'[j] - 1
    OBVIOUS
  <2>1. CASE j = k
    <3>1. r \in SignedOf(j)'
      BY <1>8, <2>1 DEF SignedOf, k
    <3>2. signed'[r] = nonces'[j] - 1
      BY <1>6, <1>10, <2>1
    <3> QED BY <3>1, <3>2
  <2>2. CASE j # k
    <3>1. j \in committed /\ j \in Keys
      BY <1>1, <1>2, <2>2
    <3>2. PICK q \in SignedOf(j) : signed[q] = nonces[j] - 1
      BY <1>5, <3>1 DEF FreshRequest
    <3>3. q \in SignedOf(j)' /\ signed'[q] = signed[q]
      BY <1>8, <1>9 DEF SignedOf
    <3>4. nonces'[j] = nonces[j]
      BY <1>11, <2>2, <3>1
    <3> QED BY <3>2, <3>3, <3>4
  <2> QED BY <2>1, <2>2
<1>17. FreshRequest'
  <2>1. nextNonce'[k] <= signed'[r] /\ signed'[r] < nonces'[k] /\ k = KeyOf[r]
    BY <1>1, <1>6, <1>10 DEF k
  <2>2. SignedRows' \subseteq Pending'
    BY <1>4, <1>5, <1>8 DEF FreshRequest
  <2>3. \A q \in SignedRows' : nextNonce'[KeyOf[q]] <= signed'[q] /\ signed'[q] < nonces'[KeyOf[q]]
    BY <1>1, <1>8, <1>9, <1>15, <2>1
  <2> QED BY <1>16, <2>2, <2>3 DEF FreshRequest
<1>18. SignedOnce'
  <2>1. \A q \in SignedRows : KeyOf[q] = k => signed'[q] < signed'[r]
    BY <1>5, <1>9, <1>10 DEF FreshRequest
  <2>2. \A q \in SignedRows : signed'[q] \in Nat /\ signed'[q] = signed[q]
    BY <1>9
  <2>3. signed'[r] \in Nat /\ k = KeyOf[r]
    BY <1>6, <1>10 DEF k
  <2>4. \A q \in SignedRows : KeyOf[q] = KeyOf[r] => signed'[q] # signed'[r]
    BY <2>1, <2>2, <2>3
  <2> QED BY <1>8, <2>2, <2>4 DEF NonceInv, SignedOnce
<1>19. AcceptedBelow' /\ UniqueNonces'
  BY <1>1, <1>8 DEF NonceInv, AcceptedBelow, UniqueNonces
<1> QED BY <1>12, <1>13, <1>14, <1>17, <1>18, <1>19 DEF NonceInv

\* Steps of the signing loop that leave slots and nonces alone.
LEMMA LoopKeepsNonces ==
    ASSUME NonceInv, Submit \/ \E r \in Rows : SkipRow(r)
    PROVE  NonceInv'
<1>1. /\ phase = "sign" /\ phase' \in {"sign", "submit"} /\ todo' \subseteq todo
      /\ phase' = "submit" => todo' = {} /\ SignedRows # {}
      /\ signed' = signed /\ nonces' = nonces /\ committed' = committed
      /\ accepted' = accepted /\ nextNonce' = nextNonce /\ onChain' = onChain
      /\ channel' = channel /\ awaiting' = awaiting
      /\ unready' = unready /\ attempts' = attempts /\ skipped' \in BOOLEAN
  BY DEF Submit, SkipRow, NonceInv, TypeOK, platformVars, pollerVars
<1>2. SignedRows' = SignedRows /\ Pending' = Pending
  BY <1>1 DEF SignedRows, Pending
<1>3. TypeOK'
  BY <1>1 DEF NonceInv, TypeOK
<1>4. OneTick' /\ BatchShape'
  BY <1>1, <1>2 DEF NonceInv, OneTick, BatchShape, KeysOf
<1>5. SlotsNotBehind'
  BY <1>1 DEF NonceInv, SlotsNotBehind
<1>6. FreshRequest' /\ SignedOnce' /\ AcceptedBelow' /\ UniqueNonces'
  BY <1>1, <1>2 DEF NonceInv, FreshRequest, AcceptedRequest, SignedOnce, SignedOf,
                    AcceptedBelow, UniqueNonces
<1> QED BY <1>3, <1>4, <1>5, <1>6 DEF NonceInv

\* A request that is accepted takes nonces from the next one on, and brings the
\* next one past all of them.
LEMMA AcceptKeepsNonces ==
    ASSUME NonceInv, phase = "submit", Accept
    PROVE  /\ accepted' \in [Rows -> Nonce] /\ nextNonce' \in [Keys -> Nat]
           /\ onChain' = onChain
           /\ \A k \in Keys : /\ nextNonce[k] <= nextNonce'[k]
                              /\ nextNonce'[k] = nextNonce[k] \/ nextNonce'[k] <= nonces[k]
           /\ AcceptedBelow' /\ UniqueNonces'
           /\ SignedRows \cap Pending' = {} /\ Pending' \subseteq Pending
<1> DEFINE fresh(k) == {r \in SignedRows \cap Pending : KeyOf[r] = k}
           bound(k) == {nextNonce[k]} \cup {signed[r] + 1 : r \in fresh(k)}
<1>1. /\ accepted' = [r \in Rows |-> IF accepted[r] = NoNonce THEN signed[r]
                                     ELSE accepted[r]]
      /\ nextNonce' = [k \in Keys |-> Max(bound(k))]
      /\ onChain' = onChain
  BY DEF Accept
<1>2. /\ nonces \in [Keys -> Nonce] /\ nextNonce \in [Keys -> Nat]
      /\ signed \in [Rows -> Nonce] /\ accepted \in [Rows -> Nonce]
      /\ committed \subseteq Keys /\ committed = KeysOf(SignedRows)
      /\ \A r \in Rows : KeyOf[r] \in Keys
  BY ProcessorAssumption DEF NonceInv, TypeOK, BatchShape
<1>3. \A r \in SignedRows : signed[r] \in Nat
  BY <1>2 DEF SignedRows, Nonce
<1>4. ASSUME NEW k \in Keys, fresh(k) = {} PROVE Max(bound(k)) = nextNonce[k]
  <2>1. bound(k) = {nextNonce[k]} /\ nextNonce[k] \in Int
    BY <1>2, <1>4
  <2>2. ASSUME NEW n \in Int PROVE Max({n}) = n
    BY MaxIs
  <2> QED BY <2>1, <2>2
<1>5. ASSUME NEW k \in Keys, fresh(k) # {}
      PROVE  /\ Max(bound(k)) \in Nat /\ Max(bound(k)) > nextNonce[k]
             /\ Max(bound(k)) <= nonces[k]
             /\ \A r \in fresh(k) : nextNonce[k] <= signed[r] /\ signed[r] < Max(bound(k))
  <2>1. FreshRequest /\ k \in committed
    BY <1>2, <1>5 DEF NonceInv, AcceptedRequest, KeysOf
  <2>2. PICK top \in SignedOf(k) : signed[top] = nonces[k] - 1
    BY <2>1 DEF FreshRequest
  <2>3. top \in fresh(k) /\ \A r \in fresh(k) : r \in SignedRows /\ KeyOf[r] = k
    BY <2>1 DEF FreshRequest, SignedOf
  <2>4. /\ nonces[k] \in Int /\ nextNonce[k] \in Nat
        /\ \A r \in fresh(k) : /\ signed[r] \in Nat /\ nextNonce[k] <= signed[r]
                               /\ signed[r] < nonces[k]
    BY <1>2, <1>3, <2>1, <2>3 DEF FreshRequest, Nonce, NoNonce
  <2>5. nonces[k] \in bound(k)
    BY <2>2, <2>3, <2>4
  <2>6. bound(k) \in SUBSET Int /\ \A y \in bound(k) : nonces[k] >= y
    BY <2>3, <2>4
  <2> HIDE DEF bound
  <2>7. Max(bound(k)) = nonces[k]
    BY <2>5, <2>6, MaxIs
  <2> QED BY <2>3, <2>4, <2>7
<1> HIDE DEF bound
<1>6. /\ nextNonce' \in [Keys -> Nat]
      /\ \A k \in Keys : /\ nextNonce[k] <= nextNonce'[k]
                         /\ nextNonce'[k] = nextNonce[k] \/ nextNonce'[k] <= nonces[k]
  <2>1. \A k \in Keys : /\ Max(bound(k)) \in Nat /\ nextNonce[k] <= Max(bound(k))
                        /\ Max(bound(k)) = nextNonce[k] \/ Max(bound(k)) <= nonces[k]
    BY <1>2, <1>4, <1>5
  <2> QED BY <1>1, <2>1
<1>7. /\ accepted' \in [Rows -> Nonce]
      /\ \A r \in Rows \ Pending : accepted'[r] = accepted[r]
      /\ \A r \in Pending : accepted'[r] = signed[r]
  BY <1>1, <1>2 DEF Pending
<1>8. Rows \ Pending' = (Rows \ Pending) \cup (SignedRows \cap Pending)
  BY <1>1, <1>2 DEF Pending, SignedRows
<1>9. \A r \in SignedRows \cap Pending :
          nextNonce[KeyOf[r]] <= accepted'[r] /\ accepted'[r] < nextNonce'[KeyOf[r]]
  <2> SUFFICES ASSUME NEW r \in SignedRows \cap Pending
               PROVE  nextNonce[KeyOf[r]] <= signed[r] /\ signed[r] < nextNonce'[KeyOf[r]]
    BY <1>7
  <2>1. KeyOf[r] \in Keys /\ r \in fresh(KeyOf[r])
    BY <1>2 DEF SignedRows
  <2> QED BY <1>1, <1>5, <2>1
<1>10. \A r \in Rows \ Pending : accepted'[r] < nextNonce[KeyOf[r]]
  BY <1>7 DEF NonceInv, AcceptedBelow
<1>11. \A r \in Rows : accepted'[r] \in Int /\ nextNonce[KeyOf[r]] \in Int
                       /\ nextNonce'[KeyOf[r]] \in Int
                       /\ nextNonce[KeyOf[r]] <= nextNonce'[KeyOf[r]]
  BY <1>2, <1>6, <1>7 DEF Nonce, NoNonce
<1>12. AcceptedBelow'
  <2>1. \A r \in Rows \ Pending : accepted'[r] < nextNonce'[KeyOf[r]]
    BY <1>10, <1>11
  <2> QED BY <1>8, <1>9, <2>1 DEF AcceptedBelow
<1>13. UniqueNonces'
  <2> SUFFICES ASSUME NEW r \in Rows \ Pending', NEW s \in Rows \ Pending',
                      KeyOf[r] = KeyOf[s], accepted'[r] = accepted'[s]
               PROVE  r = s
    BY DEF UniqueNonces
  <2>1. CASE r \in Rows \ Pending /\ s \in Rows \ Pending
    BY <1>7, <2>1 DEF NonceInv, UniqueNonces
  <2>2. CASE r \in SignedRows \cap Pending /\ s \in SignedRows \cap Pending
    BY <1>7, <2>2 DEF NonceInv, SignedOnce
  <2>3. ASSUME NEW old \in Rows \ Pending, NEW new \in SignedRows \cap Pending,
               KeyOf[old] = KeyOf[new], accepted'[old] = accepted'[new]
        PROVE  FALSE
    <3>1. new \in Rows
      BY DEF SignedRows
    <3>2. accepted'[old] < nextNonce[KeyOf[old]] /\ nextNonce[KeyOf[new]] <= accepted'[new]
      BY <1>9, <1>10
    <3> QED BY <1>11, <2>3, <3>1, <3>2
  <2> QED BY <1>8, <2>1, <2>2, <2>3
<1> QED BY <1>1, <1>6, <1>7, <1>8, <1>12, <1>13 DEF Pending

\* An attempt that is lost, before or after the Platform processed it.
LEMMA AttemptKeepsNonces ==
    ASSUME NonceInv, AttemptLost
    PROVE  NonceInv'
<1>1. /\ phase = "submit" /\ phase' = phase /\ attempts' = attempts + 1
      /\ attempts < MaxAttempts - 1
      /\ nonces' = nonces /\ todo' = todo /\ unready' = unready /\ signed' = signed
      /\ committed' = committed /\ skipped' = skipped
      /\ channel' = channel /\ awaiting' = awaiting
      /\ Accept \/ UNCHANGED platformVars
  BY DEF AttemptLost, AcceptOrNot, pollerVars
<1>2. attempts' \in 0 .. MaxAttempts - 1
  BY <1>1, ProcessorAssumption DEF NonceInv, TypeOK
<1>3. SignedRows' = SignedRows /\ todo = {} /\ channel = NoTick
  BY <1>1 DEF SignedRows, NonceInv, BatchShape, OneTick
<1>4. CASE Accept
  <2>1. /\ accepted' \in [Rows -> Nonce] /\ nextNonce' \in [Keys -> Nat]
        /\ onChain' = onChain /\ AcceptedBelow' /\ UniqueNonces' /\ SignedRows \cap Pending' = {}
    BY <1>1, <1>4, AcceptKeepsNonces
  <2>2. TypeOK'
    BY <1>1, <1>2, <2>1 DEF NonceInv, TypeOK
  <2>3. OneTick' /\ BatchShape' /\ SlotsNotBehind'
    BY <1>1, <1>3 DEF NonceInv, OneTick, BatchShape, SlotsNotBehind, KeysOf, NoTick
  <2>4. AcceptedRequest' /\ SignedOnce'
    BY <1>1, <1>3, <2>1 DEF NonceInv, AcceptedRequest, SignedOnce
  <2> QED BY <2>1, <2>2, <2>3, <2>4 DEF NonceInv
<1>5. CASE UNCHANGED platformVars
  <2>1. /\ accepted' = accepted /\ nextNonce' = nextNonce /\ onChain' = onChain
        /\ Pending' = Pending
    BY <1>5 DEF platformVars, Pending
  <2>2. TypeOK'
    BY <1>1, <1>2, <2>1 DEF NonceInv, TypeOK
  <2>3. OneTick' /\ BatchShape' /\ SlotsNotBehind'
    BY <1>1, <1>3, <2>1 DEF NonceInv, OneTick, BatchShape, SlotsNotBehind, KeysOf
  <2>4. (FreshRequest \/ AcceptedRequest)' /\ SignedOnce' /\ AcceptedBelow' /\ UniqueNonces'
    BY <1>1, <1>3, <2>1 DEF NonceInv, FreshRequest, AcceptedRequest, SignedOnce, SignedOf,
                            AcceptedBelow, UniqueNonces
  <2> QED BY <2>2, <2>3, <2>4 DEF NonceInv
<1> QED BY <1>1, <1>4, <1>5

\* The end of a submission, whatever the answer, and of a batch without one.
LEMMA AnswerKeepsNonces ==
    ASSUME NonceInv,
           \/ SubmissionFails \/ SubmissionSucceeds \/ SubmissionRefused
           \/ NothingToSubmit
    PROVE  NonceInv'
<1>1. /\ phase \in {"sign", "submit"} /\ Acknowledge /\ channel' = channel
      /\ UNCHANGED platformVars \/ (phase = "submit" /\ Accept)
      /\ nonces' \in {nonces, EvictNonceKeys(committed)}
  BY DEF SubmissionFails, SubmissionSucceeds, SubmissionRefused, NothingToSubmit, AcceptOrNot
<1>2. channel = NoTick
  BY <1>1 DEF NonceInv, OneTick
<1>3. nonces' \in [Keys -> Nonce]
  BY <1>1 DEF NonceInv, TypeOK, EvictNonceKeys, Nonce
<1>4. CASE UNCHANGED platformVars
  <2>1. /\ accepted' = accepted /\ nextNonce' = nextNonce /\ onChain' = onChain
        /\ Pending' = Pending
    BY <1>4 DEF platformVars, Pending
  <2>2. /\ accepted' \in [Rows -> Nonce] /\ nextNonce' \in [Keys -> Nat]
        /\ onChain' \in [Keys -> Nat] /\ AcceptedBelow' /\ UniqueNonces'
    BY <2>1 DEF NonceInv, TypeOK, AcceptedBelow, UniqueNonces
  <2> QED BY <1>1, <1>2, <1>3, <2>2, AcknowledgeRestoresNonces
<1>5. CASE phase = "submit" /\ Accept
  <2>1. onChain' \in [Keys -> Nat]
    BY <1>5, AcceptKeepsNonces DEF NonceInv, TypeOK
  <2> QED BY <1>1, <1>2, <1>3, <1>5, <2>1, AcceptKeepsNonces, AcknowledgeRestoresNonces
<1> QED BY <1>1, <1>4, <1>5

\* A restart, and a use of the account elsewhere.
LEMMA OutsideKeepsNonces ==
    ASSUME NonceInv, Restart \/ \E k \in Keys : UsedElsewhere(k)
    PROVE  NonceInv'
<1>1. CASE Restart
  <2>1. /\ Acknowledge /\ channel' = NoTick /\ nonces' = EmptyCache
        /\ accepted' = accepted /\ nextNonce' = nextNonce /\ onChain' = onChain
    BY <1>1 DEF Restart, platformVars
  <2>2. nonces' \in [Keys -> Nonce]
    BY <2>1 DEF EmptyCache, Nonce
  <2>3. /\ accepted' \in [Rows -> Nonce] /\ nextNonce' \in [Keys -> Nat]
        /\ onChain' \in [Keys -> Nat] /\ AcceptedBelow' /\ UniqueNonces'
    BY <2>1 DEF NonceInv, TypeOK, AcceptedBelow, UniqueNonces, Pending
  <2> QED BY <2>1, <2>2, <2>3, AcknowledgeRestoresNonces
<1>2. ASSUME NEW k \in Keys, UsedElsewhere(k) PROVE NonceInv'
  <2>1. /\ ~awaiting /\ nextNonce' = [nextNonce EXCEPT ![k] = @ + 1]
        /\ onChain' = [onChain EXCEPT ![k] = nextNonce[k] + 1]
        /\ accepted' = accepted /\ channel' = channel /\ awaiting' = awaiting
        /\ phase' = phase /\ nonces' = nonces /\ todo' = todo /\ unready' = unready
        /\ signed' = signed /\ committed' = committed /\ skipped' = skipped
        /\ attempts' = attempts
    BY <1>2 DEF UsedElsewhere, pollerVars, processorVars
  <2>2. phase = "recv"
    BY <2>1 DEF NonceInv, OneTick
  <2>3. nextNonce' \in [Keys -> Nat] /\ \A j \in Keys : nextNonce[j] <= nextNonce'[j]
    BY <2>1 DEF NonceInv, TypeOK
  <2>4. SignedRows' = SignedRows /\ Pending' = Pending /\ SignedRows = {} /\ committed = {}
    BY <2>1, <2>2 DEF SignedRows, Pending, NonceInv, BatchShape, KeysOf
  <2>5. TypeOK'
    <3>1. onChain' \in [Keys -> Nat]
      BY <2>1 DEF NonceInv, TypeOK
    <3> QED BY <2>1, <2>3, <3>1 DEF NonceInv, TypeOK
  <2>6. OneTick' /\ BatchShape' /\ SlotsNotBehind'
    BY <2>1, <2>2, <2>4 DEF NonceInv, OneTick, BatchShape, SlotsNotBehind, KeysOf
  <2>7. FreshRequest' /\ SignedOnce' /\ UniqueNonces'
    BY <2>1, <2>4 DEF NonceInv, FreshRequest, SignedOnce, UniqueNonces
  <2>8. AcceptedBelow'
    <3> SUFFICES ASSUME NEW r \in Rows \ Pending PROVE accepted[r] < nextNonce'[KeyOf[r]]
      BY <2>1, <2>4 DEF AcceptedBelow
    <3>1. /\ KeyOf[r] \in Keys /\ accepted[r] \in Int
          /\ nextNonce[KeyOf[r]] \in Int /\ nextNonce'[KeyOf[r]] \in Int
      BY <2>3, ProcessorAssumption DEF NonceInv, TypeOK, Nonce, NoNonce
    <3>2. accepted[r] < nextNonce[KeyOf[r]] /\ nextNonce[KeyOf[r]] <= nextNonce'[KeyOf[r]]
      BY <2>3, <3>1 DEF NonceInv, AcceptedBelow
    <3> QED BY <3>1, <3>2
  <2> QED BY <2>5, <2>6, <2>7, <2>8 DEF NonceInv
<1> QED BY <1>1, <1>2

LEMMA StutterKeepsNonces ==
    ASSUME NonceInv, UNCHANGED vars
    PROVE  NonceInv'
<1>1. /\ accepted' = accepted /\ nextNonce' = nextNonce /\ onChain' = onChain
      /\ channel' = channel /\ awaiting' = awaiting /\ phase' = phase /\ nonces' = nonces
      /\ todo' = todo /\ unready' = unready /\ signed' = signed
      /\ committed' = committed /\ skipped' = skipped /\ attempts' = attempts
  BY DEF vars, platformVars, pollerVars, processorVars
<1>2. SignedRows' = SignedRows /\ Pending' = Pending
  BY <1>1 DEF SignedRows, Pending
<1>3. TypeOK' /\ OneTick' /\ BatchShape' /\ SlotsNotBehind'
  BY <1>1, <1>2 DEF NonceInv, TypeOK, OneTick, BatchShape, SlotsNotBehind, KeysOf
<1>4. (FreshRequest \/ AcceptedRequest)' /\ SignedOnce' /\ AcceptedBelow' /\ UniqueNonces'
  BY <1>1, <1>2 DEF NonceInv, FreshRequest, AcceptedRequest, SignedOnce, SignedOf,
                    AcceptedBelow, UniqueNonces
<1> QED BY <1>3, <1>4 DEF NonceInv

LEMMA NextKeepsNonces ==
    ASSUME NonceInv, SlotOrChain, [Next]_vars
    PROVE  NonceInv' /\ SlotOrChain'
<1>1. NonceInv'
  BY TickKeepsNonces, PrefetchKeepsNonces, SigningKeepsNonces, LoopKeepsNonces,
     AttemptKeepsNonces, AnswerKeepsNonces, OutsideKeepsNonces, StutterKeepsNonces
     DEF Next, Process
<1>2. SlotOrChain'
  <2>1. ASSUME phase = "submit", Accept, NEW k \in Keys
        PROVE  /\ nextNonce'[k] \in Nat /\ nextNonce[k] <= nextNonce'[k]
               /\ nextNonce'[k] = nextNonce[k] \/ nextNonce'[k] <= nonces[k]
    BY <2>1, AcceptKeepsNonces
  <2> QED BY <2>1, SlotOrChainKept DEF NonceInv
<1> QED BY <1>1, <1>2

\* The invariant, and what ties a late GetAccountNonce to the slots.
THEOREM NonceInvariance == Spec => [](NonceInv /\ SlotOrChain)
<1>1. Init => SlotOrChain
  BY DEF Init, SlotOrChain, EmptyCache
<1>2. NonceInv /\ SlotOrChain /\ [Next]_vars => NonceInv' /\ SlotOrChain'
  BY NextKeepsNonces
<1> QED BY <1>1, <1>2, NonceInvInit, PTL DEF Spec

-----------------------------------------------------------------------------
\* No two accepted rows of an account share a nonce, whether or not the
\* Platform answers false and the cache drifts (sign_transactions,
\* platform_client.rs:60-84), and however late GetAccountNonce answers for a
\* slot (transaction.rs:821-823).
THEOREM NoncesAreUnique == Spec => []UniqueNonces
<1>1. NonceInv => UniqueNonces
  BY DEF NonceInv
<1> QED BY <1>1, NonceInvariance, PTL

\* The variables of the processor keep their types, the attempts of a request
\* their bound (MUTATION_TRANSPORT_RETRIES, platform_client.rs:19).
THEOREM ProcessorTypeCorrect == Spec => []TypeOK
<1>1. NonceInv => TypeOK
  BY DEF NonceInv
<1> QED BY <1>1, NonceInvariance, PTL

\* Nor is a row signed again that the Platform has accepted
\* (transaction.rs:173-181).
THEOREM NothingIsSignedTwice == Spec => []AcceptedNeverResigned
<1>1. NonceInv => AcceptedNeverResigned
  BY DEF NonceInv, BatchShape, FreshRequest, AcceptedRequest, AcceptedNeverResigned
<1> QED BY <1>1, NonceInvariance, PTL
=================================================================================
