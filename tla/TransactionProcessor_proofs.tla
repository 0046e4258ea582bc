--------------------- MODULE TransactionProcessor_proofs ---------------------
(***************************************************************************)
(* Proofs that the processor's nonce cache is kept in step with a Platform *)
(* that answers its mutations truthfully and its nonce queries as late as  *)
(* it likes, for every set of rows, keys and chains, every page size and   *)
(* every number of attempts.                                               *)
(***************************************************************************)
EXTENDS TransactionProcessor, TLAPS

SignedOf(k) == {r \in SignedRows : KeyOf[r] = k}

\* One tick at a time: the poller waits while one is queued or processed.
OneTick ==
    /\ phase # "recv" => awaiting /\ channel = NoTick
    /\ ~awaiting => channel = NoTick
    /\ channel.batch \subseteq Pending

\* Where the rows of the batch are in each phase.
BatchShape ==
    /\ phase \in {"recv", "prefetch"} => SignedRows = {}
    /\ phase \in {"recv", "submit"} => todo = {}
    /\ phase = "submit" => SignedRows # {}
    /\ todo \subseteq Pending
    /\ todo \cap SignedRows = {}
    /\ committed = KeysOf(SignedRows)

\* A slot can only be behind the Platform by uses of the account elsewhere, and
\* those are on the chain, so no answer is late enough to miss them.
SlotOrChain ==
    /\ \A k \in Keys : onChain[k] <= nextNonce[k]
    /\ \A k \in Keys : nonces[k] # NoNonce /\ nonces[k] < nextNonce[k] =>
                           onChain[k] = nextNonce[k]

\* A slot about to be used is not behind the Platform.
SlotsNotBehind ==
    phase = "sign" =>
        \A r \in todo : KeyOf[r] \notin unready => nextNonce[KeyOf[r]] <= nonces[KeyOf[r]]

\* Slots that this batch has not advanced are not ahead of the Platform, and
\* those it may still advance agree with it.
UntouchedSlots ==
    /\ \A k \in Keys \ committed : nonces[k] <= nextNonce[k]
    /\ phase = "sign" =>
           \A r \in todo : KeyOf[r] \notin unready \cup committed =>
                               nonces[KeyOf[r]] = nextNonce[KeyOf[r]]

\* Until the request is accepted, the nonces signed for a key run from the
\* Platform's next one up to the slot.
PendingRun ==
    /\ SignedRows \subseteq Pending
    /\ \A k \in committed :
           /\ nextNonce[k] < nonces[k]
           /\ {signed[r] : r \in SignedOf(k)} = nextNonce[k] .. nonces[k] - 1

\* Afterwards the Platform has caught up with the slots.
AcceptedRun ==
    /\ phase = "submit"
    /\ SignedRows \cap Pending = {}
    /\ \A k \in committed : nonces[k] = nextNonce[k]

SignedOnce ==
    \A r, s \in SignedRows : KeyOf[r] = KeyOf[s] /\ signed[r] = signed[s] => r = s

ProcessorInv ==
    /\ TypeOK
    /\ OneTick
    /\ BatchShape
    /\ UntouchedSlots
    /\ PendingRun \/ AcceptedRun
    /\ SignedOnce

-----------------------------------------------------------------------------
\* The maximum of a set of integers is any member that bounds it.
LEMMA MaxIs ==
    ASSUME NEW T \in SUBSET Int, NEW m \in T, \A y \in T : m >= y
    PROVE  Max(T) = m
<1>1. \A x \in T : (\A y \in T : x >= y) => x = m
  OBVIOUS
<1> QED BY <1>1 DEF Max

LEMMA AttemptsStartAtZero == 0 \in 0 .. MaxAttempts - 1
BY ProcessorAssumption

LEMMA NoTickIsATick == NoTick \in ProcessorTick
BY DEF NoTick, ProcessorTick

LEMMA NoneSignedType == NoneSigned \in [Rows -> Nonce]
BY DEF NoneSigned, Nonce, NoNonce

\* Leaving the handler with slots that are not ahead restores the invariant.
LEMMA AcknowledgeRestores ==
    ASSUME ProcessorInv, Acknowledge, channel' = NoTick,
           accepted' \in [Rows -> Nonce], nextNonce' \in [Keys -> Nat],
           onChain' \in [Keys -> Nat], nonces' \in [Keys -> Nonce],
           \A k \in Keys : nonces'[k] <= nextNonce'[k]
    PROVE  ProcessorInv'
<1>1. TypeOK'
  BY AttemptsStartAtZero, NoTickIsATick, NoneSignedType
     DEF ProcessorInv, TypeOK, Acknowledge
<1>2. SignedRows' = {} /\ committed' = {} /\ todo' = {}
  BY DEF SignedRows, Acknowledge, NoneSigned
<1>3. OneTick' /\ BatchShape' /\ UntouchedSlots'
  BY <1>2 DEF OneTick, BatchShape, UntouchedSlots, Acknowledge, KeysOf, NoTick
<1>4. PendingRun' /\ SignedOnce'
  BY <1>2 DEF PendingRun, SignedOnce
<1> QED BY <1>1, <1>3, <1>4 DEF ProcessorInv

LEMMA ProcessorInvInit == Init => ProcessorInv
<1> SUFFICES ASSUME Init PROVE ProcessorInv
  OBVIOUS
<1>1. TypeOK
  <2>1. /\ nonces \in [Keys -> Nonce]
        /\ nextNonce \in [Keys -> Nat] /\ onChain \in [Keys -> Nat]
    BY DEF Init, EmptyCache, Nonce, NoNonce
  <2> QED BY <2>1, AttemptsStartAtZero, NoTickIsATick, NoneSignedType
          DEF Init, TypeOK
<1>2. SignedRows = {} /\ committed = {} /\ todo = {}
  BY DEF Init, SignedRows, NoneSigned
<1>3. OneTick /\ BatchShape
  BY <1>2 DEF Init, OneTick, BatchShape, KeysOf, NoTick
<1>4. UntouchedSlots
  BY <1>2 DEF Init, UntouchedSlots, EmptyCache, NoNonce
<1>5. PendingRun /\ SignedOnce
  BY <1>2 DEF PendingRun, SignedOnce
<1> QED BY <1>1, <1>3, <1>4, <1>5 DEF ProcessorInv

\* The poller's tick, and taking it, preserve the invariant.
LEMMA TickPreserves ==
    ASSUME ProcessorInv,
           \/ \E rows \in SUBSET Rows, idle \in SUBSET Chains : SendTick(rows, idle)
           \/ ReceiveTick
    PROVE  ProcessorInv'
<1>1. ASSUME NEW rows \in SUBSET Rows, NEW idle \in SUBSET Chains, SendTick(rows, idle)
      PROVE  ProcessorInv'
  <2>1. phase = "recv"
    BY <1>1 DEF SendTick, ProcessorInv, TypeOK, OneTick
  <2>2. TypeOK'
    BY <1>1 DEF SendTick, ProcessorInv, TypeOK, ProcessorTick, platformVars, processorVars
  <2>3. SignedRows' = SignedRows /\ Pending' = Pending
    BY <1>1 DEF SendTick, SignedRows, Pending, platformVars, processorVars
  <2>4. OneTick' /\ BatchShape' /\ UntouchedSlots'
    BY <1>1, <2>1, <2>3
       DEF SendTick, ProcessorInv, OneTick, BatchShape, UntouchedSlots, platformVars,
           processorVars
  <2>5. (PendingRun \/ AcceptedRun)' /\ SignedOnce'
    BY <1>1, <2>1, <2>3
       DEF SendTick, ProcessorInv, PendingRun, AcceptedRun, SignedOnce, SignedOf,
           platformVars, processorVars
  <2> QED BY <2>2, <2>4, <2>5 DEF ProcessorInv
<1>2. CASE ReceiveTick
  <2>1. /\ SignedRows = {} /\ committed = {} /\ todo = {}
        /\ channel.batch \subseteq Pending /\ channel.batch \subseteq Rows
    BY <1>2 DEF ReceiveTick, ProcessorInv, BatchShape, OneTick, KeysOf, TypeOK,
                ProcessorTick
  <2>2. /\ nonces' \in [Keys -> Nonce]
        /\ nextNonce' = nextNonce /\ accepted' = accepted /\ onChain' = onChain
        /\ \A k \in Keys : nonces'[k] <= nextNonce'[k]
    <3>1. \A k \in Keys : nonces[k] <= nextNonce[k]
      BY <2>1 DEF ProcessorInv, UntouchedSlots
    <3>2. nonces \in [Keys -> Nonce] /\ nextNonce \in [Keys -> Nat]
      BY DEF ProcessorInv, TypeOK
    <3> QED BY <1>2, <3>1, <3>2
            DEF ReceiveTick, EvictIdleChains, Nonce, NoNonce, platformVars
  <2>3. CASE channel.batch = {}
    BY <1>2, <2>2, <2>3, AcknowledgeRestores
       DEF ReceiveTick, ProcessorInv, TypeOK
  <2>4. CASE channel.batch # {}
    <3>1. /\ phase' = "prefetch" /\ todo' = channel.batch /\ channel' = NoTick
          /\ signed' = signed /\ committed' = committed /\ awaiting' = awaiting
          /\ unready' = unready /\ skipped' = skipped /\ attempts' = attempts
      BY <1>2, <2>4 DEF ReceiveTick
    <3>2. SignedRows' = {} /\ Pending' = Pending
      BY <2>1, <2>2, <3>1 DEF SignedRows, Pending
    <3>3. TypeOK'
      BY <2>1, <2>2, <3>1, NoTickIsATick DEF ProcessorInv, TypeOK
    <3>4. awaiting
      BY <1>2 DEF ReceiveTick, ProcessorInv, OneTick, TypeOK
    <3>5. OneTick'
      BY <3>1, <3>4 DEF OneTick, NoTick
    <3>6. BatchShape'
      BY <2>1, <3>1, <3>2 DEF BatchShape, KeysOf
    <3>7. UntouchedSlots'
      BY <2>2, <3>1 DEF UntouchedSlots
    <3>8. PendingRun' /\ SignedOnce'
      BY <2>1, <3>1, <3>2 DEF PendingRun, SignedOnce
    <3> QED BY <3>3, <3>5, <3>6, <3>7, <3>8 DEF ProcessorInv
  <2> QED BY <2>3, <2>4
<1> QED BY <1>1, <1>2

\* What a prefetch makes of the slots: those it refreshed are not behind, and
\* those that were not ahead agree with the Platform, however late its answers.
LEMMA PrefetchedSlots ==
    ASSUME TypeOK, SlotOrChain, NEW failedChains \in SUBSET Chains,
           NEW failedKeys \in SUBSET Keys, Prefetch(failedChains, failedKeys)
    PROVE  /\ unready' \subseteq Keys
           /\ nonces' \in [Keys -> Nonce]
           /\ \A k \in Keys : \/ nonces'[k] = nonces[k]
                              \/ nextNonce[k] <= nonces'[k] /\ nonces[k] < nonces'[k]
           /\ \A r \in todo : KeyOf[r] \notin unready' =>
                  /\ nextNonce[KeyOf[r]] <= nonces'[KeyOf[r]]
                  /\ nonces[KeyOf[r]] <= nextNonce[KeyOf[r]] =>
                         nonces'[KeyOf[r]] = nextNonce[KeyOf[r]]
<1> DEFINE failed == {k \in Keys : ChainOf[k] \in failedChains} \cup failedKeys
           ready  == KeysOf(todo) \ failed
<1>1. PICK answer \in NonceAnswers :
          nonces' = [k \in Keys |-> IF k \in ready THEN Rebase(nonces[k], answer[k])
                                    ELSE nonces[k]]
  BY DEF Prefetch
<1>2. unready' = failed /\ failed \subseteq Keys
  BY DEF Prefetch
<1>3. \A r \in todo : KeyOf[r] \in Keys /\ (KeyOf[r] \notin failed => KeyOf[r] \in ready)
  BY ProcessorAssumption DEF KeysOf, TypeOK
<1> HIDE DEF failed, ready
<1>4. \A k \in Keys : nonces'[k] = IF k \in ready THEN Rebase(nonces[k], answer[k])
                                   ELSE nonces[k]
  BY <1>1
<1>5. ASSUME NEW k \in Keys
      PROVE  /\ nonces[k] \in Nonce /\ nextNonce[k] \in Nat /\ onChain[k] \in Nat
             /\ answer[k] \in Nat /\ answer[k] <= nextNonce[k]
             /\ nonces[k] < nextNonce[k] => answer[k] = nextNonce[k]
  <2>1. nonces[k] \in Nonce /\ nextNonce[k] \in Nat /\ onChain[k] \in Nat
    BY DEF TypeOK
  <2>2. answer[k] \in MayAnswer(k)
    BY DEF NonceAnswers
  <2>3. CASE nonces[k] = NoNonce
    BY <2>1, <2>2, <2>3 DEF MayAnswer
  <2>4. CASE nonces[k] # NoNonce
    <3>1. answer[k] \in onChain[k] .. nextNonce[k]
      BY <2>2, <2>4 DEF MayAnswer
    <3>2. nonces[k] < nextNonce[k] => onChain[k] = nextNonce[k]
      BY <2>4 DEF SlotOrChain
    <3> QED BY <2>1, <3>1, <3>2
  <2> QED BY <2>1, <2>3, <2>4
<1>6. ASSUME NEW k \in ready, k \in Keys
      PROVE  /\ nonces'[k] \in Nat /\ nextNonce[k] <= nonces'[k]
             /\ nonces'[k] = nonces[k] \/ nonces[k] < nonces'[k]
             /\ nonces[k] <= nextNonce[k] => nonces'[k] = nextNonce[k]
  BY <1>4, <1>5, <1>6 DEF Rebase, Nonce, NoNonce
<1>7. nonces' \in [Keys -> Nonce]
  <2>1. \A k \in Keys : nonces'[k] \in Nonce
    BY <1>4, <1>5, <1>6 DEF Nonce
  <2> QED BY <1>1, <2>1
<1> QED BY <1>2, <1>3, <1>4, <1>6, <1>7

\* The prefetch leaves every slot it may advance equal to the Platform's nonce.
LEMMA PrefetchPreserves ==
    ASSUME ProcessorInv, SlotOrChain, NEW failedChains \in SUBSET Chains,
           NEW failedKeys \in SUBSET Keys, Prefetch(failedChains, failedKeys)
    PROVE  ProcessorInv'
<1>1. /\ phase = "prefetch" /\ phase' = "sign"
      /\ accepted' = accepted /\ nextNonce' = nextNonce /\ onChain' = onChain
      /\ channel' = channel /\ awaiting' = awaiting
      /\ todo' = todo /\ signed' = signed /\ committed' = committed
      /\ skipped' = skipped /\ attempts' = attempts
  BY DEF Prefetch, platformVars, pollerVars
<1>2. /\ nonces \in [Keys -> Nonce] /\ nextNonce \in [Keys -> Nat] /\ todo \subseteq Rows
  BY DEF ProcessorInv, TypeOK
<1>3. SignedRows = {} /\ committed = {} /\ SignedRows' = SignedRows /\ Pending' = Pending
  BY <1>1 DEF ProcessorInv, BatchShape, KeysOf, SignedRows, Pending
<1>4. \A k \in Keys : nonces[k] <= nextNonce[k]
  BY <1>3 DEF ProcessorInv, UntouchedSlots
<1>5. \A r \in todo : KeyOf[r] \in Keys
  BY <1>2, ProcessorAssumption
<1>6. /\ unready' \subseteq Keys /\ nonces' \in [Keys -> Nonce]
      /\ \A r \in todo : KeyOf[r] \notin unready' => nonces'[KeyOf[r]] = nextNonce[KeyOf[r]]
  BY <1>4, <1>5, PrefetchedSlots DEF ProcessorInv
<1>7. \A k \in Keys : nonces'[k] <= nextNonce[k]
  <2>1. ASSUME NEW k \in Keys PROVE nonces'[k] <= nextNonce[k]
    <3>1. CASE nonces'[k] = nonces[k]
      BY <1>4, <3>1
    <3>2. CASE nonces'[k] # nonces[k]
      <4>1. \E r \in todo : KeyOf[r] = k /\ k \notin unready'
        BY <3>2, <1>2 DEF Prefetch, KeysOf
      <4> QED BY <1>2, <1>6, <4>1
    <3> QED BY <3>1, <3>2
  <2> QED BY <2>1
<1>8. TypeOK'
  BY <1>1, <1>6 DEF ProcessorInv, TypeOK
<1>9. OneTick' /\ BatchShape'
  BY <1>1, <1>3 DEF ProcessorInv, OneTick, BatchShape, KeysOf
<1>10. UntouchedSlots'
  BY <1>1, <1>6, <1>7 DEF UntouchedSlots
<1>11. PendingRun' /\ SignedOnce'
  BY <1>1, <1>3 DEF PendingRun, SignedOnce
<1> QED BY <1>8, <1>9, <1>10, <1>11 DEF ProcessorInv

\* Signing a row extends its key's run by the slot, and skipping one leaves
\* every run alone.
LEMMA SignRowPreserves ==
    ASSUME ProcessorInv, NEW r \in Rows, SignRow(r)
    PROVE  ProcessorInv'
<1> DEFINE k == KeyOf[r]
<1>1. /\ phase = "sign" /\ phase' = "sign" /\ r \in todo /\ k \notin unready
      /\ signed' = [signed EXCEPT ![r] = nonces[k]]
      /\ nonces' = [nonces EXCEPT ![k] = @ + 1]
      /\ committed' = committed \cup {k} /\ todo' = todo \ {r}
      /\ accepted' = accepted /\ nextNonce' = nextNonce /\ onChain' = onChain
      /\ channel' = channel /\ awaiting' = awaiting
      /\ unready' = unready /\ skipped' = skipped /\ attempts' = attempts
  BY DEF SignRow, platformVars, pollerVars
<1>2. /\ nonces \in [Keys -> Nonce] /\ nextNonce \in [Keys -> Nat]
      /\ signed \in [Rows -> Nonce] /\ todo \subseteq Rows /\ committed \subseteq Keys
  BY DEF ProcessorInv, TypeOK
<1>3. k \in Keys
  BY ProcessorAssumption
<1>4. /\ r \notin SignedRows /\ r \in Pending /\ committed = KeysOf(SignedRows)
      /\ todo \subseteq Pending /\ todo \cap SignedRows = {}
  BY <1>1 DEF ProcessorInv, BatchShape
<1>5. PendingRun
  BY <1>1 DEF ProcessorInv, AcceptedRun
<1>6. IF k \in committed THEN nextNonce[k] < nonces[k] ELSE nonces[k] = nextNonce[k]
  BY <1>1, <1>5 DEF PendingRun, ProcessorInv, UntouchedSlots
<1>7. nonces[k] \in Nat /\ nextNonce[k] \in Nat /\ nextNonce[k] <= nonces[k]
  BY <1>2, <1>3, <1>6 DEF Nonce, NoNonce
<1> HIDE DEF k
<1>8. SignedRows' = SignedRows \cup {r} /\ Pending' = Pending
  BY <1>1, <1>2, <1>7 DEF SignedRows, Pending, NoNonce
<1>9. \A q \in SignedRows : signed'[q] = signed[q]
  BY <1>1, <1>2, <1>4 DEF SignedRows
<1>10. signed'[r] = nonces[k] /\ nonces'[k] = nonces[k] + 1
  BY <1>1, <1>2, <1>3
<1>11. \A j \in Keys \ {k} : nonces'[j] = nonces[j]
  BY <1>1, <1>2
<1>12. SignedOf(k)' = SignedOf(k) \cup {r}
  BY <1>8 DEF SignedOf, k
<1>13. \A j \in Keys \ {k} : SignedOf(j)' = SignedOf(j)
  BY <1>8 DEF SignedOf, k
<1>14. TypeOK'
  BY <1>1, <1>2, <1>3, <1>7 DEF ProcessorInv, TypeOK, Nonce
<1>15. OneTick'
  BY <1>1, <1>8 DEF ProcessorInv, OneTick
<1>16. BatchShape'
  BY <1>1, <1>4, <1>8 DEF BatchShape, KeysOf, k
<1>17. UntouchedSlots'
  <2>1. \A j \in Keys \ committed' : nonces'[j] <= nextNonce'[j]
    BY <1>1, <1>11 DEF ProcessorInv, UntouchedSlots
  <2>2. ASSUME NEW q \in todo', KeyOf[q] \notin unready' \cup committed'
        PROVE  nonces'[KeyOf[q]] = nextNonce'[KeyOf[q]]
    <3>1. q \in todo /\ KeyOf[q] \in Keys \ {k} /\ KeyOf[q] \notin unready \cup committed
      BY <1>1, <1>2, <2>2, ProcessorAssumption
    <3> QED BY <1>1, <1>11, <3>1 DEF ProcessorInv, UntouchedSlots
  <2> QED BY <2>1, <2>2 DEF UntouchedSlots
<1>18. PendingRun'
  <2>1. SignedRows' \subseteq Pending'
    BY <1>4, <1>5, <1>8 DEF PendingRun
  <2>2. ASSUME NEW j \in committed \ {k}
        PROVE  /\ nextNonce'[j] < nonces'[j]
               /\ {signed'[q] : q \in SignedOf(j)'} = nextNonce'[j] .. nonces'[j] - 1
    <3>1. j \in Keys \ {k}
      BY <1>2, <2>2
    <3>2. {signed'[q] : q \in SignedOf(j)} = {signed[q] : q \in SignedOf(j)}
      BY <1>9 DEF SignedOf
    <3> QED BY <1>1, <1>5, <1>11, <1>13, <2>2, <3>1, <3>2 DEF PendingRun
  <2>3. /\ nextNonce'[k] < nonces'[k]
        /\ {signed'[q] : q \in SignedOf(k)'} = nextNonce'[k] .. nonces'[k] - 1
    <3>1. {signed[q] : q \in SignedOf(k)} = nextNonce[k] .. nonces[k] - 1
      <4>1. CASE k \in committed
        BY <1>5, <4>1 DEF PendingRun
      <4>2. CASE k \notin committed
        BY <1>4, <1>6, <1>7, <4>2 DEF SignedOf, KeysOf
      <4> QED BY <4>1, <4>2
    <3>2. {signed'[q] : q \in SignedOf(k)'} = {signed[q] : q \in SignedOf(k)} \cup {nonces[k]}
      BY <1>9, <1>10, <1>12 DEF SignedOf
    <3>3. nextNonce[k] .. nonces[k] = (nextNonce[k] .. nonces[k] - 1) \cup {nonces[k]}
      BY <1>7
    <3>4. /\ nextNonce'[k] = nextNonce[k] /\ nonces'[k] - 1 = nonces[k]
          /\ nextNonce[k] < nonces[k] + 1
      BY <1>1, <1>7, <1>10
    <3>5. {signed'[q] : q \in SignedOf(k)'} = nextNonce'[k] .. nonces'[k] - 1
      BY <3>1, <3>2, <3>3, <3>4
    <3> QED BY <1>10, <3>4, <3>5
  <2> QED BY <1>1, <2>1, <2>2, <2>3 DEF PendingRun
<1>19. SignedOnce'
  <2>1. \A q \in SignedRows : KeyOf[q] = k => signed[q] < nonces[k]
    <3> SUFFICES ASSUME NEW q \in SignedRows, KeyOf[q] = k PROVE signed[q] < nonces[k]
      OBVIOUS
    <3>1. k \in committed /\ q \in SignedOf(k)
      BY <1>4 DEF KeysOf, SignedOf
    <3>2. signed[q] \in nextNonce[k] .. nonces[k] - 1
      BY <1>5, <3>1 DEF PendingRun
    <3> QED BY <1>7, <3>2
  <2>2. \A q \in SignedRows : KeyOf[q] = k => signed'[q] # signed'[r]
    BY <1>2, <1>7, <1>9, <1>10, <2>1 DEF SignedRows, Nonce
  <2> QED BY <1>8, <1>9, <2>2 DEF SignedOnce, ProcessorInv, k
<1> QED BY <1>14, <1>15, <1>16, <1>17, <1>18, <1>19 DEF ProcessorInv

LEMMA SkipRowPreserves ==
    ASSUME ProcessorInv, NEW r \in Rows, SkipRow(r)
    PROVE  ProcessorInv'
<1>1. /\ phase = "sign" /\ phase' = "sign" /\ todo' = todo \ {r} /\ skipped' = TRUE
      /\ signed' = signed /\ nonces' = nonces /\ committed' = committed
      /\ accepted' = accepted /\ nextNonce' = nextNonce /\ onChain' = onChain
      /\ channel' = channel /\ awaiting' = awaiting
      /\ unready' = unready /\ attempts' = attempts
  BY DEF SkipRow, platformVars, pollerVars
<1>2. SignedRows' = SignedRows /\ Pending' = Pending
  BY <1>1 DEF SignedRows, Pending
<1>3. TypeOK'
  BY <1>1 DEF ProcessorInv, TypeOK
<1>4. OneTick' /\ BatchShape' /\ UntouchedSlots'
  BY <1>1, <1>2 DEF ProcessorInv, OneTick, BatchShape, UntouchedSlots, KeysOf
<1>5. (PendingRun \/ AcceptedRun)' /\ SignedOnce'
  BY <1>1, <1>2 DEF ProcessorInv, PendingRun, AcceptedRun, SignedOnce, SignedOf
<1> QED BY <1>3, <1>4, <1>5 DEF ProcessorInv

LEMMA SubmitPreserves ==
    ASSUME ProcessorInv, Submit
    PROVE  ProcessorInv'
<1>1. /\ phase = "sign" /\ phase' = "submit" /\ todo = {} /\ todo' = todo
      /\ SignedRows # {} /\ skipped' = skipped
      /\ signed' = signed /\ nonces' = nonces /\ committed' = committed
      /\ accepted' = accepted /\ nextNonce' = nextNonce /\ onChain' = onChain
      /\ channel' = channel /\ awaiting' = awaiting
      /\ unready' = unready /\ attempts' = attempts
  BY DEF Submit, platformVars, pollerVars
<1>2. SignedRows' = SignedRows /\ Pending' = Pending
  BY <1>1 DEF SignedRows, Pending
<1>3. TypeOK'
  BY <1>1 DEF ProcessorInv, TypeOK
<1>4. OneTick' /\ BatchShape' /\ UntouchedSlots'
  BY <1>1, <1>2 DEF ProcessorInv, OneTick, BatchShape, UntouchedSlots, KeysOf
<1>5. PendingRun' /\ SignedOnce'
  BY <1>1, <1>2 DEF ProcessorInv, PendingRun, AcceptedRun, SignedOnce, SignedOf
<1> QED BY <1>3, <1>4, <1>5 DEF ProcessorInv

\* When every row was skipped no slot was advanced.
LEMMA NothingToSubmitPreserves ==
    ASSUME ProcessorInv, NothingToSubmit
    PROVE  ProcessorInv'
<1>1. /\ Acknowledge /\ phase = "sign" /\ SignedRows = {} /\ channel' = channel
      /\ nonces' = nonces /\ accepted' = accepted /\ nextNonce' = nextNonce /\ onChain' = onChain
  BY DEF NothingToSubmit, platformVars
<1>2. committed = {} /\ channel = NoTick
  BY <1>1 DEF ProcessorInv, BatchShape, OneTick, KeysOf
<1>3. \A k \in Keys : nonces'[k] <= nextNonce'[k]
  BY <1>1, <1>2 DEF ProcessorInv, UntouchedSlots
<1> QED BY <1>1, <1>2, <1>3, AcknowledgeRestores DEF ProcessorInv, TypeOK

-----------------------------------------------------------------------------
\* What the Platform does with a request.  One it has not accepted brings its
\* nonces up to the slots; one it has accepted changes nothing.
LEMMA AcceptFacts ==
    ASSUME ProcessorInv, phase = "submit", Accept
    PROVE  /\ accepted' \in [Rows -> Nonce]
           /\ nextNonce' \in [Keys -> Nat] /\ onChain' = onChain
           /\ \A k \in committed : nextNonce'[k] = nonces[k]
           /\ \A k \in Keys \ committed : nextNonce'[k] = nextNonce[k]
           /\ \A r \in SignedRows \cap Pending : accepted'[r] = signed[r]
           /\ \A r \in Rows \ (SignedRows \cap Pending) : accepted'[r] = accepted[r]
           /\ SignedRows \cap Pending' = {}
<1> DEFINE fresh(k) == {r \in SignedRows \cap Pending : KeyOf[r] = k}
           bound(k) == {nextNonce[k]} \cup {signed[r] + 1 : r \in fresh(k)}
<1>1. /\ accepted' = [r \in Rows |-> IF accepted[r] = NoNonce THEN signed[r]
                                     ELSE accepted[r]]
      /\ nextNonce' = [k \in Keys |-> Max(bound(k))]
      /\ onChain' = onChain
  BY DEF Accept
<1>2. /\ nonces \in [Keys -> Nonce] /\ nextNonce \in [Keys -> Nat]
      /\ signed \in [Rows -> Nonce] /\ accepted \in [Rows -> Nonce]
      /\ committed \subseteq Keys
  BY DEF ProcessorInv, TypeOK
<1>3. committed = KeysOf(SignedRows)
  BY DEF ProcessorInv, BatchShape
<1>4. \A k \in Keys : bound(k) \in SUBSET Int /\ nextNonce[k] \in bound(k)
  BY <1>2 DEF SignedRows, Nonce, NoNonce
<1>5. \A k \in Keys : fresh(k) = {} => Max(bound(k)) = nextNonce[k]
  <2> SUFFICES ASSUME NEW k \in Keys, fresh(k) = {} PROVE Max(bound(k)) = nextNonce[k]
    OBVIOUS
  <2>1. bound(k) = {nextNonce[k]} /\ nextNonce[k] \in Int
    BY <1>2
  <2> QED BY <2>1, MaxIs
<1>6. \A k \in Keys \ committed : nextNonce'[k] = nextNonce[k]
  <2>1. \A k \in Keys \ committed : fresh(k) = {}
    BY <1>3 DEF KeysOf
  <2> QED BY <1>1, <1>5, <2>1
<1>7. \A k \in committed : nextNonce'[k] = nonces[k]
  <2>1. CASE AcceptedRun
    <3>1. \A k \in committed : fresh(k) = {} /\ nonces[k] = nextNonce[k]
      BY <2>1 DEF AcceptedRun
    <3> QED BY <1>1, <1>2, <1>5, <3>1
  <2>2. CASE PendingRun
    <3> SUFFICES ASSUME NEW k \in committed PROVE Max(bound(k)) = nonces[k]
      BY <1>1, <1>2
    <3>1. /\ nextNonce[k] \in Nat /\ nonces[k] \in Int /\ nextNonce[k] < nonces[k]
          /\ {signed[r] : r \in SignedOf(k)} = nextNonce[k] .. nonces[k] - 1
      BY <1>2, <2>2 DEF PendingRun, Nonce, NoNonce
    <3>2. fresh(k) = SignedOf(k)
      BY <2>2 DEF PendingRun, SignedOf
    <3>3. PICK top \in fresh(k) : signed[top] = nonces[k] - 1
      BY <3>1, <3>2
    <3>4. nonces[k] \in bound(k)
      BY <3>1, <3>3
    <3>5. \A r \in fresh(k) : signed[r] \in nextNonce[k] .. nonces[k] - 1
      BY <3>1, <3>2
    <3>6. \A y \in bound(k) : nonces[k] >= y
      BY <3>1, <3>5
    <3> HIDE DEF bound
    <3>7. bound(k) \in SUBSET Int
      BY <1>2, <1>4
    <3> QED BY <3>4, <3>6, <3>7, MaxIs
  <2> QED BY <2>1, <2>2 DEF ProcessorInv
<1>8. nextNonce' \in [Keys -> Nat]
  <2>1. \A k \in committed : nonces[k] \in Nat
    BY <1>2 DEF ProcessorInv, PendingRun, AcceptedRun, Nonce, NoNonce
  <2>2. \A k \in Keys : nextNonce'[k] \in Nat
    BY <1>2, <1>6, <1>7, <2>1
  <2> QED BY <1>1, <2>2
<1>9. /\ accepted' \in [Rows -> Nonce]
      /\ \A r \in SignedRows \cap Pending : accepted'[r] = signed[r]
      /\ \A r \in Rows \ (SignedRows \cap Pending) : accepted'[r] = accepted[r]
  BY <1>1, <1>2 DEF SignedRows, Pending
<1>10. SignedRows \cap Pending' = {}
  BY <1>1 DEF SignedRows, Pending
<1> QED BY <1>1, <1>6, <1>7, <1>8, <1>9, <1>10

\* A request the Platform may have processed, sent once more.
LEMMA AttemptLostPreserves ==
    ASSUME ProcessorInv, AttemptLost
    PROVE  ProcessorInv'
<1>1. /\ phase = "submit" /\ phase' = "submit" /\ attempts < MaxAttempts - 1
      /\ attempts' = attempts + 1 /\ AcceptOrNot
      /\ signed' = signed /\ nonces' = nonces /\ committed' = committed
      /\ channel' = channel /\ awaiting' = awaiting /\ todo' = todo
      /\ unready' = unready /\ skipped' = skipped
  BY DEF AttemptLost, pollerVars
<1>2. attempts' \in 0 .. MaxAttempts - 1
  BY <1>1, ProcessorAssumption DEF ProcessorInv, TypeOK
<1>3. SignedRows' = SignedRows
  BY <1>1 DEF SignedRows
<1>4. todo = {} /\ channel = NoTick
  BY <1>1 DEF ProcessorInv, BatchShape, OneTick
<1>5. OneTick' /\ SignedOnce'
  BY <1>1, <1>3, <1>4 DEF ProcessorInv, OneTick, SignedOnce, NoTick
<1>6. BatchShape'
  BY <1>1, <1>3, <1>4 DEF ProcessorInv, BatchShape, KeysOf
<1>7. CASE Accept
  <2>1. TypeOK'
    BY <1>1, <1>2, <1>7, AcceptFacts DEF ProcessorInv, TypeOK
  <2>2. UntouchedSlots'
    BY <1>1, <1>7, AcceptFacts DEF ProcessorInv, UntouchedSlots
  <2>3. AcceptedRun'
    BY <1>1, <1>3, <1>7, AcceptFacts DEF AcceptedRun
  <2> QED BY <1>5, <1>6, <2>1, <2>2, <2>3 DEF ProcessorInv
<1>8. CASE UNCHANGED platformVars
  <2>1. TypeOK'
    BY <1>1, <1>2, <1>8 DEF ProcessorInv, TypeOK, platformVars
  <2>2. UntouchedSlots'
    BY <1>1, <1>8 DEF ProcessorInv, UntouchedSlots, platformVars
  <2>3. Pending' = Pending
    BY <1>8 DEF Pending, platformVars
  <2>4. (PendingRun \/ AcceptedRun)'
    BY <1>1, <1>3, <1>8, <2>3
       DEF ProcessorInv, PendingRun, AcceptedRun, SignedOf, platformVars
  <2> QED BY <1>5, <1>6, <2>1, <2>2, <2>4 DEF ProcessorInv
<1> QED BY <1>1, <1>7, <1>8 DEF AcceptOrNot

\* A failed submission gives up the slots it may have put ahead; a successful
\* one has made them real.
LEMMA AnswerPreserves ==
    ASSUME ProcessorInv, SubmissionFails \/ SubmissionSucceeds
    PROVE  ProcessorInv'
<1>1. /\ phase = "submit" /\ Acknowledge /\ channel' = channel
  BY DEF SubmissionFails, SubmissionSucceeds
<1>2. /\ nonces \in [Keys -> Nonce] /\ nextNonce \in [Keys -> Nat]
      /\ accepted \in [Rows -> Nonce] /\ committed \subseteq Keys
      /\ onChain \in [Keys -> Nat]
  BY DEF ProcessorInv, TypeOK
<1>3. channel = NoTick
  BY <1>1 DEF ProcessorInv, OneTick
<1>4. \A k \in Keys \ committed : nonces[k] <= nextNonce[k]
  BY DEF ProcessorInv, UntouchedSlots
<1>5. CASE SubmissionFails
  <2>1. AcceptOrNot /\ nonces' = EvictNonceKeys(committed)
    BY <1>5 DEF SubmissionFails
  <2>2. /\ accepted' \in [Rows -> Nonce] /\ nextNonce' \in [Keys -> Nat]
        /\ onChain' = onChain
        /\ \A k \in Keys \ committed : nextNonce'[k] = nextNonce[k]
    <3>1. CASE Accept
      BY <1>1, <3>1, AcceptFacts
    <3>2. CASE UNCHANGED platformVars
      BY <1>2, <3>2 DEF platformVars
    <3> QED BY <2>1, <3>1, <3>2 DEF AcceptOrNot
  <2>3. /\ nonces' \in [Keys -> Nonce]
        /\ \A k \in committed : nonces'[k] = -1
        /\ \A k \in Keys \ committed : nonces'[k] = nonces[k]
    BY <1>2, <2>1 DEF EvictNonceKeys, Nonce, NoNonce
  <2>4. \A k \in Keys : nonces'[k] <= nextNonce'[k]
    BY <1>4, <2>2, <2>3
  <2> QED BY <1>1, <1>2, <1>3, <2>2, <2>3, <2>4, AcknowledgeRestores
<1>6. CASE SubmissionSucceeds
  <2>1. Accept /\ nonces' = nonces
    BY <1>6 DEF SubmissionSucceeds
  <2>2. /\ accepted' \in [Rows -> Nonce] /\ nextNonce' \in [Keys -> Nat]
        /\ onChain' = onChain
        /\ \A k \in Keys : nonces'[k] <= nextNonce'[k]
    BY <1>1, <1>2, <1>4, <2>1, AcceptFacts
  <2> QED BY <1>1, <1>2, <1>3, <2>1, <2>2, AcknowledgeRestores
<1> QED BY <1>5, <1>6

LEMMA RestartPreserves ==
    ASSUME ProcessorInv, Restart
    PROVE  ProcessorInv'
<1>1. /\ Acknowledge /\ channel' = NoTick /\ nonces' = EmptyCache
      /\ accepted' = accepted /\ nextNonce' = nextNonce /\ onChain' = onChain
  BY DEF Restart, platformVars
<1>2. /\ nextNonce \in [Keys -> Nat] /\ onChain \in [Keys -> Nat]
      /\ accepted \in [Rows -> Nonce]
  BY DEF ProcessorInv, TypeOK
<1>3. nonces' \in [Keys -> Nonce] /\ \A k \in Keys : nonces'[k] <= nextNonce'[k]
  BY <1>1, <1>2 DEF EmptyCache, Nonce, NoNonce
<1> QED BY <1>1, <1>2, <1>3, AcknowledgeRestores

LEMMA UsedElsewherePreserves ==
    ASSUME ProcessorInv, NEW k \in Keys, UsedElsewhere(k)
    PROVE  ProcessorInv'
<1>1. /\ ~awaiting /\ nextNonce' = [nextNonce EXCEPT ![k] = @ + 1]
      /\ onChain' = [onChain EXCEPT ![k] = nextNonce[k] + 1]
      /\ accepted' = accepted /\ channel' = channel /\ awaiting' = awaiting
      /\ phase' = phase /\ nonces' = nonces /\ todo' = todo /\ unready' = unready
      /\ signed' = signed /\ committed' = committed /\ skipped' = skipped
      /\ attempts' = attempts
  BY DEF UsedElsewhere, pollerVars, processorVars
<1>2. phase = "recv"
  BY <1>1 DEF ProcessorInv, OneTick
<1>3. nextNonce \in [Keys -> Nat] /\ nonces \in [Keys -> Nonce]
  BY DEF ProcessorInv, TypeOK
<1>4. nextNonce' \in [Keys -> Nat] /\ \A j \in Keys : nextNonce[j] <= nextNonce'[j]
  BY <1>1, <1>3
<1>11. onChain' \in [Keys -> Nat]
  BY <1>1, <1>3 DEF ProcessorInv, TypeOK
<1>5. SignedRows' = SignedRows /\ Pending' = Pending
  BY <1>1 DEF SignedRows, Pending
<1>6. SignedRows = {} /\ committed = {} /\ todo = {}
  BY <1>2 DEF ProcessorInv, BatchShape, KeysOf
<1>7. TypeOK'
  BY <1>1, <1>4, <1>11 DEF ProcessorInv, TypeOK
<1>8. OneTick' /\ BatchShape'
  BY <1>1, <1>5 DEF ProcessorInv, OneTick, BatchShape, KeysOf
<1>9. UntouchedSlots'
  <2>1. \A j \in Keys : nonces[j] <= nextNonce[j]
    BY <1>6 DEF ProcessorInv, UntouchedSlots
  <2>2. \A j \in Keys : nonces[j] \in Int /\ nextNonce[j] \in Int /\ nextNonce'[j] \in Int
    BY <1>3, <1>4 DEF Nonce, NoNonce
  <2> QED BY <1>1, <1>2, <1>4, <2>1, <2>2 DEF UntouchedSlots
<1>10. PendingRun' /\ SignedOnce'
  BY <1>1, <1>5, <1>6 DEF PendingRun, SignedOnce
<1> QED BY <1>7, <1>8, <1>9, <1>10 DEF ProcessorInv

LEMMA StutterPreserves ==
    ASSUME ProcessorInv, UNCHANGED vars
    PROVE  ProcessorInv'
<1>1. /\ accepted' = accepted /\ nextNonce' = nextNonce /\ onChain' = onChain /\ channel' = channel
      /\ awaiting' = awaiting /\ phase' = phase /\ nonces' = nonces
      /\ todo' = todo /\ unready' = unready /\ signed' = signed
      /\ committed' = committed /\ skipped' = skipped /\ attempts' = attempts
  BY DEF vars, platformVars, pollerVars, processorVars
<1>2. SignedRows' = SignedRows /\ Pending' = Pending
  BY <1>1 DEF SignedRows, Pending
<1>3. TypeOK'
  BY <1>1 DEF ProcessorInv, TypeOK
<1>4. OneTick' /\ BatchShape' /\ UntouchedSlots'
  BY <1>1, <1>2 DEF ProcessorInv, OneTick, BatchShape, UntouchedSlots, KeysOf
<1>5. (PendingRun \/ AcceptedRun)' /\ SignedOnce'
  BY <1>1, <1>2 DEF ProcessorInv, PendingRun, AcceptedRun, SignedOnce, SignedOf
<1> QED BY <1>3, <1>4, <1>5 DEF ProcessorInv

\* Every step of a processor whose submissions are answered truthfully.
LEMMA StepPreserves ==
    ASSUME MayAnswerFalse = FALSE, ProcessorInv, SlotOrChain, [Next]_vars
    PROVE  ProcessorInv'
<1>1. CASE \E rows \in SUBSET Rows, idle \in SUBSET Chains : SendTick(rows, idle)
  BY <1>1, TickPreserves
<1>2. CASE ReceiveTick
  BY <1>2, TickPreserves
<1>3. CASE \E failedChains \in SUBSET Chains, failedKeys \in SUBSET Keys :
               Prefetch(failedChains, failedKeys)
  BY <1>3, PrefetchPreserves
<1>4. CASE \E r \in Rows : SignRow(r) \/ SkipRow(r)
  BY <1>4, SignRowPreserves, SkipRowPreserves
<1>5. CASE NothingToSubmit
  BY <1>5, NothingToSubmitPreserves
<1>6. CASE Submit
  BY <1>6, SubmitPreserves
<1>7. CASE AttemptLost
  BY <1>7, AttemptLostPreserves
<1>8. CASE SubmissionFails \/ SubmissionSucceeds
  BY <1>8, AnswerPreserves
<1>9. CASE SubmissionRefused
  BY <1>9 DEF SubmissionRefused
<1>10. CASE Restart
  BY <1>10, RestartPreserves
<1>11. CASE \E k \in Keys : UsedElsewhere(k)
  BY <1>11, UsedElsewherePreserves
<1>12. CASE UNCHANGED vars
  BY <1>12, StutterPreserves
<1> QED BY <1>1, <1>2, <1>3, <1>4, <1>5, <1>6, <1>7, <1>8, <1>9, <1>10, <1>11, <1>12
        DEF Next, Process

\* Of the steps that move a slot or the Platform, a prefetch and a signature
\* leave the slot no further behind, an acceptance reaches it at most, and only
\* the chain passes it.
LEMMA SlotOrChainKept ==
    ASSUME TypeOK, SlotOrChain, SlotsNotBehind, [Next]_vars,
           phase = "submit" /\ Accept =>
               \A k \in Keys : /\ nextNonce'[k] \in Nat /\ nextNonce[k] <= nextNonce'[k]
                               /\ \/ nextNonce'[k] = nextNonce[k]
                                  \/ nextNonce'[k] <= nonces[k]
    PROVE  SlotOrChain'
<1> DEFINE Kept(k) == /\ onChain'[k] <= nextNonce'[k]
                      /\ nonces'[k] # NoNonce /\ nonces'[k] < nextNonce'[k] =>
                             onChain'[k] = nextNonce'[k]
<1> SUFFICES ASSUME NEW k \in Keys PROVE Kept(k)
  BY DEF SlotOrChain
<1>1. /\ nonces[k] \in Nonce /\ nextNonce[k] \in Nat /\ onChain[k] \in Nat
      /\ onChain[k] <= nextNonce[k]
      /\ nonces[k] # NoNonce /\ nonces[k] < nextNonce[k] => onChain[k] = nextNonce[k]
  BY DEF TypeOK, SlotOrChain
<1>2. CASE /\ UNCHANGED platformVars
           /\ nonces'[k] \in {nonces[k], NoNonce}
  BY <1>1, <1>2 DEF platformVars
<1>3. CASE /\ phase = "submit" /\ Accept
           /\ nonces'[k] \in {nonces[k], NoNonce}
  <2>1. onChain' = onChain
    BY <1>3 DEF Accept
  <2> QED BY <1>1, <1>3, <2>1 DEF Nonce, NoNonce
<1>4. ASSUME NEW failedChains \in SUBSET Chains, NEW failedKeys \in SUBSET Keys,
             Prefetch(failedChains, failedKeys)
      PROVE  Kept(k)
  <2>1. UNCHANGED platformVars
    BY <1>4 DEF Prefetch
  <2>2. /\ nonces'[k] \in Nonce
        /\ nonces'[k] = nonces[k] \/ nextNonce[k] <= nonces'[k]
    BY <1>4, PrefetchedSlots
  <2> QED BY <1>1, <2>1, <2>2 DEF platformVars, Nonce, NoNonce
<1>5. ASSUME NEW r \in Rows, SignRow(r) PROVE Kept(k)
  <2>1. UNCHANGED platformVars /\ nonces' = [nonces EXCEPT ![KeyOf[r]] = @ + 1]
    BY <1>5 DEF SignRow
  <2>2. CASE k = KeyOf[r]
    <3>1. nextNonce[k] <= nonces[k]
      BY <1>5, <2>2 DEF SignRow, SlotsNotBehind
    <3>2. nonces'[k] = nonces[k] + 1
      BY <2>1, <2>2 DEF TypeOK
    <3> QED BY <1>1, <2>1, <3>1, <3>2 DEF platformVars, Nonce, NoNonce
  <2>3. CASE k # KeyOf[r]
    <3>1. nonces'[k] = nonces[k]
      BY <2>1, <2>3 DEF TypeOK
    <3> QED BY <1>2, <2>1, <3>1
  <2> QED BY <2>2, <2>3
<1>6. ASSUME NEW j \in Keys, UsedElsewhere(j) PROVE Kept(k)
  <2>1. /\ nonces' = nonces
        /\ nextNonce' = [nextNonce EXCEPT ![j] = @ + 1]
        /\ onChain' = [onChain EXCEPT ![j] = nextNonce[j] + 1]
    BY <1>6 DEF UsedElsewhere, processorVars
  <2>2. CASE k = j
    <3>1. onChain'[k] = nextNonce'[k] /\ nextNonce'[k] \in Nat
      BY <1>1, <2>1, <2>2 DEF TypeOK
    <3> QED BY <3>1
  <2>3. CASE k # j
    <3>1. onChain'[k] = onChain[k] /\ nextNonce'[k] = nextNonce[k] /\ nonces'[k] = nonces[k]
      BY <2>1, <2>3 DEF TypeOK
    <3> QED BY <1>1, <3>1
  <2> QED BY <2>2, <2>3
<1>7. CASE \/ \E rows \in SUBSET Rows, idle \in SUBSET Chains : SendTick(rows, idle)
           \/ \E r \in Rows : SkipRow(r)
           \/ NothingToSubmit \/ Submit \/ SubmissionRefused
  <2>1. UNCHANGED platformVars /\ nonces' = nonces
    BY <1>7 DEF SendTick, SkipRow, NothingToSubmit, Submit, SubmissionRefused, processorVars
  <2> QED BY <1>2, <2>1
<1>8. CASE ReceiveTick \/ Restart
  <2>1. UNCHANGED platformVars /\ nonces'[k] \in {nonces[k], NoNonce}
    BY <1>8 DEF ReceiveTick, Restart, EvictIdleChains, EmptyCache
  <2> QED BY <1>2, <2>1
<1>9. CASE AttemptLost \/ SubmissionFails \/ SubmissionSucceeds
  <2>1. /\ phase = "submit"
        /\ Accept \/ UNCHANGED platformVars
        /\ nonces' \in {nonces, EvictNonceKeys(committed)}
    BY <1>9 DEF AttemptLost, SubmissionFails, SubmissionSucceeds, AcceptOrNot
  <2>2. nonces'[k] \in {nonces[k], NoNonce}
    BY <2>1 DEF EvictNonceKeys
  <2> QED BY <1>2, <1>3, <2>1, <2>2
<1>10. CASE UNCHANGED vars
  BY <1>2, <1>10 DEF vars, processorVars
<1> QED BY <1>4, <1>5, <1>6, <1>7, <1>8, <1>9, <1>10 DEF Next, Process

\* With truthful answers an acceptance brings the Platform to the slots.
LEMMA ProcessorKeepsSlots ==
    ASSUME ProcessorInv, SlotOrChain, [Next]_vars
    PROVE  SlotOrChain'
<1>1. /\ nonces \in [Keys -> Nonce] /\ nextNonce \in [Keys -> Nat] /\ todo \subseteq Rows
      /\ committed \subseteq Keys
  BY DEF ProcessorInv, TypeOK
<1>2. SlotsNotBehind
  <2> SUFFICES ASSUME phase = "sign", NEW r \in todo, KeyOf[r] \notin unready
               PROVE  nextNonce[KeyOf[r]] <= nonces[KeyOf[r]]
    BY DEF SlotsNotBehind
  <2>1. KeyOf[r] \in Keys
    BY <1>1, ProcessorAssumption
  <2>2. \/ nextNonce[KeyOf[r]] < nonces[KeyOf[r]]
        \/ nextNonce[KeyOf[r]] = nonces[KeyOf[r]]
    BY DEF ProcessorInv, UntouchedSlots, PendingRun, AcceptedRun
  <2> QED BY <1>1, <2>1, <2>2 DEF Nonce, NoNonce
<1>3. ASSUME phase = "submit", Accept, NEW k \in Keys
      PROVE  /\ nextNonce'[k] \in Nat /\ nextNonce[k] <= nextNonce'[k]
             /\ nextNonce'[k] = nextNonce[k] \/ nextNonce'[k] <= nonces[k]
  <2>1. nextNonce'[k] \in Nat
    BY <1>3, AcceptFacts
  <2>2. CASE k \in committed
    <3>1. nextNonce'[k] = nonces[k]
      BY <1>3, <2>2, AcceptFacts
    <3>2. nextNonce[k] < nonces[k] \/ nonces[k] = nextNonce[k]
      BY <2>2 DEF ProcessorInv, PendingRun, AcceptedRun
    <3> QED BY <1>1, <2>1, <3>1, <3>2
  <2>3. CASE k \notin committed
    BY <1>1, <1>3, <2>3, AcceptFacts
  <2> QED BY <2>2, <2>3
<1> QED BY <1>2, <1>3, SlotOrChainKept DEF ProcessorInv

\* The inductive invariant holds throughout.
THEOREM ProcessorInvariance ==
    ASSUME MayAnswerFalse = FALSE
    PROVE  Spec => [](ProcessorInv /\ SlotOrChain)
<1>1. Init => SlotOrChain
  BY DEF Init, SlotOrChain, EmptyCache
<1>2. ProcessorInv /\ SlotOrChain /\ [Next]_vars => ProcessorInv' /\ SlotOrChain'
  BY StepPreserves, ProcessorKeepsSlots
<1> QED BY <1>1, <1>2, ProcessorInvInit, PTL DEF Spec

\* Between ticks no slot is past the nonce after the highest accepted one, if
\* the Platform accepts what it answers true to (evict_nonce_keys,
\* transaction.rs:1084-1092).
THEOREM CacheIsNeverAhead ==
    ASSUME MayAnswerFalse = FALSE
    PROVE  Spec => []CacheNeverAhead
<1>1. ProcessorInv => CacheNeverAhead
  BY DEF ProcessorInv, BatchShape, UntouchedSlots, CacheNeverAhead, KeysOf
<1> QED BY <1>1, ProcessorInvariance, PTL

\* What is submitted leaves no gap after the nonces already used, whichever
\* rows were skipped (the slot advances only after a signature,
\* transaction.rs:1061-1066).
THEOREM SubmissionsLeaveNoGap ==
    ASSUME MayAnswerFalse = FALSE
    PROVE  Spec => []NoFutureNonce
<1>1. ProcessorInv => NoFutureNonce
  <2> SUFFICES ASSUME ProcessorInv, phase = "submit", NEW r \in SignedRows \cap Pending,
                      signed[r] # nextNonce[KeyOf[r]]
               PROVE  \E s \in SignedRows : KeyOf[s] = KeyOf[r] /\ signed[s] = signed[r] - 1
    BY DEF NoFutureNonce
  <2> DEFINE k == KeyOf[r]
  <2>1. PendingRun
    BY DEF ProcessorInv, AcceptedRun
  <2>2. k \in committed /\ r \in SignedOf(k) /\ k \in Keys
    BY ProcessorAssumption DEF ProcessorInv, BatchShape, KeysOf, SignedOf, SignedRows
  <2>3. {signed[s] : s \in SignedOf(k)} = nextNonce[k] .. nonces[k] - 1
    BY <2>1, <2>2 DEF PendingRun
  <2>4. nextNonce[k] \in Int /\ nonces[k] \in Int
    BY <2>2 DEF ProcessorInv, TypeOK, Nonce, NoNonce
  <2>5. signed[r] \in nextNonce[k] .. nonces[k] - 1
    BY <2>2, <2>3
  <2>6. signed[r] - 1 \in nextNonce[k] .. nonces[k] - 1
    BY <2>4, <2>5
  <2>7. PICK s \in SignedOf(k) : signed[s] = signed[r] - 1
    BY <2>3, <2>6
  <2> QED BY <2>7 DEF SignedOf
<1> QED BY <1>1, ProcessorInvariance, PTL

-----------------------------------------------------------------------------
\* What the Platform makes of a request is a step of the ledger, or nothing.
LEMMA AcceptIsALedgerStep ==
    ASSUME ProcessorInv, phase = "submit", Accept
    PROVE  Ledger!LedgerNext \/ UNCHANGED <<accepted, nextNonce>>
<1>1. /\ nonces \in [Keys -> Nonce] /\ nextNonce \in [Keys -> Nat]
      /\ accepted \in [Rows -> Nonce] /\ committed \subseteq Keys
      /\ committed = KeysOf(SignedRows) /\ SignedRows # {}
  BY DEF ProcessorInv, TypeOK, BatchShape
<1>2. CASE AcceptedRun
  <2>1. \A r \in Rows : accepted'[r] = accepted[r]
    BY <1>2, AcceptFacts DEF AcceptedRun
  <2>2. \A k \in Keys : nextNonce'[k] = nextNonce[k]
    BY <1>2, AcceptFacts DEF AcceptedRun
  <2>3. accepted' \in [Rows -> Nonce] /\ nextNonce' \in [Keys -> Nat]
    BY AcceptFacts
  <2>4. accepted' = accepted
    BY <1>1, <2>1, <2>3
  <2>5. nextNonce' = nextNonce
    BY <1>1, <2>2, <2>3
  <2> QED BY <2>4, <2>5 DEF platformVars
<1>3. CASE PendingRun
  <2>1. SignedRows \cap Pending = SignedRows /\ SignedRows \in SUBSET Rows
    BY <1>3 DEF PendingRun, SignedRows
  <2>2. \A r \in SignedRows : accepted'[r] = signed[r] /\ signed[r] # -1 /\ accepted[r] = -1
    BY <2>1, AcceptFacts DEF SignedRows, Pending, NoNonce
  <2>3. \A r \in Rows \ SignedRows : accepted'[r] = accepted[r]
    BY <2>1, AcceptFacts
  <2>4. \A r, s \in SignedRows :
            KeyOf[r] = KeyOf[s] /\ accepted'[r] = accepted'[s] => r = s
    BY <2>2 DEF ProcessorInv, SignedOnce
  <2>5. nextNonce' \in [Keys -> Nat]
    BY AcceptFacts
  <2>6. \A k \in Keys : nextNonce'[k] >= nextNonce[k]
    <3>1. \A k \in committed : nextNonce'[k] >= nextNonce[k]
      <4> SUFFICES ASSUME NEW k \in committed PROVE nextNonce'[k] >= nextNonce[k]
        OBVIOUS
      <4>1. nextNonce[k] < nonces[k] /\ nextNonce'[k] = nonces[k]
        BY <1>3, AcceptFacts DEF PendingRun
      <4>2. nextNonce[k] \in Nat /\ nextNonce'[k] \in Nat
        BY <1>1, <2>5
      <4> QED BY <4>1, <4>2
    <3>2. \A k \in Keys \ committed : nextNonce'[k] >= nextNonce[k]
      BY <1>1, AcceptFacts
    <3> QED BY <3>1, <3>2
  <2>7. ASSUME NEW k \in Keys
        PROVE  {accepted'[r] : r \in {s \in SignedRows : KeyOf[s] = k}}
                   = nextNonce[k] .. nextNonce'[k] - 1
    <3>1. {accepted'[r] : r \in {s \in SignedRows : KeyOf[s] = k}}
              = {signed[r] : r \in SignedOf(k)}
      BY <2>2 DEF SignedOf
    <3>2. CASE k \in committed
      <4>1. nextNonce'[k] = nonces[k]
        BY <3>2, AcceptFacts
      <4>2. {signed[r] : r \in SignedOf(k)} = nextNonce[k] .. nonces[k] - 1
        BY <1>3, <3>2 DEF PendingRun
      <4> QED BY <3>1, <4>1, <4>2
    <3>3. CASE k \notin committed
      <4>1. SignedOf(k) = {}
        BY <1>1, <3>3 DEF SignedOf, KeysOf
      <4>2. nextNonce'[k] = nextNonce[k] /\ nextNonce[k] \in Nat
        BY <1>1, <3>3, AcceptFacts
      <4>3. nextNonce[k] .. nextNonce'[k] - 1 = {}
        BY <4>2
      <4> QED BY <3>1, <4>1, <4>3
    <3> QED BY <3>2, <3>3
  <2>8. Ledger!AcceptBatch(SignedRows)
    BY <1>1, <2>2, <2>3, <2>4, <2>5, <2>6, <2>7 DEF Ledger!AcceptBatch, Ledger!NoNonce
  <2> QED BY <2>1, <2>8 DEF Ledger!LedgerNext
<1> QED BY <1>2, <1>3 DEF ProcessorInv

LEMMA StepIsALedgerStep ==
    ASSUME ProcessorInv, [Next]_vars
    PROVE  Ledger!LedgerNext \/ UNCHANGED <<accepted, nextNonce>>
<1>1. CASE AttemptLost \/ SubmissionFails
  BY <1>1, AcceptIsALedgerStep DEF AttemptLost, SubmissionFails, AcceptOrNot, platformVars
<1>2. CASE SubmissionSucceeds
  BY <1>2, AcceptIsALedgerStep DEF SubmissionSucceeds
<1>3. CASE \E k \in Keys : UsedElsewhere(k)
  BY <1>3 DEF UsedElsewhere, Ledger!LedgerNext, Ledger!UsedElsewhere
<1>4. CASE \/ \E rows \in SUBSET Rows, idle \in SUBSET Chains : SendTick(rows, idle)
           \/ \E failedChains \in SUBSET Chains, failedKeys \in SUBSET Keys :
                  Prefetch(failedChains, failedKeys)
           \/ \E r \in Rows : SignRow(r) \/ SkipRow(r)
           \/ ReceiveTick
  BY <1>4 DEF SendTick, Prefetch, SignRow, SkipRow, ReceiveTick, platformVars
<1>5. CASE NothingToSubmit \/ Submit \/ SubmissionRefused \/ Restart
  BY <1>5 DEF NothingToSubmit, Submit, SubmissionRefused, Restart, platformVars
<1>6. CASE UNCHANGED vars
  BY <1>6 DEF vars, platformVars
<1> QED BY <1>1, <1>2, <1>3, <1>4, <1>5, <1>6 DEF Next, Process

\* The processor implements the ledger: the Platform accepts every row at most
\* once, with the nonces that follow those its account has used, whatever is
\* lost, retried or forgotten (transaction.rs:173-181, 315-322, 1084-1092).
THEOREM LedgerImplemented ==
    ASSUME MayAnswerFalse = FALSE
    PROVE  Spec => ImplementsLedger
<1>1. Init => Ledger!LedgerInit
  BY DEF Init, NoneSigned, NoNonce, Ledger!LedgerInit, Ledger!NoNonce
<1>2. ProcessorInv /\ [Next]_vars => [Ledger!LedgerNext]_<<accepted, nextNonce>>
  BY StepIsALedgerStep
<1> QED BY <1>1, <1>2, ProcessorInvariance, PTL
        DEF Spec, ImplementsLedger, Ledger!LedgerSpec
=============================================================================
