-------------------------- MODULE WalletLoader_proofs --------------------------
(***************************************************************************)
(* Proofs that no seed is lost, that a running daemon would restart with   *)
(* its own key, and that a deployment's identity comes back, for every set *)
(* of phrases and passwords, as long as no import and no starting daemon   *)
(* are at the seed file together.                                          *)
(***************************************************************************)
EXTENDS WalletLoader, TLAPS

\* What the disk holds at each step of load_seed and of the import.
StageInv ==
    /\ stage \in {"create", "migrate"} => seed = Absent
    /\ stage \in {"fill", "refill"} => seed = Empty
    /\ stage \in {"create", "fill"} => v1 = {}
    /\ stage \in {"migrate", "refill", "verify"} => draft \in v1
    /\ stage \in {"verify", "remove"} => seed = Sealed(draft, keyPass, TRUE)
    /\ stage \in {"load", "running"} => seed # Absent
    /\ importing = "open" => seed = Absent /\ stage = "off"
    /\ importing = "write" => seed = Empty /\ stage = "off"
    /\ seedPath = "file" => v1 = {}

\* The identity of a complete seed file, under the password it asks for.
OwnKey(file) ==
    KeyIn(file, IF file \in SealedSeed THEN file.pass ELSE KeyPass)

\* An identity of the deployment's own, from a phrase.
Own(identity) == Genuine(identity) /\ identity.phrase # DevPhrase

\* The own identities so far are that of the seed file once there is one, and
\* until then that of the only v1 key file.
IdentityOnDisk ==
    \A i \in signedAs : Own(i) =>
        /\ seed \in Complete /\ Genuine(OwnKey(seed)) => i = OwnKey(seed)
        /\ seed \notin Complete => \E p \in Phrases : v1 = {p} /\ i = V1Key(p, KeyPass)

\* What holds as long as nothing overlapped.
Undisturbed ==
    /\ StageInv
    /\ SeedNeverLost
    /\ RestartsAsItself
    /\ IdentityOnDisk
    /\ IdentityReturns

LoaderInv == TypeOK /\ (~overlapped => Undisturbed)

-----------------------------------------------------------------------------
(* Seed files and their keys.                                              *)

\* An absent and an empty file are no complete ones, and open to nobody.
LEMMA IncompleteFiles ==
    /\ Absent \notin Complete /\ Empty \notin Complete /\ Absent # Empty
    /\ \A pass \in Passes : ~Opens(Absent, pass) /\ ~Opens(Empty, pass)
BY DEF Absent, Empty, Complete, PlainSeed, SealedSeed, Opens

\* What write_mnemonic and the migration write opens under its own password.
LEMMA SealedFiles ==
    ASSUME NEW phrase \in Phrases, NEW pass \in Passes, NEW imported \in BOOLEAN
    PROVE  /\ Sealed(phrase, pass, imported) \in SealedSeed
           /\ Sealed(phrase, pass, imported) \in Complete
           /\ Sealed(phrase, pass, imported) \notin PlainSeed
           /\ Sealed(phrase, pass, imported).phrase = phrase
           /\ Sealed(phrase, pass, imported).pass = pass
           /\ Sealed(phrase, pass, imported).imported = imported
BY DEF Sealed, SealedSeed, PlainSeed, Complete

\* A file that opens is complete, and its key is that of its phrase.
LEMMA OpenedFiles ==
    ASSUME NEW file \in {Absent, Empty} \cup Complete, NEW pass \in Passes,
           Opens(file, pass)
    PROVE  /\ file \in Complete
           /\ file.phrase \in Phrases
           /\ KeyIn(file, pass) \in Identity
           /\ Genuine(KeyIn(file, pass)) => KeyIn(file, pass) = OwnKey(file)
<1>1. file \in Complete
  BY IncompleteFiles
<1>2. CASE file \in PlainSeed
  <2>1. file \notin SealedSeed
    BY <1>2 DEF PlainSeed, SealedSeed
  <2> QED BY <1>1, <1>2, <2>1 DEF KeyIn, OwnKey, Genuine, Identity, PlainSeed
<1>3. CASE file \in SealedSeed /\ file \notin PlainSeed /\ file.pass = pass
  BY <1>1, <1>3 DEF KeyIn, OwnKey, Identity, SealedSeed
<1> QED BY <1>2, <1>3 DEF Opens

\* The migrated file has the key of the v1 file it was made from.
LEMMA MigratedKey ==
    ASSUME NEW phrase \in Phrases, NEW pass \in Passes,
           Genuine(OwnKey(Sealed(phrase, pass, TRUE)))
    PROVE  OwnKey(Sealed(phrase, pass, TRUE)) = V1Key(phrase, KeyPass)
BY SealedFiles DEF OwnKey, KeyIn, Genuine, V1Key

-----------------------------------------------------------------------------
(* The invariant, action by action.                                       *)

LEMMA TypesArePreserved ==
    ASSUME TypeOK, [Next]_vars
    PROVE  TypeOK'
<1> USE DEF TypeOK, diskVars, loaderVars, importerVars, historyVars
<1>1. CASE \/ \E pass \in Passes, print \in BOOLEAN : Start(pass, print)
           \/ FindSeed
           \/ \E p \in Phrases : FindV1(p) \/ Generate(p)
  BY <1>1 DEF Start, FindSeed, FindV1, Generate
<1>2. CASE OpenSeed \/ Verify \/ RemoveV1 \/ LoaderDies
  BY <1>2 DEF OpenSeed, Verify, RemoveV1, LoaderDies
<1>3. CASE FillSeed
  <2>1. (stage = "refill") \in BOOLEAN /\ seed' = Sealed(draft, keyPass, stage = "refill")
    BY <1>3 DEF FillSeed
  <2>2. seed' \in Complete
    BY <2>1, SealedFiles
  <2> QED BY <1>3, <2>2 DEF FillSeed
<1>4. CASE LoadSeed
  <2>1. seed.phrase \in Phrases /\ KeyIn(seed, keyPass) \in Identity
    BY <1>4, OpenedFiles DEF LoadSeed
  <2> QED BY <1>4, <2>1 DEF LoadSeed
<1>5. CASE LoadEmptySeed
  <2>1. V1Key(DevPhrase, keyPass) \in Identity
    BY DEF V1Key, Identity
  <2> QED BY <1>5, <2>1 DEF LoadEmptySeed
<1>6. CASE \/ \E pass \in Passes : ImportPrompts(pass)
           \/ \E p \in Phrases : ImportLooks(p)
           \/ ImportOpens \/ ImporterDies \/ DeleteEmptySeed
  BY <1>6 DEF ImportPrompts, ImportLooks, ImportOpens, ImporterDies, DeleteEmptySeed
<1>7. CASE ImportFills
  <2>1. seed' \in Complete
    BY <1>7, SealedFiles DEF ImportFills
  <2> QED BY <1>7, <2>1 DEF ImportFills
<1>8. CASE UNCHANGED vars
  BY <1>8 DEF vars
<1> QED BY <1>1, <1>2, <1>3, <1>4, <1>5, <1>6, <1>7, <1>8 DEF Next

\* What has overlapped has.
LEMMA OverlapIsForGood ==
    ASSUME [Next]_vars, ~overlapped'
    PROVE  ~overlapped
<1> USE DEF historyVars
<1>1. CASE \/ \E pass \in Passes, print \in BOOLEAN : Start(pass, print)
           \/ FindSeed
           \/ \E p \in Phrases : FindV1(p) \/ Generate(p)
  BY <1>1 DEF Start, FindSeed, FindV1, Generate
<1>2. CASE OpenSeed \/ FillSeed \/ Verify \/ RemoveV1
  BY <1>2 DEF OpenSeed, FillSeed, Verify, RemoveV1
<1>3. CASE LoadSeed \/ LoadEmptySeed \/ LoaderDies
  BY <1>3 DEF LoadSeed, LoadEmptySeed, LoaderDies
<1>4. CASE \/ \E pass \in Passes : ImportPrompts(pass)
           \/ \E p \in Phrases : ImportLooks(p)
  BY <1>4 DEF ImportPrompts, ImportLooks
<1>5. CASE ImportOpens \/ ImportFills \/ ImporterDies \/ DeleteEmptySeed
  BY <1>5 DEF ImportOpens, ImportFills, ImporterDies, DeleteEmptySeed
<1>6. CASE UNCHANGED vars
  BY <1>6 DEF vars
<1> QED BY <1>1, <1>2, <1>3, <1>4, <1>5, <1>6 DEF Next

\* A step that leaves the disk and the history alone.
LEMMA OtherStepsKeepHistory ==
    ASSUME Undisturbed, UNCHANGED <<seedPath, seed, v1, established, signedAs>>,
           ~overlapped
    PROVE  SeedNeverLost' /\ IdentityOnDisk' /\ IdentityReturns'
BY DEF Undisturbed, SeedNeverLost, IdentityOnDisk, IdentityReturns

\* Of load_seed before it writes.
LEMMA LookingKeepsInv ==
    ASSUME TypeOK, Undisturbed, ~overlapped, ~overlapped',
           \/ \E pass \in Passes, print \in BOOLEAN : Start(pass, print)
           \/ FindSeed
           \/ \E p \in Phrases : FindV1(p) \/ Generate(p)
    PROVE  Undisturbed'
<1> USE DEF Undisturbed, diskVars, importerVars, historyVars
<1>1. UNCHANGED <<seedPath, seed, v1, established, signedAs>>
  BY DEF Start, FindSeed, FindV1, Generate
<1>2. SeedNeverLost' /\ IdentityOnDisk' /\ IdentityReturns'
  BY <1>1, OtherStepsKeepHistory
<1>3. StageInv' /\ stage' # "running"
  BY DEF StageInv, TypeOK, Start, FindSeed, FindV1, Generate, IsFilePath, ImportAtFile
<1> QED BY <1>2, <1>3 DEF RestartsAsItself

\* Of fs::write and what follows it in load_seed.
LEMMA WritingKeepsInv ==
    ASSUME TypeOK, Undisturbed, ~overlapped, ~overlapped',
           OpenSeed \/ FillSeed \/ Verify \/ RemoveV1
    PROVE  Undisturbed'
<1> USE DEF Undisturbed, diskVars, importerVars, historyVars
<1>1. stage' # "running" /\ UNCHANGED <<seedPath, established, signedAs, importing>>
  BY DEF OpenSeed, FillSeed, Verify, RemoveV1
<1>2. RestartsAsItself' /\ IdentityReturns'
  BY <1>1 DEF RestartsAsItself, IdentityReturns
<1>3. CASE OpenSeed
  <2>1. StageInv'
    BY <1>3 DEF StageInv, OpenSeed
  <2>2. SeedNeverLost' /\ IdentityOnDisk'
    BY <1>3, IncompleteFiles DEF StageInv, OpenSeed, SeedNeverLost, IdentityOnDisk
  <2> QED BY <1>2, <2>1, <2>2
<1>4. CASE FillSeed
  <2>1. /\ seed' = Sealed(draft, keyPass, stage = "refill") /\ (stage = "refill") \in BOOLEAN
        /\ draft \in Phrases /\ keyPass \in Passes
    BY <1>4 DEF FillSeed, TypeOK
  <2>2. seed' \in Complete /\ seed'.phrase = draft
    BY <2>1, SealedFiles
  <2>3. StageInv'
    BY <1>4, <2>1, <2>2, IncompleteFiles DEF StageInv, FillSeed
  <2>4. SeedNeverLost'
    BY <1>4, <2>2, IncompleteFiles DEF StageInv, FillSeed, SeedNeverLost
  <2>5. IdentityOnDisk'
    <3> SUFFICES ASSUME NEW i \in signedAs, Own(i), Genuine(OwnKey(seed'))
                 PROVE  i = OwnKey(seed')
      BY <1>1, <2>2 DEF IdentityOnDisk
    <3>1. PICK p \in Phrases : v1 = {p} /\ i = V1Key(p, KeyPass)
      BY <1>4, IncompleteFiles DEF StageInv, FillSeed, IdentityOnDisk
    <3>2. stage = "refill" /\ draft = p
      <4>1. CASE stage = "fill"
        <5>1. v1 = {}
          BY <1>4, <4>1 DEF StageInv, FillSeed
        <5> QED BY <3>1, <5>1
      <4> QED BY <1>4, <3>1, <4>1 DEF StageInv, FillSeed
    <3> QED BY <2>1, <3>1, <3>2, MigratedKey
  <2> QED BY <1>2, <2>3, <2>4, <2>5
<1>5. CASE Verify
  <2>1. StageInv'
    BY <1>5 DEF StageInv, Verify
  <2>2. SeedNeverLost' /\ IdentityOnDisk'
    BY <1>5, OtherStepsKeepHistory DEF Verify
  <2> QED BY <1>2, <2>1, <2>2
<1>6. CASE RemoveV1
  <2>1. seed = Sealed(draft, keyPass, TRUE) /\ seed \in Complete /\ seed.phrase = draft
    <3>1. draft \in Phrases /\ keyPass \in Passes /\ seed = Sealed(draft, keyPass, TRUE)
      BY <1>6 DEF TypeOK, StageInv, RemoveV1
    <3>2. /\ Sealed(draft, keyPass, TRUE) \in Complete
          /\ Sealed(draft, keyPass, TRUE).phrase = draft
      BY <3>1, SealedFiles
    <3> QED BY <3>1, <3>2
  <2>2. StageInv'
    BY <1>6, <2>1, IncompleteFiles DEF StageInv, RemoveV1
  <2>3. SeedNeverLost'
    BY <1>6, <2>1 DEF TypeOK, RemoveV1, SeedNeverLost
  <2>4. IdentityOnDisk'
    BY <1>6, <2>1 DEF RemoveV1, IdentityOnDisk
  <2> QED BY <1>2, <2>2, <2>3, <2>4
<1> QED BY <1>3, <1>4, <1>5, <1>6

\* Of the load itself, and of a process that ends.
LEMMA LoadingKeepsInv ==
    ASSUME TypeOK, Undisturbed, ~overlapped, ~overlapped',
           LoadSeed \/ LoadEmptySeed \/ LoaderDies
    PROVE  Undisturbed'
<1> USE DEF Undisturbed, diskVars, importerVars, historyVars
<1>1. CASE LoadSeed
  <2>1. /\ seed \in Complete /\ seed.phrase \in Phrases
        /\ Genuine(KeyIn(seed, keyPass)) => KeyIn(seed, keyPass) = OwnKey(seed)
    BY <1>1, OpenedFiles DEF TypeOK, LoadSeed
  <2>2. key' \subseteq {KeyIn(seed, keyPass)} /\ signedAs' = signedAs \cup key'
    BY <1>1 DEF LoadSeed
  <2>3. StageInv'
    BY <1>1 DEF StageInv, LoadSeed
  <2>4. SeedNeverLost'
    BY <1>1, <2>1 DEF LoadSeed, SeedNeverLost
  <2>5. RestartsAsItself'
    BY <1>1, <2>1, IncompleteFiles DEF LoadSeed, RestartsAsItself, StartsWith
  <2>6. IdentityOnDisk'
    BY <1>1, <2>1, <2>2 DEF LoadSeed, IdentityOnDisk, Own
  <2>7. IdentityReturns'
    <3> SUFFICES ASSUME NEW i \in signedAs', NEW j \in signedAs', Own(i), Own(j)
                 PROVE  i = j
      BY DEF IdentityReturns, Own
    <3>1. CASE i \in signedAs /\ j \in signedAs
      BY <3>1 DEF IdentityReturns, Own
    <3>2. CASE i = KeyIn(seed, keyPass) \/ j = KeyIn(seed, keyPass)
      BY <2>1, <2>2, <3>2 DEF IdentityOnDisk, Own
    <3> QED BY <2>2, <3>1, <3>2
  <2> QED BY <2>3, <2>4, <2>5, <2>6, <2>7
<1>2. CASE LoadEmptySeed
  <2>1. /\ UNCHANGED <<seedPath, seed, v1, established>> /\ seed = Empty
        /\ signedAs' = signedAs \cup key' /\ key' \subseteq {V1Key(DevPhrase, keyPass)}
    BY <1>2 DEF LoadEmptySeed
  <2>2. \A i \in signedAs' : Own(i) => i \in signedAs
    BY <2>1 DEF Own, V1Key
  <2>3. StageInv'
    BY <1>2 DEF StageInv, LoadEmptySeed
  <2>4. SeedNeverLost'
    BY <2>1 DEF SeedNeverLost
  <2>5. RestartsAsItself'
    BY <1>2 DEF LoadEmptySeed, RestartsAsItself, StartsWith
  <2>6. IdentityOnDisk'
    BY <2>1, <2>2 DEF IdentityOnDisk
  <2>7. IdentityReturns'
    BY <2>2 DEF IdentityReturns, Own
  <2> QED BY <2>3, <2>4, <2>5, <2>6, <2>7
<1>3. CASE LoaderDies
  <2>1. UNCHANGED <<seedPath, seed, v1, established, signedAs>> /\ stage' = "off"
    BY <1>3 DEF LoaderDies
  <2>2. StageInv'
    BY <1>3 DEF StageInv, LoaderDies
  <2> QED BY <2>1, <2>2, OtherStepsKeepHistory DEF RestartsAsItself
<1> QED BY <1>1, <1>2, <1>3

\* Of the import command and of the operator.
LEMMA ImportKeepsInv ==
    ASSUME TypeOK, Undisturbed, ~overlapped, ~overlapped',
           \/ \E pass \in Passes : ImportPrompts(pass)
           \/ \E p \in Phrases : ImportLooks(p)
           \/ ImportOpens
           \/ ImportFills
           \/ ImporterDies
           \/ DeleteEmptySeed
    PROVE  Undisturbed'
<1> USE DEF Undisturbed, diskVars, loaderVars, importerVars, historyVars
<1>1. CASE \/ \E pass \in Passes : ImportPrompts(pass)
           \/ \E p \in Phrases : ImportLooks(p)
           \/ ImporterDies
  <2>1. /\ UNCHANGED <<seedPath, seed, v1, established, signedAs>>
        /\ UNCHANGED <<stage, keyPass, draft, printing, key>>
    BY <1>1 DEF ImportPrompts, ImportLooks, ImporterDies
  <2>2. importing' \in {"off", "prompt"} \/ (importing' = "open" /\ seed = Absent /\ ~Loading)
    BY <1>1 DEF ImportPrompts, ImportLooks, ImporterDies
  <2>3. StageInv'
    BY <2>1, <2>2 DEF StageInv, Loading
  <2>4. RestartsAsItself'
    BY <2>1 DEF RestartsAsItself
  <2> QED BY <2>1, <2>3, <2>4, OtherStepsKeepHistory
<1>2. CASE ImportOpens \/ DeleteEmptySeed
  <2>1. /\ seed \in {Absent, Empty} /\ seed' \in {Absent, Empty} /\ stage = "off"
        /\ UNCHANGED <<seedPath, v1, stage, established, signedAs>>
        /\ importing' # "open" /\ (importing' = "write" => seed' = Empty)
    BY <1>2 DEF StageInv, ImportOpens, DeleteEmptySeed, ImportAtFile
  <2>2. StageInv'
    BY <2>1 DEF StageInv
  <2>3. RestartsAsItself'
    BY <2>1 DEF RestartsAsItself
  <2>4. SeedNeverLost' /\ IdentityOnDisk' /\ IdentityReturns'
    BY <2>1, IncompleteFiles DEF SeedNeverLost, IdentityOnDisk, IdentityReturns
  <2> QED BY <2>2, <2>3, <2>4
<1>3. CASE ImportFills
  <2>1. /\ seed' \in Complete /\ seed'.phrase = typed /\ typed \in Phrases
        /\ seed = Empty /\ stage = "off"
    BY <1>3, SealedFiles DEF TypeOK, StageInv, ImportFills
  <2>2. StageInv' /\ RestartsAsItself'
    BY <1>3, <2>1 DEF StageInv, ImportFills, RestartsAsItself
  <2>3. SeedNeverLost'
    BY <1>3, <2>1, IncompleteFiles DEF ImportFills, SeedNeverLost
  <2>4. IdentityOnDisk' /\ IdentityReturns'
    BY <1>3 DEF ImportFills, IdentityOnDisk, IdentityReturns
  <2> QED BY <2>2, <2>3, <2>4
<1> QED BY <1>1, <1>2, <1>3

LEMMA InitEstablishesInv == Init => LoaderInv
<1> SUFFICES ASSUME Init PROVE LoaderInv
  OBVIOUS
<1> USE DEF Init
<1>1. (CHOOSE p \in Phrases : TRUE) \in Phrases
  BY LoaderAssumption
<1>2. signedAs \subseteq Identity
  BY LoaderAssumption DEF Identity, V1Key
<1>3. TypeOK /\ StageInv
  BY <1>1, <1>2, LoaderAssumption, IncompleteFiles DEF TypeOK, StageInv, Complete
<1>4. seed = Absent => established = v1
  BY IncompleteFiles DEF Absent, PlainSeed
<1>5. \A p \in Phrases : seed = [kind |-> "plain", phrase |-> p] =>
          seed \in Complete /\ seed \notin SealedSeed /\ seed.phrase = p
                            /\ OwnKey(seed) = V1Key(p, KeyPass)
  <2> SUFFICES ASSUME NEW p \in Phrases, seed = [kind |-> "plain", phrase |-> p]
               PROVE  /\ seed \in Complete /\ seed \notin SealedSeed /\ seed.phrase = p
                      /\ OwnKey(seed) = V1Key(p, KeyPass)
    OBVIOUS
  <2>1. seed \in PlainSeed /\ seed.phrase = p
    BY DEF PlainSeed
  <2>2. seed \in Complete
    BY <2>1 DEF Complete
  <2>3. seed \notin SealedSeed
    BY DEF SealedSeed
  <2>4. OwnKey(seed) = V1Key(p, KeyPass)
    BY <2>1, <2>3 DEF OwnKey, KeyIn, V1Key
  <2> QED BY <2>1, <2>2, <2>3, <2>4
<1>6. SeedNeverLost
  BY <1>5 DEF SeedNeverLost
<1>7. \A i \in signedAs : \E p \in Phrases : established = {p} /\ i = V1Key(p, KeyPass)
  OBVIOUS
<1>8. IdentityOnDisk
  <2> SUFFICES ASSUME NEW i \in signedAs, NEW p \in Phrases,
                      established = {p}, i = V1Key(p, KeyPass)
               PROVE  /\ seed \in Complete => i = OwnKey(seed)
                      /\ seed \notin Complete => v1 = {p}
    BY <1>7 DEF IdentityOnDisk
  <2>1. CASE seed = Absent
    BY <1>4, <2>1, IncompleteFiles
  <2>2. CASE seed \in PlainSeed
    <3>1. PICK q \in Phrases : seed = [kind |-> "plain", phrase |-> q]
      BY <2>2 DEF PlainSeed
    <3> QED BY <1>5, <3>1
  <2> QED BY <2>1, <2>2
<1>9. IdentityReturns
  BY <1>7 DEF IdentityReturns
<1> QED BY <1>3, <1>6, <1>8, <1>9 DEF LoaderInv, Undisturbed, RestartsAsItself

LEMMA NextKeepsInv ==
    ASSUME LoaderInv, [Next]_vars
    PROVE  LoaderInv'
<1>1. TypeOK /\ TypeOK'
  BY TypesArePreserved DEF LoaderInv
<1>2. ~overlapped' => ~overlapped
  BY OverlapIsForGood
<1>3. ASSUME ~overlapped' PROVE Undisturbed'
  <2>1. Undisturbed /\ ~overlapped
    BY <1>2, <1>3 DEF LoaderInv
  <2>2. CASE UNCHANGED vars
    <3>1. /\ UNCHANGED <<seedPath, seed, v1, established, signedAs>>
          /\ UNCHANGED <<stage, keyPass, draft, printing, key, importing>>
      BY <2>2 DEF vars, diskVars, loaderVars, importerVars, historyVars
    <3>2. SeedNeverLost' /\ IdentityOnDisk' /\ IdentityReturns'
      BY <2>1, <3>1, OtherStepsKeepHistory
    <3>3. StageInv' /\ RestartsAsItself'
      BY <2>1, <3>1 DEF Undisturbed, StageInv, RestartsAsItself
    <3> QED BY <3>2, <3>3 DEF Undisturbed
  <2>3. CASE Next
    BY <1>1, <1>3, <2>1, <2>3, LookingKeepsInv, WritingKeepsInv, LoadingKeepsInv,
       ImportKeepsInv DEF Next
  <2> QED BY <2>2, <2>3
<1> QED BY <1>1, <1>3 DEF LoaderInv

-----------------------------------------------------------------------------
(* The theorems.                                                           *)

\* The inductive invariant, and with it the types of all variables.
THEOREM LoaderInvariance == Spec => []LoaderInv
BY InitEstablishesInv, NextKeepsInv, PTL DEF Spec

\* Whatever step of load_seed, write_mnemonic or the import a process dies in,
\* every phrase that was used is on the disk (wallet_loader.rs:100-116), unless
\* an import and a start were at the file together.
THEOREM SeedsAreKept == Spec => []SeedNeverLost
<1>1. LoaderInv => SeedNeverLost
  BY DEF LoaderInv, Undisturbed, SeedNeverLost
<1> QED BY <1>1, LoaderInvariance, PTL

\* A daemon would restart with the key it runs with, so no command replaces the
\* seed file under it (write_mnemonic), under the same condition.
THEOREM RunningKeyIsDurable == Spec => []RestartsAsItself
<1>1. LoaderInv => RestartsAsItself
  BY DEF LoaderInv, Undisturbed, RestartsAsItself
<1> QED BY <1>1, LoaderInvariance, PTL

\* The identities a deployment has from a phrase are one, however often the
\* migration from v1 is interrupted and whatever the daemon was in between, under
\* the same condition (load_seed).
THEOREM IdentityComesBack == Spec => []IdentityReturns
<1>1. LoaderInv => IdentityReturns
  BY DEF LoaderInv, Undisturbed, IdentityReturns
<1> QED BY <1>1, LoaderInvariance, PTL
===============================================================================
