----------------------------- MODULE WalletLoader -----------------------------
(***************************************************************************)
(* The wallet's seed on disk: resolve_seed_path, load_seed with the        *)
(* migration of a v1 key file, get_keys and write_mnemonic                 *)
(* (src/src/wallet_loader.rs:10-183), the seed file's encryption           *)
(* (src/src/crypto.rs), the import command (src/src/importer.rs) and their *)
(* callers in main (src/src/main.rs:67-96).                                *)
(*                                                                         *)
(* A process may die between any two steps, and fs::write is two of them:  *)
(* it opens and empties the file, then fills it.  A file filled in part is *)
(* not modelled: it is no JSON and no phrase either, so a start panics on  *)
(* it, where an empty one lets the daemon run (get_keys).                  *)
(*                                                                         *)
(* An import and a starting daemon take no lock, and one may overwrite     *)
(* what the other writes.  That is in the model, and recorded: once they   *)
(* overlapped between the look at the directory and the last write to it,  *)
(* the properties claim nothing any more.  The import's prompt, which may  *)
(* stay open for hours, comes before its look.  There is one process at a  *)
(* time in load_seed, and one import.                                      *)
(*                                                                         *)
(* The directory is the one SEED_PATH leads to.  A missing directory is    *)
(* one without files: whoever writes into it creates it.                   *)
(***************************************************************************)

CONSTANTS
    Phrases,        \* mnemonics
    Passes,         \* values KEY_PASS may be given
    KeyPass,        \* the deployment's own
    DevPhrase       \* SecretUri's phrase where none is given; nobody's own

ASSUME LoaderAssumption ==
    Phrases # {} /\ KeyPass \in Passes /\ DevPhrase \notin Phrases

VARIABLES
    (* the disk *)
    seedPath,       \* what SEED_PATH is: "unset", "dir" or "file"
    seed,           \* wallet.seed, or the file SEED_PATH names
    v1,             \* the phrases of the v1 key files in the directory
    (* the daemon, or print-seed: load_seed *)
    stage,          \* how far it is; "running" when the daemon has its key
    keyPass,        \* its KEY_PASS
    draft,          \* the phrase it is about to write
    printing,       \* it is print-seed
    key,            \* the running daemon's identity, if any
    (* the import command *)
    importing,      \* "off", "prompt", "open" or "write"
    importPass,     \* its KEY_PASS
    typed,          \* the phrase typed at the prompt
    (* history *)
    established,    \* phrases the daemon signed with, printed or imported
    signedAs,       \* identities the daemon had since the last import
    overlapped      \* load_seed and an import were at the file together

diskVars     == <<seedPath, seed, v1>>
loaderVars   == <<stage, keyPass, draft, printing, key>>
importerVars == <<importing, importPass, typed>>
historyVars  == <<established, signedAs, overlapped>>
vars == <<diskVars, loaderVars, importerVars, historyVars>>

\* What the seed file holds.  An empty one was opened and not filled.
Absent == [kind |-> "absent"]
Empty  == [kind |-> "empty"]
PlainSeed  == [kind : {"plain"}, phrase : Phrases]
SealedSeed == [kind : {"v2"}, phrase : Phrases, pass : Passes, imported : BOOLEAN]
Complete   == PlainSeed \cup SealedSeed

\* A key pair: a phrase, and the password appended to it, if any.
Identity == [phrase : Phrases \cup {DevPhrase}, suffix : SUBSET Passes]

TypeOK ==
    /\ seedPath \in {"unset", "dir", "file"}
    /\ seed \in {Absent, Empty} \cup Complete
    /\ v1 \subseteq Phrases
    /\ stage \in {"off", "look", "create", "fill", "migrate", "refill", "verify",
                  "remove", "load", "running"}
    /\ keyPass \in Passes
    /\ draft \in Phrases
    /\ printing \in BOOLEAN
    /\ key \subseteq Identity
    /\ importing \in {"off", "prompt", "open", "write"}
    /\ importPass \in Passes
    /\ typed \in Phrases
    /\ established \subseteq Phrases
    /\ signedAs \subseteq Identity
    /\ overlapped \in BOOLEAN

\* encrypt_with_imported
Sealed(phrase, pass, imported) ==
    [kind |-> "v2", phrase |-> phrase, pass |-> pass, imported |-> imported]

\* decrypt, and for a plain file decrypt_mnemonic: which passwords open a file.
Opens(file, pass) ==
    \/ file \in PlainSeed
    \/ file \in SealedSeed /\ file.pass = pass

\* The key get_keys makes of an opened file: v1 phrases get the password.
KeyIn(file, pass) ==
    [phrase |-> file.phrase,
     suffix |-> IF file \in PlainSeed \/ file.imported THEN {pass} ELSE {}]

\* And of a v1 key file; where the phrase is missing, SecretUri has one.
V1Key(phrase, pass) == [phrase |-> phrase, suffix |-> {pass}]

\* A first start, or an upgrade from v1, whose daemon used its only key file.
Init ==
    /\ seedPath \in {"unset", "dir", "file"}
    /\ v1 \in SUBSET Phrases
    /\ seed \in {Absent} \cup PlainSeed
    /\ seedPath = "file" => v1 = {}
    /\ seedPath # "file" => seed = Absent
    /\ stage = "off"
    /\ keyPass = KeyPass
    /\ draft = CHOOSE p \in Phrases : TRUE
    /\ printing = FALSE
    /\ key = {}
    /\ importing = "off"
    /\ importPass = KeyPass
    /\ typed = CHOOSE p \in Phrases : TRUE
    /\ established = v1 \cup {p \in Phrases : seed = [kind |-> "plain", phrase |-> p]}
    /\ signedAs = {V1Key(p, KeyPass) : p \in {q \in Phrases : established = {q}}}
    /\ overlapped = FALSE

-----------------------------------------------------------------------------
(* load_seed: the daemon's start, and print-seed.                          *)

\* resolve_seed_path: SEED_PATH unset finds ./wallet.seed once it is there.
IsFilePath == seedPath = "file" \/ (seedPath = "unset" /\ seed # Absent)

Loading == stage \notin {"off", "running"}
ImportAtFile == importing \in {"open", "write"}

\* A command starts, with the KEY_PASS of its environment.  Beside a running
\* daemon print-seed would find the file there and only read it.
Start(pass, print) ==
    /\ stage = "off"
    /\ stage' = "look"
    /\ keyPass' = pass
    /\ printing' = print
    /\ overlapped' = (overlapped \/ ImportAtFile)
    /\ UNCHANGED <<diskVars, draft, key, importerVars, established, signedAs>>

\* The seed file exists: whatever it holds, it is the one that is loaded.
FindSeed ==
    /\ stage = "look"
    /\ seed # Absent
    /\ stage' = "load"
    /\ UNCHANGED <<diskVars, keyPass, draft, printing, key, importerVars,
                   historyVars>>

\* A directory without wallet.seed: the first v1 key file read_dir comes upon.
FindV1(p) ==
    /\ stage = "look"
    /\ seed = Absent
    /\ ~IsFilePath
    /\ p \in v1
    /\ draft' = p
    /\ stage' = "migrate"
    /\ UNCHANGED <<diskVars, keyPass, printing, key, importerVars, historyVars>>

\* Nothing is there, and a new phrase is drawn.
Generate(p) ==
    /\ stage = "look"
    /\ seed = Absent
    /\ IsFilePath \/ v1 = {}
    /\ p \notin established
    /\ draft' = p
    /\ stage' = "create"
    /\ UNCHANGED <<diskVars, keyPass, printing, key, importerVars, historyVars>>

\* Mutant: the v1 key file makes way for wallet.seed.
OpenSeedMovingV1 ==
    /\ stage \in {"create", "migrate"}
    /\ seed' = Empty
    /\ v1' = v1 \ {draft}
    /\ stage' = IF stage = "create" THEN "fill" ELSE "refill"
    /\ UNCHANGED <<seedPath, keyPass, draft, printing, key, importerVars,
                   historyVars>>

\* fs::write opens the file and empties it ...
OpenSeed ==
    /\ stage \in {"create", "migrate"}
    /\ seed' = Empty
    /\ stage' = IF stage = "create" THEN "fill" ELSE "refill"
    /\ UNCHANGED <<seedPath, v1, keyPass, draft, printing, key, importerVars,
                   historyVars>>

\* Mutant: a migrated phrase is written as one of v2's own.
FillSeedUnmarked ==
    /\ stage \in {"fill", "refill"}
    /\ seed' = Sealed(draft, keyPass, FALSE)
    /\ stage' = IF stage = "fill" THEN "load" ELSE "verify"
    /\ UNCHANGED <<seedPath, v1, keyPass, draft, printing, key, importerVars,
                   historyVars>>

\* ... and fills it.  A phrase of v1 is marked as imported.
FillSeed ==
    /\ stage \in {"fill", "refill"}
    /\ seed' = Sealed(draft, keyPass, stage = "refill")
    /\ stage' = IF stage = "fill" THEN "load" ELSE "verify"
    /\ UNCHANGED <<seedPath, v1, keyPass, draft, printing, key, importerVars,
                   historyVars>>

\* Both files are loaded and their public keys compared.
Verify ==
    /\ stage = "verify"
    /\ Opens(seed, keyPass)
    /\ stage' = IF KeyIn(seed, keyPass) = V1Key(draft, keyPass) THEN "remove"
                ELSE "off"
    /\ UNCHANGED <<diskVars, keyPass, draft, printing, key, importerVars,
                   historyVars>>

RemoveV1 ==
    /\ stage = "remove"
    /\ v1' = v1 \ {draft}
    /\ stage' = "load"
    /\ UNCHANGED <<seedPath, seed, keyPass, draft, printing, key, importerVars,
                   historyVars>>

\* load_wallet: print-seed prints the phrase, the daemon runs with the key.
LoadSeed ==
    /\ stage = "load"
    /\ Opens(seed, keyPass)
    /\ established' = established \cup {seed.phrase}
    /\ key' = IF printing THEN {} ELSE {KeyIn(seed, keyPass)}
    /\ stage' = IF printing THEN "off" ELSE "running"
    /\ signedAs' = signedAs \cup key'
    /\ UNCHANGED <<diskVars, keyPass, draft, printing, importerVars, overlapped>>

\* An empty file is read as a plain one, and the daemon runs with the key that
\* SecretUri makes of the password alone.
LoadEmptySeed ==
    /\ stage = "load"
    /\ seed = Empty
    /\ key' = IF printing THEN {} ELSE {V1Key(DevPhrase, keyPass)}
    /\ stage' = IF printing THEN "off" ELSE "running"
    /\ signedAs' = signedAs \cup key'
    /\ UNCHANGED <<diskVars, keyPass, draft, printing, importerVars, established,
                   overlapped>>

\* The process panics, is killed, or exits.
LoaderDies ==
    /\ stage # "off"
    /\ stage' = "off"
    /\ key' = {}
    /\ UNCHANGED <<diskVars, keyPass, draft, printing, importerVars, historyVars>>

-----------------------------------------------------------------------------
(* The import command.                                                     *)

\* main refuses an existing file and prompts for the mnemonic; a directory is
\* only looked into later.
ImportPrompts(pass) ==
    /\ importing = "off"
    /\ IsFilePath => seed = Absent
    /\ importing' = "prompt"
    /\ importPass' = pass
    /\ UNCHANGED <<diskVars, loaderVars, typed, historyVars>>

\* Mutant: write_mnemonic may overwrite, as for the daemon's own phrases.
ImportLooksOverwriting(p) ==
    /\ importing = "prompt"
    /\ typed' = p
    /\ importing' = "open"
    /\ overlapped' = (overlapped \/ Loading)
    /\ UNCHANGED <<diskVars, loaderVars, importPass, established, signedAs>>

\* A phrase has been typed, and write_mnemonic looks again ...
ImportLooks(p) ==
    /\ importing = "prompt"
    /\ seed = Absent
    /\ typed' = p
    /\ importing' = "open"
    /\ overlapped' = (overlapped \/ Loading)
    /\ UNCHANGED <<diskVars, loaderVars, importPass, established, signedAs>>

\* ... then opens the file, whatever has come there since ...
ImportOpens ==
    /\ importing = "open"
    /\ seed' = Empty
    /\ importing' = "write"
    /\ UNCHANGED <<seedPath, v1, loaderVars, importPass, typed, historyVars>>

\* ... and fills it.  The operator has chosen the identity, whatever it was
\* before.
ImportFills ==
    /\ importing = "write"
    /\ seed' = Sealed(typed, importPass, FALSE)
    /\ importing' = "off"
    /\ established' = established \cup {typed}
    /\ signedAs' = {}
    /\ UNCHANGED <<seedPath, v1, loaderVars, importPass, typed, overlapped>>

\* "already exists", an invalid mnemonic, or the process is killed.
ImporterDies ==
    /\ importing # "off"
    /\ importing' = "off"
    /\ UNCHANGED <<diskVars, loaderVars, importPass, typed, historyVars>>

\* The operator, with the daemon stopped, deletes a file that holds nothing.
DeleteEmptySeed ==
    /\ seed = Empty
    /\ stage = "off"
    /\ ~ImportAtFile
    /\ seed' = Absent
    /\ UNCHANGED <<seedPath, v1, loaderVars, importerVars, historyVars>>

-----------------------------------------------------------------------------
Next ==
    \/ \E pass \in Passes, print \in BOOLEAN : Start(pass, print)
    \/ FindSeed
    \/ \E p \in Phrases : FindV1(p) \/ Generate(p)
    \/ OpenSeed
    \/ FillSeed
    \/ Verify
    \/ RemoveV1
    \/ LoadSeed
    \/ LoadEmptySeed
    \/ LoaderDies
    \/ \E pass \in Passes : ImportPrompts(pass)
    \/ \E p \in Phrases : ImportLooks(p)
    \/ ImportOpens
    \/ ImportFills
    \/ ImporterDies
    \/ DeleteEmptySeed

Spec == Init /\ [][Next]_vars

\* The bound of the runs: they stop where the properties claim nothing any more.
NotOverlapped == ~overlapped

-----------------------------------------------------------------------------
(* Properties.                                                             *)

\* A phrase that was ever signed with, printed or imported can be read from the
\* disk whatever step a process died in: the v1 key file goes only when
\* wallet.seed holds the phrase, and nothing is written over it (load_seed,
\* wallet_loader.rs:100-116; write_mnemonic, 177-180).
SeedNeverLost ==
    ~overlapped =>
        established \subseteq
            v1 \cup {p \in Phrases : seed \in Complete /\ seed.phrase = p}

\* The keys a start would run with, none where it would panic.
StartsWith(file, pass) ==
    IF file = Empty THEN {V1Key(DevPhrase, pass)}
    ELSE {k \in {KeyIn(file, pass)} : Opens(file, pass)}

\* The key of a running daemon is the one its next start will load: no import
\* that was left at its prompt and no migration replaces the file under it
\* (main.rs:73-85, write_mnemonic).
RestartsAsItself ==
    ~overlapped /\ stage = "running" => key = StartsWith(seed, keyPass)

Genuine(identity) == identity.suffix \subseteq {KeyPass}

\* With its own KEY_PASS a deployment has one identity until a seed is
\* imported, over the upgrade from v1, interrupted migrations and restarts
\* (load_seed; wallet_loader.rs:280-284, "public key should match after
\* migration").  The code breaks this with an empty wallet.seed.
OneIdentity ==
    ~overlapped => \A i, j \in signedAs : Genuine(i) /\ Genuine(j) => i = j

\* What holds of it: the identities that came from a phrase are one.  However
\* often a migration is interrupted, and whatever the daemon signed as meanwhile,
\* the deployment's own identity comes back once an empty wallet.seed is deleted
\* (load_seed, wallet_loader.rs:100-116).
IdentityReturns ==
    ~overlapped =>
        \A i, j \in {k \in signedAs : Genuine(k) /\ k.phrase # DevPhrase} : i = j
=============================================================================
