----------------------------- MODULE MetadataCache -----------------------------
(***************************************************************************)
(* The client each row is signed with: the METADATA cache of global.rs     *)
(* (src/src/global.rs:18-63), its refresh at the start of a batch          *)
(* (src/src/transaction.rs:766-813, src/src/chain_info.rs:20-101) and its  *)
(* use for every row of the batch (src/src/transaction.rs:894-1039), while *)
(* the chains' runtimes are upgraded.                                      *)
(*                                                                         *)
(* The Platform is external: it answers GetCurrentBlockNumber and          *)
(* GetChainInfo with the runtime the chain has when it answers.  A runtime *)
(* is never rolled back.  The nonces of a batch are TransactionProcessor's *)
(* subject, and awaiting them is one more point at which a runtime may be  *)
(* upgraded.                                                               *)
(***************************************************************************)
EXTENDS Integers

CONSTANTS
    Chains,                 \* (network, chain) pairs: ChainKey
    LastSpec,               \* the last spec_version of each chain
    Payloads,               \* encoded calls of the pending rows
    SignDispatch(_, _),     \* fuel_tank::sign_dispatch, by spec_version
    KnownCall(_, _)         \* RawPayload::from_bytes, by spec_version

ASSUME CacheAssumption == LastSpec \in [Chains -> Nat \ {0}]

VARIABLES
    runtime,        \* spec_version of each chain's runtime
    METADATA,       \* the cached client of each chain, or NoClient
    phase,          \* "recv", "batch" or "metadata"
    batch,          \* chains the batch has rows for
    todo,           \* those whose prefetch is outstanding
    asked,          \* the chain whose GetChainInfo is under way and the
                    \* spec_version at its block, or NoClient
    block_info,     \* spec_version at the block each chain is signed for, or 0
    failed_chains,  \* chains whose prefetch failed in this batch
    last            \* the row at hand, signed or refused, or NoRow

batchVars == <<phase, batch, todo, asked, block_info, failed_chains>>
vars == <<runtime, METADATA, batchVars, last>>

Spec_version == Nat \ {0}

\* A client signs with the metadata and the genesis hash of one chain.
Client == [chain : Chains, spec : Spec_version]
NoClient == [chain |-> "none", spec |-> 0]

NoRow == [chain |-> "none"]

TypeOK ==
    /\ runtime \in [Chains -> Spec_version]
    /\ METADATA \in [Chains -> Client \cup {NoClient}]
    /\ phase \in {"recv", "batch", "metadata"}
    /\ batch \subseteq Chains
    /\ todo \subseteq batch
    /\ asked \in Client \cup {NoClient}
    /\ phase = "metadata" => asked.chain \in todo
    /\ block_info \in [Chains -> Nat]
    /\ failed_chains \subseteq batch

NoBlocks == [c \in Chains |-> 0]

Init ==
    /\ runtime = [c \in Chains |-> 1]
    /\ METADATA = [c \in Chains |-> NoClient]
    /\ phase = "recv"
    /\ batch = {}
    /\ todo = {}
    /\ asked = NoClient
    /\ block_info = NoBlocks
    /\ failed_chains = {}
    /\ last = NoRow

-----------------------------------------------------------------------------
\* The chain enacts a runtime upgrade; the bound is LastSpec.
Upgrade(c) ==
    /\ runtime[c] < LastSpec[c]
    /\ runtime' = [runtime EXCEPT ![c] = @ + 1]
    /\ UNCHANGED <<METADATA, batchVars, last>>

\* A batch with rows for these chains arrives.
Receive(chains) ==
    /\ phase = "recv"
    /\ phase' = "batch"
    /\ batch' = chains
    /\ todo' = chains
    /\ block_info' = NoBlocks
    /\ failed_chains' = {}
    /\ UNCHANGED <<runtime, METADATA, asked, last>>

\* Mutant: a client is never replaced.
NeedsUpdateOnce(local, spec_version) == local = NoClient

\* A chain without a client, or with one of an older runtime.
NeedsUpdate(local, spec_version) == local = NoClient \/ local.spec < spec_version

\* get_block_and_spec_version is answered for the next chain of the batch.
BlockAnswered(c) ==
    /\ phase = "batch"
    /\ c \in todo
    /\ IF NeedsUpdate(METADATA[c], runtime[c])
       THEN /\ phase' = "metadata"
            /\ asked' = [chain |-> c, spec |-> runtime[c]]
            /\ UNCHANGED <<todo, block_info>>
       ELSE /\ todo' = todo \ {c}
            /\ block_info' = [block_info EXCEPT ![c] = runtime[c]]
            /\ UNCHANGED <<phase, asked>>
    /\ UNCHANGED <<runtime, METADATA, batch, failed_chains, last>>

\* It fails, and the chain's rows are skipped in this batch.
BlockFails(c) ==
    /\ phase = "batch"
    /\ c \in todo
    /\ todo' = todo \ {c}
    /\ failed_chains' = failed_chains \cup {c}
    /\ UNCHANGED <<runtime, METADATA, phase, batch, asked, block_info, last>>

\* update_metadata_and_substrate_client: the runtime may be later than the
\* block's by now, and its client replaces the cached one in any case.
MetadataAnswered ==
    /\ phase = "metadata"
    /\ METADATA' = [METADATA EXCEPT ![asked.chain] =
                        [chain |-> asked.chain, spec |-> runtime[asked.chain]]]
    /\ block_info' = [block_info EXCEPT ![asked.chain] = asked.spec]
    /\ phase' = "batch"
    /\ todo' = todo \ {asked.chain}
    /\ asked' = NoClient
    /\ UNCHANGED <<runtime, batch, failed_chains, last>>

\* Mutant: an outdated client is better than none.
MetadataFailsSilently ==
    /\ phase = "metadata"
    /\ block_info' = [block_info EXCEPT ![asked.chain] = asked.spec]
    /\ phase' = "batch"
    /\ todo' = todo \ {asked.chain}
    /\ asked' = NoClient
    /\ UNCHANGED <<runtime, METADATA, batch, failed_chains, last>>

\* No answer, one that cannot be decoded or one of a metadata version above 16.
MetadataFails ==
    /\ phase = "metadata"
    /\ phase' = "batch"
    /\ todo' = todo \ {asked.chain}
    /\ failed_chains' = failed_chains \cup {asked.chain}
    /\ asked' = NoClient
    /\ UNCHANGED <<runtime, METADATA, batch, block_info, last>>

\* The client is looked up once per row, and the call is laid out, named and
\* signed with it.  fuelTank: the row is a dispatch from a fuel tank.
SignRow(c, payload, fuelTank) ==
    /\ phase = "batch"
    /\ todo = {}
    /\ last = NoRow
    /\ c \in batch \ failed_chains
    /\ block_info[c] # 0
    /\ METADATA[c] # NoClient
    /\ LET client == METADATA[c]
           signed == IF fuelTank THEN SignDispatch(client.spec, payload)
                     ELSE [message |-> <<>>, payload |-> payload]
           sent   == IF signed.payload # <<>> /\ KnownCall(client.spec, signed.payload)
                     THEN signed.payload ELSE <<>>
       IN  last' = [chain |-> c, client |-> client, fuelTank |-> fuelTank,
                    payload |-> payload, message |-> signed.message, sent |-> sent]
    /\ UNCHANGED <<runtime, METADATA, batchVars>>

\* The loop goes on to the next row.
NextRow ==
    /\ last # NoRow
    /\ last' = NoRow
    /\ UNCHANGED <<runtime, METADATA, batchVars>>

\* All rows are signed or skipped, and the batch's tables go.
BatchDone ==
    /\ phase = "batch"
    /\ todo = {}
    /\ last = NoRow
    /\ phase' = "recv"
    /\ batch' = {}
    /\ block_info' = NoBlocks
    /\ failed_chains' = {}
    /\ UNCHANGED <<runtime, METADATA, todo, asked, last>>

\* The daemon is restarted, and nothing of this is on disk.
Restart ==
    /\ METADATA' = [c \in Chains |-> NoClient]
    /\ phase' = "recv"
    /\ batch' = {}
    /\ todo' = {}
    /\ block_info' = NoBlocks
    /\ failed_chains' = {}
    /\ asked' = NoClient
    /\ last' = NoRow
    /\ UNCHANGED runtime

Next ==
    \/ \E c \in Chains : Upgrade(c)
    \/ \E chains \in SUBSET Chains \ {{}} : Receive(chains)
    \/ \E c \in Chains : BlockAnswered(c) \/ BlockFails(c)
    \/ MetadataAnswered
    \/ MetadataFails
    \/ \E c \in Chains, payload \in Payloads, fuelTank \in BOOLEAN :
           SignRow(c, payload, fuelTank)
    \/ NextRow
    \/ BatchDone
    \/ Restart

Spec == Init /\ [][Next]_vars

-----------------------------------------------------------------------------
(* Properties.                                                             *)

\* A row is signed with the metadata of its own chain, and of a runtime no
\* older than that of the block it is signed for, whatever failed or was
\* upgraded in between (transaction.rs:787-804, "independently for each network
\* and chain", fuel_tank.rs:25-26).
ClientOfTheBlock ==
    last # NoRow =>
        /\ last.client.chain = last.chain
        /\ last.client.spec >= block_info[last.chain]
=============================================================================
