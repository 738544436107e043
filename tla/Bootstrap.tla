----------------------------- MODULE Bootstrap ------------------------------
(* Startup of a node (node/src/startup.rs with keys.rs, preflight.rs and     *)
(* config.rs): configuration and key sources, the production gates, then     *)
(* the writes that create a chain, each a transaction of its own so that the *)
(* process may die between any two of them.                                  *)
EXTENDS Integers, Sequences

CONSTANTS
    Machines,          \* environments and configuration files a node is started with
    Accounts,          \* genesis_alloc
    Founders,          \* genesis_validators
    MaxStarts          \* bound on process starts

\* No key source holds the seed that is derived from the validator's.
ASSUME BootAssumption == \A m \in Machines : m.p2pKey # "derived"

VARIABLES
    machine,           \* what this process was started with
    step,              \* how far startup has come
    seed, p2pSeed,     \* what the key sources gave
    balances,          \* durable: account -> "none", "genesis" or "spent"
    genesisBlock,      \* durable: balances the stored block 0 commits to, or {}
    rootRow, chainIdRow,   \* durable: metadata:state_root and metadata:chain_id
    stakes,            \* durable: times a founder's stake was added
    founderRow,        \* durable: consensus:validator_set, or {}
    members,           \* validator set in memory
    chainHeight,       \* durable: latest block height
    starts

bootVars == <<machine, step, seed, p2pSeed, balances, genesisBlock, rootRow, chainIdRow, stakes,
              founderRow, members, chainHeight, starts>>
durable == <<balances, genesisBlock, rootRow, chainIdRow, stakes, founderRow, chainHeight>>
identity == <<machine, seed, p2pSeed, starts>>

-----------------------------------------------------------------------------
(* Keys.                                                                     *)

\* keys::is_production looks at two variables; preflight at four.
IsProduction(m) == m.env = "production" \/ m.srs = "production"
IsMainnetOrProduction(m) == IsProduction(m) \/ m.net = "mainnet" \/ m.config.network = "mainnet"

\* A key read from a file, the keystore or Vault: an error when it is missing,
\* malformed or does not decrypt, and in production over a Vault without TLS
\* or token.
ReadSource(m, key) ==
    CASE key = "unreadable" -> "error"
      [] key = "insecure" -> IF IsProduction(m) THEN "error" ELSE "good"
      [] OTHER -> key

RejectIfTrivial(m, key) == IF key = "trivial" /\ IsProduction(m) THEN "error" ELSE key

\* resolve_validator_seed: the first source that is configured decides; it is
\* not skipped when it cannot be read or holds a trivial key in production.
ResolveValidatorSeed(m) ==
    LET configured == {i \in DOMAIN m.keys : m.keys[i] # "absent"}
        first == CHOOSE i \in configured : \A j \in configured : i =< j
    IN  IF m.config.inlineKey \/ configured = {} THEN "error"
        ELSE RejectIfTrivial(m, ReadSource(m, m.keys[first]))

\* Mutant: a node without a seed of its own always derives one.
AnyP2pSeed(m) == IF m.p2pKey # "absent" THEN m.p2pKey ELSE "derived"

\* resolve_p2p_seed: a seed of its own, or one derived from the validator's.
ResolveP2pSeed(m) ==
    IF m.p2pKey # "absent" THEN m.p2pKey
    ELSE IF IsProduction(m) THEN "error" ELSE "derived"

\* apply_keys_to_config: only a validator must have a key.
ValidatorSeed(m) ==
    LET resolved == ResolveValidatorSeed(m)
    IN  IF resolved = "error" /\ m.config.mode # "validator" THEN "ephemeral" ELSE resolved

-----------------------------------------------------------------------------
(* Configuration and gates.                                                  *)

\* Naming mainnet in the file asks for the production environment.
MainnetPolicy(m) ==
    m.config.network = "mainnet" =>
        m.env = "production" /\ m.srs = "production" /\ ~m.allowHttp /\ m.srsFile # "absent"

\* Every genesis validator has an address, keys of the right length and a
\* stake; one bad entry refuses the file.
GenesisValidatorsValid(m) == m.config.validators = "valid"

\* The commit_reveal block and its windows have no defaults.
CommitRevealComplete(m) == m.config.commitReveal = "complete"

\* Chain id, block gas and block time, where given, are the compiled ones.
ProtocolMatches(m) == m.config.protocol \in {"absent", "compiled"}

\* NodeConfig::validate: limits and windows in range, validators distinct and
\* staked, allocations readable.
Validated(m) == m.config.inRange

ParseNodeConfig(m) ==
    /\ MainnetPolicy(m) /\ m.config.wellFormed /\ Validated(m)
    /\ GenesisValidatorsValid(m) /\ CommitRevealComplete(m) /\ ProtocolMatches(m)

\* load_configuration_file: without a file the defaults, unless in production.
LoadConfigurationFile(m) ==
    IF m.config.file = "missing" THEN ~m.config.explicit /\ ~IsProduction(m) ELSE ParseNodeConfig(m)

CheckSp1Mode(m) == m.sp1 = "production" /\ m.vkHash = "pinned"

\* The file is no development SRS, matches the pinned hash, and a transcript,
\* where one is given, is valid.
CheckSrsMode(m) == m.srs = "production" /\ m.srsFile = "ceremony" /\ m.transcript # "invalid"

CheckJwtSecret(m) == m.jwt \in {"file", "long"}
CheckTlsConfig(m) == ~m.allowHttp /\ m.tls \in {"files", "proxy"}
\* The key gate sees only the first source, the environment variable.
CheckValidatorKeyQuality(m) == m.keys[1] # "trivial"
CheckParallelVerifyPolicy(m) == m.verifyParallel
CheckNoStrayKeyFiles(m) == ~m.strayKeys
CheckRpcWriteAuth(m) == m.config.rpcPublic => m.writeAuth
\* An absent file, or one of another network, passes unless SXIAUM_NETWORK is mainnet.
CheckMainnetGenesisPlaceholders(m) ==
    m.genesisFile # "placeholder" /\ (m.net = "mainnet" => m.genesisFile = "final")
CheckTemplateBootnodes(m) == ~m.config.templateBootnodes
CheckGenesisTimestamp(m) == m.config.genesisTime # 0

CollectProductionPreflightFailures(m) ==
    IsMainnetOrProduction(m) =>
        /\ CheckSp1Mode(m) /\ CheckSrsMode(m) /\ CheckJwtSecret(m) /\ CheckTlsConfig(m)
        /\ CheckValidatorKeyQuality(m) /\ CheckParallelVerifyPolicy(m) /\ CheckNoStrayKeyFiles(m)
        /\ CheckRpcWriteAuth(m) /\ CheckMainnetGenesisPlaceholders(m)
        /\ CheckTemplateBootnodes(m) /\ CheckGenesisTimestamp(m)

MayStart(m) ==
    /\ LoadConfigurationFile(m)
    /\ ValidatorSeed(m) # "error" /\ ResolveP2pSeed(m) # "error"
    /\ CollectProductionPreflightFailures(m)

-----------------------------------------------------------------------------
(* bootstrap_node, one durable write at a time.                              *)

NoAlloc == [a \in Accounts |-> "none"]

BootInit ==
    /\ machine = [config |-> {}] /\ step = "down" /\ seed = "none" /\ p2pSeed = "none"
    /\ balances = NoAlloc /\ genesisBlock = {} /\ rootRow = {} /\ chainIdRow = FALSE
    /\ stakes = [v \in Founders |-> 0] /\ founderRow = {} /\ members = {}
    /\ chainHeight = 0 /\ starts = 0

Goto(s) == step' = s

\* Steps 1 to 4: nothing durable before the gates have passed.
StartProcess(m) ==
    /\ step = "down" /\ starts < MaxStarts /\ MayStart(m)
    /\ machine' = m /\ seed' = ValidatorSeed(m) /\ p2pSeed' = ResolveP2pSeed(m)
    /\ starts' = starts + 1
    /\ members' = {}
    /\ Goto("alloc") /\ UNCHANGED durable

\* apply_genesis_allocations, one account: on every start at height 0.
ApplyGenesisAllocation(a) ==
    /\ step = "alloc" /\ chainHeight = 0 /\ balances[a] # "genesis"
    /\ balances' = [balances EXCEPT ![a] = "genesis"]
    /\ UNCHANGED <<step, identity, genesisBlock, rootRow, chainIdRow, stakes, founderRow, members,
                   chainHeight>>

EndAllocations ==
    /\ step = "alloc"
    /\ chainHeight = 0 => \A a \in Accounts : balances[a] = "genesis"
    /\ Goto(IF chainHeight = 0 /\ genesisBlock = {} THEN "block" ELSE "restore")
    /\ UNCHANGED <<identity, members, durable>>

WriteGenesisBlock ==
    /\ step = "block" /\ genesisBlock' = {balances} /\ Goto("root")
    /\ UNCHANGED <<identity, balances, rootRow, chainIdRow, stakes, founderRow, members, chainHeight>>

WriteStateRoot ==
    /\ step = "root" /\ rootRow' = {balances} /\ Goto("chainId")
    /\ UNCHANGED <<identity, balances, genesisBlock, chainIdRow, stakes, founderRow, members,
                   chainHeight>>

WriteChainId ==
    /\ step = "chainId" /\ chainIdRow' = TRUE /\ Goto("founders")
    /\ UNCHANGED <<identity, balances, genesisBlock, rootRow, stakes, founderRow, members, chainHeight>>

\* A founder enters the set in memory; stake_tokens saves the position.
StakeFounder(v) ==
    /\ step = "founders" /\ v \notin members
    /\ members' = members \union {v}
    /\ stakes' = [stakes EXCEPT ![v] = @ + 1]
    /\ UNCHANGED <<step, identity, balances, genesisBlock, rootRow, chainIdRow, founderRow, chainHeight>>

PersistFounders ==
    /\ step = "founders" /\ members = Founders
    /\ founderRow' = {members} /\ Goto("restore")
    /\ UNCHANGED <<identity, balances, genesisBlock, rootRow, chainIdRow, stakes, members, chainHeight>>

\* restore_consensus_state: the row replaces the set in memory.
RestoreConsensusState ==
    /\ step = "restore"
    /\ members' = UNION founderRow
    /\ Goto(IF members' = {} THEN "fallback" ELSE "network")
    /\ UNCHANGED <<identity, durable>>

\* The validator set fallback: a founder is staked only without a position.
FallbackFounder(v) ==
    /\ step = "fallback" /\ v \notin members
    /\ members' = members \union {v}
    /\ stakes' = [stakes EXCEPT ![v] = IF @ = 0 THEN 1 ELSE @]
    /\ UNCHANGED <<step, identity, balances, genesisBlock, rootRow, chainIdRow, founderRow, chainHeight>>

PersistFallback ==
    /\ step = "fallback" /\ members = Founders
    /\ founderRow' = {members} /\ Goto("network")
    /\ UNCHANGED <<identity, balances, genesisBlock, rootRow, chainIdRow, stakes, members, chainHeight>>

StartNetworkingLayer ==
    /\ step = "network" /\ Goto("running") /\ UNCHANGED <<identity, members, durable>>

\* The running node finalizes a block that spends from an account.
FinalizeFirstBlock(a) ==
    /\ step = "running" /\ chainHeight = 0
    /\ chainHeight' = 1
    /\ balances' = [balances EXCEPT ![a] = "spent"]
    /\ rootRow' = {balances'}
    /\ UNCHANGED <<step, identity, genesisBlock, chainIdRow, stakes, founderRow, members>>

\* Killed or stopped at any step.
ProcessDies ==
    /\ step # "down" /\ Goto("down") /\ UNCHANGED <<identity, members, durable>>

BootNext ==
    \/ \E m \in Machines : StartProcess(m)
    \/ \E a \in Accounts : ApplyGenesisAllocation(a) \/ FinalizeFirstBlock(a)
    \/ EndAllocations \/ WriteGenesisBlock \/ WriteStateRoot \/ WriteChainId
    \/ \E v \in Founders : StakeFounder(v) \/ FallbackFounder(v)
    \/ PersistFounders \/ RestoreConsensusState \/ PersistFallback \/ StartNetworkingLayer
    \/ ProcessDies

-----------------------------------------------------------------------------
(* Properties.                                                               *)

\* However often startup is cut short between two of its writes, a node that
\* comes up has the allocations its genesis block commits to (later balances
\* are not overwritten), its whole validator set, and each founder's stake
\* counted once.
GenesisCompletedOnce ==
    step = "running" =>
        /\ members = Founders
        /\ \A v \in Founders : stakes[v] = 1
        /\ IF chainHeight = 0 THEN {balances} = genesisBlock ELSE {balances} = rootRow

\* Whichever of the four settings says production or mainnet, and whichever
\* source the key comes from, a node that passes the gates signs with no
\* trivial key, has a network identity of its own and a ceremony SRS:
\* is_production, which the key sources consult, knows only two of the four.
ProductionIdentity ==
    (step # "down" /\ IsMainnetOrProduction(machine)) =>
        seed # "trivial" /\ p2pSeed # "derived" /\ machine.srsFile = "ceremony"

\* A node that comes up has a whole genesis and, in production, an identity of
\* its own.
BootstrapSound == GenesisCompletedOnce /\ ProductionIdentity
=============================================================================
