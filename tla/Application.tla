----------------------------- MODULE Application -----------------------------
(***************************************************************************)
(* The ABCI application (src/blockchain/application.rs): the handlers that  *)
(* Tendermint calls on the consensus connection, the stores they change,    *)
(* and crashes of the process between any two steps.                        *)
(*                                                                          *)
(* The consensus connection is the only writer, and it waits for the answer *)
(* of each store command but Commit, so a handler is one step over the      *)
(* stores (RecordStore and AtomicStore justify this).  The Commit command   *)
(* stays asynchronous: the worker runs it while the handler goes on with    *)
(* the height file, until the handler needs an answer again.                *)
(***************************************************************************)
EXTENDS Ledger

CONSTANTS
    CrashPoints,        \* values of pc at which the process may crash
    ReconnectPoints,    \* values of pc at which Tendermint alone may restart
    MaxCrashes          \* bound: crashes and restarts

ASSUME CrashesAssumption == MaxCrashes \in Nat /\ None \notin Nat

\* Tendermint alone cannot leave a handler half done.
ASSUME ReconnectAssumption == ReconnectPoints \subseteq {"ready", "block", "ended"}

VARIABLES
    dbRecords, dbSpent,         \* record store: databases
    recordBuffer, spentBuffer,  \* record store: write buffers
    storeCommit,    \* its Commit command: "none", "queued", or "spent" (half done)
    programs,       \* program store, written through
    heightFile,     \* abci.height, or None when missing
    validatorsFile, \* abci.validators, empty when missing
    torn,           \* files that a crash left truncated
    validators, fees, currentProposer, currentVotes, currentHeight, updatedValidators,
    pc,             \* where the application stands between two steps
    crashes,        \* crashes and restarts so far
    cut             \* what they cut off: "commit" and, in memory only, "block" (history)

storeVars == <<dbRecords, dbSpent, recordBuffer, spentBuffer>>
fileVars == <<heightFile, validatorsFile, torn>>
blockVars == <<fees, currentProposer, currentVotes, currentHeight, updatedValidators>>
faultVars == <<crashes, cut>>
appVars == <<storeVars, storeCommit, programs, fileVars, validators, blockVars, pc,
             faultVars>>

\* "down" -> "started" -> "ready" -> "block" -> "ended" -> "commit" -> "counted"
\* -> "rewarded" -> "ready"; "panicked" is final: the mutex is poisoned.
PCs == {"down", "started", "ready", "block", "ended", "commit", "counted", "rewarded",
        "panicked"}

known == dbRecords \cup recordBuffer

\* Slip against NoDoubleSpend and VerdictsFollowLedger: the store forgets its buffer.
spentOnDisk == dbSpent

spent == dbSpent \cup spentBuffer

AppInit ==
    /\ dbRecords = {} /\ dbSpent = {}
    /\ recordBuffer = {} /\ spentBuffer = {} /\ storeCommit = "none"
    /\ programs = {}
    /\ heightFile = None /\ validatorsFile = <<>> /\ torn = {}
    /\ validators = <<>>
    /\ fees = 0 /\ currentProposer = None /\ currentVotes = <<>>
    /\ currentHeight = 0 /\ updatedValidators = {}
    /\ pc = "down" /\ crashes = 0 /\ cut = {}

----------------------------------------------------------------------------
(* Startup and handshake.                                                    *)

\* Slip against PowersMatchTendermint and NeverPanics: the validators file is not read.
StartFresh ==
    /\ pc = "down"
    /\ pc' = "started"
    /\ programs' = programs \cup {CreditsProgram}
    /\ validators' = <<>>
    /\ UNCHANGED <<storeVars, storeCommit, fileVars, blockVars, faultVars>>

\* SnarkVMApp::new opens the stores, adds credits.aleo and loads the validators.
Start ==
    /\ pc = "down"
    /\ IF "validators" \in torn
       THEN pc' = "panicked" /\ UNCHANGED <<programs, validators>>
       ELSE /\ pc' = "started"
            /\ programs' = programs \cup {CreditsProgram}
            /\ validators' = validatorsFile
    /\ UNCHANGED <<storeVars, storeCommit, fileVars, blockVars, faultVars>>

\* Slip against TornIsNoticed and HeightsAreClose: a file that cannot be decoded is
\* replaced as if missing.
InfoForgiving ==
    /\ pc = "started"
    /\ pc' = "ready"
    /\ heightFile' = IF heightFile = None \/ "height" \in torn THEN 0 ELSE heightFile
    /\ UNCHANGED <<storeVars, storeCommit, programs, validatorsFile, torn, validators,
                   blockVars, faultVars>>

\* info: Tendermint learns the height; a file that cannot be decoded panics.
Info ==
    /\ pc = "started"
    /\ IF "height" \in torn
       THEN pc' = "panicked" /\ UNCHANGED heightFile
       ELSE /\ pc' = "ready"
            /\ heightFile' = IF heightFile = None THEN 0 ELSE heightFile
    /\ UNCHANGED <<storeVars, storeCommit, programs, validatorsFile, torn, validators,
                   blockVars, faultVars>>

\* init_chain: a genesis record that is already known panics.
InitChain ==
    /\ pc = "ready"
    /\ IF known \cap GenesisRecords # {}
       THEN pc' = "panicked" /\ UNCHANGED <<recordBuffer, validators>>
       ELSE /\ recordBuffer' = recordBuffer \cup GenesisRecords
            /\ validators' = GenesisValidators
            /\ UNCHANGED pc
    /\ UNCHANGED <<dbRecords, dbSpent, spentBuffer, storeCommit, programs, fileVars,
                   blockVars, faultVars>>

----------------------------------------------------------------------------
(* Blocks.                                                                   *)

\* begin_block, with the votes that signed the last block.
BeginBlock(proposer, votes, height) ==
    /\ pc = "ready"
    /\ pc' = "block"
    /\ updatedValidators' = {}
    /\ currentHeight' = height
    /\ currentProposer' = proposer
    /\ currentVotes' = votes
    /\ fees' = BaselineReward
    /\ UNCHANGED <<storeVars, storeCommit, programs, fileVars, validators, faultVars>>

Spends(tx) == AllStored(RecordSerialNumbers(tx), spent)
Stores(tx) == Spends(tx) /\ AllStored(OutputRecords(tx), known)

\* deliver_tx of a transaction that passes the checks: update_validators,
\* spend_input_records, add_output_records and store_program, each only if the last
\* one succeeded.  A staking update may be valid by itself, as checked, but no longer
\* after those before it: apply panics then, and the memory is of no use to anyone.
DeliverTx(tx, doubt) ==
    LET updates == StakeUpdates(tx) IN
    /\ pc = "block"
    /\ Passes(tx, spent, programs, validators, doubt)
    /\ IF UpdatesPanic(validators, updates)
       THEN /\ pc' = "panicked"
            /\ UNCHANGED <<fees, validators, updatedValidators, spentBuffer,
                           recordBuffer, programs>>
       ELSE /\ fees' = fees + Fees(tx)
            /\ validators' = AfterUpdates(validators, updates)[Len(updates)]
            /\ updatedValidators' = updatedValidators \cup UpdatedBy(updates)
            /\ spentBuffer' = spentBuffer \cup StoredBefore(RecordSerialNumbers(tx), spent)
            /\ recordBuffer' = recordBuffer \cup
                    (IF Spends(tx) THEN StoredBefore(OutputRecords(tx), known) ELSE {})
            /\ programs' = IF tx.kind = "Deployment" /\ Stores(tx)
                           THEN programs \cup {tx.program} ELSE programs
            /\ UNCHANGED pc
    /\ UNCHANGED <<dbRecords, dbSpent, storeCommit, fileVars, currentProposer,
                   currentVotes, currentHeight, faultVars>>

\* A transaction that fails a check changes nothing.
RefuseTx(tx, doubt) ==
    /\ pc = "block"
    /\ ~Passes(tx, spent, programs, validators, doubt)
    /\ UNCHANGED appVars

\* Whether the answer to tx has code 0.
Accepted(tx, doubt) == Passes(tx, spent, programs, validators, doubt) /\ Stores(tx)

\* Slip against PowersMatchTendermint: validators without power are not reported.
PendingPowers ==
    [v \in {u \in updatedValidators : validators[u].power > 0} |-> validators[v].power]

\* end_block: the powers that it reports to Tendermint.
PendingUpdates == [v \in updatedValidators |-> validators[v].power]

EndBlock ==
    /\ pc = "block"
    /\ pc' = "ended"
    /\ UNCHANGED <<storeVars, storeCommit, programs, fileVars, validators, blockVars,
                   faultVars>>

----------------------------------------------------------------------------
(* commit, and the record store's worker.                                    *)

SendCommit ==
    /\ pc = "ended"
    /\ pc' = "commit"
    /\ storeCommit' = "queued"
    /\ UNCHANGED <<storeVars, programs, fileVars, validators, blockVars, faultVars>>

\* Slip against DecidedIsApplied and VerdictsFollowLedger: the height is not written.
CountNothing ==
    /\ pc = "commit"
    /\ pc' = "counted"
    /\ UNCHANGED <<storeVars, storeCommit, programs, fileVars, validators, blockVars,
                   faultVars>>

\* HeightFile::increment.
IncrementHeight ==
    /\ pc = "commit"
    /\ pc' = "counted"
    /\ heightFile' = heightFile + 1
    /\ UNCHANGED <<storeVars, storeCommit, programs, validatorsFile, torn, validators,
                   blockVars, faultVars>>

\* block_rewards expects the proposer and every voter to be known.
RewardsPanic == ~(DOMAIN currentVotes \cup {currentProposer} \subseteq DOMAIN validators)

\* The rewards are added to the record store; its answers come after its Commit.
AddRewards ==
    /\ pc = "counted"
    /\ IF RewardsPanic
       THEN pc' = "panicked" /\ UNCHANGED recordBuffer
       ELSE /\ storeCommit = "none"
            /\ pc' = "rewarded"
            /\ recordBuffer' = recordBuffer \cup
                    (RewardRecords(fees, currentVotes, currentProposer, currentHeight,
                                   validators) \ known)
    /\ UNCHANGED <<dbRecords, dbSpent, spentBuffer, storeCommit, programs, fileVars,
                   validators, blockVars, faultVars>>

\* Slip against RewardedAreKnown: validators without power are not saved.
SaveStaked ==
    /\ pc = "rewarded"
    /\ pc' = "ready"
    /\ validatorsFile' = [v \in {u \in DOMAIN validators : validators[u].power > 0} |->
                            validators[v]]
    /\ UNCHANGED <<storeVars, storeCommit, programs, heightFile, torn, validators,
                   blockVars, faultVars>>

SaveValidators ==
    /\ pc = "rewarded"
    /\ pc' = "ready"
    /\ validatorsFile' = validators
    /\ UNCHANGED <<storeVars, storeCommit, programs, heightFile, torn, validators,
                   blockVars, faultVars>>

StoreCommitRecords ==
    /\ storeCommit = "queued"
    /\ storeCommit' = "spent"
    /\ dbRecords' = dbRecords \cup recordBuffer
    /\ UNCHANGED <<dbSpent, recordBuffer, spentBuffer, programs, fileVars, validators,
                   blockVars, pc, faultVars>>

\* Slip against SpendsFollowLedger, NoDoubleSpend and PowerIsStakedAfterReplay: spends are
\* kept in memory only.
KeepSpent ==
    /\ storeCommit = "spent"
    /\ storeCommit' = "none"
    /\ UNCHANGED <<storeVars, programs, fileVars, validators, blockVars, pc, faultVars>>

StoreCommitSpent ==
    /\ storeCommit = "spent"
    /\ storeCommit' = "none"
    /\ dbSpent' = dbSpent \cup spentBuffer
    /\ spentBuffer' = {}
    /\ UNCHANGED <<dbRecords, recordBuffer, programs, fileVars, validators, blockVars,
                   pc, faultVars>>

----------------------------------------------------------------------------
\* The file that the next step writes.
BeingWritten ==
    {file \in {"height", "validators"} :
        IF file = "height" THEN pc = "commit" ELSE pc = "rewarded"}

\* The process dies.  std::fs::write truncates the file before it writes, so the
\* file being written may be left empty.
Crash ==
    /\ pc \in CrashPoints
    /\ crashes < MaxCrashes
    /\ crashes' = crashes + 1
    /\ pc' = "down"
    /\ cut' = IF pc \in {"commit", "counted", "rewarded"} THEN cut \cup {"commit"} ELSE cut
    /\ torn' \in {torn, torn \cup BeingWritten}
    /\ recordBuffer' = {} /\ spentBuffer' = {} /\ storeCommit' = "none"
    /\ validators' = <<>>
    /\ fees' = 0 /\ currentProposer' = None /\ currentVotes' = <<>>
    /\ currentHeight' = 0 /\ updatedValidators' = {}
    /\ UNCHANGED <<dbRecords, dbSpent, programs, heightFile, validatorsFile>>

\* Tendermint, a process of its own, dies between two calls and connects again: the
\* application keeps its memory, the buffers of an unfinished block included.
Reconnect ==
    /\ pc \in ReconnectPoints
    /\ crashes < MaxCrashes
    /\ crashes' = crashes + 1
    /\ pc' = "started"
    /\ cut' = IF pc = "ready" THEN cut ELSE cut \cup {"block"}
    /\ UNCHANGED <<storeVars, storeCommit, programs, fileVars, validators, blockVars>>
============================================================================
