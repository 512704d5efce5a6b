-------------------------------- MODULE Node --------------------------------
(***************************************************************************)
(* A node: the application driven by its Tendermint process.                *)
(*                                                                          *)
(* Tendermint is external.  Modelled from how the application uses it: it   *)
(* decides blocks (of any transactions, a Byzantine proposer's included),   *)
(* saves a block before executing it, the answers before Commit, its own    *)
(* state after Commit; makes the calls of a block in order; on a (re)start  *)
(* asks the application for its height and replays the block it lacks; and  *)
(* lets the validator updates of block H take effect at H + 2.              *)
(*                                                                          *)
(* Beside the node runs the ledger: what the decided blocks mean, each      *)
(* transaction applied as a whole or not at all, with no buffers or crashes.*)
(***************************************************************************)
EXTENDS Application

CONSTANTS
    Txs,            \* the transactions that blocks are made of
    Proposers,      \* bound: the validators that propose blocks
    MaxTxs,         \* bound: transactions in a block
    MaxHeight       \* bound: blocks

ASSUME TxsAssumption == \A tx \in Txs : IsTransaction(tx)
ASSUME BoundsAssumption == MaxTxs \in Nat /\ MaxHeight \in Nat

VARIABLES
    connected,      \* the handshake is over
    height,         \* blocks decided and stored by Tendermint
    block,          \* the last of them: [txs, proposer, votes, doubts]
    codes,          \* answers to the transactions delivered so far (TRUE: code 0)
    results,        \* saved answers for the last block: [codes, updates], or None
    tmHeight,       \* the last height applied to Tendermint's state
    lastVals, curVals, nextVals,    \* powers at heights tmHeight, + 1 and + 2
    halted,         \* Tendermint refused the application's validator updates
    ledger,         \* meaning of the decided blocks
    consumed        \* serial numbers that accepted transactions of earlier blocks spend
                    \* (history)

tmVars == <<height, block, results, tmHeight, lastVals, curVals, nextVals, halted,
            consumed>>
vars == <<appVars, connected, codes, tmVars, ledger>>

GenesisPowers == [v \in DOMAIN GenesisValidators |-> GenesisValidators[v].power]

Init ==
    /\ AppInit
    /\ connected = FALSE
    /\ height = 0 /\ block = None /\ codes = <<>> /\ results = None
    /\ tmHeight = 0
    /\ lastVals = <<>> /\ curVals = GenesisPowers /\ nextVals = GenesisPowers
    /\ halted = FALSE
    /\ ledger = GenesisLedger
    /\ consumed = {}

----------------------------------------------------------------------------
(* Tendermint's calls.                                                       *)

Launch == ~connected /\ (Start \/ Info) /\ UNCHANGED <<connected, codes, tmVars, ledger>>

Handshake ==
    /\ ~connected
    /\ pc = "ready"
    /\ IF heightFile = 0 THEN InitChain ELSE UNCHANGED appVars
    /\ connected' = TRUE
    /\ UNCHANGED <<codes, tmVars, ledger>>

Idle == connected /\ pc = "ready" /\ ~halted

\* More than two thirds of the last validators' power signed the last block.
Commits ==
    IF height = 0 THEN {<<>>}
    ELSE {[v \in signers |-> lastVals[v]] : signers \in
            {s \in SUBSET DOMAIN lastVals :
                3 * SumFunctionOnSet(lastVals, s) > 2 * SumFunction(lastVals)}}

\* Doubts, for the ledger, predict which deployments the program store will take for stored
\* already when the block is executed (prophecy).
Decide ==
    /\ Idle
    /\ heightFile = height /\ tmHeight = height
    /\ height < MaxHeight
    /\ \E txs \in SeqOf(Txs, MaxTxs),
            proposer \in DOMAIN curVals \cap Proposers, votes \in Commits :
        \E doubts \in SUBSET {n \in DOMAIN txs : txs[n].kind = "Deployment"} :
        /\ block' = [txs |-> txs, proposer |-> proposer, votes |-> votes,
                     doubts |-> doubts]
        /\ ledger' = LedgerBlock(ledger, block', height + 1)
    /\ height' = height + 1
    /\ results' = None
    /\ UNCHANGED <<appVars, connected, codes, tmHeight, lastVals, curVals, nextVals,
                   halted, consumed>>

\* The first execution of the last block, or its replay.
Begin ==
    /\ Idle
    /\ heightFile < height
    /\ BeginBlock(block.proposer, block.votes, height)
    /\ codes' = <<>>
    /\ UNCHANGED <<connected, tmVars, ledger>>

\* What the program store answers about a new program; a replay asks it again.
Doubt == IF crashes = 0 THEN {Len(codes) + 1 \in block.doubts} ELSE BOOLEAN

Deliver ==
    LET tx == block.txs[Len(codes) + 1] IN
    /\ pc = "block"
    /\ Len(codes) < Len(block.txs)
    /\ \E doubt \in Doubt :
        /\ DeliverTx(tx, doubt) \/ RefuseTx(tx, doubt)
        /\ codes' = Append(codes, Accepted(tx, doubt))
    /\ UNCHANGED <<connected, tmVars, ledger>>

End ==
    /\ pc = "block"
    /\ Len(codes) = Len(block.txs)
    /\ EndBlock
    /\ results' = [codes |-> codes, updates |-> PendingUpdates]
    /\ UNCHANGED <<connected, height, block, codes, tmHeight, lastVals, curVals, nextVals,
                   halted, ledger, consumed>>

Commit ==
    /\ SendCommit \/ IncrementHeight \/ AddRewards \/ SaveValidators
    /\ UNCHANGED <<connected, codes, tmVars, ledger>>

StoreWorker ==
    /\ StoreCommitRecords \/ StoreCommitSpent
    /\ UNCHANGED <<connected, codes, tmVars, ledger>>

Updated(vals, updates) ==
    LET all == DOMAIN vals \cup DOMAIN updates IN
    [v \in {u \in all : u \in DOMAIN updates => updates[u] > 0} |->
        IF v \in DOMAIN updates THEN updates[v] ELSE vals[v]]

\* Tendermint cannot remove a validator that it does not have, nor the last one.
Refused(vals, updates) ==
    \/ \E v \in DOMAIN updates : updates[v] = 0 /\ v \notin DOMAIN vals
    \/ DOMAIN Updated(vals, updates) = {}

Serials(n) == ToSet(RecordSerialNumbers(block.txs[n]))

\* The state is saved last; after a crash, from the saved answers.
SaveState ==
    /\ Idle
    /\ heightFile = height /\ tmHeight < height
    /\ IF Refused(nextVals, results.updates)
       THEN halted' = TRUE /\ UNCHANGED <<tmHeight, lastVals, curVals, nextVals, consumed>>
       ELSE /\ tmHeight' = height
            /\ lastVals' = curVals /\ curVals' = nextVals
            /\ nextVals' = Updated(nextVals, results.updates)
            /\ consumed' = consumed \cup
                    UNION {Serials(n) :
                            n \in {i \in DOMAIN results.codes : results.codes[i]}}
            /\ UNCHANGED halted
    /\ UNCHANGED <<appVars, connected, height, block, codes, results, ledger>>

Fail ==
    /\ Crash \/ Reconnect
    /\ connected' = FALSE
    /\ UNCHANGED <<codes, tmVars, ledger>>

\* The bounded run is over, or the node stopped for good.
Stopped ==
    /\ \/ pc = "panicked" \/ halted
       \/ Idle /\ heightFile = MaxHeight /\ tmHeight = MaxHeight
    /\ UNCHANGED vars

Progress ==
    Launch \/ Handshake \/ Begin \/ Deliver \/ End \/ Commit \/ StoreWorker \/ SaveState

Next == Progress \/ Decide \/ Fail \/ Stopped

Spec == Init /\ [][Next]_vars

\* Both processes run, and are started again after a crash; deciding is not required.
FairSpec == Spec /\ WF_vars(Progress)

----------------------------------------------------------------------------
(* Properties.                                                               *)

CaughtUp == Idle /\ heightFile = height /\ tmHeight = height

Gates(records) == SumFunction([r \in records |-> r.gates])
Holdings(v) ==
    Gates({r \in known : r.validator = v}) - Gates({r \in spent : r.validator = v})

\* Every variable holds a value of its type; pending_updates finds each validator that
\* the block updated (replace does not reset them, begin_block does).
TypeOK ==
    /\ storeCommit \in {"none", "queued", "spent"}
    /\ heightFile \in Nat \cup {None}
    /\ torn \subseteq {"height", "validators"}
    /\ fees \in Nat /\ currentHeight \in Nat
    /\ \A v \in DOMAIN validators : validators[v].power \in Nat
    /\ pc \in {"block", "ended"} => updatedValidators \subseteq DOMAIN validators
    /\ pc \in PCs /\ crashes \in 0..MaxCrashes /\ cut \subseteq {"commit", "block"}
    /\ connected \in BOOLEAN /\ halted \in BOOLEAN
    /\ codes \in Seq(BOOLEAN)
    /\ height \in 0..MaxHeight /\ tmHeight \in 0..MaxHeight

\* No decided block spends a record that nobody made.  Clients do not (Client), but a
\* proposer may, and check_inputs_are_unspent lets such a transaction pass, against its
\* comment: from there on the application and the ledger go different ways.
InputsExisted == ledger.strays = {}

\* Once a block is applied, the databases with their buffers hold exactly the records,
\* spends and programs of the ledger, and the validator set its powers.
StateFollowsLedger ==
    CaughtUp /\ InputsExisted =>
                /\ known = ledger.known
                /\ spent = ledger.spent
                /\ programs = ledger.programs
                /\ validators = ledger.validators

\* As above but for the records, with crashes: block rewards wait in the buffer for the next
\* Commit and do not survive a restart.  It takes a crash inside commit to break this, or a
\* block that is replayed over the buffers of its first attempt: its transactions are judged
\* by a state that has the later ones, and to unstake what is staked further on in the block
\* is refused the first time and possible the second.
SpendsFollowLedger ==
    CaughtUp /\ cut = {} /\ InputsExisted =>
                /\ spent = ledger.spent
                /\ programs = ledger.programs
                /\ validators = ledger.validators

\* The answers that Tendermint saves for a block, whose hash goes into the next header,
\* are those of the ledger, also when the block was replayed after a crash.  (Replayed over
\* the buffers of its first attempt, it finds its own inputs spent.)
VerdictsFollowLedger ==
    results # None /\ cut = {} /\ InputsExisted => results.codes = ledger.codes

\* A serial number is consumed by one accepted transaction of the whole chain.
NoDoubleSpend ==
    pc \in {"block", "ended"} =>
        \A i \in DOMAIN codes : codes[i] =>
            /\ Serials(i) \cap consumed = {}
            /\ \A j \in 1..(i - 1) : codes[j] => Serials(i) \cap Serials(j) = {}

\* As above, unless a crash cut a commit off.
NoDoubleSpendAfterReplay == "commit" \notin cut => NoDoubleSpend

\* Credits come from genesis and from one baseline reward per block, and none vanish:
\* what is unspent, staked, or collected as fees for the block's rewards.  Not so once a
\* record was spent that nobody made (see InputsExisted): that makes credits from nothing.
CreditsConserved ==
    connected /\ spent \subseteq known =>
        Gates(known \ spent)
            + (IF pc \in {"block", "ended", "commit", "counted"} THEN fees ELSE 0)
        = Gates(GenesisRecords) + BaselineReward * currentHeight

\* Voting power gained since genesis is held in unspent staked credits.
PowerIsStaked ==
    connected => \A v \in DOMAIN validators :
        validators[v].power =
            (IF v \in DOMAIN GenesisValidators THEN GenesisValidators[v].power ELSE 0)
                + Holdings(v)

\* As above, unless a crash cut a commit off.  A block that is replayed over the buffers of
\* its first attempt stakes nothing twice.
PowerIsStakedAfterReplay == "commit" \notin cut => PowerIsStaked

\* The proposer and the voters of a block are known when its rewards are minted, although
\* they were chosen from validator sets two blocks old.
RewardedAreKnown ==
    pc \in {"block", "ended", "commit", "counted"} /\ "commit" \notin cut =>
        DOMAIN currentVotes \cup {currentProposer} \subseteq DOMAIN validators

\* The application and Tendermint agree on the powers that the blocks so far gave.
PowersMatchTendermint ==
    CaughtUp /\ cut = {} =>
        nextVals = [v \in {u \in DOMAIN validators : validators[u].power > 0} |->
                                validators[v].power]

\* A transaction answered with an error leaves no trace in the stores, the fees or the
\* validator set.
RejectedLeavesNoTrace ==
    [][Len(codes') > Len(codes) /\ ~codes'[Len(codes')] => UNCHANGED appVars]_vars

\* No block makes the application panic: each update that DeliverTx applies was validated,
\* the rewards of a block find their validators, and the files can be read.  The exception:
\* Tendermint alone restarts before the first block, and InitChain finds its records known.
NeverPanics ==
    pc = "panicked" /\ "commit" \notin cut => heightFile = 0 /\ crashes > 0

\* A file that a crash left truncated is never served from: the next start panics, as the
\* comments on the height file want it, instead of starting anew from nothing.
TornIsNoticed == torn # {} => pc \in {"down", "started", "panicked"}

\* The application is never ahead of the blocks that Tendermint stored, nor behind its
\* state, and at most one block lies between them: the handshake can replay from any crash.
HeightsAreClose ==
    heightFile # None => /\ tmHeight <= heightFile /\ heightFile <= height
                         /\ height <= tmHeight + 1

\* Tendermint accepts the validator updates of every block.
UpdatesAreAccepted == ~halted

\* Every decided block is applied in the end, crashes included, unless a process stopped.
DecidedIsApplied ==
    \A h \in 1..MaxHeight : height = h ~> (tmHeight >= h \/ halted \/ pc = "panicked")
============================================================================
