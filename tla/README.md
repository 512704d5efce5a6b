# Verification of the Aleo/Tendermint node

This directory specifies the blockchain node of the repository in TLA+: an ABCI application
(`src/src/blockchain`) that a Tendermint process drives, with its stores, its validator set and
the transactions it executes, and the command-line client that builds them. TLC checks the modules
on small instances; TLAPS proves the safety properties of the stores, of the node and of the client
for every value of the constants.
`PROJECT.json` maps every definition to the lines it models and lists the runs, findings, hazards
and theorems.

## 1. The system

| Part | Source | State | Operations |
|---|---|---|---|
| Record store | `record_store.rs` | two RocksDB databases (records, spent serial numbers), two write buffers, a FIFO channel | add, spend, is_unspent, commit, scan, scan_spent |
| ABCI application | `application.rs` | the stores, the height file | info, init_chain, begin_block, deliver_tx, end_block, commit, check_tx, query |
| Validator set | `validator_set.rs`, `lib/validator.rs` | validators and powers, fees, votes, proposer and height of the block, updated addresses; the validators file | validate, apply, collect, pending_updates, block_rewards, begin_block, replace, commit |
| Transactions | `lib/transaction.rs` | none | serial numbers, outputs, fees, stake updates; building and hashing |
| Program store | `program_store.rs` | one database of programs, a FIFO channel | get, add, exists, load_credits |
| Credits program | `aleo/credits.aleo` | none | transfer, combine, split, fee, stake, unstake |
| VM interface | `lib/vm/*` | none | execution, verify_execution, verify_deployment, mint_record |
| Client | `client/*.rs` | a credentials file | commands, record listing, choice of a fee record, broadcast, get |
| Genesis, CLI, program files | `genesis.rs`, `main.rs`, `lib/*.rs` | files | offline tools |
| Tendermint | external process | blocks, saved answers, its state, validator sets | consensus, replay |

How the parts interact:

- Tendermint opens several connections, and the ABCI server gives each its thread. All threads
  share one `RecordStore` handle; each call puts a command on the channel of the store's worker
  and waits on a rendezvous channel for the answer. `commit` alone does not wait.
- The consensus connection makes the calls of a block in order. Only it writes. The mempool
  connection runs `check_tx`, the query connection scans the committed databases.
- `commit` sends Commit to the worker, increments the height file, adds the reward records and
  saves the validators file. Four durable places (two databases, two files) are written with no
  transaction across them, and Tendermint saves its own state after the answer.
- The client asks the node for records, spent serial numbers and programs, one query after the
  other, executes a function on the user's machine, and broadcasts the transaction, which
  `check_tx` judges by the state of the block under way.
- On a restart Tendermint asks for the height of the file and replays what is missing; the
  powers of block H take effect at H + 2.

What is hard: the asynchronous Commit, shared buffers, the steps between durable writes, replay
over what the first execution left, validation that precedes the effects it is about, validator
sets that lag by two blocks, a client whose answers age while it works. The hazards of
`PROJECT.json` list each at its line.

What makes each part correct:

- record store: a serial number is spent once and a commitment added once; answers are never
  stale; a call is answered; a commit becomes durable; seen from outside, calls are atomic;
- application: its state is the meaning of the decided blocks, also after a replay; a rejected
  transaction leaves no trace; no input makes it panic; decided blocks get applied;
- validator set: credits are conserved by rewards, power is backed by staked records, Tendermint
  and the application agree on the powers, those who are rewarded are known;
- client: what it lists is unspent, the fee it burns is the one asked for and comes from a record
  of its own, what it broadcast is applied or dropped for a reason, what it finds was applied.

## 2. Modules

| Module | What it is |
|---|---|
| `RecordStore` | worker, channel, buffers, databases; callers with permissions; failing database calls; crashes |
| `AtomicStore` | abstract store: atomic calls and commits, crashes lose what is staged |
| `RecordStoreRefinement` | the mapping under which `RecordStore` implements `AtomicStore` |
| `RecordStoreMC` | the three connections of the application as its callers, for both runs |
| `ProgramStore` | its worker and channel, start-up, the callers' ask-then-add protocol, failing calls, crashes |
| `Transaction` | records, programs and transactions, and what the node reads from them |
| `Execution` | the functions of credits.aleo, executing them, building transactions with a fee |
| `ValidatorSet` | validation and application of staking updates, rewards |
| `Validation` | the checks of check_tx and deliver_tx, spending and adding records |
| `Ledger` | a reference, not a translation: the meaning of blocks, each transaction whole or not at all |
| `Application` | the handlers as actions over the stores, files and block variables; crashes |
| `Node` | the application driven by Tendermint, the ledger as reference, the properties |
| `NodeMC` | a network of three accounts and up to three validators, and its transactions |
| `Client` | runs of the client beside a chain that follows the ledger |
| `ClientMC` | two runs of one account, one of another, and their command lines |
| `RecordStoreProofs`, `ProgramStoreProofs` | theorems about the stores, the refinement of the atomic one among them |
| `LedgerProofs` | lemmas on the operators of `Transaction`, `ValidatorSet` and `Ledger`, and on sums |
| `NodeProofs` | the node's types, files, rewards and panics; serial numbers are consumed once |
| `PowerProofs` | heights and voting powers of the two processes |
| `AgreementProofs` | the application does what the ledger says |
| `CreditProofs` | powers are staked, credits are conserved |
| `ClientProofs` | theorems about `Client` |

Each line extends the one above it where it needs to: `Transaction`, `Execution`, `Validation`
(with `ValidatorSet`), `Ledger`, and on top of it `Application` with `Node`, and `Client`.

**Record store.** One action per command: `HandleAdd`, `HandleSpend`, `HandleIsUnspent`,
`CommitRecords` and `CommitSpent` (the two batches of a Commit, with room for a crash between),
`HandleScanRecords`, `HandleScanSpent`. `Send` is a method of the handle; the calling thread is
blocked while its command is on the channel, and gets the answer in the worker's step (a
rendezvous channel adds nothing between the two, since the worker cannot go on before the thread
takes the answer). A failing read makes a key look present, as `key_exists_or_fails` does; a
failing write is logged, and the spent buffer is cleared anyway. Keys are independent, so one
serial number and two commitments show what many would. The histories `addAcks`, `spendAcks` and
`lost` count the answers Ok and the serial numbers of refused batches; no action reads them. After
a crash they forget what no database holds, since a spend that was never committed may be made
again, as in a replayed block.

**Program store.** Here the protocol of the callers matters more than the worker: `Add` takes a
failing read for an absent key, and `Exists` is RocksDB's `key_may_exist`, which never misses a
stored key and may report one that is absent (`MayExist`, external; not in an empty database,
where there is nothing to look through). `doing[t]` is where a thread stands in its calls:
`load_credits` and `deliver_tx` ask, then add; `check_tx` only asks. A deployment's other checks
may drop it in between (`RejectDeployment`). `lost` is a history of failed writes. The other
modules take from here what `exists` may answer: a deployment of a new program is judged with a
`doubt`, and refused when the store is in doubt (`MayExist` of `Validation`, external too).

**Application.** The consensus connection waits for every answer but that of Commit, so a handler
is one step over the stores; this is what the record store's refinement and `CommitIsBarrier`
justify. Commit stays a command of its own, with its two batches. `pc` is where the handler
stands, with a step per durable write of `commit`: `SendCommit`, `IncrementHeight`, `AddRewards`,
`SaveValidators`. `deliver_tx` is one action (`DeliverTx`, or `RefuseTx` when a check fails) with
its partial effects: spending or adding stops at the first failure and what was done stays.
Restarts forget memory; `cut` remembers whether one fell into a commit, or left a block in memory,
since what the code promises depends on that.

**Transactions.** A record is its content, which determines its commitment and its serial number; a
proof is a verdict. `Execution` runs a function the way the VM does: the types of the inputs, a
subtraction that may underflow, the outputs, the implicit fee as the difference of the gates. It
builds the transactions of `NodeMC` and of the client, so what the node is given is what the
client can make, but for the composed ones of the findings. The backend modelled is snarkVM's.
lambdaVM's makes the same checks, but its `execution` sets the fee of every transition to 0, so
with it (the default of the Makefile) fees are burnt and never collected, whatever
`src/README.md` says in its section on fees.

**Node.** Tendermint is modelled from what the application relies on: it decides any sequence of
transactions (a proposer need not have run `check_tx`), saves the block, makes the calls, saves
the answers at end_block and its state after commit. `consumed` is a history: the serial numbers
of the accepted transactions of earlier blocks. `Stopped` lets a bounded or a stopped run stutter.

**Ledger.** The record `ledger` of `Node` is the meaning of the decided blocks, with no buffers,
files or crashes. Its rules of validity are the application's and one more, that the inputs of a
transaction exist. The comments at `application.rs:330` and `record_store.rs:196` promise this;
the code only looks for the inputs among the spent ones. So a block may hold a transaction that
the application accepts and the ledger does not: a fee paid from a record that nobody made.
Clients send none (`TypeOK` of `Client`), but a proposer can. `strays` collects such inputs; from
the first one on the application has gone another way and the ledger stands still, and the
properties that compare the two say so (`InputsExisted`). The other thing that the ledger cannot
know is what the program store answers about a new program. `Decide` predicts it (`block.doubts`,
a prophecy that the application does not read but through `Doubt`), so ledger and application have
the same answers; after a crash a replay asks the store again and may get others, which is one
reason why deployments and crashes are apart in what is claimed.

**Client.** `pc[i]` is the request that run `i` makes next. A listing is two steps (`AskFirst`,
`AskSecond`), since they are two queries; `ChooseFeeRecord`, `GetProgram` and `Send` follow, with
blocks in between. The program that a run has is that of its file; `GetProgram` is about whether
the store has one. Executing uses nothing that changes, so it is part of `Send`. The chain below
is `Ledger` with what the client can tell apart: committed and staged state, mempool, index.
Record queries see the first, `check_tx` and the program store the second, since `deliver_tx`
writes programs through. `check_tx`, the recheck after a block and `deliver_tx` each ask the
program store about a deployment, and each may find it in doubt: a deployment can be dropped with
no rival, and a feeless one, which two runs build alike, can be sent again afterwards. Rewards are
left out of this chain: they are records that arrive. The nonces of the outputs that a run makes
are its own (`Nonces`, external: the VM derives them from the inputs and from randomness of the
machine).

## 3. Runs

| Run | Shows | Bounds |
|---|---|---|
| `RecordStore` | safety, freshness, barrier, liveness of the store | 2 commitments, 1 serial number, 3 threads, 1 pending Commit, 1 fault, 1 crash |
| `RecordStoreRefinement` | the worker implements the atomic store (`ImplementsAtomicStore`), with its fairness (`EffectsComeTrue`) | 2 commitments, pages of 1, 1 pending Commit, 1 crash, no fault, no torn commit |
| `ProgramStore` | programs are never replaced, credits.aleo is there, start-up completes | 2 programs of 2 versions, 4 threads, 2 faults, 2 crashes |
| `Node` | ledger, conservation, powers, atomic rejection; deployments that the program store refuses in doubt and inputs that nobody made are among its cases | 9 transactions, blocks of up to 2, 3 heights, 2 validators at genesis, products wrap, no crash |
| `NodeRestart` | replay and recovery | 3 transactions, blocks of up to 2, 3 heights, 2 crashes or restarts at any step |
| `Client` | listings, fees, races of commands with each other and with blocks | 3 runs, 2 accounts, 3 records, 16 command lines with any records of the account |
| `HalfApplied`, `CumulativeStakes`, `EqualRewards`, `LostRewards`, `CommitCrash`, `StakeAndUnstake` | where the code departs from what its documents say | the few transactions that the case needs |

The bounds suffice for the cases that matter. Three heights are what a validator needs to be
staked, to take part two blocks later and to be removed; two transactions in a block are needed
for one to depend on the other, and those that share an input (`UnstakeHalf` and `UnstakeAll`,
`StakeOther` and `Run`) meet both within a block and across blocks. One fault and one crash can
fall at each step. Two restarts allow a replay to be interrupted. One pending Commit per thread is
what the application has: after `commit` it waits for the answers of the rewards' Adds; the
theorems on the store are about any number. Named bounds: `MaxQueuedCommits`, `MaxFaults`,
`MaxCrashes`, `TornCommits`, `MaxTxs`, `MaxHeight`, `Proposers`, `CrashPoints`, `ReconnectPoints`,
`U64` (small in `Node`, so that the product of power and rewards wraps), and the sets of
transactions and of command lines.

The command lines of `Client` are chosen so that commands meet: two of one account share its
records; a payment's change or a stake's record is the input of the next command; two deploy one
program; two stake on one new validator; one stakes on a validator of another account, one asks
for more than a record holds, one names its fee record, one is a dry run, one executes a program
that may not be deployed yet; implicit fees are below, above and under zero. An execution that
`check_tx` accepted is dropped only for a rival (`DroppedForARival`); of deployments that is not
claimed, since `key_may_exist` may be in doubt at any time.

The transactions of `Node` avoid the six cases of the findings (each needs a transaction that
`Node` does not contain, a crash, or the pair Stake and UnstakeAll in a block, which halts
Tendermint there: `Node` explores that state and nothing follows it). What `Node` shows therefore
holds outside those cases. It does contain the inputs that nobody made: in the block [Deploy], or
with Run before Pay, the application accepts a fee from a record that does not exist. That makes
credits from nothing, against `src/README.md:468`, and `CreditsConserved` says so in its guard:
the unspent records and the fees are what was issued as long as every spent record is known (TLC
finds the property false without the guard). `NodeRestart` crashes and restarts at every step.
What the code promises then depends on where: it does not recover from a crash inside `commit`, as
`CommitCrash` shows, so most of its properties are about behaviours without one
(`"commit" \notin cut`); a Tendermint that restarts alone inside a block has its transactions judged by a state that
holds the effects of the first attempt, because its buffers remain. Those that were accepted are
refused now, as their inputs are spent. One that was refused can be accepted: in the block
[UnstakeHalf, Stake] the first attempt refuses the unstake, whose stake is still to come, and the
replay finds it in the powers and the buffer and accepts it. (Nothing in the node looks for the
record itself: see **Ledger** in section 2.) So verdicts, spends and reported powers are compared
with the ledger without such a restart (`cut = {}`), while that powers are backed by staked
records, that nothing is spent twice, rewards and the absence of panics hold through it.
`TornIsNoticed`, `HeightsAreClose` and `DecidedIsApplied` hold wherever the crash falls. Reward
records are excluded, since `LostRewards` shows that they do not survive. Deployments are left
out: the program store is written before the block commits, so a replayed one is refused.

**Fairness.** `FairSpec` of the store assumes that the worker runs (a thread in a loop over
`recv()`); callers need no fairness, save the program store's constructor, which runs to its end
before anything else; faults and crashes are bounded events, never required. `FairSpec` of the
node assumes that both processes go on, or are started again, while a call is pending; deciding a
block is never required. `Spec` of the client assumes that blocks are made while there are
transactions (WF of `Chain`), and nothing of clients, which may stop anywhere. Liveness properties
hold up to crashes (store) or up to a stop that another property reports (node).

**Findings.** `HalfApplied`: outputs that are taken fail a transaction after its spends.
`CumulativeStakes`: staking updates validated one by one, applied in sequence. `EqualRewards`: two
equal rewards of one account are one record. `LostRewards`: rewards wait in memory for the next
Commit. `CommitCrash`: the height is durable before the spends. `StakeAndUnstake`: power 0 for a
validator that Tendermint never had. The quotes are in `PROJECT.json`.

**Slips.** Each property names, near the definitions, a plausible slip in the code that it
catches (`SpentOnDisk`, `EnqueueUrgent`, `KeepSpent`, ...): such an operator stands before the
definition it varies and is used nowhere else.

## 4. Proofs

Each theorem has the form `Spec => []Inv`, or the same for an action property, and follows from an
inductive invariant (named with an `I` in the modules). TLC was used on the instances of section 3
to find out that these invariants hold before they were proved. Hypotheses other than the assumptions
below are named operators and stand in the statement of the theorem (`ASSUME ... PROVE`).

**Record store** (any keys, threads, permissions, bounds).

- `Typed`: the type invariant, one step per action. It needs that a received command is one of the
  kind that the handler serves (`HeadOfChannel`) and that answers have their types (`AnswerTypes`).
- `SpentOnce`: `NoDoubleSpend` is not inductive. `SpendsAccounted` says that an accepted spend is
  in the buffer, in the database or lost, and that what is counted is counted once; Spend checks
  buffer and database, Commit moves the one into the other before it clears it.
- `AddedOnce`: likewise with `AddsAccounted`; nothing is lost here, since the buffer is kept.
- `FreshAnswers`: an action property, from the same accounting: a serial number that was spent and
  not lost is in the buffer or the database, and the answer looks at both.
- `Barrier`: from `CallsComeLast`: the call that a thread waits for is behind all its Commits.
- `StoreIsAtomic`: without failing calls and torn commits (`MaxFaults = 0`, `~TornCommits`), each
  step maps to a step of `AtomicStore` or to a stutter (`AtomicStep`). A command is served when the
  worker receives it, and a Commit with its first batch; the calls that a thread has outstanding
  are those of the channel that are its own (`CallsOf`), so a send appends to one of these lists
  and a receipt takes the head of one (`CallsWhenSent`, `CallsWhenReceived`). The invariant
  `IAtomic` says that databases and buffers are finite, without which the keys of a page could not
  be counted (`PagesAreAtomic`), and that no answer is given between the batches. The hypotheses are
  where the code is not atomic: a refused batch drops spends, and a torn commit shows records
  without them.

**Program store** (any programs, versions, readers, numbers of faults and crashes). `Typed`,
`CreditsLoaded`, `ConstructorSucceeds` (which no run states: `failed` stays FALSE) and `Permanent`
(`NeverReplaced`) follow from `IInv`. A thread's place in its protocol matches its command on the
channel (`CallsMatch`), the constructor runs alone (`LoadsAlone`), what is on its way to be added is
absent from the database (`AddsAreNew`, the heart of it: one thread adds at a time, and it has asked),
what was asked for has a version (`AsksHaveVersions`), and credits.aleo is stored before any
thread calls (`CreditsComeFirst`), unless its write failed.

**Node** (any genesis, transactions, rewards, number of blocks and crashes). The invariants build on
each other, and each action is one step of each proof:

| Theorem | Invariant, and why the property needs it | Hypotheses |
|---|---|---|
| `Typed` | `ITypes`: the height is a number while the application serves, the file holds powers | |
| `TornNoticed` | `ITorn`: a truncated file belongs to a process that is down, or about to read it | |
| `RewardedKnown` | `IKnown`, `IFiles`: every validator that Tendermint has, at any of its three heights, is one that a start would find, since the file is saved before Tendermint applies the updates and validators are never removed | |
| `BlocksDoNotPanic` | `IPanics`; updates that are valid one by one can be applied in sequence when they are about different validators (`ValidInTurn`) | `TxsUpdateOnce` |
| `SpentOnceAfterReplay` | `ISpentBlock`: what blocks consumed that Tendermint counted is in the database, what the block under way consumed is in database or buffer, and no buffer is left when the validators are saved | |
| `SpentOnce` | the same, and no commit is ever cut off | `CommitsAreWhole` |
| `HeightsClose` | `IHeights`: the file counts a block inside `commit`, Tendermint after it, and decides the next one only then | |
| `PowersMatch` | `IPowersHold`: memory is Tendermint's powers with the updates of the block under way, the file is that after the last block | |
| `RejectedLeavesNothing` | `IFreshStores`: a transaction whose output is stored has an input that is spent, so one that passes the checks stores all its outputs | `NoncesAreUnique`, `CommitsAreWhole` |
| `VerdictsFollow` | `IFollows`: as long as no input was made by nobody, there is a ledger before the last block that disk holds, memory holds it with the transactions delivered so far, and `ledger` is the block, with its doubts, applied to it | `NoncesAreUnique`, `TxsUpdateOnce`, `ProgramsSurvive` |
| `StateFollows` | the same | `NoncesAreUnique`, `TxsUpdateOnce`, `MaxCrashes = 0` |
| `SpendsFollow` | the same | those of `VerdictsFollow` |
| `PowerStakedUnlessCut` | `IBacked`: the powers in memory are what the records in database and buffer hold less what is spent there, the powers in the file are that of the databases alone, and while a commit writes them neither is claimed of the disk | `NoncesAreUnique`, `StakesAreBacked`, `GenesisIsUnstaked` |
| `PowerStaked` | the same, and no commit is ever cut off | and `CommitsAreWhole` |
| `CreditsAreConserved` | `ICredits`: what is unspent, with the fees of the block under way, is what was minted up to the current height (counting spends of unknown records as debts, of which the property has none), and no record made since genesis has the nonce of a reward to come; `IVotes`: finitely many validators vote, each with power, so their shares add up | `NoncesAreUnique`, `TxsUpdateOnce`, `TxsBalance`, `GenesisRecords # {}`, `NothingIsLost`, `RewardsAreNew` always |

The theorems without hypotheses are about all behaviours, and what a crash inside `commit`
excludes is in the property (`"commit" \notin cut`). The hypotheses are the line between what the
code does and what the findings show: most are what one of them violates, and the theorems would be
false without it. `TxsUpdateOnce` (no transaction updates a validator twice) is broken in
`CumulativeStakes`; `NoncesAreUnique` (transactions with a common output have a common input, the
outputs of one differ, and none is a genesis record or has the nonce of a reward) in
`HalfApplied`; `CommitsAreWhole` (the process does not die between the steps of `commit`) in
`CommitCrash`; `MaxCrashes = 0` in `LostRewards`. `ProgramsSurvive` (no deployments, or no
crashes) is there because the program store is written through, and asked again in a replay.
`InputsExisted` and the guard of `CreditsConserved` are in the properties, not among the
hypotheses: they become false in the runs.

Powers and credits rest on what proofs show. `TxsBalance` says of transactions whose transitions
verify that each fee is the difference of the gates that go in and out, `StakesAreBacked` that each
staking update is the difference of what the records hold on its validator. `ProofsAreEnough` proves
both from `TransitionsAreExecuted`: a transition that verifies is what one of the functions computes
from some call (`ExecutedBalances`, function by function). Both say something that the node does not
check: nothing looks at which function the fee transition of a deployment calls, and no staking
update is read from it; `deployment` builds a fee there. The other hypotheses are about genesis,
which has records, none of them staked (`GenesisIsUnstaked`), about crashes (`NothingIsLost`: there
are none, or Tendermint alone restarts between two blocks; `LostRewards` is what happens otherwise),
and about rewards: `RewardsAreNew` is a condition on the behaviour, that no two rewards of a block
are the same record, which `EqualRewards` breaks, and that none is a genesis record. The nonce of a
reward is its height and that of the genesis records is 1234 (`genesis.rs:80`), so the last matters
in one block, at height 1234, if it rewards a genesis account with just the gates of its genesis
record. Heights may go past 1234: `NoncesAreUnique` is about the outputs of transactions only. That
the shares of the voters and the proposer's add up to the fees is proved for any powers, products
that wrap included (`RewardsAddUp`): a share that wraps is smaller, and the proposer gets the rest.

The transactions, crash points and reconnect points of the passing runs satisfy the hypotheses that
the same properties need, so no hypothesis is empty: `Node` those of `StateFollows`,
`RejectedLeavesNothing`, `PowerStaked` and `CreditsAreConserved` (TLC finds `RewardsAreNew` true in
all its states), `NodeRestart` those of `BlocksDoNotPanic`, `VerdictsFollow`, `SpendsFollow` and
`PowerStakedUnlessCut`.

**Client** (any runs, command lines, genesis). All its safety properties follow from one invariant
(`ClientInvariant`): `RunsOK`, per run, what its command and its listing may be at each place of
`pc`; `LedgersOK`, what is in the index was applied to the committed state, what was delivered to
the staged one, and no record bears a nonce of a run that has not sent; `MempoolOK`, what waits in
the mempool was sent, has new outputs, and, if it is an execution, is valid unless a rival was
delivered. The argument for `DroppedForRivals`: an execution is valid when it enters the mempool,
and no doubt of the program store changes that (`DoubtIsOfDeployments`); a block that does not contain
a rival keeps it valid (`ValidUntilRival`: nothing else spends its inputs or changes the validators
it stakes with); and a valid one is accepted (`ValidIsAccepted`), since its inputs are known, its
outputs are new, `BuiltOutputs` says that they carry the nonces of its run, and it has one staking
update at most (`BuiltStakes`). `FeesAreExact` and `FeesArePayable` rest on `BuiltParts`, what
`execute_fee` and the implicit fee add up to, and on the fee record being apart from the inputs.

**Lemmas.** `LedgerProofs` has what the proofs keep needing: the lists of a transaction are
concatenations of those of its transitions (`Flattened`, `TransactionLists`), an update changes
the power of one validator (`UpdatedValidators`, `UpdatedPowers`), sums of naturals are naturals
(`SumOfNaturals`), the ledger after a transaction (`LedgerTxAccepts`, `LedgerTxRejects`).
Recursion is in recursive functions, and what they compute at each index follows from `Induction`,
which is stated with sets: the library's induction theorem takes an operator, which the provers
cannot instantiate. The sums of credits are `Total(w, S)`, the library's sum over a function on a
finite set; that the order in which it takes the elements does not matter (`SumAnyOrder`), and
with it sums over unions, images and differences, is proved once and used for gates, fees and
rewards.

**Assumptions on the constants**, each checked by TLC in the runs of its module: the keys of a
store are numbers that stand for their byte order, `None` is no value, bounds are naturals,
permissions are a function; genesis has validators of positive power and records of natural gates
(`GenesisAssumption`, `GenesisRecordsAssumption`); rewards are naturals (`RewardAssumption`);
transactions are well-formed (`TxsAssumption`); a handler is not left half done by a restart of
Tendermint alone (`ReconnectAssumption`); amounts and fees of command lines are naturals, only
execute and deploy take a fee (`RequestAssumption`); the nonces of a run are not those of another,
nor of genesis (`SeedAssumption`).

**Only model-checked.** Liveness, which the prover does not reach: `CallsAreAnswered` and
`CommitsBecomeDurable` of the store and the fairness of its refinement (`EffectsComeTrue`),
`StartupCompletes`, `DecidedIsApplied`, `SentIsSettled`. Every other property of the passing runs
is a theorem, under the hypotheses above.

## 5. Not modelled

Proof systems and encodings of the VM, and the lambdaVM backend's zero fees; ciphertexts; parsing
of command lines, logging and responses; the conversion of validator keys to integers; the genesis
generator, program files and credentials, which are files written offline; widths other than those
of the reward products (the genesis amounts are chosen far below 2^63, and only rewards add to
them); several nodes (Tendermint replicates an application that it takes for deterministic: what
one node does with the blocks is what counts. That `key_may_exist` may answer two nodes
differently about one deployment shows in no property); files that cannot be written; a crash at
the write of the default height file (`application.rs:469`), which is a part of `Info`. `check_tx`
changes nothing: its checks are `Passes`, and its reads are the store's IsUnspent by the mempool
thread. In the client, `build` and `account new` only write a file; a user who names records of
transactions that are not committed yet is left out.

## 6. Plan

1. A run in which a deployment is replayed.
2. Two nodes that execute the same blocks, with the deployments that one of them refuses.
3. What does follow the ledger where Tendermint restarts inside a block: the spends, if the
   transactions of a block unstake only what earlier blocks staked.
4. The lambdaVM backend, whose fees are zero.
