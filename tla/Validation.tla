----------------------------- MODULE Validation ------------------------------
(***************************************************************************)
(* The checks that check_tx and deliver_tx make of a transaction            *)
(* (src/blockchain/application.rs, verify_deployment and verify_execution   *)
(* of the VM), over given spent serial numbers, programs and validators.    *)
(***************************************************************************)
EXTENDS Execution, ValidatorSet

\* Slip against StateFollowsLedger: the check is dropped.
CheckNothing(tx) == TRUE

CheckNoDuplicateRecords(tx) == IsInjective(RecordSerialNumbers(tx))

\* Slip against RejectedLeavesNoTrace: the check is left to spend_input_records.
CheckInputsLater(tx, spentSet) == TRUE

CheckInputsAreUnspent(tx, spentSet) == ToSet(RecordSerialNumbers(tx)) \cap spentSet = {}

\* There are keys, as many as functions, and in the same order.
VerifyDeployment(program) ==
    /\ program.keys # <<>>
    /\ Len(program.keys) = Len(program.functions)
    /\ \A i \in DOMAIN program.keys : program.keys[i] = program.functions[i]

\* A negative fee would create credits.
VerifyExecution(transition, program) ==
    /\ transition.fee >= 0
    /\ transition.function \in ToSet(program.keys)
    /\ transition.verified

VerifyTransition(transition, stored) ==
    \E program \in stored :
        program.id = transition.program /\ VerifyExecution(transition, program)

\* Slip against NeverPanics: the updates are only parsed.
StakeUpdatesParse(tx, set) == ~StakeUpdatesFail(tx)

StakeUpdatesAreValid(tx, set) ==
    /\ ~StakeUpdatesFail(tx)
    /\ \A i \in DOMAIN StakeUpdates(tx) : ValidUpdate(set, StakeUpdates(tx)[i])

\* ProgramStore::exists asks key_may_exist, which misses no program, but may be in doubt
\* about one that is absent (as ProgramStore models it).
MayExist(id, stored, doubt) == doubt \/ \E program \in stored : program.id = id

ValidateTransaction(tx, stored, set, doubt) ==
    /\ Verify(tx)
    /\ IF tx.kind = "Deployment"
       THEN /\ ~MayExist(tx.program.id, stored, doubt)
            /\ VerifyDeployment(tx.program)
       ELSE tx.transitions # <<>> /\ StakeUpdatesAreValid(tx, set)
    /\ \A i \in DOMAIN tx.transitions : VerifyTransition(tx.transitions[i], stored)

Passes(tx, spentSet, stored, set, doubt) ==
    /\ CheckNoDuplicateRecords(tx)
    /\ CheckInputsAreUnspent(tx, spentSet)
    /\ ValidateTransaction(tx, stored, set, doubt)

----------------------------------------------------------------------------
(* Spending and adding records.                                              *)

\* A sequence of them stops at the first record that is taken.
StoredBefore(records, taken) ==
    {records[i] : i \in {n \in DOMAIN records :
        \A m \in 1..n : records[m] \notin taken \cup {records[k] : k \in 1..(m - 1)}}}

AllStored(records, taken) == IsInjective(records) /\ ToSet(records) \cap taken = {}

\* A credits record for each rewarded validator, its nonce derived from the height.
RewardRecords(collected, votes, proposer, height, set) ==
    LET rewards == Rewards(collected, votes, proposer) IN
    {MintRecord(set[v].account, rewards[v], height) : v \in DOMAIN rewards}
============================================================================
