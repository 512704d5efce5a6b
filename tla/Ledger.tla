------------------------------- MODULE Ledger --------------------------------
(***************************************************************************)
(* What decided blocks mean: each transaction applied as a whole or not at  *)
(* all, with no buffers, files or crashes.  It is the reference for Node    *)
(* and the chain that Client sees.  Its rules of validity are those of the  *)
(* application, and one that the comments on check_inputs_are_unspent and   *)
(* RecordStore::spend promise: inputs exist.  The application only looks    *)
(* for them among the spent ones.                                           *)
(***************************************************************************)
EXTENDS Validation

CONSTANTS
    GenesisRecords,     \* records of the genesis state
    GenesisValidators   \* validators of the genesis state

\* Tendermint's genesis file lists validators, and none without power.
ASSUME GenesisAssumption ==
    /\ DOMAIN GenesisValidators # {} /\ IsFiniteSet(DOMAIN GenesisValidators)
    /\ \A v \in DOMAIN GenesisValidators : GenesisValidators[v].power \in Nat \ {0}

ASSUME GenesisRecordsAssumption ==
    IsFiniteSet(GenesisRecords) /\ \A r \in GenesisRecords : r.gates \in Nat

GenesisLedger ==
    [known |-> GenesisRecords, spent |-> {}, programs |-> {CreditsProgram},
     validators |-> GenesisValidators, fees |-> 0, updated |-> {}, codes |-> <<>>,
     strays |-> {}]

\* The rules that the application has too.
Valid(l, tx, doubt) ==
    /\ Passes(tx, l.spent, l.programs, l.validators, doubt)
    /\ ~UpdatesPanic(l.validators, StakeUpdates(tx))
    /\ AllStored(RecordSerialNumbers(tx), l.spent)
    /\ AllStored(OutputRecords(tx), l.known)

\* Inputs that nobody made.
StrayInputs(l, tx) == ToSet(RecordSerialNumbers(tx)) \ l.known

Accepts(l, tx, doubt) == Valid(l, tx, doubt) /\ StrayInputs(l, tx) = {}

\* Field strays collects the inputs for which only the ledger refused a transaction.
LedgerTx(l, tx, doubt) ==
    IF Accepts(l, tx, doubt)
    THEN [l EXCEPT
            !.known = @ \cup ToSet(OutputRecords(tx)),
            !.spent = @ \cup ToSet(RecordSerialNumbers(tx)),
            !.programs = IF tx.kind = "Deployment" THEN @ \cup {tx.program} ELSE @,
            !.validators = AfterUpdates(@, StakeUpdates(tx))[Len(StakeUpdates(tx))],
            !.updated = @ \cup UpdatedBy(StakeUpdates(tx)),
            !.fees = @ + Fees(tx),
            !.codes = Append(@, TRUE)]
    ELSE [l EXCEPT
            !.codes = Append(@, FALSE),
            !.strays = IF Valid(l, tx, doubt) THEN @ \cup StrayInputs(l, tx) ELSE @]

\* The ledger after the first n of some transactions; doubts are the places of those
\* deployments for which the program store is in doubt.
LedgerAfter(l, txs, doubts) ==
    LET after[n \in 0..Len(txs)] ==
            IF n = 0 THEN l ELSE LedgerTx(after[n - 1], txs[n], n \in doubts)
    IN  after

LedgerBegin(l) == [l EXCEPT !.fees = BaselineReward, !.updated = {}, !.codes = <<>>]

\* After a block with strays the application has gone another way: what the chain does next
\* (who votes, for one) has no meaning here, and the ledger stands still.
LedgerBlock(l, b, h) ==
    LET ended == LedgerAfter(LedgerBegin(l), b.txs, b.doubts)[Len(b.txs)] IN
    IF l.strays # {} THEN l
    ELSE [ended EXCEPT !.known =
            @ \cup RewardRecords(ended.fees, b.votes, b.proposer, h, ended.validators)]
============================================================================
