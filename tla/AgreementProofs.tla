--------------------------- MODULE AgreementProofs ----------------------------
(***************************************************************************)
(* Proofs that the application does what the decided blocks mean, which is  *)
(* what the ledger says: its stores, its validators and its answers.        *)
(***************************************************************************)
EXTENDS PowerProofs

\* No transition creates credits, which verify_execution checks.
Paying(tx) == \A i \in DOMAIN tx.transitions : tx.transitions[i].fee >= 0

\* The nonce of an output derives from the inputs of its transaction, except that a function
\* without record inputs gives the same outputs each time: see HalfApplied.  Two outputs of
\* a transaction differ, transactions with a common output have a common input, and none
\* makes the records of the genesis state or of the rewards, whose nonces are heights.
NoncesAreUnique ==
    \A tx \in Txs : Paying(tx) =>
        /\ IsInjective(OutputRecords(tx))
        /\ \A r \in Outputted(tx) :
            /\ r \notin GenesisRecords /\ r.seed \notin 0..MaxHeight
            /\ \A other \in Txs :
                    r \in Outputted(other) => Inputs(tx) \cap Inputs(other) # {}

\* A transaction with an output that is known has an input that is spent.
Fresh(records, serials) ==
    \A tx \in Txs : Paying(tx) =>
        (Outputted(tx) \cap records # {} => Inputs(tx) \cap serials # {})

\* In memory always, and on disk unless the worker is between the two databases.
IFreshStores ==
    /\ Fresh(known, spent)
    /\ storeCommit # "spent" => Fresh(dbRecords, dbSpent)
    /\ pc \notin {"commit", "counted"} => storeCommit = "none"
    /\ currentHeight \in 0..MaxHeight

IFresh == "commit" \notin cut => IFreshStores

\* A transaction that passes the checks stores all its outputs, as none of them is known.
LEMMA PassesStores ==
    ASSUME NoncesAreUnique, NEW tx \in Txs, NEW records, NEW serials, NEW stored, NEW set,
           NEW doubt, Fresh(records, serials), Passes(tx, serials, stored, set, doubt)
    PROVE  /\ Paying(tx)
           /\ AllStored(RecordSerialNumbers(tx), serials)
           /\ AllStored(OutputRecords(tx), records)
<1>1. Paying(tx)
    BY DEF Paying, Passes, ValidateTransaction, VerifyTransition, VerifyExecution
<1>2. IsInjective(RecordSerialNumbers(tx)) /\ Inputs(tx) \cap serials = {}
    BY DEF Passes, CheckNoDuplicateRecords, CheckInputsAreUnspent, Inputs
<1>3. IsInjective(OutputRecords(tx))
    BY <1>1 DEF NoncesAreUnique
<1>4. Outputted(tx) \cap records = {}
    BY <1>1, <1>2 DEF Fresh
<1>5. QED
    BY <1>1, <1>2, <1>3, <1>4 DEF AllStored, Inputs, Outputted

\* The outputs of a transaction are stored after its inputs.
LEMMA FreshAfter ==
    ASSUME NoncesAreUnique, NEW tx \in Txs, Paying(tx), NEW records, NEW serials,
           Fresh(records, serials)
    PROVE  Fresh(records \cup Outputted(tx), serials \cup Inputs(tx))
<1> SUFFICES ASSUME NEW other \in Txs, Paying(other),
                    NEW r \in Outputted(other) \cap (records \cup Outputted(tx))
             PROVE  Inputs(other) \cap (serials \cup Inputs(tx)) # {}
    BY DEF Fresh
<1>1. CASE r \in records
    BY <1>1 DEF Fresh
<1>2. CASE r \in Outputted(tx)
    BY <1>2 DEF NoncesAreUnique
<1>3. QED
    BY <1>1, <1>2

\* Neither genesis nor rewards make a record that a transaction makes.
LEMMA FreshOthers ==
    ASSUME NoncesAreUnique, NEW records, NEW serials, NEW others, Fresh(records, serials),
           \A r \in others : r \in GenesisRecords \/ r.seed \in 0..MaxHeight
    PROVE  Fresh(records \cup others, serials)
    BY DEF Fresh, NoncesAreUnique

\* The nonce of a reward is its height.
LEMMA RewardSeeds ==
    ASSUME NEW collected, NEW votes, NEW proposer, NEW h, NEW set,
           NEW r \in RewardRecords(collected, votes, proposer, h, set)
    PROVE  r.seed = h
    BY DEF RewardRecords, MintRecord

\* What a transaction leaves in the stores when it is delivered.
LEMMA DeliverStores ==
    ASSUME NoncesAreUnique, NEW tx \in Txs, NEW doubt,
           DeliverTx(tx, doubt) \/ RefuseTx(tx, doubt), Fresh(known, spent)
    PROVE  /\ Accepted(tx, doubt) <=> Passes(tx, spent, programs, validators, doubt)
           /\ pc' # "panicked" /\ Accepted(tx, doubt) =>
                /\ spent' = spent \cup Inputs(tx)
                /\ known' = known \cup Outputted(tx)
                /\ programs' = IF tx.kind = "Deployment" THEN programs \cup {tx.program}
                               ELSE programs
           /\ ~Accepted(tx, doubt) => UNCHANGED appVars
           /\ UNCHANGED <<dbRecords, dbSpent, storeCommit>>
<1>1. DeliverTx(tx, doubt) \/ RefuseTx(tx, doubt)
    OBVIOUS
<1>2. IsList(RecordSerialNumbers(tx)) /\ IsList(OutputRecords(tx))
    BY TxsAssumption, TransactionLists
<1>3. Passes(tx, spent, programs, validators, doubt) => Spends(tx) /\ Stores(tx)
    BY PassesStores DEF Spends, Stores
<1>4. Accepted(tx, doubt) <=> Passes(tx, spent, programs, validators, doubt)
    BY <1>3 DEF Accepted
<1>5. ASSUME pc' # "panicked", Accepted(tx, doubt)
      PROVE  /\ spent' = spent \cup Inputs(tx)
             /\ known' = known \cup Outputted(tx)
             /\ programs' = IF tx.kind = "Deployment" THEN programs \cup {tx.program}
                            ELSE programs
    <2>1. /\ spentBuffer' = spentBuffer \cup StoredBefore(RecordSerialNumbers(tx), spent)
          /\ recordBuffer' = recordBuffer \cup
                (IF Spends(tx) THEN StoredBefore(OutputRecords(tx), known) ELSE {})
          /\ programs' = IF tx.kind = "Deployment" /\ Stores(tx)
                         THEN programs \cup {tx.program} ELSE programs
          /\ UNCHANGED <<dbRecords, dbSpent>>
        BY <1>1, <1>4, <1>5 DEF DeliverTx, RefuseTx
    <2>2. StoredBefore(RecordSerialNumbers(tx), spent) = Inputs(tx)
        BY <1>2, <1>3, <1>4, <1>5, AllAreStored DEF Spends, Inputs
    <2>3. StoredBefore(OutputRecords(tx), known) = Outputted(tx)
        BY <1>2, <1>3, <1>4, <1>5, AllAreStored DEF Stores, Outputted
    <2>4. QED
        BY <1>3, <1>4, <1>5, <2>1, <2>2, <2>3 DEF spent, known
<1>6. ~Accepted(tx, doubt) => UNCHANGED appVars
    BY <1>1, <1>4 DEF DeliverTx, RefuseTx
<1>7. UNCHANGED <<dbRecords, dbSpent, storeCommit>>
    BY <1>1 DEF DeliverTx, RefuseTx, appVars, storeVars
<1>8. QED
    BY <1>4, <1>5, <1>6, <1>7

LEMMA InitFresh == Init => IFresh
    BY BoundsAssumption DEF Init, AppInit, IFresh, IFreshStores, Fresh, known, spent

LEMMA NextFresh ==
    ASSUME NoncesAreUnique
    PROVE  ITypes /\ IRewarded /\ IFresh /\ [Next]_vars => IFresh'
<1> SUFFICES ASSUME ITypes, IRewarded, IFresh, [Next]_vars, "commit" \notin cut'
             PROVE  IFreshStores'
    BY DEF IFresh
<1>1. "commit" \notin cut
    BY CutGrows
<1>2. IFreshStores /\ IKnown /\ IFiles
    BY <1>1 DEF IFresh, IRewarded
<1>3. pc \in PCs /\ storeCommit \in {"none", "queued", "spent"} /\ height \in 0..MaxHeight
    BY DEF ITypes, TypeOK
<1> USE DEF IFreshStores, PCs
<1>4. ASSUME UNCHANGED <<storeVars, storeCommit, currentHeight>>,
             pc' \notin {"commit", "counted"} => storeCommit = "none"
      PROVE  IFreshStores'
    BY <1>2, <1>4 DEF storeVars, known, spent
<1>5. CASE UNCHANGED vars
    BY <1>2, <1>4, <1>5 DEF vars, appVars, blockVars
<1>6. CASE Launch
    <2>1. UNCHANGED <<storeVars, storeCommit, currentHeight>> /\ pc \in {"down", "started"}
        BY <1>6 DEF Launch, Start, Info, blockVars
    <2>2. QED
        BY <1>2, <1>4, <2>1
<1>7. CASE Handshake
    <2>1. CASE recordBuffer' = recordBuffer \cup GenesisRecords
        <3>1. /\ UNCHANGED <<dbRecords, dbSpent, spentBuffer, storeCommit, currentHeight>>
              /\ pc = "ready" /\ pc' \in {"ready", "panicked"}
            BY <1>7 DEF Handshake, InitChain, appVars, storeVars, blockVars
        <3>2. Fresh(known \cup GenesisRecords, spent)
            BY <1>2, FreshOthers
        <3>3. known' = known \cup GenesisRecords /\ spent' = spent
            BY <2>1, <3>1 DEF known, spent
        <3>4. QED
            BY <1>2, <3>1, <3>2, <3>3
    <2>2. CASE recordBuffer' = recordBuffer
        <3>1. UNCHANGED <<storeVars, storeCommit, currentHeight>> /\ pc = "ready"
            BY <1>7, <2>2 DEF Handshake, InitChain, appVars, storeVars, blockVars
        <3>2. QED
            BY <1>2, <1>4, <3>1
    <2>3. QED
        BY <1>7, <2>1, <2>2 DEF Handshake, InitChain, appVars, storeVars
<1>8. CASE Begin
    <2>1. /\ UNCHANGED <<storeVars, storeCommit>> /\ pc = "ready" /\ pc' = "block"
          /\ currentHeight' = height
        BY <1>8 DEF Begin, BeginBlock
    <2>2. QED
        BY <1>2, <1>3, <2>1 DEF storeVars, known, spent
<1>9. CASE Deliver
    <2> PICK tx \in Txs, doubt \in Doubt : DeliverTx(tx, doubt) \/ RefuseTx(tx, doubt)
        BY <1>9, DeliveredIsTx
    <2>1. /\ pc = "block" /\ pc' \in {"block", "panicked"}
          /\ currentHeight' = currentHeight
        BY DEF DeliverTx, RefuseTx, appVars, blockVars
    <2>2. /\ Accepted(tx, doubt) <=> Passes(tx, spent, programs, validators, doubt)
          /\ pc' # "panicked" /\ Accepted(tx, doubt) =>
                spent' = spent \cup Inputs(tx) /\ known' = known \cup Outputted(tx)
          /\ ~Accepted(tx, doubt) => UNCHANGED appVars
          /\ UNCHANGED <<dbRecords, dbSpent, storeCommit>>
        BY <1>2, DeliverStores
    <2>3. CASE ~Accepted(tx, doubt)
        BY <1>2, <1>4, <2>1, <2>2, <2>3 DEF appVars
    <2>4. CASE pc' # "panicked" /\ Accepted(tx, doubt)
        <3>1. Paying(tx)
            BY <1>2, <2>1, <2>2, <2>4, PassesStores
        <3>2. Fresh(known \cup Outputted(tx), spent \cup Inputs(tx))
            BY <1>2, <2>1, <3>1, FreshAfter
        <3>3. QED
            BY <1>2, <2>1, <2>2, <2>4, <3>2
    <2>5. CASE pc' = "panicked" /\ Accepted(tx, doubt)
        <3>1. UNCHANGED storeVars
            BY <2>1, <2>2, <2>5 DEF DeliverTx, RefuseTx, appVars, storeVars
        <3>2. QED
            BY <1>2, <1>4, <2>1, <2>2, <3>1
    <2>6. QED
        BY <2>3, <2>4, <2>5
<1>10. CASE End
    <2>1. UNCHANGED <<storeVars, storeCommit, currentHeight>> /\ pc = "block"
        BY <1>10 DEF End, EndBlock, blockVars
    <2>2. QED
        BY <1>2, <1>4, <2>1
<1>11. CASE SendCommit
    <2>1. /\ UNCHANGED <<storeVars, currentHeight>> /\ pc = "ended" /\ pc' = "commit"
          /\ storeCommit' = "queued"
        BY <1>11 DEF SendCommit, blockVars
    <2>2. QED
        BY <1>2, <2>1 DEF storeVars, known, spent
<1>12. CASE IncrementHeight \/ SaveValidators
    <2>1. /\ UNCHANGED <<storeVars, storeCommit, currentHeight>>
          /\ pc' = "counted" \/ pc = "rewarded"
        BY <1>12 DEF IncrementHeight, SaveValidators, blockVars
    <2>2. QED
        BY <1>2, <1>4, <2>1
<1>13. CASE AddRewards
    <2>1. /\ UNCHANGED <<dbRecords, dbSpent, spentBuffer, storeCommit, currentHeight>>
          /\ pc = "counted"
        BY <1>13 DEF AddRewards, blockVars
    <2>2. ~RewardsPanic
        BY <1>2, <2>1 DEF RewardsPanic, IKnown, IFiles
    <2> DEFINE rewards == RewardRecords(fees, currentVotes, currentProposer, currentHeight,
                                        validators)
    <2>3. \A r \in rewards : r.seed \in 0..MaxHeight
        BY <1>2, RewardSeeds
    <2>4. /\ storeCommit = "none" /\ pc' = "rewarded"
          /\ recordBuffer' = recordBuffer \cup (rewards \ known)
        BY <1>13, <2>2 DEF AddRewards
    <2> HIDE DEF rewards
    <2>5. Fresh(known \cup (rewards \ known), spent)
        BY <1>2, <2>3, FreshOthers
    <2>6. known' = known \cup (rewards \ known) /\ spent' = spent
        BY <2>1, <2>4 DEF known, spent
    <2>7. QED
        BY <1>2, <2>1, <2>4, <2>5, <2>6
<1>14. CASE StoreCommitRecords
    <2>1. /\ UNCHANGED <<dbSpent, recordBuffer, spentBuffer, currentHeight, pc>>
          /\ storeCommit = "queued" /\ storeCommit' = "spent"
          /\ dbRecords' = dbRecords \cup recordBuffer
        BY <1>14 DEF StoreCommitRecords, blockVars
    <2>2. known' = known /\ spent' = spent
        BY <2>1 DEF known, spent
    <2>3. QED
        BY <1>2, <2>1, <2>2
<1>15. CASE StoreCommitSpent
    <2>1. /\ UNCHANGED <<dbRecords, recordBuffer, currentHeight, pc>>
          /\ storeCommit = "spent" /\ storeCommit' = "none"
          /\ dbSpent' = dbSpent \cup spentBuffer /\ spentBuffer' = {}
        BY <1>15 DEF StoreCommitSpent, blockVars
    <2>2. known' = known /\ spent' = spent /\ dbSpent' = spent
        BY <2>1 DEF known, spent
    <2>3. dbRecords' \subseteq known
        BY <2>1 DEF known
    <2>4. Fresh(dbRecords', spent)
        BY <1>2, <2>3 DEF Fresh
    <2>5. QED
        BY <1>2, <2>1, <2>2, <2>4
<1>16. CASE SaveState \/ Decide
    <2>1. UNCHANGED <<storeVars, storeCommit, currentHeight, pc>>
        BY <1>16 DEF SaveState, Decide, appVars, blockVars
    <2>2. QED
        BY <1>2, <1>4, <2>1
<1>17. CASE Crash
    <2>1. /\ recordBuffer' = {} /\ spentBuffer' = {} /\ storeCommit' = "none"
          /\ currentHeight' = 0 /\ pc' = "down" /\ pc \notin {"commit", "counted"}
          /\ UNCHANGED <<dbRecords, dbSpent>>
        BY <1>17 DEF Crash
    <2>2. known' = dbRecords /\ spent' = dbSpent
        BY <2>1 DEF known, spent
    <2>3. QED
        BY <1>2, <2>1, <2>2, BoundsAssumption
<1>18. CASE Reconnect
    <2>1. /\ UNCHANGED <<storeVars, storeCommit, currentHeight>>
          /\ pc \notin {"commit", "counted"}
        BY <1>18, ReconnectAssumption DEF Reconnect, blockVars
    <2>2. QED
        BY <1>2, <1>4, <2>1
<1>19. QED
    BY <1>5, <1>6, <1>7, <1>8, <1>9, <1>10, <1>11, <1>12, <1>13, <1>14, <1>15, <1>16, <1>17,
       <1>18
    DEF Next, Progress, Commit, StoreWorker, Fail, Stopped

\* A transaction that deliver_tx answers with an error leaves no trace, as long as records
\* are unique and no commit is cut off: the checks find every reason to refuse it before
\* anything is stored.  Without unique records add_output_records fails half-way: see
\* HalfApplied.
THEOREM RejectedLeavesNothing ==
    ASSUME NoncesAreUnique, CommitsAreWhole
    PROVE  Spec => RejectedLeavesNoTrace
<1>1. ITypes /\ NoCommitCut /\ IFresh /\ [Next]_vars =>
        [Len(codes') > Len(codes) /\ ~codes'[Len(codes')] => UNCHANGED appVars]_vars
    <2> SUFFICES ASSUME ITypes, NoCommitCut, IFresh, [Next]_vars,
                        Len(codes') > Len(codes), ~codes'[Len(codes')]
                 PROVE  UNCHANGED appVars
        OBVIOUS
    <2>1. codes \in Seq(BOOLEAN)
        BY DEF ITypes, TypeOK
    <2>2. codes' # codes
        BY <2>1
    <2>3. codes' # <<>>
        BY <2>1
    <2>4. Deliver
        BY <2>2, <2>3
        DEF Next, Progress, Launch, Handshake, Begin, End, Commit, StoreWorker, SaveState,
            Decide, Fail, Stopped, vars
    <2> DEFINE tx == block.txs[Len(codes) + 1]
    <2> PICK doubt \in Doubt :
            /\ DeliverTx(tx, doubt) \/ RefuseTx(tx, doubt)
            /\ codes' = Append(codes, Accepted(tx, doubt))
        BY <2>4, DeliveredIsTx
    <2>5. ~Accepted(tx, doubt) => UNCHANGED appVars
        <3>1. tx \in Txs /\ Fresh(known, spent)
            BY <2>4, DeliveredIsTx DEF IFresh, IFreshStores, NoCommitCut
        <3> HIDE DEF tx
        <3>2. QED
            BY <3>1, DeliverStores
    <2>6. codes' = Append(codes, Accepted(tx, doubt)) /\ Accepted(tx, doubt) \in BOOLEAN
        BY DEF Accepted
    <2> HIDE DEF tx
    <2>7. codes'[Len(codes')] = Accepted(tx, doubt)
        <3> DEFINE answer == Accepted(tx, doubt)
        <3> HIDE DEF answer
        <3>1. QED
            BY <2>1, <2>6 DEF answer
    <2>8. QED
        BY <2>5, <2>7
<1>2. ITypes /\ IRewarded /\ IFresh /\ [Next]_vars => IFresh'
    BY NextFresh
<1>3. Spec => []NoCommitCut
    BY NothingIsCut
<1>4. QED
    BY <1>1, <1>2, <1>3, InitTypes, NextTypes, InitRewarded, NextRewarded, InitFresh, PTL
    DEF Spec, RejectedLeavesNoTrace

----------------------------------------------------------------------------
(* The ledger.                                                               *)

\* The transactions of a block are applied one after the other.
LEMMA LedgerSteps ==
    ASSUME NEW l, NEW txs, NEW doubts, Len(txs) \in Nat
    PROVE  LET after == LedgerAfter(l, txs, doubts) IN
           /\ after[0] = l
           /\ \A n \in 1..Len(txs) : after[n] = LedgerTx(after[n - 1], txs[n], n \in doubts)
<1> DEFINE Step(g, n) == IF n = 0 THEN l ELSE LedgerTx(g[n - 1], txs[n], n \in doubts)
           Is(g, m) == g = [n \in 0..m |-> Step(g, n)]
           P == {m \in Nat : \E g : Is(g, m)}
           after == LedgerAfter(l, txs, doubts)
<1>1. 0 \in P
    <2>1. Is([n \in 0..0 |-> l], 0)
        OBVIOUS
    <2>2. QED
        BY <2>1
<1>2. ASSUME NEW m \in Nat, m \in P PROVE m + 1 \in P
    <2>1. PICK g : Is(g, m)
        BY <1>2
    <2> DEFINE h == [n \in 0..(m + 1) |-> 
                IF n <= m THEN g[n] ELSE LedgerTx(g[m], txs[n], n \in doubts)]
    <2>2. ASSUME NEW n \in 0..(m + 1) PROVE h[n] = Step(h, n)
        <3>1. CASE n = 0
            BY <2>1, <3>1
        <3>2. CASE n # 0 /\ n <= m
            <4>1. n \in 0..m /\ n - 1 \in 0..m /\ n - 1 \in 0..(m + 1)
                BY <3>2
            <4>2. h[n] = g[n] /\ h[n - 1] = g[n - 1]
                BY <4>1
            <4>3. g[n] = LedgerTx(g[n - 1], txs[n], n \in doubts)
                BY <2>1, <3>2, <4>1
            <4>4. QED
                BY <3>2, <4>2, <4>3
        <3>3. CASE n = m + 1
            <4>1. h[m] = g[m] /\ h[n] = LedgerTx(g[m], txs[n], n \in doubts)
                BY <3>3
            <4>2. n # 0 /\ n - 1 = m
                BY <3>3
            <4>3. QED
                BY <4>1, <4>2
        <3>4. QED
            BY <3>1, <3>2, <3>3
    <2>3. h = [n \in 0..(m + 1) |-> Step(h, n)]
        BY <2>2, Zenon
    <2> HIDE DEF h
    <2>4. QED
        BY <2>3
<1>3. \E g : Is(g, Len(txs))
    <2>1. Nat \subseteq P
        <3> HIDE DEF P
        <3>1. QED
            BY <1>1, <1>2, Induction
    <2>2. QED
        BY <2>1
<1>4. Is(after, Len(txs))
    <2> DEFINE Q(g) == Is(g, Len(txs))
    <2>1. \E g : Q(g)
        BY <1>3
    <2> HIDE DEF Q
    <2>2. Q(CHOOSE g : Q(g))
        BY <2>1
    <2>3. QED
        BY <2>2 DEF Q, LedgerAfter
<1> HIDE DEF after
<1>5. QED
    BY <1>4 DEF after

\* Staking updates that pass the checks can be applied.
LEMMA PassesUpdates ==
    ASSUME TxsUpdateOnce, NEW tx \in Txs, NEW serials, NEW stored, NEW set, NEW doubt,
           Passes(tx, serials, stored, set, doubt)
    PROVE  ~UpdatesPanic(set, StakeUpdates(tx))
<1> DEFINE updates == StakeUpdates(tx)
<1>1. IsList(updates) /\ EachValidatorOnce(updates)
    BY TxsAssumption, TransactionLists DEF TxsUpdateOnce
<1>2. \A n \in DOMAIN updates : ValidUpdate(set, updates[n])
    <2>1. CASE tx.kind = "Deployment"
        <3>1. updates = <<>>
            BY <2>1 DEF StakeUpdates
        <3>2. QED
            BY <3>1
    <2>2. CASE tx.kind # "Deployment"
        BY <2>2 DEF Passes, ValidateTransaction, StakeUpdatesAreValid
    <2>3. QED
        BY <2>1, <2>2
<1> HIDE DEF updates
<1>3. ~UpdatesPanic(set, updates)
    BY <1>1, <1>2, ValidInTurn
<1>4. QED
    BY <1>3 DEF updates

\* What passes the checks is valid for the ledger.
LEMMA PassesIsValid ==
    ASSUME NoncesAreUnique, TxsUpdateOnce, NEW tx \in Txs, NEW l, NEW doubt,
           Fresh(l.known, l.spent)
    PROVE  Valid(l, tx, doubt) <=> Passes(tx, l.spent, l.programs, l.validators, doubt)
<1>1. ASSUME Passes(tx, l.spent, l.programs, l.validators, doubt)
      PROVE  Valid(l, tx, doubt)
    <2>1. ~UpdatesPanic(l.validators, StakeUpdates(tx))
        BY <1>1, PassesUpdates
    <2>2. /\ AllStored(RecordSerialNumbers(tx), l.spent)
          /\ AllStored(OutputRecords(tx), l.known)
        BY <1>1, PassesStores
    <2>3. QED
        BY <1>1, <2>1, <2>2 DEF Valid
<1>2. QED
    BY <1>1 DEF Valid

\* begin_block starts from the last ledger, with the baseline reward.
LEMMA LedgerBeginFields ==
    ASSUME NEW l, IsLedger(l)
    PROVE  LET begun == LedgerBegin(l) IN
           /\ IsLedger(begun)
           /\ begun.known = l.known /\ begun.spent = l.spent
           /\ begun.programs = l.programs /\ begun.validators = l.validators
           /\ begun.fees = BaselineReward /\ begun.codes = <<>>
           /\ begun.strays = l.strays
<1> DEFINE begun == LedgerBegin(l)
<1>1. begun = [l EXCEPT !.fees = BaselineReward, !.updated = {}, !.codes = <<>>]
    BY Zenon DEF LedgerBegin
<1> HIDE DEF begun
<1>2. QED
    BY <1>1 DEF IsLedger, begun

\* What stays of a ledger in a block: its outputs are new and its programs deployed, and
\* only a deployment adds one.
GoodLedger(l) ==
    IsLedger(l) /\ Fresh(l.known, l.spent) /\ CreditsProgram \in l.programs

LEMMA LedgerKeeps ==
    ASSUME NoncesAreUnique, NEW l, GoodLedger(l), NEW txs \in Seq(Txs), NEW doubts
    PROVE  LET after == LedgerAfter(LedgerBegin(l), txs, doubts) IN
           \A n \in 0..Len(txs) :
               /\ GoodLedger(after[n])
               /\ (\A tx \in Txs : tx.kind # "Deployment") =>
                    after[n].programs = l.programs
<1> DEFINE begun == LedgerBegin(l)
           after == LedgerAfter(begun, txs, doubts)
           Keeps(k) == GoodLedger(k)
                /\ ((\A tx \in Txs : tx.kind # "Deployment") => k.programs = l.programs)
           P == {n \in Nat : n \in 0..Len(txs) => Keeps(after[n])}
<1>1. Len(txs) \in Nat /\ \A n \in 1..Len(txs) : txs[n] \in Txs
    OBVIOUS
<1>2. /\ after[0] = begun
      /\ \A n \in 1..Len(txs) : after[n] = LedgerTx(after[n - 1], txs[n], n \in doubts)
    BY <1>1, LedgerSteps
<1>3. Keeps(begun)
    BY LedgerBeginFields DEF GoodLedger
<1>4. ASSUME NEW k, Keeps(k), NEW tx \in Txs, NEW doubt
      PROVE  Keeps(LedgerTx(k, tx, doubt))
    <2> DEFINE next == LedgerTx(k, tx, doubt)
    <2>1. IsLedger(k) /\ Fresh(k.known, k.spent) /\ CreditsProgram \in k.programs
        BY <1>4 DEF GoodLedger
    <2>2. /\ IsLedger(next)
          /\ Accepts(k, tx, doubt) =>
                /\ next.known = k.known \cup Outputted(tx)
                /\ next.spent = k.spent \cup Inputs(tx)
                /\ next.programs = IF tx.kind = "Deployment"
                                   THEN k.programs \cup {tx.program} ELSE k.programs
          /\ ~Accepts(k, tx, doubt) =>
                /\ next.known = k.known /\ next.spent = k.spent
                /\ next.programs = k.programs
        <3>1. CASE Accepts(k, tx, doubt)
            <4>1. /\ IsLedger(next)
                  /\ next.known = k.known \cup Outputted(tx)
                  /\ next.spent = k.spent \cup Inputs(tx)
                  /\ next.programs = IF tx.kind = "Deployment"
                                     THEN k.programs \cup {tx.program} ELSE k.programs
                  /\ next.validators =
                        AfterUpdates(k.validators, StakeUpdates(tx))[Len(StakeUpdates(tx))]
                  /\ next.fees = k.fees + Fees(tx)
                  /\ next.codes = Append(k.codes, TRUE)
                BY <2>1, <3>1, LedgerTxAccepts
            <4> HIDE DEF next
            <4>2. QED
                BY <3>1, <4>1
        <3>2. CASE ~Accepts(k, tx, doubt)
            <4>1. /\ IsLedger(next)
                  /\ next.known = k.known
                  /\ next.spent = k.spent
                  /\ next.programs = k.programs
                  /\ next.validators = k.validators
                  /\ next.fees = k.fees
                  /\ next.codes = Append(k.codes, FALSE)
                BY <2>1, <3>2, LedgerTxRejects
            <4> HIDE DEF next
            <4>2. QED
                BY <3>2, <4>1
        <3> HIDE DEF next
        <3>3. QED
            BY <3>1, <3>2
    <2> HIDE DEF next
    <2>3. Fresh(next.known, next.spent)
        <3>1. CASE Accepts(k, tx, doubt)
            <4>1. Paying(tx)
                BY <2>1, <3>1, PassesStores DEF Accepts, Valid
            <4>2. QED
                BY <2>1, <2>2, <3>1, <4>1, FreshAfter
        <3>2. CASE ~Accepts(k, tx, doubt)
            BY <2>1, <2>2, <3>2
        <3>3. QED
            BY <3>1, <3>2
    <2>4. QED
        BY <1>4, <2>1, <2>2, <2>3 DEF GoodLedger, next
<1> HIDE DEF begun, after, Keeps
<1>5. 0 \in P
    BY <1>2, <1>3
<1>6. ASSUME NEW n \in Nat, n \in P PROVE n + 1 \in P
    BY <1>1, <1>2, <1>4, <1>6
<1>7. Nat \subseteq P
    <2> HIDE DEF P
    <2>1. QED
        BY <1>5, <1>6, Induction
<1>8. QED
    BY <1>1, <1>7 DEF after, begun, Keeps

\* A stray input of one transaction is one of the block.
LEMMA StraysStay ==
    ASSUME NoncesAreUnique, NEW l, GoodLedger(l), NEW txs \in Seq(Txs), NEW doubts
    PROVE  LET after == LedgerAfter(LedgerBegin(l), txs, doubts) IN
           \A n \in 0..Len(txs) : after[n].strays \subseteq after[Len(txs)].strays
<1> DEFINE after == LedgerAfter(LedgerBegin(l), txs, doubts)
           P == {n \in Nat : n \in 0..Len(txs) =>
                    \A m \in 0..n : after[m].strays \subseteq after[n].strays}
<1>1. Len(txs) \in Nat /\ \A n \in 1..Len(txs) : txs[n] \in Txs
    OBVIOUS
<1>2. \A n \in 1..Len(txs) : after[n] = LedgerTx(after[n - 1], txs[n], n \in doubts)
    BY <1>1, LedgerSteps
<1>3. \A n \in 0..Len(txs) : IsLedger(after[n])
    BY LedgerKeeps DEF GoodLedger
<1>4. ASSUME NEW k, IsLedger(k), NEW tx, NEW doubt
      PROVE  k.strays \subseteq LedgerTx(k, tx, doubt).strays
    BY <1>4, LedgerTxStrays
<1> HIDE DEF after
<1>5. 0 \in P
    OBVIOUS
<1>6. ASSUME NEW n \in Nat, n \in P PROVE n + 1 \in P
    <2> SUFFICES ASSUME n + 1 \in 0..Len(txs), NEW m \in 0..(n + 1)
                 PROVE  after[m].strays \subseteq after[n + 1].strays
        OBVIOUS
    <2>1. n \in 0..Len(txs) /\ n + 1 \in 1..Len(txs) /\ (n + 1) - 1 = n
        BY <1>1
    <2>2. after[n + 1] = LedgerTx(after[n], txs[n + 1], n + 1 \in doubts)
        BY <1>2, <2>1
    <2>3. IsLedger(after[n])
        BY <1>3, <2>1
    <2>4. after[n].strays \subseteq after[n + 1].strays
        BY <1>4, <2>2, <2>3
    <2>5. m = n + 1 \/ after[m].strays \subseteq after[n].strays
        BY <1>6, <2>1
    <2>6. QED
        BY <2>4, <2>5
<1>7. Nat \subseteq P
    <2> HIDE DEF P
    <2>1. QED
        BY <1>5, <1>6, Induction
<1>8. QED
    BY <1>1, <1>7 DEF after

\* The ledger that a block leaves is the one after its transactions, with the rewards.
LEMMA LedgerBlockFields ==
    ASSUME NoncesAreUnique, NEW l, GoodLedger(l), l.strays = {}, NEW b, b.txs \in Seq(Txs),
           NEW h \in 0..MaxHeight
    PROVE  LET ended == LedgerAfter(LedgerBegin(l), b.txs, b.doubts)[Len(b.txs)]
               next == LedgerBlock(l, b, h) IN
           /\ GoodLedger(next)
           /\ next.known = ended.known \cup
                    RewardRecords(ended.fees, b.votes, b.proposer, h, ended.validators)
           /\ next.spent = ended.spent /\ next.programs = ended.programs
           /\ next.validators = ended.validators /\ next.codes = ended.codes
           /\ next.strays = ended.strays
<1> DEFINE txs == b.txs
           ended == LedgerAfter(LedgerBegin(l), txs, b.doubts)[Len(txs)]
           rewards == RewardRecords(ended.fees, b.votes, b.proposer, h, ended.validators)
           next == LedgerBlock(l, b, h)
<1>1. Len(txs) \in 0..Len(txs)
    OBVIOUS
<1>2. GoodLedger(ended)
    <2> HIDE DEF txs
    <2>1. txs \in Seq(Txs)
        BY DEF txs
    <2>2. QED
        BY <1>1, <2>1, LedgerKeeps
<1>3. next = [ended EXCEPT !.known = @ \cup rewards]
    BY Zenon DEF LedgerBlock
<1>4. \A r \in rewards : r.seed \in 0..MaxHeight
    BY RewardSeeds
<1> HIDE DEF ended, rewards, next
<1>5. /\ IsLedger(next) /\ next.known = ended.known \cup rewards
      /\ next.spent = ended.spent /\ next.programs = ended.programs
      /\ next.validators = ended.validators /\ next.codes = ended.codes
      /\ next.strays = ended.strays
    BY <1>2, <1>3 DEF GoodLedger, IsLedger
<1>6. Fresh(ended.known \cup rewards, ended.spent)
    BY <1>2, <1>4, FreshOthers DEF GoodLedger
<1>7. GoodLedger(next)
    BY <1>2, <1>5, <1>6 DEF GoodLedger
<1>8. QED
    BY <1>5, <1>7 DEF next, ended, rewards, txs

----------------------------------------------------------------------------
(* The node follows the ledger.                                              *)

\* A program stays deployed when its block is executed again, and is refused then.
ProgramsSurvive ==
    MaxCrashes = 0 \/ \A tx \in Txs : tx.kind # "Deployment"

\* The ledger in the middle of the last block, when the ledger was l before it.
During(l, n) == LedgerAfter(LedgerBegin(l), block.txs, block.doubts)[n]

\* The ledger whose state is on disk, when it was l before the last block.
OnDisk(l) ==
    IF heightFile = height /\ pc \notin {"counted", "rewarded"} THEN ledger ELSE l

\* How the files, the database of spent records and the saved answers correspond to the
\* ledger, when it was l before the last block.
FollowsDisk(l) ==
    /\ GoodLedger(l) /\ l.strays = {} /\ GoodLedger(ledger)
    /\ tmHeight < height => ledger = LedgerBlock(l, block, height)
    /\ heightFile = None \/ (~connected /\ crashes = 0) =>
            height = 0 /\ l = GenesisLedger /\ ledger = GenesisLedger
    /\ DurableSet = OnDisk(l).validators
    /\ pc \notin {"commit", "counted", "rewarded"} => dbSpent = OnDisk(l).spent
    /\ results # None => results.codes = ledger.codes

\* The memory between two blocks.  Rewards that wait in the buffer are lost in a crash: the
\* known records correspond only as long as there was none.
FollowsIdle(l) ==
    /\ pc \in {"down", "started", "ready"} => spentBuffer = {}
    /\ pc \in {"down", "panicked"} =>
            programs \cup {CreditsProgram} = OnDisk(l).programs
    /\ pc \in {"started", "ready"} =>
            /\ programs = OnDisk(l).programs
            /\ connected \/ Saved => validators = DurableSet
    /\ pc = "ready" /\ connected /\ crashes = 0 => known = OnDisk(l).known

\* The memory in a block: what the answers so far mean.
FollowsBlock(l) ==
    LET now == During(l, Len(codes)) IN
    /\ pc \in {"block", "ended", "commit", "counted", "rewarded"} =>
            /\ validators = now.validators /\ spent = now.spent
            /\ programs = now.programs /\ fees = now.fees /\ codes = now.codes
            /\ currentVotes = block.votes /\ currentProposer = block.proposer
            /\ currentHeight = height
            /\ Len(codes) <= Len(block.txs)
    /\ pc \in {"block", "ended", "commit", "counted"} /\ crashes = 0 => known = now.known
    /\ pc \in {"ended", "commit", "counted", "rewarded"} => Len(codes) = Len(block.txs)
    /\ pc = "rewarded" /\ crashes = 0 => known = ledger.known

FollowsFrom(l) == FollowsDisk(l) /\ FollowsIdle(l) /\ FollowsBlock(l)

IFollows == cut = {} /\ InputsExisted => \E l : FollowsFrom(l)

\* The program store is asked again only if there is no deployment to ask about: its answer
\* is the one that the ledger knows, or does not matter.
LEMMA DoubtIsKnown ==
    ASSUME ProgramsSurvive, ITypes, NEW doubt \in Doubt, NEW tx \in Txs,
           NEW serials, NEW stored, NEW set
    PROVE  Passes(tx, serials, stored, set, doubt) <=>
                Passes(tx, serials, stored, set, Len(codes) + 1 \in block.doubts)
<1>1. CASE crashes = 0
    <2>1. doubt = (Len(codes) + 1 \in block.doubts)
        BY <1>1 DEF Doubt
    <2>2. QED
        BY <2>1
<1>2. CASE crashes # 0
    <2>1. crashes \in 0..MaxCrashes
        BY DEF ITypes, TypeOK
    <2>2. MaxCrashes # 0
        BY <1>2, <2>1, CrashesAssumption
    <2>3. tx.kind # "Deployment"
        BY <2>2 DEF ProgramsSurvive
    <2>4. QED
        BY <2>3 DEF Passes, ValidateTransaction
<1>3. QED
    BY <1>1, <1>2

\* The next answer is the ledger's, and the stores change as it does.
LEMMA DuringDeliver ==
    ASSUME NoncesAreUnique, TxsUpdateOnce, ProgramsSurvive, ITypes, Fresh(known, spent),
           Deliver, NEW l, GoodLedger(l), FollowsBlock(l),
           During(l, Len(block.txs)).strays = {}
    PROVE  FollowsBlock(l)'
<1> DEFINE n == Len(codes)
           tx == block.txs[n + 1]
           updates == StakeUpdates(tx)
           now == During(l, n)
           next == During(l, n + 1)
           foretold == n + 1 \in block.doubts
<1>1. /\ pc = "block" /\ n \in Nat /\ n + 1 \in DOMAIN block.txs /\ tx \in Txs
    BY DeliveredIsTx
<1> PICK doubt \in Doubt :
        /\ DeliverTx(tx, doubt) \/ RefuseTx(tx, doubt)
        /\ codes' = Append(codes, Accepted(tx, doubt))
    BY DeliveredIsTx
<1>2. block.txs \in Seq(Txs) /\ codes \in Seq(BOOLEAN)
    BY <1>1, DeliveredIsTx DEF ITypes, TypeOK
<1>3. Len(block.txs) \in Nat /\ n + 1 \in 1..Len(block.txs) /\ n \in 0..Len(block.txs)
    BY <1>1, <1>2
<1>4. next = LedgerTx(now, tx, foretold)
    <2>1. (n + 1) - 1 = n
        BY <1>1
    <2> DEFINE after == LedgerAfter(LedgerBegin(l), block.txs, block.doubts)
               m == n + 1
    <2>2. \A k \in 1..Len(block.txs) :
            after[k] = LedgerTx(after[k - 1], block.txs[k], k \in block.doubts)
        BY <1>3, LedgerSteps
    <2>3. m \in 1..Len(block.txs) /\ m - 1 = n
        BY <1>3, <2>1
    <2> HIDE DEF m, after
    <2>4. after[m] = LedgerTx(after[m - 1], block.txs[m], m \in block.doubts)
        BY <2>2, <2>3
    <2>5. after[m] = LedgerTx(after[n], block.txs[m], m \in block.doubts)
        BY <2>3, <2>4
    <2>6. QED
        BY <2>5 DEF m, after, During
<1>5. GoodLedger(now)
    BY <1>2, <1>3, LedgerKeeps DEF During
<1>6. /\ validators = now.validators /\ spent = now.spent
      /\ programs = now.programs /\ fees = now.fees /\ codes = now.codes
      /\ currentVotes = block.votes /\ currentProposer = block.proposer
      /\ currentHeight = height
      /\ crashes = 0 => known = now.known
    BY <1>1 DEF FollowsBlock
<1>7. /\ Accepted(tx, doubt) <=> Passes(tx, spent, programs, validators, doubt)
      /\ pc' # "panicked" /\ Accepted(tx, doubt) =>
            /\ spent' = spent \cup Inputs(tx)
            /\ known' = known \cup Outputted(tx)
            /\ programs' = IF tx.kind = "Deployment" THEN programs \cup {tx.program}
                           ELSE programs
      /\ ~Accepted(tx, doubt) => UNCHANGED appVars
    <2> HIDE DEF tx
    <2>1. QED
        BY <1>1, DeliverStores
<1>8. pc' = "block"
    BY DeliverDoesNotPanic
<1>9. Accepts(now, tx, foretold) <=> Accepted(tx, doubt)
    <2>1. Fresh(now.known, now.spent) /\ IsLedger(now)
        BY <1>5 DEF GoodLedger
    <2>2. next.strays = {}
        BY <1>2, <1>3, StraysStay DEF During
    <2>3. Passes(tx, spent, programs, validators, doubt) <=>
            Passes(tx, spent, programs, validators, foretold)
        <3> HIDE DEF tx
        <3>1. QED
            BY <1>1, DoubtIsKnown
    <2> HIDE DEF now, tx, next, foretold
    <2>4. Valid(now, tx, foretold) <=>
            Passes(tx, now.spent, now.programs, now.validators, foretold)
        BY <1>1, <2>1, PassesIsValid
    <2>5. Valid(now, tx, foretold) => Accepts(now, tx, foretold)
        <3> SUFFICES ASSUME Valid(now, tx, foretold), ~Accepts(now, tx, foretold)
                     PROVE  FALSE
            OBVIOUS
        <3>1. next.strays = now.strays \cup StrayInputs(now, tx)
            BY <1>4, <2>1, LedgerTxStrays
        <3>2. StrayInputs(now, tx) # {}
            BY DEF Accepts
        <3>3. QED
            BY <2>2, <3>1, <3>2
    <2>6. Accepts(now, tx, foretold) => Valid(now, tx, foretold)
        BY DEF Accepts
    <2>7. QED
        BY <1>6, <1>7, <2>3, <2>4, <2>5, <2>6
<1>10. /\ codes' = Append(codes, Accepted(tx, doubt)) /\ Accepted(tx, doubt) \in BOOLEAN
       /\ UNCHANGED <<tmVars, connected>>
    BY DEF Deliver, Accepted
<1>11. UNCHANGED <<currentVotes, currentProposer, currentHeight, crashes>>
    BY DEF DeliverTx, RefuseTx, appVars, blockVars, faultVars
<1>12. Len(codes') = n + 1
    <2> DEFINE answer == Accepted(tx, doubt)
    <2> HIDE DEF answer
    <2>1. QED
        BY <1>2, <1>10 DEF answer
<1>13. During(l, Len(codes))' = next
    BY <1>10, <1>12 DEF During, tmVars
<1>14. /\ Accepts(now, tx, foretold) =>
                /\ next.known = now.known \cup Outputted(tx)
                /\ next.spent = now.spent \cup Inputs(tx)
                /\ next.programs = IF tx.kind = "Deployment"
                                   THEN now.programs \cup {tx.program} ELSE now.programs
                /\ next.validators = AfterUpdates(now.validators, updates)[Len(updates)]
                /\ next.fees = now.fees + Fees(tx)
                /\ next.codes = Append(now.codes, TRUE)
       /\ ~Accepts(now, tx, foretold) =>
                /\ next.known = now.known
                /\ next.spent = now.spent
                /\ next.programs = now.programs
                /\ next.validators = now.validators
                /\ next.fees = now.fees
                /\ next.codes = Append(now.codes, FALSE)
    <2>1. IsLedger(now)
        BY <1>5 DEF GoodLedger
    <2>2. next = LedgerTx(now, tx, foretold)
        BY <1>4
    <2> HIDE DEF now, tx, next, foretold
    <2> DEFINE moved == LedgerTx(now, tx, foretold)
    <2>3. CASE Accepts(now, tx, foretold)
        <3>1. /\ IsLedger(moved)
              /\ moved.known = now.known \cup Outputted(tx)
              /\ moved.spent = now.spent \cup Inputs(tx)
              /\ moved.programs = IF tx.kind = "Deployment"
                                  THEN now.programs \cup {tx.program} ELSE now.programs
              /\ moved.validators =
                    AfterUpdates(now.validators, StakeUpdates(tx))[Len(StakeUpdates(tx))]
              /\ moved.fees = now.fees + Fees(tx)
              /\ moved.codes = Append(now.codes, TRUE)
            BY <2>1, <2>3, LedgerTxAccepts
        <3>2. next = moved
            BY <2>2
        <3> HIDE DEF moved
        <3>3. QED
            BY <2>3, <3>1, <3>2 DEF updates
    <2>4. CASE ~Accepts(now, tx, foretold)
        <3>1. /\ IsLedger(moved)
              /\ moved.known = now.known
              /\ moved.spent = now.spent
              /\ moved.programs = now.programs
              /\ moved.validators = now.validators
              /\ moved.fees = now.fees
              /\ moved.codes = Append(now.codes, FALSE)
            BY <2>1, <2>4, LedgerTxRejects
        <3>2. next = moved
            BY <2>2
        <3> HIDE DEF moved
        <3>3. QED
            BY <2>4, <3>1, <3>2
    <2>5. QED
        BY <2>3, <2>4
<1>15. Accepted(tx, doubt) =>
            /\ validators' = AfterUpdates(validators, updates)[Len(updates)]
            /\ fees' = fees + Fees(tx)
    BY <1>1, <1>7, <1>8 DEF DeliverTx, RefuseTx
<1> HIDE DEF tx, updates, now, next, foretold
<1>16. /\ validators' = next.validators /\ spent' = next.spent
       /\ programs' = next.programs /\ fees' = next.fees /\ codes' = next.codes
       /\ crashes = 0 => known' = next.known
    <2>1. CASE Accepted(tx, doubt)
        <3>1. codes' = Append(codes, TRUE)
            <4>1. Accepted(tx, doubt) = TRUE
                BY <1>10, <2>1
            <4>2. QED
                BY <1>10, <4>1
        <3>2. QED
            BY <1>6, <1>7, <1>8, <1>9, <1>14, <1>15, <2>1, <3>1
    <2>2. CASE ~Accepted(tx, doubt)
        <3>1. codes' = Append(codes, FALSE)
            <4>1. Accepted(tx, doubt) = FALSE
                BY <1>10, <2>2
            <4>2. QED
                BY <1>10, <4>1
        <3>2. UNCHANGED <<validators, spent, programs, fees, known>>
            BY <1>7, <2>2 DEF appVars, storeVars, blockVars, spent, known
        <3>3. QED
            BY <1>6, <1>9, <1>14, <2>2, <3>1, <3>2
    <2>3. QED
        BY <2>1, <2>2
<1>17. Len(codes') <= Len(block'.txs) /\ UNCHANGED <<block, height>>
    BY <1>3, <1>10, <1>12 DEF tmVars
<1>18. QED
    BY <1>6, <1>8, <1>11, <1>13, <1>16, <1>17 DEF FollowsBlock

LEMMA InitFollows ==
    ASSUME NoncesAreUnique
    PROVE  Init => IFollows
<1> SUFFICES ASSUME Init PROVE FollowsFrom(GenesisLedger)
    BY DEF IFollows
<1>1. ~Saved
    <2>1. DOMAIN <<>> = {}
        OBVIOUS
    <2>2. QED
        BY <2>1 DEF Init, AppInit, Saved
<1>2. GoodLedger(GenesisLedger)
    BY DEF GoodLedger, GenesisLedger, IsLedger, Fresh, NoncesAreUnique
<1>3. /\ GenesisLedger.validators = GenesisValidators /\ GenesisLedger.spent = {}
      /\ GenesisLedger.programs = {CreditsProgram} /\ GenesisLedger.strays = {}
    BY DEF GenesisLedger
<1>4. OnDisk(GenesisLedger) = GenesisLedger
    BY DEF Init, OnDisk
<1>5. FollowsDisk(GenesisLedger)
    BY <1>1, <1>2, <1>3, <1>4 DEF Init, AppInit, FollowsDisk, DurableSet
<1>6. FollowsIdle(GenesisLedger)
    BY <1>1, <1>3, <1>4 DEF Init, AppInit, FollowsIdle
<1>7. FollowsBlock(GenesisLedger)
    BY DEF Init, AppInit, FollowsBlock
<1>8. QED
    BY <1>5, <1>6, <1>7 DEF FollowsFrom

\* Actions that leave the blocks and the disk alone.
LEMMA DiskStays ==
    ASSUME NEW l, FollowsDisk(l),
           UNCHANGED <<heightFile, validatorsFile, height, block, results, tmHeight,
                       ledger>>,
           pc \in {"counted", "rewarded"} <=> pc' \in {"counted", "rewarded"},
           pc' \notin {"commit", "counted", "rewarded"} =>
                pc \notin {"commit", "counted", "rewarded"} /\ dbSpent' = dbSpent,
           ~connected' /\ crashes' = 0 => ~connected /\ crashes = 0
    PROVE  /\ FollowsDisk(l)'
           /\ OnDisk(l)' = OnDisk(l) /\ DurableSet' = DurableSet /\ Saved' = Saved
<1>1. Saved' = Saved /\ DurableSet' = DurableSet
    BY DEF Saved, DurableSet
<1>2. OnDisk(l)' = OnDisk(l)
    BY DEF OnDisk
<1>3. GoodLedger(l)' /\ GoodLedger(ledger)'
    BY DEF FollowsDisk
<1>4. QED
    BY <1>1, <1>2, <1>3 DEF FollowsDisk

LEMMA NextFollows ==
    ASSUME NoncesAreUnique, TxsUpdateOnce, ProgramsSurvive
    PROVE  ITypes /\ IRewarded /\ IHeights /\ IPanics /\ ISpent /\ IFresh /\ IFollows
                /\ [Next]_vars => IFollows'
<1> SUFFICES ASSUME ITypes, IRewarded, IHeights, IPanics, ISpent, IFresh, IFollows,
                    [Next]_vars, cut' = {}, InputsExisted'
             PROVE  \E l : FollowsFrom(l)'
    BY DEF IFollows
<1>0. height \in 0..MaxHeight
    BY DEF ITypes, TypeOK
<1>1. cut = {} /\ InputsExisted
    <2>1. CASE ledger' = ledger
        BY <2>1, CutGrows DEF InputsExisted
    <2>2. CASE Decide
        <3>1. PICK b : ledger' = LedgerBlock(ledger, b, height + 1)
            BY <2>2 DEF Decide
        <3>2. ledger.strays # {} => ledger' = ledger
            BY <3>1 DEF LedgerBlock
        <3>3. QED
            BY <3>2, CutGrows DEF InputsExisted
    <2>3. QED
        BY <2>1, <2>2
        DEF Next, Progress, Launch, Handshake, Begin, Deliver, End, Commit, StoreWorker,
            SaveState, Fail, Stopped, vars
<1>2. PICK l : FollowsFrom(l)
    BY <1>1 DEF IFollows
<1>3. FollowsDisk(l) /\ FollowsIdle(l) /\ FollowsBlock(l)
    BY <1>2 DEF FollowsFrom
<1>4. IKnown /\ IFiles /\ ISpentBlock /\ IFreshStores
    BY <1>1 DEF IRewarded, ISpent, IFresh
<1>5. /\ heightFile \in Nat \cup {None} /\ height \in Nat /\ tmHeight \in Nat
      /\ Awake => heightFile \in Nat
      /\ pc \in PCs /\ None \notin Nat /\ crashes \in Nat /\ torn = {}
    BY <1>1, BoundsAssumption, CrashesAssumption DEF ITypes, TypeOK, IPanics
<1>6. SUFFICES \/ FollowsDisk(l)' /\ FollowsIdle(l)' /\ FollowsBlock(l)'
               \/ \E k : FollowsFrom(k)'
    BY DEF FollowsFrom
<1> USE DEF PCs, Awake
<1>7. CASE UNCHANGED vars
    <2>1. UNCHANGED <<heightFile, validatorsFile, tmVars, ledger, connected, crashes, pc,
                      storeVars, programs, validators, blockVars, codes>>
        BY <1>7 DEF vars, appVars, fileVars, faultVars
    <2>2. /\ FollowsDisk(l)'
          /\ OnDisk(l)' = OnDisk(l) /\ DurableSet' = DurableSet /\ Saved' = Saved
        BY <1>3, <2>1, DiskStays DEF tmVars, storeVars
    <2>3. During(l, Len(codes))' = During(l, Len(codes))
        BY <2>1 DEF During, tmVars
    <2>4. known' = known /\ spent' = spent
        BY <2>1 DEF storeVars, known, spent
    <2>5. FollowsIdle(l)'
        BY <1>3, <2>1, <2>2, <2>4 DEF storeVars, FollowsIdle
    <2>6. FollowsBlock(l)'
        BY <1>3, <2>1, <2>3, <2>4 DEF FollowsBlock, tmVars, blockVars
    <2>7. QED
        BY <2>2, <2>5, <2>6
<1>8. CASE Launch /\ Start
    <2>1. /\ UNCHANGED <<heightFile, validatorsFile, tmVars, ledger, connected, crashes,
                         dbSpent, spentBuffer>>
          /\ pc = "down" /\ pc' = "started" /\ ~connected
          /\ programs' = programs \cup {CreditsProgram} /\ validators' = validatorsFile
        BY <1>5, <1>8 DEF Launch, Start, fileVars, faultVars, storeVars
    <2>2. /\ FollowsDisk(l)'
          /\ OnDisk(l)' = OnDisk(l) /\ DurableSet' = DurableSet /\ Saved' = Saved
        BY <1>3, <2>1, DiskStays DEF tmVars
    <2>3. FollowsIdle(l)'
        BY <1>3, <2>1, <2>2 DEF FollowsIdle, DurableSet
    <2>4. FollowsBlock(l)'
        BY <2>1 DEF FollowsBlock
    <2>5. QED
        BY <2>2, <2>3, <2>4
<1>9. CASE Launch /\ Info
    <2>1. /\ UNCHANGED <<validatorsFile, tmVars, ledger, connected, crashes, dbSpent,
                         spentBuffer, programs, validators>>
          /\ pc = "started" /\ pc' = "ready" /\ ~connected
          /\ heightFile' = IF heightFile = None THEN 0 ELSE heightFile
        BY <1>5, <1>9 DEF Launch, Info, faultVars, storeVars
    <2>2. Saved' = Saved /\ DurableSet' = DurableSet
        BY <2>1 DEF Saved, DurableSet
    <2>3. OnDisk(l)' = OnDisk(l)
        <3>1. CASE heightFile = None
            <4>1. heightFile # height /\ l = ledger
                BY <1>3, <1>5, <3>1 DEF FollowsDisk
            <4>2. QED
                BY <2>1, <4>1 DEF OnDisk
        <3>2. CASE heightFile # None
            BY <2>1, <3>2 DEF OnDisk, tmVars
        <3>3. QED
            BY <3>1, <3>2
    <2>4. GoodLedger(l)' /\ GoodLedger(ledger)'
        BY <1>3, <2>1 DEF FollowsDisk
    <2>5. heightFile' # None
        BY <1>5, <2>1
    <2>6. FollowsDisk(l)'
        BY <1>3, <2>1, <2>2, <2>3, <2>4, <2>5 DEF FollowsDisk, tmVars
    <2>7. FollowsIdle(l)'
        BY <1>3, <2>1, <2>2, <2>3 DEF FollowsIdle
    <2>8. FollowsBlock(l)'
        BY <2>1 DEF FollowsBlock
    <2>9. QED
        BY <2>6, <2>7, <2>8
<1>10. CASE Handshake
    <2>1. /\ UNCHANGED <<heightFile, validatorsFile, tmVars, ledger, crashes, dbSpent,
                         dbRecords, spentBuffer, programs>>
          /\ pc = "ready" /\ pc' \in {"ready", "panicked"} /\ ~connected /\ connected'
        BY <1>10 DEF Handshake, InitChain, appVars, fileVars, faultVars, storeVars
    <2>2. /\ FollowsDisk(l)'
          /\ OnDisk(l)' = OnDisk(l) /\ DurableSet' = DurableSet /\ Saved' = Saved
        BY <1>3, <2>1, DiskStays DEF tmVars
    <2>3. CreditsProgram \in OnDisk(l).programs
        BY <1>3 DEF FollowsDisk, GoodLedger, OnDisk
    <2>4. pc' = "ready" => validators' = DurableSet
        <3>1. CASE heightFile = 0
            <4>1. pc' = "ready" => validators' = GenesisValidators
                BY <1>10, <2>1, <3>1 DEF Handshake, InitChain
            <4>2. ~Saved
                BY <1>4, <3>1 DEF IFiles
            <4>3. QED
                BY <4>1, <4>2 DEF DurableSet
        <3>2. CASE heightFile # 0
            <4>1. validators' = validators
                BY <1>10, <3>2 DEF Handshake, appVars
            <4>2. Saved
                BY <1>4, <1>5, <2>1, <3>2, GenesisAssumption DEF IFiles
            <4>3. QED
                BY <1>3, <2>1, <4>1, <4>2 DEF FollowsIdle
        <3>3. QED
            BY <3>1, <3>2
    <2>5. pc' = "ready" /\ crashes = 0 => known' = OnDisk(l).known
        <3> SUFFICES ASSUME pc' = "ready", crashes = 0 PROVE known' = OnDisk(l).known
            OBVIOUS
        <3>1. known = {} /\ height = 0 /\ ledger = GenesisLedger
            BY <1>3, <2>1 DEF IPanics, FollowsDisk
        <3>2. heightFile = 0
            BY <1>5, <2>1, <3>1 DEF IHeights
        <3>3. recordBuffer' = recordBuffer \cup GenesisRecords
            BY <1>10, <2>1, <3>2 DEF Handshake, InitChain
        <3>4. known' = GenesisRecords
            BY <2>1, <3>1, <3>3 DEF known
        <3>5. OnDisk(l) = GenesisLedger
            BY <2>1, <3>1, <3>2 DEF OnDisk
        <3>6. QED
            BY <3>4, <3>5 DEF GenesisLedger
    <2>6. FollowsIdle(l)'
        BY <1>3, <2>1, <2>2, <2>3, <2>4, <2>5 DEF FollowsIdle
    <2>7. FollowsBlock(l)'
        BY <2>1 DEF FollowsBlock
    <2>8. QED
        BY <2>2, <2>6, <2>7
<1>11. CASE Begin
    <2>1. /\ UNCHANGED <<heightFile, validatorsFile, tmVars, ledger, crashes, connected,
                         storeVars, programs, validators>>
          /\ pc = "ready" /\ pc' = "block" /\ connected /\ heightFile < height
          /\ fees' = BaselineReward /\ codes' = <<>> /\ currentHeight' = height
          /\ currentVotes' = block.votes /\ currentProposer' = block.proposer
        BY <1>11 DEF Begin, BeginBlock, Idle, fileVars, faultVars
    <2>2. /\ FollowsDisk(l)'
          /\ OnDisk(l)' = OnDisk(l) /\ DurableSet' = DurableSet /\ Saved' = Saved
        BY <1>3, <2>1, DiskStays DEF tmVars, storeVars
    <2>3. OnDisk(l) = l
        BY <1>5, <2>1 DEF OnDisk
    <2>4. FollowsIdle(l)'
        BY <2>1 DEF FollowsIdle
    <2>5. block.txs \in Seq(Txs)
        BY <1>5, <2>1 DEF ITypes
    <2>6. Len(block.txs) \in Nat /\ Len(<<>>) = 0
        BY <2>5
    <2> DEFINE now == LedgerBegin(l)
    <2>7. During(l, Len(codes))' = now
        <3>1. During(l, 0) = now
            BY <2>6, LedgerSteps DEF During
        <3>2. QED
            BY <2>1, <2>6, <3>1 DEF During, tmVars
    <2>8. /\ now.known = l.known /\ now.spent = l.spent
          /\ now.programs = l.programs /\ now.validators = l.validators
          /\ now.fees = BaselineReward /\ now.codes = <<>>
        BY <1>3, LedgerBeginFields DEF FollowsDisk, GoodLedger
    <2>9. /\ spent' = dbSpent /\ dbSpent = l.spent /\ programs = l.programs
          /\ validators = l.validators
          /\ crashes = 0 => known = l.known
        BY <1>3, <2>1, <2>3 DEF FollowsDisk, FollowsIdle, spent, storeVars
    <2>10. known' = known
        BY <2>1 DEF known, storeVars
    <2> HIDE DEF now
    <2>11. FollowsBlock(l)'
        BY <2>1, <2>6, <2>7, <2>8, <2>9, <2>10 DEF FollowsBlock, tmVars
    <2>12. QED
        BY <2>2, <2>4, <2>11
<1>12. CASE Deliver
    <2>1. /\ UNCHANGED <<heightFile, validatorsFile, tmVars, ledger, crashes, connected,
                         dbSpent>>
          /\ pc = "block"
        BY <1>12
        DEF Deliver, DeliverTx, RefuseTx, appVars, fileVars, faultVars, storeVars
    <2>2. pc' = "block"
        BY <1>12, DeliverDoesNotPanic
    <2>3. FollowsDisk(l)'
        BY <1>3, <2>1, <2>2, DiskStays DEF tmVars
    <2>4. FollowsIdle(l)'
        BY <2>2 DEF FollowsIdle
    <2>5. FollowsBlock(l)'
        <3>1. tmHeight < height /\ height > 0
            BY <1>5, <2>1 DEF IHeights
        <3>2. block.txs \in Seq(Txs)
            BY <3>1 DEF ITypes
        <3>3. ledger = LedgerBlock(l, block, height) /\ GoodLedger(l) /\ l.strays = {}
            BY <1>3, <3>1 DEF FollowsDisk
        <3>4. During(l, Len(block.txs)).strays = ledger.strays
            BY <1>0, <3>2, <3>3, LedgerBlockFields DEF During
        <3>5. Fresh(known, spent)
            BY <1>4 DEF IFreshStores
        <3>6. QED
            BY <1>1, <1>3, <1>12, <3>3, <3>4, <3>5, DuringDeliver DEF InputsExisted
    <2>6. QED
        BY <2>3, <2>4, <2>5
<1>13. CASE End
    <2>1. /\ UNCHANGED <<heightFile, validatorsFile, height, block, tmHeight, ledger,
                         crashes, connected, storeVars, programs, validators, blockVars,
                         codes>>
          /\ pc = "block" /\ pc' = "ended" /\ Len(codes) = Len(block.txs)
          /\ results'.codes = codes
        BY <1>13 DEF End, EndBlock, fileVars, faultVars
    <2>2. Saved' = Saved /\ DurableSet' = DurableSet /\ OnDisk(l)' = OnDisk(l)
        BY <2>1 DEF Saved, DurableSet, OnDisk
    <2>3. During(l, Len(codes))' = During(l, Len(codes))
        BY <2>1 DEF During
    <2>4. known' = known /\ spent' = spent
        BY <2>1 DEF storeVars, known, spent
    <2>5. heightFile < height /\ heightFile \in Nat /\ tmHeight < height
        BY <1>5, <2>1 DEF IHeights
    <2>6. block.txs \in Seq(Txs)
        BY <1>5, <2>5 DEF ITypes
    <2>7. ledger.codes = codes
        <3>1. ledger = LedgerBlock(l, block, height)
            BY <1>3, <2>5 DEF FollowsDisk
        <3>2. ledger.codes = During(l, Len(block.txs)).codes
            BY <1>0, <1>3, <2>6, <3>1, LedgerBlockFields DEF FollowsDisk, During
        <3>3. QED
            BY <1>3, <2>1, <3>2 DEF FollowsBlock
    <2>8. GoodLedger(l)' /\ GoodLedger(ledger)'
        BY <1>3, <2>1 DEF FollowsDisk
    <2>9. FollowsDisk(l)'
        BY <1>3, <2>1, <2>2, <2>7, <2>8 DEF FollowsDisk, storeVars
    <2>10. FollowsIdle(l)'
        BY <2>1 DEF FollowsIdle
    <2>11. FollowsBlock(l)'
        BY <1>3, <2>1, <2>3, <2>4 DEF FollowsBlock, blockVars
    <2>12. QED
        BY <2>9, <2>10, <2>11
<1>14. CASE Commit /\ SendCommit
    <2>1. /\ UNCHANGED <<heightFile, validatorsFile, tmVars, ledger, crashes, connected,
                         storeVars, programs, validators, blockVars, codes>>
          /\ pc = "ended" /\ pc' = "commit"
        BY <1>14 DEF Commit, SendCommit, fileVars, faultVars
    <2>2. FollowsDisk(l)'
        BY <1>3, <2>1, DiskStays DEF tmVars
    <2>3. During(l, Len(codes))' = During(l, Len(codes))
        BY <2>1 DEF During, tmVars
    <2>4. known' = known /\ spent' = spent
        BY <2>1 DEF storeVars, known, spent
    <2>5. FollowsIdle(l)'
        BY <2>1 DEF FollowsIdle
    <2>6. FollowsBlock(l)'
        BY <1>3, <2>1, <2>3, <2>4 DEF FollowsBlock, blockVars, tmVars
    <2>7. QED
        BY <2>2, <2>5, <2>6
<1>15. CASE Commit /\ IncrementHeight
    <2>1. /\ UNCHANGED <<validatorsFile, tmVars, ledger, crashes, connected,
                         storeVars, programs, validators, blockVars, codes>>
          /\ pc = "commit" /\ pc' = "counted" /\ heightFile' = heightFile + 1
        BY <1>15 DEF Commit, IncrementHeight, faultVars
    <2>2. Saved' = Saved /\ DurableSet' = DurableSet
        BY <2>1 DEF Saved, DurableSet
    <2>3. OnDisk(l)' = OnDisk(l)
        <3>1. heightFile # height
            BY <1>5, <2>1 DEF IHeights
        <3>2. QED
            BY <2>1, <3>1 DEF OnDisk
    <2>4. GoodLedger(l)' /\ GoodLedger(ledger)'
        BY <1>3, <2>1 DEF FollowsDisk
    <2>5. heightFile' # None
        BY <1>5, <2>1
    <2>6. FollowsDisk(l)'
        BY <1>3, <2>1, <2>2, <2>3, <2>4, <2>5 DEF FollowsDisk, tmVars
    <2>7. During(l, Len(codes))' = During(l, Len(codes))
        BY <2>1 DEF During, tmVars
    <2>8. known' = known /\ spent' = spent
        BY <2>1 DEF storeVars, known, spent
    <2>9. FollowsIdle(l)'
        BY <2>1 DEF FollowsIdle
    <2>10. FollowsBlock(l)'
        BY <1>3, <2>1, <2>7, <2>8 DEF FollowsBlock, blockVars, tmVars
    <2>11. QED
        BY <2>6, <2>9, <2>10
<1>16. CASE Commit /\ AddRewards
    <2> DEFINE rewards == RewardRecords(fees, currentVotes, currentProposer, currentHeight,
                                        validators)
               now == During(l, Len(codes))
    <2>1. /\ UNCHANGED <<heightFile, validatorsFile, tmVars, ledger, crashes, connected,
                         dbRecords, dbSpent, spentBuffer, programs, validators, blockVars,
                         codes>>
          /\ pc = "counted"
        BY <1>16 DEF Commit, AddRewards, fileVars, faultVars
    <2>2. ~RewardsPanic
        BY <1>4, <2>1 DEF RewardsPanic, IKnown, IFiles
    <2>3. pc' = "rewarded" /\ recordBuffer' = recordBuffer \cup (rewards \ known)
        BY <1>16, <2>2 DEF Commit, AddRewards
    <2>4. FollowsDisk(l)'
        BY <1>3, <2>1, <2>3, DiskStays DEF tmVars
    <2>5. now' = now
        BY <2>1 DEF During, tmVars
    <2>6. known' = known \cup rewards /\ spent' = spent
        BY <2>1, <2>3 DEF known, spent
    <2>7. heightFile = height /\ tmHeight < height
        BY <2>1 DEF IHeights
    <2>8. height > 0 /\ block.txs \in Seq(Txs)
        BY <1>5, <2>7 DEF ITypes
    <2>9. crashes = 0 => known' = ledger.known
        <3>1. ledger = LedgerBlock(l, block, height) /\ GoodLedger(l) /\ l.strays = {}
            BY <1>3, <2>7 DEF FollowsDisk
        <3>2. Len(codes) = Len(block.txs)
            BY <1>3, <2>1 DEF FollowsBlock
        <3>3. ledger.known = now.known \cup
                    RewardRecords(now.fees, block.votes, block.proposer, height,
                                  now.validators)
            BY <1>0, <2>8, <3>1, <3>2, LedgerBlockFields DEF During
        <3>4. /\ now.fees = fees /\ block.votes = currentVotes
              /\ block.proposer = currentProposer /\ height = currentHeight
              /\ now.validators = validators
              /\ crashes = 0 => known = now.known
            BY <1>3, <2>1 DEF FollowsBlock
        <3> HIDE DEF now
        <3>5. crashes = 0 => ledger.known = known \cup rewards
            BY <3>3, <3>4
        <3>6. QED
            BY <2>6, <3>5
    <2>10. FollowsIdle(l)'
        BY <2>3 DEF FollowsIdle
    <2> HIDE DEF rewards
    <2>11. FollowsBlock(l)'
        BY <1>3, <2>1, <2>3, <2>5, <2>6, <2>9 DEF FollowsBlock, blockVars, tmVars
    <2>12. QED
        BY <2>4, <2>10, <2>11
<1>17. CASE Commit /\ SaveValidators
    <2> DEFINE now == During(l, Len(codes))
    <2>1. /\ UNCHANGED <<heightFile, tmVars, ledger, crashes, connected, storeVars,
                         programs, validators, codes>>
          /\ pc = "rewarded" /\ pc' = "ready" /\ validatorsFile' = validators
        BY <1>17 DEF Commit, SaveValidators, faultVars
    <2>2. heightFile = height /\ tmHeight < height
        BY <2>1 DEF IHeights
    <2>3. height > 0 /\ block.txs \in Seq(Txs)
        BY <1>5, <2>2 DEF ITypes
    <2>4. ledger = LedgerBlock(l, block, height) /\ GoodLedger(l) /\ l.strays = {}
        BY <1>3, <2>2 DEF FollowsDisk
    <2>5. Len(codes) = Len(block.txs)
        BY <1>3, <2>1 DEF FollowsBlock
    <2>6. /\ ledger.spent = now.spent /\ ledger.programs = now.programs
          /\ ledger.validators = now.validators
        BY <1>0, <2>3, <2>4, <2>5, LedgerBlockFields DEF During
    <2>7. /\ now.spent = spent /\ now.programs = programs /\ now.validators = validators
          /\ crashes = 0 => known = ledger.known
        BY <1>3, <2>1 DEF FollowsBlock
    <2> HIDE DEF now
    <2>8. DOMAIN validators # {}
        BY <1>4, <2>1, GenesisAssumption DEF IFiles, IKnown, Durable, Saved
    <2>9. OnDisk(l)' = ledger /\ DurableSet' = validators
        BY <2>1, <2>2, <2>8 DEF OnDisk, DurableSet, Saved, tmVars
    <2>10. dbSpent = spent /\ spentBuffer = {}
        BY <1>4, <2>1 DEF ISpentBlock, spent
    <2>11. GoodLedger(l)' /\ GoodLedger(ledger)'
        BY <1>3, <2>1 DEF FollowsDisk
    <2>12. FollowsDisk(l)'
        BY <1>3, <2>1, <2>6, <2>7, <2>9, <2>10, <2>11 DEF FollowsDisk, tmVars, storeVars
    <2>13. known' = known
        BY <2>1 DEF storeVars, known
    <2>14. FollowsIdle(l)'
        BY <2>1, <2>6, <2>7, <2>9, <2>10, <2>13 DEF FollowsIdle, storeVars
    <2>15. FollowsBlock(l)'
        BY <2>1 DEF FollowsBlock
    <2>16. QED
        BY <2>12, <2>14, <2>15
<1>18. CASE StoreWorker
    <2>1. /\ UNCHANGED <<heightFile, validatorsFile, tmVars, ledger, connected, crashes, pc,
                         programs, validators, blockVars, codes, recordBuffer>>
          /\ pc \in {"commit", "counted"}
        BY <1>4, <1>18
        DEF StoreWorker, StoreCommitRecords, StoreCommitSpent, fileVars, faultVars,
            IFreshStores
    <2>2. FollowsDisk(l)'
        BY <1>3, <2>1, DiskStays DEF tmVars
    <2>3. During(l, Len(codes))' = During(l, Len(codes))
        BY <2>1 DEF During, tmVars
    <2>4. known' = known /\ spent' = spent
        BY <1>18 DEF StoreWorker, StoreCommitRecords, StoreCommitSpent, known, spent
    <2>5. FollowsIdle(l)'
        BY <2>1 DEF FollowsIdle
    <2>6. FollowsBlock(l)'
        BY <1>3, <2>1, <2>3, <2>4 DEF FollowsBlock, tmVars, blockVars
    <2>7. QED
        BY <2>2, <2>5, <2>6
<1>19. CASE SaveState
    <2>1. /\ UNCHANGED <<heightFile, validatorsFile, height, block, results, ledger,
                         connected, crashes, pc, storeVars, programs, validators>>
          /\ pc = "ready" /\ tmHeight < height /\ tmHeight' \in {tmHeight, height}
        BY <1>19 DEF SaveState, Idle, appVars, fileVars, faultVars
    <2>2. Saved' = Saved /\ DurableSet' = DurableSet /\ OnDisk(l)' = OnDisk(l)
        BY <2>1 DEF Saved, DurableSet, OnDisk
    <2>3. GoodLedger(l)' /\ GoodLedger(ledger)'
        BY <1>3, <2>1 DEF FollowsDisk
    <2>4. FollowsDisk(l)'
        BY <1>3, <2>1, <2>2, <2>3 DEF FollowsDisk, storeVars
    <2>5. known' = known
        BY <2>1 DEF storeVars, known
    <2>6. FollowsIdle(l)'
        BY <1>3, <2>1, <2>2, <2>5 DEF FollowsIdle, storeVars
    <2>7. FollowsBlock(l)'
        BY <2>1 DEF FollowsBlock
    <2>8. QED
        BY <2>4, <2>6, <2>7
<1>20. CASE Decide
    <2>1. /\ UNCHANGED <<heightFile, validatorsFile, tmHeight, connected, crashes, pc,
                         storeVars, programs, validators>>
          /\ pc = "ready" /\ connected /\ heightFile = height /\ tmHeight = height
          /\ height' = height + 1 /\ height < MaxHeight /\ results' = None
        BY <1>20 DEF Decide, Idle, appVars, fileVars, faultVars
    <2>2. block'.txs \in Seq(Txs) /\ ledger' = LedgerBlock(ledger, block', height')
        BY <1>20, <2>1, BlocksAreSequences DEF Decide
    <2>3. height' \in 0..MaxHeight /\ heightFile' # height' /\ heightFile' # None
        BY <1>5, <2>1, BoundsAssumption
    <2>4. PICK k : k = ledger
        OBVIOUS
    <2>5. OnDisk(l) = k /\ OnDisk(k)' = k /\ Saved' = Saved /\ DurableSet' = DurableSet
        BY <2>1, <2>3, <2>4 DEF OnDisk, Saved, DurableSet
    <2>6. GoodLedger(k) /\ k.strays = {}
        BY <1>1, <1>3, <2>4 DEF FollowsDisk, InputsExisted
    <2>7. GoodLedger(ledger')
        <3> DEFINE b == block'
                   h == height'
        <3>1. b.txs \in Seq(Txs) /\ h \in 0..MaxHeight /\ ledger' = LedgerBlock(k, b, h)
            BY <2>2, <2>3, <2>4
        <3> HIDE DEF b, h
        <3>2. GoodLedger(LedgerBlock(k, b, h))
            BY <2>6, <3>1, LedgerBlockFields
        <3>3. QED
            BY <3>1, <3>2
    <2>8. GoodLedger(k)' /\ GoodLedger(ledger)'
        BY <2>6, <2>7
    <2>9. FollowsDisk(k)'
        BY <1>3, <2>1, <2>2, <2>3, <2>4, <2>5, <2>6, <2>8 DEF FollowsDisk, storeVars
    <2>10. known' = known
        BY <2>1 DEF storeVars, known
    <2>11. FollowsIdle(k)'
        BY <1>3, <2>1, <2>5, <2>10 DEF FollowsIdle, storeVars
    <2>12. FollowsBlock(k)'
        BY <2>1 DEF FollowsBlock
    <2>13. QED
        BY <2>9, <2>11, <2>12 DEF FollowsFrom
<1>21. CASE Fail /\ Crash
    <2>1. /\ UNCHANGED <<heightFile, validatorsFile, tmVars, ledger, dbSpent, programs>>
          /\ ~connected' /\ crashes' = crashes + 1 /\ crashes < MaxCrashes
          /\ pc' = "down" /\ pc \notin {"commit", "counted", "rewarded"}
          /\ spentBuffer' = {}
        BY <1>21 DEF Fail, Crash
    <2>2. crashes' # 0 /\ MaxCrashes # 0
        BY <1>5, <2>1, CrashesAssumption
    <2>3. /\ FollowsDisk(l)'
          /\ OnDisk(l)' = OnDisk(l) /\ DurableSet' = DurableSet /\ Saved' = Saved
        BY <1>3, <2>1, <2>2, DiskStays DEF tmVars
    <2>4. programs \cup {CreditsProgram} = OnDisk(l).programs
        <3>1. CASE pc \in {"down", "panicked"}
            BY <1>3, <3>1 DEF FollowsIdle
        <3>2. CASE pc \in {"started", "ready"}
            BY <1>3, <3>2 DEF FollowsIdle, FollowsDisk, GoodLedger, OnDisk
        <3>3. CASE pc \in {"block", "ended"}
            <4>1. heightFile < height /\ heightFile \in Nat
                BY <1>5, <3>3 DEF IHeights
            <4>2. OnDisk(l) = l
                BY <1>5, <4>1 DEF OnDisk
            <4>3. height > 0 /\ block.txs \in Seq(Txs) /\ codes \in Seq(BOOLEAN)
                BY <1>5, <4>1 DEF ITypes, TypeOK
            <4>4. Len(codes) \in 0..Len(block.txs)
                BY <1>3, <3>3, <4>3 DEF FollowsBlock
            <4>5. During(l, Len(codes)).programs = l.programs
                BY <1>3, <2>2, <4>3, <4>4, LedgerKeeps
                DEF FollowsDisk, During, ProgramsSurvive
            <4>6. programs = l.programs /\ CreditsProgram \in l.programs
                BY <1>3, <3>3, <4>5 DEF FollowsBlock, FollowsDisk, GoodLedger
            <4>7. QED
                BY <4>2, <4>6
        <3>4. QED
            BY <1>5, <2>1, <3>1, <3>2, <3>3
    <2>5. FollowsIdle(l)'
        BY <2>1, <2>3, <2>4 DEF FollowsIdle
    <2>6. FollowsBlock(l)'
        BY <2>1 DEF FollowsBlock
    <2>7. QED
        BY <2>3, <2>5, <2>6
<1>22. CASE Fail /\ Reconnect
    <2>1. /\ UNCHANGED <<heightFile, validatorsFile, tmVars, ledger, storeVars, programs,
                         validators>>
          /\ ~connected' /\ crashes' = crashes + 1 /\ pc' = "started" /\ pc = "ready"
        BY <1>22, ReconnectAssumption DEF Fail, Reconnect, fileVars
    <2>2. crashes' # 0
        BY <1>5, <2>1
    <2>3. /\ FollowsDisk(l)'
          /\ OnDisk(l)' = OnDisk(l) /\ DurableSet' = DurableSet /\ Saved' = Saved
        BY <1>3, <2>1, <2>2, DiskStays DEF tmVars, storeVars
    <2>4. FollowsIdle(l)'
        BY <1>3, <2>1, <2>3 DEF FollowsIdle, storeVars
    <2>5. FollowsBlock(l)'
        BY <2>1 DEF FollowsBlock
    <2>6. QED
        BY <2>3, <2>4, <2>5
<1>23. QED
    BY <1>7, <1>8, <1>9, <1>10, <1>11, <1>12, <1>13, <1>14, <1>15, <1>16, <1>17, <1>18,
       <1>19, <1>20, <1>21, <1>22
    DEF Next, Progress, Launch, Commit, Fail, Stopped

IAgreement ==
    /\ ITypes /\ IRewarded /\ IHeights /\ IPanics /\ ISpent /\ IFresh
    /\ IFollows

\* The node follows the ledger as long as records are unique, no transaction updates a
\* validator twice and no deployment is executed again.
LEMMA Following ==
    ASSUME NoncesAreUnique, TxsUpdateOnce, ProgramsSurvive
    PROVE  Spec => []IAgreement
<1>1. Init => IAgreement
    BY InitTypes, InitRewarded, InitHeights, InitPanics, InitSpent, InitFresh, InitFollows
    DEF IAgreement
<1>2. IAgreement /\ [Next]_vars => IAgreement'
    BY NextTypes, NextRewarded, NextHeights, NextPanics, NextSpent, NextFresh, NextFollows
    DEF IAgreement
<1>3. QED
    BY <1>1, <1>2, PTL DEF Spec

\* The answers that Tendermint saves for a block are what the block means, as long as no
\* block spends a record that nobody made: also when a crash between two calls made the
\* application execute it again.  (A deployment would be refused then, because the program
\* store is written through; without crashes, the answers of key_may_exist count as given.)
THEOREM VerdictsFollow ==
    ASSUME NoncesAreUnique, TxsUpdateOnce, ProgramsSurvive
    PROVE  Spec => []VerdictsFollowLedger
<1>1. IAgreement => VerdictsFollowLedger
    BY DEF IAgreement, IFollows, FollowsFrom, FollowsDisk, VerdictsFollowLedger
<1>2. Spec => []IAgreement
    BY Following
<1>3. QED
    BY <1>1, <1>2, PTL

\* When a block is applied, what is spent, deployed and staked is what the blocks mean, and
\* the known records too as long as nothing crashed: rewards wait in memory for the next
\* block's commit.
LEMMA FollowsCaughtUp ==
    ASSUME IAgreement, CaughtUp, cut = {}, InputsExisted
    PROVE  /\ spent = ledger.spent
           /\ programs = ledger.programs
           /\ validators = ledger.validators
           /\ crashes = 0 => known = ledger.known
<1>1. PICK l : FollowsDisk(l) /\ FollowsIdle(l)
    BY DEF IAgreement, IFollows, FollowsFrom
<1>2. pc = "ready" /\ connected /\ heightFile = height
    BY DEF CaughtUp, Idle
<1>3. OnDisk(l) = ledger
    BY <1>2 DEF OnDisk
<1>4. QED
    BY <1>1, <1>2, <1>3 DEF FollowsDisk, FollowsIdle, spent

\* Without crashes, and as long as no block spends a record that nobody made, the databases,
\* their buffers and the validator set hold after each block exactly what the ledger says.
THEOREM StateFollows ==
    ASSUME NoncesAreUnique, TxsUpdateOnce, MaxCrashes = 0
    PROVE  Spec => []StateFollowsLedger
<1>1. IAgreement => StateFollowsLedger
    <2> SUFFICES ASSUME IAgreement, CaughtUp, InputsExisted
                 PROVE  /\ known = ledger.known /\ spent = ledger.spent
                        /\ programs = ledger.programs /\ validators = ledger.validators
        BY DEF StateFollowsLedger
    <2>1. crashes = 0 /\ cut = {}
        BY DEF IAgreement, ITypes, TypeOK, IPanics
    <2>2. QED
        BY <2>1, FollowsCaughtUp
<1>2. Spec => []IAgreement
    BY Following DEF ProgramsSurvive
<1>3. QED
    BY <1>1, <1>2, PTL

\* Crashes between calls, and restarts of Tendermint between two blocks, lose no spend, no
\* program and no validator, and apply none twice: after the replay the state is what the
\* blocks mean, as long as none spends a record that nobody made.
THEOREM SpendsFollow ==
    ASSUME NoncesAreUnique, TxsUpdateOnce, ProgramsSurvive
    PROVE  Spec => []SpendsFollowLedger
<1>1. IAgreement => SpendsFollowLedger
    BY FollowsCaughtUp DEF SpendsFollowLedger
<1>2. Spec => []IAgreement
    BY Following
<1>3. QED
    BY <1>1, <1>2, PTL
===============================================================================
