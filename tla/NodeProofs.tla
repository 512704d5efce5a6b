------------------------------ MODULE NodeProofs ------------------------------
(***************************************************************************)
(* Proofs about the node, for every genesis state, set of transactions,     *)
(* number of blocks and number of crashes.                                  *)
(***************************************************************************)
EXTENDS Node, LedgerProofs

\* The application between two calls of the consensus connection, or inside one.
Awake == pc \notin {"down", "started", "panicked"}

\* The type invariant as an induction needs it: the height is known while the application
\* serves, so that HeightFile::increment has a number to count from, and the file that the
\* validators are loaded from holds what they were.
ITypes ==
    /\ TypeOK
    /\ Awake => heightFile \in Nat
    /\ \A v \in DOMAIN validatorsFile : validatorsFile[v].power \in Nat
    /\ height > 0 => block.txs \in Seq(Txs)
    /\ pc = "block" => height > 0

\* Blocks are sequences of the transactions.
LEMMA BlocksAreSequences == SeqOf(Txs, MaxTxs) \subseteq Seq(Txs)
<1>1. ASSUME NEW m \in 0..MaxTxs, NEW txs \in [1..m -> Txs] PROVE txs \in Seq(Txs)
    <2>1. m \in Nat
        BY BoundsAssumption
    <2>2. QED
        BY <2>1
<1>2. QED
    BY <1>1 DEF SeqOf

\* deliver_tx leaves fees, powers and the list of updated validators well-formed.
LEMMA DeliverTypes ==
    ASSUME NEW tx \in Txs, NEW doubt, DeliverTx(tx, doubt), pc = "block", ITypes
    PROVE  /\ fees' \in Nat
           /\ \A v \in DOMAIN validators' : validators'[v].power \in Nat
           /\ pc' = "block" => updatedValidators' \subseteq DOMAIN validators'
           /\ pc' \in {"block", "panicked"}
<1> DEFINE updates == StakeUpdates(tx)
<1>1. IsTransaction(tx)
    BY TxsAssumption
<1>2. IsList(updates) /\ \A update \in ToSet(updates) : update.delta \in Int
    BY <1>1, TransactionLists
<1>3. /\ fees \in Nat
      /\ \A v \in DOMAIN validators : validators[v].power \in Nat
      /\ updatedValidators \subseteq DOMAIN validators
    BY DEF ITypes, TypeOK
<1>4. CASE UpdatesPanic(validators, updates)
    <2>1. pc' = "panicked" /\ UNCHANGED <<fees, validators, updatedValidators>>
        BY <1>4 DEF DeliverTx
    <2>2. QED
        BY <1>3, <2>1
<1>5. CASE ~UpdatesPanic(validators, updates)
    <2>1. /\ fees' = fees + Fees(tx) /\ pc' = pc
          /\ validators' = AfterUpdates(validators, updates)[Len(updates)]
          /\ updatedValidators' = updatedValidators \cup UpdatedBy(updates)
        BY <1>5 DEF DeliverTx
    <2>2. Fees(tx) \in Nat
        BY <1>1, FeesAreNatural DEF DeliverTx
    <2> HIDE DEF updates
    <2>3. \A v \in DOMAIN validators' : validators'[v].power \in Nat
        BY <1>2, <1>3, <1>5, <2>1, UpdatedPowers
    <2>4. DOMAIN validators' = DOMAIN validators \cup UpdatedBy(updates)
        BY <1>2, <2>1, UpdatedDomain
    <2>5. QED
        BY <1>3, <2>1, <2>2, <2>3, <2>4
<1>6. QED
    BY <1>4, <1>5

LEMMA InitTypes == Init => ITypes
<1> SUFFICES ASSUME Init PROVE ITypes
    OBVIOUS
<1>1. <<>> \in Seq(BOOLEAN) /\ DOMAIN <<>> = {}
    OBVIOUS
<1>2. connected \in BOOLEAN /\ halted \in BOOLEAN
    BY Zenon DEF Init
<1>3. QED
    BY <1>1, <1>2, CrashesAssumption, BoundsAssumption
    DEF Init, AppInit, ITypes, TypeOK, Awake, PCs

LEMMA NextTypes == ITypes /\ [Next]_vars => ITypes'
<1> SUFFICES ASSUME ITypes, [Next]_vars PROVE ITypes'
    OBVIOUS
<1> USE DEF ITypes, TypeOK, Awake, PCs
<1>1. CASE UNCHANGED vars
    BY <1>1 DEF vars, appVars, storeVars, fileVars, blockVars, faultVars, tmVars
<1>2. CASE Launch
    <2>1. UNCHANGED <<connected, codes, tmVars, storeCommit, validatorsFile, torn,
                      blockVars, faultVars>>
        BY <1>2 DEF Launch, Start, Info, fileVars
    <2>2. connected' \in BOOLEAN
        BY <2>1
    <2>3. CASE Start
        <3>1. /\ pc' \in {"panicked", "started"}
              /\ validators' \in {validators, validatorsFile}
            BY <2>3 DEF Start
        <3>2. heightFile' = heightFile
            BY <2>3 DEF Start, fileVars
        <3>3. QED
            BY <2>1, <2>2, <3>1, <3>2 DEF blockVars, faultVars, tmVars
    <2>4. CASE Info
        <3>1. \/ pc' = "panicked" /\ heightFile' = heightFile
              \/ pc' = "ready" /\ heightFile' \in Nat
            BY <2>4 DEF Info
        <3>2. validators' = validators
            BY <2>4 DEF Info
        <3>3. QED
            BY <2>1, <2>2, <3>1, <3>2 DEF blockVars, faultVars, tmVars
    <2>5. QED
        BY <1>2, <2>3, <2>4 DEF Launch
<1>3. CASE Handshake
    BY <1>3, GenesisAssumption
    DEF Handshake, InitChain, appVars, storeVars, fileVars, blockVars, faultVars, tmVars
<1>4. CASE Begin
    <2>1. <<>> \in Seq(BOOLEAN)
        OBVIOUS
    <2>2. QED
        BY <1>4, <2>1, RewardAssumption
        DEF Begin, BeginBlock, Idle, storeVars, fileVars, faultVars, tmVars
<1>5. CASE Deliver
    <2> DEFINE tx == block.txs[Len(codes) + 1]
    <2>1. pc = "block" /\ Len(codes) < Len(block.txs)
        BY <1>5 DEF Deliver
    <2>2. tx \in Txs
        BY <2>1
    <2> PICK doubt \in Doubt :
            /\ DeliverTx(tx, doubt) \/ RefuseTx(tx, doubt)
            /\ codes' = Append(codes, Accepted(tx, doubt))
        BY <1>5 DEF Deliver
    <2>3. codes' \in Seq(BOOLEAN)
        <3>1. codes' = Append(codes, Accepted(tx, doubt))
            OBVIOUS
        <3>2. Accepted(tx, doubt) \in BOOLEAN
            BY DEF Accepted
        <3> DEFINE verdict == Accepted(tx, doubt)
        <3> HIDE DEF tx, verdict
        <3>3. QED
            BY <3>1, <3>2 DEF verdict
    <2>4. UNCHANGED <<connected, tmVars>>
        BY <1>5 DEF Deliver
    <2> HIDE DEF tx
    <2>5. CASE DeliverTx(tx, doubt)
        <3>1. /\ fees' \in Nat
              /\ \A v \in DOMAIN validators' : validators'[v].power \in Nat
              /\ pc' = "block" => updatedValidators' \subseteq DOMAIN validators'
              /\ pc' \in {"block", "panicked"}
            BY <2>1, <2>2, <2>5, DeliverTypes
        <3>2. UNCHANGED <<storeCommit, fileVars, currentHeight, faultVars>>
            BY <2>5 DEF DeliverTx
        <3>3. QED
            BY <2>1, <2>3, <2>4, <3>1, <3>2 DEF fileVars, faultVars, tmVars
    <2>6. CASE RefuseTx(tx, doubt)
        <3>1. UNCHANGED appVars
            BY <2>6 DEF RefuseTx
        <3>2. QED
            BY <2>1, <2>3, <2>4, <3>1
            DEF appVars, storeVars, fileVars, blockVars, faultVars, tmVars
    <2>7. QED
        BY <2>5, <2>6
<1>6. CASE End
    BY <1>6 DEF End, EndBlock, storeVars, fileVars, blockVars, faultVars
<1>7. CASE Commit
    <2>1. CASE SendCommit
        BY <1>7, <2>1
        DEF Commit, SendCommit, storeVars, fileVars, blockVars, faultVars, tmVars
    <2>2. CASE IncrementHeight
        BY <1>7, <2>2
        DEF Commit, IncrementHeight, storeVars, fileVars, blockVars, faultVars, tmVars
    <2>3. CASE AddRewards
        BY <1>7, <2>3
        DEF Commit, AddRewards, storeVars, fileVars, blockVars, faultVars, tmVars
    <2>4. CASE SaveValidators
        BY <1>7, <2>4
        DEF Commit, SaveValidators, storeVars, fileVars, blockVars, faultVars, tmVars
    <2>5. QED
        BY <1>7, <2>1, <2>2, <2>3, <2>4 DEF Commit
<1>8. CASE StoreWorker
    BY <1>8
    DEF StoreWorker, StoreCommitRecords, StoreCommitSpent, storeVars, fileVars, blockVars,
        faultVars, tmVars
<1>9. CASE SaveState
    BY <1>9 DEF SaveState, appVars, storeVars, fileVars, blockVars, faultVars
<1>10. CASE Decide
    <2>1. UNCHANGED <<appVars, connected, codes, tmHeight, halted>>
        BY <1>10 DEF Decide
    <2>2. height' = height + 1 /\ height < MaxHeight /\ pc = "ready"
        BY <1>10 DEF Decide, Idle
    <2>3. block'.txs \in Seq(Txs)
        BY <1>10, BlocksAreSequences DEF Decide
    <2>4. QED
        BY <2>1, <2>2, <2>3, BoundsAssumption
        DEF appVars, storeVars, fileVars, blockVars, faultVars
<1>11. CASE Fail
    <2>1. UNCHANGED <<codes, tmVars, heightFile, validatorsFile>> /\ connected' \in BOOLEAN
        BY <1>11, Zenon DEF Fail, Crash, Reconnect, fileVars
    <2>2. crashes' \in 0..MaxCrashes /\ cut' \subseteq {"commit", "block"}
        <3>1. /\ crashes < MaxCrashes /\ crashes' = crashes + 1
              /\ cut' \in {cut, cut \cup {"commit"}, cut \cup {"block"}}
            BY <1>11, Zenon DEF Fail, Crash, Reconnect
        <3>2. crashes' \in 0..MaxCrashes
            BY <3>1, CrashesAssumption
        <3>3. QED
            BY <3>1, <3>2
    <2>3. CASE Crash
        <3>1. /\ pc' = "down" /\ storeCommit' = "none" /\ validators' = <<>>
              /\ fees' = 0 /\ currentHeight' = 0
              /\ torn' \subseteq {"height", "validators"}
            BY <2>3 DEF Crash, BeingWritten
        <3>2. DOMAIN validators' = {}
            BY <3>1
        <3>3. QED
            BY <2>1, <2>2, <3>1, <3>2 DEF tmVars
    <2>4. CASE Reconnect
        <3>1. /\ pc' = "started"
              /\ UNCHANGED <<storeCommit, torn, validators, fees, currentHeight>>
            BY <2>4 DEF Reconnect, fileVars, blockVars
        <3>2. QED
            BY <2>1, <2>2, <3>1 DEF tmVars
    <2>5. QED
        BY <1>11, <2>3, <2>4 DEF Fail
<1>12. QED
    BY <1>1, <1>2, <1>3, <1>4, <1>5, <1>6, <1>7, <1>8, <1>9, <1>10, <1>11
    DEF Next, Progress, Stopped

\* Every variable keeps its type, whatever transactions a block holds: fees add up to a
\* natural number and no validator's power becomes negative.
THEOREM Typed == Spec => []TypeOK
<1>1. ITypes => TypeOK
    BY DEF ITypes
<1>2. QED
    BY <1>1, InitTypes, NextTypes, PTL DEF Spec

----------------------------------------------------------------------------
(* Truncated files.                                                          *)

\* A truncated validators file stops the next start at once, a truncated height file only
\* when Tendermint asks for the height: info needs to be the one thing that can happen.
ITorn ==
    /\ TornIsNoticed
    /\ "validators" \in torn => pc \in {"down", "panicked"}

LEMMA InitTorn == Init => ITorn
    BY DEF Init, AppInit, ITorn, TornIsNoticed

LEMMA NextTorn == ITypes /\ ITorn /\ [Next]_vars => ITorn'
<1> SUFFICES ASSUME ITypes, ITorn, [Next]_vars PROVE ITorn'
    OBVIOUS
<1> USE DEF ITorn, TornIsNoticed
<1>1. torn \subseteq {"height", "validators"}
    BY DEF ITypes, TypeOK
<1>2. CASE UNCHANGED <<torn, pc>>
    BY <1>2
<1>3. CASE torn' = torn /\ pc' # "down" /\ Awake
    BY <1>3 DEF Awake
<1>4. CASE Start
    BY <1>1, <1>4 DEF Start, fileVars
<1>5. CASE Info
    BY <1>1, <1>5 DEF Info
<1>6. CASE Crash
    BY <1>6 DEF Crash
<1>7. CASE UNCHANGED vars
    BY <1>2, <1>7 DEF vars, appVars, fileVars
<1>8. CASE Handshake
    BY <1>3, <1>8 DEF Handshake, InitChain, Awake, appVars, fileVars
<1>9. CASE Begin \/ End
    BY <1>3, <1>9 DEF Begin, BeginBlock, End, EndBlock, Awake, fileVars
<1>10. CASE Deliver
    <2>1. pc = "block" /\ torn' = torn /\ pc' \in {"block", "panicked"}
        BY <1>10 DEF Deliver, DeliverTx, RefuseTx, appVars, fileVars
    <2>2. QED
        BY <1>3, <2>1 DEF Awake
<1>11. CASE Commit
    BY <1>3, <1>11
    DEF Commit, SendCommit, IncrementHeight, AddRewards, SaveValidators, Awake, fileVars
<1>12. CASE StoreWorker
    BY <1>2, <1>12 DEF StoreWorker, StoreCommitRecords, StoreCommitSpent, fileVars
<1>13. CASE SaveState \/ Decide
    BY <1>2, <1>13 DEF SaveState, Decide, appVars, fileVars
<1>14. CASE Reconnect
    BY <1>3, <1>14, ReconnectAssumption DEF Reconnect, Awake, fileVars
<1>15. QED
    BY <1>4, <1>5, <1>6, <1>7, <1>8, <1>9, <1>10, <1>11, <1>12, <1>13, <1>14
    DEF Next, Progress, Launch, Fail, Stopped

\* A file that a crash left truncated is never served from, however often the process dies
\* and whatever write the crash interrupts: new and info panic on it.
THEOREM TornNoticed == Spec => []TornIsNoticed
<1>1. ITorn => TornIsNoticed
    BY DEF ITorn
<1>2. QED
    BY <1>1, InitTypes, NextTypes, InitTorn, NextTorn, PTL DEF Spec

----------------------------------------------------------------------------
(* The validators that a block rewards.                                      *)

Saved == DOMAIN validatorsFile # {}

\* The validators that a start would find: in the file or, before the first commit, in
\* the genesis state that Tendermint sends again.
Durable == IF Saved THEN DOMAIN validatorsFile ELSE DOMAIN GenesisValidators

\* Tendermint knows no validator that a start would not find, because a validator update
\* becomes durable before Tendermint learns that its block was applied.
IKnown ==
    /\ DOMAIN lastVals \cup DOMAIN curVals \cup DOMAIN nextVals \subseteq Durable
    /\ height > 0 => DOMAIN block.votes \cup {block.proposer} \subseteq Durable
    /\ pc \in {"block", "ended", "commit", "counted"} =>
            DOMAIN currentVotes \cup {currentProposer} \subseteq Durable
    /\ pc \notin {"down", "panicked"} /\ (connected \/ Saved) =>
            Durable \subseteq DOMAIN validators
    /\ pc \in {"ended", "commit", "counted", "rewarded"} =>
            DOMAIN results.updates \subseteq DOMAIN validators
    /\ pc \in {"down", "started", "ready", "panicked"} /\ heightFile = height
            /\ tmHeight < height => DOMAIN results.updates \subseteq Durable

\* When the files are written: the height before the validators, and both by the time
\* that a block is over.
IFiles ==
    /\ Saved \/ pc \in {"counted", "rewarded"} => heightFile \in Nat \ {0}
    /\ ~Saved /\ pc \notin {"counted", "rewarded"} =>
            heightFile \in {None, 0} \/ DOMAIN GenesisValidators = {}
    /\ pc \in {"block", "ended", "commit"} => heightFile < height
    /\ pc \in {"block", "ended", "commit", "counted", "rewarded"} => connected

IRewarded == "commit" \notin cut => IKnown /\ IFiles

\* A transaction that is delivered is one of the block's.
LEMMA DeliveredIsTx ==
    ASSUME ITypes, Deliver
    PROVE  /\ pc = "block" /\ Len(codes) \in Nat /\ height > 0
           /\ Len(codes) + 1 \in DOMAIN block.txs
           /\ block.txs[Len(codes) + 1] \in Txs
           /\ \E doubt \in Doubt : LET tx == block.txs[Len(codes) + 1] IN
                /\ DeliverTx(tx, doubt) \/ RefuseTx(tx, doubt)
                /\ codes' = Append(codes, Accepted(tx, doubt))
<1>1. pc = "block" /\ Len(codes) < Len(block.txs)
    BY DEF Deliver
<1>2. codes \in Seq(BOOLEAN) /\ block.txs \in Seq(Txs) /\ height > 0
    BY <1>1 DEF ITypes, TypeOK
<1>3. Len(codes) \in Nat /\ Len(codes) + 1 \in DOMAIN block.txs
    BY <1>1, <1>2
<1>4. QED
    BY <1>1, <1>2, <1>3 DEF Deliver

\* update_validators forgets no validator.
LEMMA DeliverKeepsValidators ==
    ASSUME ITypes, Deliver
    PROVE  DOMAIN validators \subseteq DOMAIN validators'
<1> DEFINE tx == block.txs[Len(codes) + 1]
           updates == StakeUpdates(tx)
<1>1. tx \in Txs /\ \E doubt : DeliverTx(tx, doubt) \/ RefuseTx(tx, doubt)
    BY DeliveredIsTx
<1>2. IsList(updates)
    BY <1>1, TxsAssumption, TransactionLists
<1> HIDE DEF tx
<1>3. CASE validators' = validators
    BY <1>3
<1>4. CASE validators' = AfterUpdates(validators, updates)[Len(updates)]
    <2> HIDE DEF updates
    <2>1. QED
        BY <1>2, <1>4, UpdatedDomain
<1>5. QED
    BY <1>1, <1>3, <1>4 DEF DeliverTx, RefuseTx, appVars

\* What a crash cut off stays cut off.
LEMMA CutGrows == [Next]_vars => cut \subseteq cut'
<1> SUFFICES ASSUME [Next]_vars PROVE cut \subseteq cut'
    OBVIOUS
<1> USE DEF appVars, faultVars
<1>1. CASE UNCHANGED vars
    BY <1>1 DEF vars
<1>2. CASE Launch \/ Handshake \/ Begin \/ End \/ SaveState \/ Decide
    BY <1>2
    DEF Launch, Start, Info, Handshake, InitChain, Begin, BeginBlock, End, EndBlock,
        SaveState, Decide
<1>3. CASE Deliver
    BY <1>3 DEF Deliver, DeliverTx, RefuseTx
<1>4. CASE Commit \/ StoreWorker
    BY <1>4
    DEF Commit, SendCommit, IncrementHeight, AddRewards, SaveValidators, StoreWorker,
        StoreCommitRecords, StoreCommitSpent
<1>5. CASE Fail
    BY <1>5 DEF Fail, Crash, Reconnect
<1>6. QED
    BY <1>1, <1>2, <1>3, <1>4, <1>5 DEF Next, Progress, Stopped

LEMMA InitRewarded == Init => IRewarded
<1> SUFFICES ASSUME Init PROVE IKnown /\ IFiles
    BY DEF IRewarded
<1>1. DOMAIN <<>> = {}
    OBVIOUS
<1>2. ~Saved
    BY <1>1 DEF Init, AppInit, Saved
<1>3. DOMAIN lastVals \cup DOMAIN curVals \cup DOMAIN nextVals \subseteq Durable
    BY <1>1, <1>2 DEF Init, GenesisPowers, Durable
<1>4. QED
    BY <1>2, <1>3 DEF Init, AppInit, IKnown, IFiles

LEMMA NextRewarded == ITypes /\ IRewarded /\ [Next]_vars => IRewarded'
<1> SUFFICES ASSUME ITypes, IRewarded, [Next]_vars, "commit" \notin cut'
             PROVE  IKnown' /\ IFiles'
    BY DEF IRewarded
<1>1. "commit" \notin cut
    BY CutGrows
<1>2. IKnown /\ IFiles
    BY <1>1 DEF IRewarded
<1>3. /\ heightFile \in Nat \cup {None} /\ height \in Nat /\ tmHeight \in Nat
      /\ Awake => heightFile \in Nat
      /\ pc \in PCs /\ None \notin Nat
    BY BoundsAssumption, CrashesAssumption DEF ITypes, TypeOK
<1> USE DEF IKnown, IFiles, Awake, PCs
<1>4. CASE UNCHANGED vars
    BY <1>2, <1>4 DEF vars, appVars, fileVars, blockVars, tmVars, Durable, Saved
<1>5. CASE Launch
    <2>1. UNCHANGED <<validatorsFile, connected, height, block, tmHeight, lastVals, curVals,
                      nextVals, results>> /\ ~connected
        BY <1>5 DEF Launch, Start, Info, fileVars, tmVars
    <2>2. Durable' = Durable /\ Saved' = Saved
        BY <2>1 DEF Durable, Saved
    <2>3. CASE Start
        <3>1. /\ pc = "down" /\ pc' \in {"panicked", "started"} /\ heightFile' = heightFile
              /\ pc' = "started" => validators' = validatorsFile
            BY <2>3 DEF Start, fileVars
        <3>2. Saved /\ pc' = "started" => Durable' = DOMAIN validators'
            BY <2>2, <3>1 DEF Durable
        <3>3. QED
            BY <1>2, <2>1, <2>2, <3>1, <3>2
    <2>4. CASE Info
        <3>1. /\ pc = "started" /\ pc' \in {"panicked", "ready"}
              /\ heightFile' \in {heightFile, IF heightFile = None THEN 0 ELSE heightFile}
              /\ validators' = validators
            BY <2>4 DEF Info
        <3>2. Durable \subseteq DOMAIN validators \/ ~Saved
            BY <1>2, <3>1
        <3>3. heightFile' # heightFile => heightFile = None /\ heightFile' = 0 /\ ~Saved
            BY <1>2, <1>3, <3>1
        <3>4. heightFile' = height /\ tmHeight < height =>
                    heightFile = heightFile'
            BY <1>3, <2>1, <3>3
        <3>5. QED
            BY <1>2, <2>1, <2>2, <3>1, <3>2, <3>3, <3>4
    <2>5. QED
        BY <1>5, <2>3, <2>4 DEF Launch
<1>6. CASE Handshake
    <2>1. UNCHANGED <<heightFile, validatorsFile, height, block, tmHeight, lastVals,
                      curVals, nextVals, results>>
        BY <1>6 DEF Handshake, InitChain, appVars, fileVars, tmVars
    <2>2. Durable' = Durable /\ Saved' = Saved
        BY <2>1 DEF Durable, Saved
    <2>3. pc = "ready" /\ pc' \in {"ready", "panicked"}
        BY <1>6 DEF Handshake, InitChain, appVars
    <2>4. pc' = "ready" => Durable' \subseteq DOMAIN validators'
        <3>1. CASE heightFile = 0
            <4>1. pc' = "ready" => validators' = GenesisValidators
                BY <1>6, <3>1 DEF Handshake, InitChain
            <4>2. ~Saved
                BY <1>2, <3>1
            <4>3. QED
                BY <2>2, <4>1, <4>2 DEF Durable
        <3>2. CASE heightFile # 0
            <4>1. validators' = validators
                BY <1>6, <3>2 DEF Handshake, appVars
            <4>2. ~Saved => Durable = {}
                BY <1>2, <1>3, <2>3, <3>2 DEF Durable
            <4>3. Saved => Durable \subseteq DOMAIN validators
                BY <1>2, <2>3
            <4>4. QED
                BY <2>2, <4>1, <4>2, <4>3
        <3>3. QED
            BY <3>1, <3>2
    <2>5. QED
        BY <1>2, <2>1, <2>2, <2>3, <2>4
<1>7. CASE Begin
    <2>1. UNCHANGED <<heightFile, validatorsFile, validators, connected, height, block,
                      tmHeight, lastVals, curVals, nextVals, results>>
        BY <1>7 DEF Begin, BeginBlock, fileVars, tmVars
    <2>2. Durable' = Durable /\ Saved' = Saved
        BY <2>1 DEF Durable, Saved
    <2>3. /\ pc = "ready" /\ pc' = "block" /\ connected /\ heightFile < height
          /\ currentVotes' = block.votes /\ currentProposer' = block.proposer
        BY <1>7 DEF Begin, BeginBlock, Idle
    <2>4. height > 0
        BY <1>3, <2>3
    <2>5. QED
        BY <1>2, <2>1, <2>2, <2>3, <2>4
<1>8. CASE Deliver
    <2>1. UNCHANGED <<heightFile, validatorsFile, connected, height, block, tmHeight,
                      lastVals, curVals, nextVals, results, currentVotes, currentProposer>>
        BY <1>8 DEF Deliver, DeliverTx, RefuseTx, appVars, fileVars, blockVars, tmVars
    <2>2. Durable' = Durable /\ Saved' = Saved
        BY <2>1 DEF Durable, Saved
    <2>3. pc = "block" /\ pc' \in {"block", "panicked"}
        BY <1>8 DEF Deliver, DeliverTx, RefuseTx, appVars
    <2>4. DOMAIN validators \subseteq DOMAIN validators'
        BY <1>8, DeliverKeepsValidators
    <2>5. heightFile # height
        BY <1>2, <1>3, <2>3
    <2>6. QED
        BY <1>2, <2>1, <2>2, <2>3, <2>4, <2>5
<1>9. CASE End
    <2>1. UNCHANGED <<heightFile, validatorsFile, validators, connected, height, block,
                      tmHeight, lastVals, curVals, nextVals, currentVotes, currentProposer>>
        BY <1>9 DEF End, EndBlock, fileVars, blockVars
    <2>2. Durable' = Durable /\ Saved' = Saved
        BY <2>1 DEF Durable, Saved
    <2>3. /\ pc = "block" /\ pc' = "ended"
          /\ results' = [codes |-> codes, updates |-> PendingUpdates]
        BY <1>9 DEF End, EndBlock
    <2>4. DOMAIN results'.updates \subseteq DOMAIN validators
        BY <2>3 DEF ITypes, TypeOK, PendingUpdates
    <2>5. QED
        BY <1>2, <2>1, <2>2, <2>3, <2>4
<1>10. CASE Commit
    <2>1. UNCHANGED <<connected, validators, height, block, tmHeight, lastVals, curVals,
                      nextVals, results, currentVotes, currentProposer>>
        BY <1>10
        DEF Commit, SendCommit, IncrementHeight, AddRewards, SaveValidators, blockVars,
            tmVars
    <2>2. CASE ~SaveValidators
        <3>1. validatorsFile' = validatorsFile
            BY <1>10, <2>2 DEF Commit, SendCommit, IncrementHeight, AddRewards, fileVars
        <3>2. Durable' = Durable /\ Saved' = Saved
            BY <3>1 DEF Durable, Saved
        <3>3. CASE SendCommit
            <4>1. pc = "ended" /\ pc' = "commit" /\ heightFile' = heightFile
                BY <3>3 DEF SendCommit, fileVars
            <4>2. QED
                BY <1>2, <2>1, <3>2, <4>1
        <3>4. CASE IncrementHeight
            <4>1. pc = "commit" /\ pc' = "counted" /\ heightFile' = heightFile + 1
                BY <3>4 DEF IncrementHeight
            <4>2. heightFile' \in Nat \ {0}
                BY <1>3, <4>1
            <4>3. QED
                BY <1>2, <2>1, <3>2, <4>1, <4>2
        <3>5. CASE AddRewards
            <4>1. pc = "counted" /\ heightFile' = heightFile
                BY <3>5 DEF AddRewards, fileVars
            <4>2. ~RewardsPanic
                BY <1>2, <4>1 DEF RewardsPanic
            <4>3. pc' = "rewarded"
                BY <3>5, <4>2 DEF AddRewards
            <4>4. QED
                BY <1>2, <2>1, <3>2, <4>1, <4>3
        <3>6. QED
            BY <1>10, <2>2, <3>3, <3>4, <3>5 DEF Commit
    <2>3. CASE SaveValidators
        <3>1. /\ pc = "rewarded" /\ pc' = "ready" /\ heightFile' = heightFile
              /\ validatorsFile' = validators
            BY <2>3 DEF SaveValidators
        <3>2. Durable \subseteq DOMAIN validators
            BY <1>2, <3>1
        <3>3. CASE DOMAIN validators = {}
            <4>1. ~Saved /\ DOMAIN GenesisValidators = {} /\ Durable' = {} /\ ~Saved'
                BY <3>1, <3>2, <3>3 DEF Durable, Saved
            <4>2. Durable = Durable'
                BY <3>2, <3>3, <4>1
            <4>3. DOMAIN results'.updates \subseteq Durable'
                BY <1>2, <2>1, <3>1, <3>3, <4>1
            <4>4. IKnown'
                BY <1>2, <2>1, <3>1, <3>2, <4>2, <4>3
            <4>5. QED
                BY <1>2, <2>1, <3>1, <4>1, <4>4
        <3>4. CASE DOMAIN validators # {}
            <4>1. Saved' /\ Durable' = DOMAIN validators
                BY <3>1, <3>4 DEF Durable, Saved
            <4>2. QED
                BY <1>2, <2>1, <3>1, <3>2, <4>1
        <3>5. QED
            BY <3>3, <3>4
    <2>4. QED
        BY <2>2, <2>3
<1>11. CASE StoreWorker
    <2>1. UNCHANGED <<heightFile, validatorsFile, validators, connected, height, block,
                      tmHeight, lastVals, curVals, nextVals, results, currentVotes,
                      currentProposer, pc>>
        BY <1>11
        DEF StoreWorker, StoreCommitRecords, StoreCommitSpent, fileVars, blockVars, tmVars
    <2>2. Durable' = Durable /\ Saved' = Saved
        BY <2>1 DEF Durable, Saved
    <2>3. QED
        BY <1>2, <2>1, <2>2
<1>12. CASE SaveState
    <2>1. UNCHANGED <<heightFile, validatorsFile, validators, connected, height, block,
                      results, currentVotes, currentProposer, pc>>
        BY <1>12 DEF SaveState, appVars, fileVars, blockVars
    <2>2. Durable' = Durable /\ Saved' = Saved
        BY <2>1 DEF Durable, Saved
    <2>3. pc = "ready" /\ heightFile = height /\ tmHeight < height
        BY <1>12 DEF SaveState, Idle
    <2>4. DOMAIN lastVals' \cup DOMAIN curVals' \cup DOMAIN nextVals' \subseteq Durable
        <3>1. CASE Refused(nextVals, results.updates)
            BY <1>2, <1>12, <3>1 DEF SaveState
        <3>2. CASE ~Refused(nextVals, results.updates)
            <4>1. /\ lastVals' = curVals /\ curVals' = nextVals
                  /\ nextVals' = Updated(nextVals, results.updates)
                BY <1>12, <3>2 DEF SaveState
            <4>2. DOMAIN nextVals' \subseteq DOMAIN nextVals \cup DOMAIN results.updates
                BY <4>1 DEF Updated
            <4>3. QED
                BY <1>2, <2>3, <4>1, <4>2
        <3>3. QED
            BY <3>1, <3>2
    <2>5. tmHeight' = tmHeight \/ tmHeight' = height
        BY <1>12 DEF SaveState
    <2>6. tmHeight' < height' => tmHeight < height
        BY <1>3, <2>1, <2>5
    <2>7. QED
        BY <1>2, <2>1, <2>2, <2>3, <2>4, <2>6
<1>13. CASE Decide
    <2>1. UNCHANGED <<heightFile, validatorsFile, validators, connected, currentVotes,
                      currentProposer, pc, tmHeight, lastVals, curVals, nextVals>>
        BY <1>13 DEF Decide, appVars, fileVars, blockVars
    <2>2. Durable' = Durable /\ Saved' = Saved
        BY <2>1 DEF Durable, Saved
    <2>3. pc = "ready" /\ heightFile' # height'
        BY <1>3, <1>13 DEF Decide, Idle, appVars, fileVars
    <2>4. DOMAIN block'.votes \cup {block'.proposer} \subseteq Durable
        <3>1. PICK txs \in SeqOf(Txs, MaxTxs), proposer \in DOMAIN curVals \cap Proposers,
                   votes \in Commits : block'.votes = votes /\ block'.proposer = proposer
            BY <1>13 DEF Decide
        <3>2. DOMAIN votes \subseteq DOMAIN lastVals
            BY DEF Commits
        <3>3. QED
            BY <1>2, <3>1, <3>2
    <2>5. QED
        BY <1>2, <2>1, <2>2, <2>3, <2>4
<1>14. CASE Fail
    <2>1. UNCHANGED <<heightFile, validatorsFile, height, block, tmHeight, lastVals,
                      curVals, nextVals, results>> /\ ~connected'
        BY <1>14 DEF Fail, Crash, Reconnect, fileVars, tmVars
    <2>2. Durable' = Durable /\ Saved' = Saved
        BY <2>1 DEF Durable, Saved
    <2>3. CASE Crash
        <3>1. pc' = "down" /\ pc \notin {"commit", "counted", "rewarded"}
            BY <2>3 DEF Crash
        <3>2. pc \in {"block", "ended"} => heightFile # height
            BY <1>2, <1>3
        <3>3. QED
            BY <1>2, <1>3, <2>1, <2>2, <3>1, <3>2
    <2>4. CASE Reconnect
        <3>1. /\ pc' = "started" /\ pc \in {"ready", "block", "ended"}
              /\ validators' = validators
            BY <2>4, ReconnectAssumption DEF Reconnect
        <3>2. pc \in {"block", "ended"} => heightFile # height
            BY <1>2, <1>3
        <3>3. QED
            BY <1>2, <1>3, <2>1, <2>2, <3>1, <3>2
    <2>5. QED
        BY <1>14, <2>3, <2>4 DEF Fail
<1>15. QED
    BY <1>4, <1>5, <1>6, <1>7, <1>8, <1>9, <1>10, <1>11, <1>12, <1>13, <1>14
    DEF Next, Progress, Stopped

\* Unless a crash cut a commit off, block_rewards finds the proposer and every voter of a
\* block, although Tendermint chose them from powers that are two blocks old: no validator
\* leaves the set, and the file holds each before Tendermint learns of it.
THEOREM RewardedKnown == Spec => []RewardedAreKnown
<1>1. IRewarded => RewardedAreKnown
    <2> SUFFICES ASSUME IRewarded, pc \in {"block", "ended", "commit", "counted"},
                        "commit" \notin cut
                 PROVE  DOMAIN currentVotes \cup {currentProposer}
                            \subseteq DOMAIN validators
        BY DEF RewardedAreKnown
    <2>1. IKnown /\ IFiles
        BY DEF IRewarded
    <2>2. connected
        BY <2>1 DEF IFiles
    <2>3. Durable \subseteq DOMAIN validators
        BY <2>1, <2>2 DEF IKnown
    <2>4. QED
        BY <2>1, <2>3 DEF IKnown
<1>2. QED
    BY <1>1, InitTypes, NextTypes, InitRewarded, NextRewarded, PTL DEF Spec

----------------------------------------------------------------------------
(* Panics.                                                                   *)

\* No transaction updates a validator twice.  The checks do not ensure it: see
\* CumulativeStakes, where two updates that are valid by themselves panic together.
TxsUpdateOnce == \A tx \in Txs : EachValidatorOnce(StakeUpdates(tx))

\* What can still panic while no commit was cut off: the genesis records, sent again.
IPanics ==
    /\ torn # {} => "commit" \in cut
    /\ pc = "panicked" /\ "commit" \notin cut => heightFile = 0 /\ crashes > 0
    /\ ~connected /\ crashes = 0 => known = {}
    /\ crashes = 0 => cut = {}

\* Every staking update of a transaction that passes the checks can be applied.
LEMMA DeliverDoesNotPanic ==
    ASSUME TxsUpdateOnce, ITypes, Deliver
    PROVE  pc' = "block"
<1> DEFINE tx == block.txs[Len(codes) + 1]
           updates == StakeUpdates(tx)
<1>1. pc = "block" /\ tx \in Txs
    BY DeliveredIsTx
<1> PICK doubt : DeliverTx(tx, doubt) \/ RefuseTx(tx, doubt)
    BY DeliveredIsTx
<1>2. IsList(updates) /\ EachValidatorOnce(updates)
    BY <1>1, TxsAssumption, TransactionLists DEF TxsUpdateOnce
<1> HIDE DEF tx
<1>3. CASE DeliverTx(tx, doubt)
    <2>1. \A n \in DOMAIN updates : ValidUpdate(validators, updates[n])
        <3>1. CASE tx.kind = "Deployment"
            <4>1. updates = <<>>
                BY <3>1 DEF StakeUpdates
            <4>2. QED
                BY <4>1
        <3>2. CASE tx.kind # "Deployment"
            BY <1>3, <3>2 DEF DeliverTx, Passes, ValidateTransaction, StakeUpdatesAreValid
        <3>3. QED
            BY <3>1, <3>2
    <2>2. ~UpdatesPanic(validators, updates)
        <3> HIDE DEF updates
        <3>1. QED
            BY <1>2, <2>1, ValidInTurn
    <2>3. QED
        BY <1>1, <1>3, <2>2 DEF DeliverTx
<1>4. CASE RefuseTx(tx, doubt)
    BY <1>1, <1>4 DEF RefuseTx, appVars
<1>5. QED
    BY <1>1, <1>3, <1>4

LEMMA InitPanics == Init => IPanics
    BY DEF Init, AppInit, IPanics, known

LEMMA NextPanics ==
    ASSUME TxsUpdateOnce
    PROVE  ITypes /\ IRewarded /\ IPanics /\ [Next]_vars => IPanics'
<1> SUFFICES ASSUME ITypes, IRewarded, IPanics, [Next]_vars PROVE IPanics'
    OBVIOUS
<1>1. crashes \in Nat /\ pc \in PCs /\ torn \subseteq {"height", "validators"}
    BY CrashesAssumption DEF ITypes, TypeOK
<1>2. cut \subseteq cut'
    BY CutGrows
<1> USE DEF IPanics, PCs
<1>3. CASE UNCHANGED vars
    BY <1>3 DEF vars, appVars, storeVars, fileVars, faultVars, known
<1>4. CASE Launch
    <2>1. /\ UNCHANGED <<torn, connected, known, crashes, cut>>
          /\ pc \in {"down", "started"}
          /\ pc' = "panicked" => torn # {}
        BY <1>4 DEF Launch, Start, Info, storeVars, fileVars, faultVars, known
    <2>2. QED
        BY <1>1, <2>1
<1>5. CASE Handshake
    <2>1. /\ UNCHANGED <<torn, heightFile, crashes, cut>> /\ connected' /\ ~connected
          /\ pc = "ready" /\ pc' \in {"ready", "panicked"}
          /\ pc' = "panicked" => heightFile = 0 /\ known # {}
        BY <1>5
        DEF Handshake, InitChain, appVars, storeVars, fileVars, faultVars
    <2>2. QED
        BY <1>1, <2>1
<1>6. CASE Begin \/ End
    <2>1. UNCHANGED <<torn, connected, known, crashes, cut>> /\ pc' \in {"block", "ended"}
        BY <1>6
        DEF Begin, BeginBlock, End, EndBlock, storeVars, fileVars, faultVars, tmVars, known
    <2>2. QED
        BY <2>1
<1>7. CASE Deliver
    <2>1. pc' = "block" /\ pc = "block"
        BY <1>7, DeliverDoesNotPanic DEF Deliver
    <2>2. UNCHANGED <<torn, connected, crashes, cut>>
        BY <1>7 DEF Deliver, DeliverTx, RefuseTx, appVars, fileVars, faultVars
    <2>3. crashes = 0 => connected
        BY <2>1 DEF IRewarded, IFiles
    <2>4. QED
        BY <2>1, <2>2, <2>3
<1>8. CASE Commit
    <2>1. UNCHANGED <<torn, connected, crashes, cut>>
        BY <1>8
        DEF Commit, SendCommit, IncrementHeight, AddRewards, SaveValidators, fileVars,
            faultVars
    <2>2. pc \in {"ended", "commit", "counted", "rewarded"}
        BY <1>8 DEF Commit, SendCommit, IncrementHeight, AddRewards, SaveValidators
    <2>3. crashes = 0 => connected
        BY <2>2 DEF IRewarded, IFiles
    <2>4. pc' = "panicked" => "commit" \in cut
        <3>1. pc' = "panicked" => RewardsPanic /\ pc = "counted"
            BY <1>8 DEF Commit, SendCommit, IncrementHeight, AddRewards, SaveValidators
        <3>2. QED
            BY <2>2, <3>1 DEF RewardsPanic, IRewarded, IKnown, IFiles
    <2>5. QED
        BY <2>1, <2>3, <2>4
<1>9. CASE StoreWorker
    <2>1. UNCHANGED <<torn, connected, heightFile, crashes, cut, pc>> /\ known' = known
        BY <1>9
        DEF StoreWorker, StoreCommitRecords, StoreCommitSpent, fileVars, faultVars, known
    <2>2. QED
        BY <2>1
<1>10. CASE SaveState \/ Decide
    <2>1. UNCHANGED <<torn, connected, heightFile, crashes, cut, pc, known>>
        BY <1>10 DEF SaveState, Decide, appVars, storeVars, fileVars, faultVars, known
    <2>2. QED
        BY <2>1
<1>11. CASE Fail
    <2>1. crashes' = crashes + 1 /\ pc' # "panicked"
        BY <1>11 DEF Fail, Crash, Reconnect
    <2>2. torn' # torn => "commit" \in cut'
        BY <1>11 DEF Fail, Crash, Reconnect, BeingWritten, fileVars
    <2>3. QED
        BY <1>1, <1>2, <2>1, <2>2
<1>12. QED
    BY <1>3, <1>4, <1>5, <1>6, <1>7, <1>8, <1>9, <1>10, <1>11 DEF Next, Progress, Stopped

\* No block makes the application panic as long as no crash cuts a commit off and each
\* transaction updates a validator at most once: staking updates can be applied, rewarded
\* validators are found, and no file is truncated.
THEOREM BlocksDoNotPanic ==
    ASSUME TxsUpdateOnce
    PROVE  Spec => []NeverPanics
<1>1. IPanics => NeverPanics
    BY DEF IPanics, NeverPanics
<1>2. ITypes /\ IRewarded /\ IPanics /\ [Next]_vars => IPanics'
    BY NextPanics
<1>3. QED
    BY <1>1, <1>2, InitTypes, NextTypes, InitRewarded, NextRewarded, InitPanics, PTL
    DEF Spec

----------------------------------------------------------------------------
(* Serial numbers.  One is consumed by one transaction of a block, and by no *)
(* two blocks, also when a block is executed again.                          *)

\* The serial numbers that the accepted ones of some transactions consume.
ConsumedBy(txs, answers) ==
    UNION {ToSet(RecordSerialNumbers(txs[i])) : i \in {n \in DOMAIN answers : answers[n]}}

\* What an accepted transaction consumes is spent as long as the block lasts, on disk when
\* its validators are saved, and so on disk whenever Tendermint counts the block as applied.
ISpentBlock ==
    /\ consumed \subseteq dbSpent
    /\ pc \in {"block", "ended", "commit", "counted", "rewarded"} =>
            ConsumedBy(block.txs, codes) \subseteq spent
    /\ pc \in {"ended", "commit", "counted", "rewarded"} => results.codes = codes
    /\ pc \in {"commit", "counted"} /\ storeCommit = "none" => spentBuffer = {}
    /\ pc = "rewarded" => storeCommit = "none" /\ spentBuffer = {}
    /\ pc \in {"down", "started", "ready", "panicked"} /\ heightFile = height
            /\ tmHeight < height => ConsumedBy(block.txs, results.codes) \subseteq dbSpent

ISpent == "commit" \notin cut => ISpentBlock /\ NoDoubleSpend

\* One more answer adds what its transaction consumes, if it was accepted.
LEMMA ConsumedByNext ==
    ASSUME NEW txs, NEW answers \in Seq(BOOLEAN), NEW answer \in BOOLEAN
    PROVE  ConsumedBy(txs, Append(answers, answer)) =
                ConsumedBy(txs, answers) \cup
                    (IF answer THEN ToSet(RecordSerialNumbers(txs[Len(answers) + 1]))
                               ELSE {})
<1> DEFINE n == Len(answers)
           more == Append(answers, answer)
           Yes(s) == {i \in DOMAIN s : s[i]}
<1>1. /\ n \in Nat /\ DOMAIN answers = 1..n /\ DOMAIN more = 1..(n + 1)
      /\ \A i \in 1..n : more[i] = answers[i]
      /\ more[n + 1] = answer
    OBVIOUS
<1> HIDE DEF more, n
<1>2. Yes(more) = Yes(answers) \cup (IF answer THEN {n + 1} ELSE {})
    <2>1. \A i \in 1..(n + 1) : i \in 1..n \/ i = n + 1
        BY <1>1
    <2>2. \A i \in 1..n : i \in 1..(n + 1) /\ i # n + 1
        BY <1>1
    <2>3. n + 1 \in 1..(n + 1)
        BY <1>1
    <2>4. CASE answer
        BY <1>1, <2>1, <2>2, <2>3, <2>4, Zenon
    <2>5. CASE ~answer
        BY <1>1, <2>1, <2>2, <2>3, <2>5, Zenon
    <2>6. QED
        BY <2>4, <2>5
<1> DEFINE S(i) == ToSet(RecordSerialNumbers(txs[i]))
<1>3. \A s : ConsumedBy(txs, s) = UNION {S(i) : i \in Yes(s)}
    BY DEF ConsumedBy
<1> HIDE DEF S, Yes
<1>4. CASE answer
    <2>1. UNION {S(i) : i \in Yes(answers) \cup {n + 1}} =
                (UNION {S(i) : i \in Yes(answers)}) \cup S(n + 1)
        OBVIOUS
    <2>2. ConsumedBy(txs, more) = ConsumedBy(txs, answers) \cup S(n + 1)
        BY <1>2, <1>3, <1>4, <2>1
    <2>3. QED
        BY <1>4, <2>2 DEF more, n, S
<1>5. CASE ~answer
    BY <1>2, <1>3, <1>5 DEF more, n, S
<1>6. QED
    BY <1>4, <1>5

\* deliver_tx accepts a transaction only if nothing that it consumes was spent, and then
\* all of that is.
LEMMA DeliverSpends ==
    ASSUME ITypes, Deliver, pc' # "panicked"
    PROVE  \E answer \in BOOLEAN :
            LET serials == Serials(Len(codes) + 1) IN
            /\ codes' = Append(codes, answer)
            /\ spent \subseteq spent'
            /\ answer => serials \cap spent = {} /\ serials \subseteq spent'
<1> DEFINE tx == block.txs[Len(codes) + 1]
           records == RecordSerialNumbers(tx)
<1> PICK doubt :
        /\ DeliverTx(tx, doubt) \/ RefuseTx(tx, doubt)
        /\ codes' = Append(codes, Accepted(tx, doubt))
    BY DeliveredIsTx
<1>1. tx \in Txs
    BY DeliveredIsTx
<1>2. codes' = Append(codes, Accepted(tx, doubt)) /\ Accepted(tx, doubt) \in BOOLEAN
    BY DEF Accepted
<1>3. Serials(Len(codes) + 1) = ToSet(records)
    BY DEF Serials
<1>4. IsList(records)
    BY <1>1, TxsAssumption, TransactionLists
<1>5. spent \subseteq spent'
    BY DEF DeliverTx, RefuseTx, appVars, storeVars, spent
<1>6. ASSUME Accepted(tx, doubt)
      PROVE  ToSet(records) \cap spent = {} /\ ToSet(records) \subseteq spent'
    <2>1. Passes(tx, spent, programs, validators, doubt) /\ AllStored(records, spent)
        BY <1>6 DEF Accepted, Stores, Spends
    <2>2. DeliverTx(tx, doubt)
        BY <2>1 DEF RefuseTx
    <2>3. spentBuffer' = spentBuffer \cup StoredBefore(records, spent)
        BY <2>2 DEF DeliverTx
    <2>4. StoredBefore(records, spent) = ToSet(records)
        BY <1>4, <2>1, AllAreStored
    <2>5. ToSet(records) \cap spent = {}
        BY <2>1 DEF AllStored
    <2>6. QED
        BY <2>3, <2>4, <2>5 DEF spent
<1> HIDE DEF tx, records
<1>7. QED
    BY <1>2, <1>3, <1>5, <1>6

\* An answer that is accepted leaves NoDoubleSpend as it was.
LEMMA DeliverSpendsOnce ==
    ASSUME ITypes, ISpentBlock, NoDoubleSpend, Deliver, pc' # "panicked"
    PROVE  NoDoubleSpend' /\ ConsumedBy(block.txs, codes') \subseteq spent'
<1>1. PICK answer \in BOOLEAN :
            LET serials == Serials(Len(codes) + 1) IN
            /\ codes' = Append(codes, answer)
            /\ spent \subseteq spent'
            /\ answer => serials \cap spent = {} /\ serials \subseteq spent'
    BY DeliverSpends
<1> DEFINE n == Len(codes)
<1>2. pc = "block" /\ codes \in Seq(BOOLEAN)
    BY DEF Deliver, ITypes, TypeOK
<1>3. /\ n \in Nat /\ DOMAIN codes = 1..n /\ DOMAIN codes' = 1..(n + 1)
      /\ \A i \in 1..n : codes'[i] = codes[i]
      /\ codes'[n + 1] = answer
    BY <1>1, <1>2
<1>4. UNCHANGED <<block, consumed>> /\ \A i : Serials(i)' = Serials(i)
    BY DEF Deliver, tmVars, Serials
<1>5. ConsumedBy(block.txs, codes) \subseteq spent /\ consumed \subseteq spent
    BY <1>2 DEF ISpentBlock, spent
<1>6. \A j \in 1..n : codes[j] => Serials(j) \subseteq spent
    BY <1>3, <1>5 DEF ConsumedBy, Serials
<1>7. ASSUME NEW i \in 1..(n + 1), codes'[i]
      PROVE  /\ Serials(i) \cap consumed = {}
             /\ \A j \in 1..(i - 1) : codes'[j] => Serials(i) \cap Serials(j) = {}
    <2> HIDE DEF n
    <2>1. CASE i \in 1..n
        <3>1. \A j \in 1..(i - 1) : j \in 1..n
            BY <1>3, <2>1
        <3>2. QED
            BY <1>2, <1>3, <1>7, <2>1, <3>1 DEF NoDoubleSpend
    <2>2. CASE i = n + 1
        <3>1. Serials(i) \cap spent = {}
            BY <1>1, <1>3, <1>7, <2>2 DEF n
        <3>2. \A j \in 1..(i - 1) : j \in 1..n
            BY <1>3, <2>2
        <3>3. QED
            BY <1>3, <1>5, <1>6, <3>1, <3>2
    <2>3. QED
        BY <1>3, <2>1, <2>2
<1>8. NoDoubleSpend'
    <2> HIDE DEF n
    <2>1. QED
        BY <1>3, <1>4, <1>7 DEF NoDoubleSpend
<1>9. ConsumedBy(block.txs, codes') \subseteq spent'
    <2>1. ConsumedBy(block.txs, codes') =
            ConsumedBy(block.txs, codes) \cup
                (IF answer THEN ToSet(RecordSerialNumbers(block.txs[n + 1])) ELSE {})
        BY <1>1, <1>2, ConsumedByNext
    <2>2. answer => ToSet(RecordSerialNumbers(block.txs[n + 1])) \subseteq spent'
        BY <1>1 DEF Serials
    <2>3. QED
        BY <1>1, <1>5, <2>1, <2>2
<1>10. QED
    BY <1>8, <1>9

LEMMA InitSpent == Init => ISpent
<1> SUFFICES ASSUME Init PROVE ISpentBlock /\ NoDoubleSpend
    BY DEF ISpent
<1>1. QED
    BY DEF Init, AppInit, ISpentBlock, NoDoubleSpend

LEMMA NextSpent == ITypes /\ IRewarded /\ ISpent /\ [Next]_vars => ISpent'
<1> SUFFICES ASSUME ITypes, IRewarded, ISpent, [Next]_vars, "commit" \notin cut'
             PROVE  ISpentBlock' /\ NoDoubleSpend'
    BY DEF ISpent
<1>1. "commit" \notin cut
    BY CutGrows
<1>2. ISpentBlock /\ NoDoubleSpend /\ IKnown /\ IFiles
    BY <1>1 DEF ISpent, IRewarded
<1>3. /\ heightFile \in Nat \cup {None} /\ height \in Nat /\ tmHeight \in Nat
      /\ pc \in PCs /\ None \notin Nat
    BY BoundsAssumption, CrashesAssumption DEF ITypes, TypeOK
<1> USE DEF ISpentBlock, PCs
<1>4. ASSUME UNCHANGED <<dbSpent, spentBuffer, storeCommit, pc, codes, tmVars, heightFile>>
      PROVE  ISpentBlock' /\ NoDoubleSpend'
    BY <1>2, <1>4 DEF tmVars, NoDoubleSpend, Serials, spent
<1>5. CASE UNCHANGED vars
    BY <1>4, <1>5 DEF vars, appVars, storeVars, fileVars
<1>6. CASE Launch
    <2>1. UNCHANGED <<dbSpent, tmVars>>
        BY <1>6 DEF Launch, Start, Info, storeVars
    <2>2. /\ pc \in {"down", "started"} /\ pc' \in {"started", "ready", "panicked"}
          /\ heightFile' \in {heightFile, 0}
          /\ heightFile' # heightFile => heightFile = None
        BY <1>6 DEF Launch, Start, Info, fileVars
    <2>3. heightFile' = height /\ tmHeight < height => heightFile = height
        BY <1>3, <2>2
    <2>4. QED
        BY <1>2, <2>1, <2>2, <2>3 DEF tmVars, NoDoubleSpend
<1>7. CASE Handshake
    <2>1. UNCHANGED <<dbSpent, heightFile, tmVars>>
        BY <1>7 DEF Handshake, InitChain, appVars, storeVars, fileVars
    <2>2. pc = "ready" /\ pc' \in {"ready", "panicked"}
        BY <1>7 DEF Handshake, InitChain, appVars
    <2>3. QED
        BY <1>2, <2>1, <2>2 DEF tmVars, NoDoubleSpend
<1>8. CASE Begin
    <2>1. UNCHANGED <<dbSpent, heightFile, tmVars>> /\ pc' = "block" /\ codes' = <<>>
        BY <1>8 DEF Begin, BeginBlock, storeVars, fileVars
    <2>2. DOMAIN codes' = {}
        BY <2>1
    <2>3. ConsumedBy(block.txs, codes') = {}
        BY <2>2 DEF ConsumedBy
    <2>4. QED
        BY <1>2, <2>1, <2>2, <2>3 DEF tmVars, NoDoubleSpend
<1>9. CASE Deliver
    <2>1. UNCHANGED <<dbSpent, heightFile, tmVars>> /\ pc = "block"
                /\ pc' \in {"block", "panicked"}
        BY <1>9 DEF Deliver, DeliverTx, RefuseTx, appVars, storeVars, fileVars
    <2>2. heightFile # height
        BY <1>2, <1>3, <2>1 DEF IFiles
    <2>3. CASE pc' = "panicked"
        BY <1>2, <2>1, <2>2, <2>3 DEF tmVars, NoDoubleSpend
    <2>4. CASE pc' # "panicked"
        <3>1. NoDoubleSpend' /\ ConsumedBy(block.txs, codes') \subseteq spent'
            BY <1>2, <1>9, <2>4, DeliverSpendsOnce
        <3>2. QED
            BY <1>2, <2>1, <2>4, <3>1 DEF tmVars
    <2>5. QED
        BY <2>3, <2>4
<1>10. CASE End
    <2>1. /\ UNCHANGED <<dbSpent, spentBuffer, codes, height, block, tmHeight, consumed>>
          /\ pc = "block" /\ pc' = "ended" /\ results'.codes = codes
        BY <1>10 DEF End, EndBlock, storeVars
    <2>2. QED
        BY <1>2, <2>1 DEF NoDoubleSpend, Serials, spent
<1>11. CASE Commit
    <2>1. UNCHANGED <<dbSpent, spentBuffer, codes, tmVars>>
        BY <1>11
        DEF Commit, SendCommit, IncrementHeight, AddRewards, SaveValidators, storeVars
    <2>2. CASE SendCommit
        <3>1. pc = "ended" /\ pc' = "commit" /\ storeCommit' = "queued"
            BY <2>2 DEF SendCommit
        <3>2. QED
            BY <1>2, <2>1, <3>1 DEF tmVars, NoDoubleSpend, spent
    <2>3. CASE IncrementHeight
        <3>1. pc = "commit" /\ pc' = "counted" /\ storeCommit' = storeCommit
            BY <2>3 DEF IncrementHeight
        <3>2. QED
            BY <1>2, <2>1, <3>1 DEF tmVars, NoDoubleSpend, spent
    <2>4. CASE AddRewards
        <3>1. pc = "counted"
            BY <2>4 DEF AddRewards
        <3>2. ~RewardsPanic
            BY <1>2, <3>1 DEF IKnown, IFiles, RewardsPanic
        <3>3. pc' = "rewarded" /\ storeCommit = "none" /\ storeCommit' = "none"
            BY <2>4, <3>2 DEF AddRewards
        <3>4. QED
            BY <1>2, <2>1, <3>1, <3>3 DEF tmVars, NoDoubleSpend, spent
    <2>5. CASE SaveValidators
        <3>1. pc = "rewarded" /\ pc' = "ready"
            BY <2>5 DEF SaveValidators
        <3>2. ConsumedBy(block.txs, results.codes) \subseteq dbSpent
            BY <1>2, <3>1 DEF spent
        <3>3. QED
            BY <1>2, <2>1, <3>1, <3>2 DEF tmVars, NoDoubleSpend
    <2>6. QED
        BY <1>11, <2>2, <2>3, <2>4, <2>5 DEF Commit
<1>12. CASE StoreWorker
    <2>1. UNCHANGED <<codes, tmVars, pc, heightFile>>
        BY <1>12 DEF StoreWorker, StoreCommitRecords, StoreCommitSpent, fileVars
    <2>2. CASE StoreCommitRecords
        <3>1. UNCHANGED <<dbSpent, spentBuffer>> /\ storeCommit = "queued"
                /\ storeCommit' = "spent"
            BY <2>2 DEF StoreCommitRecords
        <3>2. QED
            BY <1>2, <2>1, <3>1 DEF tmVars, NoDoubleSpend, Serials, spent
    <2>3. CASE StoreCommitSpent
        <3>1. /\ dbSpent' = dbSpent \cup spentBuffer /\ spentBuffer' = {}
              /\ storeCommit = "spent" /\ storeCommit' = "none"
            BY <2>3 DEF StoreCommitSpent
        <3>2. spent' = spent /\ dbSpent \subseteq dbSpent'
            BY <3>1 DEF spent
        <3>3. NoDoubleSpend'
            BY <1>2, <2>1 DEF tmVars, NoDoubleSpend, Serials
        <3>4. QED
            BY <1>2, <2>1, <3>1, <3>2, <3>3 DEF tmVars
    <2>4. QED
        BY <1>12, <2>2, <2>3 DEF StoreWorker
<1>13. CASE SaveState
    <2>1. /\ UNCHANGED <<dbSpent, heightFile, pc, height, block, results>>
          /\ pc = "ready" /\ heightFile = height /\ tmHeight < height
        BY <1>13 DEF SaveState, Idle, appVars, storeVars, fileVars
    <2>2. CASE Refused(nextVals, results.updates)
        <3>1. UNCHANGED <<tmHeight, consumed>>
            BY <1>13, <2>2 DEF SaveState
        <3>2. QED
            BY <1>2, <2>1, <3>1 DEF NoDoubleSpend
    <2>3. CASE ~Refused(nextVals, results.updates)
        <3>1. /\ tmHeight' = height
              /\ consumed' = consumed \cup ConsumedBy(block.txs, results.codes)
            BY <1>13, <2>3 DEF SaveState, ConsumedBy, Serials
        <3>2. consumed' \subseteq dbSpent
            BY <1>2, <2>1, <3>1
        <3>3. QED
            BY <1>3, <2>1, <3>1, <3>2 DEF NoDoubleSpend
    <2>4. QED
        BY <2>2, <2>3
<1>14. CASE Decide
    <2>1. /\ UNCHANGED <<dbSpent, pc, consumed>> /\ pc = "ready"
          /\ heightFile' = height /\ height' = height + 1
        BY <1>14 DEF Decide, Idle, appVars, storeVars, fileVars
    <2>2. heightFile' # height'
        BY <1>3, <2>1
    <2>3. QED
        BY <1>2, <2>1, <2>2 DEF NoDoubleSpend
<1>15. CASE Fail
    <2>1. UNCHANGED <<dbSpent, heightFile, tmVars>>
        BY <1>15 DEF Fail, Crash, Reconnect, storeVars, fileVars
    <2>2. pc' \in {"down", "started"} /\ pc \notin {"commit", "counted", "rewarded"}
        BY <1>15, ReconnectAssumption DEF Fail, Crash, Reconnect
    <2>3. pc \in {"block", "ended"} => heightFile # height
        BY <1>2, <1>3 DEF IFiles
    <2>4. QED
        BY <1>2, <1>3, <2>1, <2>2, <2>3 DEF tmVars, NoDoubleSpend
<1>16. QED
    BY <1>5, <1>6, <1>7, <1>8, <1>9, <1>10, <1>11, <1>12, <1>13, <1>14, <1>15
    DEF Next, Progress, Stopped

\* However a block is executed again (after a crash before its commit, or over the buffers
\* of its first attempt when only Tendermint restarted), no two accepted transactions of
\* the chain consume the same serial number.
THEOREM SpentOnceAfterReplay == Spec => []NoDoubleSpendAfterReplay
<1>1. ISpent => NoDoubleSpendAfterReplay
    BY DEF ISpent, NoDoubleSpendAfterReplay
<1>2. QED
    BY <1>1, InitTypes, NextTypes, InitRewarded, NextRewarded, InitSpent, NextSpent, PTL
    DEF Spec

----------------------------------------------------------------------------
(* Where no crash can cut a commit off, the condition goes away.             *)

CommitsAreWhole == CrashPoints \cap {"commit", "counted", "rewarded"} = {}
NoCommitCut == "commit" \notin cut

\* Only a crash between the first and the last step of commit is recorded as cutting it.
LEMMA NothingIsCut ==
    ASSUME CommitsAreWhole
    PROVE  Spec => []NoCommitCut
<1>1. Init => NoCommitCut
    BY DEF Init, AppInit, NoCommitCut
<1>2. NoCommitCut /\ [Next]_vars => NoCommitCut'
    <2> SUFFICES ASSUME NoCommitCut, [Next]_vars PROVE NoCommitCut'
        OBVIOUS
    <2> USE DEF NoCommitCut
    <2>1. CASE cut' = cut
        BY <2>1
    <2>2. CASE Fail
        BY <2>2 DEF Fail, Crash, Reconnect, CommitsAreWhole
    <2>3. CASE Launch \/ Handshake \/ Begin \/ End \/ SaveState \/ Decide
        BY <2>1, <2>3
        DEF Launch, Start, Info, Handshake, InitChain, Begin, BeginBlock, End, EndBlock,
            SaveState, Decide, appVars, faultVars
    <2>4. CASE Deliver
        BY <2>1, <2>4 DEF Deliver, DeliverTx, RefuseTx, appVars, faultVars
    <2>5. CASE Commit \/ StoreWorker
        BY <2>1, <2>5
        DEF Commit, SendCommit, IncrementHeight, AddRewards, SaveValidators, StoreWorker,
            StoreCommitRecords, StoreCommitSpent, faultVars
    <2>6. CASE UNCHANGED vars
        BY <2>1, <2>6 DEF vars, appVars, faultVars
    <2>7. QED
        BY <2>2, <2>3, <2>4, <2>5, <2>6 DEF Next, Progress, Stopped
<1>3. QED
    BY <1>1, <1>2, PTL DEF Spec

\* A node whose commits are never interrupted accepts no serial number twice.
THEOREM SpentOnce ==
    ASSUME CommitsAreWhole
    PROVE  Spec => []NoDoubleSpend
<1>1. NoCommitCut /\ NoDoubleSpendAfterReplay => NoDoubleSpend
    BY DEF NoCommitCut, NoDoubleSpendAfterReplay
<1>2. Spec => []NoCommitCut
    BY NothingIsCut
<1>3. QED
    BY <1>1, <1>2, SpentOnceAfterReplay, PTL
===============================================================================
