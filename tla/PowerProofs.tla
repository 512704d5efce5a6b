----------------------------- MODULE PowerProofs ------------------------------
(***************************************************************************)
(* Proofs that the application and Tendermint agree: on the height, and on  *)
(* the powers that the staking updates of the blocks so far gave.           *)
(***************************************************************************)
EXTENDS NodeProofs

\* Where each of the heights may stand: the file counts a block inside commit, Tendermint
\* counts it after commit, and decides the next one only then.
IHeights ==
    /\ tmHeight \in {height, height - 1}
    /\ heightFile = None => height = 0
    /\ heightFile # None => heightFile \in {height, height - 1} /\ tmHeight <= heightFile
    /\ pc \in {"block", "ended", "commit"} => heightFile < height
    /\ pc \in {"counted", "rewarded"} => heightFile = height /\ tmHeight < height

LEMMA InitHeights == Init => IHeights
    BY CrashesAssumption DEF Init, AppInit, IHeights

LEMMA NextHeights == ITypes /\ IHeights /\ [Next]_vars => IHeights'
<1> SUFFICES ASSUME ITypes, IHeights, [Next]_vars PROVE IHeights'
    OBVIOUS
<1>1. /\ heightFile \in Nat \cup {None} /\ height \in Nat /\ tmHeight \in Nat
      /\ Awake => heightFile \in Nat
      /\ pc \in PCs /\ None \notin Nat
    BY BoundsAssumption, CrashesAssumption DEF ITypes, TypeOK
<1> USE DEF IHeights, Awake, PCs
<1>2. CASE UNCHANGED <<heightFile, height, tmHeight, pc>>
    BY <1>2
<1>3. CASE UNCHANGED <<heightFile, height, tmHeight>>
                /\ pc' \in {"down", "started", "ready", "panicked"}
    BY <1>3
<1>4. CASE UNCHANGED vars \/ StoreWorker
    BY <1>2, <1>4
    DEF vars, appVars, fileVars, tmVars, StoreWorker, StoreCommitRecords, StoreCommitSpent
<1>5. CASE Launch
    <2>1. UNCHANGED <<height, tmHeight>>
        BY <1>5 DEF Launch, tmVars
    <2>2. CASE Start
        <3>1. heightFile' = heightFile /\ pc' \in {"started", "panicked"}
            BY <2>2 DEF Start, fileVars
        <3>2. QED
            BY <1>3, <2>1, <3>1
    <2>3. CASE Info
        <3>1. /\ pc' \in {"ready", "panicked"}
              /\ \/ heightFile' = heightFile
                 \/ heightFile = None /\ heightFile' = 0
            BY <2>3 DEF Info
        <3>2. QED
            BY <1>1, <2>1, <3>1
    <2>4. QED
        BY <1>5, <2>2, <2>3 DEF Launch
<1>6. CASE Handshake \/ Fail
    <2>1. UNCHANGED <<heightFile, height, tmHeight>>
        BY <1>6 DEF Handshake, InitChain, Fail, Crash, Reconnect, appVars, fileVars, tmVars
    <2>2. pc' \in {"down", "started", "ready", "panicked"}
        BY <1>6 DEF Handshake, InitChain, Fail, Crash, Reconnect, appVars
    <2>3. QED
        BY <1>3, <2>1, <2>2
<1>7. CASE Begin
    BY <1>1, <1>7 DEF Begin, BeginBlock, fileVars, tmVars
<1>8. CASE Deliver \/ End
    <2>1. /\ UNCHANGED <<heightFile, height, tmHeight>>
          /\ pc = "block" /\ pc' \in {"block", "ended", "panicked"}
        BY <1>8 DEF Deliver, DeliverTx, RefuseTx, End, EndBlock, appVars, fileVars, tmVars
    <2>2. QED
        BY <2>1
<1>9. CASE Commit
    <2>1. UNCHANGED <<height, tmHeight>>
        BY <1>9 DEF Commit, tmVars
    <2>2. CASE IncrementHeight
        BY <1>1, <2>1, <2>2 DEF IncrementHeight
    <2>3. CASE SendCommit \/ AddRewards \/ SaveValidators
        <3>1. heightFile' = heightFile
            BY <2>3 DEF SendCommit, AddRewards, SaveValidators, fileVars
        <3>2. \/ pc = "ended" /\ pc' = "commit"
              \/ pc = "counted" /\ pc' \in {"rewarded", "panicked"}
              \/ pc = "rewarded" /\ pc' = "ready"
            BY <2>3 DEF SendCommit, AddRewards, SaveValidators
        <3>3. QED
            BY <2>1, <3>1, <3>2
    <2>4. QED
        BY <1>9, <2>2, <2>3 DEF Commit
<1>10. CASE SaveState
    <2>1. /\ UNCHANGED <<heightFile, height, pc>> /\ pc = "ready" /\ heightFile = height
          /\ tmHeight' \in {tmHeight, height}
        BY <1>10 DEF SaveState, Idle, appVars, fileVars
    <2>2. QED
        BY <1>1, <2>1
<1>11. CASE Decide
    BY <1>1, <1>11 DEF Decide, Idle, appVars, fileVars
<1>12. QED
    BY <1>4, <1>5, <1>6, <1>7, <1>8, <1>9, <1>10, <1>11 DEF Next, Progress, Stopped

\* Wherever the two processes die, the handshake finds the application between the state
\* that Tendermint saved and the blocks that it stored, which are one block apart at most:
\* a block is counted inside commit and saved after it.
THEOREM HeightsClose == Spec => []HeightsAreClose
<1>1. ITypes /\ IHeights => HeightsAreClose
    BY BoundsAssumption DEF ITypes, TypeOK, IHeights, HeightsAreClose
<1>2. QED
    BY <1>1, InitTypes, NextTypes, InitHeights, NextHeights, PTL DEF Spec

----------------------------------------------------------------------------
(* Powers.                                                                   *)

DurableSet == IF Saved THEN validatorsFile ELSE GenesisValidators

\* The powers of a set of validators as Tendermint has them.
Positive(set) ==
    [v \in {u \in DOMAIN set : set[u].power > 0} |-> set[v].power]

SameValidators(set, other) ==
    DOMAIN set = DOMAIN other /\ \A v \in DOMAIN set : set[v] = other[v]

\* set is other but for the validators in updated.
SameButFor(set, other, updated) ==
    /\ DOMAIN other \subseteq DOMAIN set
    /\ \A v \in DOMAIN set \ updated : v \in DOMAIN other /\ set[v] = other[v]

\* Tendermint has the powers of the file, or will have them once it applied the updates
\* of the last block; the memory is the file with the updates of the current block.
IPowersHold ==
    /\ tmHeight = height \/ heightFile # height \/ pc \in {"counted", "rewarded"} =>
            nextVals = Positive(DurableSet)
    /\ tmHeight < height /\ heightFile = height /\ pc \notin {"counted", "rewarded"} =>
            Updated(nextVals, results.updates) = Positive(DurableSet)
    /\ pc \in {"started", "ready"} /\ (connected \/ Saved \/ heightFile \notin {None, 0}) =>
            SameValidators(validators, DurableSet)
    /\ pc \in {"block", "ended", "commit", "counted", "rewarded"} =>
            SameButFor(validators, DurableSet, updatedValidators)
    /\ pc \in {"ended", "commit", "counted", "rewarded"} =>
            /\ updatedValidators \subseteq DOMAIN validators
            /\ results.updates = [v \in updatedValidators |-> validators[v].power]

IPowers == cut = {} => IPowersHold

\* The updates of a block, applied to the powers before it, give the powers after it: those
\* of validators that the block left without power are gone, the others are the set's.
LEMMA UpdatedPositive ==
    ASSUME NEW set, NEW other, NEW updated, updated \subseteq DOMAIN set,
           SameButFor(set, other, updated)
    PROVE  Updated(Positive(other), [v \in updated |-> set[v].power]) = Positive(set)
<1> DEFINE vals == Positive(other)
           updates == [v \in updated |-> set[v].power]
           D == {u \in DOMAIN vals \cup DOMAIN updates :
                    u \in DOMAIN updates => updates[u] > 0}
           E == {u \in DOMAIN set : set[u].power > 0}
<1>1. /\ DOMAIN vals = {u \in DOMAIN other : other[u].power > 0}
      /\ \A v \in DOMAIN vals : vals[v] = other[v].power
      /\ DOMAIN updates = updated
      /\ \A v \in updated : updates[v] = set[v].power
    BY DEF Positive
<1> HIDE DEF vals, updates
<1>2. D = E
    <2>1. ASSUME NEW u \in D PROVE u \in E
        BY <1>1 DEF SameButFor
    <2>2. ASSUME NEW u \in E PROVE u \in D
        BY <1>1 DEF SameButFor
    <2>3. QED
        BY <2>1, <2>2
<1>3. \A v \in D : (IF v \in DOMAIN updates THEN updates[v] ELSE vals[v]) = set[v].power
    BY <1>1, <1>2 DEF SameButFor
<1>4. Updated(vals, updates) =
        [v \in D |-> IF v \in DOMAIN updates THEN updates[v] ELSE vals[v]]
    BY DEF Updated
<1>5. Positive(set) = [v \in E |-> set[v].power]
    BY DEF Positive
<1> HIDE DEF D, E
<1>6. [v \in D |-> IF v \in DOMAIN updates THEN updates[v] ELSE vals[v]]
            = [v \in D |-> set[v].power]
    BY <1>3, Zenon
<1>7. QED
    BY <1>2, <1>4, <1>5, <1>6 DEF vals, updates

\* Equal validators have equal powers.
LEMMA SamePositive ==
    ASSUME NEW set, NEW other, SameValidators(set, other)
    PROVE  Positive(set) = Positive(other)
    BY DEF SameValidators, Positive

LEMMA InitPowers == Init => IPowers
<1> SUFFICES ASSUME Init PROVE IPowersHold
    BY DEF IPowers
<1>1. ~Saved
    <2>1. DOMAIN <<>> = {}
        OBVIOUS
    <2>2. QED
        BY <2>1 DEF Init, AppInit, Saved
<1>2. nextVals = Positive(DurableSet)
    <2>1. {u \in DOMAIN GenesisValidators : GenesisValidators[u].power > 0} =
                DOMAIN GenesisValidators
        BY GenesisAssumption
    <2>2. Positive(GenesisValidators) = GenesisPowers
        BY <2>1 DEF Positive, GenesisPowers
    <2>3. QED
        BY <1>1, <2>2 DEF Init, DurableSet
<1>3. QED
    BY <1>1, <1>2 DEF Init, AppInit, IPowersHold

\* update_validators changes no validator but those it lists as updated.
LEMMA DeliverUpdates ==
    ASSUME ITypes, Deliver, NEW other, SameButFor(validators, other, updatedValidators)
    PROVE  SameButFor(validators', other, updatedValidators')
<1> DEFINE tx == block.txs[Len(codes) + 1]
           updates == StakeUpdates(tx)
<1>1. tx \in Txs /\ \E doubt : DeliverTx(tx, doubt) \/ RefuseTx(tx, doubt)
    BY DeliveredIsTx
<1>2. IsList(updates)
    BY <1>1, TxsAssumption, TransactionLists
<1>3. CASE UNCHANGED <<validators, updatedValidators>>
    BY <1>3 DEF SameButFor
<1>4. CASE /\ validators' = AfterUpdates(validators, updates)[Len(updates)]
           /\ updatedValidators' = updatedValidators \cup UpdatedBy(updates)
    <2> HIDE DEF updates
    <2>1. /\ DOMAIN validators' = DOMAIN validators \cup UpdatedBy(updates)
          /\ \A v \in DOMAIN validators \ UpdatedBy(updates) :
                validators'[v] = validators[v]
        BY <1>2, <1>4, UpdatedDomain
    <2>2. QED
        BY <1>4, <2>1 DEF SameButFor
<1> HIDE DEF tx
<1>5. QED
    BY <1>1, <1>3, <1>4 DEF DeliverTx, RefuseTx, appVars, blockVars

LEMMA NextPowers == ITypes /\ IRewarded /\ IHeights /\ IPowers /\ [Next]_vars => IPowers'
<1> SUFFICES ASSUME ITypes, IRewarded, IHeights, IPowers, [Next]_vars, cut' = {}
             PROVE  IPowersHold'
    BY DEF IPowers
<1>1. cut = {}
    BY CutGrows
<1>2. IPowersHold /\ IKnown /\ IFiles
    BY <1>1 DEF IPowers, IRewarded
<1>3. /\ heightFile \in Nat \cup {None} /\ height \in Nat /\ tmHeight \in Nat
      /\ Awake => heightFile \in Nat
      /\ pc \in PCs /\ None \notin Nat
    BY BoundsAssumption, CrashesAssumption DEF ITypes, TypeOK
<1> USE DEF IPowersHold, Awake, PCs
<1>4. CASE UNCHANGED vars \/ StoreWorker
    <2>1. UNCHANGED <<heightFile, height, tmHeight, pc, validatorsFile, validators,
                      nextVals, results, connected, updatedValidators>>
        BY <1>4
        DEF vars, appVars, fileVars, blockVars, tmVars, StoreWorker, StoreCommitRecords,
            StoreCommitSpent
    <2>2. Saved' = Saved /\ DurableSet' = DurableSet
        BY <2>1 DEF Saved, DurableSet
    <2>3. QED
        BY <1>2, <2>1, <2>2
<1>5. CASE Launch
    <2>1. UNCHANGED <<validatorsFile, height, tmHeight, nextVals, results, connected>>
                /\ ~connected
        BY <1>5 DEF Launch, Start, Info, fileVars, tmVars
    <2>2. Saved' = Saved /\ DurableSet' = DurableSet
        BY <2>1 DEF Saved, DurableSet
    <2>3. CASE Start
        <3>1. /\ pc = "down" /\ pc' \in {"started", "panicked"} /\ heightFile' = heightFile
              /\ pc' = "started" => validators' = validatorsFile
            BY <2>3 DEF Start, fileVars
        <3>2. ASSUME pc' = "started", Saved \/ heightFile \notin {None, 0}
              PROVE  SameValidators(validators', DurableSet)
            <4>1. CASE Saved
                BY <3>1, <3>2, <4>1 DEF SameValidators, DurableSet
            <4>2. CASE ~Saved
                <5>1. DOMAIN GenesisValidators = {} /\ DOMAIN validatorsFile = {}
                    BY <1>2, <3>1, <3>2, <4>2 DEF IFiles, Saved
                <5>2. QED
                    BY <3>1, <3>2, <4>2, <5>1 DEF SameValidators, DurableSet
            <4>3. QED
                BY <4>1, <4>2
        <3>3. QED
            BY <1>2, <2>1, <2>2, <3>1, <3>2
    <2>4. CASE Info
        <3>1. /\ pc = "started" /\ pc' \in {"ready", "panicked"} /\ validators' = validators
              /\ \/ heightFile' = heightFile
                 \/ heightFile = None /\ heightFile' = 0
            BY <2>4 DEF Info
        <3>2. CASE heightFile' = heightFile
            BY <1>2, <2>1, <2>2, <3>1, <3>2
        <3>3. CASE heightFile = None /\ heightFile' = 0
            <4>1. height = 0 /\ tmHeight = height /\ heightFile # height /\ ~Saved
                BY <1>2, <1>3, <3>3 DEF IHeights, IFiles
            <4>2. QED
                BY <1>2, <2>1, <2>2, <3>1, <3>3, <4>1
        <3>4. QED
            BY <3>1, <3>2, <3>3
    <2>5. QED
        BY <1>5, <2>3, <2>4 DEF Launch
<1>6. CASE Handshake
    <2>1. UNCHANGED <<heightFile, validatorsFile, height, tmHeight, nextVals, results>>
        BY <1>6 DEF Handshake, InitChain, appVars, fileVars, tmVars
    <2>2. Saved' = Saved /\ DurableSet' = DurableSet
        BY <2>1 DEF Saved, DurableSet
    <2>3. pc = "ready" /\ pc' \in {"ready", "panicked"}
        BY <1>6 DEF Handshake, InitChain, appVars
    <2>4. pc' = "ready" => SameValidators(validators', DurableSet)
        <3>1. CASE heightFile = 0
            <4>1. pc' = "ready" => validators' = GenesisValidators
                BY <1>6, <3>1 DEF Handshake, InitChain
            <4>2. ~Saved
                BY <1>2, <3>1 DEF IFiles
            <4>3. QED
                BY <4>1, <4>2 DEF SameValidators, DurableSet
        <3>2. CASE heightFile # 0
            <4>1. validators' = validators
                BY <1>6, <3>2 DEF Handshake, appVars
            <4>2. heightFile \notin {None, 0}
                BY <1>3, <2>3, <3>2
            <4>3. QED
                BY <1>2, <2>3, <4>1, <4>2
        <3>3. QED
            BY <3>1, <3>2
    <2>5. QED
        BY <1>2, <2>1, <2>2, <2>3, <2>4
<1>7. CASE Begin
    <2>1. UNCHANGED <<heightFile, validatorsFile, validators, height, tmHeight, nextVals,
                      results>>
        BY <1>7 DEF Begin, BeginBlock, fileVars, tmVars
    <2>2. Saved' = Saved /\ DurableSet' = DurableSet
        BY <2>1 DEF Saved, DurableSet
    <2>3. /\ pc = "ready" /\ pc' = "block" /\ connected /\ heightFile < height
          /\ updatedValidators' = {}
        BY <1>7 DEF Begin, BeginBlock, Idle
    <2>4. SameButFor(validators, DurableSet, {})
        BY <1>2, <2>3 DEF SameValidators, SameButFor
    <2>5. heightFile # height
        BY <1>3, <2>3
    <2>6. QED
        BY <1>2, <2>1, <2>2, <2>3, <2>4, <2>5
<1>8. CASE Deliver
    <2>1. UNCHANGED <<heightFile, validatorsFile, height, tmHeight, nextVals, results>>
        BY <1>8 DEF Deliver, DeliverTx, RefuseTx, appVars, fileVars, tmVars
    <2>2. Saved' = Saved /\ DurableSet' = DurableSet
        BY <2>1 DEF Saved, DurableSet
    <2>3. pc = "block" /\ pc' \in {"block", "panicked"}
        BY <1>8 DEF Deliver, DeliverTx, RefuseTx, appVars
    <2>4. heightFile # height
        BY <1>3, <2>3 DEF IHeights
    <2>5. SameButFor(validators', DurableSet, updatedValidators')
        <3> DEFINE other == DurableSet
        <3>1. SameButFor(validators, other, updatedValidators)
            BY <1>2, <2>3
        <3> HIDE DEF other
        <3>2. SameButFor(validators', other, updatedValidators')
            BY <1>8, <3>1, DeliverUpdates
        <3>3. QED
            BY <3>2 DEF other
    <2>6. QED
        BY <1>2, <2>1, <2>2, <2>3, <2>4, <2>5
<1>9. CASE End
    <2>1. UNCHANGED <<heightFile, validatorsFile, validators, height, tmHeight, nextVals,
                      updatedValidators>>
        BY <1>9 DEF End, EndBlock, fileVars, blockVars
    <2>2. Saved' = Saved /\ DurableSet' = DurableSet
        BY <2>1 DEF Saved, DurableSet
    <2>3. /\ pc = "block" /\ pc' = "ended"
          /\ results'.updates = [v \in updatedValidators |-> validators[v].power]
        BY <1>9 DEF End, EndBlock, PendingUpdates
    <2>4. updatedValidators \subseteq DOMAIN validators
        BY <2>3 DEF ITypes, TypeOK
    <2>5. heightFile # height
        BY <1>3, <2>3 DEF IHeights
    <2>6. QED
        BY <1>2, <2>1, <2>2, <2>3, <2>4, <2>5
<1>10. CASE Commit
    <2>1. UNCHANGED <<connected, validators, height, tmHeight, nextVals, results,
                      updatedValidators>>
        BY <1>10
        DEF Commit, SendCommit, IncrementHeight, AddRewards, SaveValidators, blockVars,
            tmVars
    <2>2. CASE ~SaveValidators
        <3>1. validatorsFile' = validatorsFile
            BY <1>10, <2>2 DEF Commit, SendCommit, IncrementHeight, AddRewards, fileVars
        <3>2. Saved' = Saved /\ DurableSet' = DurableSet
            BY <3>1 DEF Saved, DurableSet
        <3>3. CASE SendCommit
            <4>1. pc = "ended" /\ pc' = "commit" /\ heightFile' = heightFile
                BY <3>3 DEF SendCommit, fileVars
            <4>2. QED
                BY <1>2, <2>1, <3>2, <4>1
        <3>4. CASE IncrementHeight
            <4>1. pc = "commit" /\ pc' = "counted"
                BY <3>4 DEF IncrementHeight
            <4>2. heightFile # height
                BY <1>3, <4>1 DEF IHeights
            <4>3. QED
                BY <1>2, <2>1, <3>2, <4>1, <4>2
        <3>5. CASE AddRewards
            <4>1. pc = "counted" /\ heightFile' = heightFile
                BY <3>5 DEF AddRewards, fileVars
            <4>2. ~RewardsPanic
                BY <1>2, <4>1 DEF RewardsPanic, IKnown, IFiles
            <4>3. pc' = "rewarded"
                BY <3>5, <4>2 DEF AddRewards
            <4>4. QED
                BY <1>2, <2>1, <3>2, <4>1, <4>3
        <3>6. QED
            BY <1>10, <2>2, <3>3, <3>4, <3>5 DEF Commit
    <2>3. CASE SaveValidators
        <3>1. /\ pc = "rewarded" /\ pc' = "ready" /\ heightFile' = heightFile
              /\ validatorsFile' = validators
            BY <2>3 DEF SaveValidators
        <3>2. tmHeight < height /\ heightFile = height
            BY <3>1 DEF IHeights
        <3>3. Updated(nextVals, results.updates) = Positive(validators)
            BY <1>2, <3>1, UpdatedPositive
        <3>4. SameValidators(validators, DurableSet')
            <4>1. CASE DOMAIN validators # {}
                BY <3>1, <4>1 DEF SameValidators, DurableSet, Saved
            <4>2. CASE DOMAIN validators = {}
                <5>1. DOMAIN DurableSet = {}
                    BY <1>2, <3>1, <4>2 DEF SameButFor
                <5>2. ~Saved /\ ~Saved'
                    BY <3>1, <4>2, <5>1 DEF DurableSet, Saved
                <5>3. QED
                    BY <4>2, <5>1, <5>2 DEF SameValidators, DurableSet
            <4>3. QED
                BY <4>1, <4>2
        <3>5. Positive(validators) = Positive(DurableSet')
            <4> DEFINE other == DurableSet'
            <4>1. SameValidators(validators, other)
                BY <3>4
            <4> HIDE DEF other
            <4>2. Positive(validators) = Positive(other)
                BY <4>1, SamePositive
            <4>3. QED
                BY <4>2 DEF other
        <3>6. tmHeight' # height'
            BY <1>3, <2>1, <3>2
        <3>7. QED
            BY <2>1, <3>1, <3>2, <3>3, <3>4, <3>5, <3>6
    <2>4. QED
        BY <2>2, <2>3
<1>11. CASE SaveState
    <2>1. UNCHANGED <<heightFile, validatorsFile, validators, connected, height, results,
                      pc>>
        BY <1>11 DEF SaveState, appVars, fileVars
    <2>2. Saved' = Saved /\ DurableSet' = DurableSet
        BY <2>1 DEF Saved, DurableSet
    <2>3. pc = "ready" /\ heightFile = height /\ tmHeight < height
        BY <1>11 DEF SaveState, Idle
    <2>4. CASE Refused(nextVals, results.updates)
        <3>1. UNCHANGED <<tmHeight, nextVals>>
            BY <1>11, <2>4 DEF SaveState
        <3>2. QED
            BY <1>2, <2>1, <2>2, <2>3, <3>1
    <2>5. CASE ~Refused(nextVals, results.updates)
        <3>1. tmHeight' = height /\ nextVals' = Updated(nextVals, results.updates)
            BY <1>11, <2>5 DEF SaveState
        <3>2. nextVals' = Positive(DurableSet)
            BY <1>2, <2>3, <3>1
        <3>3. QED
            BY <1>2, <1>3, <2>1, <2>2, <2>3, <3>1, <3>2
    <2>6. QED
        BY <2>4, <2>5
<1>12. CASE Decide
    <2>1. UNCHANGED <<heightFile, validatorsFile, validators, connected, tmHeight,
                      nextVals, pc>>
        BY <1>12 DEF Decide, appVars, fileVars
    <2>2. Saved' = Saved /\ DurableSet' = DurableSet
        BY <2>1 DEF Saved, DurableSet
    <2>3. pc = "ready" /\ tmHeight = height /\ heightFile = height /\ height' = height + 1
        BY <1>12 DEF Decide, Idle
    <2>4. QED
        BY <1>2, <1>3, <2>1, <2>2, <2>3
<1>13. CASE Fail
    <2>1. UNCHANGED <<heightFile, validatorsFile, height, tmHeight, nextVals, results>>
                /\ ~connected'
        BY <1>13 DEF Fail, Crash, Reconnect, fileVars, tmVars
    <2>2. Saved' = Saved /\ DurableSet' = DurableSet
        BY <2>1 DEF Saved, DurableSet
    <2>3. CASE Crash
        <3>1. pc' = "down" /\ pc \notin {"commit", "counted", "rewarded"}
            BY <2>3 DEF Crash
        <3>2. QED
            BY <1>2, <2>1, <2>2, <3>1
    <2>4. CASE Reconnect
        <3>1. pc = "ready"
            BY <2>4, ReconnectAssumption DEF Reconnect
        <3>2. pc' = "started" /\ validators' = validators
            BY <2>4 DEF Reconnect
        <3>3. SameValidators(validators, DurableSet) \/ (~Saved /\ heightFile \in {None, 0})
            BY <1>2, <3>1
        <3>4. QED
            BY <1>2, <2>1, <2>2, <3>1, <3>2, <3>3
    <2>5. QED
        BY <1>13, <2>3, <2>4 DEF Fail
<1>14. QED
    BY <1>4, <1>5, <1>6, <1>7, <1>8, <1>9, <1>10, <1>11, <1>12, <1>13
    DEF Next, Progress, Stopped

\* When a block is over, Tendermint's powers are those of the application's validator set,
\* whatever staking updates it held and however often it was executed again after a crash
\* of the process between two calls: end_block reported each change once, and validators
\* left without power as gone.
THEOREM PowersMatch == Spec => []PowersMatchTendermint
<1>1. ITypes /\ IRewarded /\ IHeights /\ IPowers => PowersMatchTendermint
    <2> SUFFICES ASSUME IPowers, CaughtUp, cut = {}
                 PROVE  nextVals = Positive(validators)
        BY DEF PowersMatchTendermint, Positive
    <2>1. IPowersHold /\ connected /\ pc = "ready" /\ tmHeight = height
        BY DEF IPowers, CaughtUp, Idle
    <2>2. nextVals = Positive(DurableSet) /\ SameValidators(validators, DurableSet)
        BY <2>1 DEF IPowersHold
    <2>3. QED
        BY <2>2, SamePositive
<1>2. QED
    BY <1>1, InitTypes, NextTypes, InitRewarded, NextRewarded, InitHeights, NextHeights,
       InitPowers, NextPowers, PTL
    DEF Spec
===============================================================================
