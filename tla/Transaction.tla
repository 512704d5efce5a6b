----------------------------- MODULE Transaction -----------------------------
(***************************************************************************)
(* Transactions (src/lib/transaction.rs) and what they are made of.         *)
(*                                                                          *)
(* A record is [name, owner, gates, seed, validator]: a credits record, a   *)
(* staked_credits record, which names its validator, or a record of another *)
(* program.  Its content with the nonce (seed) determines its commitment    *)
(* and its serial number, so the record stands for both.                    *)
(*                                                                          *)
(* A program is [id, functions, keys]: the names of its functions and those *)
(* its verifying keys are for, both in order.                               *)
(*                                                                          *)
(* A transition is [program, function, ins, outs, fee, stake, verified].    *)
(* stake is None or the staking update [validator, account, delta] that the *)
(* outputs of stake and unstake hold; verified is the verdict on its proof. *)
(*                                                                          *)
(* A transaction is [id, kind, program, transitions]: the program that a    *)
(* Deployment adds (None in an Execution), and the transitions of an        *)
(* Execution, or the fee transition, or none, of a Deployment.              *)
(***************************************************************************)
EXTENDS Integers, Sequences, SequencesExt

CONSTANTS
    None,
    Credits         \* the id of credits.aleo

IsList(s) == s \in Seq(ToSet(s))

\* What every decoded transaction is.
IsTransaction(tx) ==
    /\ IsList(tx.transitions)
    /\ \A i \in DOMAIN tx.transitions :
        LET t == tx.transitions[i] IN
        /\ IsList(t.ins) /\ IsList(t.outs)
        /\ t.fee \in Int
        /\ t.stake # None => t.stake.delta \in Int

MintRecord(owner, gates, seed) ==
    [name |-> "credits", owner |-> owner, gates |-> gates, seed |-> seed,
     validator |-> None]

RecordSerialNumbers(tx) ==
    FlattenSeq([i \in DOMAIN tx.transitions |-> tx.transitions[i].ins])

OutputRecords(tx) ==
    FlattenSeq([i \in DOMAIN tx.transitions |-> tx.transitions[i].outs])

Fees(tx) == SumFunction([i \in DOMAIN tx.transitions |-> tx.transitions[i].fee])

StakeUpdate(transition) == IF transition.stake = None THEN <<>> ELSE <<transition.stake>>

\* Slip against PowerIsStaked: unstaking is not reported.
StakesOnly(tx) ==
    IF tx.kind = "Deployment" THEN <<>>
    ELSE FlattenSeq([i \in DOMAIN tx.transitions |->
            IF tx.transitions[i].stake # None /\ tx.transitions[i].stake.delta < 0 THEN <<>>
            ELSE StakeUpdate(tx.transitions[i])])

\* The staking updates of an execution, in order.
StakeUpdates(tx) ==
    IF tx.kind = "Deployment" THEN <<>>
    ELSE FlattenSeq([i \in DOMAIN tx.transitions |-> StakeUpdate(tx.transitions[i])])

\* A staking transition of zero credits makes stake_updates fail.
StakeUpdatesFail(tx) == \E i \in DOMAIN StakeUpdates(tx) : StakeUpdates(tx)[i].delta = 0

\* What is hashed: of a deployed program its id and keys, not its code.
Hash(kind, program, transitions) ==
    <<kind, IF program = None THEN None ELSE <<program.id, program.keys>>, transitions>>

SetHashedId(kind, program, transitions) ==
    [id |-> Hash(kind, program, transitions), kind |-> kind, program |-> program,
     transitions |-> transitions]

Verify(tx) == tx.id = Hash(tx.kind, tx.program, tx.transitions)
============================================================================
