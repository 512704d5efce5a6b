------------------------------- MODULE NodeMC -------------------------------
(* A small network: account a is behind the genesis validator v, account b     *)
(* stakes on the new validator w, account c is a customer, behind u if any.    *)
EXTENDS Node

CONSTANTS a, b, c, u, v, w, app

\* Two records of a (the second one pays fees), one of b.
A60 == MintRecord(a, 60, 1234)
A15 == MintRecord(a, 15, 1234)
B40 == MintRecord(b, 40, 1234)
MCGenesisRecords == {A60, A15, B40}
MCGenesisValidators == v :> [account |-> a, power |-> 10]

\* A second validator, which need not sign; the product for v's share wraps with U64 = 5800
\* when there are fees.
MCTwoValidators == v :> [account |-> a, power |-> 115] @@ u :> [account |-> c, power |-> 30]

\* records.aleo.
Records == [id |-> app, functions |-> <<"mint", "consume", "mint_credits">>, keys |-> <<>>]

Call(program, function, records, amount, to) ==
    [program |-> program, function |-> function, records |-> records, amount |-> amount,
     to |-> to]
Credit(account, function, records, amount, to, fee, seed) ==
    BuildExecution(account, Call(CreditsProgram, function, records, amount, to), fee, seed)
Fee(gates, record) == [gates |-> gates, record |-> record]

\* a pays c, keeps the change, and pays a fee with its other record.
Pay == Credit(a, "transfer", <<A60>>, 30, c, Fee(5, A15), 101)
\* a spends the same record again.
PayAgain == Credit(a, "fee", <<A60>>, 3, None, None, 110)
\* b combines a record with itself.
SpendTwice == Credit(b, "combine", <<B40, B40>>, 0, None, None, 20)
\* b stakes on w; takes half of it back; takes everything back.
Stake == Credit(b, "stake", <<B40>>, 10, w, None, 30)
OnW == StakedRecord(b, 10, 31, w)
UnstakeHalf == Credit(b, "unstake", <<OnW>>, 5, None, None, 40)
UnstakeAll == Credit(b, "unstake", <<OnW>>, 10, None, None, 50)
\* c stakes on w too, which belongs to the first account that stakes on it.
StakeOther == Credit(c, "stake", <<MintRecord(c, 30, 101)>>, 20, w, None, 60)
\* a deploys a program and pays the fee; c mints a token and pays with what it got.
Deploy == BuildDeployment(a, Records, Fee(10, MintRecord(a, 30, 102)), 70)
Run == BuildExecution(c, Call(Records, "mint", <<>>, 0, c),
                      Fee(2, MintRecord(c, 30, 101)), 80)
\* a makes credits from nothing, which is a negative fee.
Coinbase == BuildExecution(a, Call(Records, "mint_credits", <<>>, 200, a), None, 90)

MCTxs ==
    {Pay, SpendTwice, Stake, UnstakeHalf, UnstakeAll, StakeOther, Deploy, Run, Coinbase}

\* Two that spend the same record, after the one that makes it.  (A program stays deployed
\* when its block is replayed, which refuses the deployment.)
MCTxsReplayed == {Stake, UnstakeHalf, UnstakeAll}

----------------------------------------------------------------------------
(* Transactions of the runs that show where the code departs from its documents. *)

\* A function without record inputs, whose transition appears twice, beside a payment.
DeployFree == BuildDeployment(a, Records, None, 70)
MintTwice ==
    SetHashedId("Execution", None,
                Pay.transitions \o <<Run.transitions[1], Run.transitions[1]>>)
MCTxsMint == {DeployFree, MintTwice}

\* Two accounts stake on the same new validator in one transaction.
StakeSame == Credit(a, "stake", <<A60>>, 10, w, None, 120)
StakeBoth ==
    SetHashedId("Execution", None, <<Stake.transitions[1], StakeSame.transitions[1]>>)
MCTxsStakeBoth == {StakeBoth}

\* The account of v stakes on w as much as v has.
MCTxsStakeSame == {StakeSame}

MCTxsStaking == {Stake, UnstakeAll}
MCTxsPaying == {Pay, PayAgain}
============================================================================
