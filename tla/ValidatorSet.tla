---------------------------- MODULE ValidatorSet ----------------------------
(***************************************************************************)
(* Operators of the application's validator set                             *)
(* (src/blockchain/validator_set.rs and src/lib/validator.rs).  A set of    *)
(* validators is a function from addresses to [account, power]; an update   *)
(* is [validator, account, delta].                                          *)
(***************************************************************************)
EXTENDS Integers, Sequences, SequencesExt

CONSTANTS
    BaselineReward,         \* BASELINE_BLOCK_REWARD
    ProposerPercentage,     \* PROPOSER_REWARD_PERCENTAGE
    U64                     \* 2^64, where products wrap in a release build

ASSUME RewardAssumption ==
    BaselineReward \in Nat /\ ProposerPercentage \in 0..100 /\ U64 \in Nat \ {0}

\* validate: Validator::apply on a known validator, Validator::from_stake on a new one.
ValidUpdate(validators, update) ==
    IF update.validator \in DOMAIN validators
    THEN LET known == validators[update.validator] IN
         known.account = update.account /\ known.power + update.delta >= 0
    ELSE update.delta > 0

\* Slip against TypeOK: the power becomes the delta.
SetPower(validators, update) ==
    [v \in DOMAIN validators \cup {update.validator} |->
        IF v # update.validator THEN validators[v]
        ELSE [account |-> update.account, power |-> update.delta]]

\* apply, for a valid update.  A validator left without power stays in the set.
ApplyUpdate(validators, update) ==
    [v \in DOMAIN validators \cup {update.validator} |->
        IF v # update.validator THEN validators[v]
        ELSE IF v \in DOMAIN validators
             THEN [validators[v] EXCEPT !.power = @ + update.delta]
             ELSE [account |-> update.account, power |-> update.delta]]

\* The set after the first n updates of a sequence.
AfterUpdates(validators, updates) ==
    LET after[n \in 0..Len(updates)] ==
            IF n = 0 THEN validators ELSE ApplyUpdate(after[n - 1], updates[n])
    IN  after

\* apply panics on an update that is not valid when its turn comes.
UpdatesPanic(validators, updates) ==
    \E n \in DOMAIN updates :
        ~ValidUpdate(AfterUpdates(validators, updates)[n - 1], updates[n])

UpdatedBy(updates) == {updates[n].validator : n \in DOMAIN updates}

----------------------------------------------------------------------------
(* block_rewards.                                                            *)

VoterShare(fees, votes, v) ==
    LET total == ((fees * (100 - ProposerPercentage)) % U64) \div 100
    IN  ((votes[v] * total) % U64) \div SumFunction(votes)

\* Slip against CreditsConserved: the proposer gets its percentage, and what rounding
\* leaves over is lost.
RewardsRounded(fees, votes, proposer) ==
    [v \in DOMAIN votes \cup {proposer} |->
        (IF v \in DOMAIN votes THEN VoterShare(fees, votes, v) ELSE 0)
            + (IF v = proposer THEN (fees * ProposerPercentage) \div 100 ELSE 0)]

\* Credits assigned to each voter and the proposer, who gets what is left over.
Rewards(fees, votes, proposer) ==
    LET shares == [v \in DOMAIN votes |-> VoterShare(fees, votes, v)] IN
    [v \in DOMAIN votes \cup {proposer} |->
        (IF v \in DOMAIN votes THEN shares[v] ELSE 0)
            + (IF v = proposer THEN fees - SumFunction(shares) ELSE 0)]
============================================================================
