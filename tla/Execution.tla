------------------------------ MODULE Execution ------------------------------
(***************************************************************************)
(* Executing functions (src/aleo/credits.aleo, src/aleo/records.aleo, the   *)
(* execution function of the VM) and building transactions from them        *)
(* (src/lib/transaction.rs).                                                *)
(*                                                                          *)
(* A call is [program, function, records, amount, to]: a program, a name,   *)
(* the records it consumes, and its other inputs (to: an address or a       *)
(* validator).  A fee is None or [gates, record].  The nonces of outputs    *)
(* count from a seed, one apart.                                            *)
(***************************************************************************)
EXTENDS Transaction

CreditsProgram ==
    LET functions == <<"transfer", "combine", "split", "fee", "stake", "unstake">> IN
    [id |-> Credits, functions |-> functions, keys |-> functions]

StakedRecord(owner, gates, seed, validator) ==
    [name |-> "staked_credits", owner |-> owner, gates |-> gates, seed |-> seed,
     validator |-> validator]

TokenRecord(owner, gates, seed) ==
    [name |-> "token", owner |-> owner, gates |-> gates, seed |-> seed, validator |-> None]

GatesOf(records) == SumFunction([i \in DOMAIN records |-> records[i].gates])

----------------------------------------------------------------------------
(* The functions, of credits.aleo and of records.aleo.                       *)

Functions ==
    {"transfer", "combine", "split", "fee", "stake", "unstake", "mint", "consume",
     "mint_credits"}

Subtracting == {"transfer", "split", "fee", "stake", "unstake"}

InputNames(call) ==
    CASE call.function \in Subtracting \ {"unstake"} -> <<"credits">>
      [] call.function = "combine" -> <<"credits", "credits">>
      [] call.function = "unstake" -> <<"staked_credits">>
      [] call.function = "consume" -> <<"token">>
      [] OTHER -> <<>>

Outputs(call, seed) ==
    LET in == call.records
        left == in[1].gates - call.amount
        Change(s) == MintRecord(in[1].owner, left, s)
    IN  CASE call.function = "transfer" ->
                <<MintRecord(call.to, call.amount, seed), Change(seed + 1)>>
          [] call.function = "combine" ->
                <<MintRecord(in[1].owner, in[1].gates + in[2].gates, seed)>>
          [] call.function = "split" ->
                <<MintRecord(in[1].owner, call.amount, seed), Change(seed + 1)>>
          [] call.function = "fee" -> <<Change(seed)>>
          [] call.function = "stake" ->
                <<Change(seed), StakedRecord(in[1].owner, call.amount, seed + 1, call.to)>>
          [] call.function = "unstake" ->
                <<MintRecord(in[1].owner, call.amount, seed),
                  StakedRecord(in[1].owner, left, seed + 1, in[1].validator)>>
          [] call.function = "mint" -> <<TokenRecord(call.to, 0, seed)>>
          [] call.function = "mint_credits" -> <<TokenRecord(call.to, call.amount, seed)>>
          [] OTHER -> <<>>

Staking(call) ==
    CASE call.function = "stake" ->
            [validator |-> call.to, account |-> call.records[1].owner,
             delta |-> call.amount]
      [] call.function = "unstake" ->
            [validator |-> call.records[1].validator, account |-> call.records[1].owner,
             delta |-> -call.amount]
      [] OTHER -> None

\* execution fails on an unknown function, on records of other accounts or types, and
\* when a subtraction underflows.
Executable(account, call) ==
    /\ call.function \in ToSet(call.program.functions)
    /\ [i \in DOMAIN call.records |-> call.records[i].name] = InputNames(call)
    /\ \A i \in DOMAIN call.records : call.records[i].owner = account
    /\ call.function \in Subtracting => call.amount <= call.records[1].gates

\* The transition; its fee is the difference between the gates that go in and out.
Executed(call, seed) ==
    [program |-> call.program.id, function |-> call.function, ins |-> call.records,
     outs |-> Outputs(call, seed), stake |-> Staking(call), verified |-> TRUE,
     fee |-> GatesOf(call.records) - GatesOf(Outputs(call, seed))]

----------------------------------------------------------------------------
(* Building transactions.                                                    *)

FeeCall(record, amount) ==
    [program |-> CreditsProgram, function |-> "fee", records |-> <<record>>,
     amount |-> amount, to |-> None]

\* execute_fee leaves the record alone when the implicit fee exceeds the requested one.
FeeIsDue(fee, implicit) == fee # None /\ implicit <= fee.gates

ExecuteFeeFails(account, fee, implicit) ==
    \/ fee # None /\ implicit < 0
    \/ FeeIsDue(fee, implicit)
         /\ ~Executable(account, FeeCall(fee.record, fee.gates - implicit))

\* Slip against FeeIsExact: the implicit fee is not subtracted.
ExecuteWholeFee(fee, implicit, seed) ==
    IF FeeIsDue(fee, implicit) THEN <<Executed(FeeCall(fee.record, fee.gates), seed)>>
    ELSE <<>>

ExecuteFee(fee, implicit, seed) ==
    IF FeeIsDue(fee, implicit)
    THEN <<Executed(FeeCall(fee.record, fee.gates - implicit), seed)>> ELSE <<>>

ExecutionFails(account, call, fee, seed) ==
    ~Executable(account, call) \/ ExecuteFeeFails(account, fee, Executed(call, seed).fee)

\* Transaction::execution and credits_execution; None when they fail.
BuildExecution(account, call, fee, seed) ==
    LET transition == Executed(call, seed) IN
    IF ExecutionFails(account, call, fee, seed) THEN None
    ELSE SetHashedId("Execution", None,
                     <<transition>> \o ExecuteFee(fee, transition.fee, seed + 2))

\* Transaction::deployment, with a key for each function; None when it fails.
BuildDeployment(account, program, fee, seed) ==
    IF ExecuteFeeFails(account, fee, 0) THEN None
    ELSE SetHashedId("Deployment", [program EXCEPT !.keys = program.functions],
                     ExecuteFee(fee, 0, seed + 2))
============================================================================
