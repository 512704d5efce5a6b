------------------------------ MODULE ClientMC ------------------------------
(* Two runs of the client for account a, one for account b, over a small chain. *)
EXTENDS Client

CONSTANTS a, b, v, w, app, r1, r2, r3

MCRuns == {r1, r2, r3}
MCAccount == r1 :> a @@ r2 :> a @@ r3 :> b
MCSeed == r1 :> 100 @@ r2 :> 200 @@ r3 :> 300

MCGenesisRecords == {MintRecord(a, 50, 1), MintRecord(a, 20, 1), MintRecord(b, 30, 1)}
MCGenesisValidators == v :> [account |-> b, power |-> 10]

Records == [id |-> app, functions |-> <<"mint", "consume", "mint_credits">>, keys |-> <<>>]

Request(kind, program, function, amount, to, fee) ==
    [kind |-> kind, program |-> program, function |-> function, amount |-> amount,
     to |-> to, fee |-> fee, named |-> FALSE, file |-> TRUE, dry |-> FALSE]
Credit(function, amount, to, fee) ==
    Request("execute", CreditsProgram, function, amount, to, fee)
Balance == Request("balance", None, "none", 0, None, None)
Get == Request("get", None, "none", 0, None, None)
Deploy(fee) == Request("deploy", Records, "none", 0, None, fee)
Mint(fee) == Request("execute", Records, "mint", 0, a, fee)
FromChain(request) == [request EXCEPT !.file = FALSE]

\* The fee of 30 is more than the smaller record holds.
Requests1 ==
    {Credit("transfer", 30, b, 2), Credit("stake", 40, w, None),
     Credit("combine", 0, None, None), Deploy(30)}
\* An implicit fee (4) below the requested one, one above it; a negative one.
Requests2 ==
    {Balance, Credit("unstake", 10, None, 2), Credit("fee", 4, None, 6),
     Credit("fee", 4, None, 3), [Credit("transfer", 30, b, 1) EXCEPT !.named = TRUE],
     FromChain(Mint(2)), [Mint(2) EXCEPT !.function = "mint_credits", !.amount = 5]}
Requests3 ==
    {Get, Credit("stake", 5, w, None), Credit("stake", 5, v, None), Deploy(None),
     [Mint(None) EXCEPT !.dry = TRUE]}
MCRequests == r1 :> Requests1 @@ r2 :> Requests2 @@ r3 :> Requests3
============================================================================
