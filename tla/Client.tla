------------------------------- MODULE Client --------------------------------
(***************************************************************************)
(* The command-line client (src/client/commands.rs and tendermint.rs):      *)
(* runs of it, for several accounts, beside each other and beside a chain   *)
(* that moves on between any two of their requests.                         *)
(*                                                                          *)
(* The chain is the ledger that Node implements: queries about records see  *)
(* what is committed; check_tx, and the program store, what the delivered   *)
(* transactions of the block under way added (staged).  Mempool, blocks and *)
(* index of transactions are Tendermint's, which is external.  Rewards are  *)
(* left out: to a client they are records that arrive, as transfers are.    *)
(***************************************************************************)
EXTENDS Ledger

CONSTANTS
    Runs,           \* runs of the client program
    Account,        \* the account of each run
    Seed,           \* a number of each run, from which the nonces of its outputs count
    Requests        \* the command lines that each run may be given, but for records

\* The nonces of the outputs of a run: two of its function, and one of the fee.
Nonces(i) == Seed[i]..(Seed[i] + 2)

\* A nonce is used once.
ASSUME SeedAssumption ==
    \A i \in Runs :
        /\ Seed[i] \in Nat
        /\ \A j \in Runs \ {i} : Nonces(i) \cap Nonces(j) = {}
        /\ \A r \in GenesisRecords : r.seed \notin Nonces(i)

\* Amounts and fees are parsed as u64, only execute and deploy take a fee, and programs are
\* of functions that Execution has.
ASSUME RequestAssumption ==
    \A i \in Runs : \A request \in Requests[i] :
        /\ request.kind \in {"execute", "deploy", "balance", "get"}
        /\ request.amount \in Nat /\ request.fee \in Nat \cup {None}
        /\ request.kind \in {"balance", "get"} => request.fee = None
        /\ request.kind = "execute" => ToSet(request.program.functions) \subseteq Functions

VARIABLES
    committed, staged,  \* ledgers: after the last block, and with the block under way
    delivered,      \* transactions of the block under way answered with code 0
    mempool,
    index,          \* committed transactions that can be found by their id
    dropped,        \* transactions that left the mempool without effect
    pc,             \* where each run stands
    cmd,            \* its command: a request with its records
    got,            \* answers to its two queries for records
    seen,           \* unspent records of its account at the first query (history)
    tx              \* the transaction that it sent or found

chainVars == <<committed, staged, delivered, mempool, index, dropped>>
vars == <<chainVars, pc, cmd, got, seen, tx>>

PCs == {"new", "first", "second", "listed", "program", "send", "get", "done", "failed",
        "sent", "refused", "found", "missing"}

Nothing == [records |-> {}, spent |-> {}]

Init ==
    /\ committed = GenesisLedger /\ staged = GenesisLedger
    /\ delivered = {} /\ mempool = {} /\ index = {} /\ dropped = {}
    /\ pc = [i \in Runs |-> "new"]
    /\ cmd = [i \in Runs |-> None]
    /\ got = [i \in Runs |-> Nothing]
    /\ seen = [i \in Runs |-> {}]
    /\ tx = [i \in Runs |-> None]

Owned(i, l) == {r \in l.known : r.owner = Account[i]}
Unspent(i, l) == Owned(i, l) \ l.spent

----------------------------------------------------------------------------
(* A run of the client.                                                      *)

\* Where a run goes with its fee record settled: credits.aleo is at hand, and so is a
\* program in a file.
AfterFee(request) ==
    IF request.kind = "execute" /\ ~request.file THEN "program" ELSE "send"

\* The first request of a command.
FirstRequest(request) ==
    CASE request.kind = "get" -> "get"
      [] request.kind = "balance" -> "first"
      [] request.fee # None /\ ~request.named -> "first"
      [] OTHER -> AfterFee(request)

\* Command::run up to the first request: the records on the command line are some that the
\* account could decrypt, spent or not.
Start(i) ==
    /\ pc[i] = "new"
    /\ \E request \in Requests[i] :
       \E records \in [DOMAIN InputNames(request) -> Owned(i, committed)] :
       \E feeRecord \in IF request.named THEN Owned(i, committed) ELSE {None} :
        /\ [n \in DOMAIN records |-> records[n].name] = InputNames(request)
        /\ cmd' = [cmd EXCEPT ![i] =
                    [kind |-> request.kind, dry |-> request.dry, named |-> request.named,
                     file |-> request.file, fee |-> IF request.fee = None THEN None
                        ELSE [gates |-> request.fee, record |-> feeRecord],
                     call |-> [program |-> request.program, function |-> request.function,
                               records |-> records, amount |-> request.amount,
                               to |-> request.to]]]
        /\ pc' = [pc EXCEPT ![i] = FirstRequest(request)]
    /\ UNCHANGED <<chainVars, got, seen, tx>>

\* Slip against ListingIsCurrent: what is spent is asked for first.
QueriesSwapped == <<"spent", "records">>

Queries == <<"records", "spent">>

Answer(i, query) == IF query = "records" THEN Owned(i, committed) ELSE committed.spent

\* get_records: two queries, and blocks may come in between.
AskFirst(i) ==
    /\ pc[i] = "first"
    /\ got' = [got EXCEPT ![i][Queries[1]] = Answer(i, Queries[1])]
    /\ seen' = [seen EXCEPT ![i] = Unspent(i, committed)]
    /\ pc' = [pc EXCEPT ![i] = "second"]
    /\ UNCHANGED <<chainVars, cmd, tx>>

AskSecond(i) ==
    /\ pc[i] = "second"
    /\ got' = [got EXCEPT ![i][Queries[2]] = Answer(i, Queries[2])]
    /\ pc' = [pc EXCEPT ![i] = "listed"]
    /\ UNCHANGED <<chainVars, cmd, seen, tx>>

Listing(answers) == answers.records \ answers.spent

\* Balance and Records print the listing.
ShowRecords(i) ==
    /\ pc[i] = "listed" /\ cmd[i].kind = "balance"
    /\ pc' = [pc EXCEPT ![i] = "done"]
    /\ got' = [got EXCEPT ![i] = Nothing]
    /\ seen' = [seen EXCEPT ![i] = {}]
    /\ UNCHANGED <<chainVars, cmd, tx>>

\* Slip against FeeRecordIsSeparate: the inputs of the command are not excluded.
Affordable(i) == {r \in Listing(got[i]) : r.gates >= cmd[i].fee.gates}

\* Slip against FeeIsPayable: the biggest record is taken, whatever it holds.
Separate(i) == Listing(got[i]) \ ToSet(cmd[i].call.records)

\* select_default_fee_record: of the records, of any kind, that are not inputs of the
\* command and cover the fee, one with the most gates.
FeeRecords(i) ==
    {r \in Listing(got[i]) : /\ r \notin ToSet(cmd[i].call.records)
                             /\ r.gates >= cmd[i].fee.gates}

ChooseFeeRecord(i) ==
    LET candidates == FeeRecords(i) IN
    /\ pc[i] = "listed" /\ cmd[i].kind # "balance"
    /\ IF candidates = {}
       THEN pc' = [pc EXCEPT ![i] = "failed"] /\ UNCHANGED cmd
       ELSE /\ \E r \in {q \in candidates : \A s \in candidates : s.gates <= q.gates} :
                cmd' = [cmd EXCEPT ![i].fee.record = r]
            /\ pc' = [pc EXCEPT ![i] = AfterFee(cmd[i])]
    /\ got' = [got EXCEPT ![i] = Nothing]
    /\ seen' = [seen EXCEPT ![i] = {}]
    /\ UNCHANGED <<chainVars, tx>>

\* get_program asks the program store, which has a program as soon as it is delivered.
GetProgram(i) ==
    /\ pc[i] = "program"
    /\ pc' = [pc EXCEPT ![i] =
                IF \E p \in staged.programs : p.id = cmd[i].call.program.id
                THEN "send" ELSE "failed"]
    /\ UNCHANGED <<chainVars, cmd, got, seen, tx>>

BuildFails(i) ==
    IF cmd[i].kind = "deploy" THEN ExecuteFeeFails(Account[i], cmd[i].fee, 0)
    ELSE ExecutionFails(Account[i], cmd[i].call, cmd[i].fee, Seed[i])

Built(i) ==
    IF cmd[i].kind = "deploy"
    THEN BuildDeployment(Account[i], cmd[i].call.program, cmd[i].fee, Seed[i])
    ELSE BuildExecution(Account[i], cmd[i].call, cmd[i].fee, Seed[i])

\* Slip against DroppedForARival: a record that is used twice is left to deliver_tx.
CheckUsesLater(l, t, doubt) ==
    /\ CheckInputsAreUnspent(t, l.spent)
    /\ ValidateTransaction(t, l.programs, l.validators, doubt)

\* The node's check_tx.
CheckTx(l, t, doubt) == Passes(t, l.spent, l.programs, l.validators, doubt)

\* Building uses nothing that changes, so it is one step with broadcast_tx_sync, which
\* brings the answer of check_tx.
Send(i) ==
    /\ pc[i] = "send"
    /\ \/ /\ BuildFails(i)
          /\ pc' = [pc EXCEPT ![i] = "failed"]
          /\ UNCHANGED <<mempool, tx>>
       \/ /\ ~BuildFails(i) /\ cmd[i].dry
          /\ pc' = [pc EXCEPT ![i] = "done"]
          /\ UNCHANGED <<mempool, tx>>
       \/ /\ ~BuildFails(i) /\ ~cmd[i].dry
          /\ tx' = [tx EXCEPT ![i] = Built(i)]
          /\ \E doubt \in BOOLEAN :
             IF CheckTx(staged, Built(i), doubt)
             THEN /\ mempool' = mempool \cup {Built(i)}
                  /\ pc' = [pc EXCEPT ![i] = "sent"]
             ELSE pc' = [pc EXCEPT ![i] = "refused"] /\ UNCHANGED mempool
    /\ UNCHANGED <<committed, staged, delivered, index, dropped, cmd, got, seen>>

\* get_transaction, for the id that another run printed: it sent the transaction.
GetTransaction(i) ==
    /\ pc[i] = "get"
    /\ \E j \in Runs \ {i} :
        /\ pc[j] = "sent"
        /\ IF tx[j] \in index
           THEN /\ tx' = [tx EXCEPT ![i] = tx[j]]
                /\ pc' = [pc EXCEPT ![i] = "found"]
           ELSE pc' = [pc EXCEPT ![i] = "missing"] /\ UNCHANGED tx
    /\ UNCHANGED <<chainVars, cmd, got, seen>>

Step(i) ==
    \/ Start(i) \/ AskFirst(i) \/ AskSecond(i) \/ ShowRecords(i) \/ ChooseFeeRecord(i)
    \/ GetProgram(i) \/ Send(i) \/ GetTransaction(i)

----------------------------------------------------------------------------
(* The chain.                                                                *)

\* Slip against FoundIsApplied: transactions are indexed whatever the code of the answer.
IndexAll(t, doubt) == {t}

\* Slip against SentIsSettled: only executions are indexed.
IndexExecutions(t, doubt) ==
    IF t.kind = "Execution" /\ Accepts(staged, t, doubt) THEN {t} ELSE {}

\* The answer of deliver_tx has the event to index when its code is 0.
IndexEvent(t, doubt) == IF Accepts(staged, t, doubt) THEN {t} ELSE {}

Deliver ==
    /\ \E t \in mempool, doubt \in BOOLEAN :
        /\ mempool' = mempool \ {t}
        /\ staged' = LedgerTx(staged, t, doubt)
        /\ delivered' = delivered \cup IndexEvent(t, doubt)
        /\ dropped' = IF Accepts(staged, t, doubt) THEN dropped ELSE dropped \cup {t}
    /\ UNCHANGED <<committed, index, pc, cmd, got, seen, tx>>

\* The block is committed and indexed; Tendermint checks what the mempool holds again.
CommitBlock ==
    /\ staged # committed
    /\ committed' = [staged EXCEPT !.codes = <<>>, !.updated = {}, !.fees = 0]
    /\ staged' = committed'
    /\ index' = index \cup delivered
    /\ delivered' = {}
    /\ \E doubted \in SUBSET {t \in mempool : t.kind = "Deployment"} :
        mempool' = {t \in mempool : CheckTx(staged, t, t \in doubted)}
    /\ dropped' = dropped \cup (mempool \ mempool')
    /\ UNCHANGED <<pc, cmd, got, seen, tx>>

Chain == Deliver \/ CommitBlock

\* Every run ended, or has nothing to get, and the chain is at rest.
Stopped ==
    /\ \A i \in Runs : pc[i] \in {"done", "failed", "sent", "refused", "found", "missing",
                                  "get"}
    /\ mempool = {} /\ staged = committed
    /\ UNCHANGED vars

Next == (\E i \in Runs : Step(i)) \/ Chain \/ Stopped

\* Blocks are made while there are transactions.  A client may stop anywhere.
Spec == Init /\ [][Next]_vars /\ WF_vars(Chain)

----------------------------------------------------------------------------
(* Properties.                                                               *)

\* The mempool (Tendermint) holds nothing that was delivered, nor, but for deployments, that
\* was dropped; the ledgers keep their types: powers are never negative, records are known
\* before they are spent, and no client spends one that nobody made.
TypeOK ==
    /\ pc \in [Runs -> PCs]
    /\ \A l \in {committed, staged} :
        /\ l.spent \subseteq l.known /\ l.strays = {}
        /\ \A v \in DOMAIN l.validators : l.validators[v].power \in Nat
    /\ committed.known \subseteq staged.known /\ committed.spent \subseteq staged.spent
    /\ mempool \cap (delivered \cup index) = {}
    /\ \A t \in mempool \cap dropped : t.kind = "Deployment"

\* get_records asks for the records before it asks what is spent: whatever blocks come in
\* between, what it returns is unspent at the end, and nothing is missing that was unspent
\* from its first query to its last.
ListingIsCurrent ==
    [][\A i \in Runs : pc[i] = "second" /\ pc'[i] = "listed" =>
        /\ Listing(got'[i]) \subseteq Unspent(i, committed)
        /\ seen[i] \cap Unspent(i, committed) \subseteq Listing(got'[i])]_vars

\* choose_fee_record runs before there is an execution; still the transaction that is built
\* uses a record twice only if the command line named it twice.
FeeRecordIsSeparate ==
    \A i \in Runs :
        /\ pc[i] \in {"sent", "refused"} /\ ~cmd[i].named
        /\ IsInjective(cmd[i].call.records)
        => IsInjective(RecordSerialNumbers(tx[i]))

\* A credits record that select_default_fee_record took covers whatever execute_fee makes of
\* it: building fails only for the command itself, or because it creates credits.
FeeIsPayable ==
    \A i \in Runs :
        /\ pc[i] = "send" /\ BuildFails(i)
        /\ cmd[i].fee # None /\ ~cmd[i].named /\ cmd[i].fee.record.name = "credits"
        => /\ cmd[i].kind # "deploy"
           /\ Executable(Account[i], cmd[i].call) => Executed(cmd[i].call, 0).fee < 0

\* execute_fee subtracts the implicit fee: a transaction burns the fee that was asked for,
\* or the implicit fee if that is more.
FeeIsExact ==
    \A i \in Runs : pc[i] \in {"sent", "refused"} /\ cmd[i].fee # None =>
        LET implicit == IF cmd[i].kind = "deploy" THEN 0 ELSE tx[i].transitions[1].fee
        IN  Fees(tx[i]) = IF implicit > cmd[i].fee.gates THEN implicit ELSE cmd[i].fee.gates

\* What makes an execution exclude another.
Rivals(s, t) ==
    \/ ToSet(RecordSerialNumbers(s)) \cap ToSet(RecordSerialNumbers(t)) # {}
    \/ UpdatedBy(StakeUpdates(s)) \cap UpdatedBy(StakeUpdates(t)) # {}

\* check_tx sees what is delivered, not what else is in the mempool: an execution that it
\* accepted is refused later only because of a rival that was delivered first.  (For a
\* deployment, key_may_exist may be in doubt later, and no rival is to blame.)
DroppedForARival ==
    \A t \in dropped : t.kind = "Execution" => \E s \in delivered \cup index : Rivals(s, t)

\* get_transaction finds what has an index event, which deliver_tx adds to transactions that
\* it applied: the records that the client decrypts from one are in the store.
FoundIsApplied ==
    \A i \in Runs : pc[i] = "found" =>
        /\ ToSet(OutputRecords(tx[i])) \subseteq committed.known
        /\ ToSet(RecordSerialNumbers(tx[i])) \subseteq committed.spent

\* A broadcast that was not refused is followed by a block with the transaction, which the
\* index then has, or by its refusal: a block made it invalid, or a program store in doubt.
SentIsSettled == \A i \in Runs : pc[i] = "sent" ~> tx[i] \in index \cup dropped
============================================================================
