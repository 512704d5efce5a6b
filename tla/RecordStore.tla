----------------------------- MODULE RecordStore -----------------------------
(***************************************************************************)
(* The record store of the ABCI application                                 *)
(* (src/blockchain/record_store.rs): one worker thread owns two databases   *)
(* and two write buffers, and serves the commands that the threads of the   *)
(* ABCI connections put on an unbounded FIFO channel.                       *)
(*                                                                          *)
(* A command carries the rendezvous channel of its reply (sync_channel(0)), *)
(* so a thread is blocked exactly while a command of its own that expects a *)
(* reply is still on the channel, and answering is one step of the worker.  *)
(* Commit expects no reply.  A record's ciphertext is left out: nothing in  *)
(* the store depends on it.                                                 *)
(***************************************************************************)
EXTENDS Naturals, Sequences, FiniteSets

CONSTANTS
    Commitments,    \* keys of the records database, ordered as numbers
    Serials,        \* serial numbers, the keys of the database of spent records
    Threads,        \* the threads that hold a clone of the store
    Allowed,        \* Allowed[t]: the kinds of command that thread t sends
    Starts, Limits, \* first keys and page sizes asked of ScanRecords
    None,           \* Option::None
    MaxQueuedCommits,   \* bound: unprocessed Commit commands
    MaxFaults,          \* bound: database reads and writes that fail
    MaxCrashes,         \* bound: crashes of the process
    TornCommits         \* whether a crash may fall between the two batches of a Commit

Kinds == {"Add", "Spend", "IsUnspent", "Commit", "ScanRecords", "ScanSpentRecords"}

ASSUME CommitmentsAssumption == Commitments \subseteq Nat /\ None \notin Nat
ASSUME AllowedAssumption == Allowed \in [Threads -> SUBSET Kinds]
ASSUME BoundsAssumption ==
    /\ Starts \subseteq Commitments /\ Limits \subseteq Nat \ {0}
    /\ {MaxQueuedCommits, MaxFaults, MaxCrashes} \subseteq Nat
    /\ TornCommits \in BOOLEAN

VARIABLES
    dbRecords,      \* commitments in the records database (durable)
    dbSpent,        \* serial numbers in the spent database (durable)
    recordBuffer,   \* additions kept in memory
    spentBuffer,    \* spends kept in memory
    channel,        \* commands sent and not yet received by the worker
    phase,          \* "recv", or "spent": inside Commit, after its first batch
    answer,         \* the answer that the last step gave to a thread, or None
    faults, crashes,    \* how often a database call failed, the process crashed
    addAcks, spendAcks, \* history: Ok answers to Add and Spend, crashes undone
    lost                \* history: serials of batches the spent database refused

memory == <<recordBuffer, spentBuffer>>
disk == <<dbRecords, dbSpent>>
history == <<addAcks, spendAcks, lost>>
vars == <<dbRecords, dbSpent, recordBuffer, spentBuffer, channel, phase, answer,
          faults, crashes, addAcks, spendAcks, lost>>

AddCall == [kind: {"Add"}, key: Commitments, by: Threads]
SpendCall == [kind: {"Spend"}, key: Serials, by: Threads]
UnspentCall == [kind: {"IsUnspent"}, key: Serials, by: Threads]
CommitCall == [kind: {"Commit"}, by: Threads]
ScanSpentCall == [kind: {"ScanSpentRecords"}, by: Threads]
ScanCall == [kind: {"ScanRecords"}, from: Starts \cup {None}, limit: Limits \cup {None},
             by: Threads]
Command == AddCall \cup SpendCall \cup UnspentCall \cup CommitCall
               \cup ScanSpentCall \cup ScanCall

IsSync(cmd) == cmd.kind # "Commit"

\* Thread t sits in reply_receiver.recv().
Blocked(t) == \E i \in 1..Len(channel) : channel[i].by = t /\ IsSync(channel[i])

QueuedCommits == {i \in 1..Len(channel) : channel[i].kind = "Commit"}

Init ==
    /\ dbRecords = {} /\ dbSpent = {}
    /\ recordBuffer = {} /\ spentBuffer = {}
    /\ channel = <<>> /\ phase = "recv"
    /\ answer = None
    /\ faults = 0 /\ crashes = 0
    /\ addAcks = [c \in Commitments |-> 0]
    /\ spendAcks = [s \in Serials |-> 0]
    /\ lost = {}

----------------------------------------------------------------------------
(* The callers: add, spend, commit, is_unspent, scan, scan_spent.            *)

\* Slip against CommitIsBarrier and EffectsComeTrue: calls that expect a reply overtake the
\* others.
EnqueueUrgent(cmd) == IF IsSync(cmd) THEN <<cmd>> \o channel ELSE Append(channel, cmd)

Enqueue(cmd) == Append(channel, cmd)

Send(cmd) ==
    /\ ~Blocked(cmd.by)
    /\ cmd.kind \in Allowed[cmd.by]
    /\ cmd.kind = "Commit" => Cardinality(QueuedCommits) < MaxQueuedCommits
    /\ channel' = Enqueue(cmd)
    /\ answer' = None
    /\ UNCHANGED <<disk, memory, phase, faults, crashes, history>>

----------------------------------------------------------------------------
(* The worker.                                                               *)

Receive(kind) ==
    /\ phase = "recv"
    /\ channel # <<>>
    /\ Head(channel).kind = kind
    /\ channel' = Tail(channel)

\* Whether one database call of this step fails.
MayFail(fails) == fails => faults < MaxFaults
CountFault(fails) == faults' = IF fails THEN faults + 1 ELSE faults

\* Slip against UnspentAnswersAreFresh: a failed read counts as a missing key.
KeyExistsForSure(db, key, fails) == ~fails /\ key \in db

KeyExistsOrFails(db, key, fails) == fails \/ key \in db

\* Slips against NoDoubleAdd, NoDoubleSpend and ImplementsAtomicStore: the write buffer
\* is not consulted.
KnownOnDisk(c, fails) == KeyExistsOrFails(dbRecords, c, fails)
SpentOnDisk(s, fails) == KeyExistsOrFails(dbSpent, s, fails)

Known(c, fails) == c \in recordBuffer \/ KeyExistsOrFails(dbRecords, c, fails)
Spent(s, fails) == KeyExistsOrFails(dbSpent, s, fails) \/ s \in spentBuffer

HandleAdd == \E fails \in BOOLEAN :
    LET cmd == Head(channel) IN
    /\ Receive("Add")
    /\ MayFail(fails) /\ CountFault(fails)
    /\ IF Known(cmd.key, fails)
       THEN /\ answer' = [call |-> cmd, result |-> "Err"]
            /\ UNCHANGED <<recordBuffer, addAcks>>
       ELSE /\ answer' = [call |-> cmd, result |-> "Ok"]
            /\ recordBuffer' = recordBuffer \cup {cmd.key}
            /\ addAcks' = [addAcks EXCEPT ![cmd.key] = @ + 1]
    /\ UNCHANGED <<disk, spentBuffer, phase, crashes, spendAcks, lost>>

HandleSpend == \E fails \in BOOLEAN :
    LET cmd == Head(channel) IN
    /\ Receive("Spend")
    /\ MayFail(fails) /\ CountFault(fails)
    /\ IF Spent(cmd.key, fails)
       THEN /\ answer' = [call |-> cmd, result |-> "Err"]
            /\ UNCHANGED <<spentBuffer, spendAcks>>
       ELSE /\ answer' = [call |-> cmd, result |-> "Ok"]
            /\ spentBuffer' = spentBuffer \cup {cmd.key}
            /\ spendAcks' = [spendAcks EXCEPT ![cmd.key] = @ + 1]
    /\ UNCHANGED <<disk, recordBuffer, phase, crashes, addAcks, lost>>

HandleIsUnspent == \E fails \in BOOLEAN :
    /\ Receive("IsUnspent")
    /\ MayFail(fails) /\ CountFault(fails)
    /\ answer' = [call |-> Head(channel), unspent |-> ~Spent(Head(channel).key, fails)]
    /\ UNCHANGED <<disk, memory, phase, crashes, history>>

\* Slip against CommitsBecomeDurable: the buffer is cleared before the batch is built.
WrittenEmpty(db, batch, fails) == db

\* A database after a batch was written to it; a failed write leaves it as it was.
Written(db, batch, fails) == IF fails THEN db ELSE db \cup batch

\* Slip against TypeOK: the first batch is built from the wrong buffer.
CommitRecordsSwapped == \E fails \in BOOLEAN :
    /\ Receive("Commit")
    /\ MayFail(fails) /\ CountFault(fails)
    /\ dbRecords' = Written(dbRecords, spentBuffer, fails)
    /\ phase' = "spent"
    /\ answer' = None
    /\ UNCHANGED <<dbSpent, memory, crashes, history>>

\* Slip against CallsAreAnswered: the worker unwraps the result of a write.
CommitRecordsOrDie == \E fails \in BOOLEAN :
    /\ Receive("Commit")
    /\ MayFail(fails) /\ CountFault(fails)
    /\ dbRecords' = Written(dbRecords, recordBuffer, fails)
    /\ phase' = IF fails THEN "dead" ELSE "spent"
    /\ answer' = None
    /\ UNCHANGED <<dbSpent, memory, crashes, history>>

\* Commit, first half: one batch with the whole record buffer.  A failed write
\* is logged; the buffer keeps its entries either way.
CommitRecords == \E fails \in BOOLEAN :
    /\ Receive("Commit")
    /\ MayFail(fails) /\ CountFault(fails)
    /\ dbRecords' = Written(dbRecords, recordBuffer, fails)
    /\ phase' = "spent"
    /\ answer' = None
    /\ UNCHANGED <<dbSpent, memory, crashes, history>>

\* Commit, second half: one batch with the spent buffer, which is cleared even
\* when the write failed.  The batch of deletions built last is never written.
CommitSpent == \E fails \in BOOLEAN :
    /\ phase = "spent"
    /\ MayFail(fails) /\ CountFault(fails)
    /\ dbSpent' = Written(dbSpent, spentBuffer, fails)
    /\ lost' = IF fails THEN lost \cup spentBuffer ELSE lost
    /\ spentBuffer' = {}
    /\ phase' = "recv"
    /\ answer' = None
    /\ UNCHANGED <<dbRecords, recordBuffer, channel, crashes, addAcks, spendAcks>>

\* Up to limit keys from the key `from` onwards, in key order, and the last of them.
Page(keys, from, limit) ==
    LET candidates == {k \in keys : from = None \/ k >= from} IN
    {k \in candidates :
        limit = None \/ Cardinality({j \in candidates : j < k}) < limit}

IsLastKey(key, page) ==
    IF page = {} THEN key = None ELSE key \in page /\ \A k \in page : k <= key

\* Entries that the database cannot read are skipped.
HandleScanRecords == \E unreadable \in SUBSET dbRecords, last \in dbRecords \cup {None} :
    LET cmd == Head(channel)
        page == Page(dbRecords \ unreadable, cmd.from, cmd.limit)
    IN
    /\ Receive("ScanRecords")
    /\ Cardinality(unreadable) <= 1
    /\ MayFail(unreadable # {}) /\ CountFault(unreadable # {})
    /\ IsLastKey(last, page)
    /\ answer' = [call |-> cmd, page |-> [records |-> page, last |-> last]]
    /\ UNCHANGED <<disk, memory, phase, crashes, history>>

HandleScanSpent == \E unreadable \in SUBSET dbSpent :
    /\ Receive("ScanSpentRecords")
    /\ Cardinality(unreadable) <= 1
    /\ MayFail(unreadable # {}) /\ CountFault(unreadable # {})
    /\ answer' = [call |-> Head(channel), serials |-> dbSpent \ unreadable]
    /\ UNCHANGED <<disk, memory, phase, crashes, history>>

Worker ==
    \/ HandleAdd \/ HandleSpend \/ HandleIsUnspent
    \/ CommitRecords \/ CommitSpent
    \/ HandleScanRecords \/ HandleScanSpent

\* The process dies, and RecordStore::new opens the databases again: buffers,
\* commands on the channel and the threads' calls are gone.  The history forgets
\* the answers whose effect had not reached a database.
Crash ==
    /\ crashes < MaxCrashes
    /\ phase = "spent" => TornCommits
    /\ crashes' = crashes + 1
    /\ recordBuffer' = {} /\ spentBuffer' = {}
    /\ channel' = <<>> /\ phase' = "recv"
    /\ answer' = None
    /\ addAcks' = [c \in Commitments |-> IF c \in dbRecords THEN addAcks[c] ELSE 0]
    /\ spendAcks' = [s \in Serials |-> IF s \in dbSpent THEN spendAcks[s] ELSE 0]
    /\ UNCHANGED <<disk, faults, lost>>

Next == Worker \/ Crash \/ \E cmd \in Command : Send(cmd)

Spec == Init /\ [][Next]_vars

\* The worker thread is scheduled and recv() returns while there are commands.
FairSpec == Spec /\ WF_vars(Worker)
----------------------------------------------------------------------------
(* Properties.                                                               *)

Answers ==
    [call: AddCall \cup SpendCall, result: {"Ok", "Err"}]
        \cup [call: UnspentCall, unspent: BOOLEAN]
        \cup [call: ScanSpentCall, serials: SUBSET Serials]
        \cup [call: ScanCall,
              page: [records: SUBSET Commitments, last: Commitments \cup {None}]]

\* Every variable holds a value of its type.
TypeOK ==
    /\ dbRecords \subseteq Commitments /\ recordBuffer \subseteq Commitments
    /\ dbSpent \subseteq Serials /\ spentBuffer \subseteq Serials
    /\ lost \subseteq Serials
    /\ channel \in Seq(Command)
    /\ phase \in {"recv", "spent"}
    /\ answer \in Answers \cup {None}
    /\ faults \in 0..MaxFaults /\ crashes \in 0..MaxCrashes
    /\ addAcks \in [Commitments -> Nat] /\ spendAcks \in [Serials -> Nat]

\* No serial number is accepted twice by Spend, whichever threads ask, across
\* buffering, commits, crashes and failing reads, unless the database refused the
\* batch that held it (the worker logs that and clears the buffer).
NoDoubleSpend == \A s \in Serials \ lost : spendAcks[s] <= 1

\* No commitment is accepted twice by Add; failing writes included, since the
\* record buffer keeps its entries.
NoDoubleAdd == \A c \in Commitments : addAcks[c] <= 1

\* An answer "unspent" given to any thread is given before every accepted Spend of
\* that serial number: neither the buffer nor a commit in progress hides a spend.
UnspentAnswersAreFresh ==
    [][answer' # None /\ answer'.call.kind = "IsUnspent" /\ answer'.unspent
        => spendAcks[answer'.call.key] = 0 \/ answer'.call.key \in lost]_vars

\* When a thread has the answer to a call, each Commit it sent before that call has
\* been processed.  SnarkVMApp::commit relies on it: it sends Commit without waiting
\* and goes on with the Adds of the block's rewards.
CommitIsBarrier ==
    answer # None => \A i \in 1..Len(channel) : channel[i].by # answer.call.by

\* Every call is answered, or its process crashed.
CallsAreAnswered == \A t \in Threads : Blocked(t) ~> ~Blocked(t)

\* Once a Commit is sent, the spends buffered by then reach the database of spent
\* records, unless it refuses them or the process crashes first.
CommitsBecomeDurable ==
    \A s \in Serials, n \in 0..MaxCrashes :
        (s \in spentBuffer /\ QueuedCommits # {} /\ crashes = n)
            ~> (s \in dbSpent \cup lost \/ crashes > n)
============================================================================
