---------------------------- MODULE ProgramStore ----------------------------
(***************************************************************************)
(* The program store (src/blockchain/program_store.rs): a worker thread     *)
(* owns the database of deployed programs and serves the commands of a FIFO *)
(* channel; there is no buffer, a program is durable when its Add is        *)
(* answered.  Every command expects an answer on a rendezvous channel.      *)
(*                                                                          *)
(* Its callers: ProgramStore::new loads credits.aleo before anyone else     *)
(* holds the store; deliver_tx, on the consensus connection, asks whether a *)
(* program exists and adds it if not; check_tx only asks; everybody reads.  *)
(*                                                                          *)
(* The database is external: key_may_exist never misses a stored key, and   *)
(* may report an absent one once anything is stored.                        *)
(***************************************************************************)
EXTENDS Naturals, Sequences

CONSTANTS
    Programs, Credits,  \* program ids; the id of credits.aleo
    Versions,           \* programs that may be deployed under one id
    main, consensus, mempool, query,    \* the threads
    None,
    MaxFaults,          \* bound: database reads and writes that fail
    MaxCrashes          \* bound: crashes of the process

Threads == {main, consensus, mempool, query}
Readers == {consensus, mempool, query}

Calls == [step: {"Exists", "Absent", "Add", "Get"}, program: Programs,
          version: Versions \cup {None}]
Command == [kind: {"Exists", "Add", "Get"}, program: Programs,
            version: Versions \cup {None}, by: Threads]

ASSUME CreditsAssumption == Credits \in Programs
ASSUME ThreadsAssumption == main \notin Readers
ASSUME NoneAssumption == None \notin Versions \cup Calls
ASSUME BoundsAssumption == {MaxFaults, MaxCrashes} \subseteq Nat

VARIABLES
    db,         \* the version stored of each program, or None (durable)
    channel,    \* commands sent and not yet received
    doing,      \* doing[t]: [step, program, version], or None when t makes no call
    loaded,     \* ProgramStore::new has returned
    failed,     \* it returned an error, which stops the process
    faults, crashes,
    lost        \* history: programs that were not written although their Add said Ok

vars == <<db, channel, doing, loaded, failed, faults, crashes, lost>>

Idle(t) == doing[t] = None
Available(t) == loaded /\ Idle(t)

Init ==
    /\ db = [p \in Programs |-> None]
    /\ channel = <<>>
    /\ doing = [t \in Threads |-> None]
    /\ loaded = FALSE /\ failed = FALSE
    /\ faults = 0 /\ crashes = 0
    /\ lost = {}

----------------------------------------------------------------------------
(* The callers.                                                              *)

\* Thread t sends a command and waits for its answer.
Ask(t, step, p, v) ==
    /\ channel' = Append(channel, [kind |-> step, program |-> p, version |-> v, by |-> t])
    /\ doing' = [doing EXCEPT ![t] = [step |-> step, program |-> p, version |-> v]]
    /\ UNCHANGED <<db, loaded, failed, faults, crashes, lost>>

\* load_credits, its first call.
LoadCredits(v) ==
    /\ ~loaded /\ ~failed
    /\ Idle(main)
    /\ Ask(main, "Exists", Credits, v)

\* validate_transaction of a deployment, in deliver_tx or check_tx.
ValidateDeployment(t, p, v) == Available(t) /\ Ask(t, "Exists", p, v)

\* verify_transition, and query.
GetProgram(t, p) == Available(t) /\ Ask(t, "Get", p, None)

\* The program does not exist: load_credits and store_program add it.
AddProgram(t) ==
    /\ ~Idle(t) /\ doing[t].step = "Absent"
    /\ Ask(t, "Add", doing[t].program, doing[t].version)

\* A later check of deliver_tx, whose reads are left out, fails: the deployment is dropped.
RejectDeployment ==
    /\ ~Idle(consensus) /\ doing[consensus].step = "Absent"
    /\ doing' = [doing EXCEPT ![consensus] = None]
    /\ UNCHANGED <<db, channel, loaded, failed, faults, crashes, lost>>

----------------------------------------------------------------------------
(* The worker.                                                               *)

Receive(kind) ==
    /\ channel # <<>>
    /\ Head(channel).kind = kind
    /\ channel' = Tail(channel)

\* Slip against NeverReplaced and StartupCompletes: exists reads the key, and a read that
\* fails counts as absent.
ExistsUnlessFails(p) == IF db[p] # None THEN BOOLEAN ELSE {FALSE}

\* The answers that key_may_exist can give.
MayExist(p) ==
    IF db[p] # None THEN {TRUE}
    ELSE IF \A q \in Programs : db[q] = None THEN {FALSE} ELSE BOOLEAN

\* Slip against CreditsAreLoaded: load_credits sends Add and does not wait for it.
LoadEndsEarly(cmd, exists) == cmd.by = main

LoadEnds(cmd, exists) == cmd.by = main /\ exists

HandleExists ==
    LET cmd == Head(channel) IN
    /\ Receive("Exists")
    /\ \E exists \in MayExist(cmd.program) :
        /\ doing' = [doing EXCEPT ![cmd.by] =
                        IF exists \/ cmd.by = mempool THEN None
                        ELSE [@ EXCEPT !.step = "Absent"]]
        /\ loaded' = (loaded \/ LoadEnds(cmd, exists))
    /\ UNCHANGED <<db, failed, faults, crashes, lost>>

\* Slip against TypeOK: put, which takes bytes and bytes, gets its arguments swapped.
PutSwapped(p, v) == [q \in Programs \cup {v} |-> IF q = v THEN p ELSE db[q]]

Put(p, v) == [db EXCEPT ![p] = v]

\* A failing read counts as an absent program; a failing write is logged only.
HandleAdd == \E readFails, putFails \in BOOLEAN :
    LET cmd == Head(channel)
        taken == ~readFails /\ db[cmd.program] # None
        cost == (IF readFails THEN 1 ELSE 0) + (IF putFails THEN 1 ELSE 0)
    IN
    /\ Receive("Add")
    /\ taken => ~putFails
    /\ faults + cost <= MaxFaults /\ faults' = faults + cost
    /\ db' = IF taken \/ putFails THEN db ELSE Put(cmd.program, cmd.version)
    /\ lost' = IF putFails THEN lost \cup {cmd.program} ELSE lost
    /\ doing' = [doing EXCEPT ![cmd.by] = None]
    /\ loaded' = (loaded \/ (cmd.by = main /\ ~taken))
    /\ failed' = (failed \/ (cmd.by = main /\ taken))
    /\ UNCHANGED crashes

HandleGet ==
    /\ Receive("Get")
    /\ doing' = [doing EXCEPT ![Head(channel).by] = None]
    /\ UNCHANGED <<db, loaded, failed, faults, crashes, lost>>

Worker == HandleExists \/ HandleAdd \/ HandleGet

Crash ==
    /\ crashes < MaxCrashes
    /\ crashes' = crashes + 1
    /\ channel' = <<>>
    /\ doing' = [t \in Threads |-> None]
    /\ loaded' = FALSE /\ failed' = FALSE
    /\ UNCHANGED <<db, faults, lost>>

Startup == \E v \in Versions : LoadCredits(v)

Next ==
    \/ Worker \/ Startup \/ RejectDeployment \/ Crash
    \/ \E t \in {main, consensus} : AddProgram(t)
    \/ \E t \in Readers, p \in Programs : GetProgram(t, p)
    \/ \E t \in {consensus, mempool}, p \in Programs, v \in Versions :
            ValidateDeployment(t, p, v)

Spec == Init /\ [][Next]_vars

\* The worker and the constructor go on; whoever uses the store may stop.
FairSpec == Spec /\ WF_vars(Worker) /\ WF_vars(Startup) /\ WF_vars(AddProgram(main))

----------------------------------------------------------------------------
(* Properties.                                                               *)

\* Every variable holds a value of its type.
TypeOK ==
    /\ db \in [Programs -> Versions \cup {None}]
    /\ channel \in Seq(Command)
    /\ doing \in [Threads -> Calls \cup {None}]
    /\ {loaded, failed} \subseteq BOOLEAN /\ lost \subseteq Programs
    /\ faults \in 0..MaxFaults /\ crashes \in 0..MaxCrashes

\* A stored program is never replaced.  Add alone does not ensure it, since a failing read
\* lets it overwrite; it takes that every Add follows an Exists whose answer was no, and
\* that no two threads add.
NeverReplaced == [][\A p \in Programs : db[p] # None => db'[p] = db[p]]_vars

\* Whoever gets to use the store finds credits.aleo in it, after any crashes of earlier
\* starts and whatever key_may_exist says, unless its write was lost.
CreditsAreLoaded == loaded /\ Credits \notin lost => db[Credits] # None

\* ProgramStore::new returns without an error, unless the process crashes: load_credits
\* never adds what is there.
StartupCompletes ==
    \A n \in 0..MaxCrashes : (~loaded /\ crashes = n) ~> (loaded \/ crashes > n)
=============================================================================
