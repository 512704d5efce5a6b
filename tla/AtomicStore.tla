----------------------------- MODULE AtomicStore -----------------------------
(***************************************************************************)
(* What the record store promises to the threads that share it: each call   *)
(* takes effect at one instant between its start and its answer, after the  *)
(* calls that the same thread made before; a commit turns everything staged *)
(* so far into what scans show, at once; a crash forgets what is staged and *)
(* nothing else.  RecordStore implements this with one channel, two         *)
(* databases and two buffers.                                               *)
(***************************************************************************)
EXTENDS Naturals, Sequences, FiniteSets

CONSTANTS Calls, Threads, None

VARIABLES
    records, spent,         \* what a commit has made visible and durable
    newRecords, newSpent,   \* what waits for the next commit
    requests,               \* requests[t]: the calls of t that did not take effect yet
    answer                  \* the answer given by the last step, or None

vars == <<records, spent, newRecords, newSpent, requests, answer>>

Init ==
    /\ records = {} /\ spent = {}
    /\ newRecords = {} /\ newSpent = {}
    /\ requests = [t \in Threads |-> <<>>]
    /\ answer = None

\* A thread waits for the answer to its last call, unless that call is a Commit.
Call(cmd) ==
    /\ \A i \in 1..Len(requests[cmd.by]) : requests[cmd.by][i].kind = "Commit"
    /\ requests' = [requests EXCEPT ![cmd.by] = Append(@, cmd)]
    /\ answer' = None
    /\ UNCHANGED <<records, spent, newRecords, newSpent>>

Insert(cmd) ==
    IF cmd.key \in records \cup newRecords
    THEN /\ answer' = [call |-> cmd, result |-> "Err"]
         /\ UNCHANGED <<records, spent, newRecords, newSpent>>
    ELSE /\ answer' = [call |-> cmd, result |-> "Ok"]
         /\ newRecords' = newRecords \cup {cmd.key}
         /\ UNCHANGED <<records, spent, newSpent>>

Consume(cmd) ==
    IF cmd.key \in spent \cup newSpent
    THEN /\ answer' = [call |-> cmd, result |-> "Err"]
         /\ UNCHANGED <<records, spent, newRecords, newSpent>>
    ELSE /\ answer' = [call |-> cmd, result |-> "Ok"]
         /\ newSpent' = newSpent \cup {cmd.key}
         /\ UNCHANGED <<records, spent, newRecords>>

Publish ==
    /\ records' = records \cup newRecords
    /\ spent' = spent \cup newSpent
    /\ newRecords' = {} /\ newSpent' = {}
    /\ answer' = None

\* The smallest keys from cmd.from on, cmd.limit of them when there are as many.
IsPage(page, cmd) ==
    LET eligible == {k \in records : cmd.from = None \/ cmd.from <= k} IN
    /\ page.records \subseteq eligible
    /\ \A k \in page.records, j \in eligible \ page.records : k < j
    /\ \/ page.records = eligible
       \/ cmd.limit # None /\ Cardinality(page.records) = cmd.limit
    /\ cmd.limit # None => Cardinality(page.records) <= cmd.limit
    /\ IF page.records = {} THEN page.last = None
       ELSE page.last \in page.records /\ \A k \in page.records : k <= page.last

Read(cmd) ==
    /\ \/ cmd.kind = "IsUnspent"
          /\ answer' = [call |-> cmd, unspent |-> cmd.key \notin spent \cup newSpent]
       \/ cmd.kind = "ScanSpentRecords" /\ answer' = [call |-> cmd, serials |-> spent]
       \/ cmd.kind = "ScanRecords"
          /\ \E shown \in SUBSET records, last \in records \cup {None} :
                /\ IsPage([records |-> shown, last |-> last], cmd)
                /\ answer' = [call |-> cmd, page |-> [records |-> shown, last |-> last]]
    /\ UNCHANGED <<records, spent, newRecords, newSpent>>

Serve(t) ==
    LET cmd == Head(requests[t]) IN
    /\ requests[t] # <<>>
    /\ requests' = [requests EXCEPT ![t] = Tail(@)]
    /\ \/ cmd.kind = "Add" /\ Insert(cmd)
       \/ cmd.kind = "Spend" /\ Consume(cmd)
       \/ cmd.kind = "Commit" /\ Publish
       \/ Read(cmd)

Crash ==
    /\ newRecords' = {} /\ newSpent' = {}
    /\ requests' = [t \in Threads |-> <<>>]
    /\ answer' = None
    /\ UNCHANGED <<records, spent>>

Next == (\E cmd \in Calls : Call(cmd)) \/ (\E t \in Threads : Serve(t)) \/ Crash

SafeSpec == Init /\ [][Next]_vars

Served == \A t \in Threads : WF_vars(Serve(t))
============================================================================
