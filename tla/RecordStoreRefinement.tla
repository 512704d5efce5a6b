------------------------ MODULE RecordStoreRefinement ------------------------
(***************************************************************************)
(* The record store implements the atomic store while no database write     *)
(* fails and no crash falls between the two batches of a Commit.  A Commit  *)
(* takes effect with its first batch: from then on the worker receives      *)
(* nothing before the second.                                               *)
(***************************************************************************)
EXTENDS RecordStore

\* The commands of t among the first n.
CallsUpTo(cmds, t) ==
    LET calls[n \in 0..Len(cmds)] ==
            IF n = 0 THEN <<>>
            ELSE IF cmds[n].by = t THEN Append(calls[n - 1], cmds[n]) ELSE calls[n - 1]
    IN  calls

CallsOf(cmds, t) == CallsUpTo(cmds, t)[Len(cmds)]

Atomic == INSTANCE AtomicStore WITH
    Calls <- Command,
    records <- dbRecords,
    spent <- IF phase = "spent" THEN dbSpent \cup spentBuffer ELSE dbSpent,
    newRecords <- recordBuffer \ dbRecords,
    newSpent <- IF phase = "spent" THEN {} ELSE spentBuffer,
    requests <- [t \in Threads |-> CallsOf(channel, t)]

\* Every behaviour of the worker and its channel is one of the atomic store: calls
\* of all threads take effect one at a time, each thread's in the order it made them,
\* commits show their records and spends together, and crashes lose exactly what was
\* not committed.
ImplementsAtomicStore == Atomic!SafeSpec

\* The calls of every thread take effect in the end, those that it does not wait for too,
\* however many the other threads make.
EffectsComeTrue == Atomic!Served
============================================================================
