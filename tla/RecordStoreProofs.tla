-------------------------- MODULE RecordStoreProofs --------------------------
(***************************************************************************)
(* Theorems about the record store, for every set of keys and threads and   *)
(* every bound: its types, that no serial number is spent twice, that no    *)
(* commitment is added twice, that its answers are fresh, and that it       *)
(* implements a store whose calls and commits are atomic.                   *)
(***************************************************************************)
EXTENDS RecordStoreRefinement, TLAPS, FiniteSetTheorems, SequenceTheorems,
        WellFoundedInduction

\* A thread sends nothing after a call that it still waits for.
CallsComeLast ==
    \A i, j \in 1..Len(channel) :
        i < j /\ channel[i].by = channel[j].by => ~IsSync(channel[i])

\* The history counts 1 exactly for the spends that the store holds.
SpendsAccounted ==
    \A s \in Serials \ lost :
        spendAcks[s] = IF s \in dbSpent \cup spentBuffer THEN 1 ELSE 0

\* The history counts 1 exactly for the additions that the store holds.
AddsAccounted ==
    \A c \in Commitments :
        addAcks[c] = IF c \in dbRecords \cup recordBuffer THEN 1 ELSE 0

----------------------------------------------------------------------------
(* Types.                                                                    *)

\* What the head of the channel is, when the worker receives a command.
LEMMA HeadOfChannel ==
    ASSUME channel \in Seq(Command), NEW k \in Kinds, Receive(k)
    PROVE  /\ Head(channel) \in Command
           /\ Head(channel).kind = k
           /\ Head(channel).by \in Threads
           /\ channel' \in Seq(Command)
           /\ k = "Add" => Head(channel) \in AddCall
           /\ k = "Spend" => Head(channel) \in SpendCall
           /\ k = "IsUnspent" => Head(channel) \in UnspentCall
           /\ k = "ScanSpentRecords" => Head(channel) \in ScanSpentCall
           /\ k = "ScanRecords" => Head(channel) \in ScanCall
<1>1. Head(channel) \in Command /\ Head(channel).kind = k /\ channel' \in Seq(Command)
    BY DEF Receive
<1>2. QED
    BY <1>1
    DEF Command, Kinds, AddCall, SpendCall, UnspentCall, CommitCall, ScanSpentCall, ScanCall

\* The answer that each handler builds has a type of Answers.
LEMMA AnswerTypes ==
    ASSUME NEW cmd
    PROVE  /\ cmd \in AddCall \cup SpendCall =>
                \A r \in {"Ok", "Err"} : [call |-> cmd, result |-> r] \in Answers
           /\ cmd \in UnspentCall =>
                \A b \in BOOLEAN : [call |-> cmd, unspent |-> b] \in Answers
           /\ cmd \in ScanSpentCall =>
                \A set \in SUBSET Serials : [call |-> cmd, serials |-> set] \in Answers
           /\ cmd \in ScanCall =>
                \A set \in SUBSET Commitments, last \in Commitments \cup {None} :
                    [call |-> cmd, page |-> [records |-> set, last |-> last]] \in Answers
BY DEF Answers

\* The types of the variables are an invariant of the store.
THEOREM Typed == Spec => []TypeOK
<1>1. Init => TypeOK
    BY BoundsAssumption DEF Init, TypeOK
<1>2. TypeOK /\ [Next]_vars => TypeOK'
    <2> SUFFICES ASSUME TypeOK, [Next]_vars PROVE TypeOK'
        OBVIOUS
    <2> USE DEF TypeOK, disk, memory, history
    <2> USE BoundsAssumption
    <2>1. ASSUME NEW cmd \in Command, Send(cmd) PROVE TypeOK'
        BY <2>1 DEF Send, Enqueue
    <2>2. CASE HandleAdd
        <3>1. Receive("Add")
            BY <2>2 DEF HandleAdd
        <3>2. answer' \in Answers
            BY <2>2, <3>1, HeadOfChannel, AnswerTypes DEF HandleAdd, Kinds
        <3>3. faults' \in 0..MaxFaults
            BY <2>2 DEF HandleAdd, CountFault, MayFail
        <3>4. recordBuffer' \subseteq Commitments /\ addAcks' \in [Commitments -> Nat]
            BY <2>2, <3>1, HeadOfChannel DEF HandleAdd, AddCall, Kinds
        <3>5. QED
            BY <2>2, <3>1, <3>2, <3>3, <3>4, HeadOfChannel DEF HandleAdd, Kinds
    <2>3. CASE HandleSpend
        <3>1. Receive("Spend")
            BY <2>3 DEF HandleSpend
        <3>2. answer' \in Answers
            BY <2>3, <3>1, HeadOfChannel, AnswerTypes DEF HandleSpend, Kinds
        <3>3. faults' \in 0..MaxFaults
            BY <2>3 DEF HandleSpend, CountFault, MayFail
        <3>4. spentBuffer' \subseteq Serials /\ spendAcks' \in [Serials -> Nat]
            BY <2>3, <3>1, HeadOfChannel DEF HandleSpend, SpendCall, Kinds
        <3>5. QED
            BY <2>3, <3>1, <3>2, <3>3, <3>4, HeadOfChannel DEF HandleSpend, Kinds
    <2>4. CASE HandleIsUnspent
        <3>1. Receive("IsUnspent")
            BY <2>4 DEF HandleIsUnspent
        <3>2. answer' \in Answers
            BY <2>4, <3>1, HeadOfChannel, AnswerTypes
            DEF HandleIsUnspent, Kinds, Spent, KeyExistsOrFails
        <3>3. faults' \in 0..MaxFaults
            BY <2>4 DEF HandleIsUnspent, CountFault, MayFail
        <3>4. QED
            BY <2>4, <3>1, <3>2, <3>3, HeadOfChannel DEF HandleIsUnspent, Kinds
    <2>5. CASE CommitRecords
        <3>1. faults' \in 0..MaxFaults
            BY <2>5 DEF CommitRecords, Written, CountFault, MayFail
        <3>2. QED
            BY <2>5, <3>1, HeadOfChannel DEF CommitRecords, Written, Kinds
    <2>6. CASE CommitSpent
        <3>1. faults' \in 0..MaxFaults
            BY <2>6 DEF CommitSpent, Written, CountFault, MayFail
        <3>2. QED
            BY <2>6, <3>1 DEF CommitSpent, Written
    <2>7. CASE HandleScanRecords
        <3>1. Receive("ScanRecords")
            BY <2>7 DEF HandleScanRecords
        <3>2. answer' \in Answers
            <4>1. PICK unreadable \in SUBSET dbRecords, last \in dbRecords \cup {None} :
                    answer' = [call |-> Head(channel),
                               page |-> [records |-> Page(dbRecords \ unreadable,
                                             Head(channel).from, Head(channel).limit),
                                         last |-> last]]
                BY <2>7 DEF HandleScanRecords
            <4>2. Page(dbRecords \ unreadable, Head(channel).from, Head(channel).limit)
                    \in SUBSET Commitments
                BY DEF Page
            <4>3. Head(channel) \in ScanCall
                BY <3>1, HeadOfChannel DEF Kinds
            <4>4. QED
                BY <4>1, <4>2, <4>3, AnswerTypes
        <3>3. faults' \in 0..MaxFaults
            BY <2>7 DEF HandleScanRecords, CountFault, MayFail
        <3>4. QED
            BY <2>7, <3>1, <3>2, <3>3, HeadOfChannel DEF HandleScanRecords, Kinds
    <2>8. CASE HandleScanSpent
        <3>1. Receive("ScanSpentRecords")
            BY <2>8 DEF HandleScanSpent
        <3>2. answer' \in Answers
            BY <2>8, <3>1, HeadOfChannel, AnswerTypes DEF HandleScanSpent, Kinds
        <3>3. faults' \in 0..MaxFaults
            BY <2>8 DEF HandleScanSpent, CountFault, MayFail
        <3>4. QED
            BY <2>8, <3>1, <3>2, <3>3, HeadOfChannel DEF HandleScanSpent, Kinds
    <2>9. CASE Crash
        BY <2>9 DEF Crash
    <2>10. CASE UNCHANGED vars
        BY <2>10 DEF vars
    <2>11. QED
        BY <2>1, <2>2, <2>3, <2>4, <2>5, <2>6, <2>7, <2>8, <2>9, <2>10 DEF Next, Worker
<1>3. QED
    BY <1>1, <1>2, PTL DEF Spec

----------------------------------------------------------------------------
(* Spends and additions.                                                     *)

\* Command::Spend looks into the database and into the buffer, and Commit moves what
\* it clears from one to the other.
LEMMA Accounting == Spec => []SpendsAccounted
<1>1. Init => SpendsAccounted
    BY DEF Init, SpendsAccounted
<1>2. TypeOK /\ SpendsAccounted /\ [Next]_vars => SpendsAccounted'
    <2> SUFFICES ASSUME TypeOK, SpendsAccounted, [Next]_vars PROVE SpendsAccounted'
        OBVIOUS
    <2> USE DEF TypeOK, SpendsAccounted, disk, memory, history
    <2>1. CASE HandleSpend
        <3>1. Head(channel).key \in Serials
            BY <2>1, HeadOfChannel DEF HandleSpend, SpendCall, Kinds
        <3>2. PICK fails \in BOOLEAN :
                IF Spent(Head(channel).key, fails)
                THEN UNCHANGED <<spentBuffer, spendAcks>>
                ELSE /\ spentBuffer' = spentBuffer \cup {Head(channel).key}
                     /\ spendAcks' = [spendAcks EXCEPT ![Head(channel).key] = @ + 1]
            BY <2>1 DEF HandleSpend
        <3>3. UNCHANGED <<dbSpent, lost>>
            BY <2>1 DEF HandleSpend
        <3>4. QED
            BY <3>1, <3>2, <3>3 DEF Spent, KeyExistsOrFails
    <2>2. CASE CommitSpent
        BY <2>2 DEF CommitSpent, Written
    <2>3. CASE Crash
        BY <2>3 DEF Crash
    <2>4. CASE HandleAdd
        BY <2>4 DEF HandleAdd
    <2>5. CASE \/ HandleIsUnspent \/ CommitRecords \/ HandleScanRecords \/ HandleScanSpent
               \/ \E cmd \in Command : Send(cmd)
        BY <2>5 DEF HandleIsUnspent, CommitRecords, Written, HandleScanRecords,
            HandleScanSpent, Send, Enqueue
    <2>6. CASE UNCHANGED vars
        BY <2>6 DEF vars
    <2>7. QED
        BY <2>1, <2>2, <2>3, <2>4, <2>5, <2>6 DEF Next, Worker
<1>3. QED
    BY <1>1, <1>2, Typed, PTL DEF Spec

\* No serial number is accepted twice by Spend, unless the database refused the batch
\* that held it.
THEOREM SpentOnce == Spec => []NoDoubleSpend
<1>1. SpendsAccounted => NoDoubleSpend
    BY DEF SpendsAccounted, NoDoubleSpend
<1>2. QED
    BY <1>1, Accounting, PTL

\* No commitment is accepted twice by Add, even when writes fail: the record buffer
\* forgets nothing before the process ends.
THEOREM AddedOnce == Spec => []NoDoubleAdd
<1>1. Init => AddsAccounted
    BY DEF Init, AddsAccounted
<1>2. TypeOK /\ AddsAccounted /\ [Next]_vars => AddsAccounted'
    <2> SUFFICES ASSUME TypeOK, AddsAccounted, [Next]_vars PROVE AddsAccounted'
        OBVIOUS
    <2> USE DEF TypeOK, AddsAccounted, disk, memory, history
    <2>1. CASE HandleAdd
        <3>1. Head(channel).key \in Commitments
            BY <2>1, HeadOfChannel DEF HandleAdd, AddCall, Kinds
        <3>2. PICK fails \in BOOLEAN :
                IF Known(Head(channel).key, fails)
                THEN UNCHANGED <<recordBuffer, addAcks>>
                ELSE /\ recordBuffer' = recordBuffer \cup {Head(channel).key}
                     /\ addAcks' = [addAcks EXCEPT ![Head(channel).key] = @ + 1]
            BY <2>1 DEF HandleAdd
        <3>3. UNCHANGED dbRecords
            BY <2>1 DEF HandleAdd
        <3>4. QED
            BY <3>1, <3>2, <3>3 DEF Known, KeyExistsOrFails
    <2>2. CASE CommitRecords
        BY <2>2 DEF CommitRecords, Written
    <2>3. CASE Crash
        BY <2>3 DEF Crash
    <2>4. CASE HandleSpend
        BY <2>4 DEF HandleSpend
    <2>5. CASE \/ HandleIsUnspent \/ CommitSpent \/ HandleScanRecords \/ HandleScanSpent
               \/ \E cmd \in Command : Send(cmd)
        BY <2>5 DEF HandleIsUnspent, CommitSpent, Written, HandleScanRecords,
            HandleScanSpent, Send, Enqueue
    <2>6. CASE UNCHANGED vars
        BY <2>6 DEF vars
    <2>7. QED
        BY <2>1, <2>2, <2>3, <2>4, <2>5, <2>6 DEF Next, Worker
<1>3. AddsAccounted => NoDoubleAdd
    BY DEF AddsAccounted, NoDoubleAdd
<1>4. QED
    BY <1>1, <1>2, <1>3, Typed, PTL DEF Spec

\* An answer "unspent" comes before every accepted Spend of that serial number.
THEOREM FreshAnswers == Spec => UnspentAnswersAreFresh
<1> DEFINE Fresh ==
        answer' # None /\ answer'.call.kind = "IsUnspent" /\ answer'.unspent
            => spendAcks[answer'.call.key] = 0 \/ answer'.call.key \in lost
<1>1. TypeOK /\ SpendsAccounted /\ [Next]_vars => [Fresh]_vars
    <2> SUFFICES ASSUME TypeOK, SpendsAccounted, Next PROVE Fresh
        BY DEF vars
    <2> USE DEF TypeOK
    <2>1. CASE HandleIsUnspent
        <3>1. Head(channel).key \in Serials
            BY <2>1, HeadOfChannel DEF HandleIsUnspent, UnspentCall, Kinds
        <3>2. PICK fails \in BOOLEAN :
                answer' = [call |-> Head(channel),
                           unspent |-> ~Spent(Head(channel).key, fails)]
            BY <2>1 DEF HandleIsUnspent
        <3>3. CASE Spent(Head(channel).key, fails)
            BY <3>2, <3>3
        <3>4. CASE ~Spent(Head(channel).key, fails)
            BY <3>1, <3>2, <3>4 DEF Spent, KeyExistsOrFails, SpendsAccounted
        <3>5. QED
            BY <3>3, <3>4
    <2>2. CASE HandleAdd
        <3>1. answer'.call.kind = "Add"
            BY <2>2, HeadOfChannel DEF HandleAdd, Kinds
        <3>2. QED
            BY <3>1
    <2>3. CASE HandleSpend
        <3>1. answer'.call.kind = "Spend"
            BY <2>3, HeadOfChannel DEF HandleSpend, Kinds
        <3>2. QED
            BY <3>1
    <2>4. CASE HandleScanRecords
        <3>1. answer'.call.kind = "ScanRecords"
            BY <2>4, HeadOfChannel DEF HandleScanRecords, Kinds
        <3>2. QED
            BY <3>1
    <2>5. CASE HandleScanSpent
        <3>1. answer'.call.kind = "ScanSpentRecords"
            BY <2>5, HeadOfChannel DEF HandleScanSpent, Kinds
        <3>2. QED
            BY <3>1
    <2>6. CASE CommitRecords \/ CommitSpent \/ Crash \/ \E cmd \in Command : Send(cmd)
        BY <2>6 DEF CommitRecords, Written, CommitSpent, Crash, Send, Enqueue
    <2>7. QED
        BY <2>1, <2>2, <2>3, <2>4, <2>5, <2>6 DEF Next, Worker
<1>2. QED
    BY <1>1, Typed, Accounting, PTL DEF Spec, UnspentAnswersAreFresh

----------------------------------------------------------------------------
(* The order of the channel.                                                 *)

\* An index that is not the last one.
LEMMA NotTheLast == \A n \in Nat : \A j \in 1..(n + 1) : j # n + 1 => j \in 1..n
OBVIOUS

\* The worker takes commands from the front and callers wait for their answers, so
\* that when a call is answered, its thread has nothing left on the channel.
THEOREM Barrier == Spec => []CommitIsBarrier
<1> DEFINE Inv == TypeOK /\ CallsComeLast /\ CommitIsBarrier
<1>1. Init => Inv
    BY BoundsAssumption DEF Init, TypeOK, CallsComeLast, CommitIsBarrier
<1>2. TypeOK /\ TypeOK' /\ CallsComeLast /\ CommitIsBarrier /\ [Next]_vars
        => CallsComeLast' /\ CommitIsBarrier'
    <2> SUFFICES ASSUME TypeOK, CallsComeLast, CommitIsBarrier, [Next]_vars
                 PROVE  CallsComeLast' /\ CommitIsBarrier'
        OBVIOUS
    <2> USE DEF TypeOK
    <2>1. ASSUME NEW k \in Kinds, Receive(k)
          PROVE  /\ CallsComeLast'
                 /\ k # "Commit" =>
                        \A i \in 1..Len(channel') : channel'[i].by # Head(channel).by
        <3>1. /\ channel \in Seq(Command) /\ channel # <<>> /\ Len(channel) \in Nat
              /\ channel' = Tail(channel) /\ Head(channel) = channel[1]
              /\ Len(channel') = Len(channel) - 1
              /\ \A i \in 1..Len(channel') : channel'[i] = channel[i + 1]
            BY <2>1 DEF Receive
        <3>2. CallsComeLast'
            BY <3>1 DEF CallsComeLast, IsSync
        <3>3. Head(channel).kind = k
            BY <2>1 DEF Receive
        <3>4. ASSUME k # "Commit", NEW i \in 1..Len(channel')
              PROVE  channel'[i].by # Head(channel).by
            BY <3>1, <3>3, <3>4 DEF CallsComeLast, IsSync
        <3>5. QED
            BY <3>2, <3>4
    <2>2. CASE \E cmd \in Command : Send(cmd)
        <3>1. PICK cmd \in Command : Send(cmd)
            BY <2>2
        <3>2. /\ channel' = Append(channel, cmd) /\ Len(channel) \in Nat
              /\ Len(channel') = Len(channel) + 1
              /\ channel'[Len(channel) + 1] = cmd
              /\ \A i \in 1..Len(channel) : channel'[i] = channel[i]
            BY <3>1 DEF Send, Enqueue
        <3>3. \A i \in 1..Len(channel) : channel[i].by = cmd.by => ~IsSync(channel[i])
            BY <3>1 DEF Send, Enqueue, Blocked
        <3>4. CallsComeLast'
            <4> SUFFICES ASSUME NEW i \in 1..Len(channel'), NEW j \in 1..Len(channel'),
                                i < j, channel'[i].by = channel'[j].by
                         PROVE  ~IsSync(channel'[i])
                BY DEF CallsComeLast, IsSync
            <4>1. i \in 1..Len(channel) /\ channel'[i] = channel[i]
                BY <3>2
            <4>2. CASE j = Len(channel) + 1
                <5>1. channel'[j] = cmd
                    BY <3>2, <4>2
                <5>2. QED
                    BY <3>3, <4>1, <5>1 DEF IsSync
            <4>3. CASE j # Len(channel) + 1
                <5>1. j \in 1..Len(channel)
                    <6>1. j \in 1..(Len(channel) + 1) /\ Len(channel) \in Nat
                        BY <3>2
                    <6>2. QED
                        BY <4>3, <6>1, NotTheLast
                <5>2. channel'[j] = channel[j]
                    BY <3>2, <5>1
                <5>3. QED
                    BY <4>1, <5>1, <5>2 DEF CallsComeLast
            <4>4. QED
                BY <4>2, <4>3
        <3>5. QED
            BY <3>1, <3>4 DEF Send, Enqueue, CommitIsBarrier
    <2>3. CASE HandleAdd
        BY <2>1, <2>3 DEF HandleAdd, CommitIsBarrier, Kinds
    <2>4. CASE HandleSpend
        BY <2>1, <2>4 DEF HandleSpend, CommitIsBarrier, Kinds
    <2>5. CASE HandleIsUnspent
        BY <2>1, <2>5 DEF HandleIsUnspent, CommitIsBarrier, Kinds
    <2>6. CASE HandleScanRecords
        BY <2>1, <2>6 DEF HandleScanRecords, CommitIsBarrier, Kinds
    <2>7. CASE HandleScanSpent
        BY <2>1, <2>7 DEF HandleScanSpent, CommitIsBarrier, Kinds
    <2>8. CASE CommitRecords
        BY <2>1, <2>8 DEF CommitRecords, Written, CommitIsBarrier, Kinds
    <2>9. CASE CommitSpent
        BY <2>9 DEF CommitSpent, Written, CallsComeLast, CommitIsBarrier
    <2>10. CASE Crash
        BY <2>10 DEF Crash, CallsComeLast, CommitIsBarrier
    <2>11. CASE UNCHANGED vars
        BY <2>11 DEF vars, CallsComeLast, CommitIsBarrier
    <2>12. QED
        BY <2>2, <2>3, <2>4, <2>5, <2>6, <2>7, <2>8, <2>9, <2>10, <2>11 DEF Next, Worker
<1>3. QED
    BY <1>1, <1>2, Typed, PTL DEF Spec

----------------------------------------------------------------------------
(* The calls of a thread, in the order of the channel.                       *)

\* A set of numbers that has 0 and every successor has all of them.
LEMMA Induction ==
    ASSUME NEW P, 0 \in P, \A n \in Nat : n \in P => n + 1 \in P
    PROVE  Nat \subseteq P
<1> DEFINE T == Nat \ P
<1>1. SUFFICES ASSUME T # {} PROVE FALSE
    OBVIOUS
<1>2. PICK n \in T : \A m \in T : <<m, n>> \notin OpToRel(<, Nat)
    <2>1. T \subseteq Nat
        OBVIOUS
    <2> HIDE DEF T
    <2>2. QED
        BY <1>1, <2>1, NatLessThanWellFounded, WFMin
<1>3. n \in Nat /\ n # 0 /\ n - 1 \in Nat /\ n - 1 < n
    OBVIOUS
<1>4. n - 1 \in T
    <2>1. n - 1 \notin P
        BY <1>3
    <2>2. QED
        BY <1>3, <2>1
<1>5. <<n - 1, n>> \in OpToRel(<, Nat)
    BY <1>3 DEF OpToRel
<1>6. QED
    BY <1>2, <1>4, <1>5

\* What CallsUpTo computes.
LEMMA CallsSteps ==
    ASSUME NEW cmds, NEW t, Len(cmds) \in Nat
    PROVE  LET calls == CallsUpTo(cmds, t) IN
           /\ calls[0] = <<>>
           /\ \A n \in 1..Len(cmds) :
                calls[n] = IF cmds[n].by = t THEN Append(calls[n - 1], cmds[n])
                           ELSE calls[n - 1]
<1> DEFINE Next1(s, n) == IF cmds[n].by = t THEN Append(s, cmds[n]) ELSE s
           Step(g, n) == IF n = 0 THEN <<>>
                         ELSE IF cmds[n].by = t THEN Append(g[n - 1], cmds[n])
                         ELSE g[n - 1]
           Is(g, m) == g = [n \in 0..m |-> Step(g, n)]
           P == {m \in Nat : \E g : Is(g, m)}
           calls == CallsUpTo(cmds, t)
<1>1. 0 \in P
    <2>1. Is([n \in 0..0 |-> <<>>], 0)
        OBVIOUS
    <2>2. QED
        BY <2>1
<1>2. ASSUME NEW m \in Nat, m \in P PROVE m + 1 \in P
    <2>1. PICK g : Is(g, m)
        BY <1>2
    <2> DEFINE h == [n \in 0..(m + 1) |-> IF n <= m THEN g[n] ELSE Next1(g[m], n)]
    <2>2. ASSUME NEW n \in 0..(m + 1) PROVE h[n] = Step(h, n)
        <3>1. CASE n = 0
            BY <2>1, <3>1
        <3>2. CASE n # 0 /\ n <= m
            <4>1. n \in 0..m /\ n - 1 \in 0..m /\ n - 1 \in 0..(m + 1)
                BY <3>2
            <4>2. h[n] = g[n] /\ h[n - 1] = g[n - 1]
                BY <4>1
            <4>3. g[n] = Next1(g[n - 1], n)
                BY <2>1, <3>2, <4>1
            <4>4. QED
                BY <3>2, <4>2, <4>3
        <3>3. CASE n = m + 1
            <4>1. h[m] = g[m] /\ h[n] = Next1(g[m], n)
                BY <3>3
            <4>2. n # 0 /\ n - 1 = m
                BY <3>3
            <4>3. QED
                BY <4>1, <4>2
        <3>4. QED
            BY <3>1, <3>2, <3>3
    <2>3. h = [n \in 0..(m + 1) |-> Step(h, n)]
        BY <2>2, Zenon
    <2> HIDE DEF h
    <2>4. QED
        BY <2>3
<1>3. \E g : Is(g, Len(cmds))
    <2>1. Nat \subseteq P
        <3> HIDE DEF P
        <3>1. QED
            BY <1>1, <1>2, Induction
    <2>2. QED
        BY <2>1
<1>4. Is(calls, Len(cmds))
    <2> DEFINE Q(g) == Is(g, Len(cmds))
    <2>1. \E g : Q(g)
        BY <1>3
    <2> HIDE DEF Q
    <2>2. Q(CHOOSE g : Q(g))
        BY <2>1
    <2>3. QED
        BY <2>2 DEF Q, CallsUpTo
<1> HIDE DEF calls
<1>5. \A n \in 0..Len(cmds) : calls[n] = Step(calls, n)
    BY <1>4
<1>6. calls[0] = <<>>
    BY <1>5
<1>7. ASSUME NEW n \in 1..Len(cmds)
      PROVE  calls[n] = IF cmds[n].by = t THEN Append(calls[n - 1], cmds[n])
                        ELSE calls[n - 1]
    <2>1. n \in 0..Len(cmds) /\ n # 0
        OBVIOUS
    <2>2. calls[n] = Step(calls, n)
        BY <1>5, <2>1
    <2>3. QED
        BY <2>1, <2>2
<1>8. QED
    BY <1>6, <1>7 DEF calls

\* The calls of t are commands, and those on the channel only.
LEMMA CallsAreCommands ==
    ASSUME NEW cmds \in Seq(Command), NEW t
    PROVE  /\ CallsOf(cmds, t) \in Seq(Command)
           /\ \A i \in 1..Len(CallsOf(cmds, t)) :
                \E j \in 1..Len(cmds) :
                    cmds[j].by = t /\ CallsOf(cmds, t)[i] = cmds[j]
<1> DEFINE calls == CallsUpTo(cmds, t)
           Sent(s) == \A i \in 1..Len(s) :
                        \E j \in 1..Len(cmds) : cmds[j].by = t /\ s[i] = cmds[j]
           P == {n \in Nat : n <= Len(cmds) => calls[n] \in Seq(Command) /\ Sent(calls[n])}
<1>1. Len(cmds) \in Nat /\ \A n \in 1..Len(cmds) : cmds[n] \in Command
    OBVIOUS
<1>2. /\ calls[0] = <<>>
      /\ \A n \in 1..Len(cmds) :
            calls[n] = IF cmds[n].by = t THEN Append(calls[n - 1], cmds[n])
                       ELSE calls[n - 1]
    BY <1>1, CallsSteps
<1> HIDE DEF calls
<1>3. 0 \in P
    <2>1. <<>> \in Seq(Command) /\ Sent(<<>>)
        OBVIOUS
    <2>2. calls[0] = <<>>
        BY <1>2
    <2> HIDE DEF Sent
    <2>3. QED
        BY <2>1, <2>2
<1>4. ASSUME NEW n \in Nat, n \in P PROVE n + 1 \in P
    <2> SUFFICES ASSUME n + 1 <= Len(cmds)
                 PROVE  calls[n + 1] \in Seq(Command) /\ Sent(calls[n + 1])
        OBVIOUS
    <2>1. n + 1 \in 1..Len(cmds) /\ (n + 1) - 1 = n /\ n <= Len(cmds)
        BY <1>1
    <2> DEFINE s == calls[n]
               c == cmds[n + 1]
    <2>2. s \in Seq(Command) /\ Sent(s) /\ c \in Command
        BY <1>1, <1>4, <2>1
    <2>3. calls[n + 1] = IF c.by = t THEN Append(s, c) ELSE s
        BY <1>2, <2>1
    <2> HIDE DEF s, c
    <2>4. CASE c.by = t
        <3>1. /\ Append(s, c) \in Seq(Command) /\ Len(Append(s, c)) = Len(s) + 1
              /\ Append(s, c)[Len(s) + 1] = c /\ Len(s) \in Nat
              /\ \A i \in 1..Len(s) : Append(s, c)[i] = s[i]
            BY <2>2
        <3>2. ASSUME NEW i \in 1..(Len(s) + 1)
              PROVE  \E j \in 1..Len(cmds) : cmds[j].by = t /\ Append(s, c)[i] = cmds[j]
            <4>1. CASE i = Len(s) + 1
                BY <2>1, <2>4, <3>1, <4>1 DEF c
            <4>2. CASE i # Len(s) + 1
                <5>1. i \in 1..Len(s)
                    BY <3>1, <4>2
                <5>2. QED
                    BY <2>2, <3>1, <5>1
            <4>3. QED
                BY <4>1, <4>2
        <3>3. QED
            BY <2>3, <2>4, <3>1, <3>2
    <2>5. CASE c.by # t
        BY <2>2, <2>3, <2>5
    <2>6. QED
        BY <2>4, <2>5
<1>5. Nat \subseteq P
    <2> HIDE DEF P
    <2>1. QED
        BY <1>3, <1>4, Induction
<1>6. QED
    BY <1>1, <1>5 DEF CallsOf, calls

\* A command that is sent comes last among those of its thread.
LEMMA CallsWhenSent ==
    ASSUME NEW cmds \in Seq(Command), NEW c \in Command, NEW t
    PROVE  CallsOf(Append(cmds, c), t) =
                IF c.by = t THEN Append(CallsOf(cmds, t), c) ELSE CallsOf(cmds, t)
<1> DEFINE more == Append(cmds, c)
           old == CallsUpTo(cmds, t)
           new == CallsUpTo(more, t)
           P == {n \in Nat : n <= Len(cmds) => new[n] = old[n]}
<1>1. /\ Len(cmds) \in Nat /\ Len(more) = Len(cmds) + 1 /\ Len(more) \in Nat
      /\ more[Len(cmds) + 1] = c
      /\ \A n \in 1..Len(cmds) : more[n] = cmds[n]
    OBVIOUS
<1> HIDE DEF more
<1>2. /\ old[0] = <<>>
      /\ \A n \in 1..Len(cmds) :
            old[n] = IF cmds[n].by = t THEN Append(old[n - 1], cmds[n]) ELSE old[n - 1]
    BY <1>1, CallsSteps
<1>3. /\ new[0] = <<>>
      /\ \A n \in 1..Len(more) :
            new[n] = IF more[n].by = t THEN Append(new[n - 1], more[n]) ELSE new[n - 1]
    BY <1>1, CallsSteps
<1> HIDE DEF old, new
<1>4. 0 \in P
    BY <1>2, <1>3
<1>5. ASSUME NEW n \in Nat, n \in P PROVE n + 1 \in P
    <2> SUFFICES ASSUME n + 1 <= Len(cmds) PROVE new[n + 1] = old[n + 1]
        OBVIOUS
    <2>1. /\ n + 1 \in 1..Len(cmds) /\ n + 1 \in 1..Len(more)
          /\ (n + 1) - 1 = n /\ n <= Len(cmds)
        BY <1>1
    <2>2. new[n] = old[n] /\ more[n + 1] = cmds[n + 1]
        BY <1>1, <1>5, <2>1
    <2>3. QED
        BY <1>2, <1>3, <2>1, <2>2
<1>6. Nat \subseteq P
    <2> HIDE DEF P
    <2>1. QED
        BY <1>4, <1>5, Induction
<1>7. new[Len(cmds)] = old[Len(cmds)]
    BY <1>1, <1>6
<1>8. new[Len(more)] = IF c.by = t THEN Append(new[Len(cmds)], c) ELSE new[Len(cmds)]
    <2>1. /\ Len(more) \in 1..Len(more) /\ Len(more) - 1 = Len(cmds)
          /\ more[Len(more)] = c
        BY <1>1
    <2>2. QED
        BY <1>3, <2>1
<1>9. QED
    BY <1>7, <1>8 DEF CallsOf, old, new, more

\* A command that is received is the first of its thread, and the others wait on.
LEMMA CallsWhenReceived ==
    ASSUME NEW cmds \in Seq(Command), cmds # <<>>, NEW t
    PROVE  IF Head(cmds).by = t
           THEN /\ CallsOf(cmds, t) # <<>>
                /\ Head(CallsOf(cmds, t)) = Head(cmds)
                /\ Tail(CallsOf(cmds, t)) = CallsOf(Tail(cmds), t)
           ELSE CallsOf(cmds, t) = CallsOf(Tail(cmds), t)
<1> DEFINE rest == Tail(cmds)
           h == Head(cmds)
           all == CallsUpTo(cmds, t)
           left == CallsUpTo(rest, t)
           Follows(s, r) == IF h.by = t THEN s # <<>> /\ Head(s) = h /\ Tail(s) = r
                            ELSE s = r
           P == {n \in Nat : n <= Len(rest) =>
                    all[n + 1] \in Seq(Command) /\ Follows(all[n + 1], left[n])}
<1>1. /\ Len(rest) \in Nat /\ Len(cmds) = Len(rest) + 1 /\ Len(cmds) \in Nat
      /\ h = cmds[1] /\ h \in Command /\ \A n \in 1..Len(cmds) : cmds[n] \in Command
      /\ \A n \in 1..Len(rest) : rest[n] = cmds[n + 1]
    OBVIOUS
<1> HIDE DEF rest, h
<1>2. /\ all[0] = <<>>
      /\ \A n \in 1..Len(cmds) :
            all[n] = IF cmds[n].by = t THEN Append(all[n - 1], cmds[n]) ELSE all[n - 1]
    BY <1>1, CallsSteps
<1>3. /\ left[0] = <<>>
      /\ \A n \in 1..Len(rest) :
            left[n] = IF rest[n].by = t THEN Append(left[n - 1], rest[n])
                      ELSE left[n - 1]
    BY <1>1, CallsSteps
<1> HIDE DEF all, left
<1>4. 0 \in P
    <2>1. all[1] = IF h.by = t THEN Append(all[0], h) ELSE all[0]
        <3>1. 1 \in 1..Len(cmds) /\ 1 - 1 = 0
            BY <1>1
        <3>2. QED
            BY <1>1, <1>2, <3>1
    <2>2. /\ Append(<<>>, h) \in Seq(Command) /\ Append(<<>>, h) # <<>>
          /\ Head(Append(<<>>, h)) = h /\ Tail(Append(<<>>, h)) = <<>>
        BY <1>1
    <2>3. all[1] \in Seq(Command) /\ Follows(all[1], <<>>)
        BY <1>2, <2>1, <2>2
    <2>4. left[0] = <<>> /\ 0 + 1 = 1
        BY <1>3
    <2> HIDE DEF Follows
    <2>5. QED
        BY <2>3, <2>4
<1>5. ASSUME NEW n \in Nat, n \in P PROVE n + 1 \in P
    <2> SUFFICES ASSUME n + 1 <= Len(rest)
                 PROVE  /\ all[(n + 1) + 1] \in Seq(Command)
                        /\ Follows(all[(n + 1) + 1], left[n + 1])
        OBVIOUS
    <2> DEFINE s == all[n + 1]
               r == left[n]
               c == rest[n + 1]
    <2>1. /\ n + 1 \in 1..Len(rest) /\ (n + 1) - 1 = n /\ n <= Len(rest)
          /\ (n + 1) + 1 \in 1..Len(cmds) /\ ((n + 1) + 1) - 1 = n + 1
        BY <1>1
    <2>2. s \in Seq(Command) /\ Follows(s, r)
        BY <1>5, <2>1
    <2>3. c \in Command /\ cmds[(n + 1) + 1] = c
        BY <1>1, <2>1
    <2>4. left[n + 1] = IF c.by = t THEN Append(r, c) ELSE r
        BY <1>3, <2>1
    <2>5. all[(n + 1) + 1] = IF c.by = t THEN Append(s, c) ELSE s
        BY <1>2, <2>1, <2>3
    <2> HIDE DEF s, r, c
    <2>6. Append(s, c) \in Seq(Command) /\ Append(s, c) # <<>>
        BY <2>2, <2>3
    <2>7. s # <<>> => /\ Head(Append(s, c)) = Head(s)
                      /\ Tail(Append(s, c)) = Append(Tail(s), c)
        BY <2>2, HeadTailAppend
    <2>8. Follows(Append(s, c), Append(r, c))
        BY <2>2, <2>6, <2>7
    <2> HIDE DEF Follows
    <2>9. QED
        BY <2>2, <2>4, <2>5, <2>6, <2>8
<1>6. Nat \subseteq P
    <2> HIDE DEF P
    <2>1. QED
        BY <1>4, <1>5, Induction
<1>7. Follows(all[Len(cmds)], left[Len(rest)])
    BY <1>1, <1>6
<1>8. QED
    BY <1>7 DEF CallsOf, all, left, rest, h

----------------------------------------------------------------------------
(* Pages.                                                                    *)

LEMMA LargestNumber ==
    ASSUME NEW S \in SUBSET Nat, IsFiniteSet(S), S # {}
    PROVE  \E m \in S : \A k \in S : k <= m
<1> DEFINE Largest(T) == \E m \in T : \A k \in T : k <= m
           P == {n \in Nat : \A T \in SUBSET Nat :
                    IsFiniteSet(T) /\ Cardinality(T) = n /\ T # {} => Largest(T)}
<1>1. 0 \in P
    BY FS_EmptySet
<1>2. ASSUME NEW n \in Nat, n \in P PROVE n + 1 \in P
    <2> SUFFICES ASSUME NEW T \in SUBSET Nat, IsFiniteSet(T), Cardinality(T) = n + 1,
                        T # {}
                 PROVE  Largest(T)
        OBVIOUS
    <2>1. PICK x \in T : TRUE
        OBVIOUS
    <2> DEFINE R == T \ {x}
    <2>2. IsFiniteSet(R) /\ Cardinality(R) = n /\ R \in SUBSET Nat
        <3>1. Cardinality(R) = (n + 1) - 1 /\ IsFiniteSet(R)
            BY <2>1, FS_RemoveElement
        <3>2. QED
            BY <3>1
    <2>3. CASE R = {}
        <3>1. T = {x}
            BY <2>1, <2>3
        <3>2. QED
            BY <2>1, <3>1
    <2>4. CASE R # {}
        <3>1. Largest(R)
            BY <1>2, <2>2, <2>4
        <3>2. PICK m \in R : \A k \in R : k <= m
            BY <3>1
        <3>3. \A k \in T : k = x \/ k <= m
            BY <3>2
        <3>4. m \in T /\ m \in Nat /\ x \in Nat
            BY <2>1
        <3>5. CASE x <= m
            BY <3>3, <3>4, <3>5
        <3>6. CASE m < x
            BY <2>1, <3>3, <3>4, <3>6
        <3>7. QED
            BY <3>4, <3>5, <3>6
    <2>5. QED
        BY <2>3, <2>4
<1>3. Nat \subseteq P
    <2> HIDE DEF P
    <2>1. QED
        BY <1>1, <1>2, Induction
<1>4. Cardinality(S) \in P
    BY <1>3, FS_CardinalityType
<1>5. QED
    BY <1>4

\* The keys with fewer than limit keys before them.
FirstKeys(keys, limit) == {k \in keys : Cardinality({j \in keys : j < k}) < limit}

\* They are all the keys, or limit of them.
LEMMA FirstKeysCounted ==
    ASSUME NEW S \in SUBSET Nat, IsFiniteSet(S), NEW limit \in Nat
    PROVE  /\ Cardinality(FirstKeys(S, limit)) <= limit
           /\ FirstKeys(S, limit) = S \/ Cardinality(FirstKeys(S, limit)) = limit
<1> DEFINE Counted(T) == /\ Cardinality(FirstKeys(T, limit)) <= limit
                         /\ FirstKeys(T, limit) = T
                                \/ Cardinality(FirstKeys(T, limit)) = limit
           P == {n \in Nat : \A T \in SUBSET Nat :
                    IsFiniteSet(T) /\ Cardinality(T) = n => Counted(T)}
<1>1. 0 \in P
    <2>1. ASSUME NEW T, IsFiniteSet(T), Cardinality(T) = 0 PROVE Counted(T)
        <3>1. T = {}
            BY <2>1, FS_EmptySet
        <3>2. FirstKeys(T, limit) = {}
            BY <3>1 DEF FirstKeys
        <3>3. QED
            BY <3>1, <3>2, FS_EmptySet
    <2> HIDE DEF Counted
    <2>2. QED
        BY <2>1
<1>2. ASSUME NEW n \in Nat, n \in P PROVE n + 1 \in P
    <2> SUFFICES ASSUME NEW T \in SUBSET Nat, IsFiniteSet(T), Cardinality(T) = n + 1
                 PROVE  Counted(T)
        OBVIOUS
    <2>1. T # {}
        BY FS_EmptySet
    <2>2. PICK m \in T : \A k \in T : k <= m
        BY <2>1, LargestNumber
    <2> DEFINE R == T \ {m}
               below == FirstKeys(R, limit)
    <2>3. IsFiniteSet(R) /\ Cardinality(R) = n /\ R \in SUBSET Nat
        <3>1. Cardinality(R) = (n + 1) - 1 /\ IsFiniteSet(R)
            BY <2>2, FS_RemoveElement
        <3>2. QED
            BY <3>1
    <2>4. Counted(R)
        BY <1>2, <2>3
    <2>5. ASSUME NEW k \in R PROVE {j \in T : j < k} = {j \in R : j < k}
        <3>1. k <= m /\ k \in Nat /\ m \in Nat
            BY <2>2
        <3>2. ~(m < k)
            BY <3>1
        <3>3. QED
            BY <3>2
    <2>6. {j \in T : j < m} = R
        <3>1. ASSUME NEW j \in T PROVE j < m <=> j # m
            <4>1. j <= m /\ j \in Nat /\ m \in Nat
                BY <2>2
            <4>2. QED
                BY <4>1
        <3>2. QED
            BY <3>1
    <2>7. \A k \in R : k \in FirstKeys(T, limit) <=> k \in below
        BY <2>5 DEF FirstKeys
    <2>8. m \in FirstKeys(T, limit) <=> n < limit
        BY <2>2, <2>3, <2>6 DEF FirstKeys
    <2>9. FirstKeys(T, limit) \subseteq T /\ below \subseteq R
        BY DEF FirstKeys
    <2>10. IsFiniteSet(below) /\ Cardinality(below) \in Nat
        BY <2>3, <2>9, FS_Subset, FS_CardinalityType
    <2>11. CASE n < limit
        <3>1. below = R
            <4>1. below = R \/ Cardinality(below) = limit
                BY <2>4
            <4>2. Cardinality(below) <= Cardinality(R)
                BY <2>3, <2>9, FS_Subset
            <4>3. Cardinality(below) # limit
                BY <2>3, <2>10, <2>11, <4>2
            <4>4. QED
                BY <4>1, <4>3
        <3>2. FirstKeys(T, limit) = T
            BY <2>2, <2>7, <2>8, <2>9, <2>11, <3>1
        <3>3. QED
            BY <2>11, <3>2
    <2>12. CASE ~(n < limit)
        <3>1. FirstKeys(T, limit) = below
            BY <2>2, <2>7, <2>8, <2>9, <2>12
        <3>2. below = R => Cardinality(below) = limit
            BY <2>3, <2>4, <2>12
        <3>3. QED
            BY <2>4, <3>1, <3>2
    <2>13. QED
        BY <2>11, <2>12
<1>3. Nat \subseteq P
    <2> HIDE DEF P
    <2>1. QED
        BY <1>1, <1>2, Induction
<1>4. Cardinality(S) \in P
    BY <1>3, FS_CardinalityType
<1>5. QED
    BY <1>4

\* The atomic store counts as the record store does.
LEMMA SameCardinality == \A S : Atomic!Cardinality(S) = Cardinality(S)
BY DEF Cardinality, Atomic!Cardinality

\* A page of the record store is one that the atomic store may show.
LEMMA PagesAreAtomic ==
    ASSUME dbRecords \subseteq Commitments, IsFiniteSet(dbRecords), NEW cmd \in ScanCall,
           NEW last, IsLastKey(last, Page(dbRecords, cmd.from, cmd.limit))
    PROVE  LET shown == Page(dbRecords, cmd.from, cmd.limit) IN
           /\ shown \subseteq dbRecords
           /\ Atomic!IsPage([records |-> shown, last |-> last], cmd)
<1> DEFINE shown == Page(dbRecords, cmd.from, cmd.limit)
           eligible == {k \in dbRecords : cmd.from = None \/ cmd.from <= k}
           page == [records |-> shown, last |-> last]
<1>1. /\ cmd.from \in Starts \cup {None} /\ cmd.limit \in Limits \cup {None}
      /\ dbRecords \subseteq Nat /\ Starts \subseteq Nat /\ Limits \subseteq Nat
    BY CommitmentsAssumption, BoundsAssumption DEF ScanCall
<1>2. eligible = {k \in dbRecords : cmd.from = None \/ k >= cmd.from}
    BY <1>1
<1>3. IsFiniteSet(eligible) /\ eligible \in SUBSET Nat
    BY <1>1, FS_Subset
<1>4. shown = {k \in eligible :
                cmd.limit = None \/ Cardinality({j \in eligible : j < k}) < cmd.limit}
    BY <1>2 DEF Page
<1>5. shown \subseteq eligible /\ page.records = shown /\ page.last = last
    BY <1>4
<1>6. cmd.limit = None => shown = eligible
    BY <1>4
<1> HIDE DEF shown, eligible
<1>7. ASSUME cmd.limit # None
      PROVE  /\ Cardinality(shown) <= cmd.limit
             /\ shown = eligible \/ Cardinality(shown) = cmd.limit
    <2>1. cmd.limit \in Nat
        BY <1>1, <1>7
    <2>2. shown = FirstKeys(eligible, cmd.limit)
        BY <1>4, <1>7 DEF FirstKeys
    <2>3. QED
        BY <1>3, <2>1, <2>2, FirstKeysCounted
<1>8. ASSUME NEW k \in shown, NEW j \in eligible \ shown PROVE k < j
    <2>1. cmd.limit # None /\ cmd.limit \in Nat
        BY <1>1, <1>6, <1>8
    <2> DEFINE before(x) == {i \in eligible : i < x}
    <2>2. Cardinality(before(k)) < cmd.limit /\ ~(Cardinality(before(j)) < cmd.limit)
        BY <1>4, <1>8, <2>1
    <2>3. k \in Nat /\ j \in Nat /\ k # j
        BY <1>3, <1>5, <1>8
    <2>4. CASE j < k
        <3>1. before(j) \subseteq before(k)
            <4>1. ASSUME NEW i \in eligible, i < j PROVE i < k
                <5>1. i \in Nat /\ i < j
                    BY <1>3, <4>1
                <5>2. QED
                    BY <2>3, <2>4, <5>1
            <4>2. QED
                BY <4>1
        <3>2. IsFiniteSet(before(k)) /\ IsFiniteSet(before(j))
            BY <1>3, FS_Subset
        <3>3. Cardinality(before(j)) <= Cardinality(before(k))
            BY <3>1, <3>2, FS_Subset
        <3>4. Cardinality(before(j)) \in Nat /\ Cardinality(before(k)) \in Nat
            BY <3>2, FS_CardinalityType
        <3> HIDE DEF before
        <3>5. QED
            BY <2>1, <2>2, <3>3, <3>4
    <2>5. QED
        BY <2>3, <2>4
<1>9. IF shown = {} THEN last = None ELSE last \in shown /\ \A k \in shown : k <= last
    <2>1. IsLastKey(last, shown)
        BY DEF shown
    <2>2. QED
        BY <2>1, CommitmentsAssumption DEF IsLastKey
<1>10. Atomic!IsPage(page, cmd)
    <2>1. eligible = {k \in dbRecords : cmd.from = None \/ cmd.from <= k}
        BY DEF eligible
    <2> HIDE DEF page
    <2>2. QED
        BY <1>5, <1>6, <1>7, <1>8, <1>9, <2>1, SameCardinality DEF Atomic!IsPage
<1>11. shown \subseteq dbRecords
    BY <1>5 DEF eligible
<1>12. QED
    BY <1>10, <1>11 DEF shown

----------------------------------------------------------------------------
(* The record store implements the atomic store.                             *)

\* What the mapping needs: finitely many keys, which scans count, and no answer while a
\* Commit is half done.
IAtomic ==
    /\ TypeOK
    /\ IsFiniteSet(dbRecords) /\ IsFiniteSet(recordBuffer)
    /\ phase = "spent" => answer = None

LEMMA NextAtomic == IAtomic /\ TypeOK' /\ [Next]_vars => IAtomic'
<1> SUFFICES ASSUME IAtomic, [Next]_vars
             PROVE  /\ IsFiniteSet(dbRecords') /\ IsFiniteSet(recordBuffer')
                    /\ phase' = "spent" => answer' = None
    BY DEF IAtomic
<1> USE DEF IAtomic, disk, memory
<1>1. CASE HandleAdd
    <2>1. /\ recordBuffer' = recordBuffer \/ recordBuffer' = recordBuffer \cup
                {Head(channel).key}
          /\ UNCHANGED <<dbRecords, phase>> /\ phase = "recv"
        BY <1>1 DEF HandleAdd, Receive
    <2>2. QED
        BY <2>1, FS_AddElement
<1>2. CASE CommitRecords
    <2>1. /\ dbRecords' = dbRecords \/ dbRecords' = dbRecords \cup recordBuffer
          /\ UNCHANGED recordBuffer /\ answer' = None
        BY <1>2 DEF CommitRecords, Written
    <2>2. QED
        BY <2>1, FS_Union
<1>3. CASE Crash
    BY <1>3, FS_EmptySet DEF Crash
<1>4. CASE HandleSpend \/ HandleIsUnspent \/ HandleScanRecords \/ HandleScanSpent
    BY <1>4
    DEF HandleSpend, HandleIsUnspent, HandleScanRecords, HandleScanSpent, Receive
<1>5. CASE CommitSpent \/ \E cmd \in Command : Send(cmd)
    BY <1>5 DEF CommitSpent, Send
<1>6. CASE UNCHANGED vars
    BY <1>6 DEF vars
<1>7. QED
    BY <1>1, <1>2, <1>3, <1>4, <1>5, <1>6 DEF Next, Worker

Requests(cmds) == [t \in Threads |-> CallsOf(cmds, t)]

\* The thread whose command the worker receives is served.
LEMMA ReceivedIsServed ==
    ASSUME TypeOK, NEW k \in Kinds, Receive(k)
    PROVE  LET t == Head(channel).by IN
           /\ t \in Threads /\ Head(channel).kind = k /\ phase = "recv"
           /\ Requests(channel)[t] # <<>> /\ Head(Requests(channel)[t]) = Head(channel)
           /\ Requests(channel') =
                [Requests(channel) EXCEPT ![t] = Tail(Requests(channel)[t])]
<1> DEFINE t == Head(channel).by
<1>1. /\ channel \in Seq(Command) /\ channel # <<>> /\ channel' = Tail(channel)
      /\ t \in Threads /\ Head(channel).kind = k /\ phase = "recv"
    BY HeadOfChannel DEF TypeOK, Receive
<1>2. \A u : IF t = u
             THEN /\ CallsOf(channel, u) # <<>>
                  /\ Head(CallsOf(channel, u)) = Head(channel)
                  /\ Tail(CallsOf(channel, u)) = CallsOf(Tail(channel), u)
             ELSE CallsOf(channel, u) = CallsOf(Tail(channel), u)
    BY <1>1, CallsWhenReceived
<1> HIDE DEF t
<1>3. /\ Requests(channel)[t] # <<>> /\ Head(Requests(channel)[t]) = Head(channel)
      /\ Requests(channel)[t] = CallsOf(channel, t)
    BY <1>1, <1>2 DEF Requests
<1>4. Requests(channel') = [Requests(channel) EXCEPT ![t] = Tail(Requests(channel)[t])]
    <2>1. \A u \in Threads : CallsOf(channel', u) =
                IF u = t THEN Tail(CallsOf(channel, t)) ELSE CallsOf(channel, u)
        BY <1>1, <1>2
    <2>2. QED
        BY <1>3, <2>1 DEF Requests
<1>5. QED
    BY <1>1, <1>3, <1>4 DEF t

\* With no database call that fails and no crash inside a Commit, every step of the store
\* is one of the atomic store, or changes nothing there.
LEMMA AtomicStep ==
    ASSUME MaxFaults = 0, ~TornCommits, IAtomic, [Next]_vars
    PROVE  [Atomic!Next]_(Atomic!vars)
<1> USE DEF disk, memory
<1>1. TypeOK /\ IsFiniteSet(dbRecords) /\ (phase = "spent" => answer = None)
    BY DEF IAtomic
<1>2. \A fails : MayFail(fails) /\ fails \in BOOLEAN => fails = FALSE
    BY <1>1 DEF TypeOK, MayFail
<1>3. ASSUME NEW t \in Threads, Atomic!Serve(t) PROVE Atomic!Next
    BY <1>3 DEF Atomic!Next
<1>4. CASE HandleAdd
    <2> DEFINE cmd == Head(channel)
               t == cmd.by
    <2>1. Receive("Add") /\ "Add" \in Kinds
        BY <1>4 DEF HandleAdd, Kinds
    <2>2. /\ t \in Threads /\ cmd.kind = "Add" /\ phase = "recv"
          /\ Requests(channel)[t] # <<>> /\ Head(Requests(channel)[t]) = cmd
          /\ Requests(channel') =
                [Requests(channel) EXCEPT ![t] = Tail(Requests(channel)[t])]
        BY <1>1, <2>1, ReceivedIsServed
    <2>3. /\ IF cmd.key \in recordBuffer \/ cmd.key \in dbRecords
             THEN /\ answer' = [call |-> cmd, result |-> "Err"]
                  /\ recordBuffer' = recordBuffer
             ELSE /\ answer' = [call |-> cmd, result |-> "Ok"]
                  /\ recordBuffer' = recordBuffer \cup {cmd.key}
          /\ UNCHANGED <<dbRecords, dbSpent, spentBuffer, phase>>
        BY <1>2, <1>4 DEF HandleAdd, Known, KeyExistsOrFails
    <2> HIDE DEF cmd, t
    <2>4. Atomic!Insert(cmd)
        BY <2>3 DEF Atomic!Insert
    <2>5. Atomic!Serve(t)
        BY <2>2, <2>4 DEF Atomic!Serve, Requests
    <2>6. QED
        BY <1>3, <2>2, <2>5
<1>5. CASE HandleSpend
    <2> DEFINE cmd == Head(channel)
               t == cmd.by
    <2>1. Receive("Spend") /\ "Spend" \in Kinds
        BY <1>5 DEF HandleSpend, Kinds
    <2>2. /\ t \in Threads /\ cmd.kind = "Spend" /\ phase = "recv"
          /\ Requests(channel)[t] # <<>> /\ Head(Requests(channel)[t]) = cmd
          /\ Requests(channel') =
                [Requests(channel) EXCEPT ![t] = Tail(Requests(channel)[t])]
        BY <1>1, <2>1, ReceivedIsServed
    <2>3. /\ IF cmd.key \in spentBuffer \/ cmd.key \in dbSpent
             THEN /\ answer' = [call |-> cmd, result |-> "Err"]
                  /\ spentBuffer' = spentBuffer
             ELSE /\ answer' = [call |-> cmd, result |-> "Ok"]
                  /\ spentBuffer' = spentBuffer \cup {cmd.key}
          /\ UNCHANGED <<dbRecords, dbSpent, recordBuffer, phase>>
        BY <1>2, <1>5 DEF HandleSpend, Spent, KeyExistsOrFails
    <2> HIDE DEF cmd, t
    <2>4. Atomic!Consume(cmd)
        BY <2>2, <2>3 DEF Atomic!Consume
    <2>5. Atomic!Serve(t)
        BY <2>2, <2>4 DEF Atomic!Serve, Requests
    <2>6. QED
        BY <1>3, <2>2, <2>5
<1>6. CASE HandleIsUnspent
    <2> DEFINE cmd == Head(channel)
               t == cmd.by
    <2>1. Receive("IsUnspent") /\ "IsUnspent" \in Kinds
        BY <1>6 DEF HandleIsUnspent, Kinds
    <2>2. /\ t \in Threads /\ cmd.kind = "IsUnspent" /\ phase = "recv"
          /\ Requests(channel)[t] # <<>> /\ Head(Requests(channel)[t]) = cmd
          /\ Requests(channel') =
                [Requests(channel) EXCEPT ![t] = Tail(Requests(channel)[t])]
        BY <1>1, <2>1, ReceivedIsServed
    <2>3. /\ answer' = [call |-> cmd, unspent |-> cmd.key \notin dbSpent \cup spentBuffer]
          /\ UNCHANGED <<dbRecords, dbSpent, recordBuffer, spentBuffer, phase>>
        BY <1>2, <1>6 DEF HandleIsUnspent, Spent, KeyExistsOrFails
    <2> HIDE DEF cmd, t
    <2>4. Atomic!Read(cmd)
        BY <2>2, <2>3 DEF Atomic!Read
    <2>5. Atomic!Serve(t)
        BY <2>2, <2>4 DEF Atomic!Serve, Requests
    <2>6. QED
        BY <1>3, <2>2, <2>5
<1>7. CASE HandleScanSpent
    <2> DEFINE cmd == Head(channel)
               t == cmd.by
    <2>1. Receive("ScanSpentRecords") /\ "ScanSpentRecords" \in Kinds
        BY <1>7 DEF HandleScanSpent, Kinds
    <2>2. /\ t \in Threads /\ cmd.kind = "ScanSpentRecords" /\ phase = "recv"
          /\ Requests(channel)[t] # <<>> /\ Head(Requests(channel)[t]) = cmd
          /\ Requests(channel') =
                [Requests(channel) EXCEPT ![t] = Tail(Requests(channel)[t])]
        BY <1>1, <2>1, ReceivedIsServed
    <2>3. PICK unreadable \in SUBSET dbSpent :
                /\ MayFail(unreadable # {})
                /\ answer' = [call |-> cmd, serials |-> dbSpent \ unreadable]
        BY <1>7 DEF HandleScanSpent
    <2>4. unreadable = {}
        BY <1>2, <2>3
    <2>5. /\ answer' = [call |-> cmd, serials |-> dbSpent]
          /\ UNCHANGED <<dbRecords, dbSpent, recordBuffer, spentBuffer, phase>>
        BY <1>7, <2>3, <2>4 DEF HandleScanSpent
    <2> HIDE DEF cmd, t
    <2>6. Atomic!Read(cmd)
        BY <2>2, <2>5 DEF Atomic!Read
    <2>7. Atomic!Serve(t)
        BY <2>2, <2>6 DEF Atomic!Serve, Requests
    <2>8. QED
        BY <1>3, <2>2, <2>7
<1>8. CASE HandleScanRecords
    <2> DEFINE cmd == Head(channel)
               t == cmd.by
               shown == Page(dbRecords, cmd.from, cmd.limit)
    <2>1. Receive("ScanRecords") /\ "ScanRecords" \in Kinds
        BY <1>8 DEF HandleScanRecords, Kinds
    <2>2. /\ t \in Threads /\ cmd.kind = "ScanRecords" /\ phase = "recv"
          /\ Requests(channel)[t] # <<>> /\ Head(Requests(channel)[t]) = cmd
          /\ Requests(channel') =
                [Requests(channel) EXCEPT ![t] = Tail(Requests(channel)[t])]
        BY <1>1, <2>1, ReceivedIsServed
    <2>3. PICK unreadable \in SUBSET dbRecords, last \in dbRecords \cup {None} :
                LET page == Page(dbRecords \ unreadable, cmd.from, cmd.limit) IN
                /\ MayFail(unreadable # {})
                /\ IsLastKey(last, page)
                /\ answer' = [call |-> cmd, page |-> [records |-> page, last |-> last]]
        BY <1>8 DEF HandleScanRecords
    <2>4. dbRecords \ unreadable = dbRecords
        BY <1>2, <2>3
    <2>5. /\ IsLastKey(last, shown)
          /\ answer' = [call |-> cmd, page |-> [records |-> shown, last |-> last]]
        BY <2>3, <2>4
    <2>6. UNCHANGED <<dbRecords, dbSpent, recordBuffer, spentBuffer, phase>>
        BY <1>8 DEF HandleScanRecords
    <2>7. cmd \in ScanCall
        BY <1>1, <2>1, HeadOfChannel DEF TypeOK
    <2>8. /\ shown \subseteq dbRecords
          /\ Atomic!IsPage([records |-> shown, last |-> last], cmd)
        BY <1>1, <2>5, <2>7, PagesAreAtomic DEF TypeOK
    <2> HIDE DEF cmd, t, shown
    <2>9. Atomic!Read(cmd)
        BY <2>2, <2>5, <2>6, <2>8 DEF Atomic!Read
    <2>10. Atomic!Serve(t)
        BY <2>2, <2>9 DEF Atomic!Serve, Requests
    <2>11. QED
        BY <1>3, <2>2, <2>10
<1>9. CASE CommitRecords
    <2> DEFINE cmd == Head(channel)
               t == cmd.by
    <2>1. Receive("Commit") /\ "Commit" \in Kinds
        BY <1>9 DEF CommitRecords, Kinds
    <2>2. /\ t \in Threads /\ cmd.kind = "Commit" /\ phase = "recv"
          /\ Requests(channel)[t] # <<>> /\ Head(Requests(channel)[t]) = cmd
          /\ Requests(channel') =
                [Requests(channel) EXCEPT ![t] = Tail(Requests(channel)[t])]
        BY <1>1, <2>1, ReceivedIsServed
    <2>3. /\ dbRecords' = dbRecords \cup recordBuffer /\ phase' = "spent"
          /\ UNCHANGED <<dbSpent, recordBuffer, spentBuffer>> /\ answer' = None
        BY <1>2, <1>9 DEF CommitRecords, Written
    <2> HIDE DEF cmd, t
    <2>4. Atomic!Publish
        BY <2>2, <2>3 DEF Atomic!Publish
    <2>5. Atomic!Serve(t)
        BY <2>2, <2>4 DEF Atomic!Serve, Requests
    <2>6. QED
        BY <1>3, <2>2, <2>5
<1>10. CASE CommitSpent
    <2>1. /\ phase = "spent" /\ phase' = "recv" /\ answer = None /\ answer' = None
          /\ dbSpent' = dbSpent \cup spentBuffer /\ spentBuffer' = {}
          /\ UNCHANGED <<dbRecords, recordBuffer, channel>>
        BY <1>1, <1>2, <1>10 DEF CommitSpent, Written
    <2>2. QED
        BY <2>1 DEF Atomic!vars
<1>11. CASE Crash
    <2>1. /\ phase = "recv" /\ phase' = "recv" /\ channel' = <<>> /\ answer' = None
          /\ recordBuffer' = {} /\ spentBuffer' = {} /\ UNCHANGED <<dbRecords, dbSpent>>
        BY <1>1, <1>11 DEF Crash, TypeOK
    <2>2. \A t : CallsOf(<<>>, t) = <<>>
        BY CallsSteps DEF CallsOf
    <2>3. Atomic!Crash
        BY <2>1, <2>2 DEF Atomic!Crash
    <2>4. QED
        BY <2>3 DEF Atomic!Next
<1>12. ASSUME NEW cmd \in Command, Send(cmd) PROVE Atomic!Next
    <2>1. /\ channel' = Append(channel, cmd) /\ ~Blocked(cmd.by) /\ answer' = None
          /\ UNCHANGED <<dbRecords, dbSpent, recordBuffer, spentBuffer, phase>>
          /\ channel \in Seq(Command)
        BY <1>1, <1>12 DEF Send, Enqueue, TypeOK
    <2>2. cmd.by \in Threads
        BY DEF Command, AddCall, SpendCall, UnspentCall, CommitCall, ScanSpentCall, ScanCall
    <2>3. ASSUME NEW i \in 1..Len(CallsOf(channel, cmd.by))
          PROVE  CallsOf(channel, cmd.by)[i].kind = "Commit"
        <3>1. /\ CallsOf(channel, cmd.by) \in Seq(Command)
              /\ \A n \in 1..Len(CallsOf(channel, cmd.by)) :
                    \E j \in 1..Len(channel) :
                        channel[j].by = cmd.by /\ CallsOf(channel, cmd.by)[n] = channel[j]
            <4> DEFINE t == cmd.by
            <4>1. channel \in Seq(Command)
                BY <2>1
            <4> HIDE DEF t
            <4>2. /\ CallsOf(channel, t) \in Seq(Command)
                  /\ \A n \in 1..Len(CallsOf(channel, t)) :
                        \E j \in 1..Len(channel) :
                            channel[j].by = t /\ CallsOf(channel, t)[n] = channel[j]
                BY ONLY <4>1, CallsAreCommands
            <4>3. QED
                BY <4>2 DEF t
        <3>2. PICK j \in 1..Len(channel) :
                    channel[j].by = cmd.by /\ CallsOf(channel, cmd.by)[i] = channel[j]
            BY <3>1
        <3>3. QED
            BY <2>1, <3>2 DEF Blocked, IsSync
    <2>4. \A t : CallsOf(channel', t) =
                IF cmd.by = t THEN Append(CallsOf(channel, t), cmd) ELSE CallsOf(channel, t)
        BY <2>1, CallsWhenSent
    <2>5. Requests(channel') =
                [Requests(channel) EXCEPT ![cmd.by] = Append(CallsOf(channel, cmd.by), cmd)]
        BY <2>2, <2>4 DEF Requests
    <2>6. Requests(channel)[cmd.by] = CallsOf(channel, cmd.by)
        BY <2>2 DEF Requests
    <2>7. Atomic!Call(cmd)
        BY <2>1, <2>3, <2>5, <2>6 DEF Atomic!Call, Requests
    <2>8. QED
        BY <2>7 DEF Atomic!Next
<1>13. CASE UNCHANGED vars
    BY <1>13 DEF vars, Atomic!vars
<1>14. QED
    BY <1>4, <1>5, <1>6, <1>7, <1>8, <1>9, <1>10, <1>11, <1>12, <1>13 DEF Next, Worker

\* While the databases work and no crash tears a Commit, the store is the atomic store, for
\* all sets of keys and threads, any number of Commits under way and any number of crashes.
THEOREM StoreIsAtomic ==
    ASSUME MaxFaults = 0, ~TornCommits
    PROVE  Spec => ImplementsAtomicStore
<1>1. Init => Atomic!Init
    <2>1. \A t : CallsOf(<<>>, t) = <<>>
        BY CallsSteps DEF CallsOf
    <2>2. QED
        BY <2>1 DEF Init, Atomic!Init
<1>2. Init => IsFiniteSet(dbRecords) /\ IsFiniteSet(recordBuffer) /\ phase # "spent"
    BY FS_EmptySet DEF Init
<1>3. TypeOK /\ IsFiniteSet(dbRecords) /\ IsFiniteSet(recordBuffer) /\ phase # "spent"
        => IAtomic
    BY DEF IAtomic
<1>4. IAtomic /\ [Next]_vars => [Atomic!Next]_(Atomic!vars)
    BY AtomicStep
<1>5. QED
    BY <1>1, <1>2, <1>3, <1>4, NextAtomic, Typed, PTL
    DEF Spec, ImplementsAtomicStore, Atomic!SafeSpec
============================================================================
