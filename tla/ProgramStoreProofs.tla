-------------------------- MODULE ProgramStoreProofs --------------------------
(***************************************************************************)
(* Theorems about the program store, for every set of programs and versions *)
(* and every bound: its types, that a stored program is never replaced,     *)
(* that credits.aleo is there for whoever uses the store, and that its      *)
(* constructor does not fail.                                               *)
(***************************************************************************)
EXTENDS ProgramStore, TLAPS

\* A command on the channel is the call that its thread is in, so each thread has at most
\* one there.
CallsMatch ==
    /\ \A i \in 1..Len(channel) :
        doing[channel[i].by] = [step |-> channel[i].kind, program |-> channel[i].program,
                                version |-> channel[i].version]
    /\ \A i, j \in 1..Len(channel) : channel[i].by = channel[j].by => i = j

\* Nobody holds the store before the constructor returns, and its thread makes no call
\* afterwards.
LoadsAlone ==
    /\ ~loaded => \A t \in Readers : Idle(t)
    /\ loaded => Idle(main)
    /\ ~Idle(main) => /\ doing[main].program = Credits
                      /\ doing[main].version \in Versions
                      /\ doing[main].step # "Get"

\* What a thread is about to add is not stored.
AddsAreNew ==
    \A t \in Threads : ~Idle(t) /\ doing[t].step \in {"Absent", "Add"} =>
        /\ t \in {main, consensus}
        /\ db[doing[t].program] = None
        /\ doing[t].version \in Versions

\* An Exists carries the version that its thread would add; queries do not ask for it.
AsksHaveVersions ==
    \A t \in Threads : ~Idle(t) /\ doing[t].step = "Exists" =>
        t \in {main, consensus, mempool} /\ doing[t].version \in Versions

\* credits.aleo is the first program that is stored, unless its write was lost: only then
\* may key_may_exist say that it is there although it is not.
CreditsComeFirst ==
    (loaded \/ \E p \in Programs : db[p] # None) /\ Credits \notin lost
        => db[Credits] # None

\* The constructor never finds that the program it adds is there.
NeverFails == ~failed

IInv ==
    TypeOK /\ CallsMatch /\ LoadsAlone /\ AddsAreNew /\ AsksHaveVersions
        /\ CreditsComeFirst /\ NeverFails
----------------------------------------------------------------------------
(* The channel.                                                              *)

\* A thread that sends a command has no other one on the channel.
LEMMA AskMatches ==
    ASSUME TypeOK, CallsMatch,
           NEW t \in Threads, NEW step \in {"Exists", "Add", "Get"}, NEW p \in Programs,
           NEW v \in Versions \cup {None},
           Idle(t) \/ doing[t].step = "Absent",
           Ask(t, step, p, v)
    PROVE  /\ CallsMatch'
           /\ channel' \in Seq(Command)
           /\ doing' \in [Threads -> Calls \cup {None}]
           /\ doing'[t] = [step |-> step, program |-> p, version |-> v]
           /\ \A u \in Threads \ {t} : doing'[u] = doing[u]
<1> DEFINE cmd == [kind |-> step, program |-> p, version |-> v, by |-> t]
           n == Len(channel)
<1>1. /\ channel \in Seq(Command) /\ n \in Nat
      /\ \A i \in 1..n : channel[i] \in Command
    BY DEF TypeOK
<1>2. /\ channel' = Append(channel, cmd) /\ cmd \in Command
      /\ Len(channel') = n + 1 /\ channel'[n + 1] = cmd
      /\ \A i \in 1..n : channel'[i] = channel[i]
    BY <1>1 DEF Ask, Command
<1>3. doing' = [doing EXCEPT ![t] = [step |-> step, program |-> p, version |-> v]]
    BY DEF Ask
<1>4. \A i \in 1..n : channel[i].by # t
    <2> SUFFICES ASSUME NEW i \in 1..n, channel[i].by = t PROVE FALSE
        OBVIOUS
    <2>1. doing[t] = [step |-> channel[i].kind, program |-> channel[i].program,
                      version |-> channel[i].version]
        BY DEF CallsMatch
    <2>2. channel[i] \in Command
        BY <1>1
    <2>3. doing[t] \in Calls /\ doing[t].step # "Absent"
        BY <2>1, <2>2 DEF Calls, Command
    <2>4. QED
        BY <2>3, NoneAssumption DEF Idle
<1>5. CallsMatch'
    <2>1. \A i \in 1..(n + 1) : i \in 1..n \/ i = n + 1
        BY <1>1
    <2>2. ASSUME NEW i \in 1..(n + 1)
          PROVE  doing'[channel'[i].by] =
                    [step |-> channel'[i].kind, program |-> channel'[i].program,
                     version |-> channel'[i].version]
        <3>1. CASE i \in 1..n
            BY <1>1, <1>2, <1>3, <1>4, <3>1 DEF CallsMatch, TypeOK, Command
        <3>2. CASE i = n + 1
            BY <1>2, <1>3, <3>2 DEF TypeOK
        <3>3. QED
            BY <2>1, <3>1, <3>2
    <2>3. ASSUME NEW i \in 1..(n + 1), NEW j \in 1..(n + 1), channel'[i].by = channel'[j].by
          PROVE  i = j
        BY <1>2, <1>4, <2>1, <2>3 DEF CallsMatch
    <2>4. QED
        BY <1>2, <2>2, <2>3 DEF CallsMatch
<1>6. QED
    BY <1>1, <1>2, <1>3, <1>5 DEF TypeOK, Calls

\* What the worker receives is the call of the thread that it answers, and leaves none of
\* that thread behind.
LEMMA ReceiveMatches ==
    ASSUME TypeOK, CallsMatch, NEW k \in {"Exists", "Add", "Get"}, Receive(k)
    PROVE  /\ Head(channel) \in Command /\ Head(channel).kind = k
           /\ Head(channel).by \in Threads /\ Head(channel).program \in Programs
           /\ ~Idle(Head(channel).by)
           /\ doing[Head(channel).by] =
                [step |-> k, program |-> Head(channel).program,
                 version |-> Head(channel).version]
           /\ channel' \in Seq(Command)
           /\ (\A t \in Threads \ {Head(channel).by} : doing'[t] = doing[t]) => CallsMatch'
<1>1. /\ channel \in Seq(Command) /\ channel # <<>> /\ Len(channel) \in Nat
      /\ channel' = Tail(channel) /\ Head(channel) = channel[1]
      /\ 1 \in 1..Len(channel) /\ Len(channel') = Len(channel) - 1
      /\ \A i \in 1..Len(channel') : channel'[i] = channel[i + 1]
      /\ \A i \in 1..Len(channel') : i + 1 \in 1..Len(channel)
      /\ \A i \in 1..Len(channel) : channel[i] \in Command
    <2>1. channel \in Seq(Command) /\ channel # <<>> /\ channel' = Tail(channel)
        BY DEF Receive, TypeOK
    <2>2. QED
        BY <2>1
<1>2. Head(channel) \in Command /\ Head(channel).kind = k /\ channel' \in Seq(Command)
    BY <1>1 DEF Receive
<1>3. /\ Head(channel).by \in Threads /\ Head(channel).program \in Programs
      /\ Head(channel).version \in Versions \cup {None}
    BY <1>2 DEF Command
<1>4. doing[Head(channel).by] = [step |-> k, program |-> Head(channel).program,
                                 version |-> Head(channel).version]
    BY <1>1, <1>2 DEF CallsMatch
<1>5. ~Idle(Head(channel).by)
    <2>1. doing[Head(channel).by] \in Calls
        BY <1>3, <1>4 DEF Calls
    <2>2. QED
        BY <2>1, NoneAssumption DEF Idle
<1>6. ASSUME \A t \in Threads \ {Head(channel).by} : doing'[t] = doing[t]
      PROVE  CallsMatch'
    <2>1. \A i \in 1..Len(channel') :
            channel'[i].by \in Threads \ {Head(channel).by}
        BY <1>1 DEF CallsMatch, Command
    <2>2. \A i \in 1..Len(channel') :
            doing'[channel'[i].by] =
                [step |-> channel'[i].kind, program |-> channel'[i].program,
                 version |-> channel'[i].version]
        BY <1>1, <1>6, <2>1 DEF CallsMatch
    <2>3. ASSUME NEW i \in 1..Len(channel'), NEW j \in 1..Len(channel'),
                 channel'[i].by = channel'[j].by
          PROVE  i = j
        <3>1. i + 1 = j + 1
            BY <1>1, <2>3 DEF CallsMatch
        <3>2. QED
            BY <1>1, <3>1
    <2>4. QED
        BY <2>2, <2>3 DEF CallsMatch
<1>7. QED
    BY <1>2, <1>3, <1>4, <1>5, <1>6
----------------------------------------------------------------------------
(* The invariant.                                                            *)

\* The store starts with no program and nobody in a call.
LEMMA InitIInv == Init => IInv
<1> SUFFICES ASSUME Init PROVE IInv
    OBVIOUS
<1>1. TypeOK
    <2>1. {loaded, failed} \subseteq BOOLEAN
        BY Zenon DEF Init
    <2>2. QED
        BY <2>1, BoundsAssumption DEF Init, TypeOK
<1>2. \A t \in Threads : Idle(t)
    BY DEF Init, Idle
<1>3. CallsMatch /\ NeverFails /\ CreditsComeFirst
    BY DEF Init, CallsMatch, NeverFails, CreditsComeFirst
<1>4. LoadsAlone /\ AddsAreNew /\ AsksHaveVersions
    BY <1>2 DEF Init, LoadsAlone, AddsAreNew, AsksHaveVersions, Threads, Readers
<1>5. QED
    BY <1>1, <1>3, <1>4 DEF IInv

\* The calls of the threads keep the invariant: load_credits, validate_transaction,
\* verify_transition, store_program and query.
LEMMA AskIInv ==
    ASSUME IInv, NEW t \in Threads, NEW step \in {"Exists", "Add", "Get"},
           NEW p \in Programs, NEW v \in Versions \cup {None}, Ask(t, step, p, v),
           Idle(t) \/ doing[t].step = "Absent",
           t \in Readers => loaded,
           t = main => ~loaded /\ p = Credits /\ v \in Versions /\ step # "Get",
           step = "Add" => /\ ~Idle(t) /\ doing[t].step = "Absent"
                           /\ p = doing[t].program /\ v = doing[t].version,
           step = "Exists" => t \in {main, consensus, mempool} /\ v \in Versions
    PROVE  IInv'
<1>1. /\ TypeOK /\ CallsMatch /\ LoadsAlone /\ AddsAreNew /\ AsksHaveVersions
      /\ CreditsComeFirst /\ NeverFails
    BY DEF IInv
<1>2. /\ CallsMatch' /\ channel' \in Seq(Command)
      /\ doing' \in [Threads -> Calls \cup {None}]
      /\ doing'[t] = [step |-> step, program |-> p, version |-> v]
      /\ \A u \in Threads \ {t} : doing'[u] = doing[u]
    BY <1>1, AskMatches
<1>3. UNCHANGED <<db, loaded, failed, faults, crashes, lost>>
    BY DEF Ask
<1>4. TypeOK' /\ CreditsComeFirst' /\ NeverFails'
    BY <1>1, <1>2, <1>3 DEF TypeOK, CreditsComeFirst, NeverFails
<1>5. LoadsAlone' /\ AsksHaveVersions'
    BY <1>1, <1>2, <1>3, ThreadsAssumption
    DEF LoadsAlone, AsksHaveVersions, Idle, Threads, Readers
<1>6. AddsAreNew'
    BY <1>1, <1>2, <1>3 DEF AddsAreNew, Idle
<1>7. QED
    BY <1>2, <1>4, <1>5, <1>6 DEF IInv

\* The answer to an Exists: it says no only of a program that is not stored, and yes to
\* load_credits only if credits.aleo is, as nothing is stored before it.
LEMMA ExistsIInv == IInv /\ HandleExists => IInv'
<1> SUFFICES ASSUME IInv, HandleExists PROVE IInv'
    OBVIOUS
<1> DEFINE cmd == Head(channel)
           t == Head(channel).by
           p == Head(channel).program
<1>1. /\ TypeOK /\ CallsMatch /\ LoadsAlone /\ AddsAreNew /\ AsksHaveVersions
      /\ CreditsComeFirst /\ NeverFails
    BY DEF IInv
<1>2. PICK exists \in MayExist(p) :
        /\ doing' = [doing EXCEPT ![t] = IF exists \/ t = mempool THEN None
                                         ELSE [@ EXCEPT !.step = "Absent"]]
        /\ loaded' = (loaded \/ LoadEnds(cmd, exists))
    BY DEF HandleExists
<1>3. Receive("Exists") /\ UNCHANGED <<db, failed, faults, crashes, lost>>
    BY DEF HandleExists
<1>4. /\ t \in Threads /\ p \in Programs /\ ~Idle(t)
      /\ doing[t] = [step |-> "Exists", program |-> p, version |-> cmd.version]
      /\ channel' \in Seq(Command)
      /\ (\A u \in Threads \ {t} : doing'[u] = doing[u]) => CallsMatch'
    BY <1>1, <1>3, ReceiveMatches
<1>5. /\ exists \in BOOLEAN
      /\ ~exists => db[p] = None
      /\ exists => \E q \in Programs : db[q] # None
    BY <1>2, <1>4 DEF MayExist
<1>6. \A u \in Threads \ {t} : doing'[u] = doing[u]
    BY <1>1, <1>2, <1>4 DEF TypeOK
<1>7. cmd.version \in Versions /\ doing[t] \in Calls
    BY <1>1, <1>4 DEF AsksHaveVersions, TypeOK, Idle
<1>8. \/ doing'[t] = None
      \/ /\ ~exists /\ t # mempool
         /\ doing'[t] = [step |-> "Absent", program |-> p, version |-> cmd.version]
    <2>1. CASE exists \/ t = mempool
        BY <1>1, <1>2, <1>4, <2>1 DEF TypeOK
    <2>2. CASE ~(exists \/ t = mempool)
        <3>1. doing'[t] = [doing[t] EXCEPT !.step = "Absent"]
            BY <1>1, <1>2, <1>4, <2>2 DEF TypeOK
        <3>2. QED
            BY <1>4, <2>2, <3>1
    <2>3. QED
        BY <2>1, <2>2
<1>9. TypeOK'
    <2>1. doing'[t] \in Calls \cup {None}
        BY <1>4, <1>7, <1>8 DEF Calls
    <2>2. doing' \in [Threads -> Calls \cup {None}]
        BY <1>1, <1>2, <1>6, <2>1 DEF TypeOK
    <2>3. loaded' \in BOOLEAN
        BY <1>1, <1>2, <1>5 DEF TypeOK, LoadEnds
    <2>4. QED
        BY <1>1, <1>3, <1>4, <2>2, <2>3 DEF TypeOK
<1>10. CallsMatch' /\ NeverFails'
    BY <1>1, <1>3, <1>4, <1>6 DEF NeverFails
<1>11. t = main \/ t \in Readers
    BY <1>4 DEF Threads, Readers
<1>12. LoadsAlone'
    <2>1. CASE t = main
        <3>1. ~loaded /\ \A u \in Readers : Idle(u)
            BY <1>1, <1>4, <2>1 DEF LoadsAlone
        <3>2. loaded' = exists /\ main # mempool
            BY <1>2, <1>5, <2>1, <3>1, ThreadsAssumption DEF LoadEnds, Readers
        <3>3. \A u \in Readers : doing'[u] = None
            BY <1>6, <2>1, <3>1, ThreadsAssumption DEF Idle, Threads, Readers
        <3>4. p = Credits
            BY <1>1, <1>4, <2>1 DEF LoadsAlone
        <3>5. exists => doing'[main] = None
            BY <1>8, <2>1
        <3>6. QED
            BY <1>7, <1>8, <2>1, <3>2, <3>3, <3>4, <3>5 DEF LoadsAlone, Idle
    <2>2. CASE t \in Readers
        <3>1. t # main /\ loaded /\ loaded'
            BY <1>1, <1>2, <1>4, <2>2, ThreadsAssumption DEF LoadsAlone
        <3>2. QED
            BY <1>1, <1>6, <3>1 DEF LoadsAlone, Idle, Threads
    <2>3. QED
        BY <1>11, <2>1, <2>2
<1>13. AddsAreNew'
    <2>1. ASSUME doing'[t] # None PROVE db'[doing'[t].program] = None
        BY <1>3, <1>5, <1>8, <2>1 DEF Idle
    <2>2. ASSUME doing'[t] # None
          PROVE  t \in {main, consensus} /\ doing'[t].version \in Versions
        <3>1. t # mempool /\ doing'[t].version \in Versions
            BY <1>7, <1>8, <2>2
        <3>2. t \in {main, consensus, mempool}
            BY <1>1, <1>4 DEF AsksHaveVersions
        <3>3. QED
            BY <3>1, <3>2
    <2>3. QED
        BY <1>1, <1>3, <1>6, <2>1, <2>2 DEF AddsAreNew, Idle
<1>14. AsksHaveVersions'
    BY <1>1, <1>6, <1>8 DEF AsksHaveVersions, Idle
<1>15. CreditsComeFirst'
    BY <1>1, <1>2, <1>3, <1>5 DEF CreditsComeFirst, LoadEnds
<1>16. QED
    BY <1>9, <1>10, <1>12, <1>13, <1>14, <1>15 DEF IInv
\* An Add writes a program that is not stored, or nothing when the write fails.
LEMMA AddIInv ==
    ASSUME IInv, HandleAdd
    PROVE  /\ IInv'
           /\ \A q \in Programs : db[q] # None => db'[q] = db[q]
<1> DEFINE cmd == Head(channel)
           t == Head(channel).by
           p == Head(channel).program
<1>1. /\ TypeOK /\ CallsMatch /\ LoadsAlone /\ AddsAreNew /\ AsksHaveVersions
      /\ CreditsComeFirst /\ NeverFails
    BY DEF IInv
<1>2. PICK readFails \in BOOLEAN, putFails \in BOOLEAN :
        LET taken == ~readFails /\ db[p] # None
            cost == (IF readFails THEN 1 ELSE 0) + (IF putFails THEN 1 ELSE 0)
        IN  /\ Receive("Add")
            /\ taken => ~putFails
            /\ faults + cost <= MaxFaults /\ faults' = faults + cost
            /\ db' = IF taken \/ putFails THEN db ELSE [db EXCEPT ![p] = cmd.version]
            /\ lost' = IF putFails THEN lost \cup {p} ELSE lost
            /\ doing' = [doing EXCEPT ![t] = None]
            /\ loaded' = (loaded \/ (t = main /\ ~taken))
            /\ failed' = (failed \/ (t = main /\ taken))
            /\ UNCHANGED crashes
    BY DEF HandleAdd, Put
<1>3. /\ t \in Threads /\ p \in Programs /\ ~Idle(t)
      /\ doing[t] = [step |-> "Add", program |-> p, version |-> cmd.version]
      /\ channel' \in Seq(Command)
      /\ (\A u \in Threads \ {t} : doing'[u] = doing[u]) => CallsMatch'
    BY <1>1, <1>2, ReceiveMatches
<1>4. /\ t \in {main, consensus} /\ db[p] = None
      /\ cmd.version \in Versions /\ cmd.version # None
    BY <1>1, <1>3, NoneAssumption DEF AddsAreNew
<1>5. /\ db' = IF putFails THEN db ELSE [db EXCEPT ![p] = cmd.version]
      /\ lost' = IF putFails THEN lost \cup {p} ELSE lost
      /\ doing' = [doing EXCEPT ![t] = None]
      /\ loaded' = (loaded \/ t = main)
      /\ failed' = failed
    <2>1. ~(~readFails /\ db[p] # None)
        BY <1>4
    <2>2. failed \in BOOLEAN
        BY <1>1 DEF TypeOK
    <2>3. failed' = failed /\ loaded' = (loaded \/ t = main)
        BY <1>2, <2>1, <2>2, Zenon
    <2>4. QED
        BY <1>2, <2>1, <2>3
<1>6. /\ \A u \in Threads \ {t} : doing'[u] = doing[u]
      /\ doing' \in [Threads -> Calls \cup {None}] /\ doing'[t] = None
    BY <1>1, <1>3, <1>5 DEF TypeOK
<1>7. \A q \in Programs : db'[q] = IF q = p /\ ~putFails THEN cmd.version ELSE db[q]
    BY <1>1, <1>3, <1>5 DEF TypeOK
<1>8. TypeOK'
    <2>1. {loaded', failed'} \subseteq BOOLEAN
        BY <1>1, <1>5 DEF TypeOK
    <2>2. faults' \in 0..MaxFaults
        BY <1>1, <1>2, BoundsAssumption DEF TypeOK
    <2>3. db' \in [Programs -> Versions \cup {None}] /\ lost' \subseteq Programs
        BY <1>1, <1>3, <1>4, <1>5 DEF TypeOK
    <2>4. QED
        BY <1>1, <1>2, <1>3, <1>6, <2>1, <2>2, <2>3 DEF TypeOK
<1>9. \A u \in {main, consensus} \ {t} : doing[u] = None
    BY <1>1, <1>3, <1>4, ThreadsAssumption DEF LoadsAlone, Idle, Readers
<1>10. LoadsAlone'
    BY <1>1, <1>4, <1>5, <1>6, <1>9 DEF LoadsAlone, Idle, Readers, Threads
<1>11. AddsAreNew'
    <2> SUFFICES ASSUME NEW u \in Threads, ~Idle(u)',
                        doing'[u].step \in {"Absent", "Add"}
                 PROVE  /\ u \in {main, consensus}
                        /\ db'[doing'[u].program] = None
                        /\ doing'[u].version \in Versions
        BY DEF AddsAreNew, Idle
    <2>1. u # t /\ doing'[u] = doing[u] /\ ~Idle(u)
        BY <1>6 DEF Idle
    <2>2. u \in {main, consensus}
        BY <1>1, <2>1 DEF AddsAreNew
    <2>3. QED
        BY <1>9, <2>1, <2>2 DEF Idle
<1>12. AsksHaveVersions'
    BY <1>1, <1>6 DEF AsksHaveVersions, Idle
<1>13. CreditsComeFirst'
    <2> SUFFICES ASSUME Credits \notin lost' PROVE db'[Credits] # None
        BY DEF CreditsComeFirst
    <2>1. CASE t = main
        <3>1. p = Credits
            BY <1>1, <1>3, <2>1 DEF LoadsAlone
        <3>2. QED
            BY <1>3, <1>4, <1>5, <1>7, <3>1
    <2>2. CASE t # main
        <3>1. loaded
            BY <1>1, <1>3, <1>4, <2>2 DEF LoadsAlone, Readers
        <3>2. db[Credits] # None
            BY <1>1, <1>5, <3>1 DEF CreditsComeFirst
        <3>3. QED
            BY <1>4, <1>7, <3>2, CreditsAssumption
    <2>3. QED
        BY <2>1, <2>2
<1>14. IInv'
    BY <1>1, <1>3, <1>5, <1>6, <1>8, <1>10, <1>11, <1>12, <1>13 DEF IInv, NeverFails
<1>15. QED
    BY <1>4, <1>7, <1>14

\* The invariant is inductive.
LEMMA NextIInv == IInv /\ [Next]_vars => IInv'
<1> SUFFICES ASSUME IInv, [Next]_vars PROVE IInv'
    OBVIOUS
<1>1. /\ TypeOK /\ CallsMatch /\ LoadsAlone /\ AddsAreNew /\ AsksHaveVersions
      /\ CreditsComeFirst /\ NeverFails
    BY DEF IInv
<1>2. CASE HandleExists
    BY <1>2, ExistsIInv
<1>3. CASE HandleAdd
    BY <1>3, AddIInv
<1>4. CASE HandleGet
    <2>1. /\ Receive("Get") /\ UNCHANGED <<db, loaded, failed, faults, crashes, lost>>
          /\ doing' = [doing EXCEPT ![Head(channel).by] = None]
        BY <1>4 DEF HandleGet
    <2>2. /\ Head(channel).by \in Threads
          /\ channel' \in Seq(Command)
          /\ (\A u \in Threads \ {Head(channel).by} : doing'[u] = doing[u]) => CallsMatch'
        BY <1>1, <2>1, ReceiveMatches
    <2>3. /\ \A u \in Threads : doing'[u] = doing[u] \/ doing'[u] = None
          /\ CallsMatch' /\ doing' \in [Threads -> Calls \cup {None}]
        BY <1>1, <2>1, <2>2 DEF TypeOK
    <2>4. TypeOK'
        BY <1>1, <2>1, <2>2, <2>3 DEF TypeOK
    <2>5. LoadsAlone' /\ AddsAreNew' /\ AsksHaveVersions'
        BY <1>1, <2>1, <2>3
        DEF LoadsAlone, AddsAreNew, AsksHaveVersions, Idle, Threads, Readers
    <2>6. CreditsComeFirst' /\ NeverFails'
        BY <1>1, <2>1 DEF CreditsComeFirst, NeverFails
    <2>7. QED
        BY <2>3, <2>4, <2>5, <2>6 DEF IInv
<1>5. ASSUME NEW v \in Versions, LoadCredits(v) PROVE IInv'
    BY <1>5, AskIInv, CreditsAssumption, ThreadsAssumption
    DEF LoadCredits, Threads
<1>6. CASE RejectDeployment
    <2>1. /\ UNCHANGED <<db, channel, loaded, failed, faults, crashes, lost>>
          /\ doing' = [doing EXCEPT ![consensus] = None]
          /\ ~Idle(consensus) /\ doing[consensus].step = "Absent"
        BY <1>6 DEF RejectDeployment
    <2>2. /\ doing' \in [Threads -> Calls \cup {None}]
          /\ \A u \in Threads : doing'[u] = doing[u] \/ doing'[u] = None
          /\ \A u \in Threads \ {consensus} : doing'[u] = doing[u]
        BY <1>1, <2>1 DEF TypeOK
    <2>3. \A i \in 1..Len(channel) : channel[i].by \in Threads \ {consensus}
        <3>1. \A i \in 1..Len(channel) : channel[i] \in Command
            BY <1>1 DEF TypeOK
        <3>2. ASSUME NEW i \in 1..Len(channel), channel[i].by = consensus PROVE FALSE
            <4>1. doing[consensus].step = channel[i].kind
                <5>1. doing[channel[i].by] =
                        [step |-> channel[i].kind, program |-> channel[i].program,
                         version |-> channel[i].version]
                    BY <1>1 DEF CallsMatch
                <5>2. doing[consensus] = doing[channel[i].by]
                    BY <3>2
                <5>3. QED
                    BY <5>1, <5>2
            <4>2. channel[i].kind # "Absent"
                BY <3>1 DEF Command
            <4>3. QED
                BY <2>1, <4>1, <4>2
        <3>3. QED
            BY <3>1, <3>2 DEF Command
    <2>4. CallsMatch'
        BY <1>1, <2>1, <2>2, <2>3 DEF CallsMatch
    <2>5. TypeOK'
        BY <1>1, <2>1, <2>2 DEF TypeOK
    <2>6. LoadsAlone' /\ AddsAreNew' /\ AsksHaveVersions'
        BY <1>1, <2>1, <2>2
        DEF LoadsAlone, AddsAreNew, AsksHaveVersions, Idle, Threads, Readers
    <2>7. CreditsComeFirst' /\ NeverFails'
        BY <1>1, <2>1 DEF CreditsComeFirst, NeverFails
    <2>8. QED
        BY <2>4, <2>5, <2>6, <2>7 DEF IInv
<1>7. CASE Crash
    <2>1. /\ channel' = <<>> /\ doing' = [t \in Threads |-> None]
          /\ loaded' = FALSE /\ failed' = FALSE
          /\ crashes < MaxCrashes /\ crashes' = crashes + 1
          /\ UNCHANGED <<db, faults, lost>>
        BY <1>7 DEF Crash
    <2>2. \A t \in Threads : doing'[t] = None
        BY <2>1
    <2>3. {loaded', failed'} \subseteq BOOLEAN
        BY <2>1, Zenon
    <2>4. TypeOK'
        BY <1>1, <2>1, <2>3, BoundsAssumption DEF TypeOK
    <2>5. CallsMatch' /\ CreditsComeFirst' /\ NeverFails'
        BY <1>1, <2>1 DEF CallsMatch, CreditsComeFirst, NeverFails
    <2>6. LoadsAlone' /\ AddsAreNew' /\ AsksHaveVersions'
        BY <2>1, <2>2 DEF LoadsAlone, AddsAreNew, AsksHaveVersions, Idle, Threads, Readers
    <2>7. QED
        BY <2>4, <2>5, <2>6 DEF IInv
<1>8. ASSUME NEW t \in {main, consensus}, AddProgram(t) PROVE IInv'
    <2>1. /\ t \in Threads /\ ~Idle(t) /\ doing[t].step = "Absent"
          /\ Ask(t, "Add", doing[t].program, doing[t].version)
        BY <1>8 DEF AddProgram, Threads
    <2>2. doing[t] \in Calls
        BY <1>1, <2>1 DEF TypeOK, Idle
    <2>3. doing[t].program \in Programs /\ doing[t].version \in Versions \cup {None}
        BY <2>2 DEF Calls
    <2>4. t \in Readers => loaded
        BY <1>1, <2>1 DEF LoadsAlone
    <2>5. t = main => /\ ~loaded /\ doing[t].program = Credits
                      /\ doing[t].version \in Versions
        BY <1>1, <2>1 DEF LoadsAlone
    <2>6. QED
        BY <2>1, <2>3, <2>4, <2>5, AskIInv
<1>9. ASSUME NEW t \in Readers, NEW p \in Programs, GetProgram(t, p) PROVE IInv'
    <2>1. t \in Threads /\ t # main
        BY ThreadsAssumption DEF Threads, Readers
    <2>2. QED
        BY <1>9, <2>1, AskIInv DEF GetProgram, Available
<1>10. ASSUME NEW t \in {consensus, mempool}, NEW p \in Programs, NEW v \in Versions,
              ValidateDeployment(t, p, v)
       PROVE  IInv'
    <2>1. t \in Threads /\ t # main
        BY ThreadsAssumption DEF Threads, Readers
    <2>2. QED
        BY <1>10, <2>1, AskIInv DEF ValidateDeployment, Available
<1>11. CASE UNCHANGED vars
    BY <1>1, <1>11 DEF vars, IInv, TypeOK, CallsMatch, LoadsAlone, AddsAreNew,
        AsksHaveVersions, CreditsComeFirst, NeverFails, Idle
<1>12. QED
    BY <1>2, <1>3, <1>4, <1>5, <1>6, <1>7, <1>8, <1>9, <1>10, <1>11
    DEF Next, Worker, Startup

----------------------------------------------------------------------------
(* Theorems.                                                                 *)

\* The invariant holds throughout.
LEMMA Invariant == Spec => []IInv
<1>1. QED
    BY InitIInv, NextIInv, PTL DEF Spec

\* The variables keep their types.
THEOREM Typed == Spec => []TypeOK
<1>1. IInv => TypeOK
    BY DEF IInv
<1>2. QED
    BY <1>1, Invariant, PTL

\* Whoever gets to use the store finds credits.aleo, unless its write was lost: the answers
\* of key_may_exist, which may be wrong, are right while nothing else is stored.
THEOREM CreditsLoaded == Spec => []CreditsAreLoaded
<1>1. IInv => CreditsAreLoaded
    BY DEF IInv, CreditsComeFirst, CreditsAreLoaded
<1>2. QED
    BY <1>1, Invariant, PTL

\* ProgramStore::new does not fail: it never adds what is there, crashes included.
THEOREM ConstructorSucceeds == Spec => []~failed
<1>1. IInv => ~failed
    BY DEF IInv, NeverFails
<1>2. QED
    BY <1>1, Invariant, PTL

\* A stored program stays as it is, although Add overwrites what a failing read hides.
THEOREM Permanent == Spec => NeverReplaced
<1> DEFINE Kept == \A p \in Programs : db[p] # None => db'[p] = db[p]
<1>1. IInv /\ [Next]_vars => [Kept]_vars
    <2> SUFFICES ASSUME IInv, Next PROVE Kept
        BY DEF vars
    <2>1. CASE HandleAdd
        BY <2>1, AddIInv
    <2>2. CASE HandleExists \/ HandleGet \/ RejectDeployment \/ Crash
        BY <2>2 DEF HandleExists, HandleGet, RejectDeployment, Crash
    <2>3. CASE \/ Startup
               \/ \E t \in {main, consensus} : AddProgram(t)
               \/ \E t \in Readers, p \in Programs : GetProgram(t, p)
               \/ \E t \in {consensus, mempool}, p \in Programs, v \in Versions :
                    ValidateDeployment(t, p, v)
        BY <2>3 DEF Startup, LoadCredits, AddProgram, GetProgram, ValidateDeployment, Ask
    <2>4. QED
        BY <2>1, <2>2, <2>3 DEF Next, Worker
<1>2. QED
    BY <1>1, Invariant, PTL DEF Spec, NeverReplaced
===============================================================================
