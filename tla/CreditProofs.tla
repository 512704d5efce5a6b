----------------------------- MODULE CreditProofs -----------------------------
(***************************************************************************)
(* Proofs about credits: the powers of the validators are the credits that  *)
(* are staked on them, and no credit appears or vanishes but by the baseline *)
(* reward of each block.                                                     *)
(***************************************************************************)
EXTENDS AgreementProofs

(* What records are worth.                                                   *)

\* The records that are staked on v.
StakedOn(records, v) == {r \in records : r.validator = v}

Held(records, v) == Gates(StakedOn(records, v))

\* Finitely many records, each worth a number of gates.
Countable(records) == IsFiniteSet(records) /\ \A r \in records : r.gates \in Int

\* Gates are a total.
LEMMA GatesAreTotal ==
    ASSUME NEW S, NEW T, T \subseteq S
    PROVE  Gates(T) = Total([r \in S |-> r.gates], T)
<1>1. [r \in T |-> [s \in S |-> s.gates][r]] = [r \in T |-> r.gates]
    OBVIOUS
<1>2. QED
    BY <1>1 DEF Gates, Total

\* Records are worth an integer, none nothing, and what is new comes on top.
LEMMA GatesOfUnion ==
    ASSUME NEW S, Countable(S), NEW T, Countable(T)
    PROVE  /\ Countable(S \cup T) /\ Gates(S) \in Int /\ Gates({}) = 0
           /\ S \cap T = {} => Gates(S \cup T) = Gates(S) + Gates(T)
<1> DEFINE U == S \cup T
           w == [r \in U |-> r.gates]
<1>1. IsFiniteSet(S) /\ IsFiniteSet(T) /\ IsFiniteSet({}) /\ \A r \in U : w[r] \in Int
    BY FS_EmptySet DEF Countable
<1>2. Countable(U)
    BY <1>1, FS_Union DEF Countable
<1>3. Gates(S) = Total(w, S) /\ Gates(T) = Total(w, T) /\ Gates({}) = Total(w, {})
    BY GatesAreTotal
<1>4. Gates(U) = Total(w, U)
    BY GatesAreTotal
<1>5. \A r \in S \cup T : w[r] \in Int
    BY <1>1
<1> HIDE DEF w
<1>6. Total(w, S) \in Int /\ Total(w, {}) = 0
    BY <1>1, <1>5, TotalSteps
<1>7. S \cap T = {} => Total(w, S \cup T) = Total(w, S) + Total(w, T)
    BY <1>1, <1>5, TotalUnion
<1>8. QED
    BY <1>2, <1>3, <1>4, <1>6, <1>7

\* The gates of a list without repetitions are those of its elements.
LEMMA DistinctGates ==
    ASSUME NEW s, IsList(s), IsInjective(s), \A r \in ToSet(s) : r.gates \in Int
    PROVE  Countable(ToSet(s)) /\ GatesOf(s) = Gates(ToSet(s))
<1> DEFINE w == [i \in DOMAIN s |-> s[i].gates]
           u == [r \in ToSet(s) |-> r.gates]
<1>1. IsFiniteSet(DOMAIN s)
    <2>1. Len(s) \in Int /\ DOMAIN s = 1..Len(s)
        BY ListDomain
    <2>2. QED
        BY <2>1, FS_Interval
<1>2. ToSet(s) = {s[i] : i \in DOMAIN s}
    BY DEF ToSet
<1>3. \A i \in DOMAIN s : s[i] \in ToSet(s)
    BY <1>2
<1>4. \A i \in DOMAIN s : w[i] \in Int /\ u[s[i]] = w[i]
    BY <1>3
<1>5. \A i, j \in DOMAIN s : s[i] = s[j] => i = j
    BY DEF IsInjective
<1>6. GatesOf(s) = Total(w, DOMAIN s)
    <2>1. [i \in DOMAIN s |-> w[i]] = [i \in DOMAIN s |-> s[i].gates]
        OBVIOUS
    <2>2. QED
        BY <2>1 DEF GatesOf, Total
<1>7. Gates(ToSet(s)) = Total(u, ToSet(s))
    BY GatesAreTotal
<1> HIDE DEF w, u
<1>8. /\ IsFiniteSet({s[i] : i \in DOMAIN s})
      /\ Total(u, {s[i] : i \in DOMAIN s}) = Total(w, DOMAIN s)
    BY <1>1, <1>4, <1>5, TotalImage
<1>9. QED
    BY <1>2, <1>6, <1>7, <1>8 DEF Countable

\* Lists of records, one for each transition.
RecordLists(seqs, n) ==
    /\ seqs = [i \in 1..n |-> seqs[i]]
    /\ \A i \in 1..n : IsList(seqs[i]) /\ \A r \in ToSet(seqs[i]) : r.gates \in Int

\* What each of the lists has in F.
PartSums(t, seqs, F, n) == \A i \in 1..n : t[i] = Gates(ToSet(seqs[i]) \cap F)

\* The records of a transaction, none of which is repeated, are worth what those of its
\* transitions are; the same for those of them that are in F.
LEMMA GatesOfParts ==
    ASSUME NEW seqs, NEW n \in Nat, RecordLists(seqs, n), IsInjective(FlattenSeq(seqs)),
           NEW F, NEW t, PartSums(t, seqs, F, n)
    PROVE  /\ Countable(ToSet(FlattenSeq(seqs)))
           /\ \A i \in 1..n : t[i] \in Int
           /\ Gates(ToSet(FlattenSeq(seqs)) \cap F) = Total(t, 1..n)
<1> DEFINE I == 1..n
           All == ToSet(FlattenSeq(seqs))
           D == [i \in I |-> ToSet(seqs[i]) \cap F]
           w == [r \in All |-> r.gates]
<1>0. /\ seqs = [i \in I |-> seqs[i]] /\ \A i \in I : IsList(seqs[i])
      /\ \A i \in I : \A r \in ToSet(seqs[i]) : r.gates \in Int
    BY DEF RecordLists
<1>1. IsFiniteSet(I)
    BY FS_Interval, 1 \in Int
<1>2. All = UNION {ToSet(seqs[i]) : i \in I}
    BY <1>0, FlattenedLists
<1>3. \A i \in I : IsInjective(seqs[i])
    BY <1>0, InjectiveParts
<1>4. \A i, j \in I : i # j => ToSet(seqs[i]) \cap ToSet(seqs[j]) = {}
    BY <1>0, InjectiveParts
<1>5. \A i \in I : Countable(ToSet(seqs[i]))
    BY <1>0, <1>3, DistinctGates
<1>6. \A i \in I : /\ IsFiniteSet(D[i]) /\ D[i] \subseteq All
                   /\ \A r \in D[i] : r.gates \in Int
    BY <1>0, <1>2, <1>5, FS_Subset DEF Countable
<1>7. \A i \in I : \A r \in D[i] : w[r] \in Int
    BY <1>6
<1>8. \A i \in I : t[i] = Total(w, D[i])
    BY <1>6, GatesAreTotal DEF PartSums
<1>9. \A i, j \in I : i # j => D[i] \cap D[j] = {}
    BY <1>4
<1>10. \A r : r \in All \cap F <=> \E i \in I : r \in D[i]
    BY <1>2
<1>11. Countable(All)
    <2> DEFINE E == [i \in I |-> ToSet(seqs[i])]
               e == [i \in I |-> Total(w, E[i])]
    <2>1. \A i \in I : IsFiniteSet(E[i]) /\ e[i] = Total(w, E[i])
        BY <1>5 DEF Countable
    <2>2. \A i \in I : \A r \in E[i] : w[r] \in Int
        BY <1>2, <1>5 DEF Countable
    <2>3. \A i, j \in I : i # j => E[i] \cap E[j] = {}
        BY <1>4
    <2>4. \A r : r \in All <=> \E i \in I : r \in E[i]
        BY <1>2
    <2>5. \A r \in All : r.gates \in Int
        BY <1>2, <1>5 DEF Countable
    <2> HIDE DEF I, All, E, e, w
    <2>6. IsFiniteSet(All)
        BY ONLY <1>1, <2>1, <2>2, <2>3, <2>4, TotalOfUnion
    <2>7. QED
        BY <2>5, <2>6 DEF Countable
<1>12. Gates(All \cap F) = Total(w, All \cap F)
    BY GatesAreTotal
<1>13. \A i \in I : t[i] \in Int
    <2>1. ASSUME NEW i \in I PROVE t[i] \in Int
        <3>1. Countable(ToSet(seqs[i]) \cap F)
            BY <1>6 DEF Countable
        <3>2. QED
            BY <3>1, GatesOfUnion DEF PartSums
    <2>2. QED
        BY <2>1
<1> HIDE DEF D, w, I, All
<1>14. Total(w, All \cap F) = Total(t, I)
    <2>1. \A i \in I : IsFiniteSet(D[i]) /\ t[i] = Total(w, D[i])
        BY <1>6, <1>8
    <2> DEFINE X == All \cap F
    <2>2. \A r : r \in X <=> \E i \in I : r \in D[i]
        BY <1>10
    <2> HIDE DEF X
    <2>3. IsFiniteSet(X) /\ Total(w, X) = Total(t, I)
        BY ONLY <1>1, <1>7, <1>9, <2>1, <2>2, TotalOfUnion
    <2>4. QED
        BY <2>3 DEF X
<1>15. QED
    BY <1>11, <1>12, <1>13, <1>14 DEF I, All

\* Totals of equal weights.
LEMMA TotalSame ==
    ASSUME NEW S, NEW a, NEW b, \A x \in S : a[x] = b[x]
    PROVE  Total(a, S) = Total(b, S)
<1>1. [x \in S |-> a[x]] = [x \in S |-> b[x]]
    OBVIOUS
<1>2. QED
    BY <1>1 DEF Total

----------------------------------------------------------------------------
(* What a transaction does to credits.                                       *)

\* What t stakes on v.
Moved(t, v) == IF t.stake # None /\ t.stake.validator = v THEN t.stake.delta ELSE 0

\* The fee of a transition is what its inputs are worth more than its outputs: the VM
\* computes it so, and the proof of a transition holds it to that.
Balanced(t) ==
    /\ \A r \in ToSet(t.ins) \cup ToSet(t.outs) : r.gates \in Int
    /\ t.fee = GatesOf(t.ins) - GatesOf(t.outs)

\* What a transition reports as staked or unstaked is what its records hold more or less
\* on that validator.
Backed(t) ==
    /\ \A r \in ToSet(t.ins) \cup ToSet(t.outs) : r.gates \in Int
    /\ t.stake # None => t.stake.validator # None
    /\ \A v : v # None =>
            Held(ToSet(t.outs), v) - Held(ToSet(t.ins), v) = Moved(t, v)

\* The proofs of a transaction's transitions are right, which verify_execution checks.
Proved(tx) == \A i \in DOMAIN tx.transitions : tx.transitions[i].verified

\* A proof shows that a transition is what its function computes.
TxsBalance ==
    \A tx \in Txs : Proved(tx) =>
        \A i \in DOMAIN tx.transitions : Balanced(tx.transitions[i])

\* The same of stakes.  The transition of a deployment, of which no staking update is
\* read, is its fee, and stakes nothing.
StakesAreBacked ==
    \A tx \in Txs : Proved(tx) =>
        \A i \in DOMAIN tx.transitions :
            /\ Backed(tx.transitions[i])
            /\ tx.kind = "Deployment" => tx.transitions[i].stake = None

LEMMA PassesIsProved ==
    ASSUME NEW tx, NEW serials, NEW stored, NEW set, NEW doubt,
           Passes(tx, serials, stored, set, doubt)
    PROVE  Proved(tx)
    BY DEF Proved, Passes, ValidateTransaction, VerifyTransition, VerifyExecution

\* The transitions' records are the transaction's, and repeat none if it does not.
LEMMA PartsOfTx ==
    ASSUME NEW tx, IsTransaction(tx), NEW i \in DOMAIN tx.transitions
    PROVE  /\ ToSet(tx.transitions[i].ins) \subseteq Inputs(tx)
           /\ ToSet(tx.transitions[i].outs) \subseteq Outputted(tx)
           /\ IsInjective(RecordSerialNumbers(tx)) => IsInjective(tx.transitions[i].ins)
           /\ IsInjective(OutputRecords(tx)) => IsInjective(tx.transitions[i].outs)
<1> DEFINE n == Len(tx.transitions)
           ins == [k \in 1..n |-> tx.transitions[k].ins]
           outs == [k \in 1..n |-> tx.transitions[k].outs]
<1>1. n \in Nat /\ DOMAIN tx.transitions = 1..n
    BY ListDomain DEF IsTransaction
<1>2. \A k \in 1..n : IsList(ins[k]) /\ IsList(outs[k])
    BY <1>1 DEF IsTransaction
<1>3. /\ ins = [k \in 1..n |-> ins[k]] /\ outs = [k \in 1..n |-> outs[k]]
      /\ i \in 1..n /\ ins[i] = tx.transitions[i].ins /\ outs[i] = tx.transitions[i].outs
    BY <1>1
<1>4. RecordSerialNumbers(tx) = FlattenSeq(ins) /\ OutputRecords(tx) = FlattenSeq(outs)
    BY <1>1 DEF RecordSerialNumbers, OutputRecords
<1> HIDE DEF ins, outs, n
<1>5. /\ ToSet(FlattenSeq(ins)) = UNION {ToSet(ins[k]) : k \in 1..n}
      /\ ToSet(FlattenSeq(outs)) = UNION {ToSet(outs[k]) : k \in 1..n}
    BY <1>1, <1>2, <1>3, FlattenedLists
<1>6. IsInjective(FlattenSeq(ins)) => IsInjective(ins[i])
    BY <1>1, <1>2, <1>3, InjectiveParts
<1>7. IsInjective(FlattenSeq(outs)) => IsInjective(outs[i])
    BY <1>1, <1>2, <1>3, InjectiveParts
<1>8. QED
    BY <1>3, <1>4, <1>5, <1>6, <1>7 DEF Inputs, Outputted

\* What the inputs and the outputs of a transaction are worth, and how much of that is in F.
LEMMA GatesOfTx ==
    ASSUME NEW tx, IsTransaction(tx), NEW F,
           IsInjective(RecordSerialNumbers(tx)), IsInjective(OutputRecords(tx)),
           \A i \in DOMAIN tx.transitions :
                \A r \in ToSet(tx.transitions[i].ins) \cup ToSet(tx.transitions[i].outs) :
                    r.gates \in Int
    PROVE  LET I == DOMAIN tx.transitions
               a == [i \in I |-> Gates(ToSet(tx.transitions[i].ins) \cap F)]
               b == [i \in I |-> Gates(ToSet(tx.transitions[i].outs) \cap F)] IN
           /\ IsFiniteSet(I) /\ Countable(Inputs(tx)) /\ Countable(Outputted(tx))
           /\ \A i \in I : a[i] \in Int /\ b[i] \in Int
           /\ Gates(Inputs(tx) \cap F) = Total(a, I)
           /\ Gates(Outputted(tx) \cap F) = Total(b, I)
<1> DEFINE n == Len(tx.transitions)
           ins == [i \in 1..n |-> tx.transitions[i].ins]
           outs == [i \in 1..n |-> tx.transitions[i].outs]
<1>1. n \in Nat /\ DOMAIN tx.transitions = 1..n
    BY ListDomain DEF IsTransaction
<1>2. IsFiniteSet(1..n)
    BY <1>1, FS_Interval, 1 \in Int, n \in Int
<1>3. \A i \in 1..n : IsList(ins[i]) /\ IsList(outs[i])
    BY <1>1 DEF IsTransaction
<1>4. /\ ins = [i \in 1..n |-> ins[i]] /\ outs = [i \in 1..n |-> outs[i]]
      /\ \A i \in 1..n : ins[i] = tx.transitions[i].ins
      /\ \A i \in 1..n : outs[i] = tx.transitions[i].outs
    OBVIOUS
<1>5. RecordSerialNumbers(tx) = FlattenSeq(ins) /\ OutputRecords(tx) = FlattenSeq(outs)
    BY <1>1 DEF RecordSerialNumbers, OutputRecords
<1>6. /\ \A i \in 1..n : \A r \in ToSet(ins[i]) : r.gates \in Int
      /\ \A i \in 1..n : \A r \in ToSet(outs[i]) : r.gates \in Int
    BY <1>1
<1> HIDE DEF ins, outs, n
<1> DEFINE I == DOMAIN tx.transitions
           a == [i \in I |-> Gates(ToSet(tx.transitions[i].ins) \cap F)]
           b == [i \in I |-> Gates(ToSet(tx.transitions[i].outs) \cap F)]
<1>9. /\ \A i \in 1..n : a[i] = Gates(ToSet(ins[i]) \cap F)
      /\ \A i \in 1..n : b[i] = Gates(ToSet(outs[i]) \cap F)
    BY <1>1, <1>4
<1> HIDE DEF a, b
<1>7. /\ Countable(Inputs(tx)) /\ \A i \in 1..n : a[i] \in Int
      /\ Gates(Inputs(tx) \cap F) = Total(a, 1..n)
    <2>1. IsInjective(FlattenSeq(ins)) /\ Inputs(tx) = ToSet(FlattenSeq(ins))
        BY <1>5 DEF Inputs
    <2>2. n \in Nat
        BY <1>1
    <2>3. RecordLists(ins, n)
        BY <1>3, <1>4, <1>6 DEF RecordLists
    <2>4. PartSums(a, ins, F, n)
        BY <1>9 DEF PartSums
    <2>5. /\ Countable(ToSet(FlattenSeq(ins))) /\ \A i \in 1..n : a[i] \in Int
          /\ Gates(ToSet(FlattenSeq(ins)) \cap F) = Total(a, 1..n)
        BY <2>1, <2>2, <2>3, <2>4, GatesOfParts
    <2>6. QED
        BY <2>1, <2>5
<1>8. /\ Countable(Outputted(tx)) /\ \A i \in 1..n : b[i] \in Int
      /\ Gates(Outputted(tx) \cap F) = Total(b, 1..n)
    <2>1. IsInjective(FlattenSeq(outs)) /\ Outputted(tx) = ToSet(FlattenSeq(outs))
        BY <1>5 DEF Outputted
    <2>2. n \in Nat
        BY <1>1
    <2>3. RecordLists(outs, n)
        BY <1>3, <1>4, <1>6 DEF RecordLists
    <2>4. PartSums(b, outs, F, n)
        BY <1>9 DEF PartSums
    <2>5. /\ Countable(ToSet(FlattenSeq(outs))) /\ \A i \in 1..n : b[i] \in Int
          /\ Gates(ToSet(FlattenSeq(outs)) \cap F) = Total(b, 1..n)
        BY <2>1, <2>2, <2>3, <2>4, GatesOfParts
    <2>6. QED
        BY <2>1, <2>5
<1>10. QED
    BY <1>1, <1>2, <1>7, <1>8 DEF a, b

\* The fees of a transaction are what its inputs are worth more than its outputs.
LEMMA FeesOfTx ==
    ASSUME TxsBalance, NEW tx \in Txs, Proved(tx),
           IsInjective(RecordSerialNumbers(tx)), IsInjective(OutputRecords(tx))
    PROVE  /\ Countable(Inputs(tx)) /\ Countable(Outputted(tx))
           /\ Fees(tx) = Gates(Inputs(tx)) - Gates(Outputted(tx))
<1> DEFINE I == DOMAIN tx.transitions
           T(i) == tx.transitions[i]
           F == Inputs(tx) \cup Outputted(tx)
           a == [i \in I |-> Gates(ToSet(T(i).ins) \cap F)]
           b == [i \in I |-> Gates(ToSet(T(i).outs) \cap F)]
           d == [i \in I |-> T(i).fee]
<1>1. IsTransaction(tx) /\ \A i \in I : Balanced(T(i))
    BY TxsAssumption DEF TxsBalance
<1>2. \A i \in I : \A r \in ToSet(T(i).ins) \cup ToSet(T(i).outs) : r.gates \in Int
    BY <1>1 DEF Balanced
<1>3. /\ IsFiniteSet(I) /\ Countable(Inputs(tx)) /\ Countable(Outputted(tx))
      /\ \A i \in I : a[i] \in Int /\ b[i] \in Int
      /\ Gates(Inputs(tx) \cap F) = Total(a, I)
      /\ Gates(Outputted(tx) \cap F) = Total(b, I)
    BY <1>1, <1>2, GatesOfTx
<1>4. \A i \in I : /\ ToSet(T(i).ins) \subseteq Inputs(tx)
                   /\ ToSet(T(i).outs) \subseteq Outputted(tx)
    BY <1>1, PartsOfTx
<1>5. ASSUME NEW i \in I PROVE d[i] = a[i] - b[i]
    <2>1. IsInjective(T(i).ins) /\ IsInjective(T(i).outs)
        BY <1>1, PartsOfTx
    <2>2. IsList(T(i).ins) /\ IsList(T(i).outs)
        BY <1>1 DEF IsTransaction
    <2>3. GatesOf(T(i).ins) = Gates(ToSet(T(i).ins))
            /\ GatesOf(T(i).outs) = Gates(ToSet(T(i).outs))
        BY <1>2, <2>1, <2>2, DistinctGates
    <2>4. /\ ToSet(T(i).ins) \cap F = ToSet(T(i).ins)
          /\ ToSet(T(i).outs) \cap F = ToSet(T(i).outs)
        BY <1>4
    <2>5. T(i).fee = GatesOf(T(i).ins) - GatesOf(T(i).outs)
        BY <1>1 DEF Balanced
    <2>6. QED
        BY <2>3, <2>4, <2>5
<1>6. Fees(tx) = Total(d, I)
    <2>1. [i \in I |-> d[i]] = [i \in I |-> T(i).fee]
        OBVIOUS
    <2>2. QED
        BY <2>1 DEF Fees, Total
<1>7. Inputs(tx) \cap F = Inputs(tx) /\ Outputted(tx) \cap F = Outputted(tx)
    OBVIOUS
<1> HIDE DEF a, b, d, F, I
<1>8. \A i \in I : a[i] \in Int /\ b[i] \in Int /\ d[i] = a[i] - b[i]
    BY <1>3, <1>5
<1>9. Total(d, I) = Total(a, I) - Total(b, I)
    BY <1>3, <1>8, TotalDifference
<1>10. QED
    BY <1>3, <1>6, <1>7, <1>9

----------------------------------------------------------------------------
(* What is executed moves credits and stakes as it reports.                  *)

\* Amounts are naturals, staked records and no others name a validator, a stake is on one,
\* and a staking update is something.
IsCall(call) ==
    /\ call.amount \in Nat
    /\ \A i \in DOMAIN call.records :
            /\ call.records[i].gates \in Nat
            /\ call.records[i].validator # None <=> call.records[i].name = "staked_credits"
    /\ call.function = "stake" => call.to # None
    /\ call.function \in {"stake", "unstake"} => Staking(call) # None

\* A proof shows that a transition is what some call computes; that of a deployment is a
\* fee, which is what deployment builds.
TransitionsAreExecuted ==
    \A tx \in Txs : Proved(tx) =>
        \A i \in DOMAIN tx.transitions :
            /\ \E account, call, seed :
                    /\ IsCall(call) /\ Executable(account, call)
                    /\ tx.transitions[i] = Executed(call, seed)
            /\ tx.kind = "Deployment" => tx.transitions[i].function = "fee"

LEMMA LoneGates ==
    ASSUME NEW r, r.gates \in Int
    PROVE  Gates({r}) = r.gates /\ Gates({}) = 0
<1> DEFINE w == [s \in {r} |-> s.gates]
<1>1. IsFiniteSet({r}) /\ {r} \ {r} = {} /\ w[r] = r.gates
    BY FS_Singleton
<1>2. Gates({r}) = Total(w, {r}) /\ Gates({}) = Total(w, {})
    BY GatesAreTotal
<1>3. \A s \in {r} : w[s] \in Int
    BY <1>1
<1> HIDE DEF w
<1>4. IsFiniteSet({}) /\ \A s \in {} : w[s] \in Int
    BY FS_EmptySet
<1>5. Total(w, {}) = 0
    BY <1>4, TotalSteps
<1>6. Total(w, {r}) = w[r] + Total(w, {r} \ {r})
    BY <1>1, <1>3, TotalSteps
<1>7. Total(w, {r}) = w[r] + 0
    BY <1>1, <1>5, <1>6
<1>8. QED
    BY <1>1, <1>2, <1>5, <1>7

\* What an executable call consumes.
LEMMA CallInputs ==
    ASSUME NEW account, NEW call, IsCall(call), Executable(account, call)
    PROVE  /\ \A r \in ToSet(call.records) : r.gates \in Nat
           /\ call.function \in Subtracting =>
                /\ ToSet(call.records) = {call.records[1]}
                /\ call.amount <= call.records[1].gates /\ call.records[1].gates \in Nat
           /\ call.function = "combine" =>
                call.records[1].gates \in Nat /\ call.records[2].gates \in Nat
           /\ call.function = "unstake" => call.records[1].validator # None
           /\ call.function # "unstake" =>
                \A r \in ToSet(call.records) : r.validator = None
<1> DEFINE names == [i \in DOMAIN call.records |-> call.records[i].name]
<1>1. DOMAIN names = DOMAIN call.records /\ names = InputNames(call)
    BY DEF Executable
<1>2. ToSet(call.records) = {call.records[i] : i \in DOMAIN call.records}
    BY DEF ToSet
<1>3. \A i \in DOMAIN call.records :
        /\ call.records[i].gates \in Nat
        /\ call.records[i].validator # None <=> call.records[i].name = "staked_credits"
    BY DEF IsCall
<1>4. \A i \in DOMAIN call.records : call.records[i].name = names[i]
    OBVIOUS
<1> HIDE DEF names
<1>5. CASE call.function \in Subtracting
    <2>1. /\ call.function = "unstake" => names = <<"staked_credits">>
          /\ call.function # "unstake" => names = <<"credits">>
        BY <1>1, <1>5 DEF InputNames, Subtracting
    <2>2. DOMAIN call.records = {1}
        BY <1>1, <2>1
    <2>3. call.amount <= call.records[1].gates
        BY <1>5 DEF Executable
    <2>4. call.function # "combine"
        BY <1>5 DEF Subtracting
    <2>5. /\ call.function = "unstake" => names[1] = "staked_credits"
          /\ call.function # "unstake" => names[1] = "credits"
        BY <2>1
    <2>6. QED
        BY <1>2, <1>3, <1>4, <2>2, <2>3, <2>4, <2>5
<1>6. CASE call.function = "combine"
    <2>1. names = <<"credits", "credits">>
        BY <1>1, <1>6 DEF InputNames, Subtracting
    <2>2. DOMAIN call.records = {1, 2} /\ names[1] = "credits" /\ names[2] = "credits"
        BY <1>1, <2>1
    <2>3. QED
        BY <1>2, <1>3, <1>4, <1>6, <2>2 DEF Subtracting
<1>7. CASE call.function \notin Subtracting \cup {"combine"}
    <2>1. names = <<"token">> \/ names = <<>>
        BY <1>1, <1>7 DEF InputNames, Subtracting
    <2>2. \A i \in DOMAIN call.records : names[i] = "token"
        BY <1>1, <2>1
    <2>3. QED
        BY <1>2, <1>3, <1>4, <1>7, <2>2 DEF Subtracting
<1>8. QED
    BY <1>5, <1>6, <1>7

\* What it makes.
LEMMA CallOutputs ==
    ASSUME NEW account, NEW call, IsCall(call), Executable(account, call), NEW seed
    PROVE  LET outs == ToSet(Outputs(call, seed))
               in == call.records[1] IN
           /\ \A r \in outs : r.gates \in Int
           /\ call.function \notin {"stake", "unstake"} =>
                \A r \in outs : r.validator = None
           /\ call.function = "stake" =>
                \E x, y : /\ outs = {x, y} /\ x.validator = None
                          /\ y.validator = call.to /\ y.gates = call.amount
           /\ call.function = "unstake" =>
                \E x, y : /\ outs = {x, y} /\ x.validator = None
                          /\ y.validator = in.validator /\ y.gates = in.gates - call.amount
<1> DEFINE in == call.records[1]
           left == in.gates - call.amount
           Change(s) == MintRecord(in.owner, left, s)
           outs == ToSet(Outputs(call, seed))
<1>1. /\ call.function \in Subtracting => in.gates \in Nat
      /\ call.function = "combine" => in.gates \in Nat /\ call.records[2].gates \in Nat
      /\ call.amount \in Nat
    BY CallInputs DEF IsCall
<1>2. ASSUME NEW x, NEW y PROVE ToSet(<<x>>) = {x} /\ ToSet(<<x, y>>) = {x, y}
    BY DEF ToSet
<1>3. ToSet(<<>>) = {}
    BY DEF ToSet
<1>4. CASE call.function = "transfer"
    <2>1. outs = {MintRecord(call.to, call.amount, seed), Change(seed + 1)}
        BY <1>2, <1>4 DEF Outputs
    <2>2. QED
        BY <1>1, <1>4, <2>1 DEF MintRecord, Subtracting
<1>5. CASE call.function = "combine"
    <2>1. outs = {MintRecord(in.owner, in.gates + call.records[2].gates, seed)}
        BY <1>2, <1>5 DEF Outputs
    <2>2. QED
        BY <1>1, <1>5, <2>1 DEF MintRecord, Subtracting
<1>6. CASE call.function = "split"
    <2>1. outs = {MintRecord(in.owner, call.amount, seed), Change(seed + 1)}
        BY <1>2, <1>6 DEF Outputs
    <2>2. QED
        BY <1>1, <1>6, <2>1 DEF MintRecord, Subtracting
<1>7. CASE call.function = "fee"
    <2>1. outs = {Change(seed)}
        BY <1>2, <1>7 DEF Outputs
    <2>2. QED
        BY <1>1, <1>7, <2>1 DEF MintRecord, Subtracting
<1>8. CASE call.function = "stake"
    <2> DEFINE x == Change(seed)
               y == StakedRecord(in.owner, call.amount, seed + 1, call.to)
    <2>1. outs = {x, y}
        BY <1>2, <1>8 DEF Outputs
    <2>2. /\ x.validator = None /\ x.gates \in Int
          /\ y.validator = call.to /\ y.gates = call.amount
        BY <1>1, <1>8 DEF MintRecord, StakedRecord, Subtracting
    <2>3. QED
        BY <1>1, <1>8, <2>1, <2>2
<1>9. CASE call.function = "unstake"
    <2> DEFINE x == MintRecord(in.owner, call.amount, seed)
               y == StakedRecord(in.owner, left, seed + 1, in.validator)
    <2>1. outs = {x, y}
        BY <1>2, <1>9 DEF Outputs
    <2>2. /\ x.validator = None /\ x.gates \in Int
          /\ y.validator = in.validator /\ y.gates = left /\ left \in Int
        BY <1>1, <1>9 DEF MintRecord, StakedRecord, Subtracting
    <2>3. QED
        BY <1>1, <1>9, <2>1, <2>2
<1>10. CASE call.function = "mint"
    <2>1. outs = {TokenRecord(call.to, 0, seed)}
        BY <1>2, <1>10 DEF Outputs
    <2>2. QED
        BY <1>10, <2>1 DEF TokenRecord
<1>11. CASE call.function = "mint_credits"
    <2>1. outs = {TokenRecord(call.to, call.amount, seed)}
        BY <1>2, <1>11 DEF Outputs
    <2>2. QED
        BY <1>1, <1>11, <2>1 DEF TokenRecord
<1>12. CASE call.function \notin {"transfer", "combine", "split", "fee", "stake", "unstake",
                                  "mint", "mint_credits"}
    <2>1. outs = {}
        BY <1>3, <1>12 DEF Outputs
    <2>2. QED
        BY <1>12, <2>1
<1>13. QED
    BY <1>4, <1>5, <1>6, <1>7, <1>8, <1>9, <1>10, <1>11, <1>12

\* Whatever is executed, the fee is what its inputs are worth more than its outputs, and
\* what it reports as staked is what its records hold more than before.
LEMMA ExecutedBalances ==
    ASSUME NEW account, NEW call, IsCall(call), Executable(account, call), NEW seed
    PROVE  Balanced(Executed(call, seed)) /\ Backed(Executed(call, seed))
<1> DEFINE t == Executed(call, seed)
           in == call.records[1]
<1>1. /\ t.ins = call.records /\ t.outs = Outputs(call, seed) /\ t.stake = Staking(call)
      /\ t.fee = GatesOf(call.records) - GatesOf(Outputs(call, seed))
    BY DEF Executed
<1>2. /\ \A r \in ToSet(t.ins) : r.gates \in Nat
      /\ call.function \in Subtracting =>
            /\ ToSet(t.ins) = {in} /\ call.amount <= in.gates /\ in.gates \in Nat
      /\ call.function = "unstake" => in.validator # None
      /\ call.function # "unstake" => \A r \in ToSet(t.ins) : r.validator = None
    BY <1>1, CallInputs
<1>3. /\ \A r \in ToSet(t.outs) : r.gates \in Int
      /\ call.function \notin {"stake", "unstake"} =>
            \A r \in ToSet(t.outs) : r.validator = None
      /\ call.function = "stake" =>
            \E x, y : /\ ToSet(t.outs) = {x, y} /\ x.validator = None
                      /\ y.validator = call.to /\ y.gates = call.amount
      /\ call.function = "unstake" =>
            \E x, y : /\ ToSet(t.outs) = {x, y} /\ x.validator = None
                      /\ y.validator = in.validator /\ y.gates = in.gates - call.amount
    BY <1>1, CallOutputs
<1>4. call.amount \in Nat /\ (call.function = "stake" => call.to # None)
    BY DEF IsCall
<1>5. /\ call.function = "stake" =>
            t.stake = [validator |-> call.to, account |-> in.owner, delta |-> call.amount]
      /\ call.function = "unstake" =>
            t.stake = [validator |-> in.validator, account |-> in.owner,
                       delta |-> -call.amount]
      /\ call.function \notin {"stake", "unstake"} => t.stake = None
    BY <1>1 DEF Staking
<1> HIDE DEF t
<1>6. Balanced(t)
    BY <1>1, <1>2, <1>3 DEF Balanced
<1>7. ASSUME t.stake # None PROVE t.stake.validator # None
    BY <1>2, <1>4, <1>5, <1>7
<1>8. ASSUME NEW v, v # None
      PROVE  Held(ToSet(t.outs), v) - Held(ToSet(t.ins), v) = Moved(t, v)
    <2>1. \A S : (\A r \in S : r.validator = None) => Held(S, v) = 0
        <3> SUFFICES ASSUME NEW S, \A r \in S : r.validator = None PROVE Held(S, v) = 0
            OBVIOUS
        <3>1. StakedOn(S, v) = {}
            BY <1>8 DEF StakedOn
        <3>2. Gates({}) = 0
            BY FS_EmptySet, GatesOfUnion DEF Countable
        <3>3. QED
            BY <3>1, <3>2 DEF Held
    <2>2. ASSUME NEW x, NEW y, x.validator = None, y.gates \in Int
          PROVE  Held({x, y}, v) = IF y.validator = v THEN y.gates ELSE 0
        <3>1. StakedOn({x, y}, v) = IF y.validator = v THEN {y} ELSE {}
            BY <1>8, <2>2 DEF StakedOn
        <3>2. Gates({y}) = y.gates /\ Gates({}) = 0
            BY <2>2, LoneGates
        <3>3. QED
            BY <3>1, <3>2 DEF Held
    <2>3. CASE call.function = "stake"
        <3>1. Held(ToSet(t.ins), v) = 0
            BY <1>2, <2>1, <2>3
        <3>2. PICK x, y : /\ ToSet(t.outs) = {x, y} /\ x.validator = None
                          /\ y.validator = call.to /\ y.gates = call.amount
            BY <1>3, <2>3
        <3>3. Held(ToSet(t.outs), v) = IF call.to = v THEN call.amount ELSE 0
            BY <1>4, <2>2, <3>2
        <3>4. t.stake.validator = call.to /\ t.stake.delta = call.amount
            BY <1>5, <2>3
        <3>5. t.stake # None
            BY <1>1, <2>3 DEF IsCall
        <3>6. QED
            BY <1>4, <3>1, <3>3, <3>4, <3>5 DEF Moved
    <2>4. CASE call.function = "unstake"
        <3>1. ToSet(t.ins) = {in} /\ in.gates \in Nat
            BY <1>2, <2>4 DEF Subtracting
        <3>2. Held(ToSet(t.ins), v) = IF in.validator = v THEN in.gates ELSE 0
            <4>1. StakedOn({in}, v) = IF in.validator = v THEN {in} ELSE {}
                BY DEF StakedOn
            <4>2. Gates({in}) = in.gates /\ Gates({}) = 0
                BY <3>1, LoneGates
            <4>3. QED
                BY <3>1, <4>1, <4>2 DEF Held
        <3>3. PICK x, y : /\ ToSet(t.outs) = {x, y} /\ x.validator = None
                          /\ y.validator = in.validator
                          /\ y.gates = in.gates - call.amount
            BY <1>3, <2>4
        <3>4. Held(ToSet(t.outs), v) =
                IF in.validator = v THEN in.gates - call.amount ELSE 0
            BY <1>4, <2>2, <3>1, <3>3
        <3>5. t.stake.validator = in.validator /\ t.stake.delta = -call.amount
            BY <1>5, <2>4
        <3>6. t.stake # None
            BY <1>1, <2>4 DEF IsCall
        <3>7. QED
            BY <1>4, <3>1, <3>2, <3>4, <3>5, <3>6 DEF Moved
    <2>5. CASE call.function \notin {"stake", "unstake"}
        <3>1. Held(ToSet(t.outs), v) = 0 /\ Held(ToSet(t.ins), v) = 0
            BY <1>2, <1>3, <2>1, <2>5
        <3>2. Moved(t, v) = 0
            BY <1>5, <2>5 DEF Moved
        <3>3. QED
            BY <3>1, <3>2
    <2>6. QED
        BY <2>3, <2>4, <2>5
<1>9. QED
    BY <1>1, <1>2, <1>3, <1>6, <1>7, <1>8 DEF Backed, t

\* If each proof stands for an execution, fees and stakes are what the records say, which is
\* what the theorems on powers and credits assume of transactions.
THEOREM ProofsAreEnough ==
    ASSUME TransitionsAreExecuted
    PROVE  TxsBalance /\ StakesAreBacked
<1> SUFFICES ASSUME NEW tx \in Txs, Proved(tx), NEW i \in DOMAIN tx.transitions
             PROVE  /\ Balanced(tx.transitions[i]) /\ Backed(tx.transitions[i])
                    /\ tx.kind = "Deployment" => tx.transitions[i].stake = None
    BY DEF TxsBalance, StakesAreBacked
<1>1. PICK account, call, seed : /\ IsCall(call) /\ Executable(account, call)
                                 /\ tx.transitions[i] = Executed(call, seed)
    BY DEF TransitionsAreExecuted
<1>2. Balanced(tx.transitions[i]) /\ Backed(tx.transitions[i])
    BY <1>1, ExecutedBalances
<1>3. ASSUME tx.kind = "Deployment" PROVE tx.transitions[i].stake = None
    <2>1. tx.transitions[i].function = "fee"
        BY <1>3 DEF TransitionsAreExecuted
    <2>2. call.function = "fee" /\ tx.transitions[i].stake = Staking(call)
        BY <1>1, <2>1 DEF Executed
    <2>3. QED
        BY <2>2 DEF Staking
<1>4. QED
    BY <1>2, <1>3

----------------------------------------------------------------------------
(* Stakes and powers.                                                        *)

PowerOf(set, v) == IF v \in DOMAIN set THEN set[v].power ELSE 0

IntPowers(set) == \A v \in DOMAIN set : set[v].power \in Int

AfterAll(set, updates) == AfterUpdates(set, updates)[Len(updates)]

\* One update changes the power of the validator it names by what was staked.
LEMMA PowerOfUpdated ==
    ASSUME NEW set, IntPowers(set), NEW update, update.delta \in Int, NEW v
    PROVE  /\ IntPowers(ApplyUpdate(set, update))
           /\ PowerOf(ApplyUpdate(set, update), v) =
                PowerOf(set, v) + (IF update.validator = v THEN update.delta ELSE 0)
           /\ PowerOf(set, v) \in Int
<1> DEFINE u == update.validator
           after == ApplyUpdate(set, update)
<1>1. DOMAIN after = DOMAIN set \cup {u}
    BY DEF ApplyUpdate
<1>2. \A x \in DOMAIN set : x # u => after[x] = set[x]
    BY DEF ApplyUpdate
<1>3. u \in DOMAIN set => after[u].power = set[u].power + update.delta
    <2> SUFFICES ASSUME u \in DOMAIN set PROVE after[u].power = set[u].power + update.delta
        OBVIOUS
    <2>1. after[u] = [set[u] EXCEPT !.power = @ + update.delta]
        BY DEF ApplyUpdate
    <2>2. set[u].power \in Int
        BY DEF IntPowers
    <2>3. QED
        BY <2>1, <2>2
<1>4. u \notin DOMAIN set => after[u].power = update.delta
    BY DEF ApplyUpdate
<1> HIDE DEF after
<1>5. IntPowers(after)
    BY <1>1, <1>2, <1>3, <1>4 DEF IntPowers
<1>6. PowerOf(set, v) \in Int
    BY DEF IntPowers, PowerOf
<1>7. PowerOf(after, v) = PowerOf(set, v) + (IF u = v THEN update.delta ELSE 0)
    <2>1. CASE u = v
        BY <1>1, <1>3, <1>4, <2>1 DEF PowerOf
    <2>2. CASE u # v
        <3>1. PowerOf(after, v) = PowerOf(set, v)
            BY <1>1, <1>2, <2>2 DEF PowerOf
        <3>2. QED
            BY <1>6, <2>2, <3>1
    <2>3. QED
        BY <2>1, <2>2
<1>8. QED
    BY <1>5, <1>6, <1>7 DEF after

\* One more transition: what it reports as staked is added.
LEMMA PowerOfOneMore ==
    ASSUME NEW set, NEW t, t.stake # None => t.stake.delta \in Int,
           NEW S, t.stake \in S, NEW updates \in Seq(S), NEW v,
           IntPowers(AfterAll(set, updates))
    PROVE  /\ updates \o StakeUpdate(t) \in Seq(S)
           /\ IntPowers(AfterAll(set, updates \o StakeUpdate(t)))
           /\ PowerOf(AfterAll(set, updates \o StakeUpdate(t)), v) =
                PowerOf(AfterAll(set, updates), v) + Moved(t, v)
<1>1. CASE t.stake = None
    <2>1. StakeUpdate(t) = <<>> /\ Moved(t, v) = 0
        BY <1>1 DEF StakeUpdate, Moved
    <2>2. updates \o <<>> = updates
        OBVIOUS
    <2>3. PowerOf(AfterAll(set, updates), v) \in Int
        BY DEF PowerOf, IntPowers
    <2>4. QED
        BY <2>1, <2>2, <2>3
<1>2. CASE t.stake # None
    <2>1. StakeUpdate(t) = <<t.stake>> /\ t.stake.delta \in Int
        BY <1>2 DEF StakeUpdate
    <2>2. AfterAll(set, updates \o <<t.stake>>) =
                ApplyUpdate(AfterAll(set, updates), t.stake)
        BY UpdatedOneMore DEF AfterAll
    <2>3. Moved(t, v) = IF t.stake.validator = v THEN t.stake.delta ELSE 0
        BY <1>2 DEF Moved
    <2>4. updates \o <<t.stake>> \in Seq(S)
        OBVIOUS
    <2> DEFINE before == AfterAll(set, updates)
               stake == t.stake
    <2> HIDE DEF before, stake
    <2>5. /\ IntPowers(ApplyUpdate(before, stake))
          /\ PowerOf(ApplyUpdate(before, stake), v) =
                PowerOf(before, v) + (IF stake.validator = v THEN stake.delta ELSE 0)
        <3>1. IntPowers(before) /\ stake.delta \in Int
            BY <2>1 DEF before, stake
        <3>2. QED
            BY <3>1, PowerOfUpdated
    <2>6. QED
        BY <2>1, <2>2, <2>3, <2>4, <2>5 DEF before, stake
<1>3. QED
    BY <1>1, <1>2

\* The powers after an execution: what its transitions report is added.
LEMMA PowerAfterUpdates ==
    ASSUME NEW tx, IsTransaction(tx), tx.kind # "Deployment",
           NEW set, IntPowers(set), NEW v
    PROVE  LET I == DOMAIN tx.transitions
               moved == [i \in I |-> Moved(tx.transitions[i], v)] IN
           /\ IsFiniteSet(I) /\ \A i \in I : moved[i] \in Int
           /\ PowerOf(AfterAll(set, StakeUpdates(tx)), v) =
                PowerOf(set, v) + Total(moved, I)
<1> DEFINE n == Len(tx.transitions)
           T(i) == tx.transitions[i]
           S == {T(i).stake : i \in 1..n}
           seqs == [i \in 1..n |-> StakeUpdate(T(i))]
           moved == [i \in 1..n |-> Moved(T(i), v)]
<1>1. n \in Nat /\ DOMAIN tx.transitions = 1..n
    BY ListDomain DEF IsTransaction
<1>2. \A i \in 1..n : /\ T(i).stake \in S
                      /\ T(i).stake # None => T(i).stake.delta \in Int
    BY <1>1 DEF IsTransaction
<1>3. \A i \in 1..n : moved[i] \in Int
    BY <1>2 DEF Moved
<1>4. \A i \in 1..n : seqs[i] = StakeUpdate(T(i)) /\ moved[i] = Moved(T(i), v)
    OBVIOUS
<1>5. StakeUpdates(tx) = FlattenSeq(seqs)
    BY <1>1 DEF StakeUpdates
<1>6. DOMAIN seqs = 1..n /\ seqs \in Seq(Seq(S)) /\ Len(seqs) = n
    <2>1. ASSUME NEW i \in 1..n PROVE StakeUpdate(T(i)) \in Seq(S)
        <3> DEFINE stake == T(i).stake
        <3>1. stake \in S
            BY <1>2
        <3>2. StakeUpdate(T(i)) = IF stake = None THEN <<>> ELSE <<stake>>
            BY DEF StakeUpdate
        <3> HIDE DEF S, stake
        <3>3. <<>> \in Seq(S) /\ <<stake>> \in Seq(S)
            BY <3>1
        <3>4. QED
            BY <3>2, <3>3
    <2> HIDE DEF S
    <2> DEFINE R == Seq(S)
    <2>2. \A i \in 1..n : StakeUpdate(T(i)) \in R
        BY <2>1
    <2> HIDE DEF R
    <2>3. seqs \in Seq(R) /\ Len(seqs) = n
        BY <1>1, <2>2
    <2>4. QED
        BY <2>3 DEF R
<1>7. /\ AfterAll(set, <<>>) = set
      /\ PowerOf(set, v) \in Int
    <2>1. AfterAll(set, <<>>) = set
        <3>1. Len(<<>>) = 0
            OBVIOUS
        <3>2. AfterUpdates(set, <<>>)[0] = set
            BY <3>1, UpdateSteps
        <3>3. QED
            BY <3>1, <3>2 DEF AfterAll
    <2>2. QED
        BY <2>1 DEF IntPowers, PowerOf
<1> HIDE DEF n, S, seqs, moved
<1>8. IsFiniteSet(1..n) /\ \A m \in 0..n : IsFiniteSet(1..m) /\ \A i \in 1..m : i \in 1..n
    BY <1>1, FS_Interval, 1 \in Int
<1>9. Total(moved, {}) = 0
    BY <1>3, FS_EmptySet, TotalSteps
<1> DEFINE Reached(u, m) ==
            /\ u \in Seq(S) /\ IntPowers(AfterAll(set, u))
            /\ PowerOf(AfterAll(set, u), v) = PowerOf(set, v) + Total(moved, 1..m)
<1>10. ASSUME NEW m \in Nat, m + 1 \in 1..n, NEW u, Reached(u, m)
       PROVE  Reached(u \o seqs[m + 1], m + 1)
    <2> DEFINE k == m + 1
    <2>1. k \in 1..n /\ m \in 0..n /\ k \in 0..n
        BY <1>1, <1>10
    <2>2. IsFiniteSet(1..k) /\ k \in 1..k /\ (1..k) \ {k} = 1..m
        BY <1>8, <2>1
    <2>3. \A i \in 1..k : moved[i] \in Int
        BY <1>3, <1>8, <2>1
    <2>4. seqs[k] = StakeUpdate(T(k)) /\ moved[k] = Moved(T(k), v)
        BY <1>4, <2>1
    <2>5. T(k).stake \in S /\ (T(k).stake # None => T(k).stake.delta \in Int)
        BY <1>2, <2>1
    <2> HIDE DEF k
    <2>6. Total(moved, 1..k) = moved[k] + Total(moved, (1..k) \ {k})
        BY <2>2, <2>3, TotalSteps
    <2>7. Total(moved, 1..m) \in Int /\ moved[k] \in Int
        <3>1. IsFiniteSet(1..m) /\ \A i \in 1..m : moved[i] \in Int
            BY <1>3, <1>8, <2>1
        <3>2. QED
            BY <2>2, <2>3, <3>1, TotalSteps
    <2>8. /\ u \in Seq(S) /\ IntPowers(AfterAll(set, u))
          /\ PowerOf(AfterAll(set, u), v) = PowerOf(set, v) + Total(moved, 1..m)
        BY <1>10
    <2> DEFINE t == T(k)
    <2>9. t.stake \in S /\ (t.stake # None => t.stake.delta \in Int)
        BY <2>5
    <2> HIDE DEF t
    <2>10. /\ u \o StakeUpdate(t) \in Seq(S)
           /\ IntPowers(AfterAll(set, u \o StakeUpdate(t)))
           /\ PowerOf(AfterAll(set, u \o StakeUpdate(t)), v) =
                PowerOf(AfterAll(set, u), v) + Moved(t, v)
        BY <2>8, <2>9, PowerOfOneMore
    <2>11. /\ u \o seqs[k] \in Seq(S) /\ IntPowers(AfterAll(set, u \o seqs[k]))
           /\ PowerOf(AfterAll(set, u \o seqs[k]), v) = PowerOf(set, v) + Total(moved, 1..k)
        <3>1. u \o seqs[k] = u \o StakeUpdate(t) /\ moved[k] = Moved(t, v)
            BY <2>4 DEF t
        <3>2. Total(moved, 1..k) = moved[k] + Total(moved, 1..m)
            BY <2>2, <2>6
        <3>3. PowerOf(AfterAll(set, u \o seqs[k]), v)
                = (PowerOf(set, v) + Total(moved, 1..m)) + moved[k]
            BY <2>8, <2>10, <3>1
        <3>4. PowerOf(AfterAll(set, u \o seqs[k]), v)
                = PowerOf(set, v) + Total(moved, 1..k)
            BY ONLY <1>7, <2>7, <3>2, <3>3
        <3>5. QED
            BY <2>10, <3>1, <3>4
    <2>12. QED
        BY <2>11 DEF k
<1>11. Reached(<<>>, 0)
    <2>1. 1..0 = {} /\ <<>> \in Seq(S)
        OBVIOUS
    <2>2. PowerOf(set, v) = PowerOf(set, v) + Total(moved, 1..0)
        BY <1>7, <1>9, <2>1
    <2>3. QED
        BY <1>7, <2>1, <2>2
<1>12. Reached(FlattenSeq(seqs), n)
    <2>1. CASE n = 0
        <3>1. seqs = <<>>
            BY <1>6, <2>1
        <3>2. FlattenSeq(seqs) = <<>>
            BY <3>1 DEF FlattenSeq
        <3> HIDE DEF Reached
        <3>3. QED
            BY <1>11, <2>1, <3>2
    <2>2. CASE n # 0
        <3>1. seqs # <<>>
            BY <1>6, <2>2
        <3>2. PICK flat : /\ FlattenSeq(seqs) = flat[Len(seqs)]
                          /\ flat[1] = seqs[1]
                          /\ \A i \in 1..Len(seqs) :
                                i # 1 => flat[i] = flat[i - 1] \o seqs[i]
            BY <1>6, <3>1, FlattenSteps
        <3>3. /\ FlattenSeq(seqs) = flat[n]
              /\ flat[1] = seqs[1]
              /\ \A i \in 1..n : i # 1 => flat[i] = flat[i - 1] \o seqs[i]
            BY <1>6, <3>2
        <3> DEFINE P == {m \in Nat : m \in 1..n => Reached(flat[m], m)}
        <3> HIDE DEF Reached
        <3>4. 0 \in P
            OBVIOUS
        <3>5. ASSUME NEW m \in Nat, m \in P PROVE m + 1 \in P
            <4> SUFFICES ASSUME m + 1 \in 1..n PROVE Reached(flat[m + 1], m + 1)
                OBVIOUS
            <4>1. CASE m = 0
                <5>1. seqs[1] \in Seq(S) /\ 1 \in 1..n
                    BY <1>1, <1>6, <2>2
                <5>2. <<>> \o seqs[1] = seqs[1]
                    BY <5>1
                <5>3. Reached(<<>> \o seqs[m + 1], m + 1)
                    BY <1>10, <1>11, <4>1
                <5>4. m + 1 = 1
                    BY <4>1
                <5>5. QED
                    BY <3>3, <5>2, <5>3, <5>4
            <4>2. CASE m # 0
                <5>1. m \in 1..n /\ m + 1 # 1 /\ (m + 1) - 1 = m
                    BY <1>1, <4>2
                <5>2. flat[m + 1] = flat[(m + 1) - 1] \o seqs[m + 1]
                    BY <3>3, <5>1
                <5>3. flat[m + 1] = flat[m] \o seqs[m + 1]
                    BY <5>1, <5>2
                <5>4. Reached(flat[m], m)
                    BY <3>5, <5>1
                <5>5. Reached(flat[m] \o seqs[m + 1], m + 1)
                    BY <1>10, <5>4
                <5>6. QED
                    BY <5>3, <5>5
            <4>3. QED
                BY <4>1, <4>2
        <3>6. Nat \subseteq P
            <4> HIDE DEF P
            <4>1. QED
                BY <3>4, <3>5, Induction
        <3>7. n \in 1..n
            BY <1>1, <2>2
        <3>8. QED
            BY <1>1, <3>3, <3>6, <3>7
    <2>3. QED
        BY <2>1, <2>2
<1>13. PowerOf(AfterAll(set, StakeUpdates(tx)), v) = PowerOf(set, v) + Total(moved, 1..n)
    BY <1>5, <1>12
<1>14. QED
    BY <1>1, <1>3, <1>8, <1>13 DEF moved

\* No updates, no change.
LEMMA NoUpdates == ASSUME NEW set PROVE AfterAll(set, <<>>) = set
<1>1. Len(<<>>) = 0
    OBVIOUS
<1>2. AfterUpdates(set, <<>>)[0] = set
    BY <1>1, UpdateSteps
<1>3. QED
    BY <1>1, <1>2 DEF AfterAll

\* A transaction changes the power of a validator by the staked credits that its outputs
\* hold more than its inputs.
LEMMA PowerOfTx ==
    ASSUME StakesAreBacked, NEW tx \in Txs, Proved(tx),
           IsInjective(RecordSerialNumbers(tx)), IsInjective(OutputRecords(tx)),
           NEW set, IntPowers(set), NEW v, v # None
    PROVE  /\ Countable(Inputs(tx)) /\ Countable(Outputted(tx))
           /\ PowerOf(AfterAll(set, StakeUpdates(tx)), v) =
                PowerOf(set, v) + (Held(Outputted(tx), v) - Held(Inputs(tx), v))
<1> DEFINE I == DOMAIN tx.transitions
           T(i) == tx.transitions[i]
           F == StakedOn(Inputs(tx) \cup Outputted(tx), v)
           a == [i \in I |-> Gates(ToSet(T(i).ins) \cap F)]
           b == [i \in I |-> Gates(ToSet(T(i).outs) \cap F)]
           moved == [i \in I |-> Moved(T(i), v)]
<1>1. /\ IsTransaction(tx) /\ \A i \in I : Backed(T(i))
      /\ tx.kind = "Deployment" => \A i \in I : T(i).stake = None
    BY TxsAssumption DEF StakesAreBacked
<1>2. \A i \in I : \A r \in ToSet(T(i).ins) \cup ToSet(T(i).outs) : r.gates \in Int
    BY <1>1 DEF Backed
<1>3. /\ IsFiniteSet(I) /\ Countable(Inputs(tx)) /\ Countable(Outputted(tx))
      /\ \A i \in I : a[i] \in Int /\ b[i] \in Int
      /\ Gates(Inputs(tx) \cap F) = Total(a, I)
      /\ Gates(Outputted(tx) \cap F) = Total(b, I)
    BY <1>1, <1>2, GatesOfTx
<1>4. \A i \in I : /\ ToSet(T(i).ins) \subseteq Inputs(tx)
                   /\ ToSet(T(i).outs) \subseteq Outputted(tx)
    BY <1>1, PartsOfTx
<1>5. ASSUME NEW i \in I PROVE moved[i] = b[i] - a[i]
    <2>1. /\ ToSet(T(i).ins) \cap F = StakedOn(ToSet(T(i).ins), v)
          /\ ToSet(T(i).outs) \cap F = StakedOn(ToSet(T(i).outs), v)
        BY <1>4 DEF StakedOn
    <2>2. Held(ToSet(T(i).outs), v) - Held(ToSet(T(i).ins), v) = Moved(T(i), v)
        BY <1>1 DEF Backed
    <2>3. QED
        BY <2>1, <2>2 DEF Held
<1>6. /\ Inputs(tx) \cap F = StakedOn(Inputs(tx), v)
      /\ Outputted(tx) \cap F = StakedOn(Outputted(tx), v)
    BY DEF StakedOn
<1>7. PowerOf(set, v) \in Int
    BY DEF IntPowers, PowerOf
<1>8. PowerOf(AfterAll(set, StakeUpdates(tx)), v) = PowerOf(set, v) + Total(moved, I)
    <2>1. CASE tx.kind # "Deployment"
        BY <1>1, <2>1, PowerAfterUpdates
    <2>2. CASE tx.kind = "Deployment"
        <3>1. AfterAll(set, StakeUpdates(tx)) = set
            BY <2>2, NoUpdates DEF StakeUpdates
        <3>2. \A i \in I : moved[i] = 0
            BY <1>1, <2>2 DEF Moved
        <3> HIDE DEF moved, I
        <3>3. \A i \in I : /\ moved[i] \in Int /\ moved[i] = moved[i] - moved[i]
            BY <3>2
        <3>4. Total(moved, I) = Total(moved, I) - Total(moved, I)
            BY <1>3, <3>3, TotalDifference
        <3>5. Total(moved, I) \in Int
            BY <1>3, <3>3, TotalSteps
        <3>6. QED
            BY <1>7, <3>1, <3>4, <3>5
    <2>3. QED
        BY <2>1, <2>2
<1> HIDE DEF a, b, moved, F, I
<1>9. \A i \in I : a[i] \in Int /\ b[i] \in Int /\ moved[i] = b[i] - a[i]
    BY <1>3, <1>5
<1>10. Total(moved, I) = Total(b, I) - Total(a, I)
    BY <1>3, <1>9, TotalDifference
<1>11. QED
    BY <1>3, <1>6, <1>8, <1>10 DEF Held

\* Every update of a transaction names a validator.
LEMMA UpdatesNameValidators ==
    ASSUME StakesAreBacked, NEW tx \in Txs, Proved(tx)
    PROVE  None \notin UpdatedBy(StakeUpdates(tx))
<1> DEFINE n == Len(tx.transitions)
           seqs == [i \in 1..n |-> StakeUpdate(tx.transitions[i])]
<1>1. /\ IsTransaction(tx) /\ n \in Nat /\ DOMAIN tx.transitions = 1..n
      /\ \A i \in 1..n : /\ tx.transitions[i].stake # None =>
                                tx.transitions[i].stake.validator # None
    BY TxsAssumption, ListDomain DEF IsTransaction, StakesAreBacked, Backed
<1>2. CASE tx.kind = "Deployment"
    <2>1. StakeUpdates(tx) = <<>> /\ DOMAIN <<>> = {}
        BY <1>2 DEF StakeUpdates
    <2>2. QED
        BY <2>1 DEF UpdatedBy
<1>3. CASE tx.kind # "Deployment"
    <2>1. ASSUME NEW i \in 1..n
          PROVE  /\ IsList(seqs[i])
                 /\ \A update \in ToSet(seqs[i]) : update.validator # None
        <3> DEFINE stake == tx.transitions[i].stake
        <3>1. seqs[i] = IF stake = None THEN <<>> ELSE <<stake>>
            BY DEF StakeUpdate
        <3>2. stake # None => stake.validator # None
            BY <1>1
        <3> HIDE DEF stake, seqs
        <3>3. IsList(<<>>) /\ ToSet(<<>>) = {}
            <4>1. DOMAIN <<>> = {}
                OBVIOUS
            <4>2. ToSet(<<>>) = {}
                BY <4>1 DEF ToSet
            <4>3. QED
                BY <4>2 DEF IsList
        <3>4. IsList(<<stake>>) /\ ToSet(<<stake>>) = {stake}
            <4>1. DOMAIN <<stake>> = {1} /\ <<stake>>[1] = stake
                OBVIOUS
            <4>2. ToSet(<<stake>>) = {stake}
                BY <4>1 DEF ToSet
            <4>3. QED
                BY <4>2 DEF IsList
        <3>5. QED
            BY <3>1, <3>2, <3>3, <3>4
    <2>2. seqs = [i \in 1..n |-> seqs[i]]
        OBVIOUS
    <2>3. StakeUpdates(tx) = FlattenSeq(seqs)
        BY <1>1, <1>3 DEF StakeUpdates
    <2> HIDE DEF n, seqs
    <2>4. ToSet(StakeUpdates(tx)) = UNION {ToSet(seqs[i]) : i \in 1..n}
        BY <1>1, <2>1, <2>2, <2>3, FlattenedLists
    <2>5. \A update \in ToSet(StakeUpdates(tx)) : update.validator # None
        BY <2>1, <2>4
    <2>6. QED
        BY <2>5 DEF UpdatedBy, ToSet
<1>4. QED
    BY <1>2, <1>3

\* The records that are staked.
Staked(records) == {r \in records : r.validator # None}

\* What a set of validators has, beyond the genesis state, is staked: the records hold it,
\* less what the serial numbers spend.
Backing(set, records, serials) ==
    /\ IntPowers(set) /\ None \notin DOMAIN set
    /\ Countable(Staked(records)) /\ Countable(Staked(serials))
    /\ \A v : v # None =>
            PowerOf(set, v) =
                PowerOf(GenesisValidators, v) + (Held(records, v) - Held(serials, v))

LEMMA HeldIsStaked ==
    ASSUME NEW records, Countable(Staked(records)), NEW v, v # None
    PROVE  /\ StakedOn(records, v) = StakedOn(Staked(records), v)
           /\ Countable(StakedOn(records, v))
           /\ Held(records, v) \in Int
<1>1. StakedOn(records, v) = StakedOn(Staked(records), v)
    BY DEF StakedOn, Staked
<1>2. StakedOn(records, v) \subseteq Staked(records)
    BY DEF StakedOn, Staked
<1>3. Countable(StakedOn(records, v))
    BY <1>2, FS_Subset DEF Countable
<1>4. QED
    BY <1>1, <1>3, GatesOfUnion DEF Held

\* New records hold what they hold on top.
LEMMA HeldByMore ==
    ASSUME NEW records, Countable(Staked(records)), NEW new, Countable(new),
           records \cap new = {}
    PROVE  /\ Countable(Staked(records \cup new))
           /\ \A v : v # None =>
                Held(records \cup new, v) = Held(records, v) + Held(new, v)
<1>1. Countable(Staked(new))
    BY FS_Subset DEF Countable, Staked
<1>2. Staked(records \cup new) = Staked(records) \cup Staked(new)
    BY DEF Staked
<1>3. Countable(Staked(records \cup new))
    BY <1>1, <1>2, GatesOfUnion
<1>4. ASSUME NEW v, v # None
      PROVE  Held(records \cup new, v) = Held(records, v) + Held(new, v)
    <2> DEFINE R == StakedOn(records, v)
               N == StakedOn(new, v)
    <2>1. StakedOn(records \cup new, v) = R \cup N /\ R \cap N = {}
        BY DEF StakedOn
    <2>2. Countable(R) /\ Countable(N)
        BY <1>1, <1>4, HeldIsStaked
    <2> HIDE DEF R, N
    <2>3. Gates(R \cup N) = Gates(R) + Gates(N)
        BY <2>1, <2>2, GatesOfUnion
    <2>4. QED
        BY <2>1, <2>3 DEF Held, R, N
<1>5. QED
    BY <1>3, <1>4

\* Only staked records count.
LEMMA SameBacking ==
    ASSUME NEW set, NEW records, NEW others, NEW serials, Backing(set, records, serials),
           Staked(others) = Staked(records)
    PROVE  Backing(set, others, serials)
<1>1. \A v : v # None => Held(others, v) = Held(records, v)
    <2>1. \A v : v # None => StakedOn(others, v) = StakedOn(records, v)
        BY DEF Staked, StakedOn
    <2>2. QED
        BY <2>1 DEF Held
<1>2. QED
    BY <1>1 DEF Backing

\* Nobody staked anything before the first block.
LEMMA GenesisBacking ==
    ASSUME None \notin DOMAIN GenesisValidators, NEW records, Staked(records) = {}
    PROVE  Backing(GenesisValidators, records, {})
<1>1. Staked({}) = {} /\ Countable({})
    BY FS_EmptySet DEF Staked, Countable
<1>2. IntPowers(GenesisValidators)
    BY GenesisAssumption DEF IntPowers
<1>3. ASSUME NEW v, v # None
      PROVE  /\ PowerOf(GenesisValidators, v) \in Int
             /\ Held(records, v) = 0 /\ Held({}, v) = 0
    <2>1. StakedOn(records, v) = {} /\ StakedOn({}, v) = {}
        BY <1>3 DEF Staked, StakedOn
    <2>2. Gates({}) = 0
        BY <1>1, GatesOfUnion
    <2>3. QED
        BY <1>2, <2>1, <2>2 DEF PowerOf, IntPowers, Held
<1>4. ASSUME NEW v, v # None
      PROVE  PowerOf(GenesisValidators, v) =
                PowerOf(GenesisValidators, v) + (Held(records, v) - Held({}, v))
    <2>1. \A n \in Int : n = n + (0 - 0)
        OBVIOUS
    <2>2. QED
        BY <1>3, <1>4, <2>1
<1>5. Countable(Staked(records)) /\ Countable(Staked({}))
    BY <1>1
<1>6. QED
    BY <1>2, <1>4, <1>5 DEF Backing

\* What a transaction reports as staked is in the records that it leaves.
LEMMA BackingAfter ==
    ASSUME StakesAreBacked, NEW tx \in Txs, Proved(tx),
           NEW set, NEW records, NEW serials, AllStored(RecordSerialNumbers(tx), serials),
           AllStored(OutputRecords(tx), records),
           Backing(set, records, serials), IntPowers(AfterAll(set, StakeUpdates(tx)))
    PROVE  Backing(AfterAll(set, StakeUpdates(tx)),
                   records \cup Outputted(tx), serials \cup Inputs(tx))
<1> DEFINE after == AfterAll(set, StakeUpdates(tx))
<1>1. /\ IsInjective(RecordSerialNumbers(tx)) /\ IsInjective(OutputRecords(tx))
      /\ serials \cap Inputs(tx) = {} /\ records \cap Outputted(tx) = {}
    BY DEF AllStored, Inputs, Outputted
<1>2. /\ IntPowers(set) /\ None \notin DOMAIN set
      /\ Countable(Staked(records)) /\ Countable(Staked(serials))
    BY DEF Backing
<1>3. ASSUME NEW v, v # None
      PROVE  /\ Countable(Inputs(tx)) /\ Countable(Outputted(tx))
             /\ PowerOf(after, v) =
                    PowerOf(set, v) + (Held(Outputted(tx), v) - Held(Inputs(tx), v))
    BY <1>1, <1>2, <1>3, PowerOfTx
<1>4. Countable(Inputs(tx)) /\ Countable(Outputted(tx))
    <2>1. TRUE # None \/ FALSE # None
        OBVIOUS
    <2>2. QED
        BY <1>3, <2>1
<1>5. None \notin DOMAIN after
    <2>1. IsList(StakeUpdates(tx))
        BY TxsAssumption, TransactionLists
    <2>2. DOMAIN after = DOMAIN set \cup UpdatedBy(StakeUpdates(tx))
        BY <2>1, UpdatedDomain DEF AfterAll
    <2>3. None \notin UpdatedBy(StakeUpdates(tx))
        BY UpdatesNameValidators
    <2>4. QED
        BY <1>2, <2>2, <2>3
<1> HIDE DEF after
<1>6. /\ Countable(Staked(records \cup Outputted(tx)))
      /\ \A v : v # None =>
            Held(records \cup Outputted(tx), v) = Held(records, v) + Held(Outputted(tx), v)
    BY <1>1, <1>2, <1>4, HeldByMore
<1>7. /\ Countable(Staked(serials \cup Inputs(tx)))
      /\ \A v : v # None =>
            Held(serials \cup Inputs(tx), v) = Held(serials, v) + Held(Inputs(tx), v)
    BY <1>1, <1>2, <1>4, HeldByMore
<1>8. ASSUME NEW v, v # None
      PROVE  PowerOf(after, v) = PowerOf(GenesisValidators, v)
                + (Held(records \cup Outputted(tx), v) - Held(serials \cup Inputs(tx), v))
    <2> DEFINE g == PowerOf(GenesisValidators, v)
               p == PowerOf(set, v)
               r == Held(records, v)
               s == Held(serials, v)
               o == Held(Outputted(tx), v)
               i == Held(Inputs(tx), v)
    <2>1. g \in Int
        BY GenesisAssumption DEF PowerOf
    <2>2. r \in Int /\ s \in Int
        BY <1>2, <1>8, HeldIsStaked
    <2>3. o \in Int /\ i \in Int
        <3>1. Countable(Staked(Outputted(tx))) /\ Countable(Staked(Inputs(tx)))
            BY <1>4, FS_Subset DEF Countable, Staked
        <3>2. QED
            BY <1>8, <3>1, HeldIsStaked
    <2>4. p = g + (r - s)
        BY <1>8 DEF Backing
    <2>5. PowerOf(after, v) = p + (o - i)
        BY <1>3, <1>8
    <2>6. /\ Held(records \cup Outputted(tx), v) = r + o
          /\ Held(serials \cup Inputs(tx), v) = s + i
        BY <1>6, <1>7, <1>8
    <2> HIDE DEF g, p, r, s, o, i
    <2>7. PowerOf(after, v) = (g + (r - s)) + (o - i)
        BY <2>4, <2>5
    <2>8. (g + (r - s)) + (o - i) = g + ((r + o) - (s + i))
        BY <2>1, <2>2, <2>3
    <2>9. QED
        BY <2>6, <2>7, <2>8 DEF g
<1>9. QED
    BY <1>5, <1>6, <1>7, <1>8 DEF Backing, after

----------------------------------------------------------------------------
(* Powers are staked, whatever happens to the process but inside a commit.   *)

InCommit == pc \in {"commit", "counted", "rewarded"}

\* What the disk holds is backed, but while a commit writes it; nothing is written before
\* the first one.
IDiskBacked ==
    /\ ~InCommit => Backing(DurableSet, dbRecords, dbSpent)
    /\ ~InCommit /\ ~Saved => dbRecords = {} /\ dbSpent = {}
    /\ InCommit /\ storeCommit # "queued" => Staked(known) \subseteq dbRecords
    /\ InCommit /\ storeCommit = "none" => spentBuffer = {}

\* What the memory holds is backed, once the genesis state or the files are there.
IMemoryBacked ==
    /\ pc = "down" => recordBuffer = {} /\ spentBuffer = {} /\ ~connected
    /\ ~Saved => \/ GenesisRecords \subseteq known
                 \/ ~connected /\ known = {} /\ spent = {}
    /\ connected \/ pc \notin {"down", "panicked"} =>
            (Saved \/ GenesisRecords \subseteq known => Backing(validators, known, spent))

IBacked == "commit" \notin cut => IDiskBacked /\ IMemoryBacked

\* The genesis state stakes nothing, and there is some.
GenesisIsUnstaked ==
    /\ GenesisRecords # {} /\ \A r \in GenesisRecords : r.validator = None
    /\ None \notin DOMAIN GenesisValidators

LEMMA InitBacked == GenesisIsUnstaked /\ Init => IBacked
<1> SUFFICES ASSUME GenesisIsUnstaked, Init PROVE IBacked
    OBVIOUS
<1>1. /\ dbRecords = {} /\ dbSpent = {} /\ recordBuffer = {} /\ spentBuffer = {}
      /\ validatorsFile = <<>> /\ pc = "down" /\ connected = FALSE
    BY DEF Init, AppInit
<1>2. DOMAIN <<>> = {}
    OBVIOUS
<1>3. ~Saved /\ DurableSet = GenesisValidators /\ Staked({}) = {}
    BY <1>1, <1>2 DEF Saved, DurableSet, Staked
<1>4. Backing(GenesisValidators, {}, {})
    BY <1>3, GenesisBacking DEF GenesisIsUnstaked
<1>5. QED
    BY <1>1, <1>3, <1>4 DEF IBacked, IDiskBacked, IMemoryBacked, InCommit, known, spent

LEMMA NextBacked ==
    ASSUME NoncesAreUnique, StakesAreBacked, GenesisIsUnstaked
    PROVE  ITypes /\ IRewarded /\ IFresh /\ IBacked /\ [Next]_vars => IBacked'
<1> SUFFICES ASSUME ITypes, IRewarded, IFresh, IBacked, [Next]_vars, "commit" \notin cut'
             PROVE  IDiskBacked' /\ IMemoryBacked'
    BY DEF IBacked
<1>1. "commit" \notin cut
    BY CutGrows
<1>2. /\ IFreshStores /\ IKnown /\ IFiles /\ IDiskBacked /\ IMemoryBacked
      /\ pc \in PCs /\ ITypes'
    BY <1>1, NextTypes DEF IFresh, IRewarded, IBacked, ITypes, TypeOK
<1> USE DEF PCs, InCommit
<1>3. ASSUME UNCHANGED <<storeVars, storeCommit, validatorsFile, validators>>,
             pc' # "down", InCommit' <=> InCommit, connected' => connected,
             connected' \/ pc' # "panicked" => connected \/ pc \notin {"down", "panicked"}
      PROVE  IDiskBacked' /\ IMemoryBacked'
    BY <1>2, <1>3
    DEF IDiskBacked, IMemoryBacked, storeVars, known, spent, DurableSet, Saved
<1>4. CASE UNCHANGED vars
    BY <1>2, <1>4
    DEF vars, appVars, storeVars, fileVars, IDiskBacked, IMemoryBacked, known, spent,
        DurableSet, Saved
<1>5. CASE Launch
    <2>1. UNCHANGED <<storeVars, storeCommit, validatorsFile, connected>> /\ ~connected
        BY <1>5 DEF Launch, Start, Info, fileVars
    <2>2. CASE Info
        <3>1. pc = "started" /\ pc' \in {"ready", "panicked"} /\ UNCHANGED validators
            BY <2>2 DEF Info
        <3>2. QED
            BY <1>3, <2>1, <3>1
    <2>3. CASE Start
        <3>1. pc = "down" /\ pc' \in {"started", "panicked"}
              /\ (pc' = "started" => validators' = validatorsFile)
            BY <2>3 DEF Start
        <3>2. known' = known /\ spent' = spent /\ known = dbRecords /\ spent = dbSpent
            BY <1>2, <2>1, <3>1 DEF storeVars, known, spent, IMemoryBacked
        <3>3. (Saved <=> Saved') /\ DurableSet' = DurableSet
            BY <2>1 DEF Saved, DurableSet
        <3>4. Saved => Backing(validatorsFile, known, spent)
            BY <1>2, <3>1, <3>2 DEF IDiskBacked, DurableSet
        <3>5. ~Saved => ~(GenesisRecords \subseteq known)
            BY <1>2, <3>1, <3>2 DEF IDiskBacked, GenesisIsUnstaked
        <3>6. IDiskBacked'
            BY <1>2, <2>1, <3>1, <3>3 DEF IDiskBacked, storeVars
        <3>7. IMemoryBacked'
            BY <1>2, <2>1, <3>1, <3>2, <3>3, <3>4, <3>5 DEF IMemoryBacked, storeVars
        <3>8. QED
            BY <3>6, <3>7
    <2>4. QED
        BY <1>5, <2>2, <2>3 DEF Launch
<1>6. CASE Handshake
    <2>1. /\ pc = "ready" /\ ~connected /\ connected' = TRUE
          /\ UNCHANGED <<dbRecords, dbSpent, spentBuffer, storeCommit, fileVars>>
          /\ heightFile = 0 => InitChain
          /\ heightFile # 0 => UNCHANGED appVars
        BY <1>6 DEF Handshake, InitChain, appVars, storeVars
    <2>2. /\ heightFile \in Nat /\ (Saved => heightFile # 0)
          /\ heightFile # 0 => Saved
        BY <1>2, <2>1, GenesisAssumption, CrashesAssumption DEF ITypes, Awake, IFiles
    <2>3. (Saved <=> Saved') /\ DurableSet' = DurableSet
        BY <2>1 DEF fileVars, Saved, DurableSet
    <2>4. CASE heightFile # 0
        BY <1>2, <2>1, <2>2, <2>3, <2>4
        DEF appVars, storeVars, IDiskBacked, IMemoryBacked, known, spent
    <2>5. CASE heightFile = 0 /\ known \cap GenesisRecords # {}
        <3>1. pc' = "panicked" /\ UNCHANGED <<recordBuffer, validators>>
            BY <2>1, <2>5 DEF InitChain
        <3>2. GenesisRecords \subseteq known
            BY <1>2, <2>2, <2>5 DEF IMemoryBacked
        <3>3. QED
            BY <1>2, <2>1, <2>3, <3>1, <3>2 DEF IDiskBacked, IMemoryBacked, known, spent
    <2>6. CASE heightFile = 0 /\ known \cap GenesisRecords = {}
        <3>1. /\ recordBuffer' = recordBuffer \cup GenesisRecords /\ pc' = "ready"
              /\ validators' = GenesisValidators
            BY <2>1, <2>6 DEF InitChain
        <3>2. known = {} /\ spent = {}
            BY <1>2, <2>2, <2>6 DEF IMemoryBacked, GenesisIsUnstaked
        <3>3. known' = GenesisRecords /\ spent' = {}
            BY <2>1, <3>1, <3>2 DEF known, spent
        <3>4. Staked(GenesisRecords) = {}
            BY DEF Staked, GenesisIsUnstaked
        <3>5. Backing(GenesisValidators, GenesisRecords, {})
            BY <3>4, GenesisBacking DEF GenesisIsUnstaked
        <3>6. IDiskBacked'
            BY <1>2, <2>1, <2>3, <3>1 DEF IDiskBacked
        <3>7. IMemoryBacked'
            BY <3>1, <3>3, <3>5 DEF IMemoryBacked
        <3>8. QED
            BY <3>6, <3>7
    <2>7. QED
        BY <2>4, <2>5, <2>6
<1>7. CASE Begin \/ End
    <2>1. /\ UNCHANGED <<storeVars, storeCommit, validatorsFile, validators, connected>>
          /\ pc \in {"ready", "block"} /\ pc' \in {"block", "ended"}
        BY <1>7 DEF Begin, BeginBlock, End, EndBlock, fileVars
    <2>2. QED
        BY <1>3, <2>1
<1>8. CASE Deliver
    <2> DEFINE tx == block.txs[Len(codes) + 1]
               after == AfterAll(validators, StakeUpdates(tx))
    <2>0. PICK doubt \in Doubt : DeliverTx(tx, doubt) \/ RefuseTx(tx, doubt)
        BY <1>8, DeliveredIsTx
    <2>1. /\ pc = "block" /\ pc' \in {"block", "panicked"} /\ tx \in Txs
          /\ UNCHANGED <<connected, fileVars, dbRecords, dbSpent, storeCommit>>
        BY <1>8, DeliveredIsTx DEF Deliver, DeliverTx, RefuseTx, appVars, storeVars
    <2>2. connected
        BY <1>2, <2>1 DEF IFiles
    <2>3. /\ Accepted(tx, doubt) <=> Passes(tx, spent, programs, validators, doubt)
          /\ pc' # "panicked" /\ Accepted(tx, doubt) =>
                spent' = spent \cup Inputs(tx) /\ known' = known \cup Outputted(tx)
          /\ ~Accepted(tx, doubt) => UNCHANGED appVars
        BY <1>2, <2>0, <2>1, DeliverStores DEF IFreshStores
    <2>4. CASE ~Accepted(tx, doubt)
        <3>1. UNCHANGED <<storeVars, storeCommit, validatorsFile, validators, connected,
                          pc>>
            BY <2>1, <2>3, <2>4 DEF appVars, fileVars
        <3>2. QED
            BY <1>3, <2>1, <2>2, <3>1
    <2>5. CASE pc' = "panicked" /\ Accepted(tx, doubt)
        <3>1. UNCHANGED <<storeVars, validators>>
            BY <2>0, <2>1, <2>3, <2>5
            DEF DeliverTx, RefuseTx, appVars, storeVars
        <3>2. QED
            BY <1>3, <2>1, <2>2, <2>5, <3>1 DEF fileVars
    <2>6. CASE pc' # "panicked" /\ Accepted(tx, doubt)
        <3>1. validators' = after
            BY <2>0, <2>1, <2>3, <2>6 DEF DeliverTx, RefuseTx, AfterAll
        <3>2. /\ AllStored(RecordSerialNumbers(tx), spent)
              /\ AllStored(OutputRecords(tx), known)
            BY <1>2, <2>1, <2>3, <2>6, PassesStores DEF IFreshStores
        <3>3. IntPowers(validators')
            BY <1>2 DEF ITypes, TypeOK, IntPowers
        <3>4. Saved \/ GenesisRecords \subseteq known
            BY <1>2, <2>2 DEF IMemoryBacked
        <3>5. Backing(validators, known, spent)
            BY <1>2, <2>2, <3>4 DEF IMemoryBacked
        <3>6. Backing(after, known \cup Outputted(tx), spent \cup Inputs(tx))
            BY <2>1, <2>3, <2>6, <3>1, <3>2, <3>3, <3>5, PassesIsProved, BackingAfter
        <3> HIDE DEF tx, after
        <3>7. Backing(validators', known', spent')
            BY <2>3, <2>6, <3>1, <3>6
        <3>8. (Saved <=> Saved') /\ DurableSet' = DurableSet
            BY <2>1 DEF fileVars, Saved, DurableSet
        <3>9. known \subseteq known'
            BY <2>3, <2>6
        <3>10. IDiskBacked'
            BY <1>2, <2>1, <2>6, <3>8 DEF IDiskBacked
        <3>11. IMemoryBacked'
            BY <1>2, <2>1, <2>2, <2>6, <3>4, <3>7, <3>8, <3>9 DEF IMemoryBacked
        <3>12. QED
            BY <3>10, <3>11
    <2>7. QED
        BY <2>4, <2>5, <2>6
<1>9. CASE Commit /\ SendCommit
    <2>1. /\ UNCHANGED <<storeVars, validatorsFile, validators, connected>>
          /\ pc = "ended" /\ pc' = "commit" /\ storeCommit' = "queued"
        BY <1>9 DEF SendCommit, fileVars, Commit
    <2>2. QED
        BY <1>2, <2>1
        DEF IDiskBacked, IMemoryBacked, storeVars, known, spent, DurableSet, Saved
<1>10. CASE Commit /\ IncrementHeight
    <2>1. /\ UNCHANGED <<storeVars, storeCommit, validatorsFile, validators, connected>>
          /\ pc = "commit" /\ pc' = "counted"
        BY <1>10 DEF IncrementHeight, Commit
    <2>2. QED
        BY <1>3, <2>1
<1>11. CASE Commit /\ AddRewards
    <2>1. /\ UNCHANGED <<dbRecords, dbSpent, spentBuffer, storeCommit, validatorsFile,
                         validators, connected>>
          /\ pc = "counted"
        BY <1>11 DEF AddRewards, Commit, fileVars
    <2>2. ~RewardsPanic
        BY <1>2, <2>1 DEF RewardsPanic, IKnown, IFiles
    <2> DEFINE rewards == RewardRecords(fees, currentVotes, currentProposer, currentHeight,
                                        validators)
               new == rewards \ known
    <2>3. Staked(rewards) = {}
        BY DEF RewardRecords, MintRecord, Staked
    <2>4. /\ storeCommit = "none" /\ pc' = "rewarded"
          /\ recordBuffer' = recordBuffer \cup new
        BY <1>11, <2>2 DEF AddRewards
    <2>5. Staked(known \cup new) = Staked(known)
        BY <2>3 DEF Staked
    <2> HIDE DEF new
    <2>6. known' = known \cup new /\ spent' = spent
        BY <2>1, <2>4 DEF known, spent
    <2>7. connected /\ (Saved \/ GenesisRecords \subseteq known)
        BY <1>2, <2>1 DEF IFiles, IMemoryBacked
    <2>8. Backing(validators, known, spent)
        BY <1>2, <2>7 DEF IMemoryBacked
    <2>9. Backing(validators, known \cup new, spent)
        BY <2>5, <2>8, SameBacking
    <2>10. (Saved <=> Saved') /\ DurableSet' = DurableSet
        BY <2>1 DEF Saved, DurableSet
    <2>11. IDiskBacked'
        <3>1. Staked(known') \subseteq dbRecords'
            BY <1>2, <2>1, <2>4, <2>5, <2>6 DEF IDiskBacked
        <3>2. spentBuffer' = {}
            BY <1>2, <2>1, <2>4 DEF IDiskBacked
        <3>3. QED
            BY <2>4, <3>1, <3>2 DEF IDiskBacked
    <2>12. IMemoryBacked'
        BY <2>1, <2>4, <2>6, <2>7, <2>9, <2>10 DEF IMemoryBacked
    <2>13. QED
        BY <2>11, <2>12
<1>12. CASE Commit /\ SaveValidators
    <2>1. /\ UNCHANGED <<storeVars, storeCommit, validators, connected>>
          /\ pc = "rewarded" /\ pc' = "ready" /\ validatorsFile' = validators
        BY <1>12 DEF SaveValidators, Commit
    <2>2. connected /\ storeCommit = "none" /\ (Saved \/ GenesisRecords \subseteq known)
        BY <1>2, <2>1 DEF IFiles, IFreshStores, IMemoryBacked
    <2>3. Saved' /\ DurableSet' = validators
        <3>1. Durable \subseteq DOMAIN validators
            BY <1>2, <2>1, <2>2 DEF IKnown
        <3>2. Durable # {}
            BY GenesisAssumption DEF Durable, Saved
        <3>3. Saved'
            BY <2>1, <3>1, <3>2 DEF Saved
        <3>4. QED
            BY <2>1, <3>3 DEF DurableSet
    <2>4. known' = known /\ spent' = spent /\ spent = dbSpent
        BY <1>2, <2>1, <2>2 DEF storeVars, known, spent, IDiskBacked
    <2>5. Backing(validators, known, spent)
        BY <1>2, <2>2 DEF IMemoryBacked
    <2>6. Staked(dbRecords) = Staked(known)
        <3>1. Staked(known) \subseteq dbRecords
            BY <1>2, <2>1, <2>2 DEF IDiskBacked
        <3>2. QED
            BY <3>1 DEF Staked, known
    <2>7. Backing(validators, dbRecords, dbSpent)
        BY <2>4, <2>5, <2>6, SameBacking
    <2>8. IDiskBacked'
        BY <2>1, <2>3, <2>7 DEF IDiskBacked, storeVars
    <2>9. IMemoryBacked'
        BY <2>1, <2>3, <2>4, <2>5 DEF IMemoryBacked
    <2>10. QED
        BY <2>8, <2>9
<1>13. CASE StoreWorker
    <2>1. /\ UNCHANGED <<recordBuffer, validatorsFile, validators, pc, connected>>
          /\ pc \in {"commit", "counted"}
        BY <1>2, <1>13
        DEF StoreWorker, StoreCommitRecords, StoreCommitSpent, fileVars, IFreshStores
    <2>2. (Saved <=> Saved') /\ DurableSet' = DurableSet
        BY <2>1 DEF Saved, DurableSet
    <2>3. CASE StoreCommitRecords
        <3>1. /\ dbRecords' = known /\ storeCommit' = "spent"
              /\ UNCHANGED <<dbSpent, spentBuffer>>
            BY <2>3 DEF StoreCommitRecords, known
        <3>2. known' = known /\ spent' = spent
            BY <2>1, <3>1 DEF known, spent
        <3>3. Staked(known) \subseteq known
            BY DEF Staked
        <3>4. IDiskBacked'
            BY <2>1, <3>1, <3>2, <3>3 DEF IDiskBacked
        <3>5. IMemoryBacked'
            BY <1>2, <2>1, <2>2, <3>2 DEF IMemoryBacked
        <3>6. QED
            BY <3>4, <3>5
    <2>4. CASE StoreCommitSpent
        <3>1. /\ storeCommit = "spent" /\ storeCommit' = "none"
              /\ dbSpent' = spent /\ spentBuffer' = {} /\ UNCHANGED dbRecords
            BY <2>4 DEF StoreCommitSpent, spent
        <3>2. known' = known /\ spent' = spent
            BY <2>1, <3>1 DEF known, spent
        <3>3. IDiskBacked'
            BY <1>2, <2>1, <3>1, <3>2 DEF IDiskBacked
        <3>4. IMemoryBacked'
            BY <1>2, <2>1, <2>2, <3>2 DEF IMemoryBacked
        <3>5. QED
            BY <3>3, <3>4
    <2>5. QED
        BY <1>13, <2>3, <2>4 DEF StoreWorker
<1>14. CASE SaveState \/ Decide
    <2>1. /\ UNCHANGED <<storeVars, storeCommit, validatorsFile, validators, connected, pc>>
          /\ connected /\ pc = "ready"
        BY <1>14 DEF SaveState, Decide, Idle, appVars, fileVars
    <2>2. QED
        BY <1>3, <2>1
<1>15. CASE Fail /\ Crash
    <2>1. /\ recordBuffer' = {} /\ spentBuffer' = {} /\ pc' = "down" /\ ~InCommit
          /\ UNCHANGED <<dbRecords, dbSpent, validatorsFile>> /\ connected' = FALSE
        BY <1>15 DEF Fail, Crash
    <2>2. known' = dbRecords /\ spent' = dbSpent
        BY <2>1 DEF known, spent
    <2>3. (Saved <=> Saved') /\ DurableSet' = DurableSet
        BY <2>1 DEF Saved, DurableSet
    <2>4. IDiskBacked'
        BY <1>2, <2>1, <2>3 DEF IDiskBacked
    <2>5. IMemoryBacked'
        BY <1>2, <2>1, <2>2, <2>3 DEF IDiskBacked, IMemoryBacked
    <2>6. QED
        BY <2>4, <2>5
<1>16. CASE Fail /\ Reconnect
    <2>1. /\ UNCHANGED <<storeVars, storeCommit, validatorsFile, validators>>
          /\ pc \in {"ready", "block", "ended"} /\ pc' = "started" /\ connected' = FALSE
        BY <1>16, ReconnectAssumption DEF Fail, Reconnect, fileVars
    <2>2. QED
        BY <1>3, <2>1
<1>17. QED
    BY <1>4, <1>5, <1>6, <1>7, <1>8, <1>9, <1>10, <1>11, <1>12, <1>13, <1>14, <1>15, <1>16
    DEF Next, Progress, Commit, Fail, Stopped

\* The voting power that a validator gained since genesis is held by unspent staked credits,
\* as long as no commit was cut off, however often a block was executed again.
THEOREM PowerStakedUnlessCut ==
    ASSUME NoncesAreUnique, StakesAreBacked, GenesisIsUnstaked
    PROVE  Spec => []PowerIsStakedAfterReplay
<1>1. IBacked => PowerIsStakedAfterReplay
    <2> SUFFICES ASSUME IBacked, NoCommitCut, connected, NEW v \in DOMAIN validators
                 PROVE  validators[v].power = PowerOf(GenesisValidators, v) + Holdings(v)
        BY DEF PowerIsStakedAfterReplay, NoCommitCut, PowerIsStaked, PowerOf
    <2>1. Backing(validators, known, spent)
        BY DEF IBacked, IMemoryBacked, NoCommitCut
    <2>2. v # None /\ PowerOf(validators, v) = validators[v].power
        BY <2>1 DEF Backing, PowerOf
    <2>3. Holdings(v) = Held(known, v) - Held(spent, v)
        BY DEF Holdings, Held, StakedOn
    <2>4. QED
        BY <2>1, <2>2, <2>3 DEF Backing
<1>2. Init => IBacked
    BY InitBacked
<1>3. ITypes /\ IRewarded /\ IFresh /\ IBacked /\ [Next]_vars => IBacked'
    BY NextBacked
<1>4. ITypes /\ IRewarded /\ IFresh /\ [Next]_vars => IFresh'
    BY NextFresh
<1>5. QED
    BY <1>1, <1>2, <1>3, <1>4, InitTypes, NextTypes, InitRewarded, NextRewarded, InitFresh,
       PTL DEF Spec

\* Where no crash can cut a commit off, it always is.
THEOREM PowerStaked ==
    ASSUME NoncesAreUnique, StakesAreBacked, GenesisIsUnstaked, CommitsAreWhole
    PROVE  Spec => []PowerIsStaked
<1>1. NoCommitCut /\ PowerIsStakedAfterReplay => PowerIsStaked
    BY DEF PowerIsStakedAfterReplay, NoCommitCut
<1>2. Spec => []NoCommitCut
    BY NothingIsCut
<1>3. Spec => []PowerIsStakedAfterReplay
    BY PowerStakedUnlessCut
<1>4. QED
    BY <1>1, <1>2, <1>3, PTL

----------------------------------------------------------------------------
(* The rewards of a block.                                                   *)

\* The powers of finitely many validators, none without.
GoodPowers(powers) ==
    IsFiniteSet(DOMAIN powers) /\ \A v \in DOMAIN powers : powers[v] \in Nat \ {0}

\* The powers add up to something, if there is a validator.
LEMMA PowersAddUp ==
    ASSUME NEW powers, GoodPowers(powers), DOMAIN powers # {}
    PROVE  SumFunction(powers) \in Nat \ {0}
<1> DEFINE V == DOMAIN powers
<1>1. IsFiniteSet(V) /\ \A v \in V : powers[v] \in Nat \ {0} /\ powers[v] \in Int
    BY DEF GoodPowers
<1>2. PICK sum : AddsUp(sum, powers, V)
    BY <1>1, SumAnyOrder
<1> DEFINE P == {s \in SUBSET V : sum[s] \in Nat /\ (s # {} => sum[s] # 0)}
<1>3. {} \in P
    BY <1>2 DEF AddsUp
<1>4. ASSUME NEW T \in SUBSET V, NEW v \in V \ T, T \in P PROVE T \cup {v} \in P
    <2> DEFINE U == T \cup {v}
    <2>1. U \in SUBSET V /\ v \in U /\ U \ {v} = T
        OBVIOUS
    <2> HIDE DEF U
    <2>2. sum[U] = powers[v] + sum[T]
        BY <1>2, <2>1 DEF AddsUp
    <2>3. sum[T] \in Nat /\ powers[v] \in Nat \ {0}
        BY <1>1, <1>4
    <2>4. QED
        BY <2>1, <2>2, <2>3 DEF U
<1>5. SUBSET V \subseteq P
    <2> HIDE DEF P, V
    <2>1. QED
        BY <1>1, <1>3, <1>4, PartsInduction
<1>6. V # {} /\ V \in P
    BY <1>5
<1>7. SumFunction(powers) = sum[V]
    BY <1>2 DEF AddsUp
<1>8. QED
    BY <1>6, <1>7

\* A block pays its fees, all of them: the proposer gets what the voters' shares, rounded
\* and sometimes wrapped, leave over.
LEMMA RewardsAddUp ==
    ASSUME NEW collected \in Nat, NEW votes, GoodPowers(votes), NEW proposer
    PROVE  LET rewards == Rewards(collected, votes, proposer)
               D == DOMAIN votes \cup {proposer} IN
           /\ IsFiniteSet(D) /\ DOMAIN rewards = D /\ \A v \in D : rewards[v] \in Int
           /\ Total(rewards, D) = collected
<1> DEFINE V == DOMAIN votes
           D == V \cup {proposer}
           shares == [v \in V |-> VoterShare(collected, votes, v)]
           sum == SumFunction(shares)
           w == [v \in D |-> IF v \in V THEN shares[v] ELSE 0]
           rewards == [v \in D |-> (IF v \in V THEN shares[v] ELSE 0)
                                    + (IF v = proposer THEN collected - sum ELSE 0)]
           R == D \ {proposer}
<1>1. Rewards(collected, votes, proposer) = rewards
    BY DEF Rewards
<1>2. /\ IsFiniteSet(V) /\ IsFiniteSet(D) /\ IsFiniteSet(R) /\ IsFiniteSet({})
      /\ IsFiniteSet({proposer})
    BY FS_AddElement, FS_Subset, FS_Singleton, FS_EmptySet DEF GoodPowers
<1>3. ASSUME NEW v \in V PROVE shares[v] \in Int
    <2> DEFINE total == ((collected * (100 - ProposerPercentage)) % U64) \div 100
               all == SumFunction(votes)
    <2>1. all \in Nat \ {0}
        BY PowersAddUp
    <2>2. total \in Int
        <3>1. collected * (100 - ProposerPercentage) \in Int
            BY RewardAssumption
        <3>2. U64 \in Nat \ {0}
            BY RewardAssumption
        <3> DEFINE product == collected * (100 - ProposerPercentage)
        <3> HIDE DEF product
        <3>3. product % U64 \in Int
            BY <3>1, <3>2 DEF product
        <3>4. (product % U64) \div 100 \in Int
            BY <3>3
        <3>5. QED
            BY <3>4 DEF product
    <2>3. votes[v] \in Int
        BY DEF GoodPowers
    <2>4. shares[v] = ((votes[v] * total) % U64) \div all
        BY DEF VoterShare
    <2> HIDE DEF total, all, shares
    <2>5. votes[v] * total \in Int
        BY <2>2, <2>3
    <2> DEFINE part == votes[v] * total
    <2> HIDE DEF part
    <2>6. part % U64 \in Int
        BY <2>5, RewardAssumption DEF part
    <2>7. (part % U64) \div all \in Int
        BY <2>1, <2>6
    <2>8. QED
        BY <2>4, <2>7 DEF part
<1>4. sum = Total(shares, V)
    <2>1. [v \in V |-> shares[v]] = shares
        OBVIOUS
    <2>2. QED
        BY <2>1 DEF Total
<1> HIDE DEF shares
<1>5. sum \in Int
    BY <1>2, <1>3, <1>4, TotalSteps
<1> HIDE DEF sum
<1>6. \A v \in D : w[v] \in Int /\ rewards[v] \in Int
    BY <1>3, <1>5
<1>7. /\ \A v \in R : w[v] = rewards[v] /\ w[v] \in Int
      /\ rewards[proposer] = w[proposer] + (collected - sum)
      /\ proposer \in D
    <2>1. \A v \in R : w[v] = rewards[v] + 0 /\ rewards[v] + 0 = rewards[v]
        BY <1>3, <1>5
    <2>2. QED
        BY <1>6, <2>1
<1>8. /\ \A v \in V : w[v] = shares[v]
      /\ proposer \notin V => w[proposer] = 0 /\ R = V
      /\ proposer \in V => D = V
    OBVIOUS
<1>9. DOMAIN rewards = D
    OBVIOUS
<1> HIDE DEF w, rewards, D, R, V
<1>10. /\ Total(rewards, D) = rewards[proposer] + Total(rewards, D \ {proposer})
       /\ Total(rewards, D) \in Int
    BY <1>2, <1>6, <1>7, TotalSteps
<1>11. /\ Total(w, D) = w[proposer] + Total(w, D \ {proposer})
       /\ Total(w, D) \in Int
    BY <1>2, <1>6, <1>7, TotalSteps
<1>12. Total(w, R) = Total(rewards, R) /\ Total(w, R) \in Int
    BY <1>2, <1>7, TotalSame, TotalSteps
<1>13. Total(w, D) = sum
    <2>1. Total(w, V) = Total(shares, V)
        BY <1>8, TotalSame
    <2>2. CASE proposer \in V
        BY <1>4, <1>8, <2>1, <2>2
    <2>3. CASE proposer \notin V
        <3>1. Total(w, D) = w[proposer] + Total(w, R)
            BY <1>11 DEF R
        <3>2. w[proposer] = 0 /\ R = V
            BY <1>8, <2>3
        <3>3. Total(w, V) = sum
            BY <1>4, <2>1
        <3>4. QED
            BY <1>5, <3>1, <3>2, <3>3
    <2>4. QED
        BY <2>2, <2>3
<1>14. Total(rewards, D) = collected
    <2>1. w[proposer] \in Int
        BY <1>6, <1>7
    <2>2. /\ Total(rewards, D) = rewards[proposer] + Total(w, R)
          /\ Total(w, D) = w[proposer] + Total(w, R)
        BY <1>10, <1>11, <1>12 DEF R
    <2>3. Total(rewards, D) = (w[proposer] + (collected - sum)) + Total(w, R)
        BY <1>7, <2>2
    <2>4. sum = w[proposer] + Total(w, R)
        BY <1>13, <2>2
    <2>5. collected \in Int /\ sum \in Int /\ Total(w, R) \in Int
        BY <1>5, <1>12
    <2>6. QED
        BY ONLY <2>1, <2>3, <2>4, <2>5
<1>15. QED
    BY <1>1, <1>2, <1>6, <1>9, <1>14 DEF D, V

\* A set has finitely many images.
LEMMA FiniteImage ==
    ASSUME NEW S, IsFiniteSet(S), NEW g PROVE IsFiniteSet({g[x] : x \in S})
<1> DEFINE Im(U) == {g[x] : x \in U}
           P == {U \in SUBSET S : IsFiniteSet(Im(U))}
<1>1. {} \in P
    <2>1. Im({}) = {} /\ IsFiniteSet({})
        BY FS_EmptySet
    <2>2. QED
        BY <2>1
<1>2. ASSUME NEW U \in SUBSET S, NEW x \in S \ U, U \in P PROVE U \cup {x} \in P
    <2> DEFINE V == U \cup {x}
               T == {g[z] : z \in U}
               y == g[x]
    <2>1. IsFiniteSet(T) /\ V \in SUBSET S
        BY <1>2
    <2>2. {g[z] : z \in V} = T \cup {y}
        OBVIOUS
    <2>3. IsFiniteSet(T \cup {y})
        <3> HIDE DEF T, y
        <3>1. QED
            BY <2>1, FS_AddElement
    <2>4. QED
        BY <2>1, <2>2, <2>3
<1>3. SUBSET S \subseteq P
    <2> HIDE DEF P
    <2>1. QED
        BY <1>1, <1>2, PartsInduction
<1>4. QED
    BY <1>3

\* Whether the rewards of a block make as many records, and new ones.  Two validators of one
\* account that get the same amount make one record only: see EqualRewards.  A genesis
\* record has a nonce (1234 in genesis.rs) that is a height too.
RewardsAreNew ==
    pc = "counted" =>
        LET rewards == Rewards(fees, currentVotes, currentProposer)
            record == [v \in DOMAIN rewards |->
                        MintRecord(validators[v].account, rewards[v], currentHeight)]
        IN  /\ \A v, x \in DOMAIN rewards : record[v] = record[x] => v = x
            /\ \A v \in DOMAIN rewards : record[v] \notin GenesisRecords

\* Then the records are worth the fees.
LEMMA RewardsAreFees ==
    ASSUME RewardsAreNew, pc = "counted", fees \in Nat, GoodPowers(currentVotes)
    PROVE  LET rewarded == RewardRecords(fees, currentVotes, currentProposer, currentHeight,
                                         validators) IN
           /\ Countable(rewarded)
           /\ Gates(rewarded) = fees
           /\ rewarded \cap GenesisRecords = {}
<1> DEFINE rewards == Rewards(fees, currentVotes, currentProposer)
           D == DOMAIN currentVotes \cup {currentProposer}
           record == [v \in DOMAIN rewards |->
                        MintRecord(validators[v].account, rewards[v], currentHeight)]
           rewarded == {record[v] : v \in D}
           u == [r \in rewarded |-> r.gates]
<1>1. /\ IsFiniteSet(D) /\ DOMAIN rewards = D /\ \A v \in D : rewards[v] \in Int
      /\ Total(rewards, D) = fees
    BY RewardsAddUp
<1>2. /\ \A v, x \in D : record[v] = record[x] => v = x
      /\ \A v \in D : record[v] \notin GenesisRecords
    BY <1>1 DEF RewardsAreNew
<1>3. RewardRecords(fees, currentVotes, currentProposer, currentHeight, validators) =
        rewarded
    BY <1>1 DEF RewardRecords
<1>4. \A v \in D : record[v].gates = rewards[v]
    BY <1>1 DEF MintRecord
<1>5. \A v \in D : record[v] \in rewarded
    OBVIOUS
<1>6. \A v \in D : u[record[v]] = rewards[v]
    BY <1>4, <1>5
<1>7. \A r \in rewarded : r.gates \in Int
    BY <1>1, <1>4
<1>8. Gates(rewarded) = Total(u, rewarded)
    BY GatesAreTotal
<1> HIDE DEF rewards, record, u, D
<1>9. /\ IsFiniteSet({record[v] : v \in D})
      /\ Total(u, {record[v] : v \in D}) = Total(rewards, D)
    BY <1>1, <1>2, <1>6, TotalImage
<1>10. rewarded \cap GenesisRecords = {}
    BY <1>2
<1>11. QED
    BY <1>1, <1>3, <1>7, <1>8, <1>9, <1>10 DEF Countable

----------------------------------------------------------------------------
(* Who votes.                                                                *)

InBlock == pc \in {"block", "ended", "commit", "counted"}

\* Finitely many validators with power vote, and only such.
IVoters ==
    /\ IsFiniteSet(DOMAIN validators) /\ IsFiniteSet(DOMAIN validatorsFile)
    /\ GoodPowers(lastVals) /\ GoodPowers(curVals) /\ GoodPowers(nextVals)
    /\ height > 0 => GoodPowers(block.votes)
    /\ InBlock => GoodPowers(currentVotes)

IVotes == cut = {} => IVoters

LEMMA InitVotes == Init => IVotes
<1> SUFFICES ASSUME Init PROVE IVoters
    BY DEF IVotes
<1>1. DOMAIN <<>> = {} /\ IsFiniteSet({})
    BY FS_EmptySet
<1>2. GoodPowers(GenesisPowers)
    BY GenesisAssumption DEF GoodPowers, GenesisPowers
<1>3. GoodPowers(<<>>)
    BY <1>1 DEF GoodPowers
<1>4. QED
    BY <1>1, <1>2, <1>3 DEF Init, AppInit, IVoters, InBlock

\* The validators that a transaction updates are finitely many.
LEMMA FinitelyUpdated ==
    ASSUME ITypes, Deliver, IsFiniteSet(DOMAIN validators)
    PROVE  IsFiniteSet(DOMAIN validators')
<1> DEFINE tx == block.txs[Len(codes) + 1]
           updates == StakeUpdates(tx)
<1>1. tx \in Txs /\ \E doubt : DeliverTx(tx, doubt) \/ RefuseTx(tx, doubt)
    BY DeliveredIsTx
<1>2. IsList(updates)
    BY <1>1, TxsAssumption, TransactionLists
<1>3. CASE UNCHANGED validators
    BY <1>3
<1>4. CASE validators' = AfterUpdates(validators, updates)[Len(updates)]
    <2> HIDE DEF updates
    <2>1. DOMAIN validators' = DOMAIN validators \cup UpdatedBy(updates)
        BY <1>2, <1>4, UpdatedDomain
    <2>2. IsFiniteSet(UpdatedBy(updates))
        <3> DEFINE g == [n \in DOMAIN updates |-> updates[n].validator]
        <3>1. IsFiniteSet(DOMAIN updates)
            <4>1. Len(updates) \in Int /\ DOMAIN updates = 1..Len(updates)
                BY <1>2, ListDomain
            <4>2. QED
                BY <4>1, FS_Interval
        <3>2. UpdatedBy(updates) = {g[n] : n \in DOMAIN updates}
            BY DEF UpdatedBy
        <3> HIDE DEF g
        <3>3. IsFiniteSet({g[n] : n \in DOMAIN updates})
            BY <3>1, FiniteImage
        <3>4. QED
            BY <3>2, <3>3
    <2>3. QED
        BY <2>1, <2>2, FS_Union
<1> HIDE DEF tx
<1>5. QED
    BY <1>1, <1>3, <1>4 DEF DeliverTx, RefuseTx, appVars

LEMMA NextVotes ==
    ITypes /\ IRewarded /\ IHeights /\ IPowers /\ IVotes /\ [Next]_vars => IVotes'
<1> SUFFICES ASSUME ITypes, IRewarded, IHeights, IPowers, IVotes, [Next]_vars, cut' = {}
             PROVE  IVoters'
    BY DEF IVotes
<1>1. cut = {}
    BY CutGrows
<1>2. /\ IVoters /\ IPowersHold'
      /\ pc \in PCs /\ height \in Nat /\ heightFile \in Nat \cup {None}
    BY <1>1, NextPowers, BoundsAssumption DEF IPowers, IVotes, ITypes, TypeOK
<1> USE DEF InBlock, PCs
<1>3. ASSUME UNCHANGED <<validators, validatorsFile, lastVals, curVals, nextVals, block,
                         height, currentVotes>>,
             InBlock' => InBlock
      PROVE  IVoters'
    BY <1>2, <1>3 DEF IVoters
<1>4. CASE UNCHANGED vars
    BY <1>3, <1>4 DEF vars, appVars, fileVars, blockVars, tmVars
<1>5. CASE Launch
    <2>1. /\ UNCHANGED <<validatorsFile, tmVars, currentVotes>>
          /\ validators' \in {validators, validatorsFile}
          /\ pc' \in {"started", "ready", "panicked"}
        BY <1>5 DEF Launch, Start, Info, fileVars, blockVars
    <2>2. QED
        BY <1>2, <2>1 DEF IVoters, tmVars
<1>6. CASE Handshake
    <2>1. /\ UNCHANGED <<validatorsFile, tmVars, currentVotes>>
          /\ validators' \in {validators, GenesisValidators}
          /\ pc' \in {"ready", "panicked"}
        BY <1>6 DEF Handshake, InitChain, appVars, fileVars, blockVars
    <2>2. QED
        BY <1>2, <2>1, GenesisAssumption DEF IVoters, tmVars
<1>7. CASE Begin
    <2>1. /\ UNCHANGED <<validators, validatorsFile, tmVars>>
          /\ currentVotes' = block.votes /\ heightFile < height /\ pc = "ready"
        BY <1>7 DEF Begin, BeginBlock, fileVars
    <2>2. height > 0
        BY <1>2, <2>1 DEF ITypes, Awake
    <2>3. QED
        BY <1>2, <2>1, <2>2 DEF IVoters, tmVars
<1>8. CASE Deliver
    <2>1. /\ UNCHANGED <<validatorsFile, tmVars, currentVotes>>
          /\ pc = "block"
        BY <1>8, DeliveredIsTx
        DEF Deliver, DeliverTx, RefuseTx, appVars, fileVars, blockVars
    <2>2. IsFiniteSet(DOMAIN validators')
        BY <1>2, <1>8, FinitelyUpdated DEF IVoters
    <2>3. QED
        BY <1>2, <2>1, <2>2 DEF IVoters, tmVars
<1>9. CASE End
    <2>1. /\ UNCHANGED <<validators, validatorsFile, lastVals, curVals, nextVals, block,
                         height, currentVotes>>
          /\ pc = "block"
        BY <1>9 DEF End, EndBlock, fileVars, blockVars
    <2>2. QED
        BY <1>3, <2>1
<1>10. CASE Commit
    <2>1. /\ UNCHANGED <<validators, tmVars, currentVotes>>
          /\ validatorsFile' \in {validatorsFile, validators}
          /\ InBlock' => InBlock
        BY <1>10
        DEF Commit, SendCommit, IncrementHeight, AddRewards, SaveValidators, fileVars,
            blockVars
    <2>2. QED
        BY <1>2, <2>1 DEF IVoters, tmVars
<1>11. CASE StoreWorker
    <2>1. UNCHANGED <<validators, validatorsFile, tmVars, currentVotes, pc>>
        BY <1>11 DEF StoreWorker, StoreCommitRecords, StoreCommitSpent, fileVars, blockVars
    <2>2. QED
        BY <1>3, <2>1 DEF tmVars
<1>12. CASE SaveState
    <2>1. /\ UNCHANGED <<validators, validatorsFile, block, height, currentVotes, pc>>
          /\ \/ UNCHANGED <<lastVals, curVals, nextVals>>
             \/ lastVals' = curVals /\ curVals' = nextVals /\ tmHeight' = height
        BY <1>12 DEF SaveState, appVars, fileVars, blockVars
    <2>2. CASE UNCHANGED <<lastVals, curVals, nextVals>>
        BY <1>3, <2>1, <2>2
    <2>3. CASE lastVals' = curVals /\ curVals' = nextVals /\ tmHeight' = height
        <3>1. nextVals' = Positive(DurableSet')
            BY <1>2, <2>1, <2>3 DEF IPowersHold
        <3>2. DurableSet' = DurableSet
            BY <2>1 DEF DurableSet, Saved
        <3>3. /\ IsFiniteSet(DOMAIN DurableSet)
              /\ \A v \in DOMAIN DurableSet : DurableSet[v].power \in Nat
            BY <1>2, GenesisAssumption DEF IVoters, DurableSet, ITypes
        <3> DEFINE set == DurableSet
        <3> HIDE DEF set
        <3>4. GoodPowers(Positive(set))
            <4>1. IsFiniteSet(DOMAIN set) /\ \A v \in DOMAIN set : set[v].power \in Nat
                BY <3>3 DEF set
            <4>2. DOMAIN Positive(set) \subseteq DOMAIN set
                BY DEF Positive
            <4>3. IsFiniteSet(DOMAIN Positive(set))
                BY <4>1, <4>2, FS_Subset
            <4>4. QED
                BY <4>1, <4>3 DEF GoodPowers, Positive
        <3>5. GoodPowers(nextVals')
            BY <3>1, <3>2, <3>4 DEF set
        <3>6. QED
            BY <1>2, <2>1, <2>3, <3>5 DEF IVoters
    <2>4. QED
        BY <2>1, <2>2, <2>3
<1>13. CASE Decide
    <2>1. /\ UNCHANGED <<validators, validatorsFile, lastVals, curVals, nextVals,
                         currentVotes, pc>>
        BY <1>13 DEF Decide, appVars, fileVars, blockVars
    <2>2. PICK votes \in Commits : block'.votes = votes
        BY <1>13 DEF Decide
    <2>3. GoodPowers(votes)
        <3>1. CASE height = 0
            <4>1. votes = <<>> /\ DOMAIN <<>> = {}
                BY <2>2, <3>1 DEF Commits
            <4>2. QED
                BY <4>1, FS_EmptySet DEF GoodPowers
        <3>2. CASE height # 0
            <4>1. PICK signers \in SUBSET DOMAIN lastVals :
                        votes = [v \in signers |-> lastVals[v]]
                BY <2>2, <3>2 DEF Commits
            <4>2. IsFiniteSet(signers) /\ \A v \in signers : lastVals[v] \in Nat \ {0}
                BY <1>2, FS_Subset DEF IVoters, GoodPowers
            <4>3. QED
                BY <4>1, <4>2 DEF GoodPowers
        <3>3. QED
            BY <3>1, <3>2
    <2>4. QED
        BY <1>2, <2>1, <2>2, <2>3 DEF IVoters
<1>14. CASE Fail
    <2>1. /\ UNCHANGED <<validatorsFile, tmVars>> /\ pc' \in {"down", "started"}
          /\ validators' \in {validators, <<>>}
        BY <1>14 DEF Fail, Crash, Reconnect, fileVars
    <2>2. DOMAIN <<>> = {} /\ IsFiniteSet({})
        BY FS_EmptySet
    <2>3. QED
        BY <1>2, <2>1, <2>2 DEF IVoters, tmVars
<1>15. QED
    BY <1>4, <1>5, <1>6, <1>7, <1>8, <1>9, <1>10, <1>11, <1>12, <1>13, <1>14
    DEF Next, Progress, Stopped

----------------------------------------------------------------------------
(* No credit appears or vanishes.                                            *)

\* The process does not crash, which would lose the rewards of the last block (see
\* LostRewards), and Tendermint restarts between two blocks only.
NothingIsLost ==
    \/ MaxCrashes = 0
    \/ CrashPoints = {} /\ ReconnectPoints \subseteq {"ready"}

Uncut == cut = {}

LEMMA FailsBetweenBlocks ==
    ASSUME NothingIsLost, ITypes, Fail
    PROVE  Reconnect /\ pc = "ready" /\ cut' = cut
<1>1. (Crash \/ Reconnect) /\ crashes < MaxCrashes /\ crashes \in Nat
    BY CrashesAssumption DEF Fail, Crash, Reconnect, ITypes, TypeOK
<1>2. CrashPoints = {} /\ ReconnectPoints \subseteq {"ready"}
    BY <1>1 DEF NothingIsLost
<1>3. ~Crash
    BY <1>2 DEF Crash
<1>4. QED
    BY <1>1, <1>2, <1>3 DEF Reconnect

LEMMA NothingIsCutOff ==
    ASSUME NothingIsLost
    PROVE  Spec => []Uncut
<1>1. Init => Uncut
    BY DEF Init, AppInit, Uncut
<1>2. ITypes /\ Uncut /\ [Next]_vars => Uncut'
    <2> SUFFICES ASSUME ITypes, Uncut, [Next]_vars PROVE Uncut'
        OBVIOUS
    <2> USE DEF Uncut
    <2>1. CASE cut' = cut
        BY <2>1
    <2>2. CASE Fail
        BY <2>2, FailsBetweenBlocks
    <2>3. CASE Launch \/ Handshake \/ Begin \/ End \/ SaveState \/ Decide
        BY <2>1, <2>3
        DEF Launch, Start, Info, Handshake, InitChain, Begin, BeginBlock, End, EndBlock,
            SaveState, Decide, appVars, faultVars
    <2>4. CASE Deliver
        BY <2>1, <2>4 DEF Deliver, DeliverTx, RefuseTx, appVars, faultVars
    <2>5. CASE Commit \/ StoreWorker
        BY <2>1, <2>5
        DEF Commit, SendCommit, IncrementHeight, AddRewards, SaveValidators, StoreWorker,
            StoreCommitRecords, StoreCommitSpent, faultVars
    <2>6. CASE UNCHANGED vars
        BY <2>1, <2>6 DEF vars, appVars, faultVars
    <2>7. QED
        BY <2>2, <2>3, <2>4, <2>5, <2>6 DEF Next, Progress, Stopped
<1>3. QED
    BY <1>1, <1>2, InitTypes, NextTypes, PTL DEF Spec

\* What there is: unspent records, and the fees that wait for the block's rewards.
Worth == Gates(known) - Gates(spent) + (IF InBlock THEN fees ELSE 0)

\* What there should be: the genesis records and the baseline rewards.
Minted(h) == Gates(GenesisRecords) + BaselineReward * h

\* The nonces of the records made since genesis are none of a reward to come: those of
\* rewards are heights.
NoFutureRewards(records, h) ==
    \A r \in records \ GenesisRecords : r.seed \notin h..MaxHeight

ICountedHeight ==
    currentHeight = IF pc \in {"block", "ended", "commit"} THEN heightFile + 1
                    ELSE IF heightFile = None THEN 0 ELSE heightFile

IWorth ==
    /\ Countable(known) /\ Countable(spent)
    /\ NoFutureRewards(known, IF InBlock THEN currentHeight ELSE currentHeight + 1)
    /\ \/ ~connected /\ known = {} /\ spent = {} /\ currentHeight = 0
       \/ GenesisRecords \subseteq known /\ Worth = Minted(currentHeight)

ICredits == ICountedHeight /\ IWorth

LEMMA InitCredits == Init => ICredits
<1> SUFFICES ASSUME Init PROVE ICredits
    OBVIOUS
<1>1. /\ dbRecords = {} /\ dbSpent = {} /\ recordBuffer = {} /\ spentBuffer = {}
      /\ heightFile = None /\ pc = "down" /\ connected = FALSE /\ currentHeight = 0
    BY DEF Init, AppInit
<1>2. Countable({})
    BY FS_EmptySet DEF Countable
<1>3. known = {} /\ spent = {}
    BY <1>1 DEF known, spent
<1>4. QED
    BY <1>1, <1>2, <1>3
    DEF ICredits, ICountedHeight, IWorth, NoFutureRewards

\* A transaction that is delivered pays what its inputs are worth more than its outputs.
LEMMA WorthAfter ==
    ASSUME TxsBalance, NEW tx \in Txs, Proved(tx), NEW records, NEW serials,
           Countable(records), Countable(serials),
           AllStored(RecordSerialNumbers(tx), serials),
           AllStored(OutputRecords(tx), records)
    PROVE  /\ Countable(records \cup Outputted(tx)) /\ Countable(serials \cup Inputs(tx))
           /\ Gates(records) \in Int /\ Gates(serials) \in Int /\ Fees(tx) \in Int
           /\ Gates(records \cup Outputted(tx)) - Gates(serials \cup Inputs(tx)) + Fees(tx)
                = Gates(records) - Gates(serials)
<1>1. /\ IsInjective(RecordSerialNumbers(tx)) /\ IsInjective(OutputRecords(tx))
      /\ serials \cap Inputs(tx) = {} /\ records \cap Outputted(tx) = {}
    BY DEF AllStored, Inputs, Outputted
<1>2. /\ Countable(Inputs(tx)) /\ Countable(Outputted(tx))
      /\ Fees(tx) = Gates(Inputs(tx)) - Gates(Outputted(tx))
    BY <1>1, FeesOfTx
<1>3. /\ Countable(records \cup Outputted(tx)) /\ Gates(records) \in Int
      /\ Gates(records \cup Outputted(tx)) = Gates(records) + Gates(Outputted(tx))
    BY <1>1, <1>2, GatesOfUnion
<1>4. /\ Countable(serials \cup Inputs(tx)) /\ Gates(serials) \in Int
      /\ Gates(serials \cup Inputs(tx)) = Gates(serials) + Gates(Inputs(tx))
    BY <1>1, <1>2, GatesOfUnion
<1>5. Gates(Inputs(tx)) \in Int /\ Gates(Outputted(tx)) \in Int
    BY <1>2, GatesOfUnion
<1>6. QED
    BY <1>2, <1>3, <1>4, <1>5

LEMMA NextCredits ==
    ASSUME NoncesAreUnique, TxsUpdateOnce, TxsBalance, GenesisRecords # {}, NothingIsLost
    PROVE  ITypes /\ IRewarded /\ IHeights /\ IFresh /\ IVotes /\ Uncut /\ RewardsAreNew
                /\ ICredits /\ [Next]_vars => ICredits'
<1> SUFFICES ASSUME ITypes, IRewarded, IHeights, IFresh, IVotes, Uncut, RewardsAreNew,
                    ICredits, [Next]_vars
             PROVE  ICountedHeight' /\ IWorth'
    BY DEF ICredits
<1>1. cut = {} /\ "commit" \notin cut
    BY DEF Uncut
<1>2. /\ IFreshStores /\ IKnown /\ IFiles /\ IVoters /\ ICountedHeight /\ IWorth
      /\ pc \in PCs /\ currentHeight \in Nat /\ fees \in Nat
      /\ Awake => heightFile \in Nat
    BY <1>1 DEF IFresh, IRewarded, IVotes, ICredits, ITypes, TypeOK
<1> USE DEF PCs
<1>3. ASSUME known' = known, spent' = spent,
             UNCHANGED <<heightFile, fees, currentHeight, connected>>,
             InBlock' <=> InBlock, pc' = "counted" <=> pc = "counted"
      PROVE  ICountedHeight' /\ IWorth'
    BY <1>2, <1>3 DEF ICountedHeight, IWorth, InBlock, Worth
<1>4. CASE UNCHANGED vars
    BY <1>3, <1>4
    DEF vars, appVars, storeVars, fileVars, blockVars, known, spent, InBlock
<1>5. CASE Launch
    <2>1. /\ UNCHANGED <<storeVars, fees, currentHeight, connected>>
          /\ pc \in {"down", "started"} /\ pc' \in {"started", "ready", "panicked"}
          /\ heightFile' = (IF heightFile = None /\ pc' = "ready" THEN 0 ELSE heightFile)
        BY <1>5 DEF Launch, Start, Info, fileVars, blockVars
    <2>2. known' = known /\ spent' = spent /\ ~InBlock /\ ~InBlock'
        BY <2>1 DEF storeVars, known, spent, InBlock
    <2>3. ICountedHeight'
        BY <1>2, <2>1, CrashesAssumption DEF ICountedHeight
    <2>4. IWorth'
        BY <1>2, <2>1, <2>2 DEF IWorth, Worth
    <2>5. QED
        BY <2>3, <2>4
<1>6. CASE Handshake
    <2>1. /\ pc = "ready" /\ pc' \in {"ready", "panicked"} /\ connected' = TRUE
          /\ UNCHANGED <<dbRecords, dbSpent, spentBuffer, heightFile, fees, currentHeight>>
          /\ heightFile = 0 => InitChain
          /\ heightFile # 0 => UNCHANGED appVars
        BY <1>6 DEF Handshake, InitChain, appVars, storeVars, fileVars, blockVars
    <2>2. heightFile \in Nat /\ currentHeight = heightFile /\ ~InBlock /\ ~InBlock'
        BY <1>2, <2>1, CrashesAssumption DEF Awake, ICountedHeight, InBlock
    <2>3. ICountedHeight'
        BY <2>1, <2>2, CrashesAssumption DEF ICountedHeight
    <2>4. CASE known' = known /\ known # {}
        <3>1. spent' = spent
            BY <2>1 DEF spent
        <3>2. GenesisRecords \subseteq known /\ Worth' = Minted(currentHeight')
            BY <1>2, <2>1, <2>2, <2>4, <3>1 DEF IWorth, Worth
        <3>3. IWorth'
            BY <1>2, <2>1, <2>2, <2>4, <3>1, <3>2 DEF IWorth
        <3>4. QED
            BY <2>3, <3>3
    <2>5. CASE recordBuffer' = recordBuffer \cup GenesisRecords
                    /\ known \cap GenesisRecords = {} /\ heightFile = 0
        <3>1. known = {} /\ spent = {}
            BY <1>2, <2>5 DEF IWorth
        <3>2. known' = GenesisRecords /\ spent' = {}
            BY <2>1, <2>5, <3>1 DEF known, spent
        <3>3. Countable(GenesisRecords) /\ Countable({})
            BY GenesisRecordsAssumption, FS_EmptySet DEF Countable
        <3>4. Gates({}) = 0 /\ Gates(GenesisRecords) \in Int
            BY <3>3, GatesOfUnion
        <3>5. currentHeight' = 0
            BY <2>1, <2>2, <2>5
        <3>6. Worth' = Minted(currentHeight')
            <4>1. Worth' = Gates(GenesisRecords) - 0 + 0
                BY <2>2, <3>2, <3>4 DEF Worth
            <4>2. Minted(0) = Gates(GenesisRecords) + BaselineReward * 0
                BY DEF Minted
            <4>3. BaselineReward * 0 = 0
                BY RewardAssumption
            <4>4. QED
                BY <3>4, <3>5, <4>1, <4>2, <4>3
        <3>7. NoFutureRewards(known', 1)
            BY <3>2 DEF NoFutureRewards
        <3>8. IWorth'
            BY <2>1, <2>2, <3>2, <3>3, <3>5, <3>6, <3>7 DEF IWorth
        <3>9. QED
            BY <2>3, <3>8
    <2>6. CASE heightFile = 0
        <3>1. CASE known \cap GenesisRecords # {}
            <4>1. known' = known
                BY <2>1, <2>6, <3>1 DEF InitChain, known
            <4>2. QED
                BY <2>4, <3>1, <4>1
        <3>2. CASE known \cap GenesisRecords = {}
            BY <2>1, <2>5, <2>6, <3>2 DEF InitChain
        <3>3. QED
            BY <3>1, <3>2
    <2>7. CASE heightFile # 0
        <3>1. known' = known
            BY <2>1, <2>7 DEF appVars, storeVars, known
        <3>2. currentHeight # 0
            BY <2>2, <2>7
        <3>3. GenesisRecords # {} /\ GenesisRecords \subseteq known
            BY <1>2, <3>2 DEF IWorth
        <3>4. QED
            BY <2>4, <3>1, <3>3
    <2>8. QED
        BY <2>6, <2>7
<1>7. CASE Begin
    <2>1. /\ UNCHANGED <<storeVars, heightFile, connected>> /\ connected
          /\ pc = "ready" /\ pc' = "block" /\ heightFile < height
          /\ currentHeight' = height /\ fees' = BaselineReward
        BY <1>7 DEF Begin, BeginBlock, Idle, fileVars
    <2>2. known' = known /\ spent' = spent /\ ~InBlock /\ InBlock'
        BY <2>1 DEF storeVars, known, spent, InBlock
    <2>3. /\ heightFile \in Nat /\ currentHeight = heightFile
          /\ height = heightFile + 1 /\ height \in Nat
        BY <1>2, <2>1, CrashesAssumption
        DEF Awake, ICountedHeight, IHeights, ITypes, TypeOK
    <2>4. ICountedHeight'
        BY <2>1, <2>3 DEF ICountedHeight
    <2>5. /\ Countable(known) /\ Countable(spent) /\ GenesisRecords \subseteq known
          /\ NoFutureRewards(known, currentHeight + 1)
          /\ Gates(known) - Gates(spent) + 0 = Minted(currentHeight)
        BY <1>2, <2>1, <2>2 DEF IWorth, Worth
    <2>6. Gates(known) \in Int /\ Gates(spent) \in Int /\ Gates(GenesisRecords) \in Int
        BY <2>5, GenesisRecordsAssumption, GatesOfUnion DEF Countable
    <2>7. Worth' = Gates(known) - Gates(spent) + BaselineReward
        BY <2>1, <2>2 DEF Worth
    <2>8. Minted(currentHeight + 1) = Minted(currentHeight) + BaselineReward
        <3>1. BaselineReward * (currentHeight + 1) =
                BaselineReward * currentHeight + BaselineReward
            BY <1>2, RewardAssumption
        <3>2. BaselineReward * currentHeight \in Int /\ BaselineReward \in Int
            BY <1>2, RewardAssumption
        <3>3. QED
            BY <2>6, <3>1, <3>2 DEF Minted
    <2>9. Worth' = Minted(currentHeight + 1)
        BY <2>5, <2>6, <2>7, <2>8, RewardAssumption
    <2>10. currentHeight' = currentHeight + 1
        BY <2>1, <2>3
    <2>11. IWorth'
        BY <2>2, <2>5, <2>9, <2>10 DEF IWorth
    <2>12. QED
        BY <2>4, <2>11
<1>8. CASE Deliver
    <2> DEFINE tx == block.txs[Len(codes) + 1]
    <2>0. PICK doubt \in Doubt : DeliverTx(tx, doubt) \/ RefuseTx(tx, doubt)
        BY <1>8, DeliveredIsTx
    <2>1. /\ pc = "block" /\ pc' = "block" /\ tx \in Txs
          /\ UNCHANGED <<connected, heightFile, currentHeight>>
        BY <1>8, DeliveredIsTx, DeliverDoesNotPanic
        DEF Deliver, DeliverTx, RefuseTx, appVars, fileVars, blockVars
    <2>2. connected /\ InBlock /\ InBlock'
        BY <1>2, <2>1 DEF IFiles, InBlock
    <2>3. /\ Accepted(tx, doubt) <=> Passes(tx, spent, programs, validators, doubt)
          /\ Accepted(tx, doubt) =>
                spent' = spent \cup Inputs(tx) /\ known' = known \cup Outputted(tx)
          /\ ~Accepted(tx, doubt) => UNCHANGED appVars
        BY <1>2, <2>0, <2>1, DeliverStores DEF IFreshStores
    <2>4. CASE ~Accepted(tx, doubt)
        <3>1. known' = known /\ spent' = spent /\ fees' = fees
            BY <2>3, <2>4 DEF appVars, storeVars, blockVars, known, spent
        <3>2. QED
            BY <1>3, <2>1, <2>2, <3>1
    <2>5. CASE Accepted(tx, doubt)
        <3>1. fees' = fees + Fees(tx)
            BY <2>0, <2>1, <2>3, <2>5 DEF DeliverTx, RefuseTx
        <3>2. /\ Proved(tx) /\ Paying(tx)
              /\ AllStored(RecordSerialNumbers(tx), spent)
              /\ AllStored(OutputRecords(tx), known)
            BY <1>2, <2>1, <2>3, <2>5, PassesStores, PassesIsProved DEF IFreshStores
        <3>3. /\ Countable(known) /\ Countable(spent) /\ GenesisRecords \subseteq known
              /\ NoFutureRewards(known, currentHeight)
              /\ Gates(known) - Gates(spent) + fees = Minted(currentHeight)
            BY <1>2, <2>2 DEF IWorth, Worth
        <3>4. /\ Countable(known \cup Outputted(tx)) /\ Countable(spent \cup Inputs(tx))
              /\ Gates(known) \in Int /\ Gates(spent) \in Int /\ Fees(tx) \in Int
              /\ Gates(known \cup Outputted(tx)) - Gates(spent \cup Inputs(tx)) + Fees(tx)
                    = Gates(known) - Gates(spent)
            BY <2>1, <3>2, <3>3, WorthAfter
        <3>5. /\ Gates(known \cup Outputted(tx)) \in Int
              /\ Gates(spent \cup Inputs(tx)) \in Int
            BY <3>4, GatesOfUnion
        <3>6. NoFutureRewards(known \cup Outputted(tx), currentHeight)
            <4>1. \A r \in Outputted(tx) : r.seed \notin 0..MaxHeight
                BY <2>1, <3>2 DEF NoncesAreUnique
            <4>2. currentHeight..MaxHeight \subseteq 0..MaxHeight
                BY <1>2, BoundsAssumption
            <4>3. QED
                BY <3>3, <4>1, <4>2 DEF NoFutureRewards
        <3> HIDE DEF tx
        <3>7. Worth' = Minted(currentHeight)
            <4>1. Worth' = Gates(known \cup Outputted(tx)) - Gates(spent \cup Inputs(tx))
                                + (fees + Fees(tx))
                BY <2>2, <2>3, <2>5, <3>1 DEF Worth
            <4> DEFINE a == Gates(known \cup Outputted(tx))
                       b == Gates(spent \cup Inputs(tx))
                       c == Gates(known)
                       d == Gates(spent)
                       f == Fees(tx)
            <4>2. /\ a \in Int /\ b \in Int /\ c \in Int /\ d \in Int /\ f \in Int
                  /\ fees \in Int /\ a - b + f = c - d
                BY <1>2, <3>4, <3>5
            <4>3. a - b + (fees + f) = c - d + fees
                <5> HIDE DEF a, b, c, d, f
                <5>1. QED
                    BY ONLY <4>2
            <4>4. QED
                BY <3>3, <4>1, <4>3
        <3>8. IWorth'
            <4>1. Countable(known') /\ Countable(spent') /\ GenesisRecords \subseteq known'
                BY <2>3, <2>5, <3>3, <3>4
            <4>2. NoFutureRewards(known', currentHeight')
                BY <2>1, <2>3, <2>5, <3>6
            <4>3. Worth' = Minted(currentHeight')
                BY <2>1, <3>7
            <4>4. QED
                BY <2>2, <4>1, <4>2, <4>3 DEF IWorth
        <3>9. ICountedHeight'
            BY <1>2, <2>1 DEF ICountedHeight
        <3>10. QED
            BY <3>8, <3>9
    <2>6. QED
        BY <2>4, <2>5
<1>9. CASE End
    <2>1. /\ UNCHANGED <<storeVars, heightFile, fees, currentHeight, connected>>
          /\ pc = "block" /\ pc' = "ended"
        BY <1>9 DEF End, EndBlock, fileVars, blockVars
    <2>2. QED
        BY <1>3, <2>1 DEF storeVars, known, spent, InBlock
<1>10. CASE Commit /\ SendCommit
    <2>1. /\ UNCHANGED <<storeVars, heightFile, fees, currentHeight, connected>>
          /\ pc = "ended" /\ pc' = "commit"
        BY <1>10 DEF SendCommit, Commit, fileVars, blockVars
    <2>2. QED
        BY <1>3, <2>1 DEF storeVars, known, spent, InBlock
<1>11. CASE Commit /\ IncrementHeight
    <2>1. /\ UNCHANGED <<storeVars, fees, currentHeight, connected>>
          /\ pc = "commit" /\ pc' = "counted" /\ heightFile' = heightFile + 1
        BY <1>11 DEF IncrementHeight, Commit, blockVars
    <2>2. known' = known /\ spent' = spent /\ InBlock /\ InBlock'
        BY <2>1 DEF storeVars, known, spent, InBlock
    <2>3. ICountedHeight'
        <3>1. heightFile \in Nat /\ currentHeight = heightFile + 1
            BY <1>2, <2>1 DEF Awake, ICountedHeight
        <3>2. heightFile' # None
            BY <2>1, <3>1, CrashesAssumption
        <3>3. QED
            BY <2>1, <3>1, <3>2 DEF ICountedHeight
    <2>4. IWorth'
        BY <1>2, <2>1, <2>2 DEF IWorth, Worth
    <2>5. QED
        BY <2>3, <2>4
<1>12. CASE Commit /\ AddRewards
    <2>1. /\ UNCHANGED <<dbRecords, dbSpent, spentBuffer, heightFile, currentHeight,
                         connected>>
          /\ pc = "counted" /\ connected
        BY <1>2, <1>12 DEF AddRewards, Commit, fileVars, blockVars, IFiles
    <2>2. ~RewardsPanic
        BY <1>2, <2>1 DEF RewardsPanic, IKnown, IFiles
    <2> DEFINE rewards == RewardRecords(fees, currentVotes, currentProposer, currentHeight,
                                        validators)
    <2>3. pc' = "rewarded" /\ recordBuffer' = recordBuffer \cup (rewards \ known)
        BY <1>12, <2>2 DEF AddRewards
    <2>4. Countable(rewards) /\ Gates(rewards) = fees /\ rewards \cap GenesisRecords = {}
        BY <1>2, <2>1, RewardsAreFees DEF IVoters, InBlock
    <2>5. \A r \in rewards : r.seed = currentHeight
        BY RewardSeeds
    <2>6. InBlock /\ ~InBlock'
        BY <2>1, <2>3 DEF InBlock
    <2>7. /\ Countable(known) /\ Countable(spent) /\ GenesisRecords \subseteq known
          /\ NoFutureRewards(known, currentHeight)
          /\ Gates(known) - Gates(spent) + fees = Minted(currentHeight)
        BY <1>2, <2>1, <2>6 DEF IWorth, Worth
    <2> HIDE DEF rewards
    <2>8. known \cap rewards = {}
        <3>1. currentHeight \in currentHeight..MaxHeight
            BY <1>2, BoundsAssumption DEF IFreshStores
        <3>2. QED
            BY <2>4, <2>5, <2>7, <3>1 DEF NoFutureRewards
    <2>9. known' = known \cup rewards /\ spent' = spent
        BY <2>1, <2>3 DEF known, spent
    <2>10. /\ Countable(known \cup rewards)
           /\ Gates(known \cup rewards) = Gates(known) + Gates(rewards)
           /\ Gates(known) \in Int /\ Gates(spent) \in Int
        BY <2>4, <2>7, <2>8, GatesOfUnion
    <2>11. Worth' = Minted(currentHeight)
        <3>1. Worth' = Gates(known \cup rewards) - Gates(spent) + 0
            BY <2>6, <2>9 DEF Worth
        <3>2. QED
            BY <1>2, <2>4, <2>7, <2>10, <3>1
    <2>12. NoFutureRewards(known \cup rewards, currentHeight + 1)
        <3>1. /\ currentHeight \notin (currentHeight + 1)..MaxHeight
              /\ (currentHeight + 1)..MaxHeight \subseteq currentHeight..MaxHeight
            BY <1>2, BoundsAssumption
        <3>2. QED
            BY <2>5, <2>7, <3>1 DEF NoFutureRewards
    <2>13. IWorth'
        <3>1. Countable(known') /\ Countable(spent') /\ GenesisRecords \subseteq known'
            BY <2>7, <2>9, <2>10
        <3>2. NoFutureRewards(known', currentHeight' + 1)
            BY <2>1, <2>9, <2>12
        <3>3. Worth' = Minted(currentHeight')
            BY <2>1, <2>11
        <3>4. QED
            BY <2>6, <3>1, <3>2, <3>3 DEF IWorth
    <2>14. ICountedHeight'
        BY <1>2, <2>1, <2>3 DEF ICountedHeight
    <2>15. QED
        BY <2>13, <2>14
<1>13. CASE Commit /\ SaveValidators
    <2>1. /\ UNCHANGED <<storeVars, heightFile, fees, currentHeight, connected>>
          /\ pc = "rewarded" /\ pc' = "ready"
        BY <1>13 DEF SaveValidators, Commit, blockVars
    <2>2. QED
        BY <1>3, <2>1 DEF storeVars, known, spent, InBlock
<1>14. CASE StoreWorker
    <2>1. UNCHANGED <<recordBuffer, heightFile, fees, currentHeight, connected, pc>>
        BY <1>14
        DEF StoreWorker, StoreCommitRecords, StoreCommitSpent, fileVars, blockVars
    <2>2. known' = known /\ spent' = spent
        BY <1>14, <2>1
        DEF StoreWorker, StoreCommitRecords, StoreCommitSpent, known, spent
    <2>3. QED
        BY <1>3, <2>1, <2>2 DEF InBlock
<1>15. CASE SaveState \/ Decide
    <2>1. UNCHANGED <<appVars, connected>>
        BY <1>15 DEF SaveState, Decide
    <2>2. QED
        BY <1>3, <2>1 DEF appVars, storeVars, fileVars, blockVars, known, spent, InBlock
<1>16. CASE Fail
    <2>1. Reconnect /\ pc = "ready" /\ connected' = FALSE
        BY <1>16, FailsBetweenBlocks DEF Fail
    <2>2. UNCHANGED <<storeVars, heightFile, fees, currentHeight>> /\ pc' = "started"
        BY <2>1 DEF Reconnect, fileVars, blockVars
    <2>3. known' = known /\ spent' = spent /\ ~InBlock /\ ~InBlock'
        BY <2>1, <2>2 DEF storeVars, known, spent, InBlock
    <2>4. ICountedHeight'
        BY <1>2, <2>1, <2>2 DEF ICountedHeight
    <2>5. IWorth'
        BY <1>2, <2>1, <2>2, <2>3 DEF IWorth, Worth
    <2>6. QED
        BY <2>4, <2>5
<1>17. QED
    BY <1>4, <1>5, <1>6, <1>7, <1>8, <1>9, <1>10, <1>11, <1>12, <1>13, <1>14, <1>15, <1>16
    DEF Next, Progress, Commit, Stopped

----------------------------------------------------------------------------
\* No credit appears but the genesis records and a baseline reward per block, and none
\* vanishes: what the unspent records are worth, with the fees that wait for the rewards of
\* the block, is what was issued, as long as nothing is spent that nobody made, and each
\* reward of a block is a new record.
THEOREM CreditsAreConserved ==
    ASSUME NoncesAreUnique, TxsUpdateOnce, TxsBalance, GenesisRecords # {}, NothingIsLost
    PROVE  Spec /\ []RewardsAreNew => []CreditsConserved
<1>1. ICredits => CreditsConserved
    <2> SUFFICES ASSUME ICredits, connected, spent \subseteq known
                 PROVE  Gates(known \ spent) + (IF InBlock THEN fees ELSE 0)
                            = Minted(currentHeight)
        BY DEF CreditsConserved, InBlock, Minted
    <2>1. Countable(known) /\ Countable(spent) /\ Worth = Minted(currentHeight)
        BY DEF ICredits, IWorth
    <2>2. Countable(known \ spent)
        BY <2>1, FS_Subset DEF Countable
    <2> DEFINE unspent == known \ spent
    <2>3. known = unspent \cup spent /\ unspent \cap spent = {}
        OBVIOUS
    <2> HIDE DEF unspent
    <2>4. /\ Gates(unspent \cup spent) = Gates(unspent) + Gates(spent)
          /\ Gates(unspent) \in Int /\ Gates(spent) \in Int
        BY <2>1, <2>2, <2>3, GatesOfUnion DEF unspent
    <2>5. Gates(known) - Gates(spent) = Gates(unspent)
        BY <2>3, <2>4
    <2>6. QED
        BY <2>1, <2>5 DEF Worth, unspent
<1>2. ITypes /\ IRewarded /\ IHeights /\ IFresh /\ IVotes /\ Uncut /\ RewardsAreNew
            /\ ICredits /\ [Next]_vars => ICredits'
    BY NextCredits
<1>3. ITypes /\ IRewarded /\ IFresh /\ [Next]_vars => IFresh'
    BY NextFresh
<1>4. Spec => []Uncut
    BY NothingIsCutOff
<1>5. Spec => []ITypes
    BY InitTypes, NextTypes, PTL DEF Spec
<1>6. Spec => []IRewarded
    BY <1>5, InitRewarded, NextRewarded, PTL DEF Spec
<1>7. Spec => []IHeights
    BY <1>5, InitHeights, NextHeights, PTL DEF Spec
<1>8. Spec => []IFresh
    BY <1>3, <1>5, <1>6, InitFresh, PTL DEF Spec
<1>9. Spec => []IPowers
    BY <1>5, <1>6, <1>7, InitPowers, NextPowers, PTL DEF Spec
<1>10. Spec => []IVotes
    BY <1>5, <1>6, <1>7, <1>9, InitVotes, NextVotes, PTL DEF Spec
<1>11. QED
    BY <1>1, <1>2, <1>4, <1>5, <1>6, <1>7, <1>8, <1>10, InitCredits, PTL DEF Spec
===============================================================================
