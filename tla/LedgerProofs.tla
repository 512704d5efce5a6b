----------------------------- MODULE LedgerProofs -----------------------------
(***************************************************************************)
(* Lemmas about the operators that the node, the ledger and the client are  *)
(* built from: lists of records and of staking updates, the validator set,  *)
(* the checks of a transaction and its effect.  Recursive functions are     *)
(* unfolded with the induction principle below, which speaks of sets of     *)
(* natural numbers.                                                         *)
(***************************************************************************)
EXTENDS Ledger, TLAPS, FiniteSetTheorems, WellFoundedInduction

\* A set of numbers that has 0 and every successor has all of them.  It is how the lemmas
\* below reach every transaction of a block and every transition of a transaction.
LEMMA Induction ==
    ASSUME NEW P, 0 \in P, \A n \in Nat : n \in P => n + 1 \in P
    PROVE  Nat \subseteq P
<1> DEFINE T == Nat \ P
<1>1. SUFFICES ASSUME T # {} PROVE FALSE
    OBVIOUS
<1>2. PICK n \in T : \A m \in T : <<m, n>> \notin OpToRel(<, Nat)
    <2>1. T \subseteq Nat
        OBVIOUS
    <2> HIDE DEF T
    <2>2. QED
        BY <1>1, <2>1, NatLessThanWellFounded, WFMin
<1>3. n \in Nat /\ n # 0 /\ n - 1 \in Nat /\ n - 1 < n
    OBVIOUS
<1>4. n - 1 \in T
    <2>1. n - 1 \notin P
        BY <1>3
    <2>2. QED
        BY <1>3, <2>1
<1>5. <<n - 1, n>> \in OpToRel(<, Nat)
    BY <1>3 DEF OpToRel
<1>6. QED
    BY <1>2, <1>4, <1>5

----------------------------------------------------------------------------
(* Lists.                                                                    *)

\* FlattenSeq, which collects the records and updates of the transitions, appends them
\* one by one.
LEMMA FlattenSteps ==
    ASSUME NEW S, NEW seqs \in Seq(Seq(S)), seqs # <<>>
    PROVE  \E flat :
            /\ FlattenSeq(seqs) = flat[Len(seqs)]
            /\ flat[1] = seqs[1]
            /\ \A i \in 1..Len(seqs) : i # 1 => flat[i] = flat[i - 1] \o seqs[i]
<1> DEFINE n == Len(seqs)
           Is(g, m) == g = [i \in 1..m |-> IF i = 1 THEN seqs[i] ELSE g[i - 1] \o seqs[i]]
           P == {m \in Nat : \E g : Is(g, m)}
<1>1. n \in Nat \ {0}
    OBVIOUS
<1>2. 0 \in P
    <2>1. Is(<<>>, 0)
        OBVIOUS
    <2>2. QED
        BY <2>1
<1>3. ASSUME NEW m \in Nat, m \in P PROVE m + 1 \in P
    <2>1. PICK g : Is(g, m)
        BY <1>3
    <2> DEFINE h == [i \in 1..(m + 1) |-> IF i <= m THEN g[i]
                        ELSE IF i = 1 THEN seqs[i] ELSE g[m] \o seqs[i]]
    <2>2. ASSUME NEW i \in 1..(m + 1)
          PROVE  h[i] = IF i = 1 THEN seqs[i] ELSE h[i - 1] \o seqs[i]
        <3>1. CASE i = 1
            <4>1. m = 0 \/ i \in 1..m
                BY <3>1
            <4>2. h[i] = seqs[i]
                BY <2>1, <3>1, <4>1
            <4>3. QED
                BY <3>1, <4>2
        <3>2. CASE i # 1 /\ i <= m
            <4>1. /\ i \in 1..m /\ i - 1 \in 1..m /\ i - 1 \in 1..(m + 1)
                  /\ h[i] = g[i] /\ h[i - 1] = g[i - 1]
                BY <3>2
            <4>2. g[i] = g[i - 1] \o seqs[i]
                BY <2>1, <3>2, <4>1
            <4>3. QED
                BY <3>2, <4>1, <4>2
        <3>3. CASE i # 1 /\ i = m + 1
            <4>1. m \in 1..m /\ m \in 1..(m + 1) /\ i - 1 = m /\ h[i - 1] = g[m]
                BY <3>3
            <4>2. h[i] = g[m] \o seqs[i]
                <5>1. i \in 1..(m + 1) /\ ~(i <= m) /\ i # 1
                    BY <3>3
                <5>2. QED
                    BY <5>1, Zenon
            <4>3. h[i - 1] = g[m]
                BY <4>1
            <4>4. QED
                BY <3>3, <4>2, <4>3, Zenon
        <3>4. QED
            BY <3>1, <3>2, <3>3
    <2>3. h = [i \in 1..(m + 1) |-> IF i = 1 THEN seqs[i] ELSE h[i - 1] \o seqs[i]]
        BY <2>2, Zenon
    <2> HIDE DEF h
    <2>4. \E f : Is(f, m + 1)
        BY <2>3, Zenon
    <2>5. m + 1 \in Nat
        OBVIOUS
    <2>6. QED
        BY <2>4, <2>5, Zenon
<1>4. \E g : Is(g, n)
    <2>1. Nat \subseteq P
        <3> HIDE DEF P
        <3>1. QED
            BY <1>2, <1>3, Induction
    <2>2. QED
        BY <1>1, <2>1
<1> DEFINE flat == CHOOSE g : Is(g, n)
<1>5. Is(flat, n)
    <2> DEFINE Q(g) == Is(g, n)
    <2>1. \E g : Q(g)
        BY <1>4
    <2> HIDE DEF Q
    <2>2. Q(CHOOSE g : Q(g))
        BY <2>1
    <2>3. QED
        BY <2>2 DEF Q
<1>6. FlattenSeq(seqs) = flat[n]
    <2>1. Len(seqs) # 0
        BY <1>1
    <2>2. QED
        BY <2>1, Zenon DEF FlattenSeq
<1> HIDE DEF flat
<1>7. \A i \in 1..n : flat[i] = IF i = 1 THEN seqs[i] ELSE flat[i - 1] \o seqs[i]
    <2> HIDE DEF n
    <2>1. QED
        BY <1>5, Zenon
<1>8. 1 \in 1..n
    BY <1>1
<1>9. QED
    BY <1>6, <1>7, <1>8

\* A concatenation has the elements of both parts.
LEMMA ConcatElements ==
    ASSUME NEW S, NEW s \in Seq(S), NEW t \in Seq(S)
    PROVE  ToSet(s \o t) = ToSet(s) \cup ToSet(t)
<1>1. /\ s \o t \in Seq(S) /\ Len(s \o t) = Len(s) + Len(t)
      /\ Len(s) \in Nat /\ Len(t) \in Nat
      /\ DOMAIN s = 1..Len(s) /\ DOMAIN t = 1..Len(t)
      /\ DOMAIN (s \o t) = 1..(Len(s) + Len(t))
      /\ \A i \in 1..Len(s) : (s \o t)[i] = s[i]
      /\ \A i \in 1..Len(t) : (s \o t)[Len(s) + i] = t[i]
    OBVIOUS
<1>2. ToSet(s) \cup ToSet(t) \subseteq ToSet(s \o t)
    <2>1. \A i \in 1..Len(t) : Len(s) + i \in 1..(Len(s) + Len(t))
        BY <1>1
    <2>2. \A i \in 1..Len(s) : i \in 1..(Len(s) + Len(t))
        BY <1>1
    <2>3. QED
        BY <1>1, <2>1, <2>2 DEF ToSet
<1>3. ASSUME NEW i \in 1..(Len(s) + Len(t)) PROVE (s \o t)[i] \in ToSet(s) \cup ToSet(t)
    <2>1. CASE i <= Len(s)
        BY <1>1, <2>1 DEF ToSet
    <2>2. CASE i > Len(s)
        <3>1. i - Len(s) \in 1..Len(t) /\ Len(s) + (i - Len(s)) = i
            BY <1>1, <2>2
        <3>2. (s \o t)[i] = t[i - Len(s)]
            BY <1>1, <3>1
        <3>3. QED
            BY <1>1, <3>1, <3>2 DEF ToSet
    <2>3. QED
        BY <1>1, <2>1, <2>2
<1>4. QED
    BY <1>1, <1>2, <1>3 DEF ToSet

\* The records of a transaction are those of its transitions, as a list.
LEMMA Flattened ==
    ASSUME NEW S, NEW seqs \in Seq(Seq(S))
    PROVE  /\ FlattenSeq(seqs) \in Seq(S)
           /\ ToSet(FlattenSeq(seqs)) = UNION {ToSet(seqs[i]) : i \in DOMAIN seqs}
<1>1. CASE seqs = <<>>
    <2>1. FlattenSeq(seqs) = seqs
        BY <1>1 DEF FlattenSeq
    <2>2. DOMAIN seqs = {}
        BY <1>1
    <2>3. <<>> \in Seq(S) /\ DOMAIN <<>> = {}
        OBVIOUS
    <2>4. ToSet(seqs) = {}
        BY <2>2 DEF ToSet
    <2>5. QED
        BY <1>1, <2>1, <2>2, <2>3, <2>4
<1>2. CASE seqs # <<>>
    <2> DEFINE n == Len(seqs)
               All(m) == UNION {ToSet(seqs[i]) : i \in 1..m}
    <2>1. PICK flat : /\ FlattenSeq(seqs) = flat[n]
                      /\ flat[1] = seqs[1]
                      /\ \A i \in 1..n : i # 1 => flat[i] = flat[i - 1] \o seqs[i]
        BY <1>2, FlattenSteps
    <2>2. n \in Nat /\ n # 0 /\ DOMAIN seqs = 1..n /\ \A i \in 1..n : seqs[i] \in Seq(S)
        BY <1>2
    <2> DEFINE P == {m \in Nat : m \in 1..n =>
                        flat[m] \in Seq(S) /\ ToSet(flat[m]) = All(m)}
    <2> HIDE DEF n
    <2>3. 0 \in P
        OBVIOUS
    <2>4. ASSUME NEW m \in Nat, m \in P PROVE m + 1 \in P
        <3> SUFFICES ASSUME m + 1 \in 1..n
                     PROVE  flat[m + 1] \in Seq(S) /\ ToSet(flat[m + 1]) = All(m + 1)
            OBVIOUS
        <3>1. CASE m = 0
            <4>1. All(1) = ToSet(seqs[1])
                <5>1. 1..1 = {1}
                    OBVIOUS
                <5>2. QED
                    BY <5>1
            <4>2. QED
                BY <2>1, <2>2, <3>1, <4>1
        <3>2. CASE m # 0
            <4>1. m \in 1..n /\ m + 1 # 1 /\ (m + 1) - 1 = m
                BY <2>2, <3>2
            <4>2. flat[m] \in Seq(S) /\ ToSet(flat[m]) = All(m)
                BY <2>4, <4>1
            <4>3. flat[m + 1] = flat[m] \o seqs[m + 1]
                <5>1. flat[m + 1] = flat[(m + 1) - 1] \o seqs[m + 1]
                    BY <2>1, <4>1
                <5>2. QED
                    BY <4>1, <5>1
            <4>4. seqs[m + 1] \in Seq(S)
                BY <2>2
            <4>5. ToSet(flat[m + 1]) = ToSet(flat[m]) \cup ToSet(seqs[m + 1])
                BY <4>2, <4>3, <4>4, ConcatElements
            <4>6. All(m + 1) = All(m) \cup ToSet(seqs[m + 1])
                <5>1. 1..(m + 1) = 1..m \cup {m + 1}
                    OBVIOUS
                <5>2. QED
                    BY <5>1
            <4>7. QED
                BY <4>2, <4>3, <4>4, <4>5, <4>6
        <3>3. QED
            BY <3>1, <3>2
    <2>5. n \in P
        <3>1. Nat \subseteq P
            <4> HIDE DEF P
            <4>1. QED
                BY <2>3, <2>4, Induction
        <3>2. QED
            BY <2>2, <3>1
    <2>6. QED
        BY <2>1, <2>2, <2>5
<1>3. QED
    BY <1>1, <1>2

\* The same of lists with elements of their own.
LEMMA FlattenedLists ==
    ASSUME NEW seqs, NEW n \in Nat, seqs = [i \in 1..n |-> seqs[i]],
           \A i \in 1..n : IsList(seqs[i])
    PROVE  /\ IsList(FlattenSeq(seqs))
           /\ ToSet(FlattenSeq(seqs)) = UNION {ToSet(seqs[i]) : i \in 1..n}
<1> DEFINE S == UNION {ToSet(seqs[i]) : i \in 1..n}
<1>1. ASSUME NEW i \in 1..n PROVE seqs[i] \in Seq(S)
    <2>1. ToSet(seqs[i]) \subseteq S
        OBVIOUS
    <2>2. seqs[i] \in Seq(ToSet(seqs[i]))
        BY DEF IsList
    <2> DEFINE T == ToSet(seqs[i])
    <2> HIDE DEF S, T
    <2>3. QED
        BY <2>1, <2>2 DEF T
<1>2. seqs \in Seq(Seq(S))
    <2> DEFINE R == Seq(S)
    <2>1. \A i \in 1..n : seqs[i] \in R
        BY <1>1
    <2> HIDE DEF R
    <2>2. QED
        BY <2>1 DEF R
<1>3. DOMAIN seqs = 1..n
    OBVIOUS
<1>4. FlattenSeq(seqs) \in Seq(S) /\ ToSet(FlattenSeq(seqs)) = S
    BY <1>2, <1>3, Flattened
<1>5. QED
    BY <1>4 DEF IsList

\* Two parts of a list without repetitions have none, and no common element.
LEMMA ConcatInjective ==
    ASSUME NEW S, NEW s \in Seq(S), NEW t \in Seq(S), IsInjective(s \o t)
    PROVE  IsInjective(s) /\ IsInjective(t) /\ ToSet(s) \cap ToSet(t) = {}
<1> DEFINE c == s \o t
<1>1. /\ Len(s) \in Nat /\ Len(t) \in Nat
      /\ DOMAIN s = 1..Len(s) /\ DOMAIN t = 1..Len(t)
      /\ DOMAIN c = 1..(Len(s) + Len(t))
      /\ \A i \in 1..Len(s) : c[i] = s[i]
      /\ \A i \in 1..Len(t) : c[Len(s) + i] = t[i]
    OBVIOUS
<1>2. \A i, j \in DOMAIN c : c[i] = c[j] => i = j
    BY DEF IsInjective
<1> HIDE DEF c
<1>3. \A i \in 1..Len(s) : i \in DOMAIN c
    BY <1>1
<1>4. \A i \in 1..Len(t) : Len(s) + i \in DOMAIN c
    BY <1>1
<1>5. IsInjective(s)
    BY <1>1, <1>2, <1>3 DEF IsInjective
<1>6. IsInjective(t)
    <2> SUFFICES ASSUME NEW i \in 1..Len(t), NEW j \in 1..Len(t), t[i] = t[j] PROVE i = j
        BY <1>1 DEF IsInjective
    <2>1. Len(s) + i = Len(s) + j
        BY <1>1, <1>2, <1>4
    <2>2. QED
        BY <1>1, <2>1
<1>7. ToSet(s) \cap ToSet(t) = {}
    <2> SUFFICES ASSUME NEW i \in 1..Len(s), NEW j \in 1..Len(t), s[i] = t[j] PROVE FALSE
        BY <1>1 DEF ToSet
    <2>1. i = Len(s) + j
        BY <1>1, <1>2, <1>3, <1>4
    <2>2. QED
        BY <1>1, <2>1
<1>8. QED
    BY <1>5, <1>6, <1>7

\* When no record of a transaction is repeated, two of its transitions have none in common.
LEMMA InjectiveParts ==
    ASSUME NEW seqs, NEW n \in Nat, seqs = [i \in 1..n |-> seqs[i]],
           \A i \in 1..n : IsList(seqs[i]), IsInjective(FlattenSeq(seqs))
    PROVE  /\ \A i \in 1..n : IsInjective(seqs[i])
           /\ \A i, j \in 1..n : i # j => ToSet(seqs[i]) \cap ToSet(seqs[j]) = {}
<1> DEFINE S == UNION {ToSet(seqs[i]) : i \in 1..n}
           Apart(m) == /\ \A i \in 1..m : IsInjective(seqs[i])
                       /\ \A i, j \in 1..m :
                            i # j => ToSet(seqs[i]) \cap ToSet(seqs[j]) = {}
<1>1. ASSUME NEW i \in 1..n PROVE seqs[i] \in Seq(S)
    <2>1. ToSet(seqs[i]) \subseteq S
        OBVIOUS
    <2>2. seqs[i] \in Seq(ToSet(seqs[i]))
        BY DEF IsList
    <2> DEFINE T == ToSet(seqs[i])
    <2> HIDE DEF S, T
    <2>3. QED
        BY <2>1, <2>2 DEF T
<1>2. seqs \in Seq(Seq(S)) /\ Len(seqs) = n
    <2> DEFINE R == Seq(S)
    <2>1. \A i \in 1..n : seqs[i] \in R
        BY <1>1
    <2> HIDE DEF R
    <2>2. QED
        BY <2>1 DEF R
<1>3. CASE n = 0
    BY <1>3
<1>4. CASE n # 0
    <2>1. seqs # <<>>
        BY <1>2, <1>4
    <2> HIDE DEF S
    <2>1b. PICK flat : /\ FlattenSeq(seqs) = flat[Len(seqs)]
                      /\ flat[1] = seqs[1]
                      /\ \A i \in 1..Len(seqs) :
                            i # 1 => flat[i] = flat[i - 1] \o seqs[i]
        BY <1>2, <2>1, FlattenSteps
    <2>2. /\ FlattenSeq(seqs) = flat[n]
          /\ flat[1] = seqs[1]
          /\ \A i \in 1..n : i # 1 => flat[i] = flat[i - 1] \o seqs[i]
        BY <1>2, <2>1b
    <2> DEFINE Keeps(m) == /\ flat[m] \in Seq(S)
                           /\ ToSet(flat[m]) = UNION {ToSet(seqs[i]) : i \in 1..m}
                           /\ IsInjective(flat[m]) => Apart(m)
               P == {m \in Nat : m \in 1..n => Keeps(m)}
    <2>3. 0 \in P
        OBVIOUS
    <2>4. ASSUME NEW m \in Nat, m \in P PROVE m + 1 \in P
        <3>0. m \in 1..n => Keeps(m)
            BY <2>4
        <3> HIDE DEF Keeps
        <3> SUFFICES ASSUME m + 1 \in 1..n PROVE Keeps(m + 1)
            OBVIOUS
        <3> USE DEF Keeps
        <3>1. CASE m = 0
            <4>1. 1..(m + 1) = {1} /\ flat[m + 1] = seqs[1] /\ 1 \in 1..n
                BY <1>4, <2>2, <3>1
            <4>2. UNION {ToSet(seqs[i]) : i \in {1}} = ToSet(seqs[1])
                OBVIOUS
            <4>3. seqs[1] \in Seq(S)
                BY <1>1, <4>1
            <4>4. IsInjective(seqs[1]) => Apart(m + 1)
                BY <4>1
            <4> HIDE DEF Apart, P
            <4>5. QED
                BY <4>1, <4>2, <4>3, <4>4
        <3>2. CASE m # 0
            <4> DEFINE U == UNION {ToSet(seqs[i]) : i \in 1..m}
            <4>1. m \in 1..n /\ m + 1 # 1 /\ (m + 1) - 1 = m
                BY <3>2
            <4>2. /\ flat[m] \in Seq(S) /\ ToSet(flat[m]) = U
                  /\ IsInjective(flat[m]) => Apart(m)
                BY <3>0, <4>1
            <4>3. flat[m + 1] = flat[m] \o seqs[m + 1]
                <5>1. flat[m + 1] = flat[(m + 1) - 1] \o seqs[m + 1]
                    BY <2>2, <4>1
                <5>2. QED
                    BY <4>1, <5>1
            <4>4. seqs[m + 1] \in Seq(S)
                BY <1>1
            <4>5. 1..(m + 1) = 1..m \cup {m + 1}
                OBVIOUS
            <4>6. UNION {ToSet(seqs[i]) : i \in 1..(m + 1)} = U \cup ToSet(seqs[m + 1])
                BY <4>5
            <4>7. ToSet(flat[m + 1]) = ToSet(flat[m]) \cup ToSet(seqs[m + 1])
                BY <4>2, <4>3, <4>4, ConcatElements
            <4>8. flat[m + 1] \in Seq(S)
                BY <4>2, <4>3, <4>4
            <4>9. ASSUME IsInjective(flat[m + 1]) PROVE Apart(m + 1)
                <5>1. /\ IsInjective(flat[m]) /\ IsInjective(seqs[m + 1])
                      /\ U \cap ToSet(seqs[m + 1]) = {}
                    BY <4>2, <4>3, <4>4, <4>9, ConcatInjective
                <5>2. Apart(m)
                    BY <4>2, <5>1
                <5>3. \A i \in 1..m : ToSet(seqs[i]) \cap ToSet(seqs[m + 1]) = {}
                    BY <5>1
                <5> HIDE DEF U, P
                <5>4. \A i \in 1..(m + 1) : IsInjective(seqs[i])
                    BY <4>5, <5>1, <5>2
                <5>5. ASSUME NEW i \in 1..(m + 1), NEW j \in 1..(m + 1), i # j
                      PROVE  ToSet(seqs[i]) \cap ToSet(seqs[j]) = {}
                    <6>1. CASE i \in 1..m /\ j \in 1..m
                        BY <5>2, <5>5, <6>1
                    <6>2. CASE i = m + 1 \/ j = m + 1
                        BY <4>5, <5>3, <5>5, <6>2
                    <6>3. QED
                        BY <4>5, <6>1, <6>2
                <5>6. QED
                    BY <5>4, <5>5
            <4> HIDE DEF Apart, P, U
            <4>10. QED
                BY <4>2, <4>6, <4>7, <4>8, <4>9 DEF U
        <3>3. QED
            BY <3>1, <3>2
    <2>5. Nat \subseteq P
        <3> HIDE DEF P
        <3>1. QED
            BY <2>3, <2>4, Induction
    <2>6. n \in 1..n /\ IsInjective(flat[n])
        BY <1>4, <2>2
    <2>7. Apart(n)
        <3> HIDE DEF Apart
        <3>1. QED
            BY <2>5, <2>6
    <2>8. QED
        BY <2>7
<1>5. QED
    BY <1>3, <1>4

\* A list is a sequence of its elements.
LEMMA ListDomain ==
    ASSUME NEW s, IsList(s)
    PROVE  Len(s) \in Nat /\ DOMAIN s = 1..Len(s) /\ s = [i \in 1..Len(s) |-> s[i]]
<1> DEFINE T == ToSet(s)
<1>1. s \in Seq(T)
    BY DEF IsList
<1> HIDE DEF T
<1>2. QED
    BY <1>1

\* The input records, the output records and the staking updates of a transaction, as
\* record_serial_numbers, output_records and stake_updates collect them, are lists.
LEMMA TransactionLists ==
    ASSUME NEW tx, IsTransaction(tx)
    PROVE  /\ IsList(RecordSerialNumbers(tx))
           /\ IsList(OutputRecords(tx))
           /\ IsList(StakeUpdates(tx))
           /\ \A update \in ToSet(StakeUpdates(tx)) : update.delta \in Int
<1> DEFINE n == Len(tx.transitions)
<1>1. n \in Nat /\ DOMAIN tx.transitions = 1..n
    BY ListDomain DEF IsTransaction
<1>2. \A i \in 1..n : IsList(tx.transitions[i].ins) /\ IsList(tx.transitions[i].outs)
    BY <1>1 DEF IsTransaction
<1>3. IsList(RecordSerialNumbers(tx))
    <2> DEFINE seqs == [i \in 1..n |-> tx.transitions[i].ins]
    <2>1. seqs = [i \in 1..n |-> seqs[i]] /\ \A i \in 1..n : IsList(seqs[i])
        BY <1>2
    <2>2. RecordSerialNumbers(tx) = FlattenSeq(seqs)
        BY <1>1 DEF RecordSerialNumbers
    <2> HIDE DEF n, seqs
    <2>3. QED
        BY <1>1, <2>1, <2>2, FlattenedLists
<1>4. IsList(OutputRecords(tx))
    <2> DEFINE seqs == [i \in 1..n |-> tx.transitions[i].outs]
    <2>1. seqs = [i \in 1..n |-> seqs[i]] /\ \A i \in 1..n : IsList(seqs[i])
        BY <1>2
    <2>2. OutputRecords(tx) = FlattenSeq(seqs)
        BY <1>1 DEF OutputRecords
    <2> HIDE DEF n, seqs
    <2>3. QED
        BY <1>1, <2>1, <2>2, FlattenedLists
<1>5. IsList(<<>>) /\ ToSet(<<>>) = {}
    <2>1. DOMAIN <<>> = {}
        OBVIOUS
    <2>2. ToSet(<<>>) = {}
        BY <2>1 DEF ToSet
    <2>3. \A T : <<>> \in Seq(T)
        OBVIOUS
    <2>4. QED
        BY <2>2, <2>3 DEF IsList
<1>6. ASSUME NEW x PROVE IsList(<<x>>) /\ ToSet(<<x>>) = {x}
    <2>1. DOMAIN <<x>> = {1} /\ <<x>>[1] = x
        OBVIOUS
    <2>2. ToSet(<<x>>) = {x}
        BY <2>1 DEF ToSet
    <2>3. <<x>> \in Seq({x})
        OBVIOUS
    <2>4. QED
        BY <2>2, <2>3 DEF IsList
<1>7. CASE tx.kind = "Deployment"
    BY <1>3, <1>4, <1>5, <1>7 DEF StakeUpdates
<1>8. CASE tx.kind # "Deployment"
    <2> DEFINE seqs == [i \in 1..n |-> StakeUpdate(tx.transitions[i])]
    <2>1. ASSUME NEW i \in 1..n
          PROVE  IsList(seqs[i]) /\ \A update \in ToSet(seqs[i]) : update.delta \in Int
        <3>1. CASE tx.transitions[i].stake = None
            BY <1>5, <3>1 DEF StakeUpdate
        <3>2. CASE tx.transitions[i].stake # None
            <4>1. seqs[i] = <<tx.transitions[i].stake>>
                BY <3>2 DEF StakeUpdate
            <4>2. tx.transitions[i].stake.delta \in Int
                BY <1>1, <3>2 DEF IsTransaction
            <4>3. IsList(seqs[i]) /\ ToSet(seqs[i]) = {tx.transitions[i].stake}
                BY <1>6, <4>1, Zenon
            <4> HIDE DEF seqs
            <4>4. QED
                BY <4>2, <4>3
        <3>3. QED
            BY <3>1, <3>2
    <2>2. seqs = [i \in 1..n |-> seqs[i]]
        OBVIOUS
    <2>3. StakeUpdates(tx) = FlattenSeq(seqs)
        BY <1>1, <1>8 DEF StakeUpdates
    <2> HIDE DEF n, seqs
    <2>4. /\ IsList(StakeUpdates(tx))
          /\ ToSet(StakeUpdates(tx)) = UNION {ToSet(seqs[i]) : i \in 1..n}
        BY <1>1, <2>1, <2>2, <2>3, FlattenedLists
    <2>5. QED
        BY <1>3, <1>4, <2>1, <2>4
<1>9. QED
    BY <1>3, <1>4, <1>7, <1>8

----------------------------------------------------------------------------
(* Spending and adding records.                                              *)

\* spend_input_records and add_output_records stop at the first record that is taken: when
\* none is, they store them all.
LEMMA AllAreStored ==
    ASSUME NEW records, NEW taken, IsList(records), AllStored(records, taken)
    PROVE  StoredBefore(records, taken) = ToSet(records)
<1> DEFINE n == Len(records)
<1>1. n \in Nat /\ DOMAIN records = 1..n
    BY ListDomain
<1>2. ASSUME NEW i \in 1..n, NEW m \in 1..i
      PROVE  records[m] \notin taken \cup {records[k] : k \in 1..(m - 1)}
    <2>1. m \in 1..n /\ \A k \in 1..(m - 1) : k \in 1..n /\ k # m
        BY <1>1
    <2>2. records[m] \in ToSet(records)
        BY <1>1, <2>1 DEF ToSet
    <2>3. \A k \in 1..(m - 1) : records[k] # records[m]
        BY <1>1, <2>1 DEF AllStored, IsInjective
    <2>4. QED
        BY <2>2, <2>3 DEF AllStored
<1>3. {k \in DOMAIN records : \A m \in 1..k :
            records[m] \notin taken \cup {records[j] : j \in 1..(m - 1)}} = DOMAIN records
    BY <1>1, <1>2
<1>4. QED
    BY <1>3 DEF StoredBefore, ToSet

\* They store nothing that the transaction does not name, or that is taken.
LEMMA StoredAreNew ==
    ASSUME NEW records, NEW taken, IsList(records)
    PROVE  StoredBefore(records, taken) \subseteq ToSet(records) \ taken
<1>1. Len(records) \in Nat /\ DOMAIN records = 1..Len(records)
    BY ListDomain
<1>2. \A i \in DOMAIN records : i \in 1..i
    BY <1>1
<1>3. QED
    BY <1>2 DEF StoredBefore, ToSet

----------------------------------------------------------------------------
(* Staking updates and the validator set.                                    *)

\* The updates are applied one after the other, each to what those before it left.
LEMMA UpdateSteps ==
    ASSUME NEW validators, NEW updates, Len(updates) \in Nat
    PROVE  LET after == AfterUpdates(validators, updates) IN
           /\ after[0] = validators
           /\ \A n \in 1..Len(updates) : after[n] = ApplyUpdate(after[n - 1], updates[n])
<1> DEFINE Step(g, n) == IF n = 0 THEN validators ELSE ApplyUpdate(g[n - 1], updates[n])
           Is(g, m) == g = [n \in 0..m |-> Step(g, n)]
           P == {m \in Nat : \E g : Is(g, m)}
           after == AfterUpdates(validators, updates)
<1>1. 0 \in P
    <2>1. Is([n \in 0..0 |-> validators], 0)
        OBVIOUS
    <2>2. QED
        BY <2>1
<1>2. ASSUME NEW m \in Nat, m \in P PROVE m + 1 \in P
    <2>1. PICK g : Is(g, m)
        BY <1>2
    <2> DEFINE h == [n \in 0..(m + 1) |-> IF n <= m THEN g[n]
                                          ELSE ApplyUpdate(g[m], updates[n])]
    <2>2. ASSUME NEW n \in 0..(m + 1) PROVE h[n] = Step(h, n)
        <3>1. CASE n = 0
            BY <2>1, <3>1
        <3>2. CASE n # 0 /\ n <= m
            <4>1. n \in 0..m /\ n - 1 \in 0..m /\ n - 1 \in 0..(m + 1)
                BY <3>2
            <4>2. h[n] = g[n] /\ h[n - 1] = g[n - 1]
                BY <4>1
            <4>3. g[n] = ApplyUpdate(g[n - 1], updates[n])
                BY <2>1, <3>2, <4>1
            <4>4. QED
                BY <3>2, <4>2, <4>3
        <3>3. CASE n = m + 1
            <4>1. h[m] = g[m] /\ h[n] = ApplyUpdate(g[m], updates[n])
                BY <3>3
            <4>2. n # 0 /\ n - 1 = m
                BY <3>3
            <4>3. QED
                BY <4>1, <4>2
        <3>4. QED
            BY <3>1, <3>2, <3>3
    <2>3. h = [n \in 0..(m + 1) |-> Step(h, n)]
        BY <2>2, Zenon
    <2> HIDE DEF h
    <2>4. QED
        BY <2>3
<1>3. \E g : Is(g, Len(updates))
    <2>1. Nat \subseteq P
        <3> HIDE DEF P
        <3>1. QED
            BY <1>1, <1>2, Induction
    <2>2. QED
        BY <2>1
<1>4. Is(after, Len(updates))
    <2> DEFINE Q(g) == Is(g, Len(updates))
    <2>1. \E g : Q(g)
        BY <1>3
    <2> HIDE DEF Q
    <2>2. Q(CHOOSE g : Q(g))
        BY <2>1
    <2>3. QED
        BY <2>2 DEF Q, AfterUpdates
<1> HIDE DEF after
<1>5. QED
    BY <1>4 DEF after

\* The set after the first n updates: the validators they name have been added, none has
\* gone, the others are as they were, and no power is negative as long as apply did not
\* panic.
LEMMA UpdatedValidators ==
    ASSUME NEW validators, NEW updates, IsList(updates)
    PROVE  LET after == AfterUpdates(validators, updates) IN
           \A n \in 0..Len(updates) :
              /\ DOMAIN after[n] =
                    DOMAIN validators \cup {updates[k].validator : k \in 1..n}
              /\ \A v \in DOMAIN validators :
                    v \notin {updates[k].validator : k \in 1..n} =>
                        after[n][v] = validators[v]
<1> DEFINE after == AfterUpdates(validators, updates)
           By(n) == {updates[k].validator : k \in 1..n}
           P == {n \in Nat : n \in 0..Len(updates) =>
                    /\ DOMAIN after[n] = DOMAIN validators \cup By(n)
                    /\ \A v \in DOMAIN validators :
                            v \notin By(n) => after[n][v] = validators[v]}
<1>1. Len(updates) \in Nat
    BY ListDomain
<1>2. /\ after[0] = validators
      /\ \A n \in 1..Len(updates) : after[n] = ApplyUpdate(after[n - 1], updates[n])
    BY <1>1, UpdateSteps
<1> HIDE DEF after
<1>3. 0 \in P
    <2>1. By(0) = {}
        OBVIOUS
    <2>2. QED
        BY <1>2, <2>1
<1>4. ASSUME NEW n \in Nat, n \in P PROVE n + 1 \in P
    <2> SUFFICES ASSUME n + 1 \in 0..Len(updates)
                 PROVE  /\ DOMAIN after[n + 1] = DOMAIN validators \cup By(n + 1)
                        /\ \A v \in DOMAIN validators : v \notin By(n + 1) =>
                                after[n + 1][v] = validators[v]
        OBVIOUS
    <2>1. /\ DOMAIN after[n] = DOMAIN validators \cup By(n)
          /\ \A v \in DOMAIN validators : v \notin By(n) => after[n][v] = validators[v]
        BY <1>1, <1>4
    <2>2. after[n + 1] = ApplyUpdate(after[n], updates[n + 1])
        BY <1>1, <1>2
    <2>3. By(n + 1) = By(n) \cup {updates[n + 1].validator}
        <3>1. 1..(n + 1) = 1..n \cup {n + 1}
            OBVIOUS
        <3>2. QED
            BY <3>1
    <2> HIDE DEF By
    <2>4. /\ DOMAIN after[n + 1] = DOMAIN after[n] \cup {updates[n + 1].validator}
          /\ \A v \in DOMAIN after[n] : v # updates[n + 1].validator =>
                after[n + 1][v] = after[n][v]
        BY <2>2 DEF ApplyUpdate
    <2>5. QED
        BY <2>1, <2>3, <2>4
<1>5. Nat \subseteq P
    <2> HIDE DEF P
    <2>1. QED
        BY <1>3, <1>4, Induction
<1>6. QED
    BY <1>1, <1>5 DEF after

\* What update_validators leaves: the validators it knew, and those of the updates.
LEMMA UpdatedDomain ==
    ASSUME NEW validators, NEW updates, IsList(updates)
    PROVE  LET after == AfterUpdates(validators, updates)[Len(updates)] IN
           /\ DOMAIN after = DOMAIN validators \cup UpdatedBy(updates)
           /\ \A v \in DOMAIN validators \ UpdatedBy(updates) : after[v] = validators[v]
<1>1. /\ Len(updates) \in Nat /\ DOMAIN updates = 1..Len(updates)
      /\ Len(updates) \in 0..Len(updates)
    BY ListDomain
<1>2. UpdatedBy(updates) = {updates[k].validator : k \in 1..Len(updates)}
    BY <1>1 DEF UpdatedBy
<1>3. QED
    BY <1>1, <1>2, UpdatedValidators

\* One more update at the end of a sequence is applied to what the others left.
LEMMA UpdatedOneMore ==
    ASSUME NEW set, NEW S, NEW updates \in Seq(S), NEW update \in S
    PROVE  LET more == updates \o <<update>> IN
           AfterUpdates(set, more)[Len(more)] =
                ApplyUpdate(AfterUpdates(set, updates)[Len(updates)], update)
<1> DEFINE more == updates \o <<update>>
           n == Len(updates)
           before == AfterUpdates(set, updates)
           after == AfterUpdates(set, more)
<1>1. /\ n \in Nat /\ Len(more) = n + 1 /\ \A i \in 1..n : more[i] = updates[i]
      /\ more[n + 1] = update
    OBVIOUS
<1>2. /\ before[0] = set
      /\ \A i \in 1..n : before[i] = ApplyUpdate(before[i - 1], updates[i])
    BY <1>1, UpdateSteps
<1>3. /\ after[0] = set
      /\ \A i \in 1..(n + 1) : after[i] = ApplyUpdate(after[i - 1], more[i])
    <2>1. Len(more) \in Nat
        BY <1>1
    <2> HIDE DEF more
    <2>2. /\ after[0] = set
          /\ \A i \in 1..Len(more) : after[i] = ApplyUpdate(after[i - 1], more[i])
        BY <2>1, UpdateSteps
    <2>3. QED
        BY <1>1, <2>2
<1> DEFINE P == {i \in Nat : i \in 0..n => after[i] = before[i]}
<1> HIDE DEF more, n, before, after
<1>4. 0 \in P
    BY <1>2, <1>3
<1>5. ASSUME NEW i \in Nat, i \in P PROVE i + 1 \in P
    <2> SUFFICES ASSUME i + 1 \in 0..n PROVE after[i + 1] = before[i + 1]
        OBVIOUS
    <2>1. i \in 0..n /\ i + 1 \in 1..n /\ i + 1 \in 1..(n + 1) /\ (i + 1) - 1 = i
        BY <1>1
    <2>2. after[i] = before[i]
        BY <1>5, <2>1
    <2>3. before[i + 1] = ApplyUpdate(before[(i + 1) - 1], updates[i + 1])
        BY <1>2, <2>1
    <2>4. after[i + 1] = ApplyUpdate(after[(i + 1) - 1], more[i + 1])
        BY <1>3, <2>1
    <2>5. more[i + 1] = updates[i + 1]
        BY <1>1, <2>1
    <2>6. QED
        BY <2>1, <2>2, <2>3, <2>4, <2>5
<1>6. Nat \subseteq P
    <2> HIDE DEF P
    <2>1. QED
        BY <1>4, <1>5, Induction
<1>7. after[n] = before[n]
    BY <1>1, <1>6
<1>8. after[n + 1] = ApplyUpdate(after[n], more[n + 1])
    <2>1. n + 1 \in 1..(n + 1) /\ (n + 1) - 1 = n
        BY <1>1
    <2>2. after[n + 1] = ApplyUpdate(after[(n + 1) - 1], more[n + 1])
        BY <1>3, <2>1
    <2>3. QED
        BY <2>1, <2>2
<1>9. after[Len(more)] = ApplyUpdate(before[n], update)
    BY <1>1, <1>7, <1>8
<1>10. QED
    BY <1>9 DEF after, before, n, more

\* Powers do not become negative: checked_sub and from_stake are why apply panics instead.
LEMMA UpdatedPowers ==
    ASSUME NEW validators, NEW updates, IsList(updates),
           \A update \in ToSet(updates) : update.delta \in Int,
           \A v \in DOMAIN validators : validators[v].power \in Nat,
           ~UpdatesPanic(validators, updates)
    PROVE  LET after == AfterUpdates(validators, updates)[Len(updates)] IN
           \A v \in DOMAIN after : after[v].power \in Nat
<1> DEFINE after == AfterUpdates(validators, updates)
           P == {n \in Nat : n \in 0..Len(updates) =>
                    \A v \in DOMAIN after[n] : after[n][v].power \in Nat}
<1>1. Len(updates) \in Nat /\ DOMAIN updates = 1..Len(updates)
    BY ListDomain
<1>2. /\ after[0] = validators
      /\ \A n \in 1..Len(updates) : after[n] = ApplyUpdate(after[n - 1], updates[n])
    BY <1>1, UpdateSteps
<1>3. \A n \in 1..Len(updates) : ValidUpdate(after[n - 1], updates[n])
    BY <1>1 DEF UpdatesPanic
<1>4. \A n \in 1..Len(updates) : updates[n].delta \in Int
    BY <1>1 DEF ToSet
<1> HIDE DEF after
<1>5. 0 \in P
    BY <1>2
<1>6. ASSUME NEW n \in Nat, n \in P PROVE n + 1 \in P
    <2> SUFFICES ASSUME n + 1 \in 0..Len(updates), NEW v \in DOMAIN after[n + 1]
                 PROVE  after[n + 1][v].power \in Nat
        OBVIOUS
    <2> DEFINE update == updates[n + 1]
    <2>1. /\ after[n + 1] = ApplyUpdate(after[n], update)
          /\ ValidUpdate(after[n], update)
          /\ update.delta \in Int
        BY <1>1, <1>2, <1>3, <1>4
    <2>2. \A x \in DOMAIN after[n] : after[n][x].power \in Nat
        BY <1>1, <1>6
    <2> HIDE DEF update
    <2>3. CASE v # update.validator
        BY <2>1, <2>2, <2>3 DEF ApplyUpdate
    <2>4. CASE v = update.validator /\ v \in DOMAIN after[n]
        <3>1. after[n + 1][v] = [after[n][v] EXCEPT !.power = @ + update.delta]
            BY <2>1, <2>4 DEF ApplyUpdate
        <3>2. after[n][v].power \in Nat /\ after[n][v].power + update.delta >= 0
            BY <2>1, <2>2, <2>4 DEF ValidUpdate
        <3>3. QED
            BY <2>1, <3>1, <3>2
    <2>5. CASE v = update.validator /\ v \notin DOMAIN after[n]
        <3>1. after[n + 1][v] = [account |-> update.account, power |-> update.delta]
            BY <2>1, <2>5 DEF ApplyUpdate
        <3>2. update.delta > 0
            BY <2>1, <2>5 DEF ValidUpdate
        <3>3. QED
            BY <2>1, <3>1, <3>2
    <2>6. QED
        BY <2>3, <2>4, <2>5
<1>7. Nat \subseteq P
    <2> HIDE DEF P
    <2>1. QED
        BY <1>5, <1>6, Induction
<1>8. QED
    BY <1>1, <1>7 DEF after

----------------------------------------------------------------------------
(* Sums.                                                                     *)

\* A sum over a finite set adds up one element after another, in some order.
LEMMA SumSteps ==
    ASSUME NEW f, IsFiniteSet(DOMAIN f)
    PROVE  \E sum : /\ SumFunction(f) = sum[DOMAIN f]
                    /\ sum[{}] = 0
                    /\ \A s \in SUBSET DOMAIN f : s # {} =>
                        \E x \in s : sum[s] = f[x] + sum[s \ {x}]
<1> DEFINE S == DOMAIN f
           Of(n) == {s \in SUBSET S : Cardinality(s) <= n}
           Pick(s) == CHOOSE x \in s : TRUE
           Step(g, s) == IF s = {} THEN 0 ELSE f[Pick(s)] + g[s \ {Pick(s)}]
           Is(g, D) == g = [s \in D |-> Step(g, s)]
           P == {n \in Nat : \E g : Is(g, Of(n))}
<1>1. \A s \in SUBSET S : IsFiniteSet(s) /\ Cardinality(s) \in Nat
    BY FS_Subset, FS_CardinalityType
<1>2. \A s \in SUBSET S : s # {} => Pick(s) \in s
    OBVIOUS
<1>3. ASSUME NEW s \in SUBSET S, s # {}
      PROVE  s \ {Pick(s)} \in SUBSET S /\ Cardinality(s \ {Pick(s)}) = Cardinality(s) - 1
    BY <1>1, <1>2, <1>3, FS_RemoveElement
<1>4. \A s \in SUBSET S : Cardinality(s) = 0 <=> s = {}
    BY <1>1, FS_EmptySet
<1> HIDE DEF Pick
<1>5. 0 \in P
    <2>1. Of(0) = {{}}
        <3>1. {} \in SUBSET S
            OBVIOUS
        <3>2. \A s \in SUBSET S : Cardinality(s) <= 0 <=> s = {}
            BY <1>1, <1>4
        <3>3. QED
            BY <3>1, <3>2
    <2>2. Is([s \in Of(0) |-> 0], Of(0))
        BY <2>1
    <2>3. QED
        BY <2>2
<1>6. ASSUME NEW n \in Nat, n \in P PROVE n + 1 \in P
    <2>1. PICK g : Is(g, Of(n))
        BY <1>6
    <2> DEFINE h == [s \in Of(n + 1) |-> Step(g, s)]
    <2>2. ASSUME NEW s \in Of(n + 1) PROVE h[s] = Step(h, s)
        <3>1. CASE s = {}
            BY <3>1
        <3>2. CASE s # {}
            <4> DEFINE t == s \ {Pick(s)}
            <4>1. t \in Of(n) /\ t \in Of(n + 1)
                BY <1>1, <1>3, <3>2
            <4>2. g[t] = Step(g, t)
                BY <2>1, <4>1, Zenon
            <4>3. h[t] = Step(g, t)
                BY <4>1, Zenon
            <4>4. h[s] = f[Pick(s)] + g[t]
                BY <3>2, Zenon
            <4>5. Step(h, s) = f[Pick(s)] + h[t]
                BY <3>2, Zenon
            <4> HIDE DEF t, h, Step
            <4>6. QED
                BY <4>2, <4>3, <4>4, <4>5
        <3>3. QED
            BY <3>1, <3>2
    <2>3. h = [s \in Of(n + 1) |-> Step(h, s)]
        <3> DEFINE D == Of(n + 1)
        <3> HIDE DEF D
        <3>1. h = [s \in D |-> h[s]]
            BY Zenon DEF D
        <3>2. \A s \in D : h[s] = Step(h, s)
            BY <2>2 DEF D
        <3> HIDE DEF h, Step
        <3>3. QED
            BY <3>1, <3>2, Zenon DEF D
    <2> HIDE DEF h
    <2>4. \E z : Is(z, Of(n + 1))
        BY <2>3, Zenon
    <2>5. n + 1 \in Nat
        OBVIOUS
    <2>6. QED
        BY <2>4, <2>5, Zenon
<1>7. \E g : Is(g, SUBSET S)
    <2>1. Nat \subseteq P
        <3> HIDE DEF P
        <3>1. QED
            BY <1>5, <1>6, Induction
    <2>2. Cardinality(S) \in P
        BY <1>1, <2>1
    <2>3. Of(Cardinality(S)) = SUBSET S
        <3>1. \A s \in SUBSET S : Cardinality(s) <= Cardinality(S)
            BY FS_Subset
        <3>2. QED
            BY <3>1
    <2>4. QED
        BY <2>2, <2>3
<1> DEFINE sum == CHOOSE g : Is(g, SUBSET S)
<1>8. Is(sum, SUBSET S)
    <2> DEFINE Q(g) == Is(g, SUBSET S)
    <2>1. \E g : Q(g)
        BY <1>7
    <2> HIDE DEF Q
    <2>2. Q(CHOOSE g : Q(g))
        BY <2>1
    <2>3. QED
        BY <2>2 DEF Q
<1>9. SumFunction(f) = sum[S]
    BY Zenon DEF SumFunction, SumFunctionOnSet, FoldFunctionOnSet, MapThenFoldSet, Pick
<1> HIDE DEF sum
<1>10. ASSUME NEW s \in SUBSET S PROVE sum[s] = Step(sum, s)
    <2> DEFINE D == SUBSET S
    <2> HIDE DEF D, Step
    <2>1. sum = [r \in D |-> Step(sum, r)]
        BY <1>8 DEF D
    <2>2. s \in D
        BY DEF D
    <2>3. QED
        BY <2>1, <2>2, Zenon
<1>11. QED
    BY <1>2, <1>9, <1>10

\* The sum of natural numbers is one.
LEMMA SumOfNaturals ==
    ASSUME NEW f, IsFiniteSet(DOMAIN f), \A x \in DOMAIN f : f[x] \in Nat
    PROVE  SumFunction(f) \in Nat
<1>1. PICK sum : /\ SumFunction(f) = sum[DOMAIN f]
                 /\ sum[{}] = 0
                 /\ \A s \in SUBSET DOMAIN f : s # {} =>
                        \E x \in s : sum[s] = f[x] + sum[s \ {x}]
    BY SumSteps
<1> DEFINE P == {n \in Nat :
                    \A s \in SUBSET DOMAIN f : Cardinality(s) = n => sum[s] \in Nat}
<1>2. \A s \in SUBSET DOMAIN f : IsFiniteSet(s) /\ Cardinality(s) \in Nat
    BY FS_Subset, FS_CardinalityType
<1>3. 0 \in P
    BY <1>1, <1>2, FS_EmptySet
<1>4. ASSUME NEW n \in Nat, n \in P PROVE n + 1 \in P
    <2> SUFFICES ASSUME NEW s \in SUBSET DOMAIN f, Cardinality(s) = n + 1
                 PROVE  sum[s] \in Nat
        OBVIOUS
    <2>1. s # {}
        BY FS_EmptySet
    <2>2. PICK x \in s : sum[s] = f[x] + sum[s \ {x}]
        BY <1>1, <2>1
    <2>3. Cardinality(s \ {x}) = n
        BY <1>2, FS_RemoveElement
    <2>4. sum[s \ {x}] \in Nat
        BY <1>4, <2>3
    <2>5. QED
        BY <2>2, <2>4
<1>5. Nat \subseteq P
    <2> HIDE DEF P
    <2>1. QED
        BY <1>3, <1>4, Induction
<1>6. QED
    BY <1>1, <1>2, <1>5

\* One element less.
LEMMA FewerElements ==
    ASSUME NEW s, IsFiniteSet(s), NEW x \in s, NEW n \in Nat, Cardinality(s) = n + 1
    PROVE  Cardinality(s \ {x}) = n
<1>1. Cardinality(s \ {x}) = Cardinality(s) - 1
    BY FS_RemoveElement
<1>2. QED
    BY <1>1

\* A property of sets that {} has, and that one more element keeps, holds of every part of
\* a finite set.
LEMMA PartsInduction ==
    ASSUME NEW S, IsFiniteSet(S), NEW P, {} \in P,
           \A T \in SUBSET S : \A x \in S \ T : T \in P => T \cup {x} \in P
    PROVE  SUBSET S \subseteq P
<1> DEFINE Q == {n \in Nat : \A T \in SUBSET S : Cardinality(T) = n => T \in P}
<1>1. \A T \in SUBSET S : IsFiniteSet(T) /\ Cardinality(T) \in Nat
    BY FS_Subset, FS_CardinalityType
<1>2. 0 \in Q
    BY <1>1, FS_EmptySet
<1>3. ASSUME NEW n \in Nat, n \in Q PROVE n + 1 \in Q
    <2> SUFFICES ASSUME NEW T \in SUBSET S, Cardinality(T) = n + 1 PROVE T \in P
        OBVIOUS
    <2>1. PICK x \in T : TRUE
        BY <1>1, FS_EmptySet
    <2>2. Cardinality(T \ {x}) = n
        BY <1>1, <2>1, FewerElements
    <2>3. T \ {x} \in P
        BY <1>3, <2>2
    <2>4. (T \ {x}) \cup {x} = T /\ x \in S \ (T \ {x})
        BY <2>1
    <2>5. QED
        BY <2>3, <2>4
<1>4. Nat \subseteq Q
    <2> HIDE DEF Q
    <2>1. QED
        BY <1>2, <1>3, Induction
<1>5. QED
    BY <1>1, <1>4

\* What the weights of the elements of S add up to.
Total(w, S) == SumFunction([x \in S |-> w[x]])

\* sum gives what f adds up to over each part of S.
AddsUp(sum, f, S) ==
    /\ SumFunction(f) = sum[S]
    /\ sum[{}] = 0
    /\ \A s \in SUBSET S : sum[s] \in Int
    /\ \A s \in SUBSET S : \A x \in s : sum[s] = f[x] + sum[s \ {x}]

\* Integers may be added up in any order.
LEMMA SumAnyOrder ==
    ASSUME NEW S, IsFiniteSet(S), NEW f, DOMAIN f = S, \A x \in S : f[x] \in Int
    PROVE  \E sum : AddsUp(sum, f, S)
<1>1. PICK sum : /\ SumFunction(f) = sum[DOMAIN f]
                 /\ sum[{}] = 0
                 /\ \A s \in SUBSET DOMAIN f : s # {} =>
                        \E x \in s : sum[s] = f[x] + sum[s \ {x}]
    BY SumSteps
<1>2. /\ SumFunction(f) = sum[S]
      /\ sum[{}] = 0
      /\ \A s \in SUBSET S : s # {} => \E x \in s : sum[s] = f[x] + sum[s \ {x}]
    BY <1>1
<1>3. \A s \in SUBSET S : IsFiniteSet(s) /\ Cardinality(s) \in Nat
    BY FS_Subset, FS_CardinalityType
<1>4. \A s \in SUBSET S : Cardinality(s) = 0 => s = {}
    BY <1>3, FS_EmptySet
<1>5. ASSUME NEW n \in Nat, NEW s \in SUBSET S, Cardinality(s) = n + 1, NEW x \in s
      PROVE  s \ {x} \in SUBSET S /\ Cardinality(s \ {x}) = n
    <2>1. Cardinality(s \ {x}) = n
        BY <1>3, <1>5, FewerElements
    <2>2. QED
        BY <2>1
<1>6. \A s \in SUBSET S : sum[s] \in Int
    <2> DEFINE P == {n \in Nat : \A s \in SUBSET S : Cardinality(s) = n => sum[s] \in Int}
    <2>1. 0 \in P
        <3>1. \A s \in SUBSET S : Cardinality(s) = 0 => sum[s] = 0
            BY <1>2, <1>4
        <3>2. QED
            BY <3>1
    <2>2. ASSUME NEW n \in Nat, n \in P PROVE n + 1 \in P
        <3> SUFFICES ASSUME NEW s \in SUBSET S, Cardinality(s) = n + 1 PROVE sum[s] \in Int
            OBVIOUS
        <3>0. s # {}
            BY FS_EmptySet
        <3>1. PICK x \in s : sum[s] = f[x] + sum[s \ {x}]
            BY <1>2, <3>0
        <3>2. sum[s \ {x}] \in Int
            BY <1>5, <2>2
        <3>3. QED
            BY <3>1, <3>2
    <2>3. Nat \subseteq P
        <3> HIDE DEF P
        <3>1. QED
            BY <2>1, <2>2, Induction
    <2>4. QED
        BY <1>3, <2>3
<1>7. \A s \in SUBSET S : \A x \in s : sum[s] = f[x] + sum[s \ {x}]
    <2> DEFINE P == {n \in Nat : \A s \in SUBSET S : Cardinality(s) = n =>
                        \A x \in s : sum[s] = f[x] + sum[s \ {x}]}
    <2>1. 0 \in P
        BY <1>4
    <2>2. ASSUME NEW n \in Nat, n \in P PROVE n + 1 \in P
        <3> SUFFICES ASSUME NEW s \in SUBSET S, Cardinality(s) = n + 1, NEW y \in s
                     PROVE  sum[s] = f[y] + sum[s \ {y}]
            BY DEF P
        <3>1. PICK x \in s : sum[s] = f[x] + sum[s \ {x}]
            BY <1>2
        <3>2. CASE y = x
            BY <3>1, <3>2
        <3>3. CASE y # x
            <4> DEFINE t == (s \ {x}) \ {y}
            <4>1. y \in s \ {x} /\ x \in s \ {y} /\ t = (s \ {y}) \ {x} /\ t \in SUBSET S
                BY <3>3
            <4>2. /\ s \ {x} \in SUBSET S /\ Cardinality(s \ {x}) = n
                  /\ s \ {y} \in SUBSET S /\ Cardinality(s \ {y}) = n
                BY <1>5
            <4>0. \A r \in SUBSET S : Cardinality(r) = n =>
                    \A z \in r : sum[r] = f[z] + sum[r \ {z}]
                BY <2>2
            <4> HIDE DEF P
            <4>3. sum[s \ {x}] = f[y] + sum[t]
                BY <4>0, <4>1, <4>2
            <4>4. sum[s \ {y}] = f[x] + sum[t]
                <5>1. sum[s \ {y}] = f[x] + sum[(s \ {y}) \ {x}]
                    BY <4>0, <4>1, <4>2
                <5>2. QED
                    BY <4>1, <5>1
            <4>5. sum[t] \in Int /\ f[x] \in Int /\ f[y] \in Int
                BY <1>6, <4>1
            <4> HIDE DEF t
            <4>6. QED
                BY <3>1, <4>3, <4>4, <4>5
        <3>4. QED
            BY <3>2, <3>3
    <2>3. Nat \subseteq P
        <3> HIDE DEF P
        <3>1. QED
            BY <2>1, <2>2, Induction
    <2>4. QED
        BY <1>3, <2>3
<1>8. AddsUp(sum, f, S)
    BY <1>2, <1>6, <1>7 DEF AddsUp
<1>9. QED
    BY <1>8

\* A total takes its elements one by one, whichever comes first.
LEMMA TotalSteps ==
    ASSUME NEW S, IsFiniteSet(S), NEW w, \A x \in S : w[x] \in Int
    PROVE  /\ Total(w, S) \in Int
           /\ S = {} => Total(w, S) = 0
           /\ \A x \in S : Total(w, S) = w[x] + Total(w, S \ {x})
<1> DEFINE f == [x \in S |-> w[x]]
<1>1. DOMAIN f = S /\ \A x \in S : f[x] = w[x] /\ f[x] \in Int
    OBVIOUS
<1>2. Total(w, S) = SumFunction(f)
    BY DEF Total
<1> HIDE DEF f
<1>3. PICK sum : AddsUp(sum, f, S)
    BY <1>1, SumAnyOrder
<1>4. Total(w, S) = sum[S] /\ sum[S] \in Int /\ sum[{}] = 0
    BY <1>2, <1>3 DEF AddsUp
<1>5. ASSUME NEW x \in S PROVE Total(w, S \ {x}) = sum[S \ {x}]
    <2> DEFINE T == S \ {x}
               g == [y \in T |-> w[y]]
    <2>1. T \in SUBSET S /\ IsFiniteSet(T)
        BY FS_Subset
    <2>2. DOMAIN g = T /\ \A y \in T : g[y] = w[y] /\ g[y] \in Int
        OBVIOUS
    <2>3. Total(w, T) = SumFunction(g)
        BY DEF Total
    <2> HIDE DEF T, g
    <2>4. PICK part : AddsUp(part, g, T)
        BY <2>1, <2>2, SumAnyOrder
    <2> DEFINE P == {s \in SUBSET T : part[s] = sum[s]}
    <2>5. {} \in P
        BY <1>3, <2>4 DEF AddsUp
    <2>6. ASSUME NEW s \in SUBSET T, NEW y \in T \ s, s \in P PROVE s \cup {y} \in P
        <3> DEFINE u == s \cup {y}
        <3>1. u \in SUBSET T /\ u \in SUBSET S /\ y \in u /\ u \ {y} = s
            BY <2>1, <2>6
        <3>2. g[y] = f[y] /\ part[s] = sum[s]
            BY <1>1, <2>1, <2>2, <2>6
        <3> HIDE DEF u, P
        <3>3. part[u] = g[y] + part[u \ {y}]
            BY <2>4, <3>1 DEF AddsUp
        <3>4. sum[u] = f[y] + sum[u \ {y}]
            BY <1>3, <3>1 DEF AddsUp
        <3>5. part[u] = sum[u]
            BY <3>1, <3>2, <3>3, <3>4
        <3>6. QED
            BY <3>1, <3>5 DEF u, P
    <2>7. SUBSET T \subseteq P
        <3> HIDE DEF P
        <3>1. QED
            BY <2>1, <2>5, <2>6, PartsInduction
    <2>8. part[T] = sum[T]
        BY <2>7
    <2>9. Total(w, T) = sum[T]
        BY <2>3, <2>4, <2>8 DEF AddsUp
    <2>10. QED
        BY <2>9 DEF T
<1>6. S = {} => Total(w, S) = 0
    BY <1>4
<1>7. ASSUME NEW x \in S PROVE Total(w, S) = w[x] + Total(w, S \ {x})
    <2>1. sum[S] = f[x] + sum[S \ {x}]
        BY <1>3 DEF AddsUp
    <2>2. QED
        BY <1>1, <1>4, <1>5, <2>1
<1>8. QED
    BY <1>4, <1>6, <1>7

\* Two sets without a common element are added up one after the other.
LEMMA TotalUnion ==
    ASSUME NEW S, IsFiniteSet(S), NEW T, IsFiniteSet(T), S \cap T = {},
           NEW w, \A x \in S \cup T : w[x] \in Int
    PROVE  Total(w, S \cup T) = Total(w, S) + Total(w, T)
<1> DEFINE P == {U \in SUBSET T : Total(w, S \cup U) = Total(w, S) + Total(w, U)}
<1>1. Total(w, S) \in Int
    BY TotalSteps
<1>2. {} \in P
    <2>1. S \cup {} = S /\ IsFiniteSet({})
        BY FS_EmptySet
    <2>2. Total(w, {}) = 0
        BY <2>1, TotalSteps
    <2>3. QED
        BY <1>1, <2>1, <2>2
<1>3. ASSUME NEW U \in SUBSET T, NEW x \in T \ U, U \in P PROVE U \cup {x} \in P
    <2> DEFINE V == U \cup {x}
               W == S \cup V
    <2>1. IsFiniteSet(U) /\ IsFiniteSet(V) /\ V \in SUBSET T
        BY FS_Subset
    <2>2. IsFiniteSet(W)
        BY <2>1, FS_Union
    <2>3. x \in V /\ x \in W /\ V \ {x} = U /\ W \ {x} = S \cup U
        BY <1>3
    <2>4. (\A y \in V : w[y] \in Int) /\ (\A y \in W : w[y] \in Int) /\ w[x] \in Int
        BY <2>1
    <2>5. Total(w, S \cup U) = Total(w, S) + Total(w, U)
        BY <1>3
    <2> HIDE DEF P, V, W
    <2>6. Total(w, V) = w[x] + Total(w, V \ {x})
        BY <2>1, <2>3, <2>4, TotalSteps
    <2>7. Total(w, W) = w[x] + Total(w, W \ {x})
        BY <2>2, <2>3, <2>4, TotalSteps
    <2>8. Total(w, U) \in Int
        <3>1. \A y \in U : w[y] \in Int
            BY <2>4 DEF V
        <3>2. QED
            BY <2>1, <3>1, TotalSteps
    <2>9. Total(w, W) = Total(w, S) + Total(w, V)
        <3>1. Total(w, V) = w[x] + Total(w, U)
            BY <2>3, <2>6
        <3>2. Total(w, W) = w[x] + Total(w, S \cup U)
            BY <2>3, <2>7
        <3>3. Total(w, W) = w[x] + (Total(w, S) + Total(w, U))
            BY <2>5, <3>2
        <3>4. w[x] \in Int
            BY <2>4
        <3>5. QED
            BY ONLY <1>1, <2>8, <3>1, <3>3, <3>4
    <2>10. QED
        BY <2>1, <2>9 DEF P, V, W
<1>4. SUBSET T \subseteq P
    <2> HIDE DEF P
    <2>1. \A U \in SUBSET T : \A x \in T \ U : U \in P => U \cup {x} \in P
        BY <1>3
    <2>2. IsFiniteSet(T) /\ {} \in P
        BY <1>2
    <2>3. QED
        BY ONLY <2>1, <2>2, PartsInduction
<1>5. QED
    BY <1>4

\* Renaming the elements leaves the total as it is.
LEMMA TotalImage ==
    ASSUME NEW S, IsFiniteSet(S), NEW w, \A x \in S : w[x] \in Int, NEW g, NEW u,
           \A x, y \in S : g[x] = g[y] => x = y,
           \A x \in S : u[g[x]] = w[x]
    PROVE  IsFiniteSet({g[x] : x \in S}) /\ Total(u, {g[x] : x \in S}) = Total(w, S)
<1> DEFINE Im(U) == {g[x] : x \in U}
           P == {U \in SUBSET S : IsFiniteSet(Im(U)) /\ Total(u, Im(U)) = Total(w, U)}
<1>1. {} \in P
    <2>1. Im({}) = {} /\ IsFiniteSet({})
        BY FS_EmptySet
    <2>2. Total(w, {}) = 0 /\ Total(u, {}) = 0
        BY <2>1, TotalSteps
    <2>3. QED
        BY <2>1, <2>2
<1>2. ASSUME NEW U \in SUBSET S, NEW x \in S \ U, U \in P PROVE U \cup {x} \in P
    <2> DEFINE V == U \cup {x}
    <2>1. IsFiniteSet(U) /\ IsFiniteSet(V) /\ V \in SUBSET S /\ x \in V /\ V \ {x} = U
        BY FS_Subset
    <2>2. Im(V) = Im(U) \cup {g[x]} /\ g[x] \notin Im(U)
        BY <1>2
    <2>3. IsFiniteSet(Im(U)) /\ Total(u, Im(U)) = Total(w, U)
        BY <1>2
    <2>4. \A z \in Im(V) : u[z] \in Int
        BY <2>1
    <2> HIDE DEF P, V, Im
    <2>5. IsFiniteSet(Im(V)) /\ g[x] \in Im(V) /\ Im(V) \ {g[x]} = Im(U)
        BY <2>2, <2>3, FS_AddElement
    <2>6. Total(u, Im(V)) = u[g[x]] + Total(u, Im(V) \ {g[x]})
        BY <2>4, <2>5, TotalSteps
    <2>7. Total(w, V) = w[x] + Total(w, V \ {x})
        BY <2>1, TotalSteps
    <2>8. Total(u, Im(V)) = Total(w, V)
        BY <2>1, <2>3, <2>5, <2>6, <2>7
    <2>9. QED
        BY <2>1, <2>5, <2>8 DEF P, V
<1>3. SUBSET S \subseteq P
    <2> HIDE DEF P
    <2>1. QED
        BY <1>1, <1>2, PartsInduction
<1>4. QED
    BY <1>3

\* What several sets add up to, of which no two have a common element.
LEMMA TotalOfUnion ==
    ASSUME NEW I, IsFiniteSet(I), NEW D, NEW w, NEW t,
           \A i \in I : IsFiniteSet(D[i]) /\ t[i] = Total(w, D[i]),
           \A i \in I : \A x \in D[i] : w[x] \in Int,
           \A i, j \in I : i # j => D[i] \cap D[j] = {},
           NEW U, \A x : x \in U <=> \E i \in I : x \in D[i]
    PROVE  IsFiniteSet(U) /\ Total(w, U) = Total(t, I)
<1> DEFINE All(J) == UNION {D[i] : i \in J}
           P == {J \in SUBSET I : IsFiniteSet(All(J)) /\ Total(w, All(J)) = Total(t, J)}
<1>0. \A i \in I : t[i] \in Int
    BY TotalSteps
<1>1. {} \in P
    <2>1. All({}) = {} /\ IsFiniteSet({})
        BY FS_EmptySet
    <2>2. Total(w, {}) = 0 /\ Total(t, {}) = 0
        BY <2>1, TotalSteps
    <2>3. QED
        BY <2>1, <2>2
<1>2. ASSUME NEW J \in SUBSET I, NEW i \in I \ J, J \in P PROVE J \cup {i} \in P
    <2> DEFINE K == J \cup {i}
    <2>1. IsFiniteSet(J) /\ IsFiniteSet(K) /\ K \in SUBSET I /\ i \in K /\ K \ {i} = J
        BY FS_Subset
    <2>2. All(K) = All(J) \cup D[i] /\ All(J) \cap D[i] = {}
        <3>1. All(K) = All(J) \cup D[i]
            OBVIOUS
        <3>2. \A j \in J : D[j] \cap D[i] = {}
            BY <1>2
        <3>3. QED
            BY <3>1, <3>2
    <2>3. IsFiniteSet(All(J)) /\ Total(w, All(J)) = Total(t, J)
        BY <1>2
    <2>4. IsFiniteSet(D[i]) /\ t[i] = Total(w, D[i]) /\ t[i] \in Int
        BY <1>0
    <2>5. \A x \in All(J) \cup D[i] : w[x] \in Int
        OBVIOUS
    <2> HIDE DEF P, K, All
    <2>6. IsFiniteSet(All(K))
        <3>1. IsFiniteSet(All(J) \cup D[i])
            BY <2>3, <2>4, FS_Union
        <3>2. QED
            BY <2>2, <3>1
    <2>7. Total(w, All(J) \cup D[i]) = Total(w, All(J)) + Total(w, D[i])
        BY <2>2, <2>3, <2>4, <2>5, TotalUnion
    <2>8. \A j \in K : t[j] \in Int
        BY <1>0, <2>1
    <2>9. Total(t, K) = t[i] + Total(t, K \ {i})
        BY <2>1, <2>8, TotalSteps
    <2>10. Total(t, J) \in Int
        <3>1. \A j \in J : t[j] \in Int
            BY <1>0
        <3>2. QED
            BY <2>1, <3>1, TotalSteps
    <2>11. Total(w, All(K)) = Total(t, K)
        <3>1. Total(t, K) = t[i] + Total(t, J)
            BY <2>1, <2>9
        <3>2. Total(w, All(K)) = Total(w, All(J)) + Total(w, D[i])
            BY <2>2, <2>7
        <3>3. Total(w, All(K)) = Total(t, J) + t[i]
            BY <2>3, <2>4, <3>2
        <3>4. t[i] \in Int
            BY <2>4
        <3>5. QED
            BY ONLY <2>10, <3>1, <3>3, <3>4
    <2>12. QED
        BY <2>1, <2>6, <2>11 DEF P, K
<1>3. SUBSET I \subseteq P
    <2> HIDE DEF P
    <2>1. QED
        BY <1>1, <1>2, PartsInduction
<1>4. U = All(I)
    OBVIOUS
<1>5. QED
    BY <1>3, <1>4

\* The total of differences is the difference of the totals.
LEMMA TotalDifference ==
    ASSUME NEW S, IsFiniteSet(S), NEW a, NEW b, NEW d,
           \A x \in S : a[x] \in Int /\ b[x] \in Int /\ d[x] = a[x] - b[x]
    PROVE  Total(d, S) = Total(a, S) - Total(b, S)
<1> DEFINE P == {T \in SUBSET S : Total(d, T) = Total(a, T) - Total(b, T)}
<1>1. {} \in P
    <2>1. IsFiniteSet({})
        BY FS_EmptySet
    <2>2. Total(a, {}) = 0 /\ Total(b, {}) = 0 /\ Total(d, {}) = 0
        BY <2>1, TotalSteps
    <2>3. QED
        BY <2>2
<1>2. ASSUME NEW U \in SUBSET S, NEW x \in S \ U, U \in P PROVE U \cup {x} \in P
    <2> DEFINE V == U \cup {x}
    <2>1. IsFiniteSet(U) /\ IsFiniteSet(V) /\ V \in SUBSET S /\ x \in V /\ V \ {x} = U
        BY FS_Subset
    <2>2. \A y \in V : a[y] \in Int /\ b[y] \in Int /\ d[y] \in Int
        BY <2>1
    <2>3. \A y \in U : a[y] \in Int /\ b[y] \in Int
        BY <2>1
    <2>4. Total(d, U) = Total(a, U) - Total(b, U)
        BY <1>2
    <2>5. d[x] = a[x] - b[x] /\ a[x] \in Int /\ b[x] \in Int
        OBVIOUS
    <2> HIDE DEF P, V
    <2>6. Total(a, V) = a[x] + Total(a, V \ {x})
        BY <2>1, <2>2, TotalSteps
    <2>7. Total(b, V) = b[x] + Total(b, V \ {x})
        BY <2>1, <2>2, TotalSteps
    <2>8. Total(d, V) = d[x] + Total(d, V \ {x})
        BY <2>1, <2>2, TotalSteps
    <2>9. Total(a, U) \in Int /\ Total(b, U) \in Int
        BY <2>1, <2>3, TotalSteps
    <2>10. Total(d, V) = Total(a, V) - Total(b, V)
        <3>1. Total(a, V) = a[x] + Total(a, U) /\ Total(b, V) = b[x] + Total(b, U)
            BY <2>1, <2>6, <2>7
        <3>2. Total(d, V) = d[x] + Total(d, U)
            BY <2>1, <2>8
        <3>3. Total(d, V) = (a[x] - b[x]) + (Total(a, U) - Total(b, U))
            BY <2>4, <2>5, <3>2
        <3>4. a[x] \in Int /\ b[x] \in Int
            BY <2>5
        <3>5. QED
            BY ONLY <2>9, <3>1, <3>3, <3>4
    <2>11. QED
        BY <2>1, <2>10 DEF P, V
<1>3. SUBSET S \subseteq P
    <2> HIDE DEF P
    <2>1. QED
        BY <1>1, <1>2, PartsInduction
<1>4. QED
    BY <1>3

\* The fees of a transaction that passes verify_execution are not negative.
LEMMA FeesAreNatural ==
    ASSUME NEW tx, IsTransaction(tx), NEW spentSet, NEW stored, NEW set, NEW doubt,
           Passes(tx, spentSet, stored, set, doubt)
    PROVE  Fees(tx) \in Nat
<1> DEFINE f == [i \in DOMAIN tx.transitions |-> tx.transitions[i].fee]
<1>1. Len(tx.transitions) \in Nat /\ DOMAIN tx.transitions = 1..Len(tx.transitions)
    BY ListDomain DEF IsTransaction
<1>2. IsFiniteSet(DOMAIN f)
    <2>1. DOMAIN f = 1..Len(tx.transitions)
        BY <1>1
    <2>2. QED
        BY ONLY <1>1, <2>1, FS_Interval
<1>3. \A i \in DOMAIN tx.transitions :
        tx.transitions[i].fee \in Int /\ tx.transitions[i].fee >= 0
    BY DEF IsTransaction, Passes, ValidateTransaction, VerifyTransition, VerifyExecution
<1>4. \A x \in DOMAIN f : f[x] \in Nat
    BY <1>3
<1> HIDE DEF f
<1>5. SumFunction(f) \in Nat
    BY <1>2, <1>4, SumOfNaturals
<1>6. QED
    BY <1>5 DEF Fees, f

\* Whether no two updates name the same validator.
EachValidatorOnce(updates) ==
    \A m, n \in DOMAIN updates :
        updates[m].validator = updates[n].validator => m = n

\* Then updates that are valid by themselves, as update_validators checks them, are also
\* valid one after the other, as apply needs them.
LEMMA ValidInTurn ==
    ASSUME NEW validators, NEW updates, IsList(updates), EachValidatorOnce(updates),
           \A n \in DOMAIN updates : ValidUpdate(validators, updates[n])
    PROVE  ~UpdatesPanic(validators, updates)
<1> DEFINE after == AfterUpdates(validators, updates)
<1>1. Len(updates) \in Nat /\ DOMAIN updates = 1..Len(updates)
    BY ListDomain
<1>2. ASSUME NEW n \in 1..Len(updates) PROVE ValidUpdate(after[n - 1], updates[n])
    <2> DEFINE earlier == {updates[k].validator : k \in 1..(n - 1)}
               v == updates[n].validator
    <2>1. n - 1 \in 0..Len(updates) /\ \A k \in 1..(n - 1) : k \in 1..Len(updates) /\ k # n
        BY <1>1
    <2>2. v \notin earlier
        BY <1>1, <2>1 DEF EachValidatorOnce
    <2>3. /\ DOMAIN after[n - 1] = DOMAIN validators \cup earlier
          /\ \A x \in DOMAIN validators :
                x \notin earlier => after[n - 1][x] = validators[x]
        <3> DEFINE m == n - 1
        <3>1. m \in 0..Len(updates)
            BY <2>1
        <3> HIDE DEF m
        <3>2. /\ DOMAIN after[m] =
                    DOMAIN validators \cup {updates[k].validator : k \in 1..m}
              /\ \A x \in DOMAIN validators :
                    x \notin {updates[k].validator : k \in 1..m} =>
                        after[m][x] = validators[x]
            BY <3>1, UpdatedValidators
        <3>3. QED
            BY <3>2 DEF m
    <2>4. ValidUpdate(validators, updates[n])
        BY <1>1
    <2> HIDE DEF after, earlier
    <2>5. v \in DOMAIN after[n - 1] <=> v \in DOMAIN validators
        BY <2>2, <2>3
    <2>6. v \in DOMAIN validators => after[n - 1][v] = validators[v]
        BY <2>2, <2>3
    <2>7. QED
        BY <2>4, <2>5, <2>6 DEF ValidUpdate
<1>3. QED
    BY <1>1, <1>2 DEF UpdatesPanic

----------------------------------------------------------------------------
(* The effect of a transaction.                                             *)

Inputs(tx) == ToSet(RecordSerialNumbers(tx))
Outputted(tx) == ToSet(OutputRecords(tx))

\* The fields that a ledger has.
IsLedger(l) ==
    l = [known |-> l.known, spent |-> l.spent, programs |-> l.programs,
         validators |-> l.validators, fees |-> l.fees, updated |-> l.updated,
         codes |-> l.codes, strays |-> l.strays]

\* What an accepted transaction changes.
LEMMA LedgerTxAccepts ==
    ASSUME NEW l, NEW tx, NEW doubt, IsLedger(l), Accepts(l, tx, doubt)
    PROVE  /\ IsLedger(LedgerTx(l, tx, doubt))
           /\ LedgerTx(l, tx, doubt).known = l.known \cup Outputted(tx)
           /\ LedgerTx(l, tx, doubt).spent = l.spent \cup Inputs(tx)
           /\ LedgerTx(l, tx, doubt).programs =
                IF tx.kind = "Deployment" THEN l.programs \cup {tx.program} ELSE l.programs
           /\ LedgerTx(l, tx, doubt).validators =
                AfterUpdates(l.validators, StakeUpdates(tx))[Len(StakeUpdates(tx))]
           /\ LedgerTx(l, tx, doubt).fees = l.fees + Fees(tx)
           /\ LedgerTx(l, tx, doubt).codes = Append(l.codes, TRUE)
<1> DEFINE updates == StakeUpdates(tx)
           set == AfterUpdates(l.validators, updates)[Len(updates)]
           programs2 == IF tx.kind = "Deployment" THEN l.programs \cup {tx.program}
                        ELSE l.programs
<1>1. LedgerTx(l, tx, doubt) =
        [l EXCEPT !.known = @ \cup Outputted(tx), !.spent = @ \cup Inputs(tx),
                  !.programs = programs2, !.validators = set,
                  !.updated = @ \cup UpdatedBy(updates), !.fees = @ + Fees(tx),
                  !.codes = Append(@, TRUE)]
    BY Zenon DEF LedgerTx, Outputted, Inputs
<1> HIDE DEF updates, set, programs2
<1>2. QED
    BY <1>1 DEF IsLedger, updates, set, programs2

\* What a rejected one leaves.
LEMMA LedgerTxRejects ==
    ASSUME NEW l, NEW tx, NEW doubt, IsLedger(l), ~Accepts(l, tx, doubt)
    PROVE  /\ IsLedger(LedgerTx(l, tx, doubt))
           /\ LedgerTx(l, tx, doubt).known = l.known
           /\ LedgerTx(l, tx, doubt).spent = l.spent
           /\ LedgerTx(l, tx, doubt).programs = l.programs
           /\ LedgerTx(l, tx, doubt).validators = l.validators
           /\ LedgerTx(l, tx, doubt).fees = l.fees
           /\ LedgerTx(l, tx, doubt).codes = Append(l.codes, FALSE)
<1> DEFINE strays2 == IF Valid(l, tx, doubt) THEN l.strays \cup StrayInputs(l, tx)
                      ELSE l.strays
<1>1. LedgerTx(l, tx, doubt) = [l EXCEPT !.codes = Append(@, FALSE), !.strays = strays2]
    BY Zenon DEF LedgerTx
<1> HIDE DEF strays2
<1>2. QED
    BY <1>1 DEF IsLedger

\* What happens to the inputs that nobody made.
LEMMA LedgerTxStrays ==
    ASSUME NEW l, NEW tx, NEW doubt, IsLedger(l)
    PROVE  /\ l.strays \subseteq LedgerTx(l, tx, doubt).strays
           /\ Accepts(l, tx, doubt) => LedgerTx(l, tx, doubt).strays = l.strays
           /\ ~Valid(l, tx, doubt) => LedgerTx(l, tx, doubt).strays = l.strays
           /\ Valid(l, tx, doubt) /\ ~Accepts(l, tx, doubt) =>
                LedgerTx(l, tx, doubt).strays = l.strays \cup StrayInputs(l, tx)
<1>1. CASE Accepts(l, tx, doubt)
    <2>1. LedgerTx(l, tx, doubt).strays = l.strays
        BY <1>1 DEF LedgerTx, IsLedger
    <2>2. Valid(l, tx, doubt)
        BY <1>1 DEF Accepts
    <2>3. QED
        BY <1>1, <2>1, <2>2
<1>2. CASE ~Accepts(l, tx, doubt)
    <2> DEFINE strays2 == IF Valid(l, tx, doubt) THEN l.strays \cup StrayInputs(l, tx)
                          ELSE l.strays
    <2>1. LedgerTx(l, tx, doubt) =
            [l EXCEPT !.codes = Append(@, FALSE), !.strays = strays2]
        BY <1>2, Zenon DEF LedgerTx
    <2> HIDE DEF strays2
    <2>2. LedgerTx(l, tx, doubt).strays = strays2
        BY <2>1 DEF IsLedger
    <2>3. QED
        BY <1>2, <2>2 DEF strays2
<1>3. QED
    BY <1>1, <1>2
============================================================================
